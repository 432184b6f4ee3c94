----------------------------- MODULE MCToolCalls -----------------------------
(***************************************************************************)
(* ToolCalls with the SQL gates of SqlGate, for TLC: four connectors, a    *)
(* table the policy closes, two calls of two people, a statement for each  *)
(* way a closed table can be named or a row cap got round.                 *)
(***************************************************************************)
EXTENDS ToolCalls, TLC

CONSTANTS c1, c2, pg, rest, wiki, own, ann, bob, strict

Gate == INSTANCE SqlGate WITH
  System <- [d \in {"postgres", "mssql", "oracle"} |-> {"catalog"}],
  SafeFunction <- [d \in {"postgres", "mssql", "oracle"} |-> {"count"}],
  Home <- "app", Many <- 9

Orders == <<"app", "orders">>
People == <<"app", "people">>
Wages == <<"app", "wages">>   \* the policy closes it

MCTable == {Orders, People, Wages}
MCOrder == <<pg, rest, wiki, own>>
MCType == pg :> "postgres" @@ rest :> "supabase-rest" @@ wiki :> "docs" @@ own :> "custom-sql"
MCHolds == pg :> MCTable @@ rest :> {Orders, Wages} @@ wiki :> {People} @@ own :> {}
MCWho == c1 :> ann @@ c2 :> bob
-----------------------------------------------------------------------------
(* Statements.                                                             *)

From(t) == [type |-> "table", schema |-> t[1], name |-> t[2], on |-> <<>>]
Alias(a) == [type |-> "table", schema |-> "", name |-> a, on |-> <<>>]
Select(from, limit) ==
  [type |-> "select", from |-> from, where |-> <<>>, having |-> <<>>, groupBy |-> <<>>,
   orderBy |-> <<>>, columns |-> <<[type |-> "ref"]>>, distinctOn |-> <<>>, bounds |-> <<>>,
   limit |-> limit]
Plain(t) == Select(<<From(t)>>, Gate!NoLimit)
Calling(fn) == [type |-> "call", fn |-> fn, args |-> <<[type |-> "ref"]>>, window |-> <<>>, on |-> <<>>]
Sent(s) == [text |-> {}, head |-> "read", stmts |-> <<s>>]

One == Sent(Select(<<From(Orders)>>, 1))
All == Sent(Plain(Orders))
Hidden == Sent([Plain(Orders) EXCEPT !.having = <<[type |-> "op", args |-> <<Plain(Wages)>>]>>])
Windowed == Sent([Plain(Orders) EXCEPT !.columns =
                    <<[Calling("count") EXCEPT !.window = <<Plain(Wages)>>]>>])
Both == Sent([type |-> "union", left |-> Plain(Orders), right |-> Plain(People)])
With(alias, body) == [type |-> "with", bind |-> <<[alias |-> alias, body |-> body]>>, recursive |-> FALSE,
                      in |-> Select(<<Alias(alias)>>, Gate!NoLimit)]
Bound == Sent(With("o", Plain(Orders)))
Joined == Sent(Select(<<From(Orders), [From(People) EXCEPT !.on = <<Plain(Wages)>>]>>, Gate!NoLimit))
Sleeping == Sent(Select(<<From(Orders), Calling("pg_sleep")>>, Gate!NoLimit))
Topped == Sent(Select(<<From(Orders)>>, Gate!Computed))

\* Statements the Postgres gate, or every gate, reads otherwise than a database.
OwnName == Sent(With("wages", Select(<<Alias("wages")>>, Gate!NoLimit)))
InRows == Sent([Plain(Orders) EXCEPT !.where = <<[type |-> "values", rows |-> <<Plain(Wages)>>]>>])
InBounds == Sent([Plain(Orders) EXCEPT !.distinctOn = <<[type |-> "ref"]>>, !.bounds = <<Plain(Wages)>>])

MCSql == {One, All, Hidden, Windowed, Both, Bound, Joined, Sleeping, Topped, OwnName, InRows, InBounds}
MCGuard(dialect, sql, permitted, cap) == Gate!GuardSql(dialect, sql, permitted, cap)
MCReads(sql) == Gate!TablesRead(sql.stmts[1])
MCWhole(sql) == Gate!Walked(sql.stmts[1])
MCAtMost(sql) == Gate!RowsAtMost(sql.stmts[1])
MCSimple(sql) == IF sql \in {One, All} THEN Orders ELSE None
-----------------------------------------------------------------------------
(* Policies, requests.                                                     *)

Policy(dialect, denyTools, denyConnectors) ==
  [allowTools |-> {}, denyTools |-> denyTools, allowConnectors |-> Connector,
   denyConnectors |-> denyConnectors, allowTables |-> MCTable, denyTables |-> {Wages}, maxRows |-> 2,
   dialect |-> dialect, actorProfiles |-> ann :> strict @@ bob :> strict, profiles |-> strict :> 1]

MCConfigs == {[connectors |-> <<pg, rest, wiki>>, policy |-> Policy(None, {}, {})],
             [connectors |-> MCOrder, policy |-> Policy("mssql", {"search"}, {wiki})],
             [connectors |-> <<wiki, own, rest, pg>>, policy |-> Policy("oracle", {}, {own})],
             [connectors |-> MCOrder, policy |-> Policy(None, {}, {})],
             [connectors |-> <<pg>>, policy |-> [Policy(None, {}, {}) EXCEPT !.allowConnectors = {}]],
             [connectors |-> <<>>, policy |-> [Policy(None, {}, {}) EXCEPT !.allowConnectors = {}]]}

Ask0 == [tool |-> "unknown", conn |-> None, table |-> None, tables |-> {}, sql |-> None, short |-> FALSE]
Asking(sql, conns) == {[Ask0 EXCEPT !.tool = "query", !.sql = q, !.conn = n] : q \in sql, n \in conns}
Listing == {[Ask0 EXCEPT !.tool = "list_tables", !.conn = n] : n \in {None, rest}}

MCRequests(c) ==
  IF c = c2 THEN Asking({All}, {None}) \cup {[Ask0 EXCEPT !.tool = "list_tables"]}
  ELSE {Ask0} \cup Listing \cup Asking(MCSql, {None}) \cup Asking({One, Hidden}, {rest})
       \cup Asking({All}, {own, wiki})
       \cup {[Ask0 EXCEPT !.tool = "describe_table", !.table = t, !.conn = n] :
                t \in {Orders, Wages}, n \in {None, wiki}}
       \cup {[Ask0 EXCEPT !.tool = "search", !.tables = T, !.short = b] :
                T \in {{}, {People, Wages, <<"app", "gone">>}, {Wages}}, b \in BOOLEAN}
       \cup {[Ask0 EXCEPT !.tool = "resource", !.conn = n] : n \in {pg, wiki}}
-----------------------------------------------------------------------------
\* Configurations are as the theorem on the calls' lines has them.
ASSUME ConfigsHold == DistinctNames
=============================================================================
