------------------------------ MODULE SqlGate -------------------------------
(***************************************************************************)
(* What a statement may read: Governance.guardSql of src/governance.ts and *)
(* the gates of src/sql-gate/ for the three dialects.  A statement that    *)
(* passes is answered under a row cap the gate writes into it; the tables  *)
(* the gate saw go into the audit record.                                  *)
(*                                                                         *)
(* A statement is the tree its parser returns, without what the gates do   *)
(* not look at:                                                            *)
(*   [text, head, stmts]                   the SQL as it was sent          *)
(*   [type: "select", from, where, having, groupBy, orderBy, columns,      *)
(*    distinctOn, bounds, limit]           sequences of nodes; bounds: the *)
(*                                         expressions of OFFSET, and of   *)
(*                                         a nested select's LIMIT; limit: *)
(*                                         a number, NoLimit or Computed   *)
(*   [type: "union", left, right]          any set operation               *)
(*   [type: "with", bind, in, recursive]   bind: sequence of [alias, body] *)
(*   [type: "values", rows]                rows: their expressions         *)
(*   [type: "write"]                       anything that is not a read     *)
(*   [type: "table", schema, name, on]     schema "" when there is none    *)
(*   [type: "derived", body, on]           a subquery in FROM              *)
(*   [type: "call", fn, args, window, on]  args: with FILTER and ORDER BY; *)
(*                                         window: OVER's expressions; on: *)
(*                                         of a function in FROM           *)
(*   [type: "op", args]                    casts, operators, CASE, lists   *)
(*   [type: "ref"]                         columns and constants           *)
(* Masked outputs and policy.protectedColumns are left out.                *)
(***************************************************************************)
EXTENDS Naturals, Sequences, SequencesExt

CONSTANTS
  System,       \* the schemas of the system catalog, by dialect
  SafeFunction, \* the functions a query may call, by dialect
  Home,         \* the schema a database looks a bare name up in
  Many          \* more rows than any cap

NoLimit == Many
Computed == Many + 1   \* LIMIT with an expression, TOP .. PERCENT

Statements == {"select", "union", "with"}
Nested == Statements \cup {"values"}
Nothing == [tables |-> {}, refused |-> FALSE]
Refusal == [tables |-> {}, refused |-> TRUE]
AllOf(seen) == [tables |-> UNION {s.tables : s \in seen}, refused |-> \E s \in seen : s.refused]
Qualified(t) == <<t.schema, t.name>>

\* enforceTableAccess, policyAllows.
Access(dialect, t, permitted) ==
  [tables |-> {Qualified(t)}, refused |-> t.schema \in System[dialect] \/ Qualified(t) \notin permitted]

\* inspectFunction, denyUnsafeFunction.
Called(dialect, node) == [tables |-> {}, refused |-> node.fn \notin SafeFunction[dialect]]
-----------------------------------------------------------------------------
(* The Postgres gate walks the clauses it knows: not the rows of VALUES,   *)
(* nor DISTINCT ON, LIMIT and OFFSET.  All names of a WITH are in scope in *)
(* each of its bindings, whatever the database makes of them.              *)

\* Mutant: HAVING is not walked.
Clauses_NoHaving(s) == s.where \o s.groupBy \o s.orderBy \o s.columns

\* The expressions of a select, in analyzeSelect's order.
Clauses(s) == s.where \o s.having \o s.groupBy \o s.orderBy \o s.columns

RECURSIVE AnalyzeRead(_, _, _), CollectFrom(_, _, _), CollectExpr(_, _, _)

\* A statement, the names of the CTEs in scope and the tables the policy permits.
AnalyzeRead(s, ctes, permitted) ==
  CASE s.type = "with" ->
         LET scoped == ctes \cup {b.alias : b \in ToSet(s.bind)}
         IN  AllOf({AnalyzeRead(b.body, scoped, permitted) : b \in ToSet(s.bind)}
                   \cup {AnalyzeRead(s.in, scoped, permitted)})
    [] s.type = "select" ->
         AllOf({CollectFrom(f, ctes, permitted) : f \in ToSet(s.from)}
               \cup {CollectExpr(e, ctes, permitted) : e \in ToSet(Clauses(s))})
    [] s.type = "union" ->
         AllOf({AnalyzeRead(s.left, ctes, permitted), AnalyzeRead(s.right, ctes, permitted)})
    [] s.type = "values" -> Nothing
    [] OTHER -> Refusal

CollectFrom(f, ctes, permitted) ==
  LET source == CASE f.type = "table" /\ f.schema = "" ->
                       IF f.name \in ctes THEN Nothing ELSE Refusal
                  [] f.type = "table" /\ f.schema # "" -> Access("postgres", f, permitted)
                  [] f.type = "derived" -> AnalyzeRead(f.body, ctes, permitted)
                  [] f.type = "call" -> CollectExpr(f, ctes, permitted)
  IN  AllOf({source} \cup {CollectExpr(e, ctes, permitted) : e \in ToSet(f.on)})

\* Mutant: the expressions of OVER are not walked.
CollectExpr_NoWindow(e, ctes, permitted) ==
  CASE e.type = "call" ->
         AllOf({Called("postgres", e)} \cup {CollectExpr(x, ctes, permitted) : x \in ToSet(e.args)})
    [] e.type = "op" -> AllOf({CollectExpr(x, ctes, permitted) : x \in ToSet(e.args)})
    [] e.type \in Nested -> AnalyzeRead(e, ctes, permitted)
    [] OTHER -> Nothing

CollectExpr(e, ctes, permitted) ==
  CASE e.type = "call" ->
         AllOf({Called("postgres", e)}
               \cup {CollectExpr(x, ctes, permitted) : x \in ToSet(e.args \o e.window)})
    [] e.type = "op" -> AllOf({CollectExpr(x, ctes, permitted) : x \in ToSet(e.args)})
    [] e.type \in Nested -> AnalyzeRead(e, ctes, permitted)
    [] OTHER -> Nothing
-----------------------------------------------------------------------------
(* The gates of the other dialects visit every node.                       *)

Children(n) ==
  CASE n.type = "with" -> {b.body : b \in ToSet(n.bind)} \cup {n.in}
    [] n.type = "select" -> ToSet(n.from \o n.where \o n.having \o n.groupBy \o n.orderBy
                                  \o n.columns \o n.distinctOn \o n.bounds)
    [] n.type = "union" -> {n.left, n.right}
    [] n.type = "values" -> ToSet(n.rows)
    [] n.type = "table" -> ToSet(n.on)
    [] n.type = "derived" -> {n.body} \cup ToSet(n.on)
    [] n.type = "call" -> ToSet(n.args \o n.window \o n.on)
    [] n.type = "op" -> ToSet(n.args)
    [] OTHER -> {}

RECURSIVE Nodes(_)
Nodes(n) == {n} \cup UNION {Nodes(m) : m \in Children(n)}

\* collectCteNames: T-SQL's are those of the statement, Oracle's those of the
\* whole tree.
CteNames(dialect, s) ==
  UNION {{b.alias : b \in ToSet(n.bind)} :
           n \in {m \in IF dialect = "oracle" THEN Nodes(s) ELSE {s} : m.type = "with"}}

\* collectTables, collectFunctions and the loop over the tables they return.
WalkAll(dialect, s, permitted) ==
  LET ctes == CteNames(dialect, s)
      Seen(n) == CASE n.type = "table" /\ n.schema = "" ->
                        IF n.name \in ctes THEN Nothing ELSE Refusal
                   [] n.type = "table" /\ n.schema # "" -> Access(dialect, n, permitted)
                   [] n.type = "call" -> Called(dialect, n)
                   [] OTHER -> Nothing
  IN  AllOf({Seen(n) : n \in Nodes(s)})
-----------------------------------------------------------------------------
(* The row cap.                                                            *)

\* Mutant: a union of the mssql and postgres dialects is not wrapped.
Wrapped_Never(s, cap) == s

\* A set operation has no limit of its own: the cap goes around it.
Wrapped(s, cap) ==
  [type |-> "select", from |-> <<[type |-> "derived", body |-> s, on |-> <<>>]>>, where |-> <<>>,
   having |-> <<>>, groupBy |-> <<>>, orderBy |-> <<>>, columns |-> <<>>, distinctOn |-> <<>>,
   bounds |-> <<>>, limit |-> cap]

\* A limit below the cap is never raised.
Clamped(s, cap) == IF s.limit <= cap THEN s ELSE [s EXCEPT !.limit = cap]

\* postgresLimitTarget: the select a LIMIT can be attached to, if there is one.
RECURSIVE HasLimitTarget(_)
HasLimitTarget(s) == s.type = "select" \/ (s.type = "with" /\ HasLimitTarget(s.in))

RECURSIVE LimitTarget(_, _)
LimitTarget(s, cap) == IF s.type = "select" THEN Clamped(s, cap)
                       ELSE [s EXCEPT !.in = LimitTarget(s.in, cap)]

\* applyPostgresRowCap, and the wrapping in guardQuery.
CapPostgres(s, cap) == IF HasLimitTarget(s) THEN LimitTarget(s, cap) ELSE Wrapped(s, cap)

\* applyTop on the select a WITH is attached to, wrapUnion.
CapMssql(s, cap) ==
  CASE s.type = "select" -> Clamped(s, cap)
    [] s.type = "with" /\ s.in.type = "select" -> [s EXCEPT !.in = Clamped(s.in, cap)]
    [] OTHER -> Wrapped(s, cap)

\* applyFetchCap wraps every statement.
Capped(dialect, s, cap) ==
  CASE dialect = "postgres" -> CapPostgres(s, cap)
    [] dialect = "mssql" -> CapMssql(s, cap)
    [] dialect = "oracle" -> Wrapped(s, cap)
-----------------------------------------------------------------------------
(* The gates.                                                              *)

\* The rows a database can return at most for a statement; of one that is wrapped,
\* no more than it returns itself.
RECURSIVE RowsAtMost(_)
RowsAtMost(s) ==
  CASE s.type = "select" ->
         LET asked == IF s.limit = Computed THEN Many ELSE s.limit
             inner == {RowsAtMost(t.body) : t \in {u \in ToSet(s.from) : u.type = "derived"}}
         IN  IF Len(s.from) = 1 THEN Min(inner \cup {asked}) ELSE asked
    [] s.type = "with" -> RowsAtMost(s.in)
    [] s.type = "union" -> Many
    [] s.type = "values" -> Len(s.rows)

\* TOP n PERCENT is no cap: applyTop refuses it.
Percent(dialect, s) ==
  LET top == IF s.type = "with" THEN s.in ELSE s
  IN  dialect = "mssql" /\ top.type = "select" /\ top.limit = Computed

\* guardQuery, guardMssqlQuery, guardOracleQuery.  text: the tokens a gate
\* looks for before it parses; stmts: what the parser returned.  Of a refusal
\* the tables seen so far are left out.
GuardSql(dialect, sql, permitted, cap) ==
  LET stmt == sql.stmts[1]
      tokens == CASE dialect = "postgres" -> {"write", "lock"}
                  [] dialect = "mssql" -> {"write", "batch"}
                  [] dialect = "oracle" -> {"write", "package"}
      seen == IF dialect = "postgres" THEN AnalyzeRead(stmt, {}, permitted)
              ELSE WalkAll(dialect, stmt, permitted)
  IN  IF \/ sql.head # "read"
         \/ sql.text \cap tokens # {}
         \/ Len(sql.stmts) # 1
         \/ stmt.type \notin Statements
         \/ seen.refused
         \/ Percent(dialect, stmt)
      THEN [refused |-> TRUE, tables |-> {}, rows |-> 0]
      ELSE [refused |-> FALSE, tables |-> seen.tables,
            rows |-> RowsAtMost(Capped(dialect, stmt, cap))]
-----------------------------------------------------------------------------
(* What a database makes of a statement, to hold the gates to.             *)

\* The tables read under a node, within the names of the WITHs around it: a
\* binding sees those before it, and itself if it is recursive.  A bare name
\* that none of them defines keeps the schema "".
RECURSIVE Resolved(_, _)
Resolved(n, scope) ==
  CASE n.type = "table" ->
         (IF n.schema = "" /\ n.name \in scope THEN {} ELSE {Qualified(n)})
         \cup UNION {Resolved(m, scope) : m \in Children(n)}
    [] n.type = "with" ->
         LET Names(last) == scope \cup {n.bind[j].alias : j \in 1..last}
         IN  UNION {Resolved(n.bind[i].body, Names(IF n.recursive THEN i ELSE i - 1)) :
                      i \in DOMAIN n.bind}
             \cup Resolved(n.in, Names(Len(n.bind)))
    [] OTHER -> UNION {Resolved(m, scope) : m \in Children(n)}

\* The tables it reads, wherever they are named; a bare name is looked up in Home.
TablesRead(s) == {IF t[1] = "" THEN <<Home, t[2]>> ELSE t : t \in Resolved(s, {})}

\* What the Postgres gate does not visit of a node.
Unvisited(n) ==
  CASE n.type = "select" -> ToSet(n.distinctOn \o n.bounds)
    [] n.type = "values" -> ToSet(n.rows)
    [] OTHER -> {}

\* A statement whose tables lie where every gate looks: none below what is not
\* visited, and no bare name but of a WITH the database has in scope there.
Walked(s) ==
  /\ \A n \in Nodes(s) : \A m \in Unvisited(n) : \A t \in Nodes(m) : t.type # "table"
  /\ \A t \in Resolved(s, {}) : t[1] # ""
=============================================================================
