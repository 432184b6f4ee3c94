------------------------------ MODULE ToolCalls ------------------------------
(***************************************************************************)
(* The MCP server of src/server.ts: a tool call is checked against the     *)
(* policy, asks a connector, and is answered after audit.log has written   *)
(* what it is answered with.  The policy is the one the server booted with *)
(* from conarium.config.json.                                              *)
(*                                                                         *)
(* A handler runs undisturbed up to an `await` of a connector; calls of    *)
(* all sessions interleave there.  The process may stop at any time.  The  *)
(* audit trail is the pair of files of module AuditLog; here a write of it *)
(* succeeds, fails, or leaves a line without its receipt.  What a gate     *)
(* makes of a statement (module SqlGate) is the parameter Guard.  Rows and *)
(* tables are counted and named; masking them is left out.                 *)
(***************************************************************************)
EXTENDS Naturals, Sequences, FiniteSets, Connectors

CONSTANTS
  Call, Tool, Connector, Table, Sql, Person, Profile,
  Unreachable,   \* those that may fail to connect
  Type,          \* the type of each
  Holds,         \* the tables each one lists
  Guard(_, _, _, _),   \* guardSql of a dialect, a statement, the permitted tables and the cap
  Reads(_),      \* the tables a statement reads in a database
  Whole(_),      \* whether they all lie where a gate looks
  AtMost(_),     \* the rows a statement asks for at most
  Simple(_),     \* the table of a statement parseSimpleSelect takes, or None
  Requests(_),   \* the requests a call may carry
  Who,           \* the person each call's session was opened by
  PerUser,       \* those of them with a token of their own
  Configs,       \* the connectors and policies the file may hold when a server boots
  Rows,          \* the rows of a table
  FailClosed,    \* audit.failClosed
  MaxDetailed,   \* tables one schema resource describes
  MaxBoots,      \* bound: starts of the server
  None

Dialects == {"postgres", "mssql", "oracle"}
IsPolicy(p) ==
  /\ p.allowConnectors \subseteq Connector
  /\ p.allowTables \subseteq Table
  /\ p.maxRows \in Nat
  /\ p.dialect \in Dialects \cup {None}
  /\ p.actorProfiles \in [Person -> Profile]
  /\ DOMAIN p.profiles \subseteq Profile
  /\ \A q \in DOMAIN p.profiles : p.profiles[q] \in Nat
Caps == {config.policy.maxRows : config \in Configs}
        \cup UNION {{config.policy.profiles[p] : p \in DOMAIN config.policy.profiles} : config \in Configs}

ASSUME ConfigAssumption ==
  /\ Type \in [Connector -> Types] /\ Holds \in [Connector -> SUBSET Table]
  /\ Who \in [Call -> Person]
  /\ Unreachable \subseteq {n \in Connector : "fails" \in Behaviour[Type[n]].connect}
  /\ IsFiniteSet(Table)
  /\ Rows \in Nat /\ MaxDetailed \in Nat /\ MaxBoots \in Nat /\ FailClosed \in BOOLEAN
  /\ \A config \in Configs : config.connectors \in Seq(Connector) /\ IsPolicy(config.policy)
  /\ None \notin Profile /\ None \notin Table

ASSUME RequestAssumption ==
  \A c \in Call : \A r \in Requests(c) : r.tool = "query" => r.sql \in Sql

\* A gate refuses, or says which tables a statement reads.
ASSUME GateAssumption ==
  \A sql \in Sql :
    /\ Reads(sql) \subseteq Table /\ Whole(sql) \in BOOLEAN /\ Simple(sql) \in Table \cup {None} /\ AtMost(sql) \in Nat
    /\ \A d \in Dialects, permitted \in SUBSET Table, cap \in Caps :
         Guard(d, sql, permitted, cap) \in [refused : BOOLEAN, tables : SUBSET Table, rows : Nat]

\* A gate that refuses what reads other tables than the permitted ones, if it
\* looks where they are named.
GateSound ==
  \A sql \in Sql, d \in Dialects, permitted \in SUBSET Table, cap \in Caps :
    Whole(sql) => Guard(d, sql, permitted, cap).refused \/ Reads(sql) \subseteq permitted

\* A gate that names nothing but what is read, and all of it where it looks.
GateNames ==
  \A sql \in Sql, d \in Dialects, permitted \in SUBSET Table, cap \in Caps :
    LET gate == Guard(d, sql, permitted, cap)
    IN  gate.refused \/ (gate.tables \subseteq Reads(sql) /\ (Whole(sql) => Reads(sql) \subseteq gate.tables))

\* A gate that lets a statement return no more than the cap, nor than it asks for.
GateCaps ==
  \A sql \in Sql, d \in Dialects, permitted \in SUBSET Table, cap \in Caps :
    LET gate == Guard(d, sql, permitted, cap)
    IN  gate.refused \/ (gate.rows <= cap /\ gate.rows <= AtMost(sql))

\* No configuration has two connectors of one name.
DistinctNames ==
  \A config \in Configs : \A i, j \in DOMAIN config.connectors :
    config.connectors[i] = config.connectors[j] => i = j

VARIABLES
  server,   \* the running process: its connectors and policy
  call,     \* each tool call
  trail,    \* the entries of the audit trail
  asked     \* what the connectors were asked

vars == <<server, call, trail, asked>>

Down == [up |-> FALSE, boots |-> 0, connectors |-> <<>>, failed |-> {}, policy |-> None]

NewCall == [pc |-> "new", req |-> None, at |-> 0, tables |-> {}, rows |-> 0,
            parts |-> {}, nth |-> 0, recorded |-> FALSE, lost |-> FALSE]
Waiting == {"arrived", "listing", "describing", "querying", "scoping", "searching", "reading",
            "detailing", "replying"}
Ended == {"data", "error", "rejected", "gone"}

Init ==
  /\ server = Down
  /\ call = [c \in Call |-> NewCall]
  /\ trail = {}
  /\ asked = {}
-----------------------------------------------------------------------------
(* The policy.                                                             *)

policy == server.policy

\* resolveSqlDialect: postgres when the policy does not say.
Dialect == IF policy.dialect = None THEN "postgres" ELSE policy.dialect

AllowsTool(t) == t \notin policy.denyTools /\ (policy.allowTools = {} \/ t \in policy.allowTools)
AllowsTable(t) == t \in policy.allowTables \ policy.denyTables
AllowsConnector(n) == n \in policy.allowConnectors \ policy.denyConnectors

\* filterTables: the tables a connector lists and the policy permits.
Allowed(conn) == {t \in Holds[conn] : AllowsTable(t)}

\* forActor: the profile in force, or None for the base policy.
Applied(c) == IF Who[c] \in PerUser /\ policy.actorProfiles[Who[c]] \in DOMAIN policy.profiles
              THEN policy.actorProfiles[Who[c]] ELSE None

CapOf(profile) == IF profile = None THEN policy.maxRows ELSE policy.profiles[profile]
MaxRows(c) == CapOf(Applied(c))

\* Connectors are known by their place in the configuration.
Live == {i \in DOMAIN server.connectors : server.connectors[i] \notin server.failed}
Permitted == {i \in Live : AllowsConnector(server.connectors[i])}
Able(need) == {i \in Permitted : need \in Behaviour[Type[server.connectors[i]]].can}
First(S) == CHOOSE i \in S : \A j \in S : i <= j

\* getConnector: the one that was named, or the first that can, or the first.
Choices(n, need) ==
  IF n # None THEN {i \in Permitted : server.connectors[i] = n}
  ELSE IF Able(need) # {} THEN Able(need) ELSE Permitted

\* The connector a call is at.
Conn(c) == server.connectors[call[c].at]
Ends(c) == Behaviour[Type[Conn(c)]]
-----------------------------------------------------------------------------
(* The audit trail: kaydet, audit.log.                                     *)

\* A write that throws has left no receipt.  One that fails without a throw
\* happens only if the operator gave up failClosed.
Outcomes == {o \in [line : BOOLEAN, receipt : BOOLEAN, thrown : BOOLEAN] :
               IF o.thrown THEN ~o.receipt ELSE FailClosed => (o.line /\ o.receipt)}

Entry(c, denied, target, rows, tables) ==
  [call |-> c, nth |-> call[c].nth, denied |-> denied, target |-> target, rows |-> rows,
   tables |-> tables, profile |-> Applied(c), receipt |-> FALSE]
Denial(c) == Entry(c, TRUE, None, 0, {})

Written(e, o) == IF o.line THEN {[e EXCEPT !.receipt = o.receipt]} ELSE {}

\* Mutant: a list_tables call forgets that a connector's line is written.
AfterWrite_Forgets(k, pc, o) ==
  [k EXCEPT !.pc = pc, !.nth = @ + 1, !.lost = @ \/ ~(o.line /\ o.receipt)]

\* The flag accessRecorded is set before the write.
AfterWrite(k, pc, o) ==
  [k EXCEPT !.pc = pc, !.nth = @ + 1, !.recorded = TRUE, !.lost = @ \/ ~(o.line /\ o.receipt)]

\* Mutant: a failed write is logged and the handler goes on.
Record_Swallows(c, e, k, pc, thrownPc) ==
  \E o \in Outcomes : trail' = trail \cup Written(e, o) /\ call' = [call EXCEPT ![c] = AfterWrite(k, pc, o)]

\* A handler writes e and goes on to pc; a write that throws ends it.
Record(c, e, k, pc, thrownPc) ==
  \E o \in Outcomes :
    /\ trail' = trail \cup Written(e, o)
    /\ call' = [call EXCEPT ![c] = AfterWrite(k, IF o.thrown THEN thrownPc ELSE pc, o)]

\* recordAccess of a refusal, and a throw: the catch block adds nothing.
Refuse(c) == Record(c, Denial(c), call[c], "error", "error") /\ UNCHANGED asked

\* A throw nothing has recorded yet is recorded by the catch block.
Catch(c) ==
  IF call[c].recorded
  THEN call' = [call EXCEPT ![c].pc = "error"] /\ UNCHANGED <<trail, asked>>
  ELSE Record(c, Denial(c), call[c], "error", "rejected") /\ UNCHANGED asked

\* recordAccess of what is about to be answered.
Answer(c, target, rows, tables) ==
  /\ Record(c, Entry(c, FALSE, target, rows, tables),
            [call[c] EXCEPT !.parts = {[target |-> target, rows |-> rows, tables |-> tables]}],
            "replying", "error")
  /\ UNCHANGED asked

\* The handler calls the connector k is at and waits for it.
Ask(c, k, tables) ==
  /\ call' = [call EXCEPT ![c] = k]
  /\ asked' = asked \cup {[call |-> c, conn |-> server.connectors[k.at], tables |-> tables]}
  /\ UNCHANGED trail

Handler(c, pc, tool) == server.up /\ call[c].pc = pc /\ call[c].req.tool = tool
-----------------------------------------------------------------------------
(* tools/call.                                                             *)

Arrive(c) ==
  /\ server.up /\ call[c].pc = "new"
  /\ \E r \in Requests(c) : call' = [call EXCEPT ![c].pc = "arrived", ![c].req = r]
  /\ UNCHANGED <<server, trail, asked>>

\* A tool the policy closes is refused before everything else, outside the try.
DenyTool(c) ==
  /\ server.up /\ call[c].pc = "arrived"
  /\ call[c].req.tool # "resource" /\ ~AllowsTool(call[c].req.tool)
  /\ Record(c, Denial(c), call[c], "rejected", "rejected")
  /\ UNCHANGED asked

Called(c, tool) == Handler(c, "arrived", tool) /\ AllowsTool(tool)
Req(c) == call[c].req

UnknownTool(c) == Called(c, "unknown") /\ Catch(c)

\* Mutant: a query's failure is not caught.
Fails_NotQuery(c) ==
  /\ server.up
  /\ LET ends == Ends(c)
     IN  \/ call[c].pc = "listing" /\ "fails" \in ends.list
         \/ call[c].pc = "describing" /\ "fails" \in ends.describe
         \/ call[c].pc = "searching" /\ "fails" \in ends.search
  /\ Catch(c)

\* A connector's call that throws something no handler looks at.
Fails(c) ==
  /\ server.up
  /\ LET ends == Ends(c)
     IN  \/ call[c].pc = "listing" /\ "fails" \in ends.list
         \/ call[c].pc = "describing" /\ "fails" \in ends.describe
         \/ call[c].pc = "querying" /\ "fails" \in ends.query
         \/ call[c].pc = "searching" /\ "fails" \in ends.search
  /\ Catch(c)

\* list_tables: every connector in turn, a line for each.
Targets(c) ==
  LET named == Choices(Req(c).conn, "list")
  IN  IF Req(c).conn = None THEN Able("list") ELSE IF named = {} THEN {} ELSE {First(named)}

ListTables(c) ==
  /\ Called(c, "list_tables")
  /\ IF Targets(c) = {} THEN Catch(c)
     ELSE Ask(c, [call[c] EXCEPT !.pc = "listing", !.at = First(Targets(c))], {})

Listed(c) ==
  LET k == call[c]
      part == [target |-> Conn(c), rows |-> Cardinality(Allowed(Conn(c))), tables |-> {}]
      left == {i \in Targets(c) : i > k.at}
  IN  /\ Handler(c, "listing", "list_tables")
      /\ "ok" \in Ends(c).list
      /\ Record(c, Entry(c, FALSE, Conn(c), part.rows, {}),
                [k EXCEPT !.parts = @ \cup {part}, !.at = IF left = {} THEN @ ELSE First(left)],
                IF left = {} THEN "replying" ELSE "listing", "error")
      /\ asked' = IF call'[c].pc # "listing" THEN asked
                  ELSE asked \cup {[call |-> c, conn |-> server.connectors[First(left)], tables |-> {}]}

DescribeTable(c) ==
  /\ Called(c, "describe_table")
  /\ LET found == Choices(Req(c).conn, "describe")
     IN  IF found = {} THEN Catch(c)
         ELSE IF ~AllowsTable(Req(c).table) THEN Refuse(c)
         ELSE Ask(c, [call[c] EXCEPT !.pc = "describing", !.at = First(found)], {Req(c).table})

\* An answer of more than 50 KB is refused.
Described(c) ==
  /\ Handler(c, "describing", "describe_table")
  /\ LET ends == Ends(c).describe
     IN  \/ "ok" \in ends /\ (Answer(c, Req(c).table, 0, {}) \/ Refuse(c))
         \/ "missing" \in ends /\ Refuse(c)

\* The two paths of the query tool: PostgREST's own grammar, or a SQL gate.
Query(c) ==
  /\ Called(c, "query")
  /\ LET found == Choices(Req(c).conn, "query")
         table == Simple(Req(c).sql)
         gate == Guard(Dialect, Req(c).sql, policy.allowTables \ policy.denyTables, MaxRows(c))
         Asks(tables, rows, reads) ==
           Ask(c, [call[c] EXCEPT !.pc = "querying", !.at = First(found), !.tables = tables,
                                  !.rows = rows], reads)
     IN  IF found = {} THEN Catch(c)
         ELSE IF Type[server.connectors[First(found)]] = "supabase-rest"
         THEN IF table = None \/ ~AllowsTable(table) THEN Refuse(c)
              ELSE Asks({table}, MaxRows(c), {table})
         ELSE IF gate.refused THEN Refuse(c)
              ELSE Asks(gate.tables, gate.rows, Reads(Req(c).sql))

\* Mutant: the rows of the answer are not cut to the cap.
Cut_Not(n, cap) == n

\* result.rows.slice(0, cap), min(rowCount, cap).
Cut(n, cap) == IF n < cap THEN n ELSE cap

Queried(c) ==
  LET k == call[c]
      most == IF Ends(c).honoursLimit THEN Cut(k.rows, Rows) ELSE Rows
  IN  /\ Handler(c, "querying", "query")
      /\ \/ /\ "ok" \in Ends(c).query
            /\ \/ \E n \in 0..most : Answer(c, Conn(c), Cut(n, MaxRows(c)), k.tables)
               \/ Refuse(c)
         \/ "missing" \in Ends(c).query /\ Refuse(c)

Search(c) ==
  /\ Called(c, "search")
  /\ LET found == Choices(Req(c).conn, "search")
     IN  IF found = {} THEN Catch(c)
         ELSE IF Req(c).short THEN Refuse(c)
         ELSE Ask(c, [call[c] EXCEPT !.pc = "scoping", !.at = First(found)], {})

\* Mutant: the tables a search names are taken as they are.
Scope_AsAsked(conn, tables) == IF tables = {} THEN Allowed(conn) ELSE tables

Scope(conn, tables) == IF tables = {} THEN Allowed(conn) ELSE tables \cap Allowed(conn)

\* resolveGovernedSearchScope after its await; a failure is recorded and rewritten.
Scoped(c) ==
  LET scope == Scope(Conn(c), Req(c).tables)
  IN  /\ Handler(c, "scoping", "search")
      /\ \/ "ok" \in Ends(c).list /\ scope # {}
            /\ Ask(c, [call[c] EXCEPT !.pc = "searching", !.tables = scope], scope)
         \/ "ok" \in Ends(c).list /\ scope = {} /\ Refuse(c)
         \/ "fails" \in Ends(c).list /\ Refuse(c)

\* capSearchResult cuts rows until they fit; the rows name their tables.
Searched(c) ==
  /\ Handler(c, "searching", "search")
  /\ "ok" \in Ends(c).search
  /\ \E n \in 0..Cut(Rows, MaxRows(c)), hit \in SUBSET call[c].tables :
       /\ Cardinality(hit) <= n /\ (n = 0) = (hit = {})
       /\ Answer(c, Conn(c), n, hit)

\* The answer is on its way to the client.
Reply(c) ==
  /\ server.up /\ call[c].pc = "replying"
  /\ call' = [call EXCEPT ![c].pc = "data"]
  /\ UNCHANGED <<trail, asked>>
-----------------------------------------------------------------------------
(* resources/read: the audit trail is written by audit.log itself, without *)
(* the session's actor and profile, and no catch block records a failure.  *)

Unnamed(e) == [e EXCEPT !.profile = None]
Reject(c) == call' = [call EXCEPT ![c].pc = "rejected"] /\ UNCHANGED <<trail, asked>>

ReadResource(c) ==
  /\ Handler(c, "arrived", "resource")
  /\ LET found == {i \in Live : server.connectors[i] = Req(c).conn}
     IN  IF found = {} THEN Reject(c)
         ELSE IF ~AllowsConnector(Req(c).conn)
         THEN /\ Record(c, Unnamed(Denial(c)), call[c], "rejected", "rejected")
              /\ UNCHANGED asked
         ELSE Ask(c, [call[c] EXCEPT !.pc = "reading", !.at = First(found)], {})

\* The schema of some tables is still to be described, or the answer is due.
Detailing(c, left, done, asking) ==
  LET k == call[c]
      part == [target |-> Conn(c), rows |-> done, tables |-> {}]
  IN  /\ asked' = asked \cup {[call |-> c, conn |-> Conn(c), tables |-> {t}] : t \in asking}
      /\ IF left # {}
         THEN /\ call' = [call EXCEPT ![c] = [k EXCEPT !.pc = "detailing", !.tables = left, !.rows = done]]
              /\ UNCHANGED trail
         ELSE Record(c, Unnamed(Entry(c, FALSE, part.target, done, {})),
                     [k EXCEPT !.tables = {}, !.rows = done, !.parts = {part}], "replying", "rejected")

ResourceListed(c) ==
  LET allowed == Allowed(Conn(c))
  IN  /\ Handler(c, "reading", "resource")
      /\ \/ "ok" \in Ends(c).list
            /\ \E left \in SUBSET allowed :
                 /\ Cardinality(left) = Cut(Cardinality(allowed), MaxDetailed)
                 /\ Detailing(c, left, 0, {})
         \/ "fails" \in Ends(c).list /\ Reject(c)

\* describeTable of the next table, and its answer.
Detailed(c) ==
  /\ Handler(c, "detailing", "resource")
  /\ \E t \in call[c].tables :
       \/ Detailing(c, call[c].tables \ {t}, call[c].rows + 1, {t})
       \/ /\ "fails" \in Ends(c).describe
          /\ Reject(c)
-----------------------------------------------------------------------------
(* The process: loadConfig, bootDeps.                                      *)

\* bootDeps, assertCustomSqlDialect: connectors without allowConnectors refuse
\* the boot, so does an executor of an unknown engine without a dialect.
Bootable(config) ==
  /\ config.connectors # <<>> => config.policy.allowConnectors # {}
  /\ (\E i \in DOMAIN config.connectors : Type[config.connectors[i]] = "custom-sql") => config.policy.dialect # None

\* loadConfig, bootDeps: a connector that does not connect is left out.
Boot ==
  /\ ~server.up /\ server.boots < MaxBoots
  /\ \E config \in Configs, failed \in SUBSET Unreachable :
       /\ Bootable(config)
       /\ server' = [up |-> TRUE, boots |-> server.boots + 1, connectors |-> config.connectors,
                     failed |-> failed, policy |-> config.policy]
  /\ UNCHANGED <<call, trail, asked>>

\* A crash or a shutdown: what is under way is never answered.
Stop ==
  /\ server.up
  /\ server' = [Down EXCEPT !.boots = server.boots]
  /\ call' = [c \in Call |-> IF call[c].pc \in Waiting THEN [call[c] EXCEPT !.pc = "gone"] ELSE call[c]]
  /\ asked' = {}
  /\ UNCHANGED trail
-----------------------------------------------------------------------------
Handle(c) ==
  /\ \/ DenyTool(c) \/ UnknownTool(c) \/ Fails(c) \/ ListTables(c) \/ Listed(c)
     \/ DescribeTable(c) \/ Described(c) \/ Query(c) \/ Queried(c)
     \/ Search(c) \/ Scoped(c) \/ Searched(c)
     \/ ReadResource(c) \/ ResourceListed(c) \/ Detailed(c) \/ Reply(c)
  /\ UNCHANGED server

Next ==
  \/ \E c \in Call : Arrive(c) \/ Handle(c)
  \/ Boot \/ Stop

Spec == Init /\ [][Next]_vars

\* A call waits for a connector nothing makes answer.
AskedFor == [listing |-> "list", scoping |-> "list", reading |-> "list", describing |-> "describe",
             detailing |-> "describe", querying |-> "query", searching |-> "search"]
Unanswered(c) == call[c].pc \in DOMAIN AskedFor /\ AskedFor[call[c].pc] \in Ends(c).unbounded

\* The event loop runs every handler that waits for nothing, or for what is
\* answered from memory or from the local disk.
FairSpec == Spec /\ \A c \in Call : WF_vars(Handle(c) /\ ~Unanswered(c))
-----------------------------------------------------------------------------
(* Properties.                                                             *)

Part == [target : Connector \cup Table, rows : Nat, tables : SUBSET Table]
EntryType == [call : Call, nth : Nat, denied : BOOLEAN, target : Connector \cup Table \cup {None},
              rows : Nat, tables : SUBSET Table, profile : Profile \cup {None}, receipt : BOOLEAN]

TypeOK ==
  /\ server.up \in BOOLEAN /\ server.boots \in 0..MaxBoots
  /\ \A c \in Call :
       /\ call[c].pc \in {"new"} \cup Waiting \cup Ended
       /\ call[c].tables \in SUBSET Table /\ call[c].rows \in Nat
       /\ call[c].parts \in SUBSET Part /\ call[c].nth \in Nat
  /\ trail \in SUBSET EntryType
  /\ asked \in SUBSET [call : Call, conn : Connector, tables : SUBSET Table]

\* What is asked names its tables itself, or in a statement a gate saw all of.
Seen(req, conn) == req.tool # "query" \/ Type[conn] = "supabase-rest" \/ Whole(req.sql)

\* A connector is only ever asked what the policy permits: by a tool that is
\* open, on a permitted connector, for permitted tables (server.ts: "a refused
\* tool must never reach a connector, a query, or the network").  Of statements
\* a SQL gate does not walk as the database does, tables are not promised.
AskedWithinPolicy ==
  \A a \in asked :
    /\ Req(a.call).tool = "resource" \/ AllowsTool(Req(a.call).tool)
    /\ AllowsConnector(a.conn)
    /\ Type[a.conn] = "custom-sql" => policy.dialect # None
    /\ Seen(Req(a.call), a.conn) => a.tables \subseteq policy.allowTables \ policy.denyTables

Lines(c) == {e \in trail : e.call = c}

\* Every tool call that ends leaves exactly its lines, however it ends: one,
\* or one per connector list_tables answered for; a denial if and only if
\* nothing was recorded as allowed; never one access twice.
EveryCallLeavesItsLines ==
  \A c \in Call :
    (call[c].pc \in {"data", "error", "rejected"} /\ ~call[c].lost /\ Req(c).tool # "resource") =>
       LET denials == {e \in Lines(c) : e.denied}
       IN  IF call[c].pc = "data"
           THEN denials = {} /\ Cardinality(Lines(c)) = Cardinality(call[c].parts)
           ELSE \/ denials = Lines(c) /\ Cardinality(denials) = 1
                \/ denials = {} /\ Lines(c) # {} /\ Req(c).tool = "list_tables"

\* The tables an allowed query's entry names, which its receipt repeats and a
\* reconciliation counts, are tables its statement read; all of them, unless the
\* statement has some where a gate does not look.
RecordNamesWhatWasRead ==
  \A a \in asked, e \in trail :
    (e.call = a.call /\ ~e.denied /\ Req(a.call).tool = "query") =>
       e.tables \subseteq a.tables /\ (Seen(Req(a.call), a.conn) => a.tables \subseteq e.tables)

\* A statement on its way to a database returns at most what the cap in force
\* allows and what its author asked for, whatever it is wrapped in.
StatementsCapped ==
  \A c \in Call :
    (call[c].pc = "querying" /\ Type[Conn(c)] # "supabase-rest") =>
       call[c].rows <= Cut(AtMost(Req(c).sql), MaxRows(c))

\* What an entry says was handed out is within the cap of the profile the same
\* entry says was in force.
RowsWithinProfile ==
  [][\A e \in trail' \ trail : Req(e.call).tool # "list_tables" /\ Req(e.call).tool # "resource"
                              => e.rows <= CapOf(e.profile)]_vars

\* Every call ends, with an answer or with the process, unless it comes to wait
\* for ever for a connector whose calls nothing bounds: no handler hangs by itself,
\* whichever way its connectors end.
CallsEnd == \A c \in Call : call[c].pc = "arrived" ~> (call[c].pc \in Ended \/ []Unanswered(c))

\* What the client of each call was given: nothing until the reply is sent.
Promised == INSTANCE AccessPromise WITH
  told <- trail, given <- [c \in Call |-> IF call[c].pc = "data" THEN call[c].parts ELSE None],
  NotGiven <- None

\* Whatever a client is given, the trail already says so, with its receipt.
KeepsPromise == Promised!Spec
=============================================================================
