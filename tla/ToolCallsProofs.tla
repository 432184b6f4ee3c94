-------------------------- MODULE ToolCallsProofs ---------------------------
(***************************************************************************)
(* Proofs about ToolCalls, for any number of calls, connectors, policies   *)
(* and restarts, and for every gate that keeps GateAssumption; what needs  *)
(* a sound gate says so.                                                   *)
(***************************************************************************)
EXTENDS ToolCalls, Least, FiniteSetTheorems, TLAPS

AtConnector == {"listing", "describing", "querying", "scoping", "searching", "reading", "detailing"}
ToolWaits == AtConnector \ {"reading", "detailing"}
Booted == {config \in Configs : Bootable(config)}

CallType ==
  [pc : {"new"} \cup Waiting \cup Ended, req : {None} \cup UNION {Requests(c) : c \in Call}, at : Nat,
   tables : SUBSET Table, rows : Nat, parts : SUBSET Part, nth : Nat, recorded : BOOLEAN,
   lost : BOOLEAN]

ServerOK ==
  /\ server.up \in BOOLEAN /\ server.boots \in 0..MaxBoots
  /\ server.up => \E config \in Booted : server.connectors = config.connectors /\ server.policy = config.policy

\* Every part of an answer has its entry, with the receipt.
Said(k, c, T) == \A part \in k.parts : \E e \in T : Promised!Says(e, c, part)

\* What holds of a call's record k while T is the audit trail.
Good(k, c, T) ==
  /\ k \in CallType
  /\ k.pc \in Waiting => server.up
  /\ k.pc # "new" => k.req \in Requests(c)
  /\ k.pc \in AtConnector => k.at \in Permitted
  /\ k.pc \in ToolWaits => AllowsTool(k.req.tool)
  /\ k.pc = "describing" => AllowsTable(k.req.table)
  /\ k.pc = "detailing" => k.tables \subseteq Allowed(server.connectors[k.at])
  /\ FailClosed /\ k.pc \in Waiting \cup {"data"} => Said(k, c, T)

CallsGood == call = [c \in Call |-> call[c]] /\ \A c \in Call : Good(call[c], c, trail)

\* A call that has not arrived has gathered nothing.
NewEmpty == \A c \in Call : call[c].pc = "new" => call[c].parts = {}

AskedOK ==
  /\ asked \subseteq [call : Call, conn : Connector, tables : SUBSET Table]
  /\ ~server.up => asked = {}
  /\ \A a \in asked : call[a.call].pc # "new"
  /\ GateSound => AskedWithinPolicy

IndInv == ServerOK /\ CallsGood /\ NewEmpty /\ trail \subseteq EntryType /\ AskedOK
-----------------------------------------------------------------------------
(* The policy of a server that is up.                                      *)

LEMMA PolicyType ==
  ASSUME ServerOK, server.up
  PROVE  /\ policy.allowConnectors \subseteq Connector
         /\ policy.allowTables \subseteq Table
         /\ Dialect \in Dialects
         /\ server.connectors \in Seq(Connector)
         /\ \A i \in DOMAIN server.connectors :
              Type[server.connectors[i]] = "custom-sql" => policy.dialect # None
<1>1. PICK config \in Booted : server.connectors = config.connectors /\ server.policy = config.policy
  BY DEF ServerOK
<1>2. config \in Configs /\ IsPolicy(config.policy) /\ config.connectors \in Seq(Connector)
  BY ConfigAssumption DEF Booted
<1>3. \A i \in DOMAIN config.connectors : Type[config.connectors[i]] = "custom-sql" => config.policy.dialect # None
  BY DEF Booted, Bootable
<1>4. QED
  BY <1>1, <1>2, <1>3 DEF IsPolicy, policy, Dialect, Dialects

\* The cap in force is one of the file's.
LEMMA CapType ==
  ASSUME ServerOK, server.up, NEW c \in Call
  PROVE  /\ Applied(c) \in Profile \cup {None}
         /\ MaxRows(c) \in Caps /\ MaxRows(c) \in Nat
<1>1. PICK config \in Booted : server.policy = config.policy
  BY DEF ServerOK
<1>2. config \in Configs /\ IsPolicy(config.policy)
  BY ConfigAssumption DEF Booted
<1>3. CASE Applied(c) = None
  BY <1>1, <1>2, <1>3 DEF MaxRows, CapOf, IsPolicy, policy, Caps
<1>4. CASE Applied(c) # None
  <2>1. Applied(c) \in DOMAIN policy.profiles
    BY <1>4 DEF Applied
  <2>2. CapOf(Applied(c)) = config.policy.profiles[Applied(c)]
    BY <1>1, <1>4 DEF CapOf, policy
  <2>3. config.policy.profiles[Applied(c)] \in Nat /\ Applied(c) \in Profile
    BY <1>1, <1>2, <2>1 DEF IsPolicy, policy
  <2>4. config.policy.profiles[Applied(c)] \in {config.policy.profiles[p] : p \in DOMAIN config.policy.profiles}
    BY <1>1, <2>1 DEF policy
  <2>5. config.policy.profiles[Applied(c)] \in Caps
    BY <1>2, <2>4 DEF Caps
  <2>6. QED
    BY <2>2, <2>3, <2>5 DEF MaxRows
<1>5. QED
  BY <1>3, <1>4

\* The first of a set of places is one of them.
LEMMA FirstOf ==
  ASSUME NEW S \in SUBSET Nat, S # {}
  PROVE  First(S) \in S
<1>1. PICK k \in S : \A j \in S : k <= j
  BY LeastNumber
<1>2. QED
  BY <1>1 DEF First

\* A permitted place holds a permitted connector of the configuration.
LEMMA PermittedType ==
  ASSUME ServerOK, server.up
  PROVE  /\ Permitted \subseteq DOMAIN server.connectors
         /\ Permitted \subseteq Nat
         /\ \A i \in Permitted : /\ server.connectors[i] \in Connector
                                 /\ AllowsConnector(server.connectors[i])
                                 /\ Type[server.connectors[i]] = "custom-sql" => policy.dialect # None
<1>1. server.connectors \in Seq(Connector)
  BY PolicyType
<1>2. DOMAIN server.connectors \subseteq Nat /\ \A i \in DOMAIN server.connectors : server.connectors[i] \in Connector
  BY <1>1
<1>3. QED
  BY <1>2, PolicyType DEF Permitted, Live

-----------------------------------------------------------------------------
(* A step of one call leaves the others alone.                             *)

\* What a call's record needs of the server does not change while it runs.
LEMMA ServerSame ==
  ASSUME server' = server, NEW k, NEW c, NEW T
  PROVE  Good(k, c, T)' <=> Good(k, c, T)
BY DEF Good, Permitted, Live, AllowsConnector, AllowsTool, AllowsTable, Allowed, policy, Said

\* An entry more does not take back what was said.
LEMMA TrailGrows ==
  ASSUME NEW k, NEW c, NEW T, NEW U, T \subseteq U, Good(k, c, T)
  PROVE  Good(k, c, U)
BY DEF Good, Said

\* What may be asked for a call with request req.
Fine(a, c, req) ==
  /\ a \in [call : Call, conn : Connector, tables : SUBSET Table]
  /\ a.call = c
  /\ req.tool = "resource" \/ AllowsTool(req.tool)
  /\ AllowsConnector(a.conn)
  /\ Type[a.conn] = "custom-sql" => policy.dialect # None
  /\ GateSound /\ Seen(req, a.conn) => a.tables \subseteq policy.allowTables \ policy.denyTables

LEMMA Frame ==
  ASSUME IndInv, server' = server, server.up, NEW c \in Call, NEW k,
         call' = [call EXCEPT ![c] = k], Good(k, c, trail'),
         trail \subseteq trail', trail' \subseteq EntryType,
         call[c].pc # "new", k.req = call[c].req, k.pc # "new",
         \A a \in asked' : a \in asked \/ Fine(a, c, k.req)
  PROVE  IndInv'
<1>1. ServerOK'
  BY DEF IndInv, ServerOK, Booted, Bootable
<1>2. call' = [d \in Call |-> call'[d]] /\ call'[c] = k /\ \A d \in Call \ {c} : call'[d] = call[d]
  BY DEF IndInv, CallsGood
<1>3. ASSUME NEW d \in Call PROVE Good(call[d], d, trail)'
  <2>1. PICK T : T = trail'
    OBVIOUS
  <2>2. PICK h : h = call'[d]
    OBVIOUS
  <2>3. Good(h, d, T)
    <3>1. CASE d = c
      BY <1>2, <2>1, <2>2, <3>1
    <3>2. CASE d # c
      <4>1. Good(call[d], d, trail) /\ h = call[d] /\ trail \subseteq T
        BY <1>2, <2>1, <2>2, <3>2 DEF IndInv, CallsGood
      <4>2. QED
        BY <4>1, TrailGrows
    <3>3. QED
      BY <3>1, <3>2
  <2>4. Good(h, d, T)'
    BY <2>3, ServerSame
  <2>5. QED
    BY <2>1, <2>2, <2>4
<1>4. AskedOK'
  <2>1. asked' \subseteq [call : Call, conn : Connector, tables : SUBSET Table]
    BY DEF IndInv, AskedOK, Fine
  <2>2. (~server.up => asked = {})'
    OBVIOUS
  <2>3. \A d \in Call : call'[d].req = call[d].req /\ (call[d].pc # "new" => call'[d].pc # "new")
    BY <1>2
  <2>4. \A a \in asked' : call'[a.call].pc # "new"
    BY <1>2, <2>1, <2>3 DEF IndInv, AskedOK, Fine
  <2>5. ASSUME GateSound PROVE AskedWithinPolicy'
    BY <2>1, <2>3, <2>5, <1>2 DEF IndInv, AskedOK, Fine, AskedWithinPolicy, Req, AllowsTool, AllowsConnector, policy
  <2>6. QED
    BY <2>1, <2>2, <2>4, <2>5 DEF AskedOK
<1>5. NewEmpty'
  BY <1>2 DEF IndInv, NewEmpty
<1>6. QED
  BY <1>1, <1>2, <1>3, <1>4, <1>5 DEF IndInv, CallsGood
-----------------------------------------------------------------------------
(* Writing an entry, asking a connector.                                   *)

\* What is written is of the type of an entry, and a write that succeeds under
\* failClosed leaves the entry with its receipt.
LEMMA WrittenType ==
  ASSUME NEW e \in EntryType, NEW o \in Outcomes
  PROVE  /\ Written(e, o) \subseteq EntryType
         /\ \A w \in Written(e, o) : w = [e EXCEPT !.receipt = o.receipt]
         /\ FailClosed /\ ~o.thrown => Written(e, o) = {[e EXCEPT !.receipt = TRUE]}
<1>1. [e EXCEPT !.receipt = o.receipt] \in EntryType
  BY DEF EntryType, Outcomes
<1>2. QED
  BY <1>1 DEF Written, Outcomes

\* AfterWrite changes what it says it changes.
LEMMA AfterWriteType ==
  ASSUME NEW k \in CallType, NEW o \in Outcomes, NEW pc \in Waiting \cup Ended
  PROVE  /\ AfterWrite(k, pc, o) \in CallType
         /\ AfterWrite(k, pc, o).pc = pc
         /\ AfterWrite(k, pc, o).req = k.req /\ AfterWrite(k, pc, o).at = k.at
         /\ AfterWrite(k, pc, o).parts = k.parts /\ AfterWrite(k, pc, o).tables = k.tables
<1>1. PICK lost \in BOOLEAN : lost = (k.lost \/ ~(o.line /\ o.receipt))
  BY DEF CallType, Outcomes
<1>2. AfterWrite(k, pc, o) = [k EXCEPT !.pc = pc, !.nth = k.nth + 1, !.recorded = TRUE, !.lost = lost]
  BY <1>1 DEF AfterWrite, CallType
<1>3. k.nth + 1 \in Nat /\ pc \in {"new"} \cup Waiting \cup Ended
  BY DEF CallType
<1>4. QED
  BY <1>2, <1>3 DEF CallType

\* The entry e is what a part of an answer needs.
Matches(e, c, part) ==
  ~e.denied /\ e.call = c /\ e.target = part.target /\ e.rows = part.rows /\ e.tables = part.tables

LEMMA RecordStep ==
  ASSUME IndInv, server' = server, NEW c \in Call, call[c].pc \in Waiting,
         NEW e \in EntryType, NEW k \in CallType, k.req = call[c].req,
         NEW pc \in {"error", "rejected", "replying", "listing"}, NEW thrownPc \in {"error", "rejected"},
         pc = "listing" => k.at \in Permitted /\ AllowsTool(k.req.tool),
         pc \in Waiting => \A part \in k.parts : part \in call[c].parts \/ Matches(e, c, part),
         Record(c, e, k, pc, thrownPc),
         \A a \in asked' : a \in asked \/ Fine(a, c, k.req)
  PROVE  IndInv'
<1>1. server.up /\ Good(call[c], c, trail) /\ call[c].pc # "new"
  BY DEF IndInv, CallsGood, Good, Waiting
<1>2. PICK o \in Outcomes : /\ trail' = trail \cup Written(e, o)
                            /\ call' = [call EXCEPT ![c] = AfterWrite(k, IF o.thrown THEN thrownPc ELSE pc, o)]
  BY DEF Record
<1>3. PICK next : next = IF o.thrown THEN thrownPc ELSE pc
  OBVIOUS
<1>4. next \in Waiting \cup Ended /\ next \in {"error", "rejected", "replying", "listing"}
  BY <1>3 DEF Waiting, Ended
<1>5. PICK h : h = AfterWrite(k, next, o)
  OBVIOUS
<1>6. /\ h \in CallType /\ h.pc = next /\ h.req = k.req /\ h.at = k.at
      /\ h.parts = k.parts /\ h.tables = k.tables
  BY <1>4, <1>5, AfterWriteType
<1>7. call' = [call EXCEPT ![c] = h]
  BY <1>2, <1>3, <1>5
<1>8. trail \subseteq trail' /\ trail' \subseteq EntryType
  BY <1>2, WrittenType DEF IndInv
<1>9. ASSUME FailClosed, next \in Waiting \cup {"data"} PROVE Said(h, c, trail')
  <2>1. ~o.thrown /\ pc = next /\ pc \in Waiting
    BY <1>3, <1>4, <1>9 DEF Waiting
  <2>2. Written(e, o) = {[e EXCEPT !.receipt = TRUE]}
    BY <1>9, <2>1, WrittenType
  <2>3. PICK w : w = [e EXCEPT !.receipt = TRUE]
    OBVIOUS
  <2>4. w \in trail'
    BY <1>2, <2>2, <2>3
  <2>5. ASSUME NEW part \in h.parts PROVE \E x \in trail' : Promised!Says(x, c, part)
    <3>1. CASE part \in call[c].parts
      <4>1. Said(call[c], c, trail)
        BY <1>1, <1>9 DEF Good
      <4>2. QED
        BY <3>1, <4>1, <1>8 DEF Said
    <3>2. CASE Matches(e, c, part)
      <4>1. Promised!Says(w, c, part)
        BY <3>2, <2>3 DEF Promised!Says, Matches, EntryType
      <4>2. QED
        BY <4>1, <2>4
    <3>3. QED
      BY <1>6, <2>1, <2>5, <3>1, <3>2
  <2>6. QED
    BY <2>5 DEF Said
<1>10. k.req \in Requests(c)
  BY <1>1 DEF Good
<1>11. Good(h, c, trail')
  <2>1. next = "listing" => pc = "listing"
    BY <1>3
  <2>2. QED
    BY <1>1, <1>4, <1>6, <1>9, <1>10, <2>1 DEF Good, AtConnector, ToolWaits, Waiting
<1>12. h.pc # "new" /\ \A a \in asked' : a \in asked \/ Fine(a, c, h.req)
  BY <1>4, <1>6
<1>13. QED
  BY <1>1, <1>6, <1>7, <1>8, <1>11, <1>12, Frame

\* A call's record that only changes where the handler is.
LEMMA MoveStep ==
  ASSUME IndInv, server' = server, NEW c \in Call, call[c].pc \in Waiting,
         NEW k, k.req = call[c].req, k.pc # "new", Good(k, c, trail), call' = [call EXCEPT ![c] = k],
         trail' = trail, \A a \in asked' : a \in asked \/ Fine(a, c, k.req)
  PROVE  IndInv'
<1>1. server.up /\ call[c].pc # "new" /\ trail' \subseteq EntryType
  BY DEF IndInv, CallsGood, Good, Waiting
<1>2. QED
  BY <1>1, Frame

\* The entries a handler writes are of the type of an entry.
LEMMA EntryOf ==
  ASSUME ServerOK, server.up, call = [d \in Call |-> call[d]], NEW c \in Call, call[c] \in CallType,
         NEW denied \in BOOLEAN, NEW target \in Connector \cup Table \cup {None}, NEW rows \in Nat,
         NEW tables \in SUBSET Table
  PROVE  /\ Entry(c, denied, target, rows, tables) \in EntryType
         /\ Unnamed(Entry(c, denied, target, rows, tables)) \in EntryType
         /\ ~denied => \A part \in {[target |-> target, rows |-> rows, tables |-> tables]} :
              /\ Matches(Entry(c, denied, target, rows, tables), c, part)
              /\ Matches(Unnamed(Entry(c, denied, target, rows, tables)), c, part)
<1>1. Applied(c) \in Profile \cup {None} /\ call[c].nth \in Nat
  BY CapType DEF CallType
<1>2. PICK profile : profile = Applied(c)
  OBVIOUS
<1>3. PICK nth : nth = call[c].nth
  OBVIOUS
<1>4. Entry(c, denied, target, rows, tables) =
        [call |-> c, nth |-> nth, denied |-> denied, target |-> target, rows |-> rows,
         tables |-> tables, profile |-> profile, receipt |-> FALSE]
  BY <1>2, <1>3 DEF Entry
<1>5. PICK e : e = Entry(c, denied, target, rows, tables)
  OBVIOUS
<1>6. /\ e \in EntryType /\ e.denied = denied /\ e.call = c /\ e.target = target
      /\ e.rows = rows /\ e.tables = tables
  BY <1>1, <1>2, <1>3, <1>4, <1>5 DEF EntryType
<1>7. PICK u : u = Unnamed(e)
  OBVIOUS
<1>8. /\ u \in EntryType /\ u.denied = denied /\ u.call = c /\ u.target = target
      /\ u.rows = rows /\ u.tables = tables
  BY <1>6, <1>7 DEF EntryType, Unnamed
<1>9. PICK part : part = [target |-> target, rows |-> rows, tables |-> tables]
  OBVIOUS
<1>10. ~denied => Matches(e, c, part) /\ Matches(u, c, part)
  BY <1>6, <1>8, <1>9 DEF Matches
<1>11. QED
  BY <1>5, <1>6, <1>7, <1>8, <1>9, <1>10
-----------------------------------------------------------------------------
(* The ways a handler goes on.                                             *)

\* What is known of a call that a handler works on.
LEMMA Handled ==
  ASSUME IndInv, NEW c \in Call, call[c].pc \in Waiting
  PROVE  /\ server.up /\ ServerOK /\ call = [d \in Call |-> call[d]]
         /\ call[c] \in CallType /\ Good(call[c], c, trail) /\ call[c].req \in Requests(c)
         /\ call[c].pc # "new"
BY DEF IndInv, CallsGood, Good, Waiting

\* A denial, as the handlers and the catch block write it.
LEMMA DenialStep ==
  ASSUME IndInv, server' = server, NEW c \in Call, call[c].pc \in Waiting,
         NEW e, e = Denial(c) \/ e = Unnamed(Denial(c)),
         NEW pc \in {"error", "rejected"}, NEW thrownPc \in {"error", "rejected"},
         Record(c, e, call[c], pc, thrownPc), UNCHANGED asked
  PROVE  IndInv'
<1>1. e \in EntryType
  BY Handled, EntryOf, 0 \in Nat DEF Denial
<1>2. PICK k : k = call[c]
  OBVIOUS
<1>3. k \in CallType /\ k.req = call[c].req /\ Record(c, e, k, pc, thrownPc)
  BY <1>2, Handled
<1>4. pc \in {"error", "rejected", "replying", "listing"} /\ ~(pc \in Waiting) /\ pc # "listing"
  BY DEF Waiting
<1>5. QED
  BY <1>1, <1>3, <1>4, RecordStep

LEMMA RefuseStep ==
  ASSUME IndInv, server' = server, NEW c \in Call, call[c].pc \in Waiting, Refuse(c)
  PROVE  IndInv'
<1>1. PICK e : e = Denial(c)
  OBVIOUS
<1>2. Record(c, e, call[c], "error", "error") /\ UNCHANGED asked
  BY <1>1 DEF Refuse
<1>3. QED
  BY <1>1, <1>2, DenialStep

\* A call that ends without another entry.
LEMMA EndStep ==
  ASSUME IndInv, server' = server, NEW c \in Call, call[c].pc \in Waiting,
         NEW pc \in {"error", "rejected"}, call' = [call EXCEPT ![c].pc = pc], UNCHANGED <<trail, asked>>
  PROVE  IndInv'
<1>1. PICK k : k = [call[c] EXCEPT !.pc = pc]
  OBVIOUS
<1>2. pc \in Ended /\ pc \notin Waiting \cup {"data", "new"} /\ pc \notin AtConnector
  BY DEF Ended, Waiting, AtConnector
<1>3. k \in CallType /\ k.pc = pc /\ k.req = call[c].req
  BY <1>1, <1>2, Handled DEF CallType
<1>4. Good(k, c, trail)
  BY <1>2, <1>3, Handled DEF Good, AtConnector, ToolWaits
<1>5. call' = [call EXCEPT ![c] = k]
  BY <1>1
<1>6. QED
  BY <1>2, <1>3, <1>4, <1>5, MoveStep

LEMMA CatchStep ==
  ASSUME IndInv, server' = server, NEW c \in Call, call[c].pc \in Waiting, Catch(c)
  PROVE  IndInv'
<1>1. CASE call[c].recorded
  BY <1>1, EndStep DEF Catch
<1>2. CASE ~call[c].recorded
  <2>1. PICK e : e = Denial(c)
    OBVIOUS
  <2>2. Record(c, e, call[c], "error", "rejected") /\ UNCHANGED asked
    BY <1>2, <2>1 DEF Catch
  <2>3. QED
    BY <2>1, <2>2, DenialStep
<1>3. QED
  BY <1>1, <1>2

LEMMA AnswerStep ==
  ASSUME IndInv, server' = server, NEW c \in Call, call[c].pc \in Waiting,
         NEW target \in Connector \cup Table, NEW rows \in Nat, NEW tables \in SUBSET Table,
         Answer(c, target, rows, tables)
  PROVE  IndInv'
<1>1. PICK e : e = Entry(c, FALSE, target, rows, tables)
  OBVIOUS
<1>2. PICK part : part = [target |-> target, rows |-> rows, tables |-> tables]
  OBVIOUS
<1>3. PICK k : k = [call[c] EXCEPT !.parts = {part}]
  OBVIOUS
<1>4. e \in EntryType /\ Matches(e, c, part)
  BY <1>1, <1>2, Handled, EntryOf
<1>5. part \in Part
  BY <1>2 DEF Part
<1>6. k \in CallType /\ k.req = call[c].req /\ k.parts = {part}
  BY <1>3, <1>5, Handled DEF CallType
<1>7. Record(c, e, k, "replying", "error") /\ UNCHANGED asked
  BY <1>1, <1>2, <1>3 DEF Answer
<1>8. QED
  BY <1>4, <1>6, <1>7, RecordStep

LEMMA AskStep ==
  ASSUME IndInv, server' = server, NEW c \in Call, call[c].pc \in Waiting,
         NEW k, k.req = call[c].req, k.pc # "new", Good(k, c, trail), k.at \in Permitted,
         k.req.tool = "resource" \/ AllowsTool(k.req.tool),
         NEW tables \in SUBSET Table,
         GateSound /\ Seen(k.req, server.connectors[k.at]) =>
           tables \subseteq policy.allowTables \ policy.denyTables,
         Ask(c, k, tables)
  PROVE  IndInv'
<1>1. PICK conn : conn = server.connectors[k.at]
  OBVIOUS
<1>2. /\ conn \in Connector /\ AllowsConnector(conn)
      /\ Type[conn] = "custom-sql" => policy.dialect # None
  BY <1>1, Handled, PermittedType
<1>3. PICK a : a = [call |-> c, conn |-> conn, tables |-> tables]
  OBVIOUS
<1>4. Fine(a, c, k.req)
  <2>1. /\ a \in [call : Call, conn : Connector, tables : SUBSET Table]
        /\ a.call = c /\ a.conn = conn /\ a.tables = tables
    BY <1>2, <1>3
  <2>2. GateSound /\ Seen(k.req, a.conn) => a.tables \subseteq policy.allowTables \ policy.denyTables
    BY <1>1, <2>1
  <2>3. QED
    BY <1>2, <2>1, <2>2 DEF Fine
<1>5. asked' = asked \cup {a} /\ call' = [call EXCEPT ![c] = k] /\ trail' = trail
  BY <1>1, <1>3 DEF Ask
<1>6. QED
  BY <1>4, <1>5, MoveStep
-----------------------------------------------------------------------------
(* The handlers.                                                           *)

\* getConnector finds permitted connectors only.
LEMMA ChoicesType ==
  ASSUME ServerOK, server.up
  PROVE  /\ \A n, need : Choices(n, need) \subseteq Permitted
         /\ \A need : Able(need) \subseteq Permitted
         /\ \A S \in SUBSET Permitted : S # {} => First(S) \in Permitted
<1>1. \A S \in SUBSET Permitted : S # {} => First(S) \in S
  BY PermittedType, FirstOf
<1>2. QED
  BY <1>1 DEF Choices, Able

\* What permits a call's record to wait for a connector.
LEMMA WaitGood ==
  ASSUME IndInv, NEW c \in Call, call[c].pc \in Waiting, NEW k \in CallType,
         k.req = call[c].req, k.parts = call[c].parts, k.pc \in AtConnector, k.at \in Permitted,
         k.pc \in ToolWaits => AllowsTool(k.req.tool),
         k.pc = "describing" => AllowsTable(k.req.table),
         k.pc = "detailing" => k.tables \subseteq Allowed(server.connectors[k.at])
  PROVE  Good(k, c, trail) /\ k.pc # "new"
<1>1. k.pc \in Waiting /\ k.pc # "new"
  BY DEF AtConnector, Waiting
<1>2. FailClosed => Said(k, c, trail)
  BY Handled DEF Good, Said
<1>3. QED
  BY <1>1, <1>2, Handled DEF Good

LEMMA WaitStep ==
  ASSUME IndInv, server' = server, NEW c \in Call, call[c].pc \in Waiting, NEW k,
         k \in CallType, k.req = call[c].req, k.parts = call[c].parts, k.pc \in AtConnector, k.at \in Permitted,
         k.pc \in ToolWaits => AllowsTool(k.req.tool),
         k.pc = "describing" => AllowsTable(k.req.table),
         k.pc = "detailing" => k.tables \subseteq Allowed(server.connectors[k.at]),
         k.req.tool = "resource" \/ AllowsTool(k.req.tool),
         NEW tables \in SUBSET Table,
         GateSound /\ Seen(k.req, server.connectors[k.at]) =>
           tables \subseteq policy.allowTables \ policy.denyTables,
         Ask(c, k, tables)
  PROVE  IndInv'
<1>1. Good(k, c, trail) /\ k.pc # "new"
  BY WaitGood
<1>2. QED
  BY <1>1, AskStep

LEMMA Arrived ==
  ASSUME NEW c \in Call, NEW pc \in Waiting, NEW tool, Handler(c, pc, tool)
  PROVE  call[c].pc \in Waiting /\ call[c].req.tool = tool
BY DEF Handler

LEMMA DenyToolStep ==
  ASSUME IndInv, server' = server, NEW c \in Call, DenyTool(c)
  PROVE  IndInv'
<1>1. PICK e : e = Denial(c)
  OBVIOUS
<1>2. call[c].pc \in Waiting /\ Record(c, e, call[c], "rejected", "rejected") /\ UNCHANGED asked
  BY <1>1 DEF DenyTool, Waiting
<1>3. QED
  BY <1>1, <1>2, DenialStep

LEMMA UnknownToolStep ==
  ASSUME IndInv, server' = server, NEW c \in Call, UnknownTool(c)
  PROVE  IndInv'
<1>1. call[c].pc \in Waiting /\ Catch(c)
  BY DEF UnknownTool, Called, Handler, Waiting
<1>2. QED
  BY <1>1, CatchStep

LEMMA FailsStep ==
  ASSUME IndInv, server' = server, NEW c \in Call, Fails(c)
  PROVE  IndInv'
<1>1. call[c].pc \in Waiting /\ Catch(c)
  BY DEF Fails, Waiting
<1>2. QED
  BY <1>1, CatchStep

\* The places list_tables goes through are permitted.
LEMMA TargetsType ==
  ASSUME ServerOK, server.up, NEW c
  PROVE  Targets(c) \subseteq Permitted
<1>1. CASE Req(c).conn = None
  BY <1>1, ChoicesType DEF Targets
<1>2. CASE Req(c).conn # None /\ Choices(Req(c).conn, "list") # {}
  BY <1>2, ChoicesType DEF Targets
<1>3. CASE Req(c).conn # None /\ Choices(Req(c).conn, "list") = {}
  BY <1>3 DEF Targets
<1>4. QED
  BY <1>1, <1>2, <1>3

LEMMA ListTablesStep ==
  ASSUME IndInv, server' = server, NEW c \in Call, ListTables(c)
  PROVE  IndInv'
<1>1. call[c].pc \in Waiting /\ call[c].req.tool = "list_tables" /\ AllowsTool(call[c].req.tool)
  BY DEF ListTables, Called, Handler, Waiting
<1>2. CASE Targets(c) = {}
  BY <1>1, <1>2, CatchStep DEF ListTables
<1>3. CASE Targets(c) # {}
  <2>1. PICK i : i = First(Targets(c))
    OBVIOUS
  <2>2. i \in Permitted /\ i \in Nat
    BY <1>1, <1>3, <2>1, Handled, TargetsType, ChoicesType, PermittedType
  <2>3. PICK k : k = [call[c] EXCEPT !.pc = "listing", !.at = i]
    OBVIOUS
  <2>4. /\ k \in CallType /\ k.req = call[c].req /\ k.parts = call[c].parts /\ k.pc = "listing"
        /\ k.at = i
    BY <1>1, <2>2, <2>3, Handled DEF CallType, Waiting
  <2>5. Ask(c, k, {})
    BY <1>3, <2>1, <2>3 DEF ListTables
  <2>6. k.pc \in AtConnector
    BY <2>4 DEF AtConnector
  <2>7. QED
    BY <1>1, <2>2, <2>4, <2>5, <2>6, WaitStep
<1>4. QED
  BY <1>2, <1>3

LEMMA ListedStep ==
  ASSUME IndInv, server' = server, NEW c \in Call, Listed(c)
  PROVE  IndInv'
<1> DEFINE left == {i \in Targets(c) : i > call[c].at}
<1>1. /\ call[c].pc = "listing" /\ call[c].pc \in Waiting /\ call[c].pc \in AtConnector
      /\ call[c].pc \in ToolWaits /\ call[c].req.tool = "list_tables"
  BY DEF Listed, Handler, Waiting, AtConnector, ToolWaits
<1>2. call[c].at \in Permitted /\ AllowsTool(call[c].req.tool) /\ call[c].at \in Nat
  BY <1>1, Handled DEF Good, CallType
<1>3. PICK conn : conn = Conn(c)
  OBVIOUS
<1>4. conn \in Connector
  BY <1>1, <1>2, <1>3, Handled, PermittedType DEF Conn
<1>5. PICK rows : rows = Cardinality(Allowed(conn))
  OBVIOUS
<1>6. rows \in Nat
  <2>1. Allowed(conn) \subseteq Table
    BY <1>4, ConfigAssumption DEF Allowed
  <2>2. QED
    BY <1>5, <2>1, ConfigAssumption, FS_Subset, FS_CardinalityType
<1>7. PICK e : e = Entry(c, FALSE, conn, rows, {})
  OBVIOUS
<1>8. PICK part : part = [target |-> conn, rows |-> rows, tables |-> {}]
  OBVIOUS
<1>9. e \in EntryType /\ Matches(e, c, part)
  BY <1>1, <1>4, <1>6, <1>7, <1>8, Handled, EntryOf
<1>10. PICK next : next = IF left = {} THEN call[c].at ELSE First(left)
  OBVIOUS
<1>11. next \in Permitted /\ next \in Nat
  BY <1>1, <1>2, <1>10, Handled, TargetsType, ChoicesType, PermittedType
<1>12. PICK k : k = [call[c] EXCEPT !.parts = call[c].parts \cup {part}, !.at = next]
  OBVIOUS
<1>13. k \in CallType /\ k.req = call[c].req /\ k.at = next /\ k.parts = call[c].parts \cup {part}
  <2>1. part \in Part
    BY <1>4, <1>6, <1>8 DEF Part
  <2>2. QED
    BY <1>1, <1>11, <1>12, <2>1, Handled DEF CallType
<1>14. PICK pc : pc = IF left = {} THEN "replying" ELSE "listing"
  OBVIOUS
<1>15. /\ Record(c, e, k, pc, "error")
       /\ asked' = IF call'[c].pc # "listing" THEN asked
                   ELSE asked \cup {[call |-> c, conn |-> server.connectors[First(left)], tables |-> {}]}
  <2>1. call[c] \in [pc : {"new"} \cup Waiting \cup Ended, req : {None} \cup UNION {Requests(d) : d \in Call}, at : Nat,
                     tables : SUBSET Table, rows : Nat, parts : SUBSET Part, nth : Nat, recorded : BOOLEAN,
                     lost : BOOLEAN]
    BY <1>1, Handled DEF CallType
  <2>2. k = [call[c] EXCEPT !.parts = @ \cup {part}, !.at = IF left = {} THEN @ ELSE First(left)]
    BY <1>10, <1>12, <2>1
  <2>3. QED
    BY <1>3, <1>5, <1>7, <1>8, <1>14, <2>2 DEF Listed
<1>16. call'[c].pc = "listing" => left # {}
  <2>1. PICK o \in Outcomes : call' = [call EXCEPT ![c] = AfterWrite(k, IF o.thrown THEN "error" ELSE pc, o)]
    BY <1>15 DEF Record
  <2>2. PICK n : n = IF o.thrown THEN "error" ELSE pc
    OBVIOUS
  <2>3. n \in Waiting \cup Ended
    BY <1>14, <2>2 DEF Waiting, Ended
  <2>4. call'[c] = AfterWrite(k, n, o)
    BY <2>1, <2>2, <1>1, Handled
  <2>5. call'[c].pc = n
    BY <1>13, <2>3, <2>4, AfterWriteType
  <2>6. QED
    BY <1>14, <2>2, <2>5
<1>17. ASSUME NEW a \in asked', a \notin asked PROVE Fine(a, c, k.req)
  <2>1. left # {} /\ a = [call |-> c, conn |-> server.connectors[First(left)], tables |-> {}]
    BY <1>15, <1>16, <1>17
  <2>2. PICK n : n = server.connectors[next]
    OBVIOUS
  <2>3. a = [call |-> c, conn |-> n, tables |-> {}]
    BY <1>10, <2>1, <2>2
  <2>4. n \in Connector /\ AllowsConnector(n) /\ (Type[n] = "custom-sql" => policy.dialect # None)
    BY <1>1, <1>11, <2>2, Handled, PermittedType
  <2>5. QED
    BY <1>1, <1>2, <1>13, <2>3, <2>4 DEF Fine
<1>18. pc \in {"error", "rejected", "replying", "listing"}
  BY <1>14
<1>19. pc = "listing" => k.at \in Permitted /\ AllowsTool(k.req.tool)
  BY <1>2, <1>11, <1>13
<1>20. \A p \in k.parts : p \in call[c].parts \/ Matches(e, c, p)
  BY <1>9, <1>13
<1>21. \A a \in asked' : a \in asked \/ Fine(a, c, k.req)
  BY <1>17
<1>22. Record(c, e, k, pc, "error") /\ "error" \in {"error", "rejected"}
  BY <1>15
<1>23. QED
  BY <1>1, <1>9, <1>13, <1>18, <1>19, <1>20, <1>21, <1>22, RecordStep

\* A permitted table is a table.
LEMMA AllowedTable ==
  ASSUME ServerOK, server.up
  PROVE  /\ \A t : AllowsTable(t) => t \in Table /\ t \in policy.allowTables \ policy.denyTables
         /\ \A conn : /\ Allowed(conn) \subseteq Table
                      /\ Allowed(conn) \subseteq policy.allowTables \ policy.denyTables
BY PolicyType DEF AllowsTable, Allowed

LEMMA DescribeTableStep ==
  ASSUME IndInv, server' = server, NEW c \in Call, DescribeTable(c)
  PROVE  IndInv'
<1> DEFINE found == Choices(Req(c).conn, "describe")
<1>1. call[c].pc \in Waiting /\ call[c].req.tool = "describe_table" /\ AllowsTool(call[c].req.tool)
  BY DEF DescribeTable, Called, Handler, Waiting
<1>2. CASE found = {}
  BY <1>1, <1>2, CatchStep DEF DescribeTable
<1>3. CASE found # {} /\ ~AllowsTable(Req(c).table)
  BY <1>1, <1>3, RefuseStep DEF DescribeTable
<1>4. CASE found # {} /\ AllowsTable(Req(c).table)
  <2>0. PICK i \in Permitted : i = First(found)
    BY <1>1, <1>4, Handled, ChoicesType
  <2>1. PICK k : k = [call[c] EXCEPT !.pc = "describing", !.at = i]
    OBVIOUS
  <2>2. "describing" \in AtConnector /\ "describing" \in Waiting /\ i \in Nat
    BY <1>1, Handled, PermittedType DEF AtConnector, Waiting
  <2>3. /\ k \in CallType /\ k.req = call[c].req /\ k.parts = call[c].parts /\ k.pc = "describing"
        /\ k.at \in Permitted
    BY <1>1, <1>4, <2>1, <2>2, Handled DEF CallType
  <2>4. Ask(c, k, {Req(c).table})
    BY <1>4, <2>0, <2>1 DEF DescribeTable
  <2>5. {Req(c).table} \subseteq Table /\ {Req(c).table} \subseteq policy.allowTables \ policy.denyTables
    BY <1>1, <1>4, Handled, AllowedTable
  <2>6. k.pc \in AtConnector /\ AllowsTable(k.req.table)
    BY <1>4, <2>2, <2>3 DEF Req
  <2>7. QED
    BY <1>1, <2>3, <2>4, <2>5, <2>6, WaitStep
<1>5. QED
  BY <1>2, <1>3, <1>4

LEMMA DescribedStep ==
  ASSUME IndInv, server' = server, NEW c \in Call, Described(c)
  PROVE  IndInv'
<1>1. call[c].pc = "describing" /\ call[c].pc \in Waiting
  BY DEF Described, Handler, Waiting
<1>2. CASE Answer(c, Req(c).table, 0, {})
  <2>1. Req(c).table \in Table
    BY <1>1, Handled, AllowedTable DEF Good, Req
  <2>2. QED
    BY <1>1, <1>2, <2>1, AnswerStep
<1>3. CASE Refuse(c)
  BY <1>1, <1>3, RefuseStep
<1>4. QED
  BY <1>2, <1>3 DEF Described

LEMMA QueryStep ==
  ASSUME IndInv, server' = server, NEW c \in Call, Query(c)
  PROVE  IndInv'
<1> DEFINE found == Choices(Req(c).conn, "query")
<1>1. call[c].pc \in Waiting /\ call[c].req.tool = "query" /\ AllowsTool(call[c].req.tool)
  BY DEF Query, Called, Handler, Waiting
<1>2. CASE found = {}
  BY <1>1, <1>2, CatchStep DEF Query
<1>3. CASE Refuse(c)
  BY <1>1, <1>3, RefuseStep
<1>4. ASSUME found # {}, NEW tables \in SUBSET Table, NEW rows \in Nat, NEW reads \in SUBSET Table,
             GateSound /\ Seen(Req(c), server.connectors[First(found)]) =>
               reads \subseteq policy.allowTables \ policy.denyTables,
             Ask(c, [call[c] EXCEPT !.pc = "querying", !.at = First(found), !.tables = tables,
                                    !.rows = rows], reads)
      PROVE  IndInv'
  <2>0. PICK i \in Permitted : i = First(found)
    BY <1>1, <1>4, Handled, ChoicesType
  <2>1. PICK k : k = [call[c] EXCEPT !.pc = "querying", !.at = i, !.tables = tables, !.rows = rows]
    OBVIOUS
  <2>2. "querying" \in AtConnector /\ "querying" \in Waiting /\ i \in Nat
    BY <1>1, Handled, PermittedType DEF AtConnector, Waiting
  <2>3. /\ k \in CallType /\ k.req = call[c].req /\ k.parts = call[c].parts /\ k.pc = "querying"
        /\ k.at \in Permitted /\ k.at = First(found)
    BY <1>1, <1>4, <2>0, <2>1, <2>2, Handled DEF CallType
  <2>4. k.pc \in AtConnector /\ Ask(c, k, reads)
    BY <1>4, <2>0, <2>1, <2>2, <2>3
  <2>5. GateSound /\ Seen(k.req, server.connectors[k.at]) =>
          reads \subseteq policy.allowTables \ policy.denyTables
    BY <1>4, <2>3 DEF Req
  <2>6. k.pc \in ToolWaits => AllowsTool(k.req.tool)
    BY <1>1, <2>3
  <2>7. QED
    BY <1>1, <1>4, <2>3, <2>4, <2>5, <2>6, WaitStep
<1>5. CASE /\ found # {} /\ Simple(Req(c).sql) # None /\ AllowsTable(Simple(Req(c).sql))
           /\ Ask(c, [call[c] EXCEPT !.pc = "querying", !.at = First(found),
                                     !.tables = {Simple(Req(c).sql)}, !.rows = MaxRows(c)],
                  {Simple(Req(c).sql)})
  <2>1. PICK tables : tables = {Simple(Req(c).sql)}
    OBVIOUS
  <2>2. tables \subseteq Table /\ tables \subseteq policy.allowTables \ policy.denyTables
    BY <1>1, <1>5, <2>1, Handled, AllowedTable
  <2>3. PICK rows \in Nat : rows = MaxRows(c)
    BY <1>1, Handled, CapType
  <2>4. QED
    BY <1>4, <1>5, <2>1, <2>2, <2>3
<1>6. CASE /\ found # {} /\ Type[server.connectors[First(found)]] # "supabase-rest"
           /\ LET gate == Guard(Dialect, Req(c).sql, policy.allowTables \ policy.denyTables, MaxRows(c))
              IN  /\ ~gate.refused
                  /\ Ask(c, [call[c] EXCEPT !.pc = "querying", !.at = First(found),
                                            !.tables = gate.tables, !.rows = gate.rows], Reads(Req(c).sql))
  <2>1. PICK gate : gate = Guard(Dialect, Req(c).sql, policy.allowTables \ policy.denyTables, MaxRows(c))
    OBVIOUS
  <2>2. Req(c).sql \in Sql
    BY <1>1, Handled, RequestAssumption DEF Req
  <2>3. /\ Dialect \in Dialects /\ MaxRows(c) \in Caps
        /\ policy.allowTables \ policy.denyTables \in SUBSET Table
    BY <1>1, Handled, PolicyType, CapType
  <2>4. /\ Reads(Req(c).sql) \subseteq Table /\ gate \in [refused : BOOLEAN, tables : SUBSET Table, rows : Nat]
        /\ GateSound /\ Whole(Req(c).sql) /\ ~gate.refused =>
             Reads(Req(c).sql) \subseteq policy.allowTables \ policy.denyTables
    <3>1. Reads(Req(c).sql) \subseteq Table
      BY <2>2, GateAssumption
    <3>2. gate \in [refused : BOOLEAN, tables : SUBSET Table, rows : Nat]
      BY <2>1, <2>2, <2>3, GateAssumption
    <3>3. GateSound /\ Whole(Req(c).sql) /\ ~gate.refused =>
            Reads(Req(c).sql) \subseteq policy.allowTables \ policy.denyTables
      BY <2>1, <2>2, <2>3 DEF GateSound
    <3>4. QED
      BY <3>1, <3>2, <3>3
  <2>5. PICK reads : reads = Reads(Req(c).sql)
    OBVIOUS
  <2>6. PICK tables \in SUBSET Table : tables = gate.tables
    BY <2>4
  <2>7. PICK rows \in Nat : rows = gate.rows
    BY <2>4
  <2>8. ~gate.refused /\ Ask(c, [call[c] EXCEPT !.pc = "querying", !.at = First(found), !.tables = tables,
                                               !.rows = rows], reads)
    BY <1>6, <2>1, <2>5, <2>6, <2>7
  <2>9. Seen(Req(c), server.connectors[First(found)]) => Whole(Req(c).sql)
    BY <1>1, <1>6 DEF Seen, Req
  <2>10. QED
    BY <1>4, <1>6, <2>4, <2>5, <2>8, <2>9
<1>7. QED
  BY <1>2, <1>3, <1>5, <1>6 DEF Query

\* Cutting to a cap.
LEMMA CutType ==
  ASSUME NEW n \in Nat, NEW cap \in Nat
  PROVE  Cut(n, cap) \in Nat /\ Cut(n, cap) <= cap
BY DEF Cut

LEMMA AtType ==
  ASSUME IndInv, NEW c \in Call, call[c].pc \in AtConnector
  PROVE  call[c].pc \in Waiting /\ Conn(c) \in Connector /\ call[c].at \in Permitted
<1>1. call[c].pc \in Waiting
  BY DEF AtConnector, Waiting
<1>2. QED
  BY <1>1, Handled, PermittedType DEF Good, Conn

LEMMA QueriedStep ==
  ASSUME IndInv, server' = server, NEW c \in Call, Queried(c)
  PROVE  IndInv'
<1>1. call[c].pc = "querying" /\ call[c].pc \in AtConnector /\ call[c].pc \in Waiting
  BY DEF Queried, Handler, Waiting, AtConnector
<1>2. CASE Refuse(c)
  BY <1>1, <1>2, RefuseStep
<1>3. CASE \E n \in Nat : Answer(c, Conn(c), Cut(n, MaxRows(c)), call[c].tables)
  <2>1. PICK n \in Nat : Answer(c, Conn(c), Cut(n, MaxRows(c)), call[c].tables)
    BY <1>3
  <2>2. PICK rows \in Nat : rows = Cut(n, MaxRows(c))
    BY <1>1, Handled, CapType, CutType
  <2>3. PICK tables \in SUBSET Table : tables = call[c].tables
    BY <1>1, Handled DEF CallType
  <2>4. PICK conn \in Connector : conn = Conn(c)
    BY <1>1, AtType
  <2>5. QED
    BY <1>1, <2>1, <2>2, <2>3, <2>4, AnswerStep
<1>4. QED
  <2>1. call[c].rows \in Nat
    BY <1>1, Handled DEF CallType
  <2>2. \A most \in Nat : 0..most \subseteq Nat
    OBVIOUS
  <2>3. Cut(call[c].rows, Rows) \in Nat /\ Rows \in Nat
    BY <2>1, ConfigAssumption, CutType
  <2>4. QED
    BY <1>2, <1>3, <2>2, <2>3 DEF Queried

LEMMA SearchStep ==
  ASSUME IndInv, server' = server, NEW c \in Call, Search(c)
  PROVE  IndInv'
<1> DEFINE found == Choices(Req(c).conn, "search")
<1>1. call[c].pc \in Waiting /\ call[c].req.tool = "search" /\ AllowsTool(call[c].req.tool)
  BY DEF Search, Called, Handler, Waiting
<1>2. CASE found = {}
  BY <1>1, <1>2, CatchStep DEF Search
<1>3. CASE Refuse(c)
  BY <1>1, <1>3, RefuseStep
<1>4. CASE found # {} /\ Ask(c, [call[c] EXCEPT !.pc = "scoping", !.at = First(found)], {})
  <2>0. PICK i \in Permitted : i = First(found)
    BY <1>1, <1>4, Handled, ChoicesType
  <2>1. PICK k : k = [call[c] EXCEPT !.pc = "scoping", !.at = i]
    OBVIOUS
  <2>2. "scoping" \in AtConnector /\ "scoping" \in Waiting /\ i \in Nat
    BY <1>1, Handled, PermittedType DEF AtConnector, Waiting
  <2>3. /\ k \in CallType /\ k.req = call[c].req /\ k.parts = call[c].parts /\ k.pc = "scoping"
        /\ k.at \in Permitted
    BY <1>1, <2>1, <2>2, Handled DEF CallType
  <2>4. k.pc \in AtConnector /\ Ask(c, k, {})
    BY <1>4, <2>0, <2>1, <2>2, <2>3
  <2>5. QED
    BY <1>1, <2>3, <2>4, WaitStep
<1>5. QED
  BY <1>2, <1>3, <1>4 DEF Search

LEMMA ScopedStep ==
  ASSUME IndInv, server' = server, NEW c \in Call, Scoped(c)
  PROVE  IndInv'
<1>1. /\ call[c].pc = "scoping" /\ call[c].pc \in AtConnector /\ call[c].pc \in Waiting
      /\ call[c].pc \in ToolWaits
  BY DEF Scoped, Handler, Waiting, AtConnector, ToolWaits
<1>2. CASE Refuse(c)
  BY <1>1, <1>2, RefuseStep
<1>3. CASE Ask(c, [call[c] EXCEPT !.pc = "searching", !.tables = Scope(Conn(c), Req(c).tables)],
               Scope(Conn(c), Req(c).tables))
  <2>1. PICK scope : scope = Scope(Conn(c), Req(c).tables)
    OBVIOUS
  <2>2. scope \subseteq Table /\ scope \subseteq policy.allowTables \ policy.denyTables
    BY <1>1, <2>1, Handled, AllowedTable DEF Scope
  <2>3. PICK k : k = [call[c] EXCEPT !.pc = "searching", !.tables = scope]
    OBVIOUS
  <2>4. "searching" \in AtConnector /\ "searching" \in Waiting
    BY DEF AtConnector, Waiting
  <2>5. /\ k \in CallType /\ k.req = call[c].req /\ k.parts = call[c].parts /\ k.pc = "searching"
        /\ k.at = call[c].at
    BY <1>1, <2>2, <2>3, <2>4, Handled DEF CallType
  <2>6. k.at \in Permitted /\ AllowsTool(k.req.tool) /\ k.pc \in AtConnector
    BY <1>1, <2>4, <2>5, AtType, Handled DEF Good
  <2>7. Ask(c, k, scope)
    BY <1>3, <2>1, <2>3
  <2>8. QED
    BY <1>1, <2>2, <2>5, <2>6, <2>7, WaitStep
<1>4. QED
  BY <1>2, <1>3 DEF Scoped

LEMMA SearchedStep ==
  ASSUME IndInv, server' = server, NEW c \in Call, Searched(c)
  PROVE  IndInv'
<1>1. call[c].pc = "searching" /\ call[c].pc \in AtConnector /\ call[c].pc \in Waiting
  BY DEF Searched, Handler, Waiting, AtConnector
<1>2. Cut(Rows, MaxRows(c)) \in Nat /\ call[c].tables \subseteq Table
  BY <1>1, Handled, CapType, CutType, ConfigAssumption DEF CallType
<1>3. PICK n \in 0..Cut(Rows, MaxRows(c)), hit \in SUBSET call[c].tables : Answer(c, Conn(c), n, hit)
  BY DEF Searched
<1>4. n \in Nat /\ hit \in SUBSET Table
  BY <1>2
<1>5. PICK conn \in Connector : conn = Conn(c)
  BY <1>1, AtType
<1>6. QED
  BY <1>1, <1>3, <1>4, <1>5, AnswerStep

LEMMA ReplyStep ==
  ASSUME IndInv, server' = server, NEW c \in Call, Reply(c)
  PROVE  IndInv'
<1>1. call[c].pc = "replying" /\ call[c].pc \in Waiting
  BY DEF Reply, Waiting
<1>2. PICK k : k = [call[c] EXCEPT !.pc = "data"]
  OBVIOUS
<1>3. "data" \in Ended /\ "data" \notin Waiting /\ "data" \notin AtConnector /\ "data" \notin ToolWaits
  BY DEF Ended, Waiting, AtConnector, ToolWaits
<1>4. k \in CallType /\ k.pc = "data" /\ k.req = call[c].req /\ k.parts = call[c].parts
  BY <1>1, <1>2, <1>3, Handled DEF CallType
<1>5. Good(k, c, trail)
  BY <1>1, <1>3, <1>4, Handled DEF Good, Said
<1>6. call' = [call EXCEPT ![c] = k] /\ trail' = trail /\ asked' = asked
  BY <1>2 DEF Reply
<1>7. QED
  BY <1>1, <1>4, <1>5, <1>6, MoveStep
-----------------------------------------------------------------------------
(* Resources.                                                              *)

LEMMA RejectStep ==
  ASSUME IndInv, server' = server, NEW c \in Call, call[c].pc \in Waiting, Reject(c)
  PROVE  IndInv'
BY EndStep DEF Reject

LEMMA ReadResourceStep ==
  ASSUME IndInv, server' = server, NEW c \in Call, ReadResource(c)
  PROVE  IndInv'
<1> DEFINE found == {i \in Live : server.connectors[i] = Req(c).conn}
<1>1. call[c].pc \in Waiting /\ call[c].req.tool = "resource"
  BY DEF ReadResource, Handler, Waiting
<1>2. CASE Reject(c)
  BY <1>1, <1>2, RejectStep
<1>3. CASE Record(c, Unnamed(Denial(c)), call[c], "rejected", "rejected") /\ UNCHANGED asked
  <2>1. PICK e : e = Unnamed(Denial(c))
    OBVIOUS
  <2>2. QED
    BY <1>1, <1>3, <2>1, DenialStep
<1>4. CASE /\ found # {} /\ AllowsConnector(Req(c).conn)
           /\ Ask(c, [call[c] EXCEPT !.pc = "reading", !.at = First(found)], {})
  <2>1. found \subseteq Permitted
    BY <1>4 DEF Permitted
  <2>2. PICK i \in Permitted : i = First(found)
    BY <1>1, <1>4, <2>1, Handled, ChoicesType
  <2>3. PICK k : k = [call[c] EXCEPT !.pc = "reading", !.at = i]
    OBVIOUS
  <2>4. /\ "reading" \in AtConnector /\ "reading" \in Waiting /\ "reading" \notin ToolWaits
        /\ i \in Nat
    BY <1>1, Handled, PermittedType DEF AtConnector, Waiting, ToolWaits
  <2>5. /\ k \in CallType /\ k.req = call[c].req /\ k.parts = call[c].parts /\ k.pc = "reading"
        /\ k.at \in Permitted
    BY <1>1, <2>3, <2>4, Handled DEF CallType
  <2>6. k.pc \in AtConnector /\ k.pc \notin ToolWaits /\ Ask(c, k, {})
    BY <1>4, <2>2, <2>3, <2>4, <2>5
  <2>7. QED
    BY <1>1, <2>5, <2>6, WaitStep
<1>5. QED
  BY <1>2, <1>3, <1>4 DEF ReadResource

LEMMA DetailingStep ==
  ASSUME IndInv, server' = server, NEW c \in Call, call[c].pc \in {"reading", "detailing"},
         call[c].req.tool = "resource",
         NEW left \in SUBSET Allowed(Conn(c)), NEW asking \in SUBSET Allowed(Conn(c)), NEW done \in Nat,
         Detailing(c, left, done, asking)
  PROVE  IndInv'
<1>1. call[c].pc \in AtConnector /\ call[c].pc \in Waiting
  BY DEF AtConnector, Waiting
<1>2. PICK conn \in Connector : conn = Conn(c)
  BY <1>1, AtType
<1>3. /\ left \subseteq Table /\ asking \subseteq Table
      /\ asking \subseteq policy.allowTables \ policy.denyTables
  BY <1>1, Handled, AllowedTable
<1>4. ASSUME NEW a \in asked', a \notin asked PROVE Fine(a, c, call[c].req)
  <2>1. PICK t \in asking : a = [call |-> c, conn |-> conn, tables |-> {t}]
    BY <1>2, <1>4 DEF Detailing
  <2>2. AllowsConnector(conn) /\ (Type[conn] = "custom-sql" => policy.dialect # None)
    BY <1>1, <1>2, AtType, Handled, PermittedType DEF Conn
  <2>3. QED
    BY <1>3, <2>1, <2>2 DEF Fine
<1>5. CASE left # {}
  <2>1. PICK k : k = [call[c] EXCEPT !.pc = "detailing", !.tables = left, !.rows = done]
    OBVIOUS
  <2>2. "detailing" \in AtConnector /\ "detailing" \in Waiting /\ "detailing" \notin ToolWaits
    BY DEF AtConnector, Waiting, ToolWaits
  <2>3. /\ k \in CallType /\ k.req = call[c].req /\ k.parts = call[c].parts /\ k.pc = "detailing"
        /\ k.at = call[c].at /\ k.tables = left
    BY <1>1, <1>3, <2>1, <2>2, Handled DEF CallType
  <2>4. k.at \in Permitted /\ k.tables \subseteq Allowed(server.connectors[k.at])
    BY <1>1, <2>3, AtType DEF Conn
  <2>5. Good(k, c, trail) /\ k.pc # "new"
    BY <1>1, <2>2, <2>3, <2>4, WaitGood
  <2>6. call' = [call EXCEPT ![c] = k] /\ trail' = trail
    BY <1>5, <2>1 DEF Detailing
  <2>7. QED
    BY <1>1, <1>4, <2>3, <2>5, <2>6, MoveStep
<1>6. CASE left = {}
  <2>1. PICK e : e = Unnamed(Entry(c, FALSE, conn, done, {}))
    OBVIOUS
  <2>2. PICK part : part = [target |-> conn, rows |-> done, tables |-> {}]
    OBVIOUS
  <2>3. e \in EntryType /\ Matches(e, c, part)
    BY <1>1, <2>1, <2>2, Handled, EntryOf
  <2>4. PICK k : k = [call[c] EXCEPT !.tables = {}, !.rows = done, !.parts = {part}]
    OBVIOUS
  <2>5. part \in Part
    BY <2>2 DEF Part
  <2>6. k \in CallType /\ k.req = call[c].req /\ k.parts = {part}
    BY <1>1, <2>4, <2>5, Handled DEF CallType
  <2>7. Record(c, e, k, "replying", "rejected")
    BY <1>2, <1>6, <2>1, <2>2, <2>4 DEF Detailing
  <2>8. QED
    BY <1>1, <1>4, <2>3, <2>6, <2>7, RecordStep
<1>7. QED
  BY <1>5, <1>6

LEMMA ResourceListedStep ==
  ASSUME IndInv, server' = server, NEW c \in Call, ResourceListed(c)
  PROVE  IndInv'
<1>1. call[c].pc = "reading" /\ call[c].pc \in Waiting /\ call[c].req.tool = "resource"
  BY DEF ResourceListed, Handler, Waiting
<1>2. CASE Reject(c)
  BY <1>1, <1>2, RejectStep
<1>3. CASE \E left \in SUBSET Allowed(Conn(c)) : Detailing(c, left, 0, {})
  BY <1>1, <1>3, DetailingStep
<1>4. QED
  BY <1>2, <1>3 DEF ResourceListed

LEMMA DetailedStep ==
  ASSUME IndInv, server' = server, NEW c \in Call, Detailed(c)
  PROVE  IndInv'
<1>1. call[c].pc = "detailing" /\ call[c].pc \in Waiting /\ call[c].req.tool = "resource"
  BY DEF Detailed, Handler, Waiting
<1>2. CASE Reject(c)
  BY <1>1, <1>2, RejectStep
<1>3. CASE \E t \in call[c].tables : Detailing(c, call[c].tables \ {t}, call[c].rows + 1, {t})
  <2>1. PICK t \in call[c].tables : Detailing(c, call[c].tables \ {t}, call[c].rows + 1, {t})
    BY <1>3
  <2>2. call[c].tables \subseteq Allowed(Conn(c)) /\ call[c].rows \in Nat
    BY <1>1, Handled DEF Good, Conn, CallType
  <2>3. PICK left \in SUBSET Allowed(Conn(c)) : left = call[c].tables \ {t}
    BY <2>2
  <2>4. PICK done \in Nat : done = call[c].rows + 1
    BY <2>2
  <2>5. {t} \in SUBSET Allowed(Conn(c))
    BY <2>2
  <2>6. QED
    BY <1>1, <2>1, <2>3, <2>4, <2>5, DetailingStep
<1>4. QED
  BY <1>2, <1>3 DEF Detailed
-----------------------------------------------------------------------------
(* Calls that arrive, the server's process.                                *)

\* New calls have said nothing and asked for nothing.
LEMMA ArriveStep ==
  ASSUME IndInv, NEW c \in Call, Arrive(c)
  PROVE  IndInv'
<1>1. server' = server /\ trail' = trail /\ asked' = asked /\ server.up /\ call[c].pc = "new"
  BY DEF Arrive
<1>2. PICK r \in Requests(c) : call' = [call EXCEPT ![c].pc = "arrived", ![c].req = r]
  BY DEF Arrive
<1>3. Good(call[c], c, trail) /\ call[c] \in CallType /\ call = [d \in Call |-> call[d]]
  BY DEF IndInv, CallsGood, Good
<1>4. PICK k : k = [call[c] EXCEPT !.pc = "arrived", !.req = r]
  OBVIOUS
<1>5. /\ call' = [d \in Call |-> call'[d]] /\ call'[c] = k
      /\ \A d \in Call \ {c} : call'[d] = call[d]
  BY <1>2, <1>3, <1>4
<1>6. "arrived" \in Waiting /\ "arrived" \notin AtConnector /\ "arrived" \notin ToolWaits
  BY DEF Waiting, AtConnector, ToolWaits
<1>7. k \in CallType /\ k.pc = "arrived" /\ k.req = r /\ k.parts = call[c].parts
  BY <1>3, <1>4, <1>6 DEF CallType
<1>8. call[c].parts = {}
  BY <1>1, <1>3 DEF IndInv, NewEmpty
<1>9. Good(k, c, trail)
  BY <1>1, <1>6, <1>7, <1>8 DEF Good, Said
<1>10. ServerOK'
  BY <1>1 DEF IndInv, ServerOK, Booted, Bootable
<1>11. ASSUME NEW d \in Call PROVE Good(call[d], d, trail)'
  <2>1. PICK T : T = trail
    OBVIOUS
  <2>2. PICK h : h = call'[d]
    OBVIOUS
  <2>3. Good(h, d, T)
    BY <1>5, <1>9, <2>1, <2>2 DEF IndInv, CallsGood
  <2>4. Good(h, d, T)'
    BY <1>1, <2>3, ServerSame
  <2>5. QED
    BY <1>1, <2>1, <2>2, <2>4
<1>12. AskedOK'
  <2>1. \A a \in asked : a.call \in Call /\ call[a.call].pc # "new"
    BY DEF IndInv, AskedOK
  <2>2. \A a \in asked : a.call # c /\ call'[a.call] = call[a.call]
    BY <1>1, <1>5, <2>1
  <2>3. ASSUME GateSound PROVE AskedWithinPolicy'
    BY <1>1, <2>2, <2>3 DEF IndInv, AskedOK, AskedWithinPolicy, Req, AllowsTool, AllowsConnector, policy
  <2>4. QED
    BY <1>1, <2>2, <2>3 DEF IndInv, AskedOK
<1>13. NewEmpty'
  <2>1. call'[c].pc # "new"
    BY <1>5, <1>7
  <2>2. QED
    BY <1>5, <2>1 DEF IndInv, NewEmpty
<1>14. QED
  BY <1>1, <1>5, <1>10, <1>11, <1>12, <1>13 DEF IndInv, CallsGood

\* While the server is down no call waits.
LEMMA GoodDown ==
  ASSUME NEW k, NEW c, NEW T, Good(k, c, T), k.pc \notin Waiting
  PROVE  Good(k, c, T)'
<1>1. k.pc \notin AtConnector /\ k.pc \notin ToolWaits /\ k.pc # "describing" /\ k.pc # "detailing"
  BY DEF Waiting, AtConnector, ToolWaits
<1>2. QED
  BY <1>1 DEF Good, Said

LEMMA BootStep ==
  ASSUME IndInv, Boot
  PROVE  IndInv'
<1>1. ~server.up /\ UNCHANGED <<call, trail, asked>> /\ asked = {}
  BY DEF Boot, IndInv, AskedOK
<1>2. PICK config \in Configs, failed \in SUBSET Unreachable :
        /\ server.boots < MaxBoots /\ Bootable(config)
        /\ server' = [up |-> TRUE, boots |-> server.boots + 1, connectors |-> config.connectors,
                      failed |-> failed, policy |-> config.policy]
  BY DEF Boot
<1>3. ServerOK'
  <2>1. server'.boots \in 0..MaxBoots
    BY <1>2, ConfigAssumption DEF IndInv, ServerOK
  <2>2. config \in Booted'
    BY <1>2 DEF Booted, Bootable
  <2>3. QED
    BY <1>2, <2>1, <2>2 DEF ServerOK
<1>4. ASSUME NEW d \in Call PROVE Good(call[d], d, trail)'
  <2>1. PICK T : T = trail
    OBVIOUS
  <2>2. PICK h : h = call[d]
    OBVIOUS
  <2>3. Good(h, d, T) /\ h.pc \notin Waiting
    BY <1>1, <2>1, <2>2 DEF IndInv, CallsGood, Good
  <2>4. Good(h, d, T)'
    BY <2>3, GoodDown
  <2>5. QED
    BY <1>1, <2>1, <2>2, <2>4
<1>5. AskedOK'
  BY <1>1, <1>2 DEF AskedOK, AskedWithinPolicy
<1>6. QED
  BY <1>1, <1>3, <1>4, <1>5 DEF IndInv, CallsGood, NewEmpty

LEMMA StopStep ==
  ASSUME IndInv, Stop
  PROVE  IndInv'
<1>1. server' = [Down EXCEPT !.boots = server.boots] /\ asked' = {} /\ trail' = trail
  BY DEF Stop
<1>2. ServerOK' /\ ~server'.up
  BY <1>1 DEF IndInv, ServerOK, Down
<1>3. /\ call' = [d \in Call |-> call'[d]]
      /\ \A d \in Call : call'[d] = IF call[d].pc \in Waiting THEN [call[d] EXCEPT !.pc = "gone"] ELSE call[d]
  BY DEF Stop
<1>4. ASSUME NEW d \in Call PROVE Good(call[d], d, trail)'
  <2>1. PICK T : T = trail
    OBVIOUS
  <2>2. PICK h : h = call'[d]
    OBVIOUS
  <2>3. Good(call[d], d, T) /\ call[d] \in CallType
    BY <2>1 DEF IndInv, CallsGood, Good
  <2>4. "gone" \in Ended /\ "gone" \notin Waiting \cup {"data", "new"} /\ "gone" \notin AtConnector
    BY DEF Ended, Waiting, AtConnector
  <2>5. CASE call[d].pc \in Waiting
    <3>1. h = [call[d] EXCEPT !.pc = "gone"]
      BY <1>3, <2>2, <2>5
    <3>2. h \in CallType /\ h.pc = "gone" /\ h.req = call[d].req
      BY <2>3, <2>4, <3>1 DEF CallType
    <3>3. call[d].pc # "new"
      BY <2>5 DEF Waiting
    <3>4. Good(h, d, T) /\ h.pc \notin Waiting
      BY <2>3, <2>4, <3>2, <3>3 DEF Good, ToolWaits, AtConnector
    <3>5. Good(h, d, T)'
      BY <3>4, GoodDown
    <3>6. QED
      BY <1>1, <2>1, <2>2, <3>5
  <2>6. CASE call[d].pc \notin Waiting
    <3>1. Good(h, d, T) /\ h.pc \notin Waiting
      BY <1>3, <2>2, <2>3, <2>6
    <3>2. Good(h, d, T)'
      BY <3>1, GoodDown
    <3>3. QED
      BY <1>1, <2>1, <2>2, <3>2
  <2>7. QED
    BY <2>5, <2>6
<1>5. AskedOK'
  BY <1>1, <1>2 DEF AskedOK, AskedWithinPolicy
<1>6. NewEmpty'
  <2>1. ASSUME NEW d \in Call, call'[d].pc = "new" PROVE call'[d].parts = {}
    <3>1. CASE call[d].pc \in Waiting
      <4>1. call'[d] = [call[d] EXCEPT !.pc = "gone"] /\ call[d] \in CallType
        BY <1>3, <3>1 DEF IndInv, CallsGood, Good
      <4>2. call'[d].pc = "gone"
        BY <4>1 DEF CallType
      <4>3. QED
        BY <2>1, <4>2
    <3>2. CASE call[d].pc \notin Waiting
      BY <1>3, <2>1, <3>2 DEF IndInv, NewEmpty
    <3>3. QED
      BY <3>1, <3>2
  <2>2. QED
    BY <2>1 DEF NewEmpty
<1>7. QED
  BY <1>1, <1>2, <1>3, <1>4, <1>5, <1>6 DEF IndInv, CallsGood

LEMMA InitInv == Init => IndInv
<1> SUFFICES ASSUME Init PROVE IndInv
  OBVIOUS
<1>1. ServerOK
  BY ConfigAssumption DEF Init, ServerOK, Down
<1>2. ASSUME NEW c \in Call PROVE Good(call[c], c, trail) /\ call[c].parts = {}
  <2>1. call[c] = NewCall
    BY DEF Init
  <2>2. NewCall \in CallType
    BY DEF NewCall, CallType
  <2>3. "new" \notin Waiting /\ "new" \notin AtConnector /\ "new" \notin ToolWaits
    BY DEF Waiting, AtConnector, ToolWaits
  <2>4. NewCall.pc = "new" /\ NewCall.parts = {}
    BY DEF NewCall
  <2>5. QED
    BY <2>1, <2>2, <2>3, <2>4 DEF Good
<1>3. call = [c \in Call |-> call[c]] /\ trail \subseteq EntryType /\ AskedOK
  BY DEF Init, AskedOK, AskedWithinPolicy
<1>4. QED
  BY <1>1, <1>2, <1>3 DEF IndInv, CallsGood, NewEmpty

LEMMA HandleStep ==
  ASSUME IndInv, NEW c \in Call, Handle(c)
  PROVE  IndInv'
BY DenyToolStep, UnknownToolStep, FailsStep, ListTablesStep, ListedStep, DescribeTableStep,
   DescribedStep, QueryStep, QueriedStep, SearchStep, ScopedStep, SearchedStep, ReadResourceStep,
   ResourceListedStep, DetailedStep, ReplyStep DEF Handle

\* A step that changes nothing.
LEMMA StutterStep ==
  ASSUME IndInv, UNCHANGED vars
  PROVE  IndInv'
<1>1. server' = server /\ call' = call /\ trail' = trail /\ asked' = asked
  BY DEF vars
<1>2. ASSUME NEW d \in Call PROVE Good(call[d], d, trail)'
  <2>1. PICK T : T = trail
    OBVIOUS
  <2>2. PICK h : h = call[d]
    OBVIOUS
  <2>3. Good(h, d, T)'
    BY <1>1, <2>1, <2>2, ServerSame DEF IndInv, CallsGood
  <2>4. QED
    BY <1>1, <2>1, <2>2, <2>3
<1>3. ServerOK' /\ AskedOK'
  BY <1>1 DEF IndInv, ServerOK, Booted, Bootable, AskedOK, AskedWithinPolicy, Req, AllowsTool,
              AllowsConnector, policy
<1>4. QED
  BY <1>1, <1>2, <1>3 DEF IndInv, CallsGood, NewEmpty

LEMMA Inductive == IndInv /\ [Next]_vars => IndInv'
<1> SUFFICES ASSUME IndInv, [Next]_vars PROVE IndInv'
  OBVIOUS
<1>1. CASE \E c \in Call : Arrive(c) \/ Handle(c)
  BY <1>1, ArriveStep, HandleStep
<1>2. CASE Boot
  BY <1>2, BootStep
<1>3. CASE Stop
  BY <1>3, StopStep
<1>4. CASE UNCHANGED vars
  BY <1>4, StutterStep
<1>5. QED
  BY <1>1, <1>2, <1>3, <1>4 DEF Next

LEMMA Always == Spec => []IndInv
<1>1. QED
  BY InitInv, Inductive, PTL DEF Spec
-----------------------------------------------------------------------------
(* What a handler's step adds to the trail and never gives to a client.    *)

\* What an entry says was handed out is within the cap of its profile.
Sound(w) == Req(w.call).tool # "list_tables" /\ Req(w.call).tool # "resource" => w.rows <= CapOf(w.profile)

Quiet(c) ==
  /\ trail \subseteq trail' /\ \A w \in trail' \ trail : Sound(w)
  /\ call[c].pc # "data"
  /\ \E k : call' = [call EXCEPT ![c] = k] /\ k.pc # "data"

LEMMA QuietMove ==
  ASSUME NEW c \in Call, call[c].pc \in Waiting, NEW k, k.pc # "data", call' = [call EXCEPT ![c] = k],
         trail' = trail
  PROVE  Quiet(c)
BY DEF Quiet, Waiting

LEMMA QuietRecord ==
  ASSUME NEW c \in Call, call[c].pc \in Waiting, NEW e \in EntryType, NEW k \in CallType, Sound(e),
         NEW pc \in (Waiting \cup Ended) \ {"data"}, NEW thrownPc \in (Waiting \cup Ended) \ {"data"},
         Record(c, e, k, pc, thrownPc)
  PROVE  Quiet(c)
<1>1. PICK o \in Outcomes : /\ trail' = trail \cup Written(e, o)
                            /\ call' = [call EXCEPT ![c] = AfterWrite(k, IF o.thrown THEN thrownPc ELSE pc, o)]
  BY DEF Record
<1>2. PICK next \in (Waiting \cup Ended) \ {"data"} : next = IF o.thrown THEN thrownPc ELSE pc
  OBVIOUS
<1>3. AfterWrite(k, next, o).pc # "data"
  BY <1>2, AfterWriteType
<1>4. ASSUME NEW w \in Written(e, o) PROVE Sound(w)
  <2>1. w = [e EXCEPT !.receipt = o.receipt]
    BY <1>4, WrittenType
  <2>2. w.call = e.call /\ w.rows = e.rows /\ w.profile = e.profile
    BY <2>1 DEF EntryType
  <2>3. QED
    BY <2>2 DEF Sound
<1>5. call[c].pc # "data"
  BY DEF Waiting
<1>6. QED
  BY <1>1, <1>2, <1>3, <1>4, <1>5 DEF Quiet

LEMMA DenialQuiet ==
  ASSUME IndInv, NEW c \in Call, call[c].pc \in Waiting, NEW pc \in {"error", "rejected"},
         NEW thrownPc \in {"error", "rejected"}, Record(c, Denial(c), call[c], pc, thrownPc)
  PROVE  Quiet(c)
<1>1. PICK e : e = Denial(c)
  OBVIOUS
<1>2. e \in EntryType
  BY <1>1, Handled, EntryOf, 0 \in Nat DEF Denial
<1>3. e.call = c /\ e.rows = 0 /\ e.profile = Applied(c)
  BY <1>1 DEF Denial, Entry
<1>4. Sound(e)
  BY <1>3, Handled, CapType DEF Sound, MaxRows
<1>5. pc \in (Waiting \cup Ended) \ {"data"} /\ thrownPc \in (Waiting \cup Ended) \ {"data"}
  BY DEF Waiting, Ended
<1>6. PICK k \in CallType : k = call[c]
  BY Handled
<1>7. QED
  BY <1>1, <1>2, <1>4, <1>5, <1>6, QuietRecord

LEMMA EndQuiet ==
  ASSUME IndInv, NEW c \in Call, call[c].pc \in Waiting, NEW pc \in {"error", "rejected"},
         call' = [call EXCEPT ![c].pc = pc], trail' = trail
  PROVE  Quiet(c)
<1>1. PICK k : k = [call[c] EXCEPT !.pc = pc]
  OBVIOUS
<1>2. k.pc # "data" /\ call' = [call EXCEPT ![c] = k]
  BY <1>1, Handled DEF CallType
<1>3. QED
  BY <1>2, QuietMove

LEMMA CatchQuiet ==
  ASSUME IndInv, NEW c \in Call, call[c].pc \in Waiting, Catch(c) \/ Refuse(c) \/ Reject(c)
  PROVE  Quiet(c)
BY DenialQuiet, EndQuiet DEF Catch, Refuse, Reject

LEMMA AnswerQuiet ==
  ASSUME IndInv, NEW c \in Call, call[c].pc \in Waiting,
         NEW target \in Connector \cup Table, NEW rows \in Nat, NEW tables \in SUBSET Table,
         rows <= MaxRows(c), Answer(c, target, rows, tables)
  PROVE  Quiet(c)
<1>1. PICK e : e = Entry(c, FALSE, target, rows, tables)
  OBVIOUS
<1>2. PICK part : part = [target |-> target, rows |-> rows, tables |-> tables]
  OBVIOUS
<1>3. PICK k : k = [call[c] EXCEPT !.parts = {part}]
  OBVIOUS
<1>4. e \in EntryType
  BY <1>1, Handled, EntryOf
<1>5. part \in Part
  BY <1>2 DEF Part
<1>6. k \in CallType
  BY <1>3, <1>5, Handled DEF CallType
<1>7. e.call = c /\ e.rows = rows /\ e.profile = Applied(c)
  BY <1>1 DEF Entry
<1>8. Sound(e)
  BY <1>7 DEF Sound, MaxRows
<1>9. Record(c, e, k, "replying", "error")
  BY <1>1, <1>2, <1>3 DEF Answer
<1>10. "replying" \in (Waiting \cup Ended) \ {"data"} /\ "error" \in (Waiting \cup Ended) \ {"data"}
  BY DEF Waiting, Ended
<1>11. QED
  BY <1>4, <1>6, <1>8, <1>9, <1>10, QuietRecord

LEMMA AskQuiet ==
  ASSUME IndInv, NEW c \in Call, call[c].pc \in Waiting, NEW i, NEW tables, NEW rows, NEW asking,
         NEW pc \in AtConnector,
         \/ Ask(c, [call[c] EXCEPT !.pc = pc, !.at = i, !.tables = tables, !.rows = rows], asking)
         \/ Ask(c, [call[c] EXCEPT !.pc = pc, !.at = i], asking)
         \/ Ask(c, [call[c] EXCEPT !.pc = pc, !.tables = tables], asking)
  PROVE  Quiet(c)
<1>1. PICK k : /\ Ask(c, k, asking)
               /\ \/ k = [call[c] EXCEPT !.pc = pc, !.at = i, !.tables = tables, !.rows = rows]
                  \/ k = [call[c] EXCEPT !.pc = pc, !.at = i]
                  \/ k = [call[c] EXCEPT !.pc = pc, !.tables = tables]
  OBVIOUS
<1>2. k.pc = pc
  BY <1>1, Handled DEF CallType
<1>3. k.pc # "data"
  BY <1>2 DEF AtConnector
<1>4. call' = [call EXCEPT ![c] = k] /\ trail' = trail
  BY <1>1 DEF Ask
<1>5. QED
  BY <1>3, <1>4, QuietMove

LEMMA ListedQuiet ==
  ASSUME IndInv, NEW c \in Call, Listed(c)
  PROVE  Quiet(c)
<1> DEFINE left == {i \in Targets(c) : i > call[c].at}
<1>1. call[c].pc \in Waiting /\ call[c].pc \in AtConnector /\ call[c].req.tool = "list_tables"
  BY DEF Listed, Handler, Waiting, AtConnector
<1>2. PICK conn \in Connector : conn = Conn(c)
  BY <1>1, AtType
<1>3. PICK rows : rows = Cardinality(Allowed(conn))
  OBVIOUS
<1>4. rows \in Nat
  <2>1. Allowed(conn) \subseteq Table
    BY <1>2, ConfigAssumption DEF Allowed
  <2>2. QED
    BY <1>3, <2>1, ConfigAssumption, FS_Subset, FS_CardinalityType
<1>5. PICK e : e = Entry(c, FALSE, conn, rows, {})
  OBVIOUS
<1>6. e \in EntryType /\ e.call = c
  <2>1. e \in EntryType
    BY <1>1, <1>2, <1>4, <1>5, Handled, EntryOf
  <2>2. QED
    BY <1>5, <2>1 DEF Entry
<1>7. Sound(e)
  BY <1>1, <1>6 DEF Sound, Req
<1>8. PICK part \in Part : part = [target |-> conn, rows |-> rows, tables |-> {}]
  BY <1>2, <1>4 DEF Part
<1>9. PICK next : next = IF left = {} THEN call[c].at ELSE First(left)
  OBVIOUS
<1>10. next \in Nat
  BY <1>1, <1>9, Handled, AtType, TargetsType, ChoicesType, PermittedType
<1>11. PICK k : k = [call[c] EXCEPT !.parts = call[c].parts \cup {part}, !.at = next]
  OBVIOUS
<1>12. k \in CallType /\ k = [call[c] EXCEPT !.parts = @ \cup {part}, !.at = IF left = {} THEN @ ELSE First(left)]
  BY <1>1, <1>9, <1>10, <1>11, Handled DEF CallType
<1>13. PICK pc : pc = IF left = {} THEN "replying" ELSE "listing"
  OBVIOUS
<1>14. Record(c, e, k, pc, "error")
  BY <1>2, <1>3, <1>5, <1>8, <1>12, <1>13 DEF Listed
<1>15. pc \in (Waiting \cup Ended) \ {"data"} /\ "error" \in (Waiting \cup Ended) \ {"data"}
  BY <1>13 DEF Waiting, Ended
<1>16. QED
  BY <1>1, <1>6, <1>7, <1>12, <1>14, <1>15, QuietRecord

LEMMA DetailingQuiet ==
  ASSUME IndInv, NEW c \in Call, call[c].pc \in {"reading", "detailing"},
         call[c].req.tool = "resource", NEW left \in SUBSET Table, NEW asking, NEW done \in Nat,
         Detailing(c, left, done, asking)
  PROVE  Quiet(c)
<1>1. call[c].pc \in AtConnector /\ call[c].pc \in Waiting
  BY DEF AtConnector, Waiting
<1>2. PICK conn \in Connector : conn = Conn(c)
  BY <1>1, AtType
<1>3. CASE left # {}
  <2>1. PICK k : k = [call[c] EXCEPT !.pc = "detailing", !.tables = left, !.rows = done]
    OBVIOUS
  <2>2. k.pc # "data"
    BY <1>1, <2>1, Handled DEF CallType
  <2>3. call' = [call EXCEPT ![c] = k] /\ trail' = trail
    BY <1>3, <2>1 DEF Detailing
  <2>4. QED
    BY <1>1, <2>2, <2>3, QuietMove
<1>4. CASE left = {}
  <2>1. PICK e : e = Unnamed(Entry(c, FALSE, conn, done, {}))
    OBVIOUS
  <2>2. PICK part \in Part : part = [target |-> conn, rows |-> done, tables |-> {}]
    BY DEF Part
  <2>3. e \in EntryType
    BY <1>1, <2>1, Handled, EntryOf
  <2>4. e.call = c
    BY <2>1 DEF Entry, Unnamed
  <2>5. PICK k : k = [call[c] EXCEPT !.tables = {}, !.rows = done, !.parts = {part}]
    OBVIOUS
  <2>6. k \in CallType
    BY <1>1, <2>5, Handled DEF CallType
  <2>7. Sound(e)
    BY <2>4 DEF Sound, Req
  <2>8. Record(c, e, k, "replying", "rejected")
    BY <1>2, <1>4, <2>1, <2>2, <2>5 DEF Detailing
  <2>9. "replying" \in (Waiting \cup Ended) \ {"data"} /\ "rejected" \in (Waiting \cup Ended) \ {"data"}
    BY DEF Waiting, Ended
  <2>10. QED
    BY <1>1, <2>3, <2>6, <2>7, <2>8, <2>9, QuietRecord
<1>5. QED
  BY <1>3, <1>4

\* Every handler's step but the reply is quiet.
LEMMA HandleQuiet ==
  ASSUME IndInv, NEW c \in Call, Handle(c)
  PROVE  Quiet(c) \/ Reply(c)
<1>1. ASSUME Catch(c) \/ Refuse(c) \/ Reject(c), call[c].pc \in Waiting PROVE Quiet(c)
  BY <1>1, CatchQuiet
<1>2. CASE DenyTool(c)
  BY <1>2, DenialQuiet DEF DenyTool, Waiting
<1>3. CASE UnknownTool(c)
  BY <1>1, <1>3 DEF UnknownTool, Called, Handler, Waiting
<1>4. CASE Fails(c)
  BY <1>1, <1>4 DEF Fails, Waiting
<1>5. CASE ListTables(c)
  <2>1. call[c].pc \in Waiting /\ "listing" \in AtConnector
    BY <1>5 DEF ListTables, Called, Handler, Waiting, AtConnector
  <2>2. QED
    BY <1>1, <1>5, <2>1, AskQuiet DEF ListTables
<1>6. CASE DescribeTable(c)
  <2>1. call[c].pc \in Waiting /\ "describing" \in AtConnector
    BY <1>6 DEF DescribeTable, Called, Handler, Waiting, AtConnector
  <2>2. QED
    BY <1>1, <1>6, <2>1, AskQuiet DEF DescribeTable
<1>7. CASE Described(c)
  <2>1. call[c].pc = "describing" /\ call[c].pc \in Waiting
    BY <1>7 DEF Described, Handler, Waiting
  <2>2. Req(c).table \in Table /\ MaxRows(c) \in Nat
    BY <2>1, Handled, AllowedTable, CapType DEF Good, Req
  <2>3. CASE Answer(c, Req(c).table, 0, {})
    BY <2>1, <2>2, <2>3, AnswerQuiet
  <2>4. QED
    BY <1>1, <1>7, <2>1, <2>3 DEF Described
<1>8. CASE Query(c)
  <2>1. call[c].pc \in Waiting /\ "querying" \in AtConnector
    BY <1>8 DEF Query, Called, Handler, Waiting, AtConnector
  <2>2. ASSUME NEW i, NEW tables, NEW rows, NEW reads,
               Ask(c, [call[c] EXCEPT !.pc = "querying", !.at = i, !.tables = tables, !.rows = rows], reads)
        PROVE  Quiet(c)
    BY <2>1, <2>2, AskQuiet
  <2>3. QED
    BY <1>1, <1>8, <2>1, <2>2 DEF Query
<1>9. CASE Queried(c)
  <2>1. call[c].pc \in AtConnector /\ call[c].pc \in Waiting
    BY <1>9 DEF Queried, Handler, Waiting, AtConnector
  <2>2. PICK tables \in SUBSET Table : tables = call[c].tables
    BY <2>1, Handled DEF CallType
  <2>3. PICK conn \in Connector : conn = Conn(c)
    BY <2>1, AtType
  <2>4. ASSUME NEW n \in Nat, Answer(c, Conn(c), Cut(n, MaxRows(c)), call[c].tables) PROVE Quiet(c)
    <3>1. PICK rows \in Nat : rows = Cut(n, MaxRows(c)) /\ rows <= MaxRows(c)
      BY <2>1, Handled, CapType, CutType
    <3>2. QED
      BY <2>1, <2>2, <2>3, <2>4, <3>1, AnswerQuiet
  <2>5. Cut(call[c].rows, Rows) \in Nat /\ Rows \in Nat
    BY <2>1, Handled, ConfigAssumption, CutType DEF CallType
  <2>6. \A most \in Nat : 0..most \subseteq Nat
    OBVIOUS
  <2>7. QED
    BY <1>1, <1>9, <2>1, <2>4, <2>5, <2>6 DEF Queried
<1>10. CASE Search(c)
  <2>1. call[c].pc \in Waiting /\ "scoping" \in AtConnector
    BY <1>10 DEF Search, Called, Handler, Waiting, AtConnector
  <2>2. QED
    BY <1>1, <1>10, <2>1, AskQuiet DEF Search
<1>11. CASE Scoped(c)
  <2>1. call[c].pc \in Waiting /\ "searching" \in AtConnector
    BY <1>11 DEF Scoped, Handler, Waiting, AtConnector
  <2>2. QED
    BY <1>1, <1>11, <2>1, AskQuiet DEF Scoped
<1>12. CASE Searched(c)
  <2>1. call[c].pc \in AtConnector /\ call[c].pc \in Waiting
    BY <1>12 DEF Searched, Handler, Waiting, AtConnector
  <2>2. /\ Cut(Rows, MaxRows(c)) \in Nat /\ Cut(Rows, MaxRows(c)) <= MaxRows(c) /\ MaxRows(c) \in Nat
        /\ call[c].tables \subseteq Table
    BY <2>1, Handled, CapType, CutType, ConfigAssumption DEF CallType
  <2>3. PICK n \in 0..Cut(Rows, MaxRows(c)), hit \in SUBSET call[c].tables : Answer(c, Conn(c), n, hit)
    BY <1>12 DEF Searched
  <2>4. PICK conn \in Connector : conn = Conn(c)
    BY <2>1, AtType
  <2>5. n \in Nat /\ hit \in SUBSET Table /\ n <= MaxRows(c)
    BY <2>2
  <2>6. QED
    BY <2>1, <2>3, <2>4, <2>5, AnswerQuiet
<1>13. CASE ReadResource(c)
  <2>1. call[c].pc \in Waiting /\ call[c].req.tool = "resource" /\ "reading" \in AtConnector
    BY <1>13 DEF ReadResource, Handler, Waiting, AtConnector
  <2>2. CASE Record(c, Unnamed(Denial(c)), call[c], "rejected", "rejected")
    <3>1. PICK e : e = Unnamed(Denial(c))
      OBVIOUS
    <3>2. e \in EntryType
      BY <2>1, <3>1, Handled, EntryOf, 0 \in Nat DEF Denial
    <3>3. e.call = c
      BY <3>1 DEF Denial, Entry, Unnamed
    <3>4. PICK k \in CallType : k = call[c]
      BY <2>1, Handled
    <3>5. "rejected" \in (Waiting \cup Ended) \ {"data"} /\ Sound(e)
      BY <2>1, <3>3 DEF Waiting, Ended, Sound, Req
    <3>6. QED
      BY <2>1, <2>2, <3>1, <3>2, <3>4, <3>5, QuietRecord
  <2>3. QED
    BY <1>1, <1>13, <2>1, <2>2, AskQuiet DEF ReadResource
<1>14. CASE ResourceListed(c)
  <2>1. call[c].pc = "reading" /\ call[c].pc \in Waiting /\ call[c].req.tool = "resource"
    BY <1>14 DEF ResourceListed, Handler, Waiting
  <2>2. Allowed(Conn(c)) \subseteq Table
    BY <2>1, Handled, AllowedTable
  <2>3. ASSUME NEW left \in SUBSET Allowed(Conn(c)), Detailing(c, left, 0, {}) PROVE Quiet(c)
    BY <2>1, <2>2, <2>3, DetailingQuiet
  <2>4. QED
    BY <1>1, <1>14, <2>1, <2>3 DEF ResourceListed
<1>15. CASE Detailed(c)
  <2>1. call[c].pc = "detailing" /\ call[c].pc \in Waiting /\ call[c].req.tool = "resource"
    BY <1>15 DEF Detailed, Handler, Waiting
  <2>2. call[c].tables \subseteq Table /\ call[c].rows + 1 \in Nat
    BY <2>1, Handled DEF CallType
  <2>3. ASSUME NEW t \in call[c].tables, Detailing(c, call[c].tables \ {t}, call[c].rows + 1, {t}) PROVE Quiet(c)
    <3>1. PICK left \in SUBSET Table : left = call[c].tables \ {t}
      BY <2>2
    <3>2. PICK done \in Nat : done = call[c].rows + 1
      BY <2>2
    <3>3. QED
      BY <2>1, <2>3, <3>1, <3>2, DetailingQuiet
  <2>4. QED
    BY <1>1, <1>15, <2>1, <2>3 DEF Detailed
<1>16. CASE Listed(c)
  BY <1>16, ListedQuiet
<1>17. QED
  BY <1>2, <1>3, <1>4, <1>5, <1>6, <1>7, <1>8, <1>9, <1>10, <1>11, <1>12, <1>13, <1>14, <1>15, <1>16 DEF Handle
-----------------------------------------------------------------------------
(* Every call leaves its lines.                                            *)

LinesIn(c, T) == {e \in T : e.call = c}

\* Handlers that have neither written nor gathered anything.
Early == {"arrived", "describing", "querying", "scoping", "searching"}
Blank(k, L) == L = {} /\ k.parts = {} /\ ~k.recorded

\* All that was gathered was recorded as allowed, once.
Counted(k, L) ==
  /\ \A e \in L : ~e.denied
  /\ IsFiniteSet(k.parts) /\ Cardinality(L) = Cardinality(k.parts)

\* A listing has gathered from connectors before the one it is at.
Passed(k) == \A part \in k.parts : \E i \in DOMAIN server.connectors :
                i < k.at /\ part.target = server.connectors[i]

\* A call that failed left its one denial, or what it had listed.
Closed(k, L) ==
  LET denials == {e \in L : e.denied}
  IN  \/ denials = L /\ Cardinality(denials) = 1
      \/ denials = {} /\ L # {} /\ k.req.tool = "list_tables"

Account(k, L) ==
  /\ IsFiniteSet(L) /\ \A e \in L : e.nth \in Nat /\ e.nth < k.nth
  /\ k.pc \in Early => Blank(k, L)
  /\ k.pc = "listing" => /\ k.req.tool = "list_tables" /\ Counted(k, L) /\ Passed(k)
                         /\ k.recorded = (k.parts # {})
  /\ k.pc \in {"replying", "data"} => Counted(k, L)
  /\ k.pc \in {"error", "rejected"} => Closed(k, L)

\* What holds of a call's record k and the lines L the call has left.
Accounted(k, L) ==
  /\ k.pc = "new" => Blank(k, L) /\ ~k.lost
  /\ k.pc # "new" /\ ~k.lost /\ k.req.tool # "resource" => Account(k, L)

LinesInv == \A c \in Call : Accounted(call[c], LinesIn(c, trail))

\* A step of call c that keeps the account of it, and of no other call.
Keeps(c) ==
  \E k : /\ call' = [call EXCEPT ![c] = k] /\ k.pc # "new"
         /\ trail \subseteq trail' /\ \A e \in trail' \ trail : e.call = c
         /\ ~k.lost /\ k.req.tool # "resource" => Account(k, LinesIn(c, trail'))

LEMMA SamePlaces ==
  ASSUME server' = server, NEW k, NEW L
  PROVE  Accounted(k, L)' <=> Accounted(k, L)
BY DEF Accounted, Account, Blank, Counted, Passed, Closed

LEMMA KeepsAll ==
  ASSUME IndInv, LinesInv, server' = server, NEW c \in Call, Keeps(c)
  PROVE  LinesInv'
<1>1. PICK k : /\ call' = [call EXCEPT ![c] = k] /\ k.pc # "new"
               /\ trail \subseteq trail' /\ \A e \in trail' \ trail : e.call = c
               /\ ~k.lost /\ k.req.tool # "resource" => Account(k, LinesIn(c, trail'))
  BY DEF Keeps
<1>2. call'[c] = k /\ \A d \in Call \ {c} : call'[d] = call[d]
  BY <1>1 DEF IndInv, CallsGood
<1>3. ASSUME NEW d \in Call PROVE Accounted(call[d], LinesIn(d, trail))'
  <2>1. PICK h : h = call'[d]
    OBVIOUS
  <2>2. PICK L : L = LinesIn(d, trail')
    OBVIOUS
  <2>3. Accounted(h, L)
    <3>1. CASE d = c
      BY <1>1, <1>2, <2>1, <2>2, <3>1 DEF Accounted
    <3>2. CASE d # c
      <4>1. LinesIn(d, trail') = LinesIn(d, trail)
        BY <1>1, <3>2 DEF LinesIn
      <4>2. QED
        BY <1>2, <2>1, <2>2, <3>2, <4>1 DEF LinesInv
    <3>3. QED
      BY <3>1, <3>2
  <2>4. Accounted(h, L)'
    BY <2>3, SamePlaces
  <2>5. QED
    BY <2>1, <2>2, <2>4 DEF LinesIn
<1>4. QED
  BY <1>3 DEF LinesInv

\* What a write leaves of e, and, if nothing was lost, where its handler is then.
Wrote(c, e, k, pc) ==
  \E h \in CallType :
    /\ call' = [call EXCEPT ![c] = h] /\ h.pc # "new" /\ h.req = k.req
    /\ trail \subseteq trail' /\ \A x \in trail' \ trail : x.call = c
    /\ ~h.lost => /\ ~k.lost /\ h.pc = pc /\ h.nth = k.nth + 1 /\ h.parts = k.parts
                  /\ h.at = k.at /\ h.recorded
                  /\ \E w \in EntryType : /\ w.call = c /\ w.nth = e.nth /\ w.denied = e.denied
                                          /\ trail' = trail \cup {w}

LEMMA RecordShape ==
  ASSUME NEW c \in Call, NEW e \in EntryType, e.call = c, NEW k \in CallType,
         NEW pc \in Waiting \cup Ended, NEW thrownPc \in Waiting \cup Ended, Record(c, e, k, pc, thrownPc)
  PROVE  Wrote(c, e, k, pc)
<1>1. PICK o \in Outcomes : /\ trail' = trail \cup Written(e, o)
                            /\ call' = [call EXCEPT ![c] = AfterWrite(k, IF o.thrown THEN thrownPc ELSE pc, o)]
  BY DEF Record
<1>2. PICK next \in Waiting \cup Ended : next = IF o.thrown THEN thrownPc ELSE pc
  OBVIOUS
<1>3. PICK h : h = AfterWrite(k, next, o)
  OBVIOUS
<1>4. h \in CallType /\ h.pc = next /\ h.req = k.req /\ h.at = k.at /\ h.parts = k.parts
  BY <1>3, AfterWriteType
<1>5. h.nth = k.nth + 1 /\ h.recorded /\ (h.lost <=> k.lost \/ ~(o.line /\ o.receipt))
  <2>1. PICK lost \in BOOLEAN : lost <=> (k.lost \/ ~(o.line /\ o.receipt))
    OBVIOUS
  <2>2. k.lost \in BOOLEAN /\ o.line \in BOOLEAN /\ o.receipt \in BOOLEAN
    BY DEF CallType, Outcomes
  <2>3. lost = (k.lost \/ ~(o.line /\ o.receipt))
    BY <2>1, <2>2
  <2>4. h = [k EXCEPT !.pc = next, !.nth = k.nth + 1, !.recorded = TRUE, !.lost = lost]
    BY <1>3, <2>3 DEF AfterWrite, CallType
  <2>5. h.nth = k.nth + 1 /\ h.recorded = TRUE /\ h.lost = lost
    BY <2>4 DEF CallType
  <2>6. QED
    BY <2>1, <2>5
<1>6. \A x \in Written(e, o) : x = [e EXCEPT !.receipt = o.receipt]
  BY WrittenType
<1>7. \A x \in trail' \ trail : x.call = c
  BY <1>1, <1>6 DEF EntryType
<1>8. ASSUME ~h.lost
      PROVE  /\ next = pc
             /\ \E w \in EntryType : w.call = c /\ w.nth = e.nth /\ w.denied = e.denied /\ trail' = trail \cup {w}
  <2>1. o.line /\ o.receipt /\ ~o.thrown
    BY <1>5, <1>8 DEF Outcomes
  <2>2. PICK w : w = [e EXCEPT !.receipt = o.receipt]
    OBVIOUS
  <2>3. Written(e, o) = {w}
    BY <2>1, <2>2 DEF Written
  <2>4. w \in EntryType /\ w.call = c /\ w.nth = e.nth /\ w.denied = e.denied
    BY <2>2 DEF EntryType, Outcomes
  <2>5. QED
    BY <1>1, <1>2, <2>1, <2>3, <2>4
<1>9. call' = [call EXCEPT ![c] = h]
  BY <1>1, <1>2, <1>3
<1>10. h.pc # "new"
  BY <1>4 DEF Waiting, Ended
<1>11. QED
  BY <1>1, <1>4, <1>5, <1>7, <1>8, <1>9, <1>10 DEF Wrote

LEMMA AccountOf ==
  ASSUME IndInv, LinesInv, NEW c \in Call, call[c].pc \in Waiting, ~call[c].lost, call[c].req.tool # "resource"
  PROVE  Account(call[c], LinesIn(c, trail)) /\ call[c].nth \in Nat
<1>1. call[c].pc # "new" /\ call[c].nth \in Nat
  BY Handled DEF CallType
<1>2. QED
  BY <1>1 DEF LinesInv, Accounted

\* A call that has recorded nothing and lost nothing has left no line.
LEMMA NothingYet ==
  ASSUME IndInv, NEW c \in Call, NEW L, Account(call[c], L),
         call[c].pc \in Early \/ (call[c].pc = "listing" /\ ~call[c].recorded)
  PROVE  L = {} /\ call[c].parts = {}
<1>1. CASE call[c].pc \in Early
  BY <1>1 DEF Account, Blank
<1>2. CASE call[c].pc = "listing" /\ ~call[c].recorded
  <2>1. call[c].parts = {} /\ Cardinality(L) = Cardinality({}) /\ IsFiniteSet(L)
    BY <1>2 DEF Account, Counted
  <2>2. QED
    BY <2>1, FS_EmptySet
<1>3. QED
  BY <1>1, <1>2

\* A denial is the first thing a call of a tool records.
LEMMA DenialKeeps ==
  ASSUME IndInv, LinesInv, NEW c \in Call, call[c].pc \in Waiting,
         call[c].pc \in Early \/ (call[c].pc = "listing" /\ ~call[c].recorded),
         NEW pc \in {"error", "rejected"}, NEW thrownPc \in {"error", "rejected"},
         Record(c, Denial(c), call[c], pc, thrownPc)
  PROVE  Keeps(c)
<1>1. PICK e : e = Denial(c)
  OBVIOUS
<1>2. e \in EntryType
  BY <1>1, Handled, EntryOf, 0 \in Nat DEF Denial
<1>3. e.call = c
  BY <1>1 DEF Denial, Entry
<1>4. PICK k : k = call[c]
  OBVIOUS
<1>5. k \in CallType /\ k.nth \in Nat
  BY <1>4, Handled DEF CallType
<1>6. PICK end \in Waiting \cup Ended, thrownEnd \in Waiting \cup Ended :
        end = pc /\ Record(c, e, k, end, thrownEnd)
  <2>1. pc \in Waiting \cup Ended /\ thrownPc \in Waiting \cup Ended
    BY DEF Ended
  <2>2. Record(c, e, k, pc, thrownPc)
    BY <1>1, <1>4
  <2>3. QED
    BY <2>1, <2>2
<1>7. PICK h \in CallType :
           /\ call' = [call EXCEPT ![c] = h] /\ h.pc # "new" /\ h.req = k.req
           /\ trail \subseteq trail' /\ \A x \in trail' \ trail : x.call = c
           /\ ~h.lost => /\ ~k.lost /\ h.pc = end /\ h.nth = k.nth + 1 /\ h.parts = k.parts
                         /\ h.at = k.at /\ h.recorded
                         /\ \E w \in EntryType : /\ w.call = c /\ w.nth = e.nth /\ w.denied = e.denied
                                                 /\ trail' = trail \cup {w}
  <2>1. Wrote(c, e, k, end)
    BY <1>2, <1>3, <1>5, <1>6, RecordShape
  <2>2. QED
    BY <2>1 DEF Wrote
<1>8. ASSUME ~h.lost, h.req.tool # "resource" PROVE Account(h, LinesIn(c, trail'))
  <2>0. e.denied = TRUE /\ e.nth = call[c].nth
    BY <1>1 DEF Denial, Entry
  <2>1. PICK w \in EntryType : w.call = c /\ w.nth = k.nth /\ w.denied /\ trail' = trail \cup {w}
    BY <1>4, <1>7, <1>8, <2>0
  <2>2. Account(call[c], LinesIn(c, trail)) /\ call[c].nth \in Nat
    <3>1. ~call[c].lost /\ call[c].req.tool # "resource"
      BY <1>4, <1>7, <1>8
    <3>2. QED
      BY <3>1, AccountOf
  <2>3. LinesIn(c, trail) = {}
    BY <2>2, NothingYet
  <2>4. LinesIn(c, trail') = {w}
    BY <2>1, <2>3 DEF LinesIn
  <2>5. IsFiniteSet({w}) /\ Cardinality({w}) = 1
    BY FS_Singleton
  <2>6. {x \in {w} : x.denied} = {w}
    BY <2>1
  <2>7. Closed(h, {w})
    BY <2>5, <2>6 DEF Closed
  <2>8. \A x \in {w} : x.nth \in Nat /\ x.nth < h.nth
    BY <1>4, <1>7, <1>8, <2>1, <2>2
  <2>9. QED
    BY <1>6, <1>7, <1>8, <2>4, <2>5, <2>7, <2>8 DEF Account, Early
<1>9. QED
  BY <1>4, <1>7, <1>8 DEF Keeps

\* The catch block, which adds nothing where a listing has recorded something.
LEMMA CatchKeeps ==
  ASSUME IndInv, LinesInv, NEW c \in Call, call[c].pc \in Early \cup {"listing"}, Catch(c)
  PROVE  Keeps(c)
<1>1. call[c].pc \in Waiting
  BY DEF Early, Waiting
<1>2. CASE ~call[c].recorded
  <2>1. Record(c, Denial(c), call[c], "error", "rejected")
    BY <1>2 DEF Catch
  <2>2. QED
    BY <1>1, <1>2, <2>1, DenialKeeps
<1>3. CASE call[c].recorded
  <2>1. PICK k : k = [call[c] EXCEPT !.pc = "error"]
    OBVIOUS
  <2>2. call' = [call EXCEPT ![c] = k] /\ trail' = trail
    BY <1>3, <2>1 DEF Catch
  <2>3. /\ k.pc = "error" /\ k.req = call[c].req /\ k.lost = call[c].lost /\ k.nth = call[c].nth
    BY <1>1, <2>1, Handled DEF CallType
  <2>4. ASSUME ~k.lost, k.req.tool # "resource" PROVE Account(k, LinesIn(c, trail))
    <3>1. PICK L : L = LinesIn(c, trail)
      OBVIOUS
    <3>2. Account(call[c], L)
      BY <1>1, <2>3, <2>4, <3>1, AccountOf
    <3>3. call[c].pc = "listing"
      BY <1>3, <3>2 DEF Account, Blank
    <3>4. call[c].req.tool = "list_tables" /\ Counted(call[c], L) /\ call[c].parts # {}
      BY <1>3, <3>2, <3>3 DEF Account
    <3>5. L # {} /\ {e \in L : e.denied} = {}
      <4>1. IsFiniteSet(call[c].parts) /\ Cardinality(L) = Cardinality(call[c].parts)
        BY <3>4 DEF Counted
      <4>2. L # {}
        BY <3>4, <4>1, FS_EmptySet
      <4>3. QED
        BY <3>4, <4>2 DEF Counted
    <3>6. Closed(k, L)
      BY <2>3, <3>4, <3>5 DEF Closed
    <3>7. QED
      BY <2>3, <3>1, <3>2, <3>6 DEF Account, Early
  <2>5. QED
    BY <2>2, <2>3, <2>4 DEF Keeps
<1>4. QED
  BY <1>2, <1>3

LEMMA RefuseKeeps ==
  ASSUME IndInv, LinesInv, NEW c \in Call, call[c].pc \in Early, Refuse(c)
  PROVE  Keeps(c)
<1>1. call[c].pc \in Waiting
  BY DEF Early, Waiting
<1>2. QED
  BY <1>1, DenialKeeps DEF Refuse

\* An answer of one part is recorded once.
LEMMA AnswerKeeps ==
  ASSUME IndInv, LinesInv, NEW c \in Call, call[c].pc \in Early,
         NEW target \in Connector \cup Table, NEW rows \in Nat, NEW tables \in SUBSET Table,
         Answer(c, target, rows, tables)
  PROVE  Keeps(c)
<1>0. call[c].pc \in Waiting
  BY DEF Early, Waiting
<1>1. PICK e : e = Entry(c, FALSE, target, rows, tables)
  OBVIOUS
<1>2. PICK part : part = [target |-> target, rows |-> rows, tables |-> tables]
  OBVIOUS
<1>3. PICK k : k = [call[c] EXCEPT !.parts = {part}]
  OBVIOUS
<1>4. e \in EntryType
  BY <1>0, <1>1, Handled, EntryOf
<1>5. e.call = c /\ ~e.denied /\ e.nth = call[c].nth
  BY <1>1 DEF Entry
<1>6. part \in Part
  BY <1>2 DEF Part
<1>7. /\ k \in CallType /\ k.req = call[c].req /\ k.parts = {part} /\ k.lost = call[c].lost
      /\ k.nth = call[c].nth
  BY <1>0, <1>3, <1>6, Handled DEF CallType
<1>8. Record(c, e, k, "replying", "error")
  BY <1>1, <1>2, <1>3 DEF Answer
<1>9. "replying" \in Waiting \cup Ended /\ "error" \in Waiting \cup Ended
  BY DEF Waiting, Ended
<1>10. PICK h \in CallType :
           /\ call' = [call EXCEPT ![c] = h] /\ h.pc # "new" /\ h.req = k.req
           /\ trail \subseteq trail' /\ \A x \in trail' \ trail : x.call = c
           /\ ~h.lost => /\ ~k.lost /\ h.pc = "replying" /\ h.nth = k.nth + 1 /\ h.parts = k.parts
                         /\ \E w \in EntryType : /\ w.call = c /\ w.nth = e.nth /\ w.denied = e.denied
                                                 /\ trail' = trail \cup {w}
  <2>1. Wrote(c, e, k, "replying")
    BY <1>4, <1>5, <1>7, <1>8, <1>9, RecordShape
  <2>2. QED
    BY <2>1 DEF Wrote
<1>11. ASSUME ~h.lost, h.req.tool # "resource" PROVE Account(h, LinesIn(c, trail'))
  <2>1. PICK w \in EntryType : w.call = c /\ w.nth = k.nth /\ ~w.denied /\ trail' = trail \cup {w}
    BY <1>5, <1>7, <1>10, <1>11
  <2>2. Account(call[c], LinesIn(c, trail)) /\ call[c].nth \in Nat
    BY <1>0, <1>7, <1>10, <1>11, AccountOf
  <2>3. LinesIn(c, trail) = {}
    BY <2>2, NothingYet
  <2>4. LinesIn(c, trail') = {w}
    BY <2>1, <2>3 DEF LinesIn
  <2>5. IsFiniteSet({w}) /\ Cardinality({w}) = 1 /\ IsFiniteSet({part}) /\ Cardinality({part}) = 1
    BY FS_Singleton
  <2>6. h.parts = {part}
    BY <1>7, <1>10, <1>11
  <2>7. Counted(h, {w})
    BY <2>1, <2>5, <2>6 DEF Counted
  <2>8. \A x \in {w} : x.nth \in Nat /\ x.nth < h.nth
    BY <1>7, <1>10, <1>11, <2>1, <2>2
  <2>9. QED
    BY <1>10, <1>11, <2>4, <2>5, <2>7, <2>8 DEF Account, Early
<1>12. QED
  BY <1>7, <1>10, <1>11 DEF Keeps

\* Asking a connector changes nothing but where the handler is.
LEMMA AskKeeps ==
  ASSUME IndInv, LinesInv, NEW c \in Call, call[c].pc \in Early, NEW k \in CallType,
         k.req = call[c].req, k.lost = call[c].lost, k.nth = call[c].nth, k.parts = call[c].parts,
         k.recorded = call[c].recorded,
         k.pc \in Early \/ (k.pc = "listing" /\ k.req.tool = "list_tables"),
         NEW tables, Ask(c, k, tables)
  PROVE  Keeps(c)
<1>0. call[c].pc \in Waiting /\ k.pc # "new"
  BY DEF Early, Waiting
<1>1. call' = [call EXCEPT ![c] = k] /\ trail' = trail
  BY DEF Ask
<1>2. ASSUME ~k.lost, k.req.tool # "resource" PROVE Account(k, LinesIn(c, trail))
  <2>1. PICK L : L = LinesIn(c, trail)
    OBVIOUS
  <2>2. Account(call[c], L)
    BY <1>0, <1>2, <2>1, AccountOf
  <2>3. Blank(call[c], L) /\ IsFiniteSet(L) /\ \A e \in L : e.nth \in Nat /\ e.nth < call[c].nth
    BY <2>2 DEF Account
  <2>4. Blank(k, L) /\ Counted(k, L) /\ Passed(k) /\ k.recorded = (k.parts # {})
    <3>1. Blank(k, L)
      BY <2>3 DEF Blank
    <3>2. L = {} /\ k.parts = {} /\ k.recorded = FALSE
      BY <3>1 DEF Blank, CallType
    <3>3. QED
      BY <3>1, <3>2, FS_EmptySet DEF Counted, Passed
  <2>5. QED
    BY <2>1, <2>3, <2>4 DEF Account, Early
<1>3. QED
  BY <1>0, <1>1, <1>2 DEF Keeps

\* Nothing is counted for a resource, which has rules of its own.
LEMMA ResourceKeeps ==
  ASSUME IndInv, NEW c \in Call, call[c].pc \in Waiting, call[c].req.tool = "resource",
         NEW k, call' = [call EXCEPT ![c] = k], k.pc # "new", k.req = call[c].req,
         trail \subseteq trail', \A e \in trail' \ trail : e.call = c
  PROVE  Keeps(c)
BY DEF Keeps

LEMMA ResourceRecords ==
  ASSUME IndInv, NEW c \in Call, call[c].pc \in Waiting, call[c].req.tool = "resource",
         NEW e \in EntryType, e.call = c, NEW k \in CallType, k.req = call[c].req,
         NEW pc \in {"rejected", "replying"}, Record(c, e, k, pc, "rejected")
  PROVE  Keeps(c)
<1>1. pc \in Waiting \cup Ended /\ "rejected" \in Waiting \cup Ended
  BY DEF Waiting, Ended
<1>2. PICK h \in CallType : /\ call' = [call EXCEPT ![c] = h] /\ h.pc # "new" /\ h.req = k.req
                            /\ trail \subseteq trail' /\ \A x \in trail' \ trail : x.call = c
  BY <1>1, RecordShape DEF Wrote
<1>3. QED
  BY <1>2, ResourceKeeps

LEMMA RejectKeeps ==
  ASSUME IndInv, NEW c \in Call, call[c].pc \in Waiting, call[c].req.tool = "resource", Reject(c)
  PROVE  Keeps(c)
<1>1. PICK k : k = [call[c] EXCEPT !.pc = "rejected"]
  OBVIOUS
<1>2. k.pc # "new" /\ k.req = call[c].req /\ call' = [call EXCEPT ![c] = k] /\ trail' = trail
  BY <1>1, Handled DEF Reject, CallType
<1>3. QED
  BY <1>2, ResourceKeeps

LEMMA ReadResourceKeeps ==
  ASSUME IndInv, NEW c \in Call, ReadResource(c)
  PROVE  Keeps(c)
<1>1. call[c].pc \in Waiting /\ call[c].req.tool = "resource"
  BY DEF ReadResource, Handler, Waiting
<1>2. CASE Record(c, Unnamed(Denial(c)), call[c], "rejected", "rejected")
  <2>1. PICK e : e = Unnamed(Denial(c))
    OBVIOUS
  <2>2. e \in EntryType
    BY <1>1, <2>1, Handled, EntryOf, 0 \in Nat DEF Denial
  <2>3. e.call = c
    BY <2>1 DEF Denial, Entry, Unnamed
  <2>4. PICK k \in CallType : k = call[c]
    BY <1>1, Handled
  <2>5. Record(c, e, k, "rejected", "rejected")
    BY <1>2, <2>1, <2>4
  <2>6. QED
    BY <1>1, <2>2, <2>3, <2>4, <2>5, ResourceRecords
<1>3. ASSUME NEW i, Ask(c, [call[c] EXCEPT !.pc = "reading", !.at = i], {}) PROVE Keeps(c)
  <2>1. PICK k : k = [call[c] EXCEPT !.pc = "reading", !.at = i]
    OBVIOUS
  <2>2. k.pc # "new" /\ k.req = call[c].req /\ call' = [call EXCEPT ![c] = k] /\ trail' = trail
    BY <1>1, <1>3, <2>1, Handled DEF Ask, CallType
  <2>3. QED
    BY <1>1, <2>2, ResourceKeeps
<1>4. QED
  BY <1>1, <1>2, <1>3, RejectKeeps DEF ReadResource

LEMMA DetailingKeeps ==
  ASSUME IndInv, NEW c \in Call, call[c].pc \in {"reading", "detailing"}, call[c].req.tool = "resource",
         NEW left, NEW done \in Nat, NEW asking, Detailing(c, left, done, asking)
  PROVE  Keeps(c)
<1>1. call[c].pc \in Waiting /\ call[c].pc \in AtConnector
  BY DEF Waiting, AtConnector
<1>2. CASE left # {}
  <2>1. PICK k : k = [call[c] EXCEPT !.pc = "detailing", !.tables = left, !.rows = done]
    OBVIOUS
  <2>2. k.pc # "new" /\ k.req = call[c].req /\ call' = [call EXCEPT ![c] = k] /\ trail' = trail
    BY <1>1, <1>2, <2>1, Handled DEF Detailing, CallType
  <2>3. QED
    BY <1>1, <2>2, ResourceKeeps
<1>3. CASE left = {}
  <2>1. PICK conn \in Connector : conn = Conn(c)
    BY <1>1, AtType
  <2>2. PICK e : e = Unnamed(Entry(c, FALSE, conn, done, {}))
    OBVIOUS
  <2>3. e \in EntryType
    BY <1>1, <2>2, Handled, EntryOf
  <2>4. e.call = c
    BY <2>2 DEF Entry, Unnamed
  <2>5. PICK part : part = [target |-> conn, rows |-> done, tables |-> {}]
    OBVIOUS
  <2>6. PICK k : k = [call[c] EXCEPT !.tables = {}, !.rows = done, !.parts = {part}]
    OBVIOUS
  <2>7. part \in Part
    BY <2>5 DEF Part
  <2>8. k \in CallType /\ k.req = call[c].req
    BY <1>1, <2>6, <2>7, Handled DEF CallType
  <2>9. Record(c, e, k, "replying", "rejected")
    BY <1>3, <2>1, <2>2, <2>5, <2>6 DEF Detailing
  <2>10. QED
    BY <1>1, <2>3, <2>4, <2>8, <2>9, ResourceRecords
<1>4. QED
  BY <1>2, <1>3

LEMMA ReplyKeeps ==
  ASSUME IndInv, LinesInv, NEW c \in Call, Reply(c)
  PROVE  Keeps(c)
<1>1. call[c].pc \in Waiting /\ call[c].pc = "replying"
  BY DEF Reply, Waiting
<1>2. PICK k : k = [call[c] EXCEPT !.pc = "data"]
  OBVIOUS
<1>3. /\ k.pc = "data" /\ k.req = call[c].req /\ k.lost = call[c].lost /\ k.nth = call[c].nth
      /\ k.parts = call[c].parts /\ call' = [call EXCEPT ![c] = k] /\ trail' = trail
  BY <1>1, <1>2, Handled DEF Reply, CallType
<1>4. ASSUME ~k.lost, k.req.tool # "resource" PROVE Account(k, LinesIn(c, trail))
  <2>1. Account(call[c], LinesIn(c, trail))
    BY <1>1, <1>3, <1>4, AccountOf
  <2>2. QED
    BY <1>1, <1>3, <2>1 DEF Account, Counted, Early
<1>5. QED
  BY <1>3, <1>4 DEF Keeps

\* The connectors of a running server have names of their own.
LEMMA NamesApart ==
  ASSUME DistinctNames, ServerOK, server.up, NEW i \in DOMAIN server.connectors,
         NEW j \in DOMAIN server.connectors, server.connectors[i] = server.connectors[j]
  PROVE  i = j
<1>1. PICK config \in Configs : server.connectors = config.connectors
  BY DEF ServerOK, Booted
<1>2. QED
  BY <1>1 DEF DistinctNames

\* A listing records each connector it has an answer of, one after the other.
LEMMA ListedKeeps ==
  ASSUME DistinctNames, IndInv, LinesInv, NEW c \in Call, Listed(c)
  PROVE  Keeps(c)
<1> DEFINE left == {i \in Targets(c) : i > call[c].at}
<1>1. /\ call[c].pc = "listing" /\ call[c].pc \in Waiting /\ call[c].pc \in AtConnector
      /\ call[c].req.tool = "list_tables"
  BY DEF Listed, Handler, Waiting, AtConnector
<1>2. /\ call[c].at \in Permitted /\ call[c].at \in Nat /\ call[c].at \in DOMAIN server.connectors
      /\ left \subseteq Nat /\ server.up /\ ServerOK
  BY <1>1, Handled, TargetsType, PermittedType DEF Good, CallType
<1>3. PICK conn \in Connector : conn = Conn(c)
  BY <1>1, AtType
<1>4. PICK rows \in Nat : rows = Cardinality(Allowed(conn))
  BY <1>3, ConfigAssumption, FS_Subset, FS_CardinalityType DEF Allowed
<1>5. PICK e : e = Entry(c, FALSE, conn, rows, {})
  OBVIOUS
<1>6. PICK part : part = [target |-> conn, rows |-> rows, tables |-> {}]
  OBVIOUS
<1>7. e \in EntryType /\ e.call = c
  BY <1>1, <1>5, Handled, EntryOf DEF Entry
<1>8. PICK next \in Nat : next = (IF left = {} THEN call[c].at ELSE First(left)) /\ (left # {} => next \in left)
  BY <1>2, FirstOf
<1>9. PICK k : k = [call[c] EXCEPT !.parts = call[c].parts \cup {part}, !.at = next]
  OBVIOUS
<1>10. /\ k \in CallType /\ k.req = call[c].req /\ k.at = next /\ k.parts = call[c].parts \cup {part}
       /\ k.lost = call[c].lost /\ k.nth = call[c].nth
  <2>1. part \in Part
    BY <1>6 DEF Part
  <2>2. QED
    BY <1>1, <1>9, <2>1, Handled DEF CallType
<1>11. PICK pc : pc = IF left = {} THEN "replying" ELSE "listing"
  OBVIOUS
<1>12. Record(c, e, k, pc, "error")
  <2>1. call[c] \in [pc : {"new"} \cup Waiting \cup Ended, req : {None} \cup UNION {Requests(d) : d \in Call}, at : Nat,
                     tables : SUBSET Table, rows : Nat, parts : SUBSET Part, nth : Nat, recorded : BOOLEAN,
                     lost : BOOLEAN]
    BY <1>1, Handled DEF CallType
  <2>2. k = [call[c] EXCEPT !.parts = @ \cup {part}, !.at = IF left = {} THEN @ ELSE First(left)]
    BY <1>8, <1>9, <2>1
  <2>3. QED
    BY <1>3, <1>4, <1>5, <1>6, <1>11, <2>2 DEF Listed
<1>13. pc \in Waiting \cup Ended /\ "error" \in Waiting \cup Ended
  BY <1>11 DEF Waiting, Ended
<1>14. Wrote(c, e, k, pc)
  BY <1>7, <1>10, <1>12, <1>13, RecordShape
<1>15. PICK h \in CallType :
          /\ call' = [call EXCEPT ![c] = h] /\ h.pc # "new" /\ h.req = k.req
          /\ trail \subseteq trail' /\ \A x \in trail' \ trail : x.call = c
          /\ ~h.lost => /\ ~k.lost /\ h.pc = pc /\ h.nth = k.nth + 1 /\ h.parts = k.parts
                        /\ h.at = k.at /\ h.recorded
                        /\ \E w \in EntryType : /\ w.call = c /\ w.nth = e.nth /\ w.denied = e.denied
                                                /\ trail' = trail \cup {w}
  BY <1>14 DEF Wrote
<1>16. ASSUME ~h.lost PROVE Account(h, LinesIn(c, trail'))
  <2>1. e.nth = call[c].nth /\ e.denied = FALSE
    BY <1>5 DEF Entry
  <2>2. PICK w \in EntryType : w.call = c /\ w.nth = call[c].nth /\ ~w.denied /\ trail' = trail \cup {w}
    BY <1>15, <1>16, <2>1
  <2>3. PICK L : L = LinesIn(c, trail)
    OBVIOUS
  <2>4. Account(call[c], L) /\ call[c].nth \in Nat
    <3>1. ~call[c].lost /\ call[c].req.tool # "resource"
      BY <1>1, <1>10, <1>15, <1>16
    <3>2. QED
      BY <1>1, <2>3, <3>1, AccountOf
  <2>5. /\ IsFiniteSet(L) /\ Counted(call[c], L) /\ Passed(call[c])
        /\ \A x \in L : x.nth \in Nat /\ x.nth < call[c].nth
    BY <1>1, <2>4 DEF Account
  <2>6. LinesIn(c, trail') = L \cup {w}
    BY <2>2, <2>3 DEF LinesIn
  <2>7. w \notin L
    BY <2>2, <2>4, <2>5
  <2>8. part \notin call[c].parts
    <3>1. SUFFICES ASSUME part \in call[c].parts PROVE FALSE
      OBVIOUS
    <3>2. PICK i \in DOMAIN server.connectors : i < call[c].at /\ part.target = server.connectors[i]
      BY <2>5, <3>1 DEF Passed
    <3>3. server.connectors[i] = server.connectors[call[c].at]
      BY <1>3, <1>6, <3>2 DEF Conn
    <3>4. i = call[c].at
      BY <1>2, <3>3, NamesApart
    <3>5. QED
      BY <1>2, <3>2, <3>4
  <2>9. IsFiniteSet(L \cup {w}) /\ Cardinality(L \cup {w}) = Cardinality(L) + 1
    BY <2>5, <2>7, FS_AddElement
  <2>10. /\ h.parts = call[c].parts \cup {part} /\ IsFiniteSet(h.parts)
         /\ Cardinality(h.parts) = Cardinality(call[c].parts) + 1
    <3>1. h.parts = call[c].parts \cup {part}
      BY <1>10, <1>15, <1>16
    <3>2. IsFiniteSet(call[c].parts)
      BY <2>5 DEF Counted
    <3>3. QED
      BY <2>8, <3>1, <3>2, FS_AddElement
  <2>11. Counted(h, L \cup {w})
    BY <2>2, <2>5, <2>9, <2>10 DEF Counted
  <2>12. \A x \in L \cup {w} : x.nth \in Nat /\ x.nth < h.nth
    BY <1>10, <1>15, <1>16, <2>2, <2>4, <2>5
  <2>13. h.pc = "listing" => Passed(h)
    <3>1. SUFFICES ASSUME h.pc = "listing", NEW p \in h.parts
                   PROVE  \E i \in DOMAIN server.connectors : i < h.at /\ p.target = server.connectors[i]
      BY DEF Passed
    <3>2. next \in Nat /\ call[c].at < next /\ h.at = next
      BY <1>8, <1>10, <1>11, <1>15, <1>16, <3>1
    <3>3. CASE p = part
      <4>1. p.target = server.connectors[call[c].at]
        BY <1>3, <1>6, <3>3 DEF Conn
      <4>2. QED
        BY <1>2, <3>2, <4>1
    <3>4. CASE p \in call[c].parts
      <4>1. PICK i \in DOMAIN server.connectors : i < call[c].at /\ p.target = server.connectors[i]
        BY <2>5, <3>4 DEF Passed
      <4>2. i \in Nat
        BY <1>2, PolicyType
      <4>3. QED
        BY <1>2, <3>2, <4>1, <4>2
    <3>5. QED
      BY <2>10, <3>1, <3>3, <3>4
  <2>14. h.pc \in {"listing", "replying"} /\ h.recorded = (h.parts # {}) /\ h.req.tool = "list_tables"
    <3>1. h.recorded = TRUE
      BY <1>15, <1>16 DEF CallType
    <3>2. QED
      BY <1>1, <1>10, <1>11, <1>15, <1>16, <2>10, <3>1
  <2>15. QED
    BY <2>6, <2>9, <2>11, <2>12, <2>13, <2>14 DEF Account, Early
<1>17. QED
  BY <1>10, <1>15, <1>16 DEF Keeps

\* A handler of a tool asks the connector at place i, or the one it is at.
LEMMA WaitKeeps ==
  ASSUME IndInv, LinesInv, NEW c \in Call, call[c].pc \in Early,
         NEW pc \in Early \cup {"listing"}, pc = "listing" => call[c].req.tool = "list_tables",
         NEW i \in Nat, NEW tables \in SUBSET Table, NEW rows \in Nat, NEW reads,
         \/ Ask(c, [call[c] EXCEPT !.pc = pc, !.at = i], reads)
         \/ Ask(c, [call[c] EXCEPT !.pc = pc, !.at = i, !.tables = tables, !.rows = rows], reads)
         \/ Ask(c, [call[c] EXCEPT !.pc = pc, !.tables = tables], reads)
  PROVE  Keeps(c)
<1>1. call[c].pc \in Waiting /\ pc \in Waiting
  BY DEF Early, Waiting
<1>2. PICK k : /\ Ask(c, k, reads)
               /\ \/ k = [call[c] EXCEPT !.pc = pc, !.at = i]
                  \/ k = [call[c] EXCEPT !.pc = pc, !.at = i, !.tables = tables, !.rows = rows]
                  \/ k = [call[c] EXCEPT !.pc = pc, !.tables = tables]
  OBVIOUS
<1>3. /\ k \in CallType /\ k.pc = pc /\ k.req = call[c].req /\ k.lost = call[c].lost
      /\ k.nth = call[c].nth /\ k.parts = call[c].parts /\ k.recorded = call[c].recorded
  BY <1>1, <1>2, Handled DEF CallType
<1>4. QED
  BY <1>2, <1>3, AskKeeps

LEMMA QueryKeeps ==
  ASSUME IndInv, LinesInv, NEW c \in Call, Query(c)
  PROVE  Keeps(c)
<1> DEFINE found == Choices(Req(c).conn, "query")
<1>1. call[c].pc \in Early /\ call[c].pc \in Waiting /\ call[c].req.tool = "query" /\ "querying" \in Early
  BY DEF Query, Called, Handler, Waiting, Early
<1>2. ASSUME found # {}, NEW tables \in SUBSET Table, NEW rows \in Nat, NEW reads,
             Ask(c, [call[c] EXCEPT !.pc = "querying", !.at = First(found), !.tables = tables,
                                    !.rows = rows], reads)
      PROVE  Keeps(c)
  <2>1. PICK i \in Nat : i = First(found)
    BY <1>1, <1>2, Handled, ChoicesType, PermittedType
  <2>2. Ask(c, [call[c] EXCEPT !.pc = "querying", !.at = i, !.tables = tables, !.rows = rows], reads)
    BY <1>2, <2>1
  <2>3. QED
    BY <1>1, <2>1, <2>2, WaitKeeps
<1>3. CASE /\ found # {} /\ Simple(Req(c).sql) # None /\ AllowsTable(Simple(Req(c).sql))
           /\ Ask(c, [call[c] EXCEPT !.pc = "querying", !.at = First(found),
                                     !.tables = {Simple(Req(c).sql)}, !.rows = MaxRows(c)],
                  {Simple(Req(c).sql)})
  <2>1. PICK tables : tables = {Simple(Req(c).sql)}
    OBVIOUS
  <2>2. tables \in SUBSET Table
    BY <1>1, <1>3, <2>1, Handled, AllowedTable
  <2>3. PICK rows \in Nat : rows = MaxRows(c)
    BY <1>1, Handled, CapType
  <2>4. QED
    BY <1>2, <1>3, <2>1, <2>2, <2>3
<1>4. CASE /\ found # {}
           /\ LET gate == Guard(Dialect, Req(c).sql, policy.allowTables \ policy.denyTables, MaxRows(c))
              IN  Ask(c, [call[c] EXCEPT !.pc = "querying", !.at = First(found),
                                         !.tables = gate.tables, !.rows = gate.rows], Reads(Req(c).sql))
  <2>1. PICK gate : gate = Guard(Dialect, Req(c).sql, policy.allowTables \ policy.denyTables, MaxRows(c))
    OBVIOUS
  <2>2. Req(c).sql \in Sql
    BY <1>1, Handled, RequestAssumption DEF Req
  <2>3. /\ Dialect \in Dialects /\ MaxRows(c) \in Caps
        /\ policy.allowTables \ policy.denyTables \in SUBSET Table
    BY <1>1, Handled, PolicyType, CapType
  <2>4. gate \in [refused : BOOLEAN, tables : SUBSET Table, rows : Nat]
    BY <2>1, <2>2, <2>3, GateAssumption
  <2>5. PICK tables \in SUBSET Table : tables = gate.tables
    BY <2>4
  <2>6. PICK rows \in Nat : rows = gate.rows
    BY <2>4
  <2>7. Ask(c, [call[c] EXCEPT !.pc = "querying", !.at = First(found), !.tables = tables,
                               !.rows = rows], Reads(Req(c).sql))
    BY <1>4, <2>1, <2>5, <2>6
  <2>8. QED
    BY <1>2, <1>4, <2>7
<1>5. QED
  BY <1>1, <1>3, <1>4, CatchKeeps, RefuseKeeps DEF Query

\* Every handler's step keeps the account of its call.
LEMMA HandleKeeps ==
  ASSUME DistinctNames, IndInv, LinesInv, NEW c \in Call, Handle(c)
  PROVE  Keeps(c)
<1>1. CASE DenyTool(c)
  <2>1. call[c].pc \in Early /\ call[c].pc \in Waiting /\ Record(c, Denial(c), call[c], "rejected", "rejected")
    BY <1>1 DEF DenyTool, Early, Waiting
  <2>2. QED
    BY <2>1, DenialKeeps
<1>2. CASE UnknownTool(c)
  <2>1. call[c].pc \in Early /\ Catch(c)
    BY <1>2 DEF UnknownTool, Called, Handler, Early
  <2>2. QED
    BY <2>1, CatchKeeps
<1>3. CASE Fails(c)
  <2>1. call[c].pc \in Early \cup {"listing"} /\ Catch(c)
    BY <1>3 DEF Fails, Early
  <2>2. QED
    BY <2>1, CatchKeeps
<1>4. CASE ListTables(c)
  <2>1. call[c].pc \in Early /\ call[c].pc \in Waiting /\ call[c].req.tool = "list_tables"
    BY <1>4 DEF ListTables, Called, Handler, Early, Waiting
  <2>2. CASE Targets(c) = {}
    BY <1>4, <2>1, <2>2, CatchKeeps DEF ListTables
  <2>3. CASE Targets(c) # {}
    <3>1. PICK i \in Nat : i = First(Targets(c))
      BY <2>1, <2>3, Handled, TargetsType, PermittedType, FirstOf
    <3>2. Ask(c, [call[c] EXCEPT !.pc = "listing", !.at = i], {})
      BY <1>4, <2>3, <3>1 DEF ListTables
    <3>3. QED
      BY <2>1, <3>1, <3>2, WaitKeeps, 0 \in Nat
  <2>4. QED
    BY <2>2, <2>3
<1>5. CASE Listed(c)
  BY <1>5, ListedKeeps
<1>6. CASE DescribeTable(c)
  <2>1. call[c].pc \in Early /\ call[c].pc \in Waiting
    BY <1>6 DEF DescribeTable, Called, Handler, Early, Waiting
  <2>2. PICK i : i = First(Choices(Req(c).conn, "describe"))
    OBVIOUS
  <2>3. CASE Choices(Req(c).conn, "describe") # {}
    <3>1. i \in Nat
      BY <2>1, <2>2, <2>3, Handled, ChoicesType, PermittedType
    <3>2. Refuse(c) \/ Ask(c, [call[c] EXCEPT !.pc = "describing", !.at = i], {Req(c).table})
      BY <1>6, <2>2, <2>3 DEF DescribeTable
    <3>3. "describing" \in Early
      BY DEF Early
    <3>4. QED
      BY <2>1, <3>1, <3>2, <3>3, RefuseKeeps, WaitKeeps, 0 \in Nat
  <2>4. CASE Choices(Req(c).conn, "describe") = {}
    BY <1>6, <2>1, <2>4, CatchKeeps DEF DescribeTable
  <2>5. QED
    BY <2>3, <2>4
<1>7. CASE Described(c)
  <2>1. call[c].pc = "describing" /\ call[c].pc \in Early /\ call[c].pc \in Waiting
    BY <1>7 DEF Described, Handler, Early, Waiting
  <2>2. Req(c).table \in Table
    BY <2>1, Handled, AllowedTable DEF Good, Req
  <2>3. CASE Answer(c, Req(c).table, 0, {})
    BY <2>1, <2>2, <2>3, AnswerKeeps
  <2>4. QED
    BY <1>7, <2>1, <2>3, RefuseKeeps DEF Described
<1>8. CASE Query(c)
  BY <1>8, QueryKeeps
<1>9. CASE Queried(c)
  <2>1. call[c].pc \in AtConnector /\ call[c].pc \in Waiting /\ call[c].pc \in Early
    BY <1>9 DEF Queried, Handler, Waiting, AtConnector, Early
  <2>2. PICK tables \in SUBSET Table : tables = call[c].tables
    BY <2>1, Handled DEF CallType
  <2>3. PICK conn \in Connector : conn = Conn(c)
    BY <2>1, AtType
  <2>4. ASSUME NEW n \in Nat, Answer(c, Conn(c), Cut(n, MaxRows(c)), call[c].tables) PROVE Keeps(c)
    <3>1. PICK rows \in Nat : rows = Cut(n, MaxRows(c))
      BY <2>1, Handled, CapType, CutType
    <3>2. QED
      BY <2>1, <2>2, <2>3, <2>4, <3>1, AnswerKeeps
  <2>5. Cut(call[c].rows, Rows) \in Nat /\ Rows \in Nat
    BY <2>1, Handled, ConfigAssumption, CutType DEF CallType
  <2>6. \A most \in Nat : 0..most \subseteq Nat
    OBVIOUS
  <2>7. QED
    BY <1>9, <2>1, <2>4, <2>5, <2>6, RefuseKeeps DEF Queried
<1>10. CASE Search(c)
  <2>1. call[c].pc \in Early /\ call[c].pc \in Waiting /\ "scoping" \in Early
    BY <1>10 DEF Search, Called, Handler, Early, Waiting
  <2>2. ASSUME Choices(Req(c).conn, "search") # {},
               Ask(c, [call[c] EXCEPT !.pc = "scoping", !.at = First(Choices(Req(c).conn, "search"))], {})
        PROVE  Keeps(c)
    <3>1. PICK i \in Nat : i = First(Choices(Req(c).conn, "search"))
      BY <2>1, <2>2, Handled, ChoicesType, PermittedType
    <3>2. Ask(c, [call[c] EXCEPT !.pc = "scoping", !.at = i], {})
      BY <2>2, <3>1
    <3>3. QED
      BY <2>1, <3>1, <3>2, WaitKeeps, 0 \in Nat
  <2>3. QED
    BY <1>10, <2>1, <2>2, CatchKeeps, RefuseKeeps DEF Search
<1>11. CASE Scoped(c)
  <2>1. call[c].pc \in Early /\ call[c].pc \in Waiting /\ call[c].pc \in AtConnector /\ "searching" \in Early
    BY <1>11 DEF Scoped, Handler, Early, Waiting, AtConnector
  <2>2. PICK scope : scope = Scope(Conn(c), Req(c).tables)
    OBVIOUS
  <2>3. scope \in SUBSET Table
    BY <2>1, <2>2, Handled, AllowedTable DEF Scope
  <2>4. Refuse(c) \/ Ask(c, [call[c] EXCEPT !.pc = "searching", !.tables = scope], scope)
    BY <1>11, <2>2 DEF Scoped
  <2>5. QED
    BY <2>1, <2>3, <2>4, RefuseKeeps, WaitKeeps, 0 \in Nat
<1>12. CASE Searched(c)
  <2>1. call[c].pc \in AtConnector /\ call[c].pc \in Waiting /\ call[c].pc \in Early
    BY <1>12 DEF Searched, Handler, Waiting, AtConnector, Early
  <2>2. Cut(Rows, MaxRows(c)) \in Nat /\ call[c].tables \subseteq Table
    BY <2>1, Handled, CapType, CutType, ConfigAssumption DEF CallType
  <2>3. PICK n \in 0..Cut(Rows, MaxRows(c)), hit \in SUBSET call[c].tables : Answer(c, Conn(c), n, hit)
    BY <1>12 DEF Searched
  <2>4. PICK conn \in Connector : conn = Conn(c)
    BY <2>1, AtType
  <2>5. n \in Nat /\ hit \in SUBSET Table
    BY <2>2
  <2>6. QED
    BY <2>1, <2>3, <2>4, <2>5, AnswerKeeps
<1>13. CASE ReadResource(c)
  BY <1>13, ReadResourceKeeps
<1>14. CASE ResourceListed(c)
  <2>1. call[c].pc = "reading" /\ call[c].pc \in Waiting /\ call[c].req.tool = "resource"
    BY <1>14 DEF ResourceListed, Handler, Waiting
  <2>2. ASSUME NEW left, Detailing(c, left, 0, {}) PROVE Keeps(c)
    BY <2>1, <2>2, DetailingKeeps
  <2>3. QED
    BY <1>14, <2>1, <2>2, RejectKeeps DEF ResourceListed
<1>15. CASE Detailed(c)
  <2>1. call[c].pc = "detailing" /\ call[c].pc \in Waiting /\ call[c].req.tool = "resource"
    BY <1>15 DEF Detailed, Handler, Waiting
  <2>2. call[c].rows + 1 \in Nat
    BY <2>1, Handled DEF CallType
  <2>3. ASSUME NEW t, Detailing(c, call[c].tables \ {t}, call[c].rows + 1, {t}) PROVE Keeps(c)
    <3>1. PICK done \in Nat : done = call[c].rows + 1
      BY <2>2
    <3>2. QED
      BY <2>1, <2>3, <3>1, DetailingKeeps
  <2>4. QED
    BY <1>15, <2>1, <2>3, RejectKeeps DEF Detailed
<1>16. CASE Reply(c)
  BY <1>16, ReplyKeeps
<1>17. QED
  BY <1>1, <1>2, <1>3, <1>4, <1>5, <1>6, <1>7, <1>8, <1>9, <1>10, <1>11, <1>12, <1>13, <1>14, <1>15, <1>16 DEF Handle

LEMMA ArriveKeeps ==
  ASSUME IndInv, LinesInv, NEW c \in Call, Arrive(c)
  PROVE  LinesInv'
<1>1. server' = server /\ trail' = trail /\ call[c].pc = "new" /\ call[c] \in CallType
  BY DEF Arrive, IndInv, CallsGood, Good
<1>2. PICK r : call' = [call EXCEPT ![c].pc = "arrived", ![c].req = r]
  BY DEF Arrive
<1>3. PICK k : k = [call[c] EXCEPT !.pc = "arrived", !.req = r]
  OBVIOUS
<1>4. call' = [call EXCEPT ![c] = k]
  BY <1>2, <1>3 DEF IndInv, CallsGood
<1>5. k.pc = "arrived" /\ k.parts = call[c].parts /\ k.recorded = call[c].recorded
  BY <1>1, <1>3 DEF CallType
<1>6. Account(k, LinesIn(c, trail))
  <2>1. PICK L : L = LinesIn(c, trail)
    OBVIOUS
  <2>2. Blank(call[c], L)
    BY <1>1, <2>1 DEF LinesInv, Accounted
  <2>3. L = {} /\ Blank(k, L)
    BY <1>5, <2>2 DEF Blank
  <2>4. QED
    BY <1>5, <2>1, <2>3, FS_EmptySet DEF Account
<1>7. Keeps(c)
  BY <1>1, <1>4, <1>5, <1>6 DEF Keeps
<1>8. QED
  BY <1>1, <1>7, KeepsAll

\* What is counted of a call that waits for nothing does not depend on the server.
LEMMA AtRest ==
  ASSUME NEW k, NEW L, Accounted(k, L), k.pc # "listing"
  PROVE  Accounted(k, L)'
BY DEF Accounted, Account, Blank, Counted, Closed

\* A call that goes with the process is accounted for as far as it had come.
LEMMA GoneKeeps ==
  ASSUME NEW k \in CallType, k.pc \in Waiting, NEW L, Accounted(k, L), NEW h, h = [k EXCEPT !.pc = "gone"]
  PROVE  Accounted(h, L)
<1>1. h.pc = "gone" /\ h.req = k.req /\ h.lost = k.lost /\ h.nth = k.nth
  BY DEF CallType
<1>2. k.pc # "new"
  BY DEF Waiting
<1>3. QED
  BY <1>1, <1>2 DEF Accounted, Account, Early

LEMMA BootKeeps ==
  ASSUME IndInv, LinesInv, Boot
  PROVE  LinesInv'
<1>1. ~server.up /\ call' = call /\ trail' = trail
  BY DEF Boot
<1>2. ASSUME NEW d \in Call PROVE Accounted(call[d], LinesIn(d, trail))'
  <2>1. PICK h : h = call[d]
    OBVIOUS
  <2>2. PICK L : L = LinesIn(d, trail)
    OBVIOUS
  <2>3. Accounted(h, L) /\ h.pc # "listing"
    BY <1>1, <2>1, <2>2 DEF LinesInv, IndInv, CallsGood, Good, Waiting
  <2>4. Accounted(h, L)'
    BY <2>3, AtRest
  <2>5. QED
    BY <1>1, <2>1, <2>2, <2>4 DEF LinesIn
<1>3. QED
  BY <1>2 DEF LinesInv

LEMMA StopKeeps ==
  ASSUME IndInv, LinesInv, Stop
  PROVE  LinesInv'
<1>1. /\ trail' = trail
      /\ \A d \in Call : call'[d] = IF call[d].pc \in Waiting THEN [call[d] EXCEPT !.pc = "gone"] ELSE call[d]
  BY DEF Stop
<1>2. ASSUME NEW d \in Call PROVE Accounted(call[d], LinesIn(d, trail))'
  <2>1. PICK h : h = call'[d]
    OBVIOUS
  <2>2. PICK L : L = LinesIn(d, trail)
    OBVIOUS
  <2>3. PICK k \in CallType : k = call[d]
    BY DEF IndInv, CallsGood, Good
  <2>4. Accounted(k, L)
    BY <2>2, <2>3 DEF LinesInv
  <2>5. Accounted(h, L) /\ h.pc # "listing"
    <3>1. CASE k.pc \in Waiting
      <4>1. h = [k EXCEPT !.pc = "gone"]
        BY <1>1, <2>1, <2>3, <3>1
      <4>2. h.pc = "gone"
        BY <4>1 DEF CallType
      <4>3. QED
        BY <2>4, <3>1, <4>1, <4>2, GoneKeeps
    <3>2. CASE k.pc \notin Waiting
      BY <1>1, <2>1, <2>3, <2>4, <3>2 DEF Waiting
    <3>3. QED
      BY <3>1, <3>2
  <2>6. Accounted(h, L)'
    BY <2>5, AtRest
  <2>7. QED
    BY <1>1, <2>1, <2>2, <2>6 DEF LinesIn
<1>3. QED
  BY <1>2 DEF LinesInv

LEMMA LinesInit == Init => LinesInv
BY DEF Init, LinesInv, Accounted, Blank, NewCall, LinesIn

LEMMA LinesInductive ==
  ASSUME DistinctNames, IndInv, LinesInv, [Next]_vars
  PROVE  LinesInv'
<1>1. CASE UNCHANGED vars
  <2>1. ASSUME NEW d \in Call PROVE Accounted(call[d], LinesIn(d, trail))'
    <3>1. PICK h : h = call[d]
      OBVIOUS
    <3>2. PICK L : L = LinesIn(d, trail)
      OBVIOUS
    <3>3. Accounted(h, L) /\ server' = server
      BY <1>1, <3>1, <3>2 DEF LinesInv, vars
    <3>4. Accounted(h, L)'
      BY <3>3, SamePlaces
    <3>5. QED
      BY <1>1, <3>1, <3>2, <3>4 DEF LinesIn, vars
  <2>2. QED
    BY <2>1 DEF LinesInv
<1>2. ASSUME NEW c \in Call, Handle(c) PROVE LinesInv'
  <2>1. server' = server
    BY <1>2 DEF Handle
  <2>2. QED
    BY <1>2, <2>1, HandleKeeps, KeepsAll
<1>3. QED
  BY <1>1, <1>2, ArriveKeeps, BootKeeps, StopKeeps DEF Next

\* What the account of a call that has ended says of its lines.
LEMMA LinesLeft ==
  ASSUME LinesInv
  PROVE  EveryCallLeavesItsLines
<1> SUFFICES ASSUME NEW c \in Call, call[c].pc \in {"data", "error", "rejected"}, ~call[c].lost,
                    call[c].req.tool # "resource"
             PROVE  LET denials == {e \in Lines(c) : e.denied}
                    IN  IF call[c].pc = "data"
                        THEN denials = {} /\ Cardinality(Lines(c)) = Cardinality(call[c].parts)
                        ELSE \/ denials = Lines(c) /\ Cardinality(denials) = 1
                             \/ denials = {} /\ Lines(c) # {} /\ call[c].req.tool = "list_tables"
  BY DEF EveryCallLeavesItsLines, Req
<1>1. Account(call[c], LinesIn(c, trail)) /\ Lines(c) = LinesIn(c, trail)
  BY DEF LinesInv, Accounted, Lines, LinesIn
<1>2. CASE call[c].pc = "data"
  BY <1>1, <1>2 DEF Account, Counted
<1>3. CASE call[c].pc # "data"
  BY <1>1, <1>3 DEF Account, Closed
<1>4. QED
  BY <1>2, <1>3
-----------------------------------------------------------------------------
(* What a query's entry names is what it read.                             *)

\* An entry of the tables T is right of a statement that reads R.
Tells(T, R, req, conn) == T \subseteq R /\ (Seen(req, conn) => R \subseteq T)

\* Where a call with record k stands, when A was asked and T is the trail: a
\* query has asked nothing before it is at a connector, and asks it once.
Named(k, c, A, T) ==
  /\ k.pc = "new" => \A e \in T : e.call # c
  /\ (k.pc # "new" /\ k.req.tool = "query") =>
       /\ k.pc = "arrived" => \A a \in A : a.call # c
       /\ k.pc \in {"arrived", "querying"} => \A e \in T : e.call = c => e.denied
       /\ k.pc = "querying" => \A a \in A : a.call = c => Tells(k.tables, a.tables, k.req, a.conn)
       /\ \A a \in A, e \in T : (a.call = c /\ e.call = c /\ ~e.denied) => Tells(e.tables, a.tables, k.req, a.conn)

\* A statement at a database is capped.
Capped(k, c) ==
  (k.pc = "querying" /\ Type[server.connectors[k.at]] # "supabase-rest") =>
     k.rows \in Nat /\ k.rows <= MaxRows(c) /\ k.rows <= AtMost(k.req.sql)

NamesInv == GateNames => \A c \in Call : Named(call[c], c, asked, trail)
CapsInv == GateCaps => \A c \in Call : Capped(call[c], c)

\* A step of call c: only a query that arrived comes to a database, and only
\* one that is at a database leaves an allowed entry.
Owns(c) ==
  \E k :
    /\ call' = [call EXCEPT ![c] = k] /\ k.req = call[c].req /\ k.pc \notin {"new", "arrived"}
    /\ \A x \in trail' \ trail : x.call = c
    /\ \A a \in asked' \ asked : a.call = c
    /\ k.pc = "querying" =>
         /\ call[c].pc = "arrived" /\ trail' = trail
         /\ GateNames => \A a \in asked' \ asked : Tells(k.tables, a.tables, k.req, a.conn)
         /\ GateCaps => Capped(k, c)
    /\ (k.req.tool = "query" /\ k.pc # "querying") =>
         /\ asked' = asked
         /\ \A x \in trail' \ trail : x.denied \/ (call[c].pc = "querying" /\ x.tables = call[c].tables)

LEMMA OwnsKeep ==
  ASSUME IndInv, NamesInv, CapsInv, server' = server, NEW c \in Call, call[c].pc \in Waiting, Owns(c)
  PROVE  NamesInv' /\ CapsInv'
<1>1. PICK k :
        /\ call' = [call EXCEPT ![c] = k] /\ k.req = call[c].req /\ k.pc \notin {"new", "arrived"}
        /\ \A x \in trail' \ trail : x.call = c
        /\ \A a \in asked' \ asked : a.call = c
        /\ k.pc = "querying" =>
             /\ call[c].pc = "arrived" /\ trail' = trail
             /\ GateNames => \A a \in asked' \ asked : Tells(k.tables, a.tables, k.req, a.conn)
             /\ GateCaps => Capped(k, c)
        /\ (k.req.tool = "query" /\ k.pc # "querying") =>
             /\ asked' = asked
             /\ \A x \in trail' \ trail : x.denied \/ (call[c].pc = "querying" /\ x.tables = call[c].tables)
  BY DEF Owns
<1>2. call'[c] = k /\ \A d \in Call \ {c} : call'[d] = call[d]
  BY <1>1 DEF IndInv, CallsGood
<1>3. ASSUME GateNames PROVE Named(k, c, asked', trail')
  <2>1. Named(call[c], c, asked, trail) /\ call[c].pc # "new"
    BY <1>3 DEF NamesInv, Waiting
  <2>2. CASE k.req.tool # "query"
    BY <1>1, <2>2 DEF Named
  <2>3. CASE k.req.tool = "query" /\ k.pc = "querying"
    <3>1. \A a \in asked' : a.call = c => Tells(k.tables, a.tables, k.req, a.conn)
      BY <1>1, <1>3, <2>1, <2>3 DEF Named
    <3>2. \A e \in trail' : e.call = c => e.denied
      BY <1>1, <2>1, <2>3 DEF Named
    <3>3. QED
      BY <1>1, <2>3, <3>1, <3>2 DEF Named
  <2>4. CASE k.req.tool = "query" /\ k.pc # "querying"
    <3>1. ASSUME NEW a \in asked', NEW e \in trail', a.call = c, e.call = c, ~e.denied
          PROVE  Tells(e.tables, a.tables, k.req, a.conn)
      BY <1>1, <2>1, <2>4, <3>1 DEF Named
    <3>2. QED
      BY <1>1, <2>4, <3>1 DEF Named
  <2>5. QED
    BY <2>2, <2>3, <2>4
<1>4. ASSUME GateNames, NEW d \in Call, d # c PROVE Named(call[d], d, asked', trail')
  BY <1>1, <1>4 DEF NamesInv, Named
<1>5. ASSUME GateCaps, NEW d \in Call PROVE Capped(call'[d], d)
  BY <1>1, <1>2, <1>5 DEF CapsInv, Capped
<1>6. \A h, d : Capped(h, d)' <=> Capped(h, d)
  BY DEF Capped, MaxRows, CapOf, Applied, policy
<1>7. CapsInv'
  <2>1. ASSUME GateCaps, NEW d \in Call PROVE Capped(call[d], d)'
    <3>1. PICK h : h = call'[d]
      OBVIOUS
    <3>2. Capped(h, d)
      BY <1>5, <2>1, <3>1
    <3>3. Capped(h, d)'
      BY <1>6, <3>2
    <3>4. QED
      BY <3>1, <3>3
  <2>2. QED
    BY <2>1 DEF CapsInv, GateCaps
<1>8. NamesInv'
  BY <1>2, <1>3, <1>4 DEF NamesInv, GateNames
<1>9. QED
  BY <1>7, <1>8

\* Writing e leaves nothing but e, and the handler at pc or at thrownPc.
LEMMA RecordOwns ==
  ASSUME NEW c, NEW e \in EntryType, NEW k \in CallType, NEW pc \in Waiting \cup Ended,
         NEW thrownPc \in Waiting \cup Ended, Record(c, e, k, pc, thrownPc)
  PROVE  \E h : /\ call' = [call EXCEPT ![c] = h] /\ h.req = k.req /\ h.pc \in {pc, thrownPc}
                /\ \A x \in trail' \ trail : x.call = e.call /\ (e.denied => x.denied) /\ x.tables = e.tables
<1>1. PICK o \in Outcomes : /\ trail' = trail \cup Written(e, o)
                            /\ call' = [call EXCEPT ![c] = AfterWrite(k, IF o.thrown THEN thrownPc ELSE pc, o)]
  BY DEF Record
<1>2. PICK next \in Waiting \cup Ended : next = IF o.thrown THEN thrownPc ELSE pc
  OBVIOUS
<1>3. PICK h : h = AfterWrite(k, next, o)
  OBVIOUS
<1>4. h.req = k.req /\ h.pc = next
  BY <1>3, AfterWriteType
<1>5. ASSUME NEW x \in Written(e, o) PROVE x.call = e.call /\ (e.denied => x.denied) /\ x.tables = e.tables
  <2>1. x = [e EXCEPT !.receipt = o.receipt]
    BY <1>5, WrittenType
  <2>2. QED
    BY <2>1 DEF EntryType
<1>6. QED
  BY <1>1, <1>2, <1>3, <1>4, <1>5

LEMMA DenialOwns ==
  ASSUME IndInv, NEW c \in Call, call[c].pc \in Waiting,
         NEW pc \in {"error", "rejected"}, NEW thrownPc \in {"error", "rejected"},
         NEW e, e = Denial(c) \/ e = Unnamed(Denial(c)),
         Record(c, e, call[c], pc, thrownPc), asked' = asked
  PROVE  Owns(c)
<1>1. e \in EntryType
  BY Handled, EntryOf, 0 \in Nat DEF Denial
<1>2. e.call = c /\ e.denied
  BY DEF Denial, Unnamed, Entry
<1>3. pc \in Waiting \cup Ended /\ thrownPc \in Waiting \cup Ended
  BY DEF Ended
<1>4. PICK k \in CallType : k = call[c]
  BY Handled
<1>5. Record(c, e, k, pc, thrownPc)
  BY <1>4
<1>6. PICK end \in Waiting \cup Ended, thrownEnd \in Waiting \cup Ended :
        Record(c, e, k, end, thrownEnd) /\ {end, thrownEnd} \subseteq {"error", "rejected"}
  BY <1>3, <1>5
<1>7. PICK h : /\ call' = [call EXCEPT ![c] = h] /\ h.req = k.req /\ h.pc \in {end, thrownEnd}
               /\ \A x \in trail' \ trail : x.call = e.call /\ (e.denied => x.denied) /\ x.tables = e.tables
  <2>1. PICK w \in EntryType : w = e
    BY <1>1
  <2>2. Record(c, w, k, end, thrownEnd)
    BY <1>6, <2>1
  <2>3. QED
    BY <2>1, <2>2, RecordOwns
<1>8. h.pc \in {"error", "rejected"} /\ h.req = call[c].req
  BY <1>4, <1>6, <1>7
<1>9. /\ \A x \in trail' \ trail : x.call = c
      /\ \A x \in trail' \ trail : x.denied \/ (call[c].pc = "querying" /\ x.tables = call[c].tables)
  BY <1>2, <1>7
<1>10. call' = [call EXCEPT ![c] = h] /\ h.pc \notin {"new", "arrived"} /\ h.pc # "querying"
  BY <1>7, <1>8
<1>11. QED
  BY <1>8, <1>9, <1>10 DEF Owns

LEMMA EndOwns ==
  ASSUME IndInv, NEW c \in Call, call[c].pc \in Waiting, NEW pc \in {"error", "rejected", "data"},
         call' = [call EXCEPT ![c].pc = pc], trail' = trail, asked' = asked
  PROVE  Owns(c)
<1>1. PICK k : k = [call[c] EXCEPT !.pc = pc]
  OBVIOUS
<1>2. k.pc = pc /\ k.req = call[c].req /\ call' = [call EXCEPT ![c] = k]
  BY <1>1, Handled DEF CallType
<1>3. QED
  BY <1>2 DEF Owns

LEMMA CatchOwns ==
  ASSUME IndInv, NEW c \in Call, call[c].pc \in Waiting, Catch(c) \/ Refuse(c) \/ Reject(c)
  PROVE  Owns(c)
BY DenialOwns, EndOwns DEF Catch, Refuse, Reject

LEMMA AnswerOwns ==
  ASSUME IndInv, NEW c \in Call, call[c].pc \in Waiting,
         NEW target \in Connector \cup Table, NEW rows \in Nat, NEW tables \in SUBSET Table,
         call[c].req.tool = "query" => call[c].pc = "querying" /\ tables = call[c].tables,
         Answer(c, target, rows, tables)
  PROVE  Owns(c)
<1>1. PICK e : e = Entry(c, FALSE, target, rows, tables)
  OBVIOUS
<1>2. PICK part : part = [target |-> target, rows |-> rows, tables |-> tables]
  OBVIOUS
<1>3. PICK k : k = [call[c] EXCEPT !.parts = {part}]
  OBVIOUS
<1>4. e \in EntryType
  BY <1>1, Handled, EntryOf
<1>5. part \in Part
  BY <1>2 DEF Part
<1>6. k \in CallType /\ k.req = call[c].req
  BY <1>3, <1>5, Handled DEF CallType
<1>7. e.call = c /\ e.tables = tables
  BY <1>1 DEF Entry
<1>8. Record(c, e, k, "replying", "error") /\ asked' = asked
  BY <1>1, <1>2, <1>3 DEF Answer
<1>9. "replying" \in Waiting \cup Ended /\ "error" \in Waiting \cup Ended
  BY DEF Waiting, Ended
<1>10. PICK h : /\ call' = [call EXCEPT ![c] = h] /\ h.req = k.req /\ h.pc \in {"replying", "error"}
                /\ \A x \in trail' \ trail : x.call = e.call /\ (e.denied => x.denied) /\ x.tables = e.tables
  BY <1>4, <1>6, <1>8, <1>9, RecordOwns
<1>11. \A x \in trail' \ trail : x.call = c /\ x.tables = tables
  BY <1>7, <1>10
<1>12. h.req = call[c].req /\ h.pc \in {"replying", "error"} /\ call' = [call EXCEPT ![c] = h]
  BY <1>6, <1>10
<1>13. QED
  BY <1>8, <1>11, <1>12 DEF Owns

\* A call of another tool asks what it likes, but never comes to a database.
LEMMA AskOwns ==
  ASSUME IndInv, NEW c \in Call, call[c].pc \in Waiting, call[c].req.tool # "query",
         NEW pc \in AtConnector \ {"querying"}, NEW i, NEW tables, NEW asking,
         \/ Ask(c, [call[c] EXCEPT !.pc = pc, !.at = i], asking)
         \/ Ask(c, [call[c] EXCEPT !.pc = pc, !.tables = tables], asking)
  PROVE  Owns(c)
<1>1. PICK k : /\ Ask(c, k, asking)
               /\ \/ k = [call[c] EXCEPT !.pc = pc, !.at = i]
                  \/ k = [call[c] EXCEPT !.pc = pc, !.tables = tables]
  OBVIOUS
<1>2. k.pc = pc /\ k.req = call[c].req
  BY <1>1, Handled DEF CallType
<1>3. k.pc \notin {"new", "arrived", "querying"}
  BY <1>2 DEF AtConnector
<1>4. call' = [call EXCEPT ![c] = k] /\ trail' = trail /\ \A a \in asked' \ asked : a.call = c
  BY <1>1 DEF Ask
<1>5. QED
  BY <1>2, <1>3, <1>4 DEF Owns

\* A call of another tool records what it likes.
LEMMA OtherOwns ==
  ASSUME IndInv, NEW c \in Call, call[c].pc \in Waiting, call[c].req.tool # "query",
         NEW e \in EntryType, e.call = c, NEW k \in CallType, k.req = call[c].req,
         NEW pc \in {"listing", "replying"}, NEW thrownPc \in {"error", "rejected"},
         Record(c, e, k, pc, thrownPc), \A a \in asked' \ asked : a.call = c
  PROVE  Owns(c)
<1>1. PICK end \in Waiting \cup Ended, thrownEnd \in Waiting \cup Ended :
        /\ Record(c, e, k, end, thrownEnd)
        /\ {end, thrownEnd} \subseteq {"listing", "replying", "error", "rejected"}
  BY DEF Waiting, Ended
<1>2. PICK h : /\ call' = [call EXCEPT ![c] = h] /\ h.req = k.req /\ h.pc \in {end, thrownEnd}
               /\ \A x \in trail' \ trail : x.call = e.call /\ (e.denied => x.denied) /\ x.tables = e.tables
  BY <1>1, RecordOwns
<1>3. h.pc \in {"listing", "replying", "error", "rejected"} /\ h.req = call[c].req
  BY <1>1, <1>2
<1>4. (\A x \in trail' \ trail : x.call = c) /\ call' = [call EXCEPT ![c] = h]
  BY <1>2
<1>5. QED
  BY <1>3, <1>4 DEF Owns

\* A query's two paths: each names, when it asks, what it asks for.
LEMMA QueryOwns ==
  ASSUME IndInv, NEW c \in Call, Query(c)
  PROVE  Owns(c)
<1> DEFINE found == Choices(Req(c).conn, "query")
<1>1. call[c].pc = "arrived" /\ call[c].pc \in Waiting /\ call[c].req.tool = "query"
  BY DEF Query, Called, Handler, Waiting
<1>2. ASSUME found # {}, NEW tables \in SUBSET Table, NEW rows \in Nat, NEW reads,
             GateNames => Tells(tables, reads, Req(c), server.connectors[First(found)]),
             GateCaps => \/ Type[server.connectors[First(found)]] = "supabase-rest"
                         \/ rows <= MaxRows(c) /\ rows <= AtMost(Req(c).sql),
             Ask(c, [call[c] EXCEPT !.pc = "querying", !.at = First(found), !.tables = tables,
                                    !.rows = rows], reads)
      PROVE  Owns(c)
  <2>1. PICK i \in Nat : i = First(found)
    BY <1>1, <1>2, Handled, ChoicesType, PermittedType
  <2>2. PICK k : k = [call[c] EXCEPT !.pc = "querying", !.at = i, !.tables = tables, !.rows = rows]
    OBVIOUS
  <2>3. /\ k.pc = "querying" /\ k.req = call[c].req /\ k.at = i /\ k.tables = tables /\ k.rows = rows
    BY <1>1, <2>2, Handled DEF CallType
  <2>4. /\ call' = [call EXCEPT ![c] = k] /\ trail' = trail
        /\ \A a \in asked' \ asked : a.call = c /\ a.tables = reads /\ a.conn = server.connectors[k.at]
    BY <1>2, <2>1, <2>2 DEF Ask
  <2>5. GateCaps => Capped(k, c)
    BY <1>2, <2>1, <2>3 DEF Capped, Req
  <2>6. GateNames => \A a \in asked' \ asked : Tells(k.tables, a.tables, k.req, a.conn)
    BY <1>2, <2>1, <2>3, <2>4 DEF Req
  <2>7. QED
    BY <1>1, <2>3, <2>4, <2>5, <2>6 DEF Owns
<1>3. CASE /\ found # {} /\ Simple(Req(c).sql) # None /\ AllowsTable(Simple(Req(c).sql))
           /\ Type[server.connectors[First(found)]] = "supabase-rest"
           /\ Ask(c, [call[c] EXCEPT !.pc = "querying", !.at = First(found),
                                     !.tables = {Simple(Req(c).sql)}, !.rows = MaxRows(c)],
                  {Simple(Req(c).sql)})
  <2>1. PICK tables : tables = {Simple(Req(c).sql)}
    OBVIOUS
  <2>2. tables \in SUBSET Table
    BY <1>1, <1>3, <2>1, Handled, AllowedTable
  <2>3. PICK rows \in Nat : rows = MaxRows(c)
    BY <1>1, Handled, CapType
  <2>4. Tells(tables, tables, Req(c), server.connectors[First(found)])
    BY DEF Tells
  <2>5. QED
    BY <1>2, <1>3, <2>1, <2>2, <2>3, <2>4
<1>4. CASE /\ found # {} /\ Type[server.connectors[First(found)]] # "supabase-rest"
           /\ LET gate == Guard(Dialect, Req(c).sql, policy.allowTables \ policy.denyTables, MaxRows(c))
              IN  /\ ~gate.refused
                  /\ Ask(c, [call[c] EXCEPT !.pc = "querying", !.at = First(found),
                                            !.tables = gate.tables, !.rows = gate.rows], Reads(Req(c).sql))
  <2>1. PICK gate : gate = Guard(Dialect, Req(c).sql, policy.allowTables \ policy.denyTables, MaxRows(c))
    OBVIOUS
  <2>2. Req(c).sql \in Sql
    BY <1>1, Handled, RequestAssumption DEF Req
  <2>3. /\ Dialect \in Dialects /\ MaxRows(c) \in Caps
        /\ policy.allowTables \ policy.denyTables \in SUBSET Table
    BY <1>1, Handled, PolicyType, CapType
  <2>4. gate \in [refused : BOOLEAN, tables : SUBSET Table, rows : Nat]
    BY <2>1, <2>2, <2>3, GateAssumption
  <2>5. GateNames => \/ gate.refused
                      \/ /\ gate.tables \subseteq Reads(Req(c).sql)
                         /\ Whole(Req(c).sql) => Reads(Req(c).sql) \subseteq gate.tables
    BY <2>1, <2>2, <2>3 DEF GateNames
  <2>6. GateCaps => gate.refused \/ (gate.rows <= MaxRows(c) /\ gate.rows <= AtMost(Req(c).sql))
    BY <2>1, <2>2, <2>3 DEF GateCaps
  <2>7. PICK tables \in SUBSET Table : tables = gate.tables
    BY <2>4
  <2>8. PICK rows \in Nat : rows = gate.rows
    BY <2>4
  <2>9. PICK reads : reads = Reads(Req(c).sql)
    OBVIOUS
  <2>10. ~gate.refused /\ Ask(c, [call[c] EXCEPT !.pc = "querying", !.at = First(found), !.tables = tables,
                                                 !.rows = rows], reads)
    BY <1>4, <2>1, <2>7, <2>8, <2>9
  <2>11. GateNames => Tells(tables, reads, Req(c), server.connectors[First(found)])
    BY <1>1, <1>4, <2>5, <2>7, <2>9, <2>10 DEF Tells, Seen, Req
  <2>12. QED
    BY <1>2, <1>4, <2>6, <2>7, <2>8, <2>9, <2>10, <2>11
<1>5. QED
  BY <1>1, <1>3, <1>4, CatchOwns DEF Query

LEMMA ListedOwns ==
  ASSUME IndInv, NEW c \in Call, Listed(c)
  PROVE  Owns(c)
<1> DEFINE left == {i \in Targets(c) : i > call[c].at}
<1>1. call[c].pc \in Waiting /\ call[c].pc \in AtConnector /\ call[c].req.tool = "list_tables"
  BY DEF Listed, Handler, Waiting, AtConnector
<1>2. PICK conn \in Connector : conn = Conn(c)
  BY <1>1, AtType
<1>3. PICK rows : rows = Cardinality(Allowed(conn))
  OBVIOUS
<1>4. rows \in Nat
  <2>1. Allowed(conn) \subseteq Table
    BY <1>2, ConfigAssumption DEF Allowed
  <2>2. QED
    BY <1>3, <2>1, ConfigAssumption, FS_Subset, FS_CardinalityType
<1>5. PICK e : e = Entry(c, FALSE, conn, rows, {})
  OBVIOUS
<1>6. e \in EntryType
  BY <1>1, <1>2, <1>4, <1>5, Handled, EntryOf
<1>7. e.call = c
  BY <1>5 DEF Entry
<1>8. PICK part \in Part : part = [target |-> conn, rows |-> rows, tables |-> {}]
  BY <1>2, <1>4 DEF Part
<1>9. PICK next : next = IF left = {} THEN call[c].at ELSE First(left)
  OBVIOUS
<1>10. next \in Nat
  BY <1>1, <1>9, Handled, AtType, TargetsType, ChoicesType, PermittedType
<1>11. PICK k : k = [call[c] EXCEPT !.parts = call[c].parts \cup {part}, !.at = next]
  OBVIOUS
<1>12. /\ k \in CallType /\ k.req = call[c].req
       /\ k = [call[c] EXCEPT !.parts = @ \cup {part}, !.at = IF left = {} THEN @ ELSE First(left)]
  BY <1>1, <1>9, <1>10, <1>11, Handled DEF CallType
<1>13. PICK pc \in {"listing", "replying"} : pc = IF left = {} THEN "replying" ELSE "listing"
  OBVIOUS
<1>14. Record(c, e, k, pc, "error")
  BY <1>2, <1>3, <1>5, <1>8, <1>12, <1>13 DEF Listed
<1>15. \A a \in asked' \ asked : a.call = c
  BY DEF Listed
<1>16. QED
  BY <1>1, <1>6, <1>7, <1>12, <1>14, <1>15, OtherOwns

LEMMA DetailingOwns ==
  ASSUME IndInv, NEW c \in Call, call[c].pc \in {"reading", "detailing"}, call[c].req.tool = "resource",
         NEW left, NEW done \in Nat, NEW asking, Detailing(c, left, done, asking)
  PROVE  Owns(c)
<1>1. call[c].pc \in Waiting /\ call[c].pc \in AtConnector
  BY DEF Waiting, AtConnector
<1>2. \A a \in asked' \ asked : a.call = c
  BY DEF Detailing
<1>3. CASE left # {}
  <2>1. PICK k : k = [call[c] EXCEPT !.pc = "detailing", !.tables = left, !.rows = done]
    OBVIOUS
  <2>2. k.pc = "detailing" /\ k.req = call[c].req /\ call' = [call EXCEPT ![c] = k] /\ trail' = trail
    BY <1>1, <1>3, <2>1, Handled DEF Detailing, CallType
  <2>3. QED
    BY <1>2, <2>2 DEF Owns
<1>4. CASE left = {}
  <2>1. PICK conn \in Connector : conn = Conn(c)
    BY <1>1, AtType
  <2>2. PICK e : e = Unnamed(Entry(c, FALSE, conn, done, {}))
    OBVIOUS
  <2>3. e \in EntryType
    BY <1>1, <2>2, Handled, EntryOf
  <2>4. e.call = c
    BY <2>2 DEF Entry, Unnamed
  <2>5. PICK part : part = [target |-> conn, rows |-> done, tables |-> {}]
    OBVIOUS
  <2>6. PICK k : k = [call[c] EXCEPT !.tables = {}, !.rows = done, !.parts = {part}]
    OBVIOUS
  <2>7. part \in Part
    BY <2>5 DEF Part
  <2>8. k \in CallType /\ k.req = call[c].req
    BY <1>1, <2>6, <2>7, Handled DEF CallType
  <2>9. Record(c, e, k, "replying", "rejected")
    BY <1>4, <2>1, <2>2, <2>5, <2>6 DEF Detailing
  <2>10. QED
    BY <1>1, <1>2, <2>3, <2>4, <2>8, <2>9, OtherOwns
<1>5. QED
  BY <1>3, <1>4

\* Every handler's step.
LEMMA HandleOwns ==
  ASSUME IndInv, NEW c \in Call, Handle(c)
  PROVE  call[c].pc \in Waiting /\ Owns(c)
<1>1. ASSUME Catch(c) \/ Refuse(c) \/ Reject(c), call[c].pc \in Waiting PROVE Owns(c)
  BY <1>1, CatchOwns
<1>2. CASE DenyTool(c)
  BY <1>2, DenialOwns DEF DenyTool, Waiting
<1>3. CASE UnknownTool(c)
  BY <1>1, <1>3 DEF UnknownTool, Called, Handler, Waiting
<1>4. CASE Fails(c)
  BY <1>1, <1>4 DEF Fails, Waiting
<1>5. CASE ListTables(c)
  <2>1. call[c].pc \in Waiting /\ call[c].req.tool # "query" /\ "listing" \in AtConnector \ {"querying"}
    BY <1>5 DEF ListTables, Called, Handler, Waiting, AtConnector
  <2>2. QED
    BY <1>1, <1>5, <2>1, AskOwns DEF ListTables
<1>6. CASE DescribeTable(c)
  <2>1. call[c].pc \in Waiting /\ call[c].req.tool # "query" /\ "describing" \in AtConnector \ {"querying"}
    BY <1>6 DEF DescribeTable, Called, Handler, Waiting, AtConnector
  <2>2. QED
    BY <1>1, <1>6, <2>1, AskOwns DEF DescribeTable
<1>7. CASE Described(c)
  <2>1. call[c].pc = "describing" /\ call[c].pc \in Waiting /\ call[c].req.tool # "query"
    BY <1>7 DEF Described, Handler, Waiting
  <2>2. Req(c).table \in Table
    BY <2>1, Handled, AllowedTable DEF Good, Req
  <2>3. CASE Answer(c, Req(c).table, 0, {})
    BY <2>1, <2>2, <2>3, AnswerOwns, 0 \in Nat
  <2>4. QED
    BY <1>1, <1>7, <2>1, <2>3 DEF Described
<1>8. CASE Query(c)
  <2>1. call[c].pc \in Waiting
    BY <1>8 DEF Query, Called, Handler, Waiting
  <2>2. QED
    BY <1>8, <2>1, QueryOwns
<1>9. CASE Queried(c)
  <2>1. call[c].pc = "querying" /\ call[c].pc \in AtConnector /\ call[c].pc \in Waiting
    BY <1>9 DEF Queried, Handler, Waiting, AtConnector
  <2>2. PICK tables \in SUBSET Table : tables = call[c].tables
    BY <2>1, Handled DEF CallType
  <2>3. PICK conn \in Connector : conn = Conn(c)
    BY <2>1, AtType
  <2>4. ASSUME NEW n \in Nat, Answer(c, Conn(c), Cut(n, MaxRows(c)), call[c].tables) PROVE Owns(c)
    <3>1. PICK rows \in Nat : rows = Cut(n, MaxRows(c))
      BY <2>1, Handled, CapType, CutType
    <3>2. QED
      BY <2>1, <2>2, <2>3, <2>4, <3>1, AnswerOwns
  <2>5. Cut(call[c].rows, Rows) \in Nat /\ Rows \in Nat
    BY <2>1, Handled, ConfigAssumption, CutType DEF CallType
  <2>6. \A most \in Nat : 0..most \subseteq Nat
    OBVIOUS
  <2>7. QED
    BY <1>1, <1>9, <2>1, <2>4, <2>5, <2>6 DEF Queried
<1>10. CASE Search(c)
  <2>1. call[c].pc \in Waiting /\ call[c].req.tool # "query" /\ "scoping" \in AtConnector \ {"querying"}
    BY <1>10 DEF Search, Called, Handler, Waiting, AtConnector
  <2>2. QED
    BY <1>1, <1>10, <2>1, AskOwns DEF Search
<1>11. CASE Scoped(c)
  <2>1. call[c].pc \in Waiting /\ call[c].req.tool # "query" /\ "searching" \in AtConnector \ {"querying"}
    BY <1>11 DEF Scoped, Handler, Waiting, AtConnector
  <2>2. QED
    BY <1>1, <1>11, <2>1, AskOwns DEF Scoped
<1>12. CASE Searched(c)
  <2>1. call[c].pc \in AtConnector /\ call[c].pc \in Waiting /\ call[c].req.tool # "query"
    BY <1>12 DEF Searched, Handler, Waiting, AtConnector
  <2>2. Cut(Rows, MaxRows(c)) \in Nat /\ call[c].tables \subseteq Table
    BY <2>1, Handled, CapType, CutType, ConfigAssumption DEF CallType
  <2>3. PICK n \in 0..Cut(Rows, MaxRows(c)), hit \in SUBSET call[c].tables : Answer(c, Conn(c), n, hit)
    BY <1>12 DEF Searched
  <2>4. PICK conn \in Connector : conn = Conn(c)
    BY <2>1, AtType
  <2>5. n \in Nat /\ hit \in SUBSET Table
    BY <2>2
  <2>6. QED
    BY <2>1, <2>3, <2>4, <2>5, AnswerOwns
<1>13. CASE ReadResource(c)
  <2>1. call[c].pc \in Waiting /\ call[c].req.tool # "query" /\ "reading" \in AtConnector \ {"querying"}
    BY <1>13 DEF ReadResource, Handler, Waiting, AtConnector
  <2>2. CASE Record(c, Unnamed(Denial(c)), call[c], "rejected", "rejected") /\ asked' = asked
    BY <2>1, <2>2, DenialOwns
  <2>3. QED
    BY <1>1, <1>13, <2>1, <2>2, AskOwns DEF ReadResource
<1>14. CASE ResourceListed(c)
  <2>1. call[c].pc = "reading" /\ call[c].pc \in Waiting /\ call[c].req.tool = "resource"
    BY <1>14 DEF ResourceListed, Handler, Waiting
  <2>2. ASSUME NEW left, Detailing(c, left, 0, {}) PROVE Owns(c)
    BY <2>1, <2>2, DetailingOwns
  <2>3. QED
    BY <1>1, <1>14, <2>1, <2>2 DEF ResourceListed
<1>15. CASE Detailed(c)
  <2>1. call[c].pc = "detailing" /\ call[c].pc \in Waiting /\ call[c].req.tool = "resource"
    BY <1>15 DEF Detailed, Handler, Waiting
  <2>2. call[c].rows + 1 \in Nat
    BY <2>1, Handled DEF CallType
  <2>3. ASSUME NEW t, Detailing(c, call[c].tables \ {t}, call[c].rows + 1, {t}) PROVE Owns(c)
    <3>1. PICK done \in Nat : done = call[c].rows + 1
      BY <2>2
    <3>2. QED
      BY <2>1, <2>3, <3>1, DetailingOwns
  <2>4. QED
    BY <1>1, <1>15, <2>1, <2>3 DEF Detailed
<1>16. CASE Listed(c)
  <2>1. call[c].pc \in Waiting
    BY <1>16 DEF Listed, Handler, Waiting
  <2>2. QED
    BY <1>16, <2>1, ListedOwns
<1>17. CASE Reply(c)
  <2>1. call[c].pc \in Waiting
    BY <1>17 DEF Reply, Waiting
  <2>2. QED
    BY <1>17, <2>1, EndOwns DEF Reply
<1>18. QED
  BY <1>2, <1>3, <1>4, <1>5, <1>6, <1>7, <1>8, <1>9, <1>10, <1>11, <1>12, <1>13, <1>14, <1>15, <1>16, <1>17 DEF Handle

LEMMA ArriveOwns ==
  ASSUME IndInv, NamesInv, CapsInv, NEW c \in Call, Arrive(c)
  PROVE  NamesInv' /\ CapsInv'
<1>1. /\ server' = server /\ trail' = trail /\ asked' = asked /\ call[c].pc = "new" /\ call[c] \in CallType
      /\ call = [d \in Call |-> call[d]]
  BY DEF Arrive, IndInv, CallsGood, Good
<1>2. PICK r : call' = [call EXCEPT ![c].pc = "arrived", ![c].req = r]
  BY DEF Arrive
<1>3. PICK k : k = [call[c] EXCEPT !.pc = "arrived", !.req = r]
  OBVIOUS
<1>4. call'[c] = k /\ k.pc = "arrived" /\ \A d \in Call \ {c} : call'[d] = call[d]
  BY <1>1, <1>2, <1>3 DEF CallType
<1>5. \A a \in asked : a.call # c
  BY <1>1 DEF IndInv, AskedOK
<1>6. GateNames => Named(k, c, asked, trail)
  BY <1>1, <1>4, <1>5 DEF NamesInv, Named
<1>7. NamesInv'
  BY <1>1, <1>4, <1>6 DEF NamesInv, GateNames
<1>8. \A d \in Call : GateCaps => Capped(call[d], d)'
  BY <1>1, <1>4 DEF CapsInv, Capped, MaxRows, CapOf, Applied, policy
<1>9. QED
  BY <1>7, <1>8 DEF CapsInv, GateCaps

\* No statement is on its way when the process starts or stops.
LEMMA RestartOwns ==
  ASSUME IndInv, NamesInv, Boot \/ Stop
  PROVE  NamesInv' /\ CapsInv'
<1>1. /\ trail' = trail /\ asked' \subseteq asked
      /\ \A d \in Call : /\ call'[d].pc \notin Waiting
                         /\ call'[d] = call[d] \/ (call'[d].pc = "gone" /\ call'[d].req = call[d].req /\ call[d].pc # "new")
  <2>1. CASE Boot
    BY <2>1 DEF Boot, IndInv, CallsGood, Good
  <2>2. CASE Stop
    <3>1. ASSUME NEW d \in Call
          PROVE  /\ call'[d].pc \notin Waiting
                 /\ call'[d] = call[d] \/ (call'[d].pc = "gone" /\ call'[d].req = call[d].req /\ call[d].pc # "new")
      <4>1. PICK k \in CallType : k = call[d]
        BY DEF IndInv, CallsGood, Good
      <4>2. call'[d] = IF k.pc \in Waiting THEN [k EXCEPT !.pc = "gone"] ELSE k
        BY <2>2, <4>1 DEF Stop
      <4>3. PICK h : h = [k EXCEPT !.pc = "gone"]
        OBVIOUS
      <4>4. h.pc = "gone" /\ h.req = k.req
        BY <4>3 DEF CallType
      <4>5. QED
        BY <4>1, <4>2, <4>3, <4>4 DEF Waiting
    <3>2. QED
      BY <2>2, <3>1 DEF Stop
  <2>3. QED
    BY <2>1, <2>2
<1>2. CapsInv'
  BY <1>1 DEF CapsInv, Capped, Waiting
<1>3. ASSUME GateNames, NEW d \in Call PROVE Named(call'[d], d, asked', trail')
  <2>1. Named(call[d], d, asked, trail)
    BY <1>3 DEF NamesInv
  <2>2. QED
    BY <1>1, <2>1 DEF Named
<1>4. QED
  BY <1>2, <1>3 DEF NamesInv, GateNames

LEMMA NamesInit == Init => NamesInv /\ CapsInv
BY DEF Init, NamesInv, CapsInv, Named, Capped, NewCall

LEMMA NamesInductive ==
  ASSUME IndInv, NamesInv, CapsInv, [Next]_vars
  PROVE  NamesInv' /\ CapsInv'
<1>1. CASE UNCHANGED vars
  BY <1>1 DEF vars, NamesInv, CapsInv, GateNames, GateCaps, Capped, MaxRows, CapOf, Applied, policy
<1>2. ASSUME NEW c \in Call, Handle(c) PROVE NamesInv' /\ CapsInv'
  <2>1. server' = server
    BY <1>2 DEF Handle
  <2>2. QED
    BY <1>2, <2>1, HandleOwns, OwnsKeep
<1>3. QED
  BY <1>1, <1>2, ArriveOwns, RestartOwns DEF Next
-----------------------------------------------------------------------------
(* Theorems.                                                               *)

\* Every variable keeps its type.
THEOREM TypeCorrect == Spec => []TypeOK
<1>1. IndInv => TypeOK
  <2> SUFFICES ASSUME IndInv PROVE TypeOK
    OBVIOUS
  <2>1. \A c \in Call : call[c] \in CallType
    BY DEF IndInv, CallsGood, Good
  <2>2. QED
    BY <2>1 DEF IndInv, ServerOK, AskedOK, TypeOK, CallType
<1>2. QED
  BY <1>1, Always, PTL

\* Behind a gate that is sound of the statements it walks, whatever the policy,
\* the connectors and the order calls are handled in, no connector is asked for
\* anything the policy closes, statements with tables elsewhere excepted.
THEOREM NothingClosedIsAsked == GateSound /\ Spec => []AskedWithinPolicy
<1> SUFFICES ASSUME GateSound PROVE Spec => []AskedWithinPolicy
  OBVIOUS
<1>1. IndInv => AskedWithinPolicy
  BY DEF IndInv, AskedOK
<1>2. QED
  BY <1>1, Always, PTL

\* No entry of a describe_table, query or search call says that more rows were
\* handed out than the profile named in the same entry permits.
THEOREM CapsKept == Spec => RowsWithinProfile
<1>1. IndInv /\ [Next]_vars => [\A e \in trail' \ trail : Sound(e)]_vars
  <2> SUFFICES ASSUME IndInv, [Next]_vars PROVE UNCHANGED vars \/ \A e \in trail' \ trail : Sound(e)
    OBVIOUS
  <2>1. ASSUME NEW c \in Call, Handle(c) PROVE \A e \in trail' \ trail : Sound(e)
    <3>1. CASE Quiet(c)
      BY <3>1 DEF Quiet
    <3>2. CASE Reply(c)
      BY <3>2 DEF Reply
    <3>3. QED
      BY <2>1, <3>1, <3>2, HandleQuiet
  <2>2. ASSUME trail' = trail PROVE \A e \in trail' \ trail : Sound(e)
    BY <2>2
  <2>3. QED
    BY <2>1, <2>2 DEF Next, Arrive, Boot, Stop
<1>2. QED
  BY <1>1, Always, PTL DEF Spec, RowsWithinProfile, Sound

\* Where no two connectors of a configuration share a name, every tool call that
\* ends and whose writes succeeded has left exactly its lines, through failed
\* writes of other calls, calls that interleave, crashes and restarts.
THEOREM EveryCallIsAccountedFor == DistinctNames /\ Spec => []EveryCallLeavesItsLines
<1> SUFFICES ASSUME DistinctNames PROVE Spec => []EveryCallLeavesItsLines
  OBVIOUS
<1>1. IndInv /\ LinesInv /\ [Next]_vars => LinesInv'
  BY LinesInductive
<1>2. Spec => []LinesInv
  BY <1>1, LinesInit, Always, PTL DEF Spec
<1>3. QED
  BY <1>2, LinesLeft, PTL

LEMMA NamesAlways == Spec => [](NamesInv /\ CapsInv)
<1>1. IndInv /\ NamesInv /\ CapsInv /\ [Next]_vars => NamesInv' /\ CapsInv'
  BY NamesInductive
<1>2. QED
  BY <1>1, NamesInit, Always, PTL DEF Spec

\* Behind a gate that names what it walks, the tables of every allowed query's
\* entry were read by its statement, and are all of them where the gate walks the
\* statement whole, on either path, however calls interleave and whenever the
\* process stops.
THEOREM EntriesNameWhatWasRead == GateNames /\ Spec => []RecordNamesWhatWasRead
<1> SUFFICES ASSUME GateNames PROVE Spec => []RecordNamesWhatWasRead
  OBVIOUS
<1>1. IndInv /\ NamesInv => RecordNamesWhatWasRead
  <2> SUFFICES ASSUME IndInv, NamesInv, NEW a \in asked, NEW e \in trail, e.call = a.call, ~e.denied,
                      Req(a.call).tool = "query"
               PROVE  Tells(e.tables, a.tables, Req(a.call), a.conn)
    BY DEF RecordNamesWhatWasRead, Tells
  <2>1. a.call \in Call /\ call[a.call].pc # "new"
    BY DEF IndInv, AskedOK
  <2>2. Named(call[a.call], a.call, asked, trail)
    BY <2>1 DEF NamesInv
  <2>3. QED
    BY <2>1, <2>2 DEF Named, Req
<1>2. QED
  BY <1>1, Always, NamesAlways, PTL

\* Behind a gate that caps what it passes, no statement is ever at a database
\* for more rows than the profile of its call permits, or than it asks for: the
\* policy a statement was capped under is the one in force while it runs.
THEOREM StatementsStayCapped == GateCaps /\ Spec => []StatementsCapped
<1> SUFFICES ASSUME GateCaps PROVE Spec => []StatementsCapped
  OBVIOUS
<1>1. IndInv /\ CapsInv => StatementsCapped
  <2> SUFFICES ASSUME IndInv, CapsInv, NEW c \in Call, call[c].pc = "querying",
                      Type[Conn(c)] # "supabase-rest"
               PROVE  call[c].rows <= Cut(AtMost(Req(c).sql), MaxRows(c))
    BY DEF StatementsCapped
  <2>1. call[c].rows <= MaxRows(c) /\ call[c].rows <= AtMost(Req(c).sql)
    BY DEF CapsInv, Capped, Conn, Req
  <2>2. QED
    BY <2>1 DEF Cut
<1>2. QED
  BY <1>1, Always, NamesAlways, PTL

\* The client of each call is given what AccessPromise gives it.
Given == [c \in Call |-> IF call[c].pc = "data" THEN call[c].parts ELSE None]

LEMMA PromiseInit == Init => Promised!Init
BY DEF Init, NewCall, Promised!Init

LEMMA PromiseKept ==
  ASSUME NEW c \in Call, NEW k, call = [d \in Call |-> call[d]], call' = [call EXCEPT ![c] = k],
         call[c].pc # "data", k.pc # "data", trail \subseteq trail'
  PROVE  Promised!Next
<1>1. Given' = Given
  <2>1. \A d \in Call : (call'[d].pc = "data" <=> call[d].pc = "data") /\ (call[d].pc = "data" => call'[d] = call[d])
    OBVIOUS
  <2>2. QED
    BY <2>1 DEF Given
<1>2. QED
  BY <1>1 DEF Given, Promised!Next, Promised!Tell

LEMMA PromiseStep ==
  ASSUME FailClosed, IndInv, [Next]_vars
  PROVE  Promised!Next \/ UNCHANGED <<trail, Given>>
<1>1. call = [d \in Call |-> call[d]] /\ \A d \in Call : Good(call[d], d, trail)
  BY DEF IndInv, CallsGood
<1>2. CASE UNCHANGED vars
  BY <1>2 DEF vars, Given
<1>3. CASE Boot
  BY <1>3 DEF Boot, Given
<1>4. CASE Stop
  <2>1. \A d \in Call : (call'[d].pc = "data" <=> call[d].pc = "data") /\ (call[d].pc = "data" => call'[d] = call[d])
    <3>1. ASSUME NEW d \in Call
          PROVE  (call'[d].pc = "data" <=> call[d].pc = "data") /\ (call[d].pc = "data" => call'[d] = call[d])
      <4>1. call[d] \in CallType /\ "data" \notin Waiting
        BY <1>1 DEF Good, Waiting
      <4>2. CASE call[d].pc \in Waiting
        <5>1. call'[d] = [call[d] EXCEPT !.pc = "gone"]
          BY <1>4, <4>2 DEF Stop
        <5>2. call'[d].pc = "gone"
          BY <4>1, <5>1 DEF CallType
        <5>3. QED
          BY <4>1, <4>2, <5>2
      <4>3. CASE call[d].pc \notin Waiting
        BY <1>4, <4>3 DEF Stop
      <4>4. QED
        BY <4>2, <4>3
    <3>2. QED
      BY <3>1
  <2>2. QED
    BY <1>4, <2>1 DEF Stop, Given
<1>5. ASSUME NEW c \in Call, Arrive(c) PROVE Promised!Next
  <2>1. PICK r \in Requests(c) : call' = [call EXCEPT ![c].pc = "arrived", ![c].req = r]
    BY <1>5 DEF Arrive
  <2>2. PICK k : k = [call[c] EXCEPT !.pc = "arrived", !.req = r]
    OBVIOUS
  <2>3. call' = [call EXCEPT ![c] = k]
    BY <1>1, <2>1, <2>2
  <2>4. k.pc # "data" /\ call[c].pc # "data"
    BY <1>1, <1>5, <2>2 DEF Good, CallType, Arrive
  <2>5. QED
    BY <1>1, <1>5, <2>3, <2>4, PromiseKept DEF Arrive
<1>6. ASSUME NEW c \in Call, Quiet(c) PROVE Promised!Next
  BY <1>1, <1>6, PromiseKept DEF Quiet
<1>7. ASSUME NEW c \in Call, Reply(c) PROVE Promised!Next
  <2>1. call[c].pc = "replying" /\ call' = [call EXCEPT ![c].pc = "data"] /\ trail' = trail
    BY <1>7 DEF Reply
  <2>2. call'[c] = [call[c] EXCEPT !.pc = "data"] /\ \A d \in Call \ {c} : call'[d] = call[d]
    BY <1>1, <2>1
  <2>3. call[c] \in CallType /\ Said(call[c], c, trail)
    BY <1>1, <2>1 DEF Good, Waiting
  <2>4. call'[c].pc = "data" /\ call'[c].parts = call[c].parts
    BY <2>2, <2>3 DEF CallType
  <2>5. Given[c] = None /\ Given'[c] = call[c].parts
    BY <2>1, <2>4 DEF Given
  <2>6. Given' = [Given EXCEPT ![c] = Given'[c]]
    BY <2>2 DEF Given
  <2>7. \A part \in Given'[c] : \E e \in trail : Promised!Says(e, c, part)
    BY <2>3, <2>5 DEF Said
  <2>8. Promised!Give(c)
    BY <2>1, <2>5, <2>6, <2>7 DEF Promised!Give, Given
  <2>9. QED
    BY <2>8 DEF Promised!Next
<1>8. QED
  BY <1>2, <1>3, <1>4, <1>5, <1>6, <1>7, HandleQuiet DEF Next

\* With failClosed on, whatever a client is given, the trail already says so with
\* its receipt: the server implements AccessPromise, through failed writes,
\* calls that interleave, crashes and restarts.
THEOREM PromiseRefined == FailClosed /\ Spec => KeepsPromise
<1> SUFFICES ASSUME FailClosed PROVE Spec => KeepsPromise
  OBVIOUS
<1>1. IndInv /\ [Next]_vars =>
        [Promised!Next]_<<trail, [c \in Call |-> IF call[c].pc = "data" THEN call[c].parts ELSE None]>>
  BY PromiseStep DEF Given
<1>2. QED
  BY <1>1, PromiseInit, Always, PTL DEF Spec, KeepsPromise, Promised!Spec
=============================================================================
