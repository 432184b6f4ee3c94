-------------------------- MODULE HttpGatewayProofs -------------------------
(***************************************************************************)
(* Proofs about HttpGateway, for any number of tokens, people, sessions,   *)
(* requests under way, token files and restarts.                           *)
(***************************************************************************)
EXTENDS HttpGateway, FiniteSetTheorems, TLAPS

Actor == Person \cup {Consumer}
SessionType == [state : {"new", "open", "gone"}, owner : Token, actor : Actor, age : 0..(IdleAfter + 1)]
RequestType == [pc : {"idle", "body"}, cred : Token, client : Client, sid : Session \cup {NoSession},
                method : {"POST", "GET", "DELETE"}, actor : Actor]

\* Whom a session or a request speaks for is somebody its token stands for.
SessionOK(s) == s \in SessionType /\ (s.state = "open" => s.actor \in StoodFor(s.owner))
RequestOK(q) == q \in RequestType /\ (q.pc = "body" => q.actor \in StoodFor(q.cred))

\* Calls that were handled, each under somebody its token stands for.
ServedOK == served \subseteq Token \X Actor /\ NobodySpeaksForAnother

Memory ==
  /\ file \in Contents \cup {Missing, Broken}
  /\ store \in Contents \cup {Missing}
  /\ print \in Contents \cup {Broken, NoPrint}
  /\ session = [s \in Session |-> session[s]] /\ \A s \in Session : SessionOK(session[s])
  /\ request = [r \in Request |-> request[r]] /\ \A r \in Request : RequestOK(request[r])
  /\ ServedOK

\* The requests that will open a session once their body is there.
Opening == {r \in Request : request[r].pc = "body" /\ request[r].sid = NoSession}

\* There is room for as many sessions as are open and will be opened.
Room(open, opening) ==
  /\ IsFiniteSet(open) /\ opening \subseteq Request
  /\ Cardinality(open) + Cardinality(opening) <= MaxSessions + Cardinality(Request) - 1

IndInv == Memory /\ Room(OpenSessions, Opening)
-----------------------------------------------------------------------------
(* Who a token stands for.                                                 *)

\* A token that is let in is resolved to somebody it stands for.
LEMMA ResolvedStoodFor ==
  ASSUME NEW st \in Contents \cup {Missing}, NEW t \in Token, Authorized(t, st)
  PROVE  Resolve(t, st) \in Actor /\ Resolve(t, st) \in StoodFor(t)
<1>1. CASE IsUser(t, st)
  <2>1. st \in Contents /\ st[t] # Nobody /\ st[t] \in Person /\ Resolve(t, st) = st[t]
    BY <1>1, HttpGatewayAssumption DEF IsUser, Resolve
  <2>2. QED
    BY <2>1 DEF StoodFor, Actor
<1>2. CASE ~IsUser(t, st)
  BY <1>2 DEF Authorized, Resolve, StoodFor, Actor
<1>3. QED
  BY <1>1, <1>2

\* The age of a session that was just opened or used.
LEMMA Young == 0 \in 0..(IdleAfter + 1)
  BY HttpGatewayAssumption

\* A request nobody makes, and sessions that are over or not begun.
LEMMA Blank == RequestOK(NoRequest) /\ NoRequest.pc = "idle" /\ SessionOK(Unopened) /\ Unopened.state = "new"
<1>1. (CHOOSE c \in Client : TRUE) \in Client /\ Shared \in Token
  BY HttpGatewayAssumption
<1>2. QED
  BY <1>1, Young DEF RequestOK, RequestType, NoRequest, SessionOK, SessionType, Unopened, Actor

LEMMA ClosedOK == \A s : SessionOK(Closed(s)) /\ Closed(s).state = "gone"
  BY HttpGatewayAssumption, Young DEF SessionOK, SessionType, Closed, Unopened, Actor
-----------------------------------------------------------------------------
(* Room for sessions.                                                      *)

\* Fewer sessions and fewer requests need no more room.
LEMMA RoomLeft ==
  ASSUME NEW open, NEW opening, Room(open, opening), NEW o \in SUBSET open, NEW w \in SUBSET opening
  PROVE  Room(o, w)
<1>1. IsFiniteSet(open) /\ IsFiniteSet(opening) /\ IsFiniteSet(Request)
  BY HttpGatewayAssumption, FS_Subset DEF Room
<1>2. /\ IsFiniteSet(o) /\ Cardinality(o) <= Cardinality(open)
      /\ IsFiniteSet(w) /\ Cardinality(w) <= Cardinality(opening)
  BY <1>1, FS_Subset
<1>3. /\ Cardinality(o) \in Nat /\ Cardinality(open) \in Nat /\ Cardinality(w) \in Nat
      /\ Cardinality(opening) \in Nat /\ Cardinality(Request) \in Nat /\ MaxSessions \in Nat
  BY <1>1, <1>2, FS_CardinalityType, HttpGatewayAssumption
<1>4. QED
  BY <1>2, <1>3 DEF Room

\* Where there is a place free, all that are under way may want one.
LEMMA RoomFor ==
  ASSUME NEW open, IsFiniteSet(open), ~(Cardinality(open) >= MaxSessions), NEW w \in SUBSET Request
  PROVE  Room(open, w)
<1>1. IsFiniteSet(Request) /\ IsFiniteSet(w) /\ Cardinality(w) <= Cardinality(Request)
  BY HttpGatewayAssumption, FS_Subset
<1>2. /\ Cardinality(open) \in Nat /\ Cardinality(w) \in Nat /\ Cardinality(Request) \in Nat
      /\ MaxSessions \in Nat
  BY <1>1, FS_CardinalityType, HttpGatewayAssumption
<1>3. QED
  BY <1>1, <1>2 DEF Room

\* A request that opens its session takes the place it was promised.
LEMMA RoomTaken ==
  ASSUME NEW open, NEW opening, Room(open, opening), NEW s, NEW r \in opening
  PROVE  Room(open \cup {s}, opening \ {r})
<1>1. IsFiniteSet(open) /\ IsFiniteSet(opening) /\ IsFiniteSet(Request)
  BY HttpGatewayAssumption, FS_Subset DEF Room
<1>2. /\ IsFiniteSet(open \cup {s}) /\ Cardinality(open \cup {s}) <= Cardinality(open) + 1
      /\ Cardinality(opening \ {r}) = Cardinality(opening) - 1
  <2>1. Cardinality(open) \in Nat
    BY <1>1, FS_CardinalityType
  <2>2. IsFiniteSet(open \cup {s}) /\ Cardinality(open \cup {s}) <= Cardinality(open) + 1
    <3>1. /\ IsFiniteSet(open \cup {s})
          /\ Cardinality(open \cup {s}) = IF s \in open THEN Cardinality(open) ELSE Cardinality(open) + 1
      BY <1>1, FS_AddElement
    <3>2. QED
      BY <2>1, <3>1
  <2>3. Cardinality(opening \ {r}) = Cardinality(opening) - 1
    BY <1>1, FS_RemoveElement
  <2>4. QED
    BY <2>2, <2>3
<1>3. /\ Cardinality(open) \in Nat /\ Cardinality(opening) \in Nat /\ Cardinality(Request) \in Nat
      /\ Cardinality(open \cup {s}) \in Nat /\ MaxSessions \in Nat
  BY <1>1, <1>2, FS_CardinalityType, HttpGatewayAssumption
<1>4. QED
  BY <1>2, <1>3 DEF Room

\* A step that opens nothing and promises nothing.
LEMMA RoomFrame ==
  ASSUME Room(OpenSessions, Opening),
         \A s \in Session : session'[s].state = "open" => session[s].state = "open",
         \A r \in Request : request'[r].pc = "body" /\ request'[r].sid = NoSession
                            => request[r].pc = "body" /\ request[r].sid = NoSession
  PROVE  Room(OpenSessions, Opening)'
<1>1. PICK o, w : o = OpenSessions' /\ w = Opening'
  OBVIOUS
<1>2. o \in SUBSET OpenSessions /\ w \in SUBSET Opening
  BY <1>1 DEF OpenSessions, Opening
<1>3. PICK open, opening : open = OpenSessions /\ opening = Opening
  OBVIOUS
<1>4. Room(o, w)
  BY <1>2, <1>3, RoomLeft
<1>5. QED
  BY <1>1, <1>4 DEF Room
-----------------------------------------------------------------------------
(* A request arrives.                                                      *)

\* What is left of a request that was turned away, or answered at once.
LEMMA DoneKeeps ==
  ASSUME IndInv, NEW r \in Request, Done(r),
         file' \in Contents \cup {Missing, Broken}, store' \in Contents \cup {Missing},
         print' \in Contents \cup {Broken, NoPrint},
         session' = [s \in Session |-> session'[s]], \A s \in Session : SessionOK(session'[s]),
         \A s \in Session : session'[s].state = "open" => session[s].state = "open",
         ServedOK'
  PROVE  IndInv'
<1>1. request' = [q \in Request |-> request'[q]] /\ request'[r] = NoRequest
      /\ \A q \in Request \ {r} : request'[q] = request[q]
  BY DEF Done, IndInv, Memory
<1>2. \A q \in Request : RequestOK(request'[q])
  BY <1>1, Blank DEF IndInv, Memory
<1>3. Memory'
  BY <1>1, <1>2 DEF Memory, SessionOK, RequestOK, StoodFor
<1>4. Room(OpenSessions, Opening)'
  BY <1>1, Blank, RoomFrame DEF IndInv
<1>5. QED
  BY <1>3, <1>4 DEF IndInv

\* What is left of the process when the body of a request is awaited.
LEMMA AwaitKeeps ==
  ASSUME IndInv, NEW r \in Request, NEW q, RequestOK(q), AwaitBody(r, q),
         file' \in Contents \cup {Missing, Broken}, store' \in Contents \cup {Missing},
         print' \in Contents \cup {Broken, NoPrint},
         session' = [s \in Session |-> session'[s]], \A s \in Session : SessionOK(session'[s]),
         ServedOK'
  PROVE  /\ Memory' /\ request'[r] = q
         /\ \A p \in Request \ {r} : request'[p] = request[p]
<1>1. /\ request' = [p \in Request |-> request'[p]] /\ request'[r] = q
      /\ \A p \in Request \ {r} : request'[p] = request[p]
  BY DEF AwaitBody, IndInv, Memory
<1>2. \A p \in Request : RequestOK(request'[p])
  BY <1>1 DEF IndInv, Memory
<1>3. QED
  BY <1>1, <1>2 DEF Memory, SessionOK, RequestOK, StoodFor

\* A request is let in, or turned away.
LEMMA Admitted ==
  ASSUME IndInv, NEW r \in Request, NEW q \in RequestType, q.pc = "idle",
         NEW st \in Contents \cup {Missing}, store' = st,
         file' \in Contents \cup {Missing, Broken}, print' \in Contents \cup {Broken, NoPrint},
         served' = served, Admit(r, q, st)
  PROVE  IndInv'
<1>1. ServedOK' /\ store' \in Contents \cup {Missing}
  BY DEF IndInv, Memory, ServedOK, NobodySpeaksForAnother, StoodFor
<1>2. session = [s \in Session |-> session[s]] /\ \A s \in Session : SessionOK(session[s])
  BY DEF IndInv, Memory
<1>3. ASSUME Done(r), session' = session PROVE IndInv'
  BY <1>1, <1>2, <1>3, DoneKeeps
<1>4. ASSUME ~(~Authorized(q.cred, st)), Route(r, q, st) PROVE IndInv'
  <2>1. CASE q.sid \in OpenSessions /\ ToSession(r, q)
    <3>1. q.sid \in Session /\ session[q.sid].state = "open" /\ SessionOK(session[q.sid])
      BY <1>2, <2>1 DEF OpenSessions
    <3>2. CASE Gone(q.sid) /\ Done(r)
      <4>1. /\ session' = [s \in Session |-> session'[s]] /\ session'[q.sid] = Closed(q.sid)
            /\ \A s \in Session \ {q.sid} : session'[s] = session[s]
        BY <1>2, <3>1, <3>2 DEF Gone
      <4>2. \A s \in Session : SessionOK(session'[s]) /\ (session'[s].state = "open" => session[s].state = "open")
        BY <1>2, <4>1, ClosedOK
      <4>3. QED
        BY <1>1, <3>2, <4>1, <4>2, DoneKeeps
    <3>3. CASE /\ OwnerMatches(q.sid, q.cred)
               /\ session' = [session EXCEPT ![q.sid].age = 0]
               /\ IF q.method = "POST"
                    THEN AwaitBody(r, [q EXCEPT !.pc = "body", !.actor = session[q.sid].actor])
                    ELSE Done(r)
      <4>1. /\ session' = [s \in Session |-> session'[s]]
            /\ session'[q.sid] = [session[q.sid] EXCEPT !.age = 0]
            /\ \A s \in Session \ {q.sid} : session'[s] = session[s]
        BY <1>2, <3>1, <3>3
      <4>2. SessionOK(session'[q.sid]) /\ session'[q.sid].state = "open"
        BY <3>1, <4>1, Young DEF SessionOK, SessionType
      <4>3. \A s \in Session : SessionOK(session'[s]) /\ (session'[s].state = "open" => session[s].state = "open")
        BY <1>2, <3>1, <4>1, <4>2
      <4>4. CASE Done(r)
        BY <1>1, <4>1, <4>3, <4>4, DoneKeeps
      <4>5. CASE AwaitBody(r, [q EXCEPT !.pc = "body", !.actor = session[q.sid].actor])
        <5>1. PICK k : k = [q EXCEPT !.pc = "body", !.actor = session[q.sid].actor]
          OBVIOUS
        <5>2. session[q.sid].actor \in StoodFor(q.cred) /\ session[q.sid].actor \in Actor
          BY <3>1, <3>3 DEF OwnerMatches, SessionOK, SessionType
        <5>3. RequestOK(k) /\ k.sid = q.sid
          BY <5>1, <5>2 DEF RequestOK, RequestType
        <5>4. AwaitBody(r, k)
          BY <4>5, <5>1
        <5>5. Memory' /\ request'[r] = k /\ \A p \in Request \ {r} : request'[p] = request[p]
          BY <1>1, <4>1, <4>3, <5>3, <5>4, AwaitKeeps
        <5>6. k.sid # NoSession
          BY <3>1, <5>3, HttpGatewayAssumption
        <5>7. Room(OpenSessions, Opening)'
          BY <4>3, <5>5, <5>6, RoomFrame DEF IndInv
        <5>8. QED
          BY <5>5, <5>7 DEF IndInv
      <4>6. QED
        BY <3>3, <4>4, <4>5
    <3>4. QED
      BY <1>3, <2>1, <3>2, <3>3 DEF ToSession
  <2>2. CASE Done(r) /\ session' = session
    BY <1>3, <2>2
  <2>3. CASE q.sid = NoSession /\ ToOpen(r, q, st)
    <3>1. session' = session /\ (Done(r) \/ (~Full /\ AwaitBody(r, [q EXCEPT !.pc = "body", !.actor = Resolve(q.cred, st)])))
      BY <2>3 DEF ToOpen
    <3>2. CASE ~Full /\ AwaitBody(r, [q EXCEPT !.pc = "body", !.actor = Resolve(q.cred, st)])
      <4>1. PICK k : k = [q EXCEPT !.pc = "body", !.actor = Resolve(q.cred, st)]
        OBVIOUS
      <4>2. q.cred \in Token
        BY DEF RequestType
      <4>3. Resolve(q.cred, st) \in Actor /\ Resolve(q.cred, st) \in StoodFor(q.cred)
        BY <1>4, <4>2, ResolvedStoodFor
      <4>4. RequestOK(k)
        BY <4>1, <4>3 DEF RequestOK, RequestType
      <4>5. AwaitBody(r, k)
        BY <3>2, <4>1
      <4>6. Memory' /\ request'[r] = k
        BY <1>1, <1>2, <3>1, <4>4, <4>5, AwaitKeeps
      <4>7. PICK open, w : open = OpenSessions /\ w = Opening'
        OBVIOUS
      <4>8. IsFiniteSet(open) /\ ~(Cardinality(open) >= MaxSessions) /\ w \in SUBSET Request
        BY <3>2, <4>7 DEF Full, IndInv, Room, Opening
      <4>9. Room(open, w)
        BY <4>8, RoomFor
      <4>10. OpenSessions' = open
        BY <3>1, <4>7 DEF OpenSessions
      <4>11. QED
        BY <4>6, <4>7, <4>9, <4>10 DEF IndInv, Room
    <3>3. QED
      BY <1>3, <3>1, <3>2
  <2>4. QED
    BY <1>4, <2>1, <2>2, <2>3 DEF Route
<1>5. QED
  BY <1>3, <1>4 DEF Admit

LEMMA ArriveStep ==
  ASSUME IndInv, NEW t \in Token, NEW c \in Client, NEW s \in Session \cup {NoSession},
         NEW m \in {"POST", "GET", "DELETE"}, Arrive(t, c, s, m)
  PROVE  IndInv'
<1>1. PICK r \in Request : r = Slot
  BY DEF Arrive, Slot
<1>2. PICK q : q = [NoRequest EXCEPT !.cred = t, !.client = c, !.sid = s, !.method = m]
  OBVIOUS
<1>3. q \in RequestType /\ q.pc = "idle"
  BY <1>2, Blank DEF RequestOK, RequestType, NoRequest, Actor
<1>4. /\ file \in Contents \cup {Missing, Broken} /\ store \in Contents \cup {Missing}
      /\ print \in Contents \cup {Broken, NoPrint}
  BY DEF IndInv, Memory
<1>5. /\ file' \in Contents \cup {Missing, Broken} /\ store' \in Contents \cup {Missing}
      /\ print' \in Contents \cup {Broken, NoPrint}
  BY <1>4 DEF Arrive, Reload, Edits
<1>6. PICK st \in Contents \cup {Missing} : st = store'
  BY <1>5
<1>7. Admit(r, q, st) /\ served' = served
  BY <1>1, <1>2, <1>6 DEF Arrive
<1>8. QED
  BY <1>3, <1>5, <1>6, <1>7, Admitted
-----------------------------------------------------------------------------
(* The other steps.                                                        *)

LEMMA BodyReadStep ==
  ASSUME IndInv, NEW r \in Request, BodyRead(r)
  PROVE  IndInv'
<1>1. /\ file' = file /\ store' = store /\ print' = print /\ Done(r)
      /\ request[r].pc = "body" /\ RequestOK(request[r])
  BY DEF BodyRead, IndInv, Memory
<1>2. /\ file' \in Contents \cup {Missing, Broken} /\ store' \in Contents \cup {Missing}
      /\ print' \in Contents \cup {Broken, NoPrint}
      /\ session = [s \in Session |-> session[s]] /\ \A s \in Session : SessionOK(session[s])
  BY <1>1 DEF IndInv, Memory
<1>3. CASE request[r].sid # NoSession
  <2>1. session' = session /\ served' = served \cup {<<request[r].cred, request[r].actor>>}
    BY <1>3 DEF BodyRead
  <2>2. request[r].actor \in StoodFor(request[r].cred)
    BY <1>1 DEF RequestOK
  <2>3. \A x \in served' : x \in Token \X Actor /\ x[2] \in StoodFor(x[1])
    BY <1>1, <2>1, <2>2 DEF IndInv, Memory, ServedOK, NobodySpeaksForAnother, RequestOK, RequestType
  <2>4. ServedOK'
    BY <2>3 DEF ServedOK, NobodySpeaksForAnother, StoodFor
  <2>5. QED
    BY <1>1, <1>2, <2>1, <2>4, DoneKeeps
<1>4. CASE request[r].sid = NoSession
  <2>1. PICK new : new = NewId
    OBVIOUS
  <2>2. new \in Session /\ session[new].state = "new"
    BY <1>4, <2>1 DEF BodyRead, NewId
  <2>3. PICK k : k = [state |-> "open", owner |-> request[r].cred, actor |-> request[r].actor, age |-> 0]
    OBVIOUS
  <2>4. SessionOK(k) /\ k.state = "open"
    BY <1>1, <2>3, Young DEF RequestOK, RequestType, SessionOK, SessionType
  <2>5. session' = [session EXCEPT ![new] = k] /\ served' = served
    BY <1>4, <2>1, <2>3 DEF BodyRead
  <2>6. /\ session' = [s \in Session |-> session'[s]] /\ session'[new] = k
        /\ \A s \in Session \ {new} : session'[s] = session[s]
    BY <1>2, <2>2, <2>5
  <2>7. /\ request' = [q \in Request |-> request'[q]] /\ request'[r] = NoRequest
        /\ \A q \in Request \ {r} : request'[q] = request[q]
    BY <1>1 DEF Done, IndInv, Memory
  <2>8. Memory'
    <3>1. \A s \in Session : SessionOK(session'[s])
      BY <1>2, <2>4, <2>6
    <3>2. \A q \in Request : RequestOK(request'[q])
      BY <2>7, Blank DEF IndInv, Memory
    <3>3. ServedOK'
      BY <2>5 DEF IndInv, Memory, ServedOK, NobodySpeaksForAnother, StoodFor
    <3>4. QED
      BY <1>2, <2>6, <2>7, <3>1, <3>2, <3>3 DEF Memory, SessionOK, RequestOK, StoodFor
  <2>9. PICK open, opening : open = OpenSessions /\ opening = Opening
    OBVIOUS
  <2>10. Room(open, opening) /\ r \in opening
    BY <1>1, <1>4, <2>9 DEF IndInv, Opening
  <2>11. OpenSessions' = open \cup {new}
    BY <2>2, <2>4, <2>6, <2>9 DEF OpenSessions
  <2>12. Opening' = opening \ {r}
    BY <2>7, <2>9, Blank DEF Opening
  <2>13. Room(open \cup {new}, opening \ {r})
    BY <2>10, RoomTaken
  <2>14. QED
    BY <2>8, <2>11, <2>12, <2>13 DEF IndInv, Room
<1>5. QED
  BY <1>3, <1>4

LEMMA BodyFailsStep ==
  ASSUME IndInv, NEW r \in Request, BodyFails(r)
  PROVE  IndInv'
<1>1. /\ Done(r) /\ UNCHANGED <<file, store, print, session, served>>
  BY DEF BodyFails
<1>2. ServedOK'
  BY <1>1 DEF IndInv, Memory, ServedOK, NobodySpeaksForAnother, StoodFor
<1>3. QED
  BY <1>1, <1>2, DoneKeeps DEF IndInv, Memory

\* A step that changes neither requests nor calls, and opens no session.
LEMMA SessionsOnly ==
  ASSUME IndInv, request' = request \/ request' = [r \in Request |-> NoRequest], served' = served,
         file' \in Contents \cup {Missing, Broken}, store' \in Contents \cup {Missing},
         print' \in Contents \cup {Broken, NoPrint},
         session' = [s \in Session |-> session'[s]], \A s \in Session : SessionOK(session'[s]),
         \A s \in Session : session'[s].state = "open" => session[s].state = "open"
  PROVE  IndInv'
<1>1. /\ request' = [r \in Request |-> request'[r]] /\ \A r \in Request : RequestOK(request'[r])
      /\ \A r \in Request : request'[r].pc = "body" => request'[r] = request[r]
  BY Blank DEF IndInv, Memory
<1>2. ServedOK'
  BY DEF IndInv, Memory, ServedOK, NobodySpeaksForAnother, StoodFor
<1>3. Memory'
  BY <1>1, <1>2 DEF Memory, SessionOK, RequestOK, StoodFor
<1>4. Room(OpenSessions, Opening)'
  BY <1>1, RoomFrame DEF IndInv
<1>5. QED
  BY <1>3, <1>4 DEF IndInv

LEMMA ProcessStep ==
  ASSUME IndInv, IdleSweep \/ LimiterSweep \/ Boot \/ Stop \/ Edit \/ Tick \/ UNCHANGED vars
  PROVE  IndInv'
<1>1. /\ file \in Contents \cup {Missing, Broken} /\ store \in Contents \cup {Missing}
      /\ print \in Contents \cup {Broken, NoPrint}
      /\ session = [s \in Session |-> session[s]] /\ \A s \in Session : SessionOK(session[s])
  BY DEF IndInv, Memory
<1>2. CASE IdleSweep
  <2>1. \A s \in Session : session'[s] = Closed(s) \/ session'[s] = session[s]
    BY <1>2 DEF IdleSweep
  <2>2. \A s \in Session : SessionOK(session'[s]) /\ (session'[s].state = "open" => session[s].state = "open")
    BY <1>1, <2>1, ClosedOK
  <2>3. session' = [s \in Session |-> session'[s]]
    BY <1>2 DEF IdleSweep
  <2>4. QED
    BY <1>1, <1>2, <2>2, <2>3, SessionsOnly DEF IdleSweep
<1>3. CASE LimiterSweep \/ Edit \/ UNCHANGED vars
  BY <1>1, <1>3, SessionsOnly DEF LimiterSweep, Edit, Edits, vars
<1>4. CASE Boot
  BY <1>1, <1>4, SessionsOnly DEF Boot, Edits
<1>5. CASE Stop
  <2>1. session' = [s \in Session |-> session'[s]]
    BY <1>5 DEF Stop
  <2>2. \A s \in Session : session'[s] = Closed(s) \/ (session'[s] = session[s] /\ session[s].state # "open")
    BY <1>5 DEF Stop, Closed
  <2>3. \A s \in Session : SessionOK(session'[s]) /\ session'[s].state # "open"
    BY <1>1, <2>2, ClosedOK
  <2>4. QED
    BY <1>1, <1>5, <2>1, <2>3, SessionsOnly DEF Stop
<1>6. CASE Tick
  <2>1. session' = [s \in Session |-> session'[s]]
    BY <1>6 DEF Tick
  <2>2. ASSUME NEW s \in Session
        PROVE  SessionOK(session'[s]) /\ (session'[s].state = "open" => session[s].state = "open")
    <3>1. SessionOK(session[s]) /\ IdleAfter + 1 \in Nat
      BY <1>1, HttpGatewayAssumption
    <3>2. PICK age \in 0..(IdleAfter + 1) : age = Older(session[s].age, IdleAfter + 1)
      BY <3>1 DEF Older, SessionOK, SessionType
    <3>3. session'[s] = [session[s] EXCEPT !.age = age] \/ session'[s] = session[s]
      BY <1>6, <3>2 DEF Tick
    <3>4. QED
      BY <3>1, <3>3 DEF SessionOK, SessionType
  <2>3. QED
    BY <1>1, <1>6, <2>1, <2>2, SessionsOnly DEF Tick
<1>7. QED
  BY <1>2, <1>3, <1>4, <1>5, <1>6
-----------------------------------------------------------------------------
(* The rate limiter.                                                       *)

Hit == [slot : Nat, age : 0..Window]

\* What the limiter counts of a client is what was let through within the window.
Budget(c) ==
  /\ hits[c] \subseteq Hit /\ accepted[c] = Recent(c)
  /\ IsFiniteSet(accepted[c]) /\ Cardinality(accepted[c]) <= PerWindow

Limits ==
  /\ proc \in {"down", "up"}
  /\ hits = [c \in Client |-> hits[c]] /\ accepted = [c \in Client |-> accepted[c]]
  /\ \A c \in Client : Budget(c)

\* The time a request is given is one more: its slot is nobody else's.
LEMMA SlotIsFree ==
  ASSUME NEW H, IsFiniteSet(H)
  PROVE  FreeSlot(H) \in Nat /\ \A h \in H : h.slot # FreeSlot(H)
<1>1. PICK n \in Nat : n = Cardinality(H)
  BY FS_CardinalityType
<1>2. PICK T : T = {h.slot : h \in H}
  OBVIOUS
<1>3. PICK f : f = [h \in H |-> h.slot]
  OBVIOUS
<1>4. f \in Surjection(H, T)
  BY <1>2, <1>3 DEF Surjection
<1>5. IsFiniteSet(T) /\ Cardinality(T) <= n
  BY <1>1, <1>4, FS_Surjection
<1>6. \E k \in 0..n : k \notin T
  <2> SUFFICES ASSUME 0..n \subseteq T PROVE FALSE
    OBVIOUS
  <2>1. 0..n \in SUBSET T /\ 0 \in Int /\ n \in Int
    OBVIOUS
  <2>2. Cardinality(0..n) <= Cardinality(T)
    BY <1>5, <2>1, FS_Subset
  <2>3. Cardinality(0..n) = IF 0 > n THEN 0 ELSE n - 0 + 1
    BY <2>1, FS_Interval
  <2>4. Cardinality(T) \in Nat
    BY <1>5, FS_CardinalityType
  <2>5. QED
    BY <1>5, <2>2, <2>3, <2>4
<1>7. \E k \in 0..n : \A h \in H : h.slot # k
  BY <1>2, <1>6
<1>8. QED
  BY <1>1, <1>7 DEF FreeSlot

\* A request within the budget.
LEMMA TakeStep ==
  ASSUME Limits, NEW c \in Client, ~Exhausted(c), Take(c), proc' = proc
  PROVE  Limits'
<1>1. PICK old : old = Recent(c)
  OBVIOUS
<1>2. old \subseteq Hit /\ old \subseteq hits[c] /\ (\A k \in old : k.age < Window) /\ accepted[c] = old
      /\ IsFiniteSet(old)
  BY <1>1 DEF Limits, Budget, Recent
<1>3. PICK h : h = [slot |-> FreeSlot(Recent(c) \cup accepted[c]), age |-> 0]
  OBVIOUS
<1>4. Recent(c) \cup accepted[c] = old
  BY <1>1, <1>2
<1>5. FreeSlot(old) \in Nat
  BY <1>2, SlotIsFree
<1>6. Window \in Nat \ {0} /\ PerWindow \in Nat
  BY HttpGatewayAssumption
<1>7. h \in Hit /\ h.age < Window
  BY <1>3, <1>4, <1>5, <1>6 DEF Hit
<1>8. /\ hits' = [hits EXCEPT ![c] = old \cup {h}]
      /\ accepted' = [accepted EXCEPT ![c] = accepted[c] \cup {h}]
  BY <1>1, <1>3 DEF Take
<1>9. /\ hits' = [d \in Client |-> hits'[d]] /\ hits'[c] = old \cup {h}
      /\ accepted' = [d \in Client |-> accepted'[d]] /\ accepted'[c] = old \cup {h}
      /\ \A d \in Client \ {c} : hits'[d] = hits[d] /\ accepted'[d] = accepted[d]
  BY <1>2, <1>8 DEF Limits
<1>10. IsFiniteSet(old \cup {h}) /\ Cardinality(old \cup {h}) <= PerWindow
  <2>1. Cardinality(old) < PerWindow
    <3>1. ~ (Cardinality(old) >= PerWindow) /\ Cardinality(old) \in Nat
      BY <1>1, <1>2, FS_CardinalityType DEF Exhausted
    <3>2. QED
      BY <1>6, <3>1
  <2>2. /\ IsFiniteSet(old \cup {h})
        /\ Cardinality(old \cup {h}) = IF h \in old THEN Cardinality(old) ELSE Cardinality(old) + 1
    BY <1>2, FS_AddElement
  <2>3. Cardinality(old) \in Nat
    BY <1>2, FS_CardinalityType
  <2>4. QED
    BY <1>6, <2>1, <2>2, <2>3
<1>11. Budget(c)'
  BY <1>2, <1>7, <1>9, <1>10 DEF Budget, Recent
<1>12. \A d \in Client \ {c} : Budget(d)'
  BY <1>9 DEF Limits, Budget, Recent
<1>13. QED
  BY <1>9, <1>11, <1>12 DEF Limits

\* Where the limiter forgets what is no longer recent, its count stays.
LEMMA ForgetStep ==
  ASSUME Limits, proc' \in {"down", "up"}, accepted' = accepted,
         hits' = [c \in Client |-> hits'[c]],
         \A c \in Client : hits'[c] = hits[c] \/ hits'[c] = Recent(c)
  PROVE  Limits'
<1>1. ASSUME NEW c \in Client PROVE Budget(c)'
  <2>1. hits[c] \subseteq Hit /\ accepted[c] = Recent(c)
        /\ IsFiniteSet(accepted[c]) /\ Cardinality(accepted[c]) <= PerWindow
    BY DEF Limits, Budget
  <2>2. hits'[c] \subseteq Hit
    BY <2>1 DEF Recent
  <2>3. Recent(c)' = Recent(c)
    BY DEF Recent
  <2>4. QED
    BY <2>1, <2>2, <2>3 DEF Budget
<1>2. QED
  BY <1>1 DEF Limits

\* A request gets older, and stays in the window or leaves it.
LEMMA AgedHit ==
  ASSUME NEW h \in Hit
  PROVE  /\ Aged(h) \in Hit
         /\ Aged(h).age < Window <=> h.age + 1 < Window
<1>1. Window \in Nat \ {0} /\ h.age \in 0..Window /\ h.slot \in Nat
  BY HttpGatewayAssumption DEF Hit
<1>2. PICK age : age = Older(h.age, Window)
  OBVIOUS
<1>3. age \in 0..Window /\ (age < Window <=> h.age + 1 < Window)
  BY <1>1, <1>2 DEF Older
<1>4. Aged(h) = [h EXCEPT !.age = age]
  BY <1>2 DEF Aged
<1>5. QED
  BY <1>3, <1>4 DEF Hit

LEMMA TickStep ==
  ASSUME Limits, Tick
  PROVE  Limits'
<1>1. /\ proc' = proc
      /\ hits' = [c \in Client |-> {Aged(h) : h \in hits[c]}]
      /\ accepted' = [c \in Client |-> {Aged(h) : h \in {k \in accepted[c] : k.age + 1 < Window}}]
  BY DEF Tick
<1>2. ASSUME NEW c \in Client PROVE Budget(c)'
  <2>1. hits[c] \subseteq Hit /\ accepted[c] = Recent(c)
        /\ IsFiniteSet(accepted[c]) /\ Cardinality(accepted[c]) <= PerWindow
    BY DEF Limits, Budget
  <2>2. PICK kept : kept = {k \in accepted[c] : k.age + 1 < Window}
    OBVIOUS
  <2>3. PICK now : now = {Aged(h) : h \in kept}
    OBVIOUS
  <2>4. hits'[c] = {Aged(h) : h \in hits[c]} /\ accepted'[c] = now
    BY <1>1, <2>2, <2>3
  <2>5. hits'[c] \subseteq Hit
    BY <2>1, <2>4, AgedHit
  <2>6. now = Recent(c)'
    <3>1. kept = {k \in hits[c] : k.age + 1 < Window}
      <4>1. \A k \in hits[c] : k.age + 1 < Window => k.age < Window
        BY <2>1, HttpGatewayAssumption DEF Hit
      <4>2. QED
        BY <2>1, <2>2, <4>1 DEF Recent
    <3>2. \A h \in hits[c] : Aged(h).age < Window <=> h.age + 1 < Window
      BY <2>1, AgedHit
    <3>3. QED
      BY <2>3, <2>4, <3>1, <3>2 DEF Recent
  <2>7. IsFiniteSet(now) /\ Cardinality(now) <= PerWindow
    <3>1. kept \in SUBSET accepted[c]
      BY <2>2
    <3>2. IsFiniteSet(kept) /\ Cardinality(kept) <= Cardinality(accepted[c])
      BY <2>1, <3>1, FS_Subset
    <3>3. PICK f : f = [h \in kept |-> Aged(h)]
      OBVIOUS
    <3>4. f \in Surjection(kept, now)
      BY <2>3, <3>3 DEF Surjection
    <3>5. IsFiniteSet(now) /\ Cardinality(now) <= Cardinality(kept)
      BY <3>2, <3>4, FS_Surjection
    <3>6. /\ Cardinality(now) \in Nat /\ Cardinality(kept) \in Nat
          /\ Cardinality(accepted[c]) \in Nat /\ PerWindow \in Nat
      BY <2>1, <3>2, <3>5, FS_CardinalityType, HttpGatewayAssumption
    <3>7. QED
      BY <2>1, <3>2, <3>5, <3>6
  <2>8. QED
    BY <2>4, <2>5, <2>6, <2>7 DEF Budget
<1>3. QED
  BY <1>1, <1>2 DEF Limits

LEMMA ArriveLimits ==
  ASSUME Limits, NEW t \in Token, NEW c \in Client, NEW s, NEW m, Arrive(t, c, s, m)
  PROVE  Limits'
<1>1. PICK q : q = [NoRequest EXCEPT !.cred = t, !.client = c, !.sid = s, !.method = m]
  OBVIOUS
<1>2. q.client = c
  BY <1>1 DEF NoRequest
<1>3. proc' = proc /\ \E r : Admit(r, q, store')
  BY <1>1 DEF Arrive
<1>4. \/ hits' = hits /\ accepted' = accepted
      \/ hits' = [hits EXCEPT ![c] = Recent(c)] /\ accepted' = accepted
      \/ ~Exhausted(c) /\ Take(c)
  BY <1>2, <1>3 DEF Admit
<1>5. CASE ~Exhausted(c) /\ Take(c)
  BY <1>3, <1>5, TakeStep
<1>6. CASE hits' = [hits EXCEPT ![c] = Recent(c)] /\ accepted' = accepted
  <2>1. /\ hits' = [d \in Client |-> hits'[d]]
        /\ \A d \in Client : hits'[d] = hits[d] \/ hits'[d] = Recent(d)
    BY <1>6 DEF Limits
  <2>2. proc' \in {"down", "up"}
    BY <1>3 DEF Limits
  <2>3. QED
    BY <1>6, <2>1, <2>2, ForgetStep
<1>7. CASE hits' = hits /\ accepted' = accepted
  BY <1>3, <1>7, ForgetStep DEF Limits
<1>8. QED
  BY <1>4, <1>5, <1>6, <1>7

LEMMA LimitsInit == Init => Limits
<1> SUFFICES ASSUME Init PROVE Limits
  OBVIOUS
<1>1. \A c \in Client : hits[c] = {} /\ accepted[c] = {}
  BY DEF Init
<1>2. IsFiniteSet({}) /\ Cardinality({}) = 0 /\ PerWindow \in Nat
  BY FS_EmptySet, HttpGatewayAssumption
<1>3. \A c \in Client : Budget(c)
  BY <1>1, <1>2 DEF Budget, Recent
<1>4. QED
  BY <1>3 DEF Init, Limits

LEMMA LimitsNext == Limits /\ [Next]_vars => Limits'
<1> SUFFICES ASSUME Limits, [Next]_vars PROVE Limits'
  OBVIOUS
<1>1. ASSUME proc' \in {"down", "up"}, hits' = hits, accepted' = accepted PROVE Limits'
  BY <1>1, ForgetStep DEF Limits
<1>2. CASE \E t \in Token, c \in Client, s \in Session \cup {NoSession},
             m \in {"POST", "GET", "DELETE"} : Arrive(t, c, s, m)
  BY <1>2, ArriveLimits
<1>3. CASE \E r \in Request : BodyRead(r) \/ BodyFails(r)
  BY <1>1, <1>3 DEF BodyRead, BodyFails, Limits
<1>4. CASE IdleSweep \/ Edit \/ UNCHANGED vars
  BY <1>1, <1>4 DEF IdleSweep, Edit, vars, Limits
<1>5. CASE Boot
  BY <1>1, <1>5 DEF Boot
<1>6. CASE LimiterSweep
  <2>1. /\ hits' = [c \in Client |-> hits'[c]]
        /\ \A c \in Client : hits'[c] = hits[c] \/ hits'[c] = Recent(c)
    BY <1>6 DEF LimiterSweep, Swept
  <2>2. accepted' = accepted /\ proc' \in {"down", "up"}
    BY <1>6 DEF LimiterSweep, Limits
  <2>3. QED
    BY <2>1, <2>2, ForgetStep
<1>7. CASE Stop
  <2>1. /\ hits' = [c \in Client |-> {}] /\ accepted' = [c \in Client |-> {}] /\ proc' = "down"
    BY <1>7 DEF Stop
  <2>2. IsFiniteSet({}) /\ Cardinality({}) = 0 /\ PerWindow \in Nat
    BY FS_EmptySet, HttpGatewayAssumption
  <2>3. \A c \in Client : Budget(c)'
    BY <2>1, <2>2 DEF Budget, Recent
  <2>4. QED
    BY <2>1, <2>3 DEF Limits
<1>8. CASE Tick
  BY <1>8, TickStep
<1>9. QED
  BY <1>2, <1>3, <1>4, <1>5, <1>6, <1>7, <1>8 DEF Next
-----------------------------------------------------------------------------
(* Theorems.                                                               *)

\* Requests under way, sessions and calls speak for whom their token stands for,
\* and there is room for what was promised, in every state.
THEOREM GatewayInvariant == Spec => []IndInv
<1>1. Init => IndInv
  <2> SUFFICES ASSUME Init PROVE IndInv
    OBVIOUS
  <2>1. OpenSessions = {} /\ Opening = {}
    BY Blank DEF Init, OpenSessions, Opening
  <2>2. Room({}, {})
    <3>1. IsFiniteSet({}) /\ Cardinality({}) = 0 /\ Cardinality(Request) \in Nat /\ MaxSessions \in Nat \ {0}
      BY FS_EmptySet, FS_CardinalityType, HttpGatewayAssumption
    <3>2. QED
      BY <3>1 DEF Room
  <2>3. QED
    BY <2>1, <2>2, Blank DEF Init, IndInv, Memory, ServedOK, NobodySpeaksForAnother
<1>2. IndInv /\ [Next]_vars => IndInv'
  BY ArriveStep, BodyReadStep, BodyFailsStep, ProcessStep DEF Next
<1>3. QED
  BY <1>1, <1>2, PTL DEF Spec

\* Whatever happens to the token file, the sessions and the process between a
\* request's authentication and its body, a call is recorded under somebody the
\* presented token has stood for.
THEOREM CallersAreThemselves == Spec => []NobodySpeaksForAnother
<1>1. IndInv => NobodySpeaksForAnother
  BY DEF IndInv, Memory, ServedOK
<1>2. QED
  BY <1>1, GatewayInvariant, PTL

\* The session cap is overrun by less than the requests that can be under way.
THEOREM CapOverrunIsBounded == Spec => []OverrunBounded
<1>1. IndInv => OverrunBounded
  <2> SUFFICES ASSUME Room(OpenSessions, Opening) PROVE OverrunBounded
    BY DEF IndInv
  <2>1. IsFiniteSet(Opening) /\ IsFiniteSet(OpenSessions) /\ IsFiniteSet(Request)
    BY HttpGatewayAssumption, FS_Subset DEF Room
  <2>2. /\ Cardinality(Opening) \in Nat /\ Cardinality(OpenSessions) \in Nat
        /\ Cardinality(Request) \in Nat /\ MaxSessions \in Nat
    BY <2>1, FS_CardinalityType, HttpGatewayAssumption
  <2>3. QED
    BY <2>2 DEF Room, OverrunBounded
<1>2. QED
  BY <1>1, GatewayInvariant, PTL

LEMMA LimitsAlways == Spec => []Limits
BY LimitsInit, LimitsNext, PTL DEF Spec

\* The process's memory has the shape the code gives it.
THEOREM TypeCorrect == Spec => []TypeOK
<1>1. IndInv /\ Limits => TypeOK
  <2> SUFFICES ASSUME IndInv, Limits PROVE TypeOK
    OBVIOUS
  <2>1. session \in [Session -> [state : {"new", "open", "gone"}, owner : Token,
                                 actor : Person \cup {Consumer}, age : 0..(IdleAfter + 1)]]
    BY DEF IndInv, Memory, SessionOK, SessionType, Actor
  <2>2. request \in [Request -> [pc : {"idle", "body"}, cred : Token, client : Client,
                                 sid : Session \cup {NoSession}, method : {"POST", "GET", "DELETE"},
                                 actor : Person \cup {Consumer}]]
    BY DEF IndInv, Memory, RequestOK, RequestType, Actor
  <2>3. \A c \in Client : hits[c] \in SUBSET Hit /\ accepted[c] \in SUBSET Hit
    BY DEF Limits, Budget, Recent
  <2>4. /\ hits \in [Client -> SUBSET [slot : Nat, age : 0..Window]]
        /\ accepted \in [Client -> SUBSET [slot : Nat, age : 0..Window]]
    BY <2>3 DEF Limits, Hit
  <2>5. served \subseteq Token \X (Person \cup {Consumer})
    BY DEF IndInv, Memory, ServedOK, Actor
  <2>6. QED
    BY <2>1, <2>2, <2>4, <2>5 DEF IndInv, Memory, Limits, TypeOK
<1>2. QED
  BY <1>1, GatewayInvariant, LimitsAlways, PTL

\* However its sweep falls between the requests, the limiter lets no more of a
\* client's requests through within a window than its budget, for any budget.
THEOREM BudgetIsKept == Spec => []RateKept
<1>1. Limits => RateKept
  BY DEF Limits, Budget, RateKept
<1>2. QED
  BY <1>1, LimitsAlways, PTL
=============================================================================
