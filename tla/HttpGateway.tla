---------------------------- MODULE HttpGateway -----------------------------
(***************************************************************************)
(* The HTTP entrypoint of src/http.ts: bearer tokens resolved against a    *)
(* token file that is reloaded when it changes, a sliding-window rate      *)
(* limiter, and MCP sessions bound to the token that opened them.          *)
(*                                                                         *)
(* One Node process: a handler runs undisturbed up to its `await           *)
(* readBody`, and what it established before it (who is asking, that there *)
(* is room for a session) may have changed after it.  Only the token file  *)
(* can change under a running handler: it is read twice, once for its      *)
(* fingerprint and once for its content.                                   *)
(*                                                                         *)
(* There is no clock: every recorded time is kept as its age, which Tick   *)
(* advances up to the age that makes no more difference.  The limiter only *)
(* counts the times it holds: they are a set, told apart by their slots.   *)
(***************************************************************************)
EXTENDS Naturals, FiniteSets

CONSTANTS
  Token,        \* what clients present
  Shared,       \* CONARIUM_MCP_TOKEN
  Person,
  Consumer,     \* whom the shared token stands for (config.consumer)
  Nobody,
  Contents,     \* token files that parse: which token is whose
  Missing, Broken,  \* no token file; one that does not parse
  NoPrint,      \* no fingerprint taken
  Client,       \* network addresses, as clientKey sees them
  Session, NoSession,  \* session ids, each used once
  Request,      \* requests that can be under way at the same time
  PerWindow, Window,   \* the limiter's budget and the age that frees it
  IdleAfter,    \* CONARIUM_SESSION_IDLE_MS
  MaxSessions   \* CONARIUM_MAX_SESSIONS

ASSUME HttpGatewayAssumption ==
  /\ Shared \in Token
  /\ Consumer \notin Person /\ Nobody \notin Person \cup {Consumer}
  /\ Contents \subseteq [Token -> Person \cup {Nobody}]
  /\ {Missing, Broken} \cap Contents = {} /\ Missing # Broken
  /\ NoPrint \notin Contents \cup {Missing, Broken}
  /\ NoSession \notin Session
  /\ Client # {} /\ IsFiniteSet(Request)
  /\ {PerWindow, Window, IdleAfter, MaxSessions} \subseteq Nat \ {0}

VARIABLES
  proc,      \* the process: "down" or "up"
  file,      \* conarium.tokens.json
  store,     \* TOKEN_STORE_REF.store; Missing stands for null
  print,     \* TOKEN_STORE_REF.fingerprint: what was hashed
  session,   \* the sessions; those that are "open" are in the transports map
  request,   \* the requests under way
  hits,      \* RateLimiter.hits: per client its requests, [slot, age]
  accepted,  \* what this process let through within a window, sweep or no sweep
  served     \* the calls handled: the token presented, the actor recorded

vars == <<proc, file, store, print, session, request, hits, accepted, served>>

Unopened == [state |-> "new", owner |-> Shared, actor |-> Consumer, age |-> 0]
NoRequest == [pc |-> "idle", cred |-> Shared, client |-> CHOOSE c \in Client : TRUE,
              sid |-> NoSession, method |-> "POST", actor |-> Consumer]

\* What the token file can become.
Edits == Contents \cup {Missing, Broken}

Init ==
  /\ proc = "down"
  /\ file \in Contents \cup {Missing}
  /\ store = Missing
  /\ print = NoPrint
  /\ session = [s \in Session |-> Unopened]
  /\ request = [r \in Request |-> NoRequest]
  /\ hits = [c \in Client |-> {}]
  /\ accepted = [c \in Client |-> {}]
  /\ served = {}
-----------------------------------------------------------------------------
(* Tokens.                                                                 *)

\* Mutant: who is not in the store is nobody, not the configured consumer.
Resolve_NoFallback(t, st) == IF st = Missing THEN Nobody ELSE st[t]

\* resolveActor.
IsUser(t, st) == IF st = Missing THEN FALSE ELSE st[t] # Nobody
Resolve(t, st) == IF IsUser(t, st) THEN st[t] ELSE Consumer
Authorized(t, st) == IsUser(t, st) \/ t = Shared
-----------------------------------------------------------------------------
(* The rate limiter.                                                       *)

Recent(c) == {h \in hits[c] : h.age < Window}
Exhausted(c) == Cardinality(Recent(c)) >= PerWindow

\* A slot that no request in H has: there is one among so many.
FreeSlot(H) == CHOOSE n \in 0..Cardinality(H) : \A h \in H : h.slot # n

Take(c) ==
  LET h == [slot |-> FreeSlot(Recent(c) \cup accepted[c]), age |-> 0]
  IN  /\ hits' = [hits EXCEPT ![c] = Recent(c) \cup {h}]
      /\ accepted' = [accepted EXCEPT ![c] = @ \cup {h}]

\* Mutant: the sweep forgets every client.
Swept_All(c) == TRUE

\* RateLimiter.sweep drops a client none of whose requests is recent.
Swept(c) == Recent(c) = {}
LimiterSweep ==
  /\ proc = "up"
  /\ hits' = [c \in Client |-> IF Swept(c) THEN {} ELSE hits[c]]
  /\ UNCHANGED <<proc, file, store, print, session, request, accepted, served>>
-----------------------------------------------------------------------------
(* Sessions.                                                               *)

OpenSessions == {s \in Session : session[s].state = "open"}
NewId == CHOOSE s \in Session : session[s].state = "new"
Idle(s) == session[s].age > IdleAfter

\* Mutants: any valid token may speak in a session; there is no cap.
OwnerMatches_Always(s, t) == TRUE
Full_Never == FALSE

OwnerMatches(s, t) == session[s].owner = t
Full == Cardinality(OpenSessions) >= MaxSessions

\* Out of the map for good: its id is never given out again.
Closed(s) == [Unopened EXCEPT !.state = "gone"]

Done(r) == request' = [request EXCEPT ![r] = NoRequest]
AwaitBody(r, q) == request' = [request EXCEPT ![r] = q]
Gone(s) == session' = [session EXCEPT ![s] = Closed(s)]

\* A request to a session there is: 403, 404, or on to its transport, with its
\* body first when it is a POST: it keeps the transport it found here, and with
\* it the actor the session was opened for.  DELETE closes the session.
ToSession(r, q) ==
  \/ /\ ~OwnerMatches(q.sid, q.cred)
     /\ Done(r)
     /\ UNCHANGED session
  \/ /\ OwnerMatches(q.sid, q.cred)
     /\ Idle(q.sid) \/ q.method = "DELETE"
     /\ Gone(q.sid)
     /\ Done(r)
  \/ /\ OwnerMatches(q.sid, q.cred)
     /\ ~Idle(q.sid) /\ q.method # "DELETE"
     /\ session' = [session EXCEPT ![q.sid].age = 0]
     /\ IF q.method = "POST"
          THEN AwaitBody(r, [q EXCEPT !.pc = "body", !.actor = session[q.sid].actor])
          ELSE Done(r)

\* A request without a session: 400, 429, or the body of an initialize.
ToOpen(r, q, st) ==
  /\ IF q.method # "POST" \/ Full
       THEN Done(r)
       ELSE AwaitBody(r, [q EXCEPT !.pc = "body", !.actor = Resolve(q.cred, st)])
  /\ UNCHANGED session

Route(r, q, st) ==
  \/ /\ q.sid \in OpenSessions
     /\ ToSession(r, q)
  \/ /\ q.sid \in Session \ OpenSessions
     /\ Done(r)
     /\ UNCHANGED session
  \/ /\ q.sid = NoSession
     /\ ToOpen(r, q, st)

\* The handler behind currentTokenStore(), up to its await: 401, 429, or on.
Admit(r, q, st) ==
  \/ /\ ~Authorized(q.cred, st)
     /\ Done(r)
     /\ UNCHANGED <<session, hits, accepted>>
  \/ /\ Authorized(q.cred, st)
     /\ Exhausted(q.client)
     /\ hits' = [hits EXCEPT ![q.client] = Recent(q.client)]
     /\ Done(r)
     /\ UNCHANGED <<session, accepted>>
  \/ /\ Authorized(q.cred, st)
     /\ ~Exhausted(q.client)
     /\ Take(q.client)
     /\ Route(r, q, st)

\* currentTokenStore hashes the file and, unless it is missing or the one it
\* knows, reads it again: then it may be another.  A reading that fails leaves
\* the store and the fingerprint as they were.
Reload ==
  \/ /\ file = Missing
     /\ store' = Missing /\ print' = NoPrint /\ file' = file
  \/ /\ file # Missing /\ file = print
     /\ UNCHANGED <<store, print, file>>
  \/ /\ file # Missing /\ file # print
     /\ file' \in Edits
     /\ \/ /\ file' # Broken
           /\ store' = file' /\ print' = file
        \/ /\ file' \in {Missing, Broken}
           /\ UNCHANGED <<store, print>>

\* Requests under way are told apart by what they ask only.
Slot == CHOOSE r \in Request : request[r].pc = "idle"

Arrive(t, c, s, m) ==
  /\ proc = "up"
  /\ \E r \in Request : request[r].pc = "idle"
  /\ Reload
  /\ Admit(Slot, [NoRequest EXCEPT !.cred = t, !.client = c, !.sid = s, !.method = m], store')
  /\ UNCHANGED <<proc, served>>

\* The body is there: a call in a session, or an initialize that opens one.
BodyRead(r) ==
  LET q == request[r]
  IN  /\ q.pc = "body"
      /\ \/ /\ q.sid # NoSession
            /\ served' = served \cup {<<q.cred, q.actor>>}
            /\ UNCHANGED session
         \/ /\ q.sid = NoSession
            /\ \E s \in Session : session[s].state = "new"
            /\ session' = [session EXCEPT ![NewId] =
                 [state |-> "open", owner |-> q.cred, actor |-> q.actor, age |-> 0]]
            /\ UNCHANGED served
      /\ Done(r)
      /\ UNCHANGED <<proc, file, store, print, hits, accepted>>

\* It is too large, not JSON, no initialize, or its connection is gone.
BodyFails(r) ==
  /\ request[r].pc = "body"
  /\ Done(r)
  /\ UNCHANGED <<proc, file, store, print, session, hits, accepted, served>>

\* Mutant: the timer spares a session that a request is under way in.
Expired_Quiet == {s \in OpenSessions : Idle(s) /\ \A r \in Request : request[r].sid # s}

\* The timer of main().
Expired == {s \in OpenSessions : Idle(s)}
IdleSweep ==
  /\ proc = "up"
  /\ Expired # {}
  /\ session' = [s \in Session |->
       IF s \in Expired THEN Closed(s) ELSE session[s]]
  /\ UNCHANGED <<proc, file, store, print, request, hits, accepted, served>>
-----------------------------------------------------------------------------
(* The process, its operator, and time.                                    *)

\* The module's own first lines load the store, then hash the file, which may
\* be another by then.  One that does not parse keeps the process from starting.
Boot ==
  /\ proc = "down"
  /\ file # Broken
  /\ proc' = "up"
  /\ store' = file
  /\ file' \in Edits
  /\ print' = IF file' = Missing THEN NoPrint ELSE file'
  /\ UNCHANGED <<session, request, hits, accepted, served>>

\* SIGINT or a crash: everything in memory is gone.
Stop ==
  /\ proc = "up"
  /\ proc' = "down"
  /\ store' = Missing /\ print' = NoPrint
  /\ session' = [s \in Session |->
       IF session[s].state = "open" THEN [Unopened EXCEPT !.state = "gone"] ELSE session[s]]
  /\ request' = [r \in Request |-> NoRequest]
  /\ hits' = [c \in Client |-> {}] /\ accepted' = [c \in Client |-> {}]
  /\ UNCHANGED <<file, served>>

\* The operator, or a tool of theirs, replaces, breaks or removes the file.
Edit ==
  /\ file' \in Edits
  /\ UNCHANGED <<proc, store, print, session, request, hits, accepted, served>>

Older(age, cap) == IF age < cap THEN age + 1 ELSE cap

Aged(h) == [h EXCEPT !.age = Older(@, Window)]

Tick ==
  /\ hits' = [c \in Client |-> {Aged(h) : h \in hits[c]}]
  /\ accepted' = [c \in Client |-> {Aged(h) : h \in {k \in accepted[c] : k.age + 1 < Window}}]
  /\ session' = [s \in Session |->
       IF session[s].state = "open"
         THEN [session[s] EXCEPT !.age = Older(@, IdleAfter + 1)] ELSE session[s]]
  /\ UNCHANGED <<proc, file, store, print, request, served>>

Next ==
  \/ \E t \in Token, c \in Client, s \in Session \cup {NoSession},
        m \in {"POST", "GET", "DELETE"} : Arrive(t, c, s, m)
  \/ \E r \in Request : BodyRead(r) \/ BodyFails(r)
  \/ IdleSweep \/ LimiterSweep
  \/ Boot \/ Stop
  \/ Edit \/ Tick

Spec == Init /\ [][Next]_vars

\* The timer of main() fires.
FairSpec == Spec /\ WF_vars(IdleSweep)
-----------------------------------------------------------------------------
(* Properties.                                                             *)

\* The process's memory has the shape the code gives it.
TypeOK ==
  /\ proc \in {"down", "up"}
  /\ file \in Contents \cup {Missing, Broken}
  /\ store \in Contents \cup {Missing}
  /\ print \in Contents \cup {Broken, NoPrint}
  /\ session \in [Session -> [state: {"new", "open", "gone"}, owner: Token,
                              actor: Person \cup {Consumer}, age: 0..(IdleAfter + 1)]]
  /\ request \in [Request -> [pc: {"idle", "body"}, cred: Token, client: Client,
                              sid: Session \cup {NoSession}, method: {"POST", "GET", "DELETE"},
                              actor: Person \cup {Consumer}]]
  /\ hits \in [Client -> SUBSET [slot : Nat, age : 0..Window]]
  /\ accepted \in [Client -> SUBSET [slot : Nat, age : 0..Window]]
  /\ served \subseteq Token \X (Person \cup {Consumer})

StoodFor(t) == ({f[t] : f \in Contents} \ {Nobody}) \cup IF t = Shared THEN {Consumer} ELSE {}

\* Every call is recorded under a person the presented token has stood for,
\* whatever happened to the session, the token file and the process since it
\* was authenticated: nobody speaks in a session of somebody else's, and a
\* token that stands for nobody is served nothing (sessionOwnerMatches).
NobodySpeaksForAnother == \A x \in served : x[2] \in StoodFor(x[1])

\* No client gets more than its budget through within any window, however the
\* limiter's sweep falls (RateLimiter.take).
RateKept == \A c \in Client : Cardinality(accepted[c]) <= PerWindow

\* The cap is overrun at most by the initializes whose bodies were awaited when
\* the last place went (transports.size is read before the await).
OverrunBounded == Cardinality(OpenSessions) <= MaxSessions + Cardinality(Request) - 1

\* A session nobody uses is given up, also while a request is under way in it
\* (the idle timer of main).
IdleSessionsGo ==
  \A s \in Session :
    session[s].state = "open" /\ session[s].age > IdleAfter
      ~> session[s].state = "gone" \/ session[s].age = 0

\* "A new initialize at the cap is JSON-RPC rejected": there are never more
\* sessions than CONARIUM_MAX_SESSIONS.
SessionsCapped == Cardinality(OpenSessions) <= MaxSessions

\* "Staleness is decided by the file's CONTENT": when the fingerprint says the
\* token file is the one that was loaded, the store in use is that file's.
StoreIsFiles ==
  proc = "up" /\ file = print /\ file # Broken => store = file
=============================================================================
