----------------------------- MODULE AnchorLog ------------------------------
(***************************************************************************)
(* The countersign log of src/anchor-service.ts: POST /anchor appends a    *)
(* submit row, a maintenance pass (runStamp, then runUpgrade) appends      *)
(* stamp rows for the head of the log and upgrade rows for its stamps, and *)
(* every GET serves the log only when validateAnchorLog accepts it.        *)
(*                                                                         *)
(* One Node process: a handler runs undisturbed up to an `await`.  The two *)
(* awaits that matter are the calendar calls of runStamp and runUpgrade.   *)
(* A pass keeps the rows it read before them and appends from those rows   *)
(* after them, while submissions, other passes (the timer's, and one per   *)
(* POST /upgrade) and a restart of the process come in between.            *)
(*                                                                         *)
(* A row's entry hash covers its random id, so no two rows have the same:  *)
(* here a row's hash is its position in the file.  Authentication, the     *)
(* rate limit and the hash's syntax only turn requests away without a      *)
(* trace in this state, as no request at all would.                        *)
(***************************************************************************)
EXTENDS Naturals, Sequences

CONSTANTS
  Owner,     \* who the bearer tokens stand for
  Digest,    \* what they submit
  Timer,     \* maintenance passes of bin/conarium-anchor-service.mjs
  Request,   \* POST /upgrade requests
  Conarium,  \* the owner of stamp rows
  MaxRows    \* bound on the rows of the log

ASSUME AnchorLogAssumption ==
  /\ Conarium \notin Owner
  /\ Digest \cap Nat = {}
  /\ Timer \cap Request = {}
  /\ MaxRows \in Nat

VARIABLES
  log,       \* the JSONL store
  pass,      \* each maintenance pass: where it is, the rows it has in memory
  accepted,  \* the countersigned records handed out by POST /anchor
  heads      \* the heads of the log handed out with any answer

vars == <<log, pass, accepted, heads>>

Genesis == 0

\* digest: what was submitted or, of a stamp, the entry hash that was stamped.
\* ref: stampedSeq of a stamp, upgradesSeq of an upgrade (the row whose state
\* is "bitcoin").
Row == [type: {"submit", "stamp", "upgrade"}, owner: Owner \cup {Conarium},
        digest: Digest \cup Nat, ref: Nat, seq: Nat, prev: Nat, hash: Nat]
Link == [seq: Nat, prev: Nat, hash: Nat]

Pass == Timer \cup Request
Ended == [pc |-> "ended", rows |-> <<>>, at |-> 0]

Init ==
  /\ log = <<>>
  /\ pass = [p \in Pass |-> Ended]
  /\ accepted = {}
  /\ heads = {}
-----------------------------------------------------------------------------
(* Reading and extending a log.                                            *)

\* validateAnchorLog.
Valid(rows) ==
  \A k \in 1..Len(rows) :
    /\ rows[k].seq = k
    /\ rows[k].prev = IF k = 1 THEN Genesis ELSE rows[k-1].hash

\* Mutant: a handler reads the store without validating it.
Servable_Unchecked == TRUE

\* readLiveStore; otherwise the answer is 503 "anchor log corrupt".
Servable == Valid(log)

HeadOf(rows) == rows[Len(rows)]

NextLink(rows) == IF rows = <<>> THEN [seq |-> 1, prev |-> Genesis]
                  ELSE [seq |-> HeadOf(rows).seq + 1, prev |-> HeadOf(rows).hash]

\* sealRecord of a row that follows the given rows.
Sealed(rows, type, owner, digest, ref) ==
  [type |-> type, owner |-> owner, digest |-> digest, ref |-> ref,
   seq |-> NextLink(rows).seq, prev |-> NextLink(rows).prev, hash |-> Len(log) + 1]

\* Mutant: the head is answered without its entry hash.
LinkOf_NoHash(r) == [seq |-> r.seq, prev |-> r.prev]

LinkOf(r) == [seq |-> r.seq, prev |-> r.prev, hash |-> r.hash]

\* Mutant: the path starts behind the record.
InclusionPath_OffByOne(rows, r) == [k \in 1..(Len(rows) - r.seq) |-> LinkOf(rows[k + r.seq])]

\* buildInclusionProof: the links from the record to the head.
InclusionPath(rows, r) == [k \in 1..(Len(rows) - r.seq + 1) |-> LinkOf(rows[k + r.seq - 1])]

\* verifyInclusionProof, which a third party runs on the record it was given.
Included(r, path, head) ==
  /\ path # <<>>
  /\ path[1].hash = r.hash /\ path[1].seq = r.seq
  /\ \A k \in 1..Len(path) : path[k].prev = IF k = 1 THEN r.prev ELSE path[k-1].hash
  /\ path[Len(path)].hash = head.hash /\ path[Len(path)].seq = head.seq
-----------------------------------------------------------------------------
(* POST /anchor, and the handlers that read.                               *)

\* Mutant: only the newest row is looked at.
Submitted_NewestOnly(o, d) ==
  log # <<>> /\ HeadOf(log).type = "submit" /\ HeadOf(log).digest = d /\ HeadOf(log).owner = o

\* "Same content, same owner, same answer."
Submitted(o, d) ==
  \E k \in 1..Len(log) : log[k].type = "submit" /\ log[k].digest = d /\ log[k].owner = o

Submit(o, d) ==
  LET record == Sealed(log, "submit", o, d, 0)
  IN  /\ Servable
      /\ ~Submitted(o, d)
      /\ Len(log) < MaxRows
      /\ log' = Append(log, record)
      /\ accepted' = accepted \cup {record}
      /\ heads' = heads \cup {LinkOf(record)}
      /\ UNCHANGED pass

\* GET /anchor/:id, /anchor/log/head, a deduplicated POST: an answer with the
\* head in it.
Read ==
  /\ Servable
  /\ log # <<>>
  /\ heads' = heads \cup {LinkOf(HeadOf(log))}
  /\ UNCHANGED <<log, pass, accepted>>
-----------------------------------------------------------------------------
(* Maintenance.                                                            *)

Stamps(rows) == {k \in 1..Len(rows) : rows[k].type = "stamp"}
Upgraded(rows, s) == \E k \in 1..Len(rows) : rows[k].type = "upgrade" /\ rows[k].ref = s

\* Mutants: a stamp that is confirmed is asked for again; a failed one is
\* asked for again at once.
Due_Again(rows, from) == {k \in Stamps(rows) : k > from}
Due_NoProgress(rows, from) == {k \in Stamps(rows) : k >= from /\ ~Upgraded(rows, rows[k].seq)}

\* The rows after `from` that runUpgrade's loop still has to ask a calendar for.
Due(rows, from) == {k \in Stamps(rows) : k > from /\ ~Upgraded(rows, rows[k].seq)}

\* The loop, as far as its next await or its end.
Upgrading(rows, from) ==
  IF Due(rows, from) = {} THEN Ended
  ELSE [pc |-> "upgrading", rows |-> rows,
        at |-> CHOOSE k \in Due(rows, from) : \A j \in Due(rows, from) : k <= j]

\* runUpgrade from its first line: it reads the store and throws on a corrupt one.
UpgradeFrom(rows) == IF Valid(rows) THEN Upgrading(rows, 0) ELSE Ended

\* The head of these rows wants a stamp.
StampDue(rows) ==
  /\ rows # <<>>
  /\ HeadOf(rows).type # "stamp"
  /\ \A k \in Stamps(rows) : rows[k].ref # HeadOf(rows).seq

\* The timer's tick: runStamp, which throws on a corrupt store, then runUpgrade.
Tick(p) ==
  /\ pass[p].pc = "ended"
  /\ Servable
  /\ pass' = [pass EXCEPT ![p] = IF StampDue(log)
                                   THEN [pc |-> "stamping", rows |-> log, at |-> 0]
                                   ELSE UpgradeFrom(log)]
  /\ UNCHANGED <<log, accepted, heads>>

\* POST /upgrade.
Upgrade(p) ==
  /\ pass[p].pc = "ended"
  /\ pass' = [pass EXCEPT ![p] = UpgradeFrom(log)]
  /\ UNCHANGED <<log, accepted, heads>>

\* Mutant: the digest is of the head as it is after the await.
StampRow_LateHead(rows) == Sealed(rows, "stamp", Conarium, HeadOf(log).hash, HeadOf(rows).seq)

StampRow(rows) == Sealed(rows, "stamp", Conarium, HeadOf(rows).hash, HeadOf(rows).seq)

\* The calendars answered runStamp, or failed it.  The tick goes on to
\* runUpgrade, whatever runStamp did.
StampAnswered(p) ==
  /\ pass[p].pc = "stamping"
  /\ log' \in {log} \cup IF Len(log) < MaxRows THEN {Append(log, StampRow(pass[p].rows))} ELSE {}
  /\ pass' = [pass EXCEPT ![p] = UpgradeFrom(log')]
  /\ UNCHANGED <<accepted, heads>>

UpgradeRow(rows, k) == Sealed(rows, "upgrade", rows[k].owner, rows[k].digest, rows[k].seq)

\* A calendar answered runUpgrade: it has nothing new, it threw, or its proof
\* is merged and the row is appended to the store and to the rows in memory.
UpgradeAnswered(p) ==
  LET rows == pass[p].rows
      at == pass[p].at
  IN  /\ pass[p].pc = "upgrading"
      /\ \/ /\ pass' = [pass EXCEPT ![p] = Upgrading(rows, at)]
            /\ UNCHANGED log
         \/ /\ Len(log) < MaxRows
            /\ log' = Append(log, UpgradeRow(rows, at))
            /\ pass' = [pass EXCEPT ![p] = Upgrading(Append(rows, UpgradeRow(rows, at)), at)]
      /\ UNCHANGED <<accepted, heads>>

\* The process ends, whatever it is waiting for, and is started again.
Restart ==
  /\ pass' = [p \in Pass |-> Ended]
  /\ UNCHANGED <<log, accepted, heads>>

Answered(p) == StampAnswered(p) \/ UpgradeAnswered(p)

Next ==
  \/ \E o \in Owner, d \in Digest : Submit(o, d)
  \/ Read
  \/ \E p \in Timer : Tick(p)
  \/ \E p \in Request : Upgrade(p)
  \/ \E p \in Pass : Answered(p)
  \/ Restart

Spec == Init /\ [][Next]_vars

\* A calendar call is answered or times out (OTS_TIMEOUT_MS, timeoutMs).
FairSpec == Spec /\ \A p \in Pass : WF_vars(Answered(p))
-----------------------------------------------------------------------------
(* Properties.                                                             *)

PassState == [pc: {"ended", "stamping", "upgrading"}, rows: Seq(Row), at: Nat]

\* Every variable has the shape the code gives its counterpart.
TypeOK ==
  /\ log \in Seq(Row)
  /\ pass \in [Pass -> PassState]
  /\ accepted \subseteq Row
  /\ heads \subseteq Link

At(l) == l.seq \in 1..Len(log) /\ LinkOf(log[l.seq]) = l

\* What the service has told anyone stays true: a countersigned record and a
\* head once served are in the log at the place they name, for good, also when
\* the log is corrupted later ("this log cannot be quietly rearranged").
PublishedStays ==
  /\ \A a \in accepted : At(LinkOf(a))
  /\ \A h \in heads : At(h)

\* Whoever kept a countersigned record can verify its inclusion in the log as
\* long as the service serves it (buildInclusionProof, verifyInclusionProof).
InclusionVerifies ==
  Servable => \A a \in accepted : Included(a, InclusionPath(log, a), HeadOf(log))

\* One fact has one id: an owner's digest is submitted once (POST /anchor).
SubmittedOnce ==
  \A j, k \in 1..Len(log) :
    /\ log[j].type = "submit" /\ log[k].type = "submit"
    /\ log[j].digest = log[k].digest /\ log[j].owner = log[k].owner
    => j = k

\* A stamp is of the entry at the place it names, and an upgrade is of a stamp
\* and has its digest, whatever was appended while the calendars were asked.
ProofsPointBack ==
  \A k \in 1..Len(log) :
    LET r == log[k]
    IN  /\ r.type = "stamp" => /\ r.ref \in 1..(k - 1)
                               /\ log[r.ref].hash = r.digest
        /\ r.type = "upgrade" => /\ r.ref \in 1..(k - 1)
                                 /\ log[r.ref].type = "stamp"
                                 /\ log[r.ref].digest = r.digest

\* In a log the service serves a stamp is confirmed once (alreadyUpgraded).
ServedConfirmedOnce ==
  Servable => \A j, k \in 1..Len(log) :
    log[j].type = "upgrade" /\ log[k].type = "upgrade" /\ log[j].ref = log[k].ref => j = k

\* A pass ends, though it appends to the rows it is iterating over (runUpgrade).
PassesEnd == \A p \in Pass : pass[p].pc # "ended" ~> pass[p].pc = "ended"

\* "Stamp is off the request path (C5). A slow calendar must not lock accept":
\* a log the service wrote is one it goes on accepting submissions to.
StaysServable == Servable
=============================================================================
