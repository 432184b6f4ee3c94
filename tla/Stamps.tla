------------------------------- MODULE Stamps -------------------------------
(***************************************************************************)
(* OpenTimestamps proofs and the sidecar of a document that is stamped     *)
(* again whenever it is revised: bin/conarium-stamp.mjs,                   *)
(* bin/conarium-anchor-upgrade.mjs, and under them src/ots/client.ts,      *)
(* src/ots/format.ts and src/ots/calendar.ts.  Runs of the two programs    *)
(* are processes: they read the document or the sidecar before they ask    *)
(* the calendars and write to the sidecar afterwards.                      *)
(*                                                                         *)
(* A message is the sequence of what it was made from: a revision, then    *)
(* the operations applied to it.  So an attestation's message is the path  *)
(* to it, and a timestamp's tree is the set of its attestations, each      *)
(* [msg, kind, at]: what is at one message is at one node.  Calendars are  *)
(* honest: what they say of a block is so.  They may be out of reach, and  *)
(* may know only a part.                                                   *)
(***************************************************************************)
EXTENDS Naturals, FiniteSets, SequencesExt

CONSTANTS
  Calendars,     \* numbers, in the order in which they are asked
  Stampers,      \* runs of conarium-stamp that may be under way at once
  MaxRevisions,  \* bounds on revisions of the document,
  MaxBegun,      \* on runs of conarium-stamp,
  MaxUpgrades,   \* on runs of conarium-anchor-upgrade,
  MaxHeight      \* and on blocks

Unknown == 0   \* the address of no calendar; no block

ASSUME StampsAssumption == Calendars \subseteq Nat \ {Unknown}

VARIABLES
  revisions,  \* the height at which each revision was first written
  height,     \* of Bitcoin's chain
  received,   \* the messages a calendar has: <<calendar, message>>
  roots,      \* what is in a block: <<message, height>>
  sidecar,    \* rows [seq, hash, ots, state, block], hash a revision
  stamping,   \* the runs of conarium-stamp: [pc, hash, nonce, ots, seq]
  upgrading,  \* the run of conarium-anchor-upgrade: [pc, left, out, changed, runs]
  begun,      \* runs of conarium-stamp so far
  told,       \* the revisions whose stamping ended with exit code 0
  overlap     \* whether a run began while another was under way

stampsVars == <<revisions, height, received, roots, sidecar, stamping, upgrading, begun, told, overlap>>

\* A timestamp: the digest it starts from, and its attestations.
Timestamp(hash, atts) == [msg |-> <<hash>>, atts |-> atts]

Resting == [pc |-> "idle", hash |-> 1, nonce |-> 0, ots |-> Timestamp(1, {}), seq |-> 1]
NotUpgrading(runs) == [pc |-> "idle", left |-> <<>>, out |-> <<>>, changed |-> FALSE, runs |-> runs]

StampsInit ==
  /\ revisions = <<0>> /\ height = 0 /\ received = {} /\ roots = {}
  /\ sidecar = <<>> /\ stamping = [p \in Stampers |-> Resting] /\ upgrading = NotUpgrading(0)
  /\ begun = 0 /\ told = <<>> /\ overlap = FALSE
-----------------------------------------------------------------------------
(* Timestamps.                                                             *)

Pending(msg, calendar) == [msg |-> msg, kind |-> "pending", at |-> calendar]
Bitcoin(msg, block) == [msg |-> msg, kind |-> "bitcoin", at |-> block]

\* stampSkeleton: the nonce is all that is put behind the digest.
Tip(hash, nonce) == <<hash, <<"nonce", nonce>>>>
SubmittedTo(msg) == msg[3][2]

\* mergeTimestamp: equal operations become one branch.
MergeTimestamp(into, atts) == [into EXCEPT !.atts = @ \cup atts]

\* collectAttestations, and the first of them that names a block: branches stand
\* in the order in which the calendars were asked.
Confirmations(ots) == {a \in ots.atts : a.kind = "bitcoin"}
FirstConfirmation(ots) ==
  CHOOSE a \in Confirmations(ots) :
    \A b \in Confirmations(ots) : SubmittedTo(a.msg) <= SubmittedTo(b.msg)

\* nodesWithAttestations does not look below an attestation, and a node is passed
\* over when a block is at or below it.
Asked(ots) ==
  {a \in ots.atts : /\ a.kind = "pending" /\ a.at \in Calendars
                    /\ ~\E b \in ots.atts : IsStrictPrefix(b.msg, a.msg)
                    /\ ~\E b \in Confirmations(ots) : IsPrefix(a.msg, b.msg)}
-----------------------------------------------------------------------------
(* The calendars and the chain.                                            *)

Relayed(msg, calendar) == Append(msg, <<"relay", calendar>>)
InBlock(msg, calendar, b) == Append(Relayed(msg, calendar), <<"block", b>>)

\* submitDigest: the calendar has the message and will see to it.
Submitted(msg, calendar) == Append(msg, <<"submit", calendar>>)

\* fetchUpgraded: nothing, how far the message went, or its way to a block.
Fetched(msg, calendar, reach) ==
  CASE reach = "relay" -> {Pending(Relayed(msg, calendar), Unknown)}
    [] reach = "all" -> {Bitcoin(InBlock(msg, calendar, b), b) :
                           b \in {h \in 1 .. height : <<InBlock(msg, calendar, h), h>> \in roots}}
    [] OTHER -> {}

\* A block takes in what some calendars have gathered.
Mine(calendars) ==
  LET due == {r \in received : r[1] \in calendars /\ \A b \in 1 .. height : <<InBlock(r[2], r[1], b), b>> \notin roots}
  IN  /\ height < MaxHeight /\ height' = height + 1
      /\ roots' = roots \cup {<<InBlock(r[2], r[1], height + 1), height + 1>> : r \in due}
      /\ UNCHANGED <<revisions, received, sidecar, stamping, upgrading, begun, told, overlap>>

Revise ==
  /\ Len(revisions) < MaxRevisions /\ revisions' = Append(revisions, height)
  /\ UNCHANGED <<height, received, roots, sidecar, stamping, upgrading, begun, told, overlap>>
-----------------------------------------------------------------------------
(* conarium-stamp.                                                         *)

Busy == upgrading.pc # "idle" \/ \E p \in Stampers : stamping[p].pc # "idle"

\* The document is read.
StampStart(p) ==
  /\ stamping[p].pc = "idle" /\ begun < MaxBegun
  /\ stamping' = [stamping EXCEPT ![p] = [Resting EXCEPT !.pc = "asking", !.hash = Len(revisions), !.nonce = begun + 1]]
  /\ begun' = begun + 1 /\ overlap' = (overlap \/ Busy)
  /\ UNCHANGED <<revisions, height, received, roots, sidecar, upgrading, told>>

MinCalendars == Min({2, Cardinality(Calendars)})

\* stampHash: a nonce, the calendars it reached, and those whose answers came in
\* time.  Too few, and the program ends with exit code 50.
StampAnswered(p, reached, answered) ==
  LET tip == Tip(stamping[p].hash, stamping[p].nonce)
      ots == MergeTimestamp(Timestamp(stamping[p].hash, {}), {Pending(Submitted(tip, c), c) : c \in answered})
  IN  /\ stamping[p].pc = "asking"
      /\ received' = received \cup {<<c, Submitted(tip, c)>> : c \in reached}
      /\ stamping' = [stamping EXCEPT ![p] =
                        IF Cardinality(answered) < MinCalendars THEN Resting ELSE [@ EXCEPT !.pc = "stamped", !.ots = ots]]
      /\ UNCHANGED <<revisions, height, roots, sidecar, upgrading, begun, told, overlap>>

\* The rows of the sidecar are counted.
StampCount(p) ==
  /\ stamping[p].pc = "stamped"
  /\ stamping' = [stamping EXCEPT ![p].pc = "counted", ![p].seq = Len(sidecar) + 1]
  /\ UNCHANGED <<revisions, height, received, roots, sidecar, upgrading, begun, told, overlap>>

StampAppend(p) ==
  /\ stamping[p].pc = "counted"
  /\ sidecar' = Append(sidecar, [seq |-> stamping[p].seq, hash |-> stamping[p].hash, ots |-> stamping[p].ots,
                                 state |-> "pending", block |-> Unknown])
  /\ told' = Append(told, stamping[p].hash)
  /\ stamping' = [stamping EXCEPT ![p] = Resting]
  /\ UNCHANGED <<revisions, height, received, roots, upgrading, begun, overlap>>
-----------------------------------------------------------------------------
(* conarium-anchor-upgrade.                                                *)

\* loadRows.
UpgradeStart ==
  /\ upgrading.pc = "idle" /\ upgrading.runs < MaxUpgrades /\ sidecar # <<>>
  /\ upgrading' = [NotUpgrading(upgrading.runs + 1) EXCEPT !.pc = "asking", !.left = sidecar]
  /\ overlap' = (overlap \/ Busy)
  /\ UNCHANGED <<revisions, height, received, roots, sidecar, stamping, begun, told>>

\* What the calendars of a row that has no block yet know by now.
News(row, reach) ==
  IF row.state # "pending" THEN {} ELSE UNION {Fetched(a.msg, a.at, reach[a.at]) : a \in Asked(row.ots)}

\* Mutant: whatever a calendar had to add confirms the proof, as in the anchor
\* service's own upgrade (src/anchor-service.ts:586).
State_Changed(ots) == "bitcoin"

State(ots) == IF Confirmations(ots) = {} THEN "pending" ELSE "bitcoin"

\* upgradeProof, of one row.
Upgraded(row, reach) ==
  LET ots == MergeTimestamp(row.ots, News(row, reach))
  IN  IF News(row, reach) = {} THEN row
      ELSE [row EXCEPT !.ots = ots, !.state = State(ots),
                       !.block = IF Confirmations(ots) = {} THEN Unknown ELSE FirstConfirmation(ots).at]

UpgradeRow(reach) ==
  /\ upgrading.pc = "asking" /\ upgrading.left # <<>>
  /\ LET row == Head(upgrading.left)
     IN  upgrading' = [upgrading EXCEPT !.left = Tail(@), !.out = Append(@, Upgraded(row, reach)),
                                        !.changed = @ \/ News(row, reach) # {}]
  /\ UNCHANGED <<revisions, height, received, roots, sidecar, stamping, begun, told, overlap>>

\* Mutant: the rows that changed are written.
Rewritten_Changed == SelectSeq(upgrading.out, LAMBDA row : row \notin ToSet(sidecar))

Rewritten == upgrading.out

\* The sidecar is rewritten, if there was anything new.
UpgradeWrite ==
  /\ upgrading.pc = "asking" /\ upgrading.left = <<>>
  /\ sidecar' = IF upgrading.changed THEN Rewritten ELSE sidecar
  /\ upgrading' = NotUpgrading(upgrading.runs)
  /\ UNCHANGED <<revisions, height, received, roots, stamping, begun, told, overlap>>
-----------------------------------------------------------------------------
StampsNext ==
  \/ Revise
  \/ \E calendars \in SUBSET Calendars : Mine(calendars)
  \/ \E p \in Stampers : \/ StampStart(p) \/ StampCount(p) \/ StampAppend(p)
                         \/ \E reached \in SUBSET Calendars : \E answered \in SUBSET reached : StampAnswered(p, reached, answered)
  \/ UpgradeStart \/ UpgradeWrite
  \/ \E reach \in [Calendars -> {"none", "relay", "all"}] : UpgradeRow(reach)

StampsSpec == StampsInit /\ [][StampsNext]_stampsVars
-----------------------------------------------------------------------------
(* Properties.                                                             *)

\* verifyProof, with the chain at hand.
Verified(ots, hash) ==
  LET first == FirstConfirmation(ots)
  IN  CASE ots.msg # <<hash>> -> "mismatch"
        [] ots.msg = <<hash>> /\ Confirmations(ots) = {} -> "pending"
        [] OTHER -> IF <<first.msg, first.at>> \in roots THEN "confirmed" ELSE "not in the block"

\* However runs overlap, a row says what its proof shows: the revision it names
\* was there before the block it names, or nothing is confirmed yet (the comment
\* and the records of conarium-stamp and conarium-anchor-upgrade).
StampsAreTrue ==
  \A row \in ToSet(sidecar) :
    \/ row.state = "pending" /\ Verified(row.ots, row.hash) = "pending"
    \/ /\ row.state = "bitcoin" /\ Verified(row.ots, row.hash) = "confirmed"
       /\ row.block = FirstConfirmation(row.ots).at /\ revisions[row.hash] < row.block

\* Unless runs overlapped, the sidecar has a row for each stamp a run reported,
\* numbered and in the order of the revisions ("two rows both claiming seq 1 would
\* misreport the order of revisions", bin/conarium-stamp.mjs).
RevisionsInOrder ==
  overlap \/ /\ [i \in DOMAIN sidecar |-> sidecar[i].hash] = told
             /\ \A i \in DOMAIN sidecar : sidecar[i].seq = i
             /\ \A i, j \in DOMAIN told : i < j => told[i] <= told[j]
=============================================================================
