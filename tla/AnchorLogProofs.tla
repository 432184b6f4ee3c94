-------------------------- MODULE AnchorLogProofs ---------------------------
(***************************************************************************)
(* Proofs about AnchorLog, for any number of owners, digests, passes and   *)
(* rows, with stale appends, restarts and calendars that answer late or    *)
(* never.                                                                  *)
(***************************************************************************)
EXTENDS AnchorLog, Least, TLAPS

\* The head of a log that is not empty is a row of it.
LEMMA HeadType ==
  ASSUME NEW rows \in Seq(Row), rows # <<>>
  PROVE  /\ Len(rows) \in Nat /\ Len(rows) \in 1..Len(rows)
         /\ HeadOf(rows) \in Row /\ HeadOf(rows) = rows[Len(rows)]
<1>1. Len(rows) \in Nat /\ Len(rows) \in 1..Len(rows)
  OBVIOUS
<1>2. QED
  BY <1>1 DEF HeadOf

\* What sealRecord gives a row is of the type of its fields.
LEMMA LinkType ==
  ASSUME log \in Seq(Row), NEW rows \in Seq(Row)
  PROVE  NextLink(rows).seq \in Nat /\ NextLink(rows).prev \in Nat /\ Len(log) + 1 \in Nat
<1>1. CASE rows = <<>>
  BY <1>1 DEF NextLink, Genesis
<1>2. CASE rows # <<>>
  <2>1. HeadOf(rows).seq \in Nat /\ HeadOf(rows).hash \in Nat
    BY <1>2, HeadType DEF Row
  <2>2. QED
    BY <1>2, <2>1 DEF NextLink
<1>3. QED
  BY <1>1, <1>2

\* The row a pass would wait for next is one of the stamps it has to ask about.
LEMMA UpgradingCases ==
  ASSUME NEW rows \in Seq(Row), NEW from \in Nat
  PROVE  \/ Upgrading(rows, from) = Ended
         \/ \E k \in 1..Len(rows) :
              /\ rows[k].type = "stamp" /\ ~Upgraded(rows, rows[k].seq)
              /\ Upgrading(rows, from) = [pc |-> "upgrading", rows |-> rows, at |-> k]
<1>1. CASE Due(rows, from) = {}
  BY <1>1 DEF Upgrading
<1>2. CASE Due(rows, from) # {}
  <2>1. Due(rows, from) \subseteq Stamps(rows) /\ Due(rows, from) \subseteq Nat
    BY DEF Due, Stamps
  <2>2. \E k \in Due(rows, from) : \A j \in Due(rows, from) : k <= j
    BY <1>2, <2>1, LeastNumber
  <2>3. PICK k \in Due(rows, from) :
          k = CHOOSE n \in Due(rows, from) : \A j \in Due(rows, from) : n <= j
    BY <2>2
  <2>4. Upgrading(rows, from) = [pc |-> "upgrading", rows |-> rows, at |-> k]
    BY <1>2, <2>3 DEF Upgrading
  <2>5. k \in 1..Len(rows) /\ rows[k].type = "stamp" /\ ~Upgraded(rows, rows[k].seq)
    BY <2>1 DEF Due, Stamps
  <2>6. QED
    BY <2>4, <2>5
<1>3. QED
  BY <1>1, <1>2

\* A pass that ended is a pass.
LEMMA EndedType == Ended \in PassState /\ Ended.pc = "ended"
  BY DEF Ended, PassState

\* What runUpgrade's loop leaves a pass in is the state of a pass.
LEMMA UpgradingType ==
  ASSUME NEW rows \in Seq(Row), NEW from \in Nat
  PROVE  Upgrading(rows, from) \in PassState /\ UpgradeFrom(rows) \in PassState
<1>1. \A n \in Nat : Upgrading(rows, n) \in PassState
  BY UpgradingCases, EndedType DEF PassState
<1>2. QED
  BY <1>1, EndedType DEF UpgradeFrom
-----------------------------------------------------------------------------
(* What a pass's rows say of the log.                                      *)

\* A row in a pass's memory that is a row of the log, at the place it names.
Known(r) == r.seq \in 1..Len(log) /\ log[r.seq] = r

\* Whatever was appended since the pass read them, the row a stamp is asked
\* for and the stamps an upgrade is asked for are rows of the log: a pass
\* starts from a valid log, and adds upgrade rows only.
PassOf(p) ==
  /\ pass[p].pc = "stamping" => pass[p].rows # <<>> /\ Known(HeadOf(pass[p].rows))
  /\ pass[p].pc = "upgrading" =>
       /\ pass[p].at \in 1..Len(pass[p].rows)
       /\ pass[p].rows[pass[p].at].type = "stamp"
       /\ \A k \in 1..Len(pass[p].rows) :
            pass[p].rows[k].type = "stamp" => Known(pass[p].rows[k])

\* Hashes are unique: a row's is its place in the file.
HashesInPlace == \A k \in 1..Len(log) : log[k].hash = k

AnchorInv ==
  /\ TypeOK
  /\ HashesInPlace
  /\ \A p \in Pass : PassOf(p)
  /\ PublishedStays
  /\ SubmittedOnce
  /\ ProofsPointBack

\* What an append does to the log.
Extends(row) ==
  /\ Len(log') = Len(log) + 1
  /\ log'[Len(log) + 1] = row
  /\ \A k \in 1..Len(log) : log'[k] = log[k]

\* Append extends the log.
LEMMA ExtendsLog ==
  ASSUME TypeOK, NEW row \in Row, log' = Append(log, row)
  PROVE  Extends(row) /\ Len(log) \in Nat /\ log' \in Seq(Row)
  BY DEF TypeOK, Extends

\* The head of a valid log is where its seq says.
LEMMA ValidHead ==
  ASSUME TypeOK, Valid(log)
  PROVE  /\ \A k \in 1..Len(log) : Known(log[k])
         /\ log # <<>> => Known(HeadOf(log)) /\ HeadOf(log).seq = Len(log)
<1>1. \A k \in 1..Len(log) : log[k].seq = k
  BY DEF Valid
<1>2. \A k \in 1..Len(log) : Known(log[k])
  BY <1>1 DEF Known
<1>3. QED
  BY <1>1, <1>2, HeadType DEF TypeOK

\* What was known of the log is known of a longer one.
LEMMA KnownStays ==
  ASSUME TypeOK, NEW row \in Row, log' = Append(log, row), NEW r \in Row, Known(r)
  PROVE  r.seq \in 1..Len(log') /\ log'[r.seq] = r
<1>1. Extends(row) /\ Len(log) \in Nat
  BY ExtendsLog
<1>2. QED
  BY <1>1 DEF Known, Extends

\* A row of these rows, where the log will be.
KnownNext(r) == r.seq \in 1..Len(log') /\ log'[r.seq] = r

\* A pass that ended relies on no row.
LEMMA PassEnded ==
  ASSUME NEW p \in Pass, pass'[p] = Ended
  PROVE  PassOf(p)'
  BY DEF PassOf, Ended

\* runUpgrade goes on with a stamp that is a row of the log, or ends.
LEMMA PassUpgrading ==
  ASSUME NEW p \in Pass, NEW rows \in Seq(Row), NEW from \in Nat,
         pass'[p] = Upgrading(rows, from),
         \A k \in 1..Len(rows) : rows[k].type = "stamp" => KnownNext(rows[k])
  PROVE  PassOf(p)'
<1>1. CASE Upgrading(rows, from) = Ended
  BY <1>1, PassEnded
<1>2. ASSUME NEW k \in 1..Len(rows), rows[k].type = "stamp",
             Upgrading(rows, from) = [pc |-> "upgrading", rows |-> rows, at |-> k]
      PROVE  PassOf(p)'
  <2>1. /\ pass'[p].pc = "upgrading" /\ pass'[p].rows = rows /\ pass'[p].at = k
    BY <1>2
  <2>2. QED
    BY <1>2, <2>1 DEF PassOf, Known, KnownNext
<1>3. QED
  BY <1>1, <1>2, UpgradingCases

\* runUpgrade started from the store is at a stamp of the log, or over.
LEMMA PassUpgradeFrom ==
  ASSUME NEW p \in Pass, log' \in Seq(Row), pass'[p] = UpgradeFrom(log')
  PROVE  PassOf(p)'
<1>1. PICK rows \in Seq(Row) : rows = log'
  OBVIOUS
<1>2. CASE Valid(rows)
  <2>1. \A k \in 1..Len(rows) : KnownNext(rows[k])
    BY <1>1, <1>2 DEF Valid, KnownNext
  <2>2. pass'[p] = Upgrading(rows, 0)
    BY <1>1, <1>2 DEF UpgradeFrom
  <2>3. QED
    BY <2>1, <2>2, PassUpgrading
<1>3. CASE ~Valid(rows)
  BY <1>1, <1>3, PassEnded DEF UpgradeFrom
<1>4. QED
  BY <1>2, <1>3

\* A pass that a step leaves alone still knows what it knew.
LEMMA PassFrame ==
  ASSUME TypeOK, NEW p \in Pass, PassOf(p), pass'[p] = pass[p],
         log' = log \/ \E row \in Row : log' = Append(log, row)
  PROVE  PassOf(p)'
<1>1. pass[p].rows \in Seq(Row) /\ pass[p] \in PassState
  BY DEF TypeOK, PassState
<1>2. ASSUME NEW r \in Row, Known(r) PROVE KnownNext(r)
  <2>1. CASE log' = log
    BY <1>2, <2>1 DEF Known, KnownNext
  <2>2. ASSUME NEW row \in Row, log' = Append(log, row) PROVE KnownNext(r)
    BY <1>2, <2>2, KnownStays DEF KnownNext
  <2>3. QED
    BY <2>1, <2>2
<1>3. CASE pass[p].pc = "stamping"
  <2>1. pass[p].rows # <<>> /\ Known(HeadOf(pass[p].rows)) /\ HeadOf(pass[p].rows) \in Row
    BY <1>1, <1>3, HeadType DEF PassOf
  <2>2. KnownNext(HeadOf(pass[p].rows))
    BY <1>2, <2>1
  <2>3. QED
    BY <1>3, <2>1, <2>2 DEF PassOf, Known, KnownNext
<1>4. CASE pass[p].pc = "upgrading"
  <2>1. \A k \in 1..Len(pass[p].rows) : pass[p].rows[k] \in Row
    BY <1>1
  <2>2. \A k \in 1..Len(pass[p].rows) :
          pass[p].rows[k].type = "stamp" => KnownNext(pass[p].rows[k])
    BY <1>2, <1>4, <2>1 DEF PassOf
  <2>3. QED
    BY <1>4, <2>2 DEF PassOf, Known, KnownNext
<1>5. CASE pass[p].pc = "ended"
  BY <1>5 DEF PassOf
<1>6. QED
  BY <1>1, <1>3, <1>4, <1>5 DEF PassState
-----------------------------------------------------------------------------
(* Appends.                                                                *)

\* The row points at what it is about.
Points(r) ==
  /\ r.type = "stamp" => r.ref \in 1..Len(log) /\ log[r.ref].hash = r.digest
  /\ r.type = "upgrade" => /\ r.ref \in 1..Len(log) /\ log[r.ref].type = "stamp"
                           /\ log[r.ref].digest = r.digest

\* An append of such a row keeps what holds of the log's own rows.
LEMMA AppendKeeps ==
  ASSUME AnchorInv, NEW row \in Row, log' = Append(log, row), row.hash = Len(log) + 1,
         Points(row), row.type = "submit" => ~Submitted(row.owner, row.digest)
  PROVE  /\ HashesInPlace' /\ SubmittedOnce' /\ ProofsPointBack'
         /\ \A l \in Link : At(l) => l.seq \in 1..Len(log') /\ LinkOf(log'[l.seq]) = l
<1>1. Extends(row) /\ Len(log) \in Nat
  BY ExtendsLog DEF AnchorInv
<1>2. \A k \in 1..Len(log') : k \in 1..Len(log) \/ (k = Len(log) + 1 /\ log'[k] = row)
  BY <1>1 DEF Extends
<1>3. \A k \in 1..Len(log) : log'[k] = log[k] /\ k \in 1..Len(log') /\ k # Len(log) + 1
  BY <1>1 DEF Extends
<1>4. HashesInPlace'
  BY <1>2, <1>3 DEF HashesInPlace, AnchorInv
<1>5. SubmittedOnce'
  <2> SUFFICES ASSUME NEW j \in 1..Len(log'), NEW k \in 1..Len(log'),
                      log'[j].type = "submit", log'[k].type = "submit",
                      log'[j].digest = log'[k].digest, log'[j].owner = log'[k].owner
               PROVE  j = k
    BY DEF SubmittedOnce
  <2>1. CASE j \in 1..Len(log) /\ k \in 1..Len(log)
    BY <1>3, <2>1 DEF AnchorInv, SubmittedOnce
  <2>2. CASE j \notin 1..Len(log) /\ k \in 1..Len(log)
    BY <1>2, <1>3, <2>2 DEF Submitted
  <2>3. CASE j \in 1..Len(log) /\ k \notin 1..Len(log)
    BY <1>2, <1>3, <2>3 DEF Submitted
  <2>4. CASE j \notin 1..Len(log) /\ k \notin 1..Len(log)
    BY <1>2, <2>4
  <2>5. QED
    BY <2>1, <2>2, <2>3, <2>4
<1>6. ProofsPointBack'
  <2>1. ASSUME NEW k \in 1..Len(log')
        PROVE  /\ log'[k].type = "stamp" =>
                    log'[k].ref \in 1..(k - 1) /\ log'[log'[k].ref].hash = log'[k].digest
               /\ log'[k].type = "upgrade" =>
                    /\ log'[k].ref \in 1..(k - 1)
                    /\ log'[log'[k].ref].type = "stamp"
                    /\ log'[log'[k].ref].digest = log'[k].digest
    <3>1. CASE k \in 1..Len(log)
      <4>1. /\ log[k].type = "stamp" => log[k].ref \in 1..(k - 1) /\ log[log[k].ref].hash = log[k].digest
            /\ log[k].type = "upgrade" => /\ log[k].ref \in 1..(k - 1)
                                          /\ log[log[k].ref].type = "stamp"
                                          /\ log[log[k].ref].digest = log[k].digest
        BY <3>1 DEF AnchorInv, ProofsPointBack
      <4>2. \A n \in 1..(k - 1) : n \in 1..Len(log)
        BY <1>1, <3>1
      <4>3. QED
        BY <1>3, <3>1, <4>1, <4>2
    <3>2. CASE k = Len(log) + 1 /\ log'[k] = row
      <4>1. k - 1 = Len(log)
        BY <1>1, <3>2
      <4>2. QED
        BY <1>3, <3>2, <4>1 DEF Points
    <3>3. QED
      BY <1>2, <3>1, <3>2
  <2>2. QED
    BY <2>1 DEF ProofsPointBack
<1>7. ASSUME NEW l \in Link, At(l) PROVE l.seq \in 1..Len(log') /\ LinkOf(log'[l.seq]) = l
  BY <1>3, <1>7 DEF At
<1>8. QED
  BY <1>4, <1>5, <1>6, <1>7

\* What was published before stays published.
LEMMA PublishedFrame ==
  ASSUME TypeOK, PublishedStays, UNCHANGED <<accepted, heads>>,
         \A l \in Link : At(l) => l.seq \in 1..Len(log') /\ LinkOf(log'[l.seq]) = l
  PROVE  PublishedStays'
<1>1. \A a \in accepted : LinkOf(a) \in Link
  BY DEF TypeOK, LinkOf, Row, Link
<1>2. \A h \in heads : h \in Link
  BY DEF TypeOK
<1>3. \A a \in accepted : LinkOf(a).seq \in 1..Len(log') /\ LinkOf(log'[LinkOf(a).seq]) = LinkOf(a)
  BY <1>1 DEF PublishedStays
<1>4. \A h \in heads : h.seq \in 1..Len(log') /\ LinkOf(log'[h.seq]) = h
  BY <1>2 DEF PublishedStays
<1>5. QED
  BY <1>3, <1>4 DEF PublishedStays, At

\* A submission extends a valid log, and what it hands out is in it.
LEMMA StepSubmit ==
  ASSUME AnchorInv, NEW o \in Owner, NEW d \in Digest, Submit(o, d)
  PROVE  AnchorInv'
<1>1. log \in Seq(Row) /\ Valid(log) /\ ~Submitted(o, d)
  BY DEF AnchorInv, TypeOK, Submit, Servable
<1>2. PICK r \in Row :
        /\ r = Sealed(log, "submit", o, d, 0)
        /\ r.type = "submit" /\ r.owner = o /\ r.digest = d
        /\ r.hash = Len(log) + 1 /\ r.seq = NextLink(log).seq
  <2>1. /\ "submit" \in {"submit", "stamp", "upgrade"}
        /\ o \in Owner \cup {Conarium} /\ d \in Digest \cup Nat
        /\ 0 \in Nat
    OBVIOUS
  <2>2. PICK r : r = Sealed(log, "submit", o, d, 0)
    OBVIOUS
  <2>3. r \in Row
    BY <1>1, <2>1, <2>2, LinkType DEF Sealed, Row
  <2>4. QED
    BY <2>2, <2>3 DEF Sealed
<1>3. r.seq = Len(log) + 1
  <2>1. CASE log = <<>>
    <3>1. Len(log) = 0 /\ NextLink(log).seq = 1
      BY <2>1 DEF NextLink
    <3>2. QED
      BY <1>2, <3>1
  <2>2. CASE log # <<>>
    BY <1>1, <1>2, <2>2, ValidHead DEF NextLink, AnchorInv
  <2>3. QED
    BY <2>1, <2>2
<1>4. /\ log' = Append(log, r) /\ accepted' = accepted \cup {r}
      /\ heads' = heads \cup {LinkOf(r)} /\ pass' = pass
  BY <1>2 DEF Submit
<1>5. Extends(r) /\ log' \in Seq(Row) /\ Len(log) \in Nat
  BY <1>4, <1>2, ExtendsLog DEF AnchorInv
<1>6. LinkOf(r) \in Link /\ LinkOf(r).seq = Len(log) + 1
  BY <1>2, <1>3 DEF LinkOf, Row, Link
<1>7. TypeOK'
  BY <1>4, <1>2, <1>5, <1>6 DEF AnchorInv, TypeOK
<1>8. /\ HashesInPlace' /\ SubmittedOnce' /\ ProofsPointBack'
      /\ \A l \in Link : At(l) => l.seq \in 1..Len(log') /\ LinkOf(log'[l.seq]) = l
  <2>1. Points(r) /\ ~Submitted(r.owner, r.digest)
    BY <1>1, <1>2 DEF Points
  <2>2. QED
    BY <1>2, <1>4, <2>1, AppendKeeps
<1>9. \A p \in Pass : PassOf(p)'
  BY <1>4, <1>2, PassFrame DEF AnchorInv
<1>10. PublishedStays'
  <2>1. LinkOf(r).seq \in 1..Len(log') /\ LinkOf(log'[LinkOf(r).seq]) = LinkOf(r)
    BY <1>5, <1>6 DEF Extends
  <2>2. ASSUME NEW a \in accepted'
        PROVE  LinkOf(a).seq \in 1..Len(log') /\ LinkOf(log'[LinkOf(a).seq]) = LinkOf(a)
    <3>1. CASE a \in accepted
      <4>1. LinkOf(a) \in Link /\ At(LinkOf(a))
        BY <3>1 DEF AnchorInv, TypeOK, PublishedStays, LinkOf, Row, Link
      <4>2. QED
        BY <1>8, <4>1
    <3>2. CASE a = r
      BY <2>1, <3>2
    <3>3. QED
      BY <1>4, <3>1, <3>2
  <2>3. ASSUME NEW h \in heads'
        PROVE  h.seq \in 1..Len(log') /\ LinkOf(log'[h.seq]) = h
    <3>1. CASE h \in heads
      <4>1. h \in Link /\ At(h)
        BY <3>1 DEF AnchorInv, TypeOK, PublishedStays
      <4>2. QED
        BY <1>8, <4>1
    <3>2. CASE h = LinkOf(r)
      BY <2>1, <3>2
    <3>3. QED
      BY <1>4, <3>1, <3>2
  <2>4. QED
    BY <2>2, <2>3 DEF PublishedStays, At
<1>11. QED
  BY <1>7, <1>8, <1>9, <1>10 DEF AnchorInv

\* The head of a valid log, handed out, is at its place.
LEMMA StepRead ==
  ASSUME AnchorInv, Read
  PROVE  AnchorInv'
<1>1. /\ log \in Seq(Row) /\ Valid(log) /\ log # <<>>
      /\ heads' = heads \cup {LinkOf(HeadOf(log))} /\ UNCHANGED <<log, pass, accepted>>
  BY DEF AnchorInv, TypeOK, Read, Servable
<1>2. LinkOf(HeadOf(log)) \in Link /\ At(LinkOf(HeadOf(log)))
  <2>1. HeadOf(log) \in Row /\ Known(HeadOf(log))
    BY <1>1, HeadType, ValidHead DEF AnchorInv
  <2>2. QED
    BY <2>1 DEF Known, At, LinkOf, Row, Link
<1>3. TypeOK'
  BY <1>1, <1>2 DEF AnchorInv, TypeOK
<1>4. PublishedStays'
  BY <1>1, <1>2 DEF AnchorInv, PublishedStays, At
<1>5. \A p \in Pass : PassOf(p)'
  BY <1>1, PassFrame DEF AnchorInv
<1>6. QED
  BY <1>1, <1>3, <1>4, <1>5 DEF AnchorInv, HashesInPlace, SubmittedOnce, ProofsPointBack

\* A step of a maintenance pass that appends nothing.
LEMMA PassOnly ==
  ASSUME AnchorInv, UNCHANGED <<log, accepted, heads>>, NEW p \in Pass, NEW new \in PassState,
         pass' = [pass EXCEPT ![p] = new], PassOf(p)'
  PROVE  AnchorInv'
<1>1. pass' \in [Pass -> PassState] /\ \A q \in Pass \ {p} : pass'[q] = pass[q]
  BY DEF AnchorInv, TypeOK
<1>2. \A q \in Pass : PassOf(q)'
  BY <1>1, PassFrame DEF AnchorInv
<1>3. TypeOK'
  BY <1>1 DEF AnchorInv, TypeOK
<1>4. QED
  BY <1>2, <1>3
     DEF AnchorInv, HashesInPlace, PublishedStays, At, SubmittedOnce, ProofsPointBack

\* A step of a maintenance pass that appends a row.
LEMMA PassAppends ==
  ASSUME AnchorInv, NEW row \in Row, log' = Append(log, row), row.hash = Len(log) + 1,
         Points(row), row.type # "submit", UNCHANGED <<accepted, heads>>,
         NEW p \in Pass, NEW new \in PassState,
         pass' = [pass EXCEPT ![p] = new], PassOf(p)'
  PROVE  AnchorInv'
<1>1. pass' \in [Pass -> PassState] /\ \A q \in Pass \ {p} : pass'[q] = pass[q]
  BY DEF AnchorInv, TypeOK
<1>2. \A q \in Pass : PassOf(q)'
  BY <1>1, PassFrame DEF AnchorInv
<1>3. TypeOK'
  BY <1>1, ExtendsLog DEF AnchorInv, TypeOK
<1>4. /\ HashesInPlace' /\ SubmittedOnce' /\ ProofsPointBack'
      /\ \A l \in Link : At(l) => l.seq \in 1..Len(log') /\ LinkOf(log'[l.seq]) = l
  BY AppendKeeps
<1>5. PublishedStays'
  BY <1>4, PublishedFrame DEF AnchorInv
<1>6. QED
  BY <1>2, <1>3, <1>4, <1>5 DEF AnchorInv

\* A pass given a new state has it.
LEMMA PassAt ==
  ASSUME TypeOK, NEW p \in Pass, NEW new, pass' = [pass EXCEPT ![p] = new]
  PROVE  pass'[p] = new
  BY DEF TypeOK

\* POST /upgrade starts from rows of the log.
LEMMA StepUpgrade ==
  ASSUME AnchorInv, NEW p \in Pass, Upgrade(p)
  PROVE  AnchorInv'
<1>1. /\ log \in Seq(Row) /\ log' = log /\ UNCHANGED <<log, accepted, heads>>
      /\ pass' = [pass EXCEPT ![p] = UpgradeFrom(log)]
  BY DEF AnchorInv, TypeOK, Upgrade
<1>2. UpgradeFrom(log) \in PassState
  BY <1>1, UpgradingType
<1>3. PassOf(p)'
  <2>1. pass'[p] = UpgradeFrom(log')
    BY <1>1, PassAt DEF AnchorInv
  <2>2. QED
    BY <1>1, <2>1, PassUpgradeFrom
<1>4. QED
  BY <1>1, <1>2, <1>3, PassOnly

\* A tick starts from rows of the log.
LEMMA StepTick ==
  ASSUME AnchorInv, NEW p \in Pass, Tick(p)
  PROVE  AnchorInv'
<1>1. /\ log \in Seq(Row) /\ Valid(log) /\ UNCHANGED <<log, accepted, heads>>
      /\ pass' = [pass EXCEPT ![p] = IF StampDue(log)
                                       THEN [pc |-> "stamping", rows |-> log, at |-> 0]
                                       ELSE UpgradeFrom(log)]
  BY DEF AnchorInv, TypeOK, Tick, Servable
<1>2. CASE StampDue(log)
  <2>1. PICK new \in PassState : new = [pc |-> "stamping", rows |-> log, at |-> 0]
    BY <1>1 DEF PassState
  <2>2. pass' = [pass EXCEPT ![p] = new]
    BY <1>1, <1>2, <2>1
  <2>3. pass'[p] = new
    BY <2>2, PassAt DEF AnchorInv
  <2>4. log # <<>> /\ Known(HeadOf(log))
    BY <1>1, <1>2, ValidHead DEF AnchorInv, StampDue
  <2>5. PassOf(p)'
    BY <1>1, <2>1, <2>3, <2>4 DEF PassOf, Known
  <2>6. QED
    BY <1>1, <2>2, <2>5, PassOnly
<1>3. CASE ~StampDue(log)
  <2>1. UpgradeFrom(log) \in PassState
    BY <1>1, UpgradingType
  <2>2. pass' = [pass EXCEPT ![p] = UpgradeFrom(log)]
    BY <1>1, <1>3
  <2>3. pass'[p] = UpgradeFrom(log')
    BY <1>1, <2>2, PassAt DEF AnchorInv
  <2>4. PassOf(p)'
    BY <1>1, <2>3, PassUpgradeFrom
  <2>5. QED
    BY <1>1, <2>1, <2>2, <2>4, PassOnly
<1>4. QED
  BY <1>2, <1>3

\* A stamp row, however stale its place, is of the row it names.
LEMMA StepStampAnswered ==
  ASSUME AnchorInv, NEW p \in Pass, StampAnswered(p)
  PROVE  AnchorInv'
<1>1. /\ log \in Seq(Row) /\ pass[p] \in PassState /\ pass[p].pc = "stamping"
      /\ log' = log \/ log' = Append(log, StampRow(pass[p].rows))
      /\ pass' = [pass EXCEPT ![p] = UpgradeFrom(log')] /\ UNCHANGED <<accepted, heads>>
  BY DEF AnchorInv, TypeOK, StampAnswered
<1>2. PICK rows \in Seq(Row) : rows = pass[p].rows
  BY <1>1 DEF PassState
<1>3. rows # <<>> /\ Known(HeadOf(rows)) /\ HeadOf(rows) \in Row
  BY <1>1, <1>2, HeadType DEF AnchorInv, PassOf
<1>4. pass'[p] = UpgradeFrom(log')
  BY <1>1, PassAt DEF AnchorInv
<1>5. CASE log' = log
  <2>1. UpgradeFrom(log') \in PassState /\ PassOf(p)'
    BY <1>1, <1>4, <1>5, UpgradingType, PassUpgradeFrom
  <2>2. QED
    BY <1>1, <1>5, <2>1, PassOnly
<1>6. CASE log' = Append(log, StampRow(pass[p].rows))
  <2>1. PICK row \in Row :
          /\ row = StampRow(rows)
          /\ row.type = "stamp" /\ row.digest = HeadOf(rows).hash /\ row.ref = HeadOf(rows).seq
          /\ row.hash = Len(log) + 1
    <3>1. PICK digest \in Nat : digest = HeadOf(rows).hash
      BY <1>3 DEF Row
    <3>2. PICK ref \in Nat : ref = HeadOf(rows).seq
      BY <1>3 DEF Row
    <3>3. /\ "stamp" \in {"submit", "stamp", "upgrade"}
          /\ Conarium \in Owner \cup {Conarium} /\ digest \in Digest \cup Nat
          /\ log \in Seq(Row)
      BY <1>1
    <3>4. PICK row : row = Sealed(rows, "stamp", Conarium, digest, ref)
      OBVIOUS
    <3>5. /\ row \in Row /\ row.type = "stamp" /\ row.digest = digest /\ row.ref = ref
          /\ row.hash = Len(log) + 1
      BY <3>3, <3>4, LinkType DEF Sealed, Row
    <3>6. QED
      BY <3>1, <3>2, <3>4, <3>5 DEF StampRow
  <2>2. log' = Append(log, row) /\ log' \in Seq(Row)
    BY <1>1, <1>2, <1>6, <2>1
  <2>3. Points(row)
    BY <1>3, <2>1 DEF Points, Known
  <2>4. UpgradeFrom(log') \in PassState /\ PassOf(p)'
    BY <1>4, <2>2, UpgradingType, PassUpgradeFrom
  <2>5. QED
    BY <1>1, <2>1, <2>2, <2>3, <2>4, PassAppends
<1>7. QED
  BY <1>1, <1>5, <1>6

\* An upgrade row, however stale its place, is of the stamp it names.
LEMMA StepUpgradeAnswered ==
  ASSUME AnchorInv, NEW p \in Pass, UpgradeAnswered(p)
  PROVE  AnchorInv'
<1>1. /\ log \in Seq(Row) /\ pass[p] \in PassState /\ pass[p].pc = "upgrading"
      /\ UNCHANGED <<accepted, heads>>
  BY DEF AnchorInv, TypeOK, UpgradeAnswered
<1>2. PICK rows \in Seq(Row) : rows = pass[p].rows
  BY <1>1 DEF PassState
<1>3. PICK at \in 1..Len(rows) : at = pass[p].at
  BY <1>1, <1>2 DEF AnchorInv, PassOf
<1>4. /\ rows[at].type = "stamp" /\ rows[at] \in Row
      /\ \A k \in 1..Len(rows) : rows[k] \in Row /\ (rows[k].type = "stamp" => Known(rows[k]))
  BY <1>1, <1>2, <1>3 DEF AnchorInv, PassOf
<1>5. at \in Nat
  BY <1>2
<1>6. CASE pass' = [pass EXCEPT ![p] = Upgrading(rows, at)] /\ UNCHANGED log
  <2>1. pass'[p] = Upgrading(rows, at) /\ Upgrading(rows, at) \in PassState
    BY <1>5, <1>6, PassAt, UpgradingType DEF AnchorInv
  <2>2. \A k \in 1..Len(rows) : rows[k].type = "stamp" => KnownNext(rows[k])
    BY <1>4, <1>6 DEF Known, KnownNext
  <2>3. PassOf(p)'
    BY <1>5, <2>1, <2>2, PassUpgrading
  <2>4. QED
    BY <1>1, <1>6, <2>1, <2>3, PassOnly
<1>7. CASE /\ log' = Append(log, UpgradeRow(rows, at))
           /\ pass' = [pass EXCEPT ![p] = Upgrading(Append(rows, UpgradeRow(rows, at)), at)]
  <2>1. PICK row \in Row :
          /\ row = UpgradeRow(rows, at)
          /\ row.type = "upgrade" /\ row.digest = rows[at].digest /\ row.ref = rows[at].seq
          /\ row.hash = Len(log) + 1
    <3>1. PICK digest \in Digest \cup Nat : digest = rows[at].digest
      BY <1>4 DEF Row
    <3>2. PICK ref \in Nat : ref = rows[at].seq
      BY <1>4 DEF Row
    <3>3. PICK owner \in Owner \cup {Conarium} : owner = rows[at].owner
      BY <1>4 DEF Row
    <3>4. "upgrade" \in {"submit", "stamp", "upgrade"} /\ log \in Seq(Row)
      BY <1>1
    <3>5. PICK row : row = Sealed(rows, "upgrade", owner, digest, ref)
      OBVIOUS
    <3>6. /\ row \in Row /\ row.type = "upgrade" /\ row.digest = digest /\ row.ref = ref
          /\ row.hash = Len(log) + 1
      BY <3>4, <3>5, LinkType DEF Sealed, Row
    <3>7. QED
      BY <3>1, <3>2, <3>3, <3>5, <3>6 DEF UpgradeRow
  <2>2. log' = Append(log, row)
    BY <1>7, <2>1
  <2>3. Points(row)
    <3>1. PICK stamp \in Row : stamp = rows[at]
      BY <1>4
    <3>2. stamp.type = "stamp" /\ stamp.seq \in 1..Len(log) /\ log[stamp.seq] = stamp
      BY <1>4, <3>1 DEF Known
    <3>3. row.ref = stamp.seq /\ row.digest = stamp.digest /\ row.type # "stamp"
      BY <2>1, <3>1
    <3>4. QED
      BY <3>2, <3>3 DEF Points
  <2>4. PICK more \in Seq(Row) : more = Append(rows, row)
    <3>1. Append(rows, row) \in Seq(Row)
      OBVIOUS
    <3>2. QED
      BY <3>1
  <2>5. /\ pass' = [pass EXCEPT ![p] = Upgrading(more, at)]
        /\ pass'[p] = Upgrading(more, at) /\ Upgrading(more, at) \in PassState
    BY <1>5, <1>7, <2>1, <2>4, PassAt, UpgradingType DEF AnchorInv
  <2>6. \A k \in 1..Len(more) : more[k].type = "stamp" => KnownNext(more[k])
    <3>1. \A k \in 1..Len(more) : (k \in 1..Len(rows) /\ more[k] = rows[k]) \/ more[k] = row
      BY <2>4
    <3>2. \A k \in 1..Len(rows) : rows[k].type = "stamp" => KnownNext(rows[k])
      BY <1>4, <2>2, KnownStays DEF AnchorInv, KnownNext
    <3>3. QED
      BY <2>1, <3>1, <3>2
  <2>7. PassOf(p)'
    BY <1>5, <2>5, <2>6, PassUpgrading
  <2>8. QED
    BY <1>1, <2>1, <2>2, <2>3, <2>5, <2>7, PassAppends
<1>8. \/ pass' = [pass EXCEPT ![p] = Upgrading(rows, at)] /\ UNCHANGED log
      \/ /\ log' = Append(log, UpgradeRow(rows, at))
         /\ pass' = [pass EXCEPT ![p] = Upgrading(Append(rows, UpgradeRow(rows, at)), at)]
  BY <1>2, <1>3 DEF UpgradeAnswered
<1>9. QED
  BY <1>6, <1>7, <1>8

\* A restart forgets the passes and keeps the log.
LEMMA StepRestart ==
  ASSUME AnchorInv, Restart
  PROVE  AnchorInv'
<1>1. UNCHANGED <<log, accepted, heads>> /\ \A p \in Pass : pass'[p] = Ended
  BY DEF Restart
<1>2. TypeOK'
  BY <1>1, EndedType DEF AnchorInv, TypeOK, Restart
<1>3. \A p \in Pass : PassOf(p)'
  BY <1>1, PassEnded
<1>4. QED
  BY <1>1, <1>2, <1>3
     DEF AnchorInv, HashesInPlace, PublishedStays, At, SubmittedOnce, ProofsPointBack

\* What leaves the variables alone leaves the invariant alone.
LEMMA StutterKeeps ==
  ASSUME AnchorInv, UNCHANGED vars
  PROVE  AnchorInv'
  BY DEF vars, AnchorInv, TypeOK, HashesInPlace, PassOf, Known, PublishedStays, At,
         SubmittedOnce, ProofsPointBack

\* Every step keeps the invariant.
LEMMA AnchorInductive ==
  ASSUME AnchorInv, [Next]_vars
  PROVE  AnchorInv'
<1>1. CASE \E o \in Owner, d \in Digest : Submit(o, d)
  BY <1>1, StepSubmit
<1>2. CASE Read
  BY <1>2, StepRead
<1>3. CASE \E p \in Timer : Tick(p)
  BY <1>3, StepTick DEF Pass
<1>4. CASE \E p \in Request : Upgrade(p)
  BY <1>4, StepUpgrade DEF Pass
<1>5. CASE \E p \in Pass : Answered(p)
  BY <1>5, StepStampAnswered, StepUpgradeAnswered DEF Answered
<1>6. CASE Restart
  BY <1>6, StepRestart
<1>7. CASE UNCHANGED vars
  BY <1>7, StutterKeeps
<1>8. QED
  BY <1>1, <1>2, <1>3, <1>4, <1>5, <1>6, <1>7 DEF Next

\* The empty log satisfies the invariant.
LEMMA InitAnchor ==
  ASSUME Init
  PROVE  AnchorInv
<1>1. TypeOK
  BY EndedType DEF Init, TypeOK
<1>2. \A p \in Pass : PassOf(p)
  BY DEF Init, PassOf, Ended
<1>3. Len(log) = 0
  BY DEF Init
<1>4. QED
  BY <1>1, <1>2, <1>3
     DEF Init, AnchorInv, HashesInPlace, PublishedStays, SubmittedOnce, ProofsPointBack

-----------------------------------------------------------------------------
(* A stamp is confirmed once in a log that is served.                      *)

\* A row in a pass's memory that is in the store, wherever it is there.
InLog(r) == r.hash \in 1..Len(log) /\ log[r.hash] = r

\* The rows an upgrade goes through are a log as valid as the one it read, which
\* does not confirm the stamp it is at.
UpgradingOf(p) ==
  pass[p].pc = "upgrading" =>
    /\ pass[p].at \in 1..Len(pass[p].rows)
    /\ ~Upgraded(pass[p].rows, pass[p].rows[pass[p].at].seq)
    /\ Valid(pass[p].rows)
    /\ \A k \in 1..Len(pass[p].rows) : InLog(pass[p].rows[k])

OnceInv == ServedConfirmedOnce /\ \A p \in Pass : UpgradingOf(p)

\* A log that is valid with one row more was valid without it.
LEMMA ValidWithout ==
  ASSUME NEW rows \in Seq(Row), NEW row \in Row, Valid(Append(rows, row))
  PROVE  Valid(rows) /\ row.seq = Len(rows) + 1
<1>1. PICK more \in Seq(Row) : more = Append(rows, row)
  <2>1. Append(rows, row) \in Seq(Row)
    OBVIOUS
  <2>2. QED
    BY <2>1
<1>2. /\ Len(more) = Len(rows) + 1 /\ more[Len(rows) + 1] = row /\ Len(rows) \in Nat
      /\ \A k \in 1..Len(rows) : more[k] = rows[k]
  BY <1>1
<1>3. \A k \in 1..Len(more) : more[k].seq = k /\ more[k].prev = IF k = 1 THEN Genesis ELSE more[k-1].hash
  BY <1>1 DEF Valid
<1>4. ASSUME NEW k \in 1..Len(rows)
      PROVE  rows[k].seq = k /\ rows[k].prev = IF k = 1 THEN Genesis ELSE rows[k-1].hash
  <2>1. k \in 1..Len(more) /\ (k # 1 => k - 1 \in 1..Len(rows))
    BY <1>2
  <2>2. QED
    BY <1>2, <1>3, <2>1
<1>5. QED
  BY <1>2, <1>3, <1>4 DEF Valid

\* A sealed row continues the rows it was sealed for.
LEMMA ValidWith ==
  ASSUME NEW rows \in Seq(Row), NEW row \in Row, Valid(rows),
         row.seq = NextLink(rows).seq, row.prev = NextLink(rows).prev
  PROVE  Valid(Append(rows, row)) /\ row.seq = Len(rows) + 1
<1>1. PICK more \in Seq(Row) : more = Append(rows, row)
  <2>1. Append(rows, row) \in Seq(Row)
    OBVIOUS
  <2>2. QED
    BY <2>1
<1>2. /\ Len(more) = Len(rows) + 1 /\ more[Len(rows) + 1] = row /\ Len(rows) \in Nat
      /\ \A k \in 1..Len(rows) : more[k] = rows[k]
  BY <1>1
<1>3. row.seq = Len(rows) + 1 /\ row.prev = IF rows = <<>> THEN Genesis ELSE rows[Len(rows)].hash
  <2>1. CASE rows = <<>>
    BY <2>1 DEF NextLink
  <2>2. CASE rows # <<>>
    <3>1. HeadOf(rows) = rows[Len(rows)] /\ rows[Len(rows)].seq = Len(rows)
      BY <2>2, HeadType DEF Valid
    <3>2. QED
      BY <2>2, <3>1 DEF NextLink
  <2>3. QED
    BY <2>1, <2>2
<1>4. ASSUME NEW k \in 1..Len(more)
      PROVE  more[k].seq = k /\ more[k].prev = IF k = 1 THEN Genesis ELSE more[k-1].hash
  <2>1. CASE k \in 1..Len(rows)
    <3>1. rows[k].seq = k /\ rows[k].prev = IF k = 1 THEN Genesis ELSE rows[k-1].hash
      BY <2>1 DEF Valid
    <3>2. k # 1 => k - 1 \in 1..Len(rows)
      BY <2>1
    <3>3. QED
      BY <1>2, <2>1, <3>1, <3>2
  <2>2. CASE k = Len(rows) + 1
    <3>1. rows = <<>> <=> Len(rows) = 0
      OBVIOUS
    <3>2. k # 1 => k - 1 = Len(rows) /\ Len(rows) \in 1..Len(rows)
      BY <1>2, <2>2
    <3>3. QED
      BY <1>2, <1>3, <2>2, <3>1, <3>2
  <2>3. QED
    BY <1>2, <2>1, <2>2
<1>5. QED
  BY <1>1, <1>3, <1>4 DEF Valid

\* A pass that ended is at no stamp.
LEMMA OnceEnded ==
  ASSUME NEW p \in Pass, pass'[p] = Ended
  PROVE  UpgradingOf(p)'
  BY DEF UpgradingOf, Ended

\* runUpgrade goes on with a stamp its rows do not confirm, or ends.
LEMMA OnceUpgrading ==
  ASSUME NEW p \in Pass, NEW rows \in Seq(Row), NEW from \in Nat,
         pass'[p] = Upgrading(rows, from), Valid(rows),
         \A k \in 1..Len(rows) : rows[k].hash \in 1..Len(log') /\ log'[rows[k].hash] = rows[k]
  PROVE  UpgradingOf(p)'
<1>1. CASE Upgrading(rows, from) = Ended
  BY <1>1, OnceEnded
<1>2. ASSUME NEW k \in 1..Len(rows), ~Upgraded(rows, rows[k].seq),
             Upgrading(rows, from) = [pc |-> "upgrading", rows |-> rows, at |-> k]
      PROVE  UpgradingOf(p)'
  <2>1. pass'[p].rows = rows /\ pass'[p].at = k
    BY <1>2
  <2>2. QED
    BY <1>2, <2>1 DEF UpgradingOf, InLog, Valid, Upgraded
<1>3. QED
  BY <1>1, <1>2, UpgradingCases

\* runUpgrade started from the store goes through its rows.
LEMMA OnceUpgradeFrom ==
  ASSUME NEW p \in Pass, log' \in Seq(Row), HashesInPlace', pass'[p] = UpgradeFrom(log')
  PROVE  UpgradingOf(p)'
<1>1. PICK rows \in Seq(Row) : rows = log'
  OBVIOUS
<1>2. CASE Valid(rows)
  <2>1. \A k \in 1..Len(rows) : rows[k].hash \in 1..Len(log') /\ log'[rows[k].hash] = rows[k]
    BY <1>1 DEF HashesInPlace
  <2>2. pass'[p] = Upgrading(rows, 0)
    BY <1>1, <1>2 DEF UpgradeFrom
  <2>3. QED
    BY <1>2, <2>1, <2>2, OnceUpgrading
<1>3. CASE ~Valid(rows)
  BY <1>1, <1>3, OnceEnded DEF UpgradeFrom
<1>4. QED
  BY <1>2, <1>3

\* What a pass's rows say of the store is not changed by an append.
LEMMA OnceFrame ==
  ASSUME TypeOK, NEW p \in Pass, UpgradingOf(p), pass'[p] = pass[p],
         log' = log \/ \E row \in Row : log' = Append(log, row)
  PROVE  UpgradingOf(p)'
<1>1. ASSUME NEW r, InLog(r) PROVE r.hash \in 1..Len(log') /\ log'[r.hash] = r
  <2>1. CASE log' = log
    BY <1>1, <2>1 DEF InLog
  <2>2. ASSUME NEW row \in Row, log' = Append(log, row)
        PROVE  r.hash \in 1..Len(log') /\ log'[r.hash] = r
    <3>1. Extends(row) /\ Len(log) \in Nat
      BY <2>2, ExtendsLog
    <3>2. QED
      BY <1>1, <3>1 DEF InLog, Extends
  <2>3. QED
    BY <2>1, <2>2
<1>2. QED
  BY <1>1 DEF UpgradingOf, InLog

\* An append keeps stamps confirmed once if it confirms none, or one that a log
\* it leaves valid did not confirm.
LEMMA OnceAppend ==
  ASSUME TypeOK, ServedConfirmedOnce, NEW row \in Row, log' = Append(log, row),
         row.type = "upgrade" /\ Valid(log') => ~Upgraded(log, row.ref)
  PROVE  ServedConfirmedOnce'
<1> SUFFICES ASSUME Valid(log'), NEW j \in 1..Len(log'), NEW k \in 1..Len(log'),
                    log'[j].type = "upgrade", log'[k].type = "upgrade", log'[j].ref = log'[k].ref
             PROVE  j = k
  BY DEF ServedConfirmedOnce, Servable
<1>1. Extends(row) /\ Len(log) \in Nat
  BY ExtendsLog
<1>2. Valid(log)
  BY ValidWithout DEF TypeOK
<1>3. \A i, l \in 1..Len(log) :
        log[i].type = "upgrade" /\ log[l].type = "upgrade" /\ log[i].ref = log[l].ref => i = l
  BY <1>2 DEF ServedConfirmedOnce, Servable
<1>4. ASSUME NEW i \in 1..Len(log), log[i].type = "upgrade", row.type = "upgrade", log[i].ref = row.ref
      PROVE  FALSE
  BY <1>4 DEF Upgraded
<1>5. QED
  BY <1>1, <1>3, <1>4 DEF Extends

\* Rows of these types confirm nothing.
LEMMA OnceOther ==
  ASSUME TypeOK, ServedConfirmedOnce, NEW row \in Row, log' = Append(log, row), row.type # "upgrade"
  PROVE  ServedConfirmedOnce'
  BY OnceAppend

\* An upgrade row that a valid log continues with was made from that log: its
\* stamp was not confirmed in it.
LEMMA UpgradeIsFirst ==
  ASSUME TypeOK, NEW rows \in Seq(Row), NEW at \in 1..Len(rows), NEW row \in Row,
         Valid(rows), ~Upgraded(rows, rows[at].seq),
         \A k \in 1..Len(rows) : InLog(rows[k]),
         row.seq = Len(rows) + 1, row.ref = rows[at].seq, Valid(Append(log, row))
  PROVE  ~Upgraded(log, row.ref)
<1>1. Valid(log) /\ row.seq = Len(log) + 1
  BY ValidWithout DEF TypeOK
<1>2. Len(log) = Len(rows)
  BY <1>1 DEF TypeOK
<1>3. ASSUME NEW k \in 1..Len(log) PROVE log[k] = rows[k]
  <2>1. rows[k].hash \in 1..Len(log) /\ log[rows[k].hash] = rows[k]
    BY <1>2 DEF InLog
  <2>2. rows[k].seq = k /\ log[rows[k].hash].seq = rows[k].hash
    BY <1>1, <1>2, <2>1 DEF Valid
  <2>3. QED
    BY <2>1, <2>2
<1>4. QED
  BY <1>2, <1>3 DEF Upgraded

LEMMA OnceStampAnswered ==
  ASSUME AnchorInv, AnchorInv', OnceInv, NEW p \in Pass, StampAnswered(p)
  PROVE  OnceInv'
<1>1. /\ log \in Seq(Row) /\ pass[p] \in PassState /\ pass' = [pass EXCEPT ![p] = UpgradeFrom(log')]
      /\ log' = log \/ log' = Append(log, StampRow(pass[p].rows))
  BY DEF AnchorInv, TypeOK, StampAnswered
<1>2. pass'[p] = UpgradeFrom(log') /\ \A q \in Pass \ {p} : pass'[q] = pass[q]
  BY <1>1 DEF AnchorInv, TypeOK
<1>3. UpgradingOf(p)'
  BY <1>2, OnceUpgradeFrom DEF AnchorInv, TypeOK
<1>4. ASSUME log' = Append(log, StampRow(pass[p].rows))
      PROVE  \E row \in Row : log' = Append(log, row) /\ row.type # "upgrade"
  <2>1. PICK row : row = StampRow(pass[p].rows)
    OBVIOUS
  <2>2. row.type = "stamp" /\ log'[Len(log) + 1] = row /\ Len(log) + 1 \in 1..Len(log') /\ log' \in Seq(Row)
    BY <1>1, <1>4, <2>1 DEF StampRow, Sealed, AnchorInv, TypeOK
  <2>3. QED
    BY <1>4, <2>1, <2>2
<1>5. log' = log \/ \E row \in Row : log' = Append(log, row)
  BY <1>1, <1>4
<1>6. \A q \in Pass : UpgradingOf(q)'
  BY <1>2, <1>3, <1>5, OnceFrame DEF AnchorInv, OnceInv
<1>7. ServedConfirmedOnce'
  <2>1. CASE log' = log
    BY <2>1 DEF OnceInv, ServedConfirmedOnce, Servable, Valid
  <2>2. CASE log' = Append(log, StampRow(pass[p].rows))
    BY <1>4, <2>2, OnceOther DEF AnchorInv, OnceInv
  <2>3. QED
    BY <1>1, <2>1, <2>2
<1>8. QED
  BY <1>6, <1>7 DEF OnceInv

LEMMA OnceUpgradeAnswered ==
  ASSUME AnchorInv, AnchorInv', OnceInv, NEW p \in Pass, UpgradeAnswered(p)
  PROVE  OnceInv'
<1>1. log \in Seq(Row) /\ pass[p] \in PassState /\ pass[p].pc = "upgrading"
  BY DEF AnchorInv, TypeOK, UpgradeAnswered
<1>2. PICK rows \in Seq(Row) : rows = pass[p].rows
  BY <1>1 DEF PassState
<1>3. PICK at \in 1..Len(rows) : at = pass[p].at
  BY <1>1, <1>2 DEF OnceInv, UpgradingOf
<1>4. /\ ~Upgraded(rows, rows[at].seq) /\ Valid(rows) /\ at \in Nat
      /\ \A k \in 1..Len(rows) : InLog(rows[k])
  BY <1>1, <1>2, <1>3 DEF OnceInv, UpgradingOf
<1>5. CASE pass' = [pass EXCEPT ![p] = Upgrading(rows, at)] /\ log' = log
  <2>1. pass'[p] = Upgrading(rows, at) /\ \A q \in Pass \ {p} : pass'[q] = pass[q]
    BY <1>5 DEF AnchorInv, TypeOK
  <2>2. \A k \in 1..Len(rows) : rows[k].hash \in 1..Len(log') /\ log'[rows[k].hash] = rows[k]
    BY <1>4, <1>5 DEF InLog
  <2>3. UpgradingOf(p)'
    BY <1>4, <2>1, <2>2, OnceUpgrading
  <2>4. \A q \in Pass : UpgradingOf(q)'
    BY <1>5, <2>1, <2>3, OnceFrame DEF AnchorInv, OnceInv
  <2>5. QED
    BY <1>5, <2>4 DEF OnceInv, ServedConfirmedOnce, Servable, Valid
<1>6. CASE /\ log' = Append(log, UpgradeRow(rows, at))
           /\ pass' = [pass EXCEPT ![p] = Upgrading(Append(rows, UpgradeRow(rows, at)), at)]
  <2>1. PICK row : row = UpgradeRow(rows, at)
    OBVIOUS
  <2>2. /\ row.type = "upgrade" /\ row.ref = rows[at].seq /\ row.hash = Len(log) + 1
        /\ row.seq = NextLink(rows).seq /\ row.prev = NextLink(rows).prev
    BY <2>1 DEF UpgradeRow, Sealed
  <2>3. log' = Append(log, row) /\ Len(log) \in Nat
    BY <1>1, <1>6, <2>1
  <2>4. log' \in Seq(Row) /\ Len(log) + 1 \in 1..Len(log') /\ log'[Len(log) + 1] = row
    BY <1>1, <2>3 DEF AnchorInv, TypeOK
  <2>5. row \in Row
    BY <2>4
  <2>6. Extends(row)
    BY <2>3, <2>5, ExtendsLog DEF AnchorInv
  <2>7. PICK more \in Seq(Row) : more = Append(rows, row)
    <3>1. Append(rows, row) \in Seq(Row)
      BY <2>5
    <3>2. QED
      BY <3>1
  <2>8. Valid(more) /\ row.seq = Len(rows) + 1
    BY <1>4, <2>2, <2>5, <2>7, ValidWith
  <2>9. pass'[p] = Upgrading(more, at) /\ \A q \in Pass \ {p} : pass'[q] = pass[q]
    BY <1>6, <2>1, <2>7 DEF AnchorInv, TypeOK
  <2>10. \A k \in 1..Len(more) : more[k].hash \in 1..Len(log') /\ log'[more[k].hash] = more[k]
    <3>1. \A k \in 1..Len(more) : (k \in 1..Len(rows) /\ more[k] = rows[k]) \/ more[k] = row
      BY <2>5, <2>7
    <3>2. ASSUME NEW k \in 1..Len(rows)
          PROVE  rows[k].hash \in 1..Len(log') /\ log'[rows[k].hash] = rows[k]
      BY <1>4, <2>3, <2>6 DEF Extends, InLog
    <3>3. row.hash \in 1..Len(log') /\ log'[row.hash] = row
      BY <2>2, <2>4
    <3>4. QED
      BY <3>1, <3>2, <3>3
  <2>11. UpgradingOf(p)'
    BY <1>4, <2>8, <2>9, <2>10, OnceUpgrading
  <2>12. \A q \in Pass : UpgradingOf(q)'
    BY <2>3, <2>5, <2>9, <2>11, OnceFrame DEF AnchorInv, OnceInv
  <2>13. Valid(log') => ~Upgraded(log, row.ref)
    BY <1>4, <2>2, <2>3, <2>5, <2>8, UpgradeIsFirst DEF AnchorInv
  <2>14. ServedConfirmedOnce'
    BY <2>3, <2>5, <2>13, OnceAppend DEF AnchorInv, OnceInv
  <2>15. QED
    BY <2>12, <2>14 DEF OnceInv
<1>7. QED
  BY <1>2, <1>3, <1>5, <1>6 DEF UpgradeAnswered

\* A step of a pass that appends nothing, or no step of a pass.
LEMMA OncePasses ==
  ASSUME AnchorInv, OnceInv, log' = log, \A p \in Pass : pass'[p] = pass[p] \/ UpgradingOf(p)'
  PROVE  OnceInv'
<1>1. \A p \in Pass : UpgradingOf(p)'
  BY OnceFrame DEF AnchorInv, OnceInv
<1>2. QED
  BY <1>1 DEF OnceInv, ServedConfirmedOnce, Servable, Valid

\* Every step keeps it.
LEMMA OnceInductive ==
  ASSUME AnchorInv, AnchorInv', OnceInv, [Next]_vars
  PROVE  OnceInv'
<1>1. ASSUME NEW o \in Owner, NEW d \in Digest, Submit(o, d) PROVE OnceInv'
  <2>1. PICK row : row = Sealed(log, "submit", o, d, 0)
    OBVIOUS
  <2>2. log' = Append(log, row) /\ pass' = pass /\ row.type = "submit" /\ log \in Seq(Row) /\ log' \in Seq(Row)
    BY <1>1, <2>1 DEF Submit, Sealed, AnchorInv, TypeOK
  <2>3. Len(log) + 1 \in 1..Len(log') /\ log'[Len(log) + 1] = row
    BY <2>2
  <2>4. row \in Row
    BY <2>2, <2>3
  <2>5. ServedConfirmedOnce'
    BY <2>2, <2>4, OnceOther DEF AnchorInv, OnceInv
  <2>6. QED
    BY <2>2, <2>4, <2>5, OnceFrame DEF AnchorInv, OnceInv
<1>2. CASE Read
  BY <1>2, OncePasses DEF Read
<1>3. ASSUME NEW p \in Pass, Tick(p) PROVE OnceInv'
  <2>1. /\ log' = log /\ pass' = [pass EXCEPT ![p] = IF StampDue(log)
                                       THEN [pc |-> "stamping", rows |-> log, at |-> 0]
                                       ELSE UpgradeFrom(log)]
    BY <1>3 DEF Tick
  <2>2. CASE StampDue(log)
    BY <2>1, <2>2, OncePasses DEF AnchorInv, TypeOK, UpgradingOf
  <2>3. CASE ~StampDue(log)
    <3>1. pass'[p] = UpgradeFrom(log') /\ \A q \in Pass \ {p} : pass'[q] = pass[q]
      BY <2>1, <2>3 DEF AnchorInv, TypeOK
    <3>2. QED
      BY <2>1, <3>1, OnceUpgradeFrom, OncePasses DEF AnchorInv, TypeOK
  <2>4. QED
    BY <2>2, <2>3
<1>4. ASSUME NEW p \in Pass, Upgrade(p) PROVE OnceInv'
  <2>1. log' = log /\ pass'[p] = UpgradeFrom(log') /\ \A q \in Pass \ {p} : pass'[q] = pass[q]
    BY <1>4 DEF Upgrade, AnchorInv, TypeOK
  <2>2. QED
    BY <2>1, OnceUpgradeFrom, OncePasses DEF AnchorInv, TypeOK
<1>5. CASE \E p \in Pass : Answered(p)
  BY <1>5, OnceStampAnswered, OnceUpgradeAnswered DEF Answered
<1>6. CASE Restart
  BY <1>6, OnceEnded, OncePasses DEF Restart
<1>7. CASE UNCHANGED vars
  BY <1>7, OncePasses DEF vars
<1>8. QED
  BY <1>1, <1>2, <1>3, <1>4, <1>5, <1>6, <1>7 DEF Next, Pass
-----------------------------------------------------------------------------
(* Theorems.                                                               *)

\* What a pass keeps in memory across its awaits describes rows of the log, and
\* the log's own rows are where they say, in every reachable state.
THEOREM AnchorInvariant == Spec => []AnchorInv
  BY InitAnchor, AnchorInductive, PTL DEF Spec

\* The store, the passes' memories and the answers keep the shape the code
\* gives them.
THEOREM TypeCorrect == Spec => []TypeOK
<1>1. AnchorInv => TypeOK
  BY DEF AnchorInv
<1>2. QED
  BY <1>1, AnchorInvariant, PTL

\* A countersigned record or a head, once answered, is in the log at the place
\* it names for good: no append, stale or not, and no restart displaces it.
THEOREM WhatWasServedStays == Spec => []PublishedStays
<1>1. AnchorInv => PublishedStays
  BY DEF AnchorInv
<1>2. QED
  BY <1>1, AnchorInvariant, PTL

\* POST /anchor gives an owner's digest one row, whatever runs beside it.
THEOREM OneRowPerSubmission == Spec => []SubmittedOnce
<1>1. AnchorInv => SubmittedOnce
  BY DEF AnchorInv
<1>2. QED
  BY <1>1, AnchorInvariant, PTL

\* Every stamp and every confirmation in the store is of an earlier row that
\* it names rightly, though both are made from rows read before an await.
THEOREM ProofsAreOfEarlierRows == Spec => []ProofsPointBack
<1>1. AnchorInv => ProofsPointBack
  BY DEF AnchorInv
<1>2. QED
  BY <1>1, AnchorInvariant, PTL

\* A log the service serves confirms a stamp once, though passes upgrade from rows
\* they read before they waited: a row made from such rows that confirms a stamp
\* again does not continue the log, which is then not served.
THEOREM StampsConfirmedOnce == Spec => []ServedConfirmedOnce
<1>1. Init => OnceInv
  <2> SUFFICES ASSUME Init PROVE OnceInv
    OBVIOUS
  <2>1. Len(log) = 0 /\ \A p \in Pass : pass[p].pc = "ended"
    BY DEF Init, Ended
  <2>2. QED
    BY <2>1 DEF OnceInv, ServedConfirmedOnce, UpgradingOf
<1>2. AnchorInv /\ AnchorInv' /\ OnceInv /\ [Next]_vars => OnceInv'
  BY OnceInductive
<1>3. OnceInv => ServedConfirmedOnce
  BY DEF OnceInv
<1>4. QED
  BY <1>1, <1>2, <1>3, AnchorInvariant, PTL DEF Spec

\* The place before one of n places from m on.
LEMMA PlaceBefore ==
  ASSUME NEW n \in Nat, NEW m \in Nat, m >= 1, NEW k \in 1..n, k # 1
  PROVE  k - 1 \in 1..n /\ k + m - 1 # 1 /\ (k - 1) + m - 1 = (k + m - 1) - 1
OBVIOUS

\* Whoever kept a countersigned record can prove that the log they are served
\* contains it, however long ago that was and whatever was appended since.
THEOREM InclusionIsProvable == Spec => []InclusionVerifies
<1>1. AnchorInv => InclusionVerifies
  <2> SUFFICES ASSUME AnchorInv, Valid(log), NEW a \in accepted
               PROVE  Included(a, InclusionPath(log, a), HeadOf(log))
    BY DEF InclusionVerifies, Servable
  <2>1. log \in Seq(Row) /\ a \in Row
    BY DEF AnchorInv, TypeOK
  <2>2. a.seq \in 1..Len(log) /\ LinkOf(log[a.seq]) = LinkOf(a) /\ Len(log) \in Nat
    BY <2>1 DEF AnchorInv, PublishedStays, At, LinkOf
  <2>3. log[a.seq].hash = a.hash /\ log[a.seq].prev = a.prev /\ log[a.seq].seq = a.seq
    BY <2>2 DEF LinkOf
  <2>4. PICK n \in Nat : n = Len(log) - a.seq + 1 /\ n >= 1
    BY <2>2
  <2>5. PICK path : path = InclusionPath(log, a)
    OBVIOUS
  <2>6. path = [k \in 1..n |-> LinkOf(log[k + a.seq - 1])]
    BY <2>4, <2>5 DEF InclusionPath
  <2>7. Len(path) = n /\ path # <<>>
    BY <2>4, <2>6
  <2>8. \A k \in 1..n : k + a.seq - 1 \in 1..Len(log)
    BY <2>2, <2>4
  <2>9. \A k \in 1..n : /\ path[k].hash = log[k + a.seq - 1].hash
                        /\ path[k].prev = log[k + a.seq - 1].prev
                        /\ path[k].seq = log[k + a.seq - 1].seq
    BY <2>6 DEF LinkOf
  <2>10. path[1].hash = a.hash /\ path[1].seq = a.seq /\ path[1].prev = a.prev
    <3>1. 1 \in 1..n /\ 1 + a.seq - 1 = a.seq
      BY <2>2, <2>4
    <3>2. QED
      BY <2>3, <2>9, <3>1
  <2>11. ASSUME NEW k \in 1..n, k # 1 PROVE path[k].prev = path[k-1].hash
    <3>1. k - 1 \in 1..n /\ k + a.seq - 1 # 1 /\ (k - 1) + a.seq - 1 = (k + a.seq - 1) - 1
      <4>1. a.seq \in Nat /\ a.seq >= 1
        BY <2>2
      <4>2. QED
        BY <2>4, <2>11, <4>1, PlaceBefore
    <3>2. log[k + a.seq - 1].prev = log[(k + a.seq - 1) - 1].hash
      BY <2>8, <3>1 DEF Valid
    <3>3. QED
      BY <2>9, <3>1, <3>2
  <2>12. path[n].hash = HeadOf(log).hash /\ path[n].seq = HeadOf(log).seq
    <3>1. n \in 1..n /\ n + a.seq - 1 = Len(log)
      BY <2>2, <2>4
    <3>2. QED
      BY <2>9, <3>1 DEF HeadOf
  <2>13. QED
    BY <2>5, <2>7, <2>10, <2>11, <2>12 DEF Included
<1>2. QED
  BY <1>1, AnchorInvariant, PTL
=============================================================================
