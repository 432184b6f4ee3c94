-------------------------- MODULE SideBySideProofs --------------------------
(***************************************************************************)
(* Proofs about four of the parts that MCSideBySide puts side by side:     *)
(* the console (Console), for any files, patches and number of saves; the  *)
(* reconciliation of the database's counters with the receipts             *)
(* (Reconcile), for any statements, clocks, skews and mapping profiles;    *)
(* the stamps of a document (Stamps), for any calendars and number of      *)
(* revisions, runs and blocks; and the evidence (Evidence), for any chain, *)
(* faults, keys and pins: the two verifiers, written apart, agree, and     *)
(* what they accept is the gateway's own.                                  *)
(***************************************************************************)
EXTENDS Evidence, Console, Reconcile, Stamps, Least, FiniteSetTheorems, SequenceTheorems, TLAPS

\* A file that has connectors has all that the operator wrote, patched.
Whole(f) ==
  "connectors" \in f.sections =>
    /\ f.sections = original.sections
    /\ DOMAIN original.policy \subseteq DOMAIN f.policy
    /\ \A field \in DOMAIN f.policy :
         \/ field \in DOMAIN original.policy /\ f.policy[field] = original.policy[field]
         \/ \E patch \in sent : field \in DOMAIN patch /\ patch[field] = f.policy[field]

Good(f) == f = Missing \/ (IsFile(f) /\ Whole(f))

\* Whatever the gateway reads next is whole, and so is what the console writes.
IndInv ==
  /\ Good(original) /\ Good(file) /\ Good(served)
  /\ IsFile(editor.next) /\ Whole(editor.next)
  /\ editor = [pc |-> editor.pc, next |-> editor.next]

\* With no file, or one without connectors, there is nothing to be missed.
LEMMA EmptyGood == IsFile(Empty) /\ Whole(Empty) /\ NoEdit.next = Empty
BY DEF IsFile, Whole, Empty, NoEdit

\* The merge keeps the sections, and of the policy what the patch does not name.
LEMMA MergedShape ==
  ASSUME NEW f, IsFile(f), NEW patch
  PROVE  LET g == Merged(f, patch)
         IN  /\ IsFile(g) /\ g.sections = f.sections
             /\ DOMAIN g.policy = DOMAIN patch \cup DOMAIN f.policy
             /\ \A field \in DOMAIN g.policy :
                  g.policy[field] = IF field \in DOMAIN patch THEN patch[field] ELSE f.policy[field]
<1>1. Merged(f, patch) = [sections |-> f.sections, policy |-> Patched(f.policy, patch)]
  BY DEF Merged, IsFile
<1>2. QED
  BY <1>1 DEF IsFile, Patched

\* A merge of a whole file is whole, once its patch was sent.
LEMMA MergedWhole ==
  ASSUME NEW f, IsFile(f), Whole(f), NEW patch, original' = original, sent' = sent \cup {patch}
  PROVE  IsFile(Merged(f, patch)) /\ Whole(Merged(f, patch))'
<1>1. PICK g : g = Merged(f, patch)
  OBVIOUS
<1>2. /\ IsFile(g) /\ g.sections = f.sections
      /\ DOMAIN g.policy = DOMAIN patch \cup DOMAIN f.policy
      /\ \A field \in DOMAIN g.policy :
           g.policy[field] = IF field \in DOMAIN patch THEN patch[field] ELSE f.policy[field]
  BY <1>1, MergedShape
<1>3. Whole(g)'
  <2> SUFFICES ASSUME "connectors" \in g.sections
               PROVE  /\ g.sections = original.sections
                      /\ DOMAIN original.policy \subseteq DOMAIN g.policy
                      /\ \A field \in DOMAIN g.policy :
                           \/ field \in DOMAIN original.policy /\ g.policy[field] = original.policy[field]
                           \/ \E p \in sent' : field \in DOMAIN p /\ p[field] = g.policy[field]
    BY DEF Whole
  <2>1. /\ f.sections = original.sections
        /\ DOMAIN original.policy \subseteq DOMAIN f.policy
        /\ \A field \in DOMAIN f.policy :
             \/ field \in DOMAIN original.policy /\ f.policy[field] = original.policy[field]
             \/ \E p \in sent : field \in DOMAIN p /\ p[field] = f.policy[field]
    BY <1>2 DEF Whole
  <2>2. ASSUME NEW field \in DOMAIN g.policy
        PROVE  \/ field \in DOMAIN original.policy /\ g.policy[field] = original.policy[field]
               \/ \E p \in sent' : field \in DOMAIN p /\ p[field] = g.policy[field]
    <3>1. CASE field \in DOMAIN patch
      <4>1. patch \in sent' /\ g.policy[field] = patch[field]
        BY <1>2, <3>1
      <4>2. QED
        BY <3>1, <4>1
    <3>2. CASE field \notin DOMAIN patch
      <4>1. field \in DOMAIN f.policy /\ g.policy[field] = f.policy[field]
        BY <1>2, <3>2
      <4>2. QED
        BY <2>1, <4>1
    <3>3. QED
      BY <3>1, <3>2
  <2>3. QED
    BY <1>2, <2>1, <2>2
<1>4. QED
  BY <1>1, <1>2, <1>3 DEF Whole

\* What is whole stays whole.
LEMMA WholeStays ==
  ASSUME NEW f, Whole(f), original' = original, sent \subseteq sent'
  PROVE  Whole(f)'
<1> SUFFICES ASSUME "connectors" \in f.sections
             PROVE  /\ f.sections = original.sections
                    /\ DOMAIN original.policy \subseteq DOMAIN f.policy
                    /\ \A field \in DOMAIN f.policy :
                         \/ field \in DOMAIN original.policy /\ f.policy[field] = original.policy[field]
                         \/ \E p \in sent' : field \in DOMAIN p /\ p[field] = f.policy[field]
  BY DEF Whole
<1>1. QED
  BY DEF Whole

\* So are files that may not be there.
LEMMA GoodStays ==
  ASSUME original' = original, sent \subseteq sent', Good(original), Good(file), Good(served),
         IsFile(editor.next), Whole(editor.next),
         file' \in {file, original, editor.next, Missing},
         served' \in {served, file, Empty, Missing}
  PROVE  Good(original)' /\ Good(file)' /\ Good(served)'
<1>1. ASSUME NEW f, Good(f), NEW g, g = f PROVE Good(g)'
  BY <1>1, WholeStays DEF Good
<1>2. Good(Empty) /\ Good(Missing) /\ Good(editor.next)
  BY EmptyGood DEF Good
<1>3. PICK o, f, s : o = original' /\ f = file' /\ s = served'
  OBVIOUS
<1>4. Good(o) /\ Good(f) /\ Good(s)
  BY <1>2, <1>3
<1>5. Good(o)' /\ Good(f)' /\ Good(s)'
  BY <1>1, <1>4
<1>6. QED
  BY <1>3, <1>5 DEF Good, Whole

\* A step that leaves the temp file alone, or starts with none.
LEMMA NextStays ==
  ASSUME IndInv, original' = original, sent \subseteq sent',
         file' \in {file, original, editor.next, Missing},
         served' \in {served, file, Empty, Missing},
         editor' = [pc |-> editor'.pc, next |-> editor'.next],
         editor'.next = editor.next \/ editor'.next = Empty
  PROVE  IndInv'
<1>1. Good(original)' /\ Good(file)' /\ Good(served)'
  BY GoodStays DEF IndInv
<1>2. PICK n : n = editor'.next
  OBVIOUS
<1>3. IsFile(n) /\ Whole(n)
  BY <1>2, EmptyGood DEF IndInv
<1>4. IsFile(n) /\ Whole(n)'
  BY <1>3, WholeStays
<1>5. QED
  BY <1>1, <1>2, <1>4 DEF IndInv, Whole, IsFile

LEMMA SaveStep ==
  ASSUME IndInv, NEW patch, Save(patch)
  PROVE  IndInv'
<1>1. original' = original /\ file' = file /\ served' = served
  BY DEF Save
<1>2. CASE ~Valid(patch)
  BY <1>1, <1>2, NextStays DEF Save, IndInv
<1>3. CASE Valid(patch)
  <2>1. PICK f : f = IF file = Missing THEN Empty ELSE file
    OBVIOUS
  <2>2. /\ sent' = sent \cup {patch}
        /\ editor' = [pc |-> "temp", next |-> Merged(f, patch)]
    BY <1>3, <2>1 DEF Save
  <2>3. IsFile(f) /\ Whole(f)
    BY <2>1, EmptyGood DEF IndInv, Good
  <2>4. IsFile(Merged(f, patch)) /\ Whole(Merged(f, patch))'
    BY <1>1, <2>2, <2>3, MergedWhole
  <2>5. Good(original)' /\ Good(file)' /\ Good(served)'
    BY <1>1, <2>2, GoodStays DEF IndInv
  <2>6. PICK n : n = Merged(f, patch)
    OBVIOUS
  <2>7. editor' = [pc |-> "temp", next |-> n] /\ IsFile(n) /\ Whole(n)'
    BY <2>2, <2>4, <2>6 DEF Whole
  <2>8. QED
    BY <2>5, <2>7 DEF IndInv, Whole, IsFile
<1>4. QED
  BY <1>2, <1>3
-----------------------------------------------------------------------------
(* The theorem.                                                            *)

\* A gateway that serves a connector serves the whole of what the operator wrote,
\* with the patches that were sent: wherever the console dies between its writes,
\* whatever becomes of its renames, and whenever the gateway reads the file.
THEOREM WholeConfigIsServed == ConsoleSpec => []ServesWholeConfig
<1>1. ConsoleInit => IndInv
  <2> SUFFICES ASSUME ConsoleInit PROVE IndInv
    OBVIOUS
  <2>1. Good(original)
    BY FilesAssumption DEF ConsoleInit, Good, Whole
  <2>2. QED
    BY <2>1, EmptyGood DEF ConsoleInit, IndInv, Good, NoEdit
<1>2. IndInv /\ [ConsoleNext]_consoleVars => IndInv'
  <2> SUFFICES ASSUME IndInv, [ConsoleNext]_consoleVars PROVE IndInv'
    OBVIOUS
  <2>1. CASE Boot
    BY <2>1, NextStays DEF Boot, IndInv
  <2>2. CASE Stop \/ Restore
    BY <2>2, NextStays DEF Stop, Restore, IndInv
  <2>3. CASE \E patch \in Patches : Save(patch)
    BY <2>3, SaveStep
  <2>4. CASE Rename
    BY <2>4, NextStays DEF Rename, IndInv, NoEdit
  <2>5. CASE RenameAgain
    BY <2>5, NextStays DEF RenameAgain, IndInv, NoEdit
  <2>6. CASE Dies \/ Starts
    BY <2>6, NextStays DEF Dies, Starts, IndInv, NoEdit
  <2>7. CASE UNCHANGED consoleVars
    BY <2>7, NextStays DEF consoleVars, IndInv
  <2>8. QED
    BY <2>1, <2>2, <2>3, <2>4, <2>5, <2>6, <2>7 DEF ConsoleNext
<1>3. IndInv => ServesWholeConfig
  BY DEF IndInv, Good, Whole, ServesWholeConfig
<1>4. QED
  BY <1>1, <1>2, <1>3, PTL DEF ConsoleSpec
-----------------------------------------------------------------------------
(* The reconciliation: what its window holds.                              *)

\* A statement, as it is run and with a receipt.
IsRun(s) ==
  /\ s = [id |-> s.id, pattern |-> s.pattern, receipt |-> s.receipt, inside |-> s.inside]
  /\ s.id \in Nat /\ s.pattern \in Pattern

\* Counters: how often a pattern was counted, none where there is no entry.
Counters(entries) == DOMAIN entries \subseteq Pattern /\ \A p \in DOMAIN entries : entries[p] \in Nat
Count(entries, p) == IF p \in DOMAIN entries THEN entries[p] ELSE 0
IsSnapshot(s) == s = [ts |-> s.ts, role |-> s.role, entries |-> s.entries] /\ s.ts \in Int /\ Counters(s.entries)

\* The counters as the window's end will have them, or has them.
Counted == IF after = Absent THEN calls ELSE after.entries

\* The statements of a pattern that were run in the window.
Of(p) == {s \in Inside : s.pattern = p}

ReconTypes ==
  /\ now \in Int /\ offset \in Int /\ reset \in BOOLEAN
  /\ Counters(calls)
  /\ before = Absent \/ IsSnapshot(before)
  /\ after = Absent \/ IsSnapshot(after)
  /\ before = Absent => after = Absent /\ Inside = {}

\* A statement that has a receipt has it in the file.
Receipted ==
  /\ \A r \in receipts : r.ts \in Int
  /\ \A s \in run : s.receipt # Absent => s.receipt \in receipts

\* What the counters gained, statements of the window gained.
Gained ==
  before # Absent =>
    \A p \in Pattern : Count(Counted, p) > Count(before.entries, p) => Of(p) # {}

\* Each statement has an id of its own, the next one's is free.
Numbered ==
  /\ \A s \in run : IsRun(s)
  /\ IsFiniteSet(run)
  /\ \A s \in run : s.id < Cardinality(run)
  /\ \A s, t \in run : s.id = t.id => s = t

\* Until they are reset the counters gain exactly the statements of the window.
Exact ==
  before # Absent /\ ~reset =>
    \A p \in Pattern : Count(Counted, p) = Count(before.entries, p) + Cardinality(Of(p))

ReconInv == ReconTypes /\ Numbered /\ Receipted /\ Gained /\ Exact

LEMMA CallsCount ==
  ASSUME NEW s, NEW p
  PROVE  Calls(s, p) = Count(s.entries, p)
BY DEF Calls, Count

LEMMA CountNat ==
  ASSUME NEW entries, Counters(entries), NEW p
  PROVE  Count(entries, p) \in Nat
BY DEF Counters, Count

\* An element of a finite set changed: as many as before.
LEMMA Replaced ==
  ASSUME NEW S, IsFiniteSet(S), NEW s \in S, NEW t, t \notin S \ {s}
  PROVE  /\ IsFiniteSet((S \ {s}) \cup {t})
         /\ Cardinality((S \ {s}) \cup {t}) = Cardinality(S)
<1>1. PICK R : R = S \ {s}
  OBVIOUS
<1>2. IsFiniteSet(R) /\ Cardinality(R) = Cardinality(S) - 1
  BY <1>1, FS_RemoveElement
<1>3. IsFiniteSet(R \cup {t}) /\ Cardinality(R \cup {t}) = Cardinality(R) + 1
  BY <1>1, <1>2, FS_AddElement
<1>4. Cardinality(S) \in Nat
  BY FS_CardinalityType
<1>5. QED
  BY <1>1, <1>2, <1>3, <1>4

\* The statements of a pattern are finitely many.
LEMMA OfFinite ==
  ASSUME Numbered, NEW p
  PROVE  IsFiniteSet(Of(p)) /\ Cardinality(Of(p)) \in Nat
<1>1. Of(p) \in SUBSET run
  BY DEF Of, Inside
<1>2. IsFiniteSet(Of(p))
  BY <1>1, FS_Subset DEF Numbered
<1>3. QED
  BY <1>2, FS_CardinalityType
-----------------------------------------------------------------------------
(* A statement.                                                            *)

LEMMA CountsOneMore ==
  ASSUME NEW p0 \in Pattern, Counters(calls), NEW p \in Pattern,
         calls' = [q \in DOMAIN calls \cup {p0} |-> IF q \notin DOMAIN calls THEN 1
                                              ELSE IF q = p0 THEN calls[q] + 1 ELSE calls[q]]
  PROVE  /\ Counters(calls')
         /\ Count(calls', p) = Count(calls, p) + (IF p = p0 THEN 1 ELSE 0)
<1>1. DOMAIN calls' = DOMAIN calls \cup {p0}
  OBVIOUS
<1>2. ASSUME NEW q \in DOMAIN calls'
      PROVE  calls'[q] = IF q \notin DOMAIN calls THEN 1 ELSE IF q = p0 THEN calls[q] + 1 ELSE calls[q]
  BY <1>2
<1>3. Counters(calls')
  BY <1>1, <1>2 DEF Counters
<1>4. CASE p \in DOMAIN calls
  <2>1. p \in DOMAIN calls' /\ calls[p] \in Nat
    BY <1>1, <1>4 DEF Counters
  <2>2. QED
    BY <1>2, <1>3, <1>4, <2>1 DEF Count
<1>5. CASE p \notin DOMAIN calls
  <2>1. p \in DOMAIN calls' <=> p = p0
    BY <1>1, <1>5
  <2>2. QED
    BY <1>2, <1>3, <1>5, <2>1 DEF Count
<1>6. QED
  BY <1>4, <1>5

\* A statement counts as one of its pattern's, if the window has begun.
LEMMA StatementStep ==
  ASSUME ReconInv, NEW p0 \in Pattern, Statement(p0)
  PROVE  ReconInv'
<1>1. run' = run \cup {[id |-> Cardinality(run), pattern |-> p0, receipt |-> Absent, inside |-> before # Absent]}
  BY DEF Statement
<1>2. PICK n : n = [id |-> Cardinality(run), pattern |-> p0, receipt |-> Absent, inside |-> before # Absent]
  OBVIOUS
<1>3. /\ n.id = Cardinality(run) /\ n.pattern = p0 /\ n.receipt = Absent /\ n.inside = (before # Absent)
      /\ run' = run \cup {n}
  BY <1>1, <1>2
<1>4. Cardinality(run) \in Nat
  BY FS_CardinalityType DEF ReconInv, Numbered
<1>5. IsRun(n)
  BY <1>2, <1>4 DEF IsRun
<1>6. n \notin run
  BY <1>3, <1>4 DEF ReconInv, Numbered
<1>7. IsFiniteSet(run') /\ Cardinality(run') = Cardinality(run) + 1
  BY <1>3, <1>6, FS_AddElement DEF ReconInv, Numbered
<1>8. Numbered'
  <2>1. \A s \in run' : IsRun(s)'
    BY <1>3, <1>5 DEF ReconInv, Numbered, IsRun
  <2>2. \A s \in run : s.id \in Nat /\ s.id < Cardinality(run)
    BY DEF ReconInv, Numbered, IsRun
  <2>3. \A s \in run' : s.id < Cardinality(run')
    BY <1>3, <1>4, <1>7, <2>2
  <2>4. \A s, t \in run' : s.id = t.id => s = t
    BY <1>3, <1>4, <2>2 DEF ReconInv, Numbered
  <2>5. QED
    BY <1>7, <2>1, <2>3, <2>4 DEF Numbered
<1>9. /\ UNCHANGED <<now, offset, receipts, before, after, reset>> /\ after = Absent
      /\ calls' = [q \in DOMAIN calls \cup {p0} |-> IF q \notin DOMAIN calls THEN 1
                                              ELSE IF q = p0 THEN calls[q] + 1 ELSE calls[q]]
  BY DEF Statement
<1>10. Receipted'
  BY <1>3, <1>9 DEF ReconInv, Receipted
<1>11. ASSUME NEW p \in Pattern
       PROVE  Count(calls', p) = Count(calls, p) + (IF p = p0 THEN 1 ELSE 0)
  BY <1>9, CountsOneMore DEF ReconInv, ReconTypes
<1>12. Counters(calls')
  BY <1>9, CountsOneMore DEF ReconInv, ReconTypes
<1>13. ReconTypes'
  <2>1. before = Absent => Inside' = {}
    BY <1>3 DEF ReconInv, ReconTypes, Inside
  <2>2. QED
    BY <1>9, <1>12, <2>1 DEF ReconInv, ReconTypes, IsSnapshot, Counters
<1>14. ASSUME NEW p \in Pattern, before # Absent
       PROVE  Of(p)' = IF p = p0 THEN Of(p) \cup {n} ELSE Of(p)
  BY <1>3, <1>14 DEF Of, Inside
<1>15. ASSUME NEW p \in Pattern
       PROVE  Count(calls, p) \in Nat
  BY CountNat DEF ReconInv, ReconTypes
<1>16. Counted = calls /\ Counted' = calls'
  BY <1>9 DEF Counted
<1>17. Gained'
  <2> SUFFICES ASSUME before # Absent, NEW p \in Pattern, Count(calls', p) > Count(before.entries, p)
               PROVE  Of(p)' # {}
    BY <1>9, <1>16 DEF Gained, Count
  <2>1. CASE p = p0
    BY <1>14, <2>1
  <2>2. CASE p # p0
    <3>1. Count(calls, p) > Count(before.entries, p)
      BY <1>11, <1>15, <2>2
    <3>2. Of(p) # {}
      BY <3>1, <1>16 DEF ReconInv, Gained
    <3>3. QED
      BY <1>14, <2>2, <3>2
  <2>3. QED
    BY <2>1, <2>2
<1>18. Exact'
  <2> SUFFICES ASSUME before # Absent, ~reset, NEW p \in Pattern
               PROVE  Count(calls', p) = Count(before.entries, p) + Cardinality(Of(p)')
    BY <1>9, <1>16 DEF Exact, Count
  <2>1. Count(calls, p) = Count(before.entries, p) + Cardinality(Of(p))
    BY <1>16 DEF ReconInv, Exact
  <2>2. IsFiniteSet(Of(p)) /\ Cardinality(Of(p)) \in Nat
    BY OfFinite DEF ReconInv
  <2>3. Count(before.entries, p) \in Nat
    BY CountNat DEF ReconInv, ReconTypes, IsSnapshot
  <2>4. CASE p = p0
    <3>1. n \notin Of(p)
      BY <1>6 DEF Of, Inside
    <3>2. Cardinality(Of(p) \cup {n}) = Cardinality(Of(p)) + 1
      BY <2>2, <3>1, FS_AddElement
    <3>3. QED
      BY <1>11, <1>14, <2>1, <2>2, <2>3, <2>4, <3>2
  <2>5. CASE p # p0
    BY <1>11, <1>14, <1>15, <2>1, <2>2, <2>3, <2>5
  <2>6. QED
    BY <2>4, <2>5
<1>19. QED
  BY <1>8, <1>10, <1>13, <1>17, <1>18 DEF ReconInv
-----------------------------------------------------------------------------
(* The other steps.                                                        *)

\* A receipt stays with its statement: there are as many as before.
LEMMA ReceiptStep ==
  ASSUME ReconInv, NEW s \in run, Receipt(s)
  PROVE  ReconInv'
<1>a. PICK said \in s.pattern.said : \E r :
        /\ r = [ts |-> now + offset, tool |-> said.tool, named |-> said.named]
        /\ run' = (run \ {s}) \cup {[s EXCEPT !.receipt = r]}
        /\ receipts' = receipts \cup {r}
  BY DEF Receipt
<1>b. PICK r :
        /\ r = [ts |-> now + offset, tool |-> said.tool, named |-> said.named]
        /\ run' = (run \ {s}) \cup {[s EXCEPT !.receipt = r]}
        /\ receipts' = receipts \cup {r}
  BY <1>a
<1>1. PICK t : t = [s EXCEPT !.receipt = r]
  OBVIOUS
<1>2. IsRun(s) /\ r.ts \in Int
  BY <1>b DEF ReconInv, Numbered, ReconTypes
<1>3. IsRun(t) /\ t.id = s.id /\ t.pattern = s.pattern /\ t.inside = s.inside /\ t.receipt = r
  BY <1>1, <1>2 DEF IsRun
<1>4. /\ run' = (run \ {s}) \cup {t}
      /\ receipts' = receipts \cup {r}
      /\ UNCHANGED <<now, offset, calls, before, after, reset>>
  BY <1>b, <1>1 DEF Receipt
<1>5. t \notin run \ {s}
  BY <1>3 DEF ReconInv, Numbered
<1>6. IsFiniteSet(run') /\ Cardinality(run') = Cardinality(run)
  BY <1>4, <1>5, Replaced DEF ReconInv, Numbered
<1>7. Numbered'
  <2>1. \A u \in run' : IsRun(u)'
    BY <1>3, <1>4 DEF ReconInv, Numbered, IsRun
  <2>2. \A u \in run' : u.id < Cardinality(run')
    BY <1>3, <1>4, <1>6 DEF ReconInv, Numbered
  <2>3. \A u, v \in run' : u.id = v.id => u = v
    BY <1>3, <1>4 DEF ReconInv, Numbered
  <2>4. QED
    BY <1>6, <2>1, <2>2, <2>3 DEF Numbered
<1>8. Receipted'
  BY <1>2, <1>3, <1>4 DEF ReconInv, Receipted
<1>9. ReconTypes'
  <2>1. before = Absent => Inside' = {}
    BY <1>3, <1>4 DEF ReconInv, ReconTypes, Inside
  <2>2. QED
    BY <1>4, <2>1 DEF ReconInv, ReconTypes, IsSnapshot, Counters
<1>10. Counted' = Counted
  BY <1>4 DEF Counted
<1>11. ASSUME NEW p \in Pattern
       PROVE  (Of(p) # {} => Of(p)' # {}) /\ Cardinality(Of(p)') = Cardinality(Of(p))
  <2>1. CASE s \in Of(p)
    <3>1. Of(p)' = (Of(p) \ {s}) \cup {t}
      BY <1>3, <1>4, <2>1 DEF Of, Inside
    <3>2. t \notin Of(p) \ {s}
      BY <1>5 DEF Of, Inside
    <3>3. Cardinality(Of(p)') = Cardinality(Of(p))
      BY <2>1, <3>1, <3>2, OfFinite, Replaced DEF ReconInv
    <3>4. QED
      BY <3>1, <3>3
  <2>2. CASE s \notin Of(p)
    <3>1. Of(p)' = Of(p)
      BY <1>3, <1>4, <2>2 DEF Of, Inside
    <3>2. QED
      BY <3>1
  <2>3. QED
    BY <2>1, <2>2
<1>12. Gained' /\ Exact'
  BY <1>4, <1>10, <1>11 DEF ReconInv, Gained, Exact, Count
<1>13. QED
  BY <1>7, <1>8, <1>9, <1>12 DEF ReconInv

\* The counters start again: none is above what it was, and nothing is exact.
LEMMA ResetStep ==
  ASSUME ReconInv, Reset
  PROVE  ReconInv'
<1>1. /\ calls' = <<>> /\ reset' = (before # Absent /\ after = Absent)
      /\ UNCHANGED <<now, offset, run, receipts, before, after>> /\ ~reset
  BY DEF Reset
<1>2. DOMAIN calls' = {}
  BY <1>1
<1>3. Counters(calls')
  BY <1>2 DEF Counters
<1>4. ReconTypes'
  BY <1>1, <1>3 DEF ReconInv, ReconTypes, IsSnapshot, Counters, Inside
<1>5. Numbered' /\ Receipted'
  BY <1>1 DEF ReconInv, Numbered, Receipted
<1>6. \A p : Of(p)' = Of(p)
  BY <1>1 DEF Of, Inside
<1>7. CASE after = Absent
  <2>1. \A p : Count(Counted', p) = 0
    BY <1>1, <1>2, <1>7 DEF Counted, Count
  <2>2. before # Absent => \A p : Count(before.entries, p) \in Nat
    BY CountNat DEF ReconInv, ReconTypes, IsSnapshot
  <2>3. Gained'
    <3> SUFFICES ASSUME before # Absent, NEW p \in Pattern
                 PROVE  ~ (Count(Counted', p) > Count(before.entries, p))
      BY <1>1 DEF Gained, Count
    <3>1. Count(Counted', p) = 0 /\ Count(before.entries, p) \in Nat
      BY <2>1, <2>2
    <3>2. QED
      BY <3>1
  <2>4. Exact'
    BY <1>1, <1>7 DEF Exact
  <2>5. QED
    BY <1>4, <1>5, <2>3, <2>4 DEF ReconInv
<1>8. CASE after # Absent
  <2>1. Counted' = Counted
    BY <1>1, <1>8 DEF Counted
  <2>2. Gained' /\ Exact'
    BY <1>1, <1>6, <2>1 DEF ReconInv, Gained, Exact, Count
  <2>3. QED
    BY <1>4, <1>5, <2>2 DEF ReconInv
<1>9. QED
  BY <1>7, <1>8

\* A snapshot has the counters as they are.
LEMMA SnapshotStep ==
  ASSUME ReconInv, Snapshot
  PROVE  ReconInv'
<1>1. PICK s : s = [ts |-> now, role |-> "reader", entries |-> calls]
  OBVIOUS
<1>2. /\ after = Absent /\ UNCHANGED <<now, offset, calls, run, receipts, reset>>
      /\ IF before = Absent THEN before' = s /\ after' = after
         ELSE before' = before /\ after' \in {s, [s EXCEPT !.role = "owner"]}
  BY <1>1 DEF Snapshot
<1>3. \A u \in {s, [s EXCEPT !.role = "owner"]} : IsSnapshot(u) /\ u.entries = calls
  BY <1>1 DEF ReconInv, ReconTypes, IsSnapshot
<1>4. Numbered' /\ Receipted'
  BY <1>2 DEF ReconInv, Numbered, Receipted
<1>5. \A p : Of(p)' = Of(p)
  BY <1>2 DEF Of, Inside
<1>6. CASE before = Absent
  <2>1. before' = s /\ after' = after
    BY <1>2, <1>6
  <2>2. Counted' = calls /\ (before' # Absent => before'.entries = calls)
    BY <1>1, <1>2, <2>1 DEF Counted
  <2>3. ASSUME NEW p \in Pattern
        PROVE  Count(calls, p) \in Nat /\ Cardinality(Of(p)') = 0
    <3>1. Of(p)' = {}
      BY <1>5, <1>6 DEF ReconInv, ReconTypes, Of
    <3>2. QED
      BY <3>1, CountNat, FS_EmptySet DEF ReconInv, ReconTypes
  <2>4. Gained'
    <3> SUFFICES ASSUME before' # Absent, NEW p \in Pattern
                 PROVE  ~ (Count(Counted', p) > Count(before'.entries, p))
      BY DEF Gained, Count
    <3>1. QED
      BY <2>2, <2>3
  <2>5. Exact'
    <3> SUFFICES ASSUME before' # Absent, NEW p \in Pattern
                 PROVE  Count(Counted', p) = Count(before'.entries, p) + Cardinality(Of(p)')
      BY DEF Exact, Count
    <3>1. QED
      BY <2>2, <2>3
  <2>6. ReconTypes'
    BY <1>2, <1>3, <1>6, <2>1 DEF ReconInv, ReconTypes, IsSnapshot, Counters, Inside
  <2>7. QED
    BY <1>4, <2>4, <2>5, <2>6 DEF ReconInv
<1>7. CASE before # Absent
  <2>1. before' = before /\ IsSnapshot(after') /\ after'.entries = calls
    BY <1>2, <1>3, <1>7
  <2>2. Counted' = Counted
    BY <1>2, <2>1 DEF Counted
  <2>3. Gained' /\ Exact'
    BY <1>2, <1>5, <2>1, <2>2 DEF ReconInv, Gained, Exact, Count
  <2>4. ReconTypes'
    BY <1>2, <1>7, <2>1 DEF ReconInv, ReconTypes, IsSnapshot, Counters, Inside
  <2>5. QED
    BY <1>4, <2>3, <2>4 DEF ReconInv
<1>8. QED
  BY <1>6, <1>7

LEMMA ReconUntouched ==
  ASSUME ReconInv, now' \in Int, UNCHANGED <<offset, calls, run, receipts, before, after, reset>>
  PROVE  ReconInv'
<1>1. \A p : Of(p)' = Of(p)
  BY DEF Of, Inside
<1>2. Counted' = Counted
  BY DEF Counted
<1>3. Gained' /\ Exact'
  BY <1>1, <1>2 DEF ReconInv, Gained, Exact, Count
<1>4. Numbered' /\ Receipted'
  BY DEF ReconInv, Numbered, Receipted
<1>5. ReconTypes'
  BY DEF ReconInv, ReconTypes, IsSnapshot, Counters, Inside
<1>6. QED
  BY <1>3, <1>4, <1>5 DEF ReconInv

\* The window's bookkeeping, at every moment.
LEMMA ReconAlways == ReconcileSpec => []ReconInv
<1>1. ReconcileInit => ReconInv
  <2> SUFFICES ASSUME ReconcileInit PROVE ReconInv
    OBVIOUS
  <2>1. Counters(calls)
    BY DEF ReconcileInit, Counters
  <2>2. Numbered
    BY FS_EmptySet DEF ReconcileInit, Numbered
  <2>3. Inside = {} /\ Receipted /\ Gained /\ Exact
    BY DEF ReconcileInit, Receipted, Gained, Exact, Inside
  <2>4. now \in Int /\ offset \in Int /\ reset \in BOOLEAN
    <3>1. offset \in ClockOffsets /\ ClockOffsets \subseteq Int
      BY ReconcileAssumption DEF ReconcileInit
    <3>2. offset \in Int
      BY <3>1
    <3>3. now \in Int
      BY DEF ReconcileInit
    <3>4. reset \in BOOLEAN
      BY DEF ReconcileInit
    <3>5. QED
      BY <3>2, <3>3, <3>4
  <2>5. ReconTypes
    BY <2>1, <2>3, <2>4 DEF ReconcileInit, ReconTypes
  <2>6. QED
    BY <2>2, <2>3, <2>5 DEF ReconInv
<1>2. ReconInv /\ [ReconcileNext]_reconcileVars => ReconInv'
  <2> SUFFICES ASSUME ReconInv, [ReconcileNext]_reconcileVars PROVE ReconInv'
    OBVIOUS
  <2>1. CASE Tick
    <3>1. now' \in Int /\ UNCHANGED <<offset, calls, run, receipts, before, after, reset>>
      BY <2>1 DEF Tick, ReconInv, ReconTypes
    <3>2. QED
      BY <3>1, ReconUntouched
  <2>2. CASE Reset
    BY <2>2, ResetStep
  <2>3. CASE Snapshot
    BY <2>3, SnapshotStep
  <2>4. CASE \E p \in Pattern : Statement(p)
    BY <2>4, StatementStep
  <2>5. CASE \E s \in run : Receipt(s)
    BY <2>5, ReceiptStep
  <2>6. CASE UNCHANGED reconcileVars
    <3>1. now' \in Int /\ UNCHANGED <<offset, calls, run, receipts, before, after, reset>>
      BY <2>6 DEF reconcileVars, ReconInv, ReconTypes
    <3>2. QED
      BY <3>1, ReconUntouched
  <2>7. QED
    BY <2>1, <2>2, <2>3, <2>4, <2>5, <2>6 DEF ReconcileNext
<1>3. QED
  BY <1>1, <1>2, PTL DEF ReconcileSpec
-----------------------------------------------------------------------------
(* The reconciliation: what the tool concludes from the window.            *)

LEMMA DistanceNat ==
  ASSUME NEW r, r.ts \in Int, NEW from \in Int, NEW to \in Int
  PROVE  Distance(r, from, to) \in Nat
BY DEF Distance

LEMMA DeclaredNat ==
  ASSUME NEW flag \in Skews, NEW profile \in Profiles
  PROVE  DeclaredSkew(flag, profile) \in Nat \cup {Absent}
BY ReconcileAssumption DEF DeclaredSkew

\* The nearest of the receipts outside is no further than any of them.
LEMMA NearestOutside ==
  ASSUME Receipted, NEW from \in Int, NEW to \in Int, NEW table,
         NEW x \in Outside(receipts, from, to, table)
  PROVE  LET d == Outside(receipts, from, to, table)
         IN  x \in Nat /\ Min(d) \in Nat /\ Min(d) <= x
<1>1. PICK d : d = Outside(receipts, from, to, table)
  OBVIOUS
<1>2. d \in SUBSET Nat
  BY <1>1, DistanceNat DEF Outside, Receipted
<1>3. PICK k \in d : \A j \in d : k <= j
  BY <1>1, <1>2, LeastNumber
<1>4. Min(d) \in d /\ \A j \in d : Min(d) <= j
  BY <1>3 DEF Min
<1>5. QED
  BY <1>1, <1>2, <1>4

\* A gap is excused, or there is none, where one of the pattern's statements has
\* a receipt that names all that is found in its text, no further outside the
\* window than the declared skew.
LEMMA ReceiptExcuses ==
  ASSUME Receipted, NEW from \in Int, NEW to \in Int, NEW skew \in Nat \cup {Absent},
         NEW s \in run, s.receipt # Absent,
         UserTables(s.pattern) \subseteq Segments(s.receipt.named),
         skew = Absent \/ ~ (Distance(s.receipt, from, to) > skew)
  PROVE  LET gap == Uncovered(s.pattern, ReceiptCoverage(receipts, from, to))
         IN  gap = {} \/ Explained(gap, receipts, from, to, skew)
<1>1. PICK r : r = s.receipt
  OBVIOUS
<1>2. r \in receipts /\ UserTables(s.pattern) \subseteq Segments(r.named) /\ r.ts \in Int
  BY <1>1 DEF Receipted
<1>4. PICK x : x = Distance(r, from, to)
  OBVIOUS
<1>5. x \in Nat /\ (skew = Absent \/ x <= skew)
  BY <1>1, <1>2, <1>4, DistanceNat
<1>6. PICK gap : gap = Uncovered(s.pattern, ReceiptCoverage(receipts, from, to))
  OBVIOUS
<1>7. CASE x = 0
  <2>1. UserTables(s.pattern) \subseteq ReceiptCoverage(receipts, from, to)
    BY <1>2, <1>4, <1>7 DEF ReceiptCoverage
  <2>2. QED
    BY <2>1 DEF Uncovered
<1>8. CASE x > 0
  <2> SUFFICES ASSUME NEW t \in gap
               PROVE  LET d == Outside(receipts, from, to, t)
                      IN  d # {} /\ (skew = Absent \/ Min(d) <= skew)
    BY <1>6 DEF Explained
  <2>1. t \in Segments(r.named)
    BY <1>2, <1>6 DEF Uncovered
  <2>2. x \in Outside(receipts, from, to, t)
    BY <1>2, <1>4, <1>8, <2>1 DEF Outside
  <2>3. PICK m : m = Min(Outside(receipts, from, to, t))
    OBVIOUS
  <2>4. m \in Nat /\ m <= x
    BY <2>2, <2>3, NearestOutside
  <2>5. skew = Absent \/ m <= skew
    BY <1>5, <2>4
  <2>6. QED
    BY <2>2, <2>3, <2>5
<1>9. QED
  BY <1>5, <1>6, <1>7, <1>8

\* Snapshots that are compared count what the window's invariant counts.
LEMMA WindowTypes ==
  ASSUME ReconInv, after # Absent
  PROVE  /\ before # Absent /\ before.ts \in Int /\ after.ts \in Int
         /\ DOMAIN after.entries \subseteq Pattern
         /\ \A p : Calls(after, p) = Count(Counted, p) /\ Calls(before, p) = Count(before.entries, p)
         /\ \A p : Calls(after, p) \in Nat /\ Calls(before, p) \in Nat
<1>1. before # Absent /\ IsSnapshot(before) /\ IsSnapshot(after)
  BY DEF ReconInv, ReconTypes
<1>2. Counted = after.entries
  BY DEF Counted
<1>3. Counters(before.entries) /\ Counters(after.entries) /\ before.ts \in Int /\ after.ts \in Int
  BY <1>1 DEF IsSnapshot
<1>4. \A p : Calls(after, p) = Count(after.entries, p) /\ Calls(before, p) = Count(before.entries, p)
  BY CallsCount
<1>5. \A p : Count(after.entries, p) \in Nat /\ Count(before.entries, p) \in Nat
  BY <1>3, CountNat
<1>6. QED
  BY <1>1, <1>2, <1>3, <1>4, <1>5 DEF Counters

\* A statement of the window is among what the counters gained, by as many as
\* there are of its pattern, while nobody reset them.
LEMMA StatementCounted ==
  ASSUME ReconInv, after # Absent, ~reset, NEW s \in Inside
  PROVE  /\ s.pattern \in DOMAIN after.entries
         /\ Calls(after, s.pattern) > Calls(before, s.pattern)
         /\ Calls(after, s.pattern) - Calls(before, s.pattern) = Cardinality(Of(s.pattern))
<1>1. PICK p : p = s.pattern
  OBVIOUS
<1>2. p \in Pattern
  BY <1>1 DEF Inside, ReconInv, Numbered, IsRun
<1>3. Calls(after, p) = Calls(before, p) + Cardinality(Of(p))
  BY <1>2, WindowTypes DEF ReconInv, Exact
<1>4. IsFiniteSet(Of(p)) /\ Cardinality(Of(p)) \in Nat
  BY OfFinite DEF ReconInv
<1>5. Cardinality(Of(p)) # 0
  <2>1. s \in Of(p)
    BY <1>1 DEF Of
  <2>2. QED
    BY <1>4, <2>1, FS_EmptySet
<1>6. Calls(after, p) \in Nat /\ Calls(before, p) \in Nat
  BY WindowTypes
<1>7. /\ Calls(after, p) > Calls(before, p)
      /\ Calls(after, p) - Calls(before, p) = Cardinality(Of(p))
  BY <1>3, <1>4, <1>5, <1>6
<1>8. p \in DOMAIN after.entries
  BY <1>6, <1>7 DEF Calls
<1>9. QED
  BY <1>1, <1>7, <1>8

\* A pattern in which a table is found is data, if it is not housekeeping.
LEMMA ReadsIsData ==
  ASSUME NEW p, ~p.infra, UserTables(p) # {}
  PROVE  Kind(p) = "data"
<1>1. ExtractTables(p) # {}
  BY DEF UserTables, Segments
<1>2. QED
  BY <1>1 DEF Kind

\* What the tool says of a pattern of data that was counted.
LEMMA ResultOfData ==
  ASSUME NEW b, NEW a, NEW fileOf, NEW skew, NEW p \in DOMAIN a.entries,
         Calls(a, p) > Calls(b, p), Kind(p) = "data",
         p \notin Result(b, a, fileOf, skew).unreconciled,
         p \notin Result(b, a, fileOf, skew).indeterminate
  PROVE  /\ Uncovered(p, ReceiptCoverage(fileOf, b.ts, a.ts)) = {}
         /\ p \in Result(b, a, fileOf, skew).reconciled
BY DEF Result

LEMMA ResultUnreconciled ==
  ASSUME NEW b, NEW a, NEW fileOf, NEW skew, NEW p \in Result(b, a, fileOf, skew).unreconciled
  PROVE  LET gap == Uncovered(p, ReceiptCoverage(fileOf, b.ts, a.ts))
         IN  /\ p \in DOMAIN a.entries /\ Calls(a, p) > Calls(b, p)
             /\ gap # {} /\ ~ Explained(gap, fileOf, b.ts, a.ts, skew)
BY DEF Result

\* What is not unassigned is not a receipt of a query that names nothing.
LEMMA BlankIsUnassigned ==
  ASSUME NEW b, NEW a, NEW fileOf, NEW skew, NEW r \in fileOf, Distance(r, b.ts, a.ts) = 0,
         r.named = {}, r.tool \in {"query", "search"}
  PROVE  Result(b, a, fileOf, skew).unassigned # {}
BY DEF Result, UnassignedReceipts

\* Whatever the clocks, the statements past the gateway, the resets and what the
\* receipts name: each statement of what the tool reports as run without a receipt
\* has none, or one further outside the window than the operator's declared skew,
\* or one that leaves out what was found in its text, of which the tool warns where
\* it names nothing.
THEOREM NobodyIsAccusedForAClock == ReconcileSpec => []NoFalseAccusation
<1>1. ReconInv => NoFalseAccusation
  <2> SUFFICES ASSUME ReconInv, after # Absent, NEW flag \in Skews, NEW profile \in Profiles,
                      NEW skew, skew = DeclaredSkew(flag, profile),
                      NEW result, result = Result(before, after, receipts, skew),
                      NEW p \in result.unreconciled
               PROVE  /\ \E s \in Inside : s.pattern = p
                      /\ \A s \in Inside : s.pattern = p =>
                           \/ s.receipt = Absent
                           \/ skew # Absent /\ Distance(s.receipt, before.ts, after.ts) > skew
                           \/ /\ ~(UserTables(s.pattern) \subseteq Segments(s.receipt.named))
                              /\ /\ s.receipt.named = {} /\ s.receipt.tool \in {"query", "search"}
                                 /\ Distance(s.receipt, before.ts, after.ts) = 0
                                 => result.unassigned # {}
    BY DEF NoFalseAccusation
  <2>1. p \in DOMAIN after.entries /\ Calls(after, p) > Calls(before, p)
    BY ResultUnreconciled
  <2>2. \E s \in Inside : s.pattern = p
    <3>1. Of(p) # {}
      BY <2>1, WindowTypes DEF ReconInv, Gained
    <3>2. QED
      BY <3>1 DEF Of
  <2>3. skew \in Nat \cup {Absent} /\ before.ts \in Int /\ after.ts \in Int
    BY DeclaredNat, WindowTypes
  <2>4. ASSUME NEW s \in Inside, s.pattern = p, s.receipt # Absent,
               skew = Absent \/ ~ (Distance(s.receipt, before.ts, after.ts) > skew)
        PROVE  ~ (UserTables(s.pattern) \subseteq Segments(s.receipt.named))
    <3> SUFFICES ASSUME UserTables(s.pattern) \subseteq Segments(s.receipt.named)
                 PROVE  FALSE
      OBVIOUS
    <3>1. PICK gap : gap = Uncovered(p, ReceiptCoverage(receipts, before.ts, after.ts))
      OBVIOUS
    <3>2. s \in run
      BY DEF Inside
    <3>3. gap = {} \/ Explained(gap, receipts, before.ts, after.ts, skew)
      BY <2>3, <2>4, <3>1, <3>2, ReceiptExcuses DEF ReconInv
    <3>4. gap # {} /\ ~ Explained(gap, receipts, before.ts, after.ts, skew)
      BY <3>1, ResultUnreconciled
    <3>5. QED
      BY <3>3, <3>4
  <2>5. ASSUME NEW s \in Inside, s.receipt # Absent, s.receipt.named = {},
               s.receipt.tool \in {"query", "search"}, Distance(s.receipt, before.ts, after.ts) = 0
        PROVE  result.unassigned # {}
    <3>1. s.receipt \in receipts
      BY <2>5 DEF Inside, ReconInv, Receipted
    <3>2. QED
      BY <2>5, <3>1, BlankIsUnassigned
  <2>6. QED
    BY <2>2, <2>4, <2>5
<1>2. QED
  BY <1>1, ReconAlways, PTL

\* A window without resets that the tool finds clean has receipts for all that is
\* found in its statements but housekeeping, and so for all that they read where
\* their texts are legible.  Without exceptions it has them as the profile's
\* multiplicity has it, and no receipts of what none of them was found to read.
THEOREM CleanWindowsHaveReceipts == ReconcileSpec => []CleanMeansReceipted
<1>1. ReconInv => CleanMeansReceipted
  <2> SUFFICES ASSUME ReconInv, after # Absent, ~reset,
                      NEW flag \in Skews, NEW profile \in Profiles,
                      NEW code, code = ReconcileExit(before, after, receipts, flag, profile),
                      NEW result, result = Result(before, after, receipts, DeclaredSkew(flag, profile)),
                      NEW covered, covered = ReceiptCoverage(receipts, before.ts, after.ts)
               PROVE  /\ code = 0 =>
                           \A s \in Inside :
                             /\ ~s.pattern.infra => /\ ExtractTables(s.pattern) # {}
                                                   /\ UserTables(s.pattern) \subseteq covered
                             /\ Legible(s.pattern) => Segments(Reads(s.pattern)) \subseteq covered
                      /\ code # 20 /\ ~Exceptions(result, before, after, profile) =>
                           /\ code = 0
                           /\ \A s \in Inside : Kind(s.pattern) = "data" =>
                                Cardinality(Of(s.pattern)) <= profile.max
                           /\ \A r \in receipts :
                                Distance(r, before.ts, after.ts) = 0 /\ r.named # {} =>
                                  \E s \in Inside : /\ Kind(s.pattern) = "data"
                                                    /\ Segments(r.named) \cap UserTables(s.pattern) # {}
    BY DEF CleanMeansReceipted, Of
  <2>1. code # 20 => code = IF result.unreconciled \cup result.unattributed # {} THEN 40
                             ELSE IF result.indeterminate # {} THEN 41 ELSE 0
    BY DEF ReconcileExit
  <2>2. ASSUME NEW s \in Inside
        PROVE  /\ s.pattern \in DOMAIN after.entries
               /\ Calls(after, s.pattern) > Calls(before, s.pattern)
    BY StatementCounted
  <2>3. ASSUME NEW s \in Inside, result.unreconciled = {}, result.indeterminate = {},
               Kind(s.pattern) = "data"
        PROVE  /\ Uncovered(s.pattern, covered) = {}
               /\ s.pattern \in result.reconciled
    BY <2>2, <2>3, ResultOfData
  <2>4. ASSUME code = 0, NEW s \in Inside, ~s.pattern.infra
        PROVE  ExtractTables(s.pattern) # {} /\ UserTables(s.pattern) \subseteq covered
    <3>1. result.unreconciled = {} /\ result.indeterminate = {} /\ result.unattributed = {}
      BY <2>1, <2>4
    <3>2. ExtractTables(s.pattern) # {}
      <4>1. Kind(s.pattern) # "unattributed"
        BY <2>2, <3>1 DEF Result
      <4>2. QED
        BY <2>4, <4>1 DEF Kind
    <3>3. CASE UserTables(s.pattern) = {}
      BY <3>2, <3>3
    <3>4. CASE UserTables(s.pattern) # {}
      <4>1. Kind(s.pattern) = "data"
        BY <2>4, <3>4, ReadsIsData
      <4>2. Uncovered(s.pattern, covered) = {}
        BY <2>3, <3>1, <4>1
      <4>3. QED
        BY <3>2, <4>2 DEF Uncovered
    <3>5. QED
      BY <3>3, <3>4
  <2>5. ASSUME code = 0, NEW s \in Inside, Legible(s.pattern)
        PROVE  Segments(Reads(s.pattern)) \subseteq covered
    <3>1. ~s.pattern.infra /\ Segments(Reads(s.pattern)) \subseteq UserTables(s.pattern)
      BY <2>5 DEF Legible
    <3>2. UserTables(s.pattern) \subseteq covered
      BY <2>4, <2>5, <3>1
    <3>3. QED
      BY <3>1, <3>2
  <2>6. ASSUME code # 20, ~Exceptions(result, before, after, profile)
        PROVE  /\ code = 0
               /\ \A s \in Inside : Kind(s.pattern) = "data" =>
                    Cardinality(Of(s.pattern)) <= profile.max
    <3>1. result.unreconciled = {} /\ result.indeterminate = {} /\ result.unattributed = {}
      BY <2>6 DEF Exceptions
    <3>2. code = 0
      BY <2>1, <2>6, <3>1
    <3>3. ASSUME NEW s \in Inside, Kind(s.pattern) = "data"
          PROVE  Cardinality(Of(s.pattern)) <= profile.max
      <4>1. PICK p : p = s.pattern
        OBVIOUS
      <4>2. p \in result.reconciled
        BY <2>3, <3>1, <3>3, <4>1
      <4>3. /\ profile # Absent /\ profile.max # Absent
            /\ ~ (Calls(after, p) - Calls(before, p) > profile.max)
        BY <2>6, <4>2 DEF Exceptions
      <4>4. profile.max \in Nat
        BY <4>3, ReconcileAssumption
      <4>5. Calls(after, p) - Calls(before, p) = Cardinality(Of(p))
        BY <4>1, StatementCounted
      <4>6. Cardinality(Of(p)) \in Nat
        BY OfFinite DEF ReconInv
      <4>7. QED
        BY <4>1, <4>3, <4>4, <4>5, <4>6
    <3>4. QED
      BY <3>2, <3>3
  <2>7. ASSUME ~Exceptions(result, before, after, profile), NEW r \in receipts,
               Distance(r, before.ts, after.ts) = 0, r.named # {}
        PROVE  \E s \in Inside : Kind(s.pattern) = "data" /\ Segments(r.named) \cap UserTables(s.pattern) # {}
    <3>1. result.unobserved = {}
      BY <2>7 DEF Exceptions
    <3>2. PICK observed : observed = UNION {UserTables(p) : p \in {q \in DOMAIN after.entries :
                                              Calls(after, q) > Calls(before, q) /\ Kind(q) = "data"}}
      OBVIOUS
    <3>3. result.unobserved = Unobserved(receipts, before.ts, after.ts, observed)
      BY <3>2 DEF Result
    <3>4. Segments(r.named) \cap observed # {}
      BY <2>7, <3>1, <3>3 DEF Unobserved
    <3>5. PICK p \in DOMAIN after.entries :
            /\ Calls(after, p) > Calls(before, p) /\ Kind(p) = "data"
            /\ Segments(r.named) \cap UserTables(p) # {}
      BY <3>2, <3>4
    <3>6. Of(p) # {}
      BY <3>5, WindowTypes DEF ReconInv, Gained
    <3>7. QED
      BY <3>5, <3>6 DEF Of
  <2>8. QED
    BY <2>4, <2>5, <2>6, <2>7
<1>2. QED
  BY <1>1, ReconAlways, PTL
-----------------------------------------------------------------------------
(* The stamps of a document.                                               *)

\* A revision's number, or an operation with what it adds.
Operation == {"nonce", "submit", "relay", "block"} \X Nat
Element == Nat \cup Operation
Message == Seq(Element)
Attestation == [msg: Message, kind: {"pending", "bitcoin"}, at: Nat]
Ots == [msg: Message, atts: SUBSET Attestation]
Row == [seq: Nat, hash: Nat, ots: Ots, state: {"pending", "bitcoin"}, block: Nat]
StampRun == [pc: {"idle", "asking", "stamped", "counted"}, hash: Nat, nonce: Nat, ots: Ots, seq: Nat]

DocumentTypes ==
  /\ revisions \in Seq(Nat) /\ height \in Nat
  /\ received \subseteq Calendars \X Message
  /\ roots \subseteq Message \X Nat
  /\ sidecar \in Seq(Row) /\ told \in Seq(Nat)
  /\ stamping \in [Stampers -> StampRun]
  /\ upgrading \in [pc: {"idle", "asking"}, left: Seq(Row), out: Seq(Row), changed: BOOLEAN, runs: Nat]
  /\ begun \in Nat /\ overlap \in BOOLEAN

\* A message a calendar has been given, or one above it, is of the revision.
About(msg, hash) == Len(msg) >= 3 /\ msg[1] = hash /\ SubmittedTo(msg) \in Nat

ProvesRevision(ots, hash) ==
  /\ ots.msg = <<hash>>
  /\ \A a \in ots.atts : About(a.msg, hash) /\ (a.kind = "bitcoin" => <<a.msg, a.at>> \in roots)

RowTrue(row) ==
  /\ row.hash \in DOMAIN revisions /\ ProvesRevision(row.ots, row.hash)
  /\ row.state = State(row.ots)
  /\ Confirmations(row.ots) # {} => row.block = FirstConfirmation(row.ots).at

RunTrue(r) ==
  /\ r.pc # "idle" => r.hash \in DOMAIN revisions
  /\ r.pc \in {"stamped", "counted"} => ProvesRevision(r.ots, r.hash) /\ Confirmations(r.ots) = {}

\* Wherever a row or a proof is, in the sidecar or in a run's memory, it says
\* what is so; and a block has only messages of revisions that were there.
TruthInv ==
  /\ \A i \in DOMAIN revisions : revisions[i] <= height
  /\ Len(revisions) >= 1
  /\ \A r \in received : \E i \in DOMAIN revisions : About(r[2], i)
  /\ \A r \in roots : \E i \in DOMAIN revisions : About(r[1], i) /\ revisions[i] < r[2] /\ r[2] <= height
  /\ \A i \in DOMAIN sidecar : RowTrue(sidecar[i])
  /\ \A i \in DOMAIN upgrading.left : RowTrue(upgrading.left[i])
  /\ \A i \in DOMAIN upgrading.out : RowTrue(upgrading.out[i])
  /\ \A p \in Stampers : RunTrue(stamping[p])

\* Of the confirmations there is a first one.
LEMMA FirstIsThere ==
  ASSUME NEW ots, \A a \in Confirmations(ots) : SubmittedTo(a.msg) \in Nat, Confirmations(ots) # {}
  PROVE  FirstConfirmation(ots) \in Confirmations(ots)
<1> DEFINE S == {SubmittedTo(a.msg) : a \in Confirmations(ots)}
<1>1. S \in SUBSET Nat /\ S # {}
  OBVIOUS
<1>2. PICK k \in S : \A j \in S : k <= j
  BY <1>1, LeastNumber
<1>3. PICK a \in Confirmations(ots) : SubmittedTo(a.msg) = k
  BY <1>2
<1>4. \A b \in Confirmations(ots) : SubmittedTo(a.msg) <= SubmittedTo(b.msg)
  BY <1>2, <1>3
<1>5. QED
  BY <1>3, <1>4 DEF FirstConfirmation

\* What is done to a message leaves it about the same revision.
LEMMA MessageGrows ==
  ASSUME NEW m \in Message, NEW hash, About(m, hash), NEW x \in Element
  PROVE  Append(m, x) \in Message /\ About(Append(m, x), hash)
<1>1. m \in Seq(Element) /\ Len(m) \in Nat /\ Len(m) >= 3
  BY DEF Message, About
<1>2. /\ Append(m, x) \in Seq(Element) /\ Len(Append(m, x)) = Len(m) + 1
      /\ Append(m, x)[1] = m[1] /\ Append(m, x)[3] = m[3]
  BY <1>1
<1>3. QED
  BY <1>1, <1>2 DEF About, Message, SubmittedTo

LEMMA OpsAreElements ==
  ASSUME NEW n \in Nat
  PROVE  n \in Element /\ \A op \in {"nonce", "submit", "relay", "block"} : <<op, n>> \in Element
BY DEF Element, Operation

\* A calendar is given a message of the revision that is stamped.
LEMMA SubmittedIsAbout ==
  ASSUME NEW hash \in Nat, NEW nonce \in Nat, NEW c \in Calendars
  PROVE  Submitted(Tip(hash, nonce), c) \in Message /\ About(Submitted(Tip(hash, nonce), c), hash)
<1>1. c \in Nat
  BY StampsAssumption
<1>2. hash \in Element /\ <<"nonce", nonce>> \in Element /\ <<"submit", c>> \in Element
  BY <1>1, OpsAreElements
<1> DEFINE x == <<"nonce", nonce>>
           y == <<"submit", c>>
           tip == <<hash, x>>
<1>3. y[2] = c
  OBVIOUS
<1>4. Submitted(Tip(hash, nonce), c) = Append(tip, y)
  BY DEF Submitted, Tip
<1> HIDE DEF x, y
<1>5. tip \in Seq(Element) /\ tip[1] = hash
  BY <1>2 DEF x
<1>6. Len(tip) = 2
  OBVIOUS
<1> HIDE DEF tip
<1>7. y \in Element
  BY <1>2 DEF y
<1>8. /\ Append(tip, y) \in Seq(Element) /\ Len(Append(tip, y)) = Len(tip) + 1
      /\ Append(tip, y)[Len(tip) + 1] = y
      /\ \A i \in 1..Len(tip) : Append(tip, y)[i] = tip[i]
  BY <1>5, <1>7, AppendProperties
<1>9. Len(Append(tip, y)) = 3 /\ Append(tip, y)[1] = hash /\ Append(tip, y)[3] = y
  BY <1>5, <1>6, <1>8
<1>10. QED
  BY <1>1, <1>3, <1>4, <1>8, <1>9 DEF About, SubmittedTo, Message
-----------------------------------------------------------------------------
\* The way to a block is one about the revision.
LEMMA WayIsAbout ==
  ASSUME NEW m \in Message, NEW hash, About(m, hash), NEW c \in Calendars, NEW b \in Nat
  PROVE  /\ Relayed(m, c) \in Message /\ About(Relayed(m, c), hash)
         /\ InBlock(m, c, b) \in Message /\ About(InBlock(m, c, b), hash)
<1>1. c \in Nat
  BY StampsAssumption
<1>2. <<"relay", c>> \in Element /\ <<"block", b>> \in Element
  BY <1>1, OpsAreElements
<1>3. Relayed(m, c) \in Message /\ About(Relayed(m, c), hash)
  BY <1>2, MessageGrows DEF Relayed
<1>4. QED
  BY <1>2, <1>3, MessageGrows DEF InBlock

\* An answer of a calendar says what is so.
LEMMA FetchedIsTrue ==
  ASSUME DocumentTypes, NEW m \in Message, NEW hash, About(m, hash), NEW c \in Calendars, NEW r,
         NEW a \in Fetched(m, c, r)
  PROVE  /\ a \in Attestation /\ About(a.msg, hash)
         /\ a.kind = "bitcoin" => <<a.msg, a.at>> \in roots
<1>1. r = "relay" \/ r = "all"
  BY DEF Fetched
<1>2. CASE r = "relay"
  <2>1. a = Pending(Relayed(m, c), Unknown)
    BY <1>2 DEF Fetched
  <2>2. QED
    BY <2>1, WayIsAbout DEF Pending, Attestation, Unknown
<1>3. CASE r = "all"
  <2>1. PICK b \in 1 .. height : a = Bitcoin(InBlock(m, c, b), b) /\ <<InBlock(m, c, b), b>> \in roots
    BY <1>3 DEF Fetched
  <2>2. b \in Nat
    BY DEF DocumentTypes
  <2>3. InBlock(m, c, b) \in Message /\ About(InBlock(m, c, b), hash)
    BY <2>2, WayIsAbout
  <2>4. QED
    BY <2>1, <2>2, <2>3 DEF Bitcoin, Attestation
<1>4. QED
  BY <1>1, <1>2, <1>3

SameRow(r, s) == r.seq = s.seq /\ r.hash = s.hash

\* An upgraded row is a row, of the same stamp, and says what is so.
LEMMA UpgradedIsTrue ==
  ASSUME DocumentTypes, NEW row \in Row, RowTrue(row), NEW reach
  PROVE  Upgraded(row, reach) \in Row /\ RowTrue(Upgraded(row, reach)) /\ SameRow(Upgraded(row, reach), row)
<1> DEFINE up == Upgraded(row, reach)
           news == News(row, reach)
           ots == MergeTimestamp(row.ots, news)
<1>1. CASE news = {}
  BY <1>1 DEF Upgraded, SameRow
<1>2. CASE news # {}
  <2>1. row.ots \in Ots /\ row.ots.atts \subseteq Attestation /\ row.ots.msg \in Message
    BY DEF Row, Ots
  <2>2. ASSUME NEW a \in news
        PROVE  a \in Attestation /\ About(a.msg, row.hash) /\ (a.kind = "bitcoin" => <<a.msg, a.at>> \in roots)
    <3>1. PICK b \in Asked(row.ots) : a \in Fetched(b.msg, b.at, reach[b.at])
      BY DEF News
    <3>2. b \in row.ots.atts /\ b.at \in Calendars
      BY <3>1 DEF Asked
    <3>3. b.msg \in Message /\ About(b.msg, row.hash)
      BY <2>1, <3>2 DEF Attestation, RowTrue, ProvesRevision
    <3>4. QED
      BY <3>1, <3>2, <3>3, FetchedIsTrue
  <2>3. ots = [msg |-> row.ots.msg, atts |-> row.ots.atts \cup news]
    BY <2>1 DEF MergeTimestamp, Ots
  <2>4. ots \in Ots
    <3>1. row.ots.atts \cup news \subseteq Attestation
      BY <2>1, <2>2
    <3>2. [msg |-> row.ots.msg, atts |-> row.ots.atts \cup news] \in Ots
      BY <2>1, <3>1 DEF Ots
    <3>3. QED
      BY <2>3, <3>2
  <2>5. ProvesRevision(ots, row.hash)
    BY <2>2, <2>3 DEF RowTrue, ProvesRevision
  <2>6. State(ots) \in {"pending", "bitcoin"}
    BY DEF State
  <2> DEFINE block == IF Confirmations(ots) = {} THEN Unknown ELSE FirstConfirmation(ots).at
  <2>7. block \in Nat
    <3>1. CASE Confirmations(ots) = {}
      BY <3>1 DEF Unknown
    <3>2. CASE Confirmations(ots) # {}
      <4>1. \A a \in Confirmations(ots) : SubmittedTo(a.msg) \in Nat /\ a \in Attestation
        BY <2>4, <2>5 DEF Confirmations, ProvesRevision, About, Ots
      <4>2. FirstConfirmation(ots) \in Attestation
        BY <3>2, <4>1, FirstIsThere
      <4>3. QED
        BY <3>2, <4>2 DEF Attestation
    <3>3. QED
      BY <3>1, <3>2
  <2>8. up = [row EXCEPT !.ots = ots, !.state = State(ots), !.block = block]
    BY <1>2 DEF Upgraded
  <2> HIDE DEF ots, block, news
  <2>9. /\ up = [seq |-> row.seq, hash |-> row.hash, ots |-> ots, state |-> State(ots), block |-> block]
        /\ row.seq \in Nat /\ row.hash \in Nat
    BY <2>8 DEF Row
  <2> HIDE DEF up
  <2>10. up \in Row
    BY <2>4, <2>6, <2>7, <2>9 DEF Row
  <2>11. RowTrue(up)
    BY <2>5, <2>9 DEF RowTrue, block
  <2>12. SameRow(up, row)
    BY <2>9 DEF SameRow
  <2>13. QED
    BY <2>10, <2>11, <2>12 DEF up
<1>3. QED
  BY <1>1, <1>2
-----------------------------------------------------------------------------
\* What is true stays so while blocks and revisions only come to be.
LEMMA TruthKept ==
  ASSUME roots \subseteq roots', DOMAIN revisions \subseteq DOMAIN revisions'
  PROVE  /\ \A row : RowTrue(row) => RowTrue(row)'
         /\ \A r : RunTrue(r) => RunTrue(r)'
<1>1. ASSUME NEW ots, NEW hash, ProvesRevision(ots, hash) PROVE ProvesRevision(ots, hash)'
  BY <1>1 DEF ProvesRevision
<1>2. ASSUME NEW row, RowTrue(row) PROVE RowTrue(row)'
  <2>1. ProvesRevision(row.ots, row.hash)'
    BY <1>1, <1>2 DEF RowTrue
  <2>2. QED
    BY <1>2, <2>1 DEF RowTrue
<1>3. ASSUME NEW r, RunTrue(r) PROVE RunTrue(r)'
  <2>1. r.pc \in {"stamped", "counted"} => ProvesRevision(r.ots, r.hash)'
    BY <1>1, <1>3 DEF RunTrue
  <2>2. QED
    BY <1>3, <2>1 DEF RunTrue
<1>4. QED
  BY <1>2, <1>3

StampsInv == DocumentTypes /\ TruthInv

LEMMA RevisesTruly ==
  ASSUME StampsInv, Revise
  PROVE  StampsInv'
<1>1. /\ revisions' = Append(revisions, height) /\ revisions \in Seq(Nat) /\ height \in Nat
      /\ UNCHANGED <<height, received, roots, sidecar, stamping, upgrading, begun, told, overlap>>
  BY DEF Revise, StampsInv, DocumentTypes
<1>2. /\ revisions' \in Seq(Nat) /\ Len(revisions') = Len(revisions) + 1 /\ revisions'[Len(revisions) + 1] = height
      /\ \A i \in 1..Len(revisions) : revisions'[i] = revisions[i]
  BY <1>1, AppendProperties
<1>3. DOMAIN revisions = 1..Len(revisions) /\ DOMAIN revisions' = 1..(Len(revisions) + 1) /\ Len(revisions) \in Nat
  BY <1>1, <1>2
<1>4. roots \subseteq roots' /\ DOMAIN revisions \subseteq DOMAIN revisions'
  BY <1>1, <1>3
<1>5. DocumentTypes'
  BY <1>1, <1>2 DEF StampsInv, DocumentTypes
<1>6. \A i \in DOMAIN revisions' : revisions'[i] <= height'
  BY <1>1, <1>2, <1>3 DEF StampsInv, TruthInv
<1>7. Len(revisions') >= 1
  BY <1>2, <1>3
<1>8. /\ \A r \in received' : \E i \in DOMAIN revisions' : About(r[2], i)
      /\ \A r \in roots' : \E i \in DOMAIN revisions' : About(r[1], i) /\ revisions'[i] < r[2] /\ r[2] <= height'
  BY <1>1, <1>2, <1>3 DEF StampsInv, TruthInv
<1>9. /\ \A i \in DOMAIN sidecar' : RowTrue(sidecar[i])'
      /\ \A i \in DOMAIN upgrading.left' : RowTrue(upgrading.left[i])'
      /\ \A i \in DOMAIN upgrading.out' : RowTrue(upgrading.out[i])'
      /\ \A p \in Stampers : RunTrue(stamping[p])'
  BY <1>1, <1>4, TruthKept DEF StampsInv, TruthInv
<1>10. QED
  BY <1>5, <1>6, <1>7, <1>8, <1>9 DEF StampsInv, TruthInv, About, SubmittedTo

LEMMA MinesTruly ==
  ASSUME StampsInv, NEW calendars \in SUBSET Calendars, Mine(calendars)
  PROVE  StampsInv'
<1> DEFINE due == {r \in received : r[1] \in calendars /\ \A b \in 1 .. height : <<InBlock(r[2], r[1], b), b>> \notin roots}
           new == {<<InBlock(r[2], r[1], height + 1), height + 1>> : r \in due}
<1>1. /\ height' = height + 1 /\ roots' = roots \cup new
      /\ UNCHANGED <<revisions, received, sidecar, stamping, upgrading, begun, told, overlap>>
      /\ height \in Nat /\ revisions \in Seq(Nat) /\ received \subseteq Calendars \X Message
      /\ roots \subseteq Message \X Nat
  BY DEF Mine, StampsInv, DocumentTypes
<1>2. ASSUME NEW n \in new
      PROVE  /\ n \in Message \X Nat /\ n[2] = height + 1
             /\ \E i \in DOMAIN revisions : About(n[1], i)
  <2>1. PICK r \in due : n = <<InBlock(r[2], r[1], height + 1), height + 1>>
    OBVIOUS
  <2>2. r \in received /\ r[1] \in Calendars /\ r[2] \in Message
    BY <1>1
  <2>3. PICK i \in DOMAIN revisions : About(r[2], i)
    BY <2>2 DEF StampsInv, TruthInv
  <2>4. height + 1 \in Nat
    BY <1>1
  <2>5. InBlock(r[2], r[1], height + 1) \in Message /\ About(InBlock(r[2], r[1], height + 1), i)
    BY <2>2, <2>3, <2>4, WayIsAbout
  <2>6. QED
    BY <2>1, <2>4, <2>5
<1> HIDE DEF new
<1>3. DocumentTypes'
  <2>1. roots' \subseteq Message \X Nat /\ height' \in Nat
    BY <1>1, <1>2
  <2>2. QED
    BY <1>1, <2>1 DEF StampsInv, DocumentTypes
<1>4. \A i \in DOMAIN revisions : revisions[i] \in Nat /\ revisions[i] <= height
  BY <1>1 DEF StampsInv, TruthInv
<1>5. \A i \in DOMAIN revisions : revisions[i] < height + 1 /\ revisions[i] <= height'
  BY <1>1, <1>4
<1>6. \A r \in roots' : \E i \in DOMAIN revisions' : About(r[1], i) /\ revisions'[i] < r[2] /\ r[2] <= height'
  <2>1. ASSUME NEW r \in roots
        PROVE  \E i \in DOMAIN revisions : About(r[1], i) /\ revisions[i] < r[2] /\ r[2] <= height + 1
    <3>1. PICK i \in DOMAIN revisions : About(r[1], i) /\ revisions[i] < r[2] /\ r[2] <= height
      BY DEF StampsInv, TruthInv
    <3>2. r[2] \in Nat
      BY <1>1
    <3>3. QED
      BY <1>1, <3>1, <3>2
  <2>2. ASSUME NEW r \in new
        PROVE  \E i \in DOMAIN revisions : About(r[1], i) /\ revisions[i] < r[2] /\ r[2] <= height + 1
    BY <1>1, <1>2, <1>5
  <2>3. QED
    BY <1>1, <2>1, <2>2
<1>7. /\ \A i \in DOMAIN sidecar' : RowTrue(sidecar[i])'
      /\ \A i \in DOMAIN upgrading.left' : RowTrue(upgrading.left[i])'
      /\ \A i \in DOMAIN upgrading.out' : RowTrue(upgrading.out[i])'
      /\ \A p \in Stampers : RunTrue(stamping[p])'
  BY <1>1, TruthKept DEF StampsInv, TruthInv
<1>8. /\ \A i \in DOMAIN revisions' : revisions'[i] <= height'
      /\ Len(revisions') >= 1
      /\ \A r \in received' : \E i \in DOMAIN revisions' : About(r[2], i)
  BY <1>1, <1>5 DEF StampsInv, TruthInv
<1>9. QED
  BY <1>3, <1>6, <1>7, <1>8 DEF StampsInv, TruthInv, About, SubmittedTo

\* A step of a program leaves what is in blocks alone.
LEMMA ChainKept ==
  ASSUME StampsInv, UNCHANGED <<revisions, height, roots>>, DocumentTypes',
         \A r \in received' : r \in received \/ \E i \in DOMAIN revisions : About(r[2], i),
         \A i \in DOMAIN sidecar' : RowTrue(sidecar'[i]),
         \A i \in DOMAIN upgrading'.left : RowTrue(upgrading'.left[i]),
         \A i \in DOMAIN upgrading'.out : RowTrue(upgrading'.out[i]),
         \A p \in Stampers : RunTrue(stamping'[p])
  PROVE  StampsInv'
<1>1. /\ \A row : RowTrue(row) => RowTrue(row)'
      /\ \A r : RunTrue(r) => RunTrue(r)'
  BY TruthKept
<1>2. /\ \A i \in DOMAIN sidecar' : RowTrue(sidecar[i])'
      /\ \A i \in DOMAIN upgrading.left' : RowTrue(upgrading.left[i])'
      /\ \A i \in DOMAIN upgrading.out' : RowTrue(upgrading.out[i])'
      /\ \A p \in Stampers : RunTrue(stamping[p])'
  BY <1>1
<1>3. /\ \A r \in received' : \E i \in DOMAIN revisions' : About(r[2], i)
      /\ \A r \in roots' : \E i \in DOMAIN revisions' : About(r[1], i) /\ revisions'[i] < r[2] /\ r[2] <= height'
      /\ \A i \in DOMAIN revisions' : revisions'[i] <= height'
      /\ Len(revisions') >= 1
  BY DEF StampsInv, TruthInv
<1>4. QED
  BY <1>2, <1>3 DEF StampsInv, TruthInv, About, SubmittedTo
-----------------------------------------------------------------------------
\* A timestamp of a revision, with nothing attested or with what is.
LEMMA TimestampType ==
  ASSUME NEW hash \in Nat, NEW atts \in SUBSET Attestation
  PROVE  Timestamp(hash, atts) \in Ots
<1>1. hash \in Element
  BY OpsAreElements
<1>2. <<hash>> \in Seq(Element)
  BY <1>1
<1>3. QED
  BY <1>2 DEF Timestamp, Ots, Message

LEMMA RestingType == Resting \in StampRun /\ RunTrue(Resting)
<1>1. Timestamp(1, {}) \in Ots
  BY TimestampType
<1>2. QED
  BY <1>1 DEF Resting, StampRun, RunTrue

\* A run of conarium-stamp changes its own memory.
LEMMA RunTruly ==
  ASSUME StampsInv, NEW p \in Stampers, NEW r \in StampRun, RunTrue(r), stamping' = [stamping EXCEPT ![p] = r],
         UNCHANGED <<revisions, height, roots, sidecar, upgrading, told>>, begun' \in Nat, overlap' \in BOOLEAN,
         received' \subseteq Calendars \X Message,
         \A m \in received' : m \in received \/ \E i \in DOMAIN revisions : About(m[2], i)
  PROVE  StampsInv'
<1>1. stamping \in [Stampers -> StampRun]
  BY DEF StampsInv, DocumentTypes
<1>2. DocumentTypes'
  BY <1>1 DEF StampsInv, DocumentTypes
<1>3. \A q \in Stampers : RunTrue(stamping'[q])
  BY <1>1 DEF StampsInv, TruthInv
<1>4. QED
  BY <1>2, <1>3, ChainKept DEF StampsInv, TruthInv

LEMMA StartsTruly ==
  ASSUME StampsInv, NEW p \in Stampers, StampStart(p)
  PROVE  StampsInv'
<1> DEFINE r == [Resting EXCEPT !.pc = "asking", !.hash = Len(revisions), !.nonce = begun + 1]
<1>1. /\ stamping' = [stamping EXCEPT ![p] = r] /\ begun' = begun + 1 /\ overlap' = (overlap \/ Busy)
      /\ UNCHANGED <<revisions, height, received, roots, sidecar, upgrading, told>>
  BY DEF StampStart
<1>2. begun \in Nat /\ Len(revisions) \in Nat /\ Len(revisions) \in DOMAIN revisions /\ received \subseteq Calendars \X Message
  BY DEF StampsInv, DocumentTypes, TruthInv
<1>3. /\ r = [pc |-> "asking", hash |-> Len(revisions), nonce |-> begun + 1, ots |-> Timestamp(1, {}), seq |-> 1]
      /\ Timestamp(1, {}) \in Ots
  <2>1. Timestamp(1, {}) \in Ots
    BY TimestampType
  <2> DEFINE h == Len(revisions)
             n == begun + 1
  <2>2. r = [Resting EXCEPT !.pc = "asking", !.hash = h, !.nonce = n]
    OBVIOUS
  <2> HIDE DEF r, h, n
  <2>3. r = [pc |-> "asking", hash |-> h, nonce |-> n, ots |-> Timestamp(1, {}), seq |-> 1]
    BY <2>2 DEF Resting
  <2>4. QED
    BY <2>1, <2>3 DEF h, n
<1> HIDE DEF r
<1>4. r \in StampRun /\ RunTrue(r)
  BY <1>2, <1>3 DEF StampRun, RunTrue
<1>5. begun' \in Nat /\ overlap' \in BOOLEAN
  BY <1>1, <1>2 DEF StampsInv, DocumentTypes
<1>6. received' = received
  BY <1>1
<1>7. QED
  BY <1>1, <1>2, <1>4, <1>5, <1>6, RunTruly

LEMMA AnsweredTruly ==
  ASSUME StampsInv, NEW p \in Stampers, NEW reached \in SUBSET Calendars, NEW answered \in SUBSET reached,
         StampAnswered(p, reached, answered)
  PROVE  StampsInv'
<1> DEFINE s == stamping[p]
           tip == Tip(s.hash, s.nonce)
           atts == {Pending(Submitted(tip, c), c) : c \in answered}
           ots == MergeTimestamp(Timestamp(s.hash, {}), atts)
           r == IF Cardinality(answered) < MinCalendars THEN Resting ELSE [s EXCEPT !.pc = "stamped", !.ots = ots]
           new == {<<c, Submitted(tip, c)>> : c \in reached}
<1>1. s \in StampRun /\ s.hash \in Nat /\ s.nonce \in Nat
  BY DEF StampsInv, DocumentTypes, StampRun
<1>2. s.pc = "asking" /\ s.hash \in DOMAIN revisions
  BY DEF StampAnswered, StampsInv, TruthInv, RunTrue
<1>3. /\ received' = received \cup new
      /\ UNCHANGED <<revisions, height, roots, sidecar, upgrading, begun, told, overlap>>
      /\ stamping' = [stamping EXCEPT ![p] = r]
  BY DEF StampAnswered
<1>4. \A c \in reached : c \in Nat /\ Submitted(tip, c) \in Message /\ About(Submitted(tip, c), s.hash)
  BY <1>1, SubmittedIsAbout, StampsAssumption
<1>5. \A a \in atts : a \in Attestation /\ About(a.msg, s.hash) /\ a.kind = "pending"
  BY <1>4 DEF Pending, Attestation
<1>6. ots = Timestamp(s.hash, atts)
  BY DEF MergeTimestamp, Timestamp
<1> HIDE DEF atts, tip
<1>7. ots \in Ots /\ ProvesRevision(ots, s.hash) /\ Confirmations(ots) = {}
  <2>1. Timestamp(s.hash, atts) \in Ots
    BY <1>1, <1>5, TimestampType
  <2>2. ots.msg = <<s.hash>> /\ ots.atts = atts
    BY <1>6 DEF Timestamp
  <2> HIDE DEF ots, s
  <2>3. ProvesRevision(ots, s.hash)
    BY <1>5, <2>2 DEF ProvesRevision
  <2>4. Confirmations(ots) = {}
    BY <1>5, <2>2 DEF Confirmations
  <2>5. QED
    BY <1>6, <2>1, <2>3, <2>4
<1> HIDE DEF ots
<1>8. r \in StampRun /\ RunTrue(r)
  <2>1. CASE Cardinality(answered) < MinCalendars
    BY <2>1, RestingType
  <2>2. CASE ~(Cardinality(answered) < MinCalendars)
    <3>1. r = [pc |-> "stamped", hash |-> s.hash, nonce |-> s.nonce, ots |-> ots, seq |-> s.seq] /\ s.seq \in Nat
      BY <1>1, <2>2 DEF StampRun
    <3> HIDE DEF r, s
    <3>2. QED
      BY <1>1, <1>2, <1>7, <3>1 DEF StampRun, RunTrue
  <2>3. QED
    BY <2>1, <2>2
<1> HIDE DEF r
<1>9. new \subseteq Calendars \X Message /\ \A m \in new : \E i \in DOMAIN revisions : About(m[2], i)
  BY <1>2, <1>4
<1>10. received' \subseteq Calendars \X Message /\ begun' \in Nat /\ overlap' \in BOOLEAN
  BY <1>3, <1>9 DEF StampsInv, DocumentTypes
<1>11. \A m \in received' : m \in received \/ \E i \in DOMAIN revisions : About(m[2], i)
  BY <1>3, <1>9
<1>12. QED
  BY <1>3, <1>8, <1>10, <1>11, RunTruly

LEMMA CountsTruly ==
  ASSUME StampsInv, NEW p \in Stampers, StampCount(p)
  PROVE  StampsInv'
<1> DEFINE s == stamping[p]
           r == [s EXCEPT !.pc = "counted", !.seq = Len(sidecar) + 1]
<1>1. s \in StampRun /\ s.pc = "stamped" /\ RunTrue(s) /\ Len(sidecar) \in Nat
  BY DEF StampsInv, DocumentTypes, TruthInv, StampCount
<1>2. /\ stamping' = [stamping EXCEPT ![p] = r]
      /\ UNCHANGED <<revisions, height, received, roots, sidecar, upgrading, begun, told, overlap>>
  BY DEF StampCount, StampsInv, DocumentTypes
<1> HIDE DEF s
<1>3. /\ r = [pc |-> "counted", hash |-> s.hash, nonce |-> s.nonce, ots |-> s.ots, seq |-> Len(sidecar) + 1]
      /\ s.hash \in Nat /\ s.nonce \in Nat /\ s.ots \in Ots
  <2>1. s.hash \in Nat /\ s.nonce \in Nat /\ s.ots \in Ots
    BY <1>1 DEF StampRun
  <2>2. s = [pc |-> s.pc, hash |-> s.hash, nonce |-> s.nonce, ots |-> s.ots, seq |-> s.seq]
    BY <1>1 DEF StampRun
  <2> DEFINE n == Len(sidecar) + 1
  <2>3. r = [s EXCEPT !.pc = "counted", !.seq = n]
    OBVIOUS
  <2> HIDE DEF r, n
  <2>4. r = [pc |-> "counted", hash |-> s.hash, nonce |-> s.nonce, ots |-> s.ots, seq |-> n]
    BY <2>2, <2>3
  <2>5. QED
    BY <2>1, <2>4 DEF n
<1> HIDE DEF r
<1>4. r \in StampRun /\ RunTrue(r)
  BY <1>1, <1>3 DEF StampRun, RunTrue
<1>5. begun' \in Nat /\ overlap' \in BOOLEAN /\ received' \subseteq Calendars \X Message
  BY <1>2 DEF StampsInv, DocumentTypes
<1>6. QED
  BY <1>2, <1>4, <1>5, RunTruly

LEMMA AppendsTruly ==
  ASSUME StampsInv, NEW p \in Stampers, StampAppend(p)
  PROVE  StampsInv'
<1> DEFINE s == stamping[p]
           row == [seq |-> s.seq, hash |-> s.hash, ots |-> s.ots, state |-> "pending", block |-> Unknown]
<1>1. s \in StampRun /\ s.pc = "counted" /\ RunTrue(s) /\ sidecar \in Seq(Row) /\ told \in Seq(Nat)
      /\ stamping \in [Stampers -> StampRun]
  BY DEF StampsInv, DocumentTypes, TruthInv, StampAppend
<1>2. /\ sidecar' = Append(sidecar, row) /\ told' = Append(told, s.hash)
      /\ stamping' = [stamping EXCEPT ![p] = Resting]
      /\ UNCHANGED <<revisions, height, received, roots, upgrading, begun, overlap>>
  BY DEF StampAppend
<1> HIDE DEF s
<1>3. s.hash \in Nat /\ s.seq \in Nat /\ s.ots \in Ots
  BY <1>1 DEF StampRun
<1>4. row \in Row
  BY <1>3 DEF Row, Unknown
<1>5. RowTrue(row)
  BY <1>1 DEF RowTrue, RunTrue, State
<1> HIDE DEF row
<1>6. /\ sidecar' \in Seq(Row) /\ Len(sidecar') = Len(sidecar) + 1 /\ sidecar'[Len(sidecar) + 1] = row
      /\ \A i \in 1..Len(sidecar) : sidecar'[i] = sidecar[i]
  BY <1>1, <1>2, <1>4, AppendProperties
<1>7. told' \in Seq(Nat)
  BY <1>1, <1>2, <1>3
<1>8. DocumentTypes'
  BY <1>1, <1>2, <1>6, <1>7, RestingType DEF StampsInv, DocumentTypes
<1>9. \A i \in DOMAIN sidecar' : RowTrue(sidecar'[i])
  <2>1. DOMAIN sidecar' = 1..(Len(sidecar) + 1) /\ DOMAIN sidecar = 1..Len(sidecar) /\ Len(sidecar) \in Nat
    BY <1>1, <1>6
  <2>2. QED
    BY <1>5, <1>6, <2>1 DEF StampsInv, TruthInv
<1>10. \A q \in Stampers : RunTrue(stamping'[q])
  BY <1>1, <1>2, RestingType DEF StampsInv, TruthInv
<1>11. QED
  BY <1>2, <1>8, <1>9, <1>10, ChainKept DEF StampsInv, TruthInv

UpgradeRun == [pc: {"idle", "asking"}, left: Seq(Row), out: Seq(Row), changed: BOOLEAN, runs: Nat]

\* A run of conarium-anchor-upgrade changes its own memory.
LEMMA UpgradeTruly ==
  ASSUME StampsInv, NEW u \in UpgradeRun, upgrading' = u,
         \A i \in DOMAIN u.left : RowTrue(u.left[i]), \A i \in DOMAIN u.out : RowTrue(u.out[i]),
         sidecar' \in Seq(Row), \A i \in DOMAIN sidecar' : RowTrue(sidecar'[i]), overlap' \in BOOLEAN,
         UNCHANGED <<revisions, height, received, roots, stamping, begun, told>>
  PROVE  StampsInv'
<1>1. DocumentTypes'
  BY DEF StampsInv, DocumentTypes, UpgradeRun
<1>2. QED
  BY <1>1, ChainKept DEF StampsInv, TruthInv

LEMMA UpgradeStartsTruly ==
  ASSUME StampsInv, UpgradeStart
  PROVE  StampsInv'
<1> DEFINE u == [NotUpgrading(upgrading.runs + 1) EXCEPT !.pc = "asking", !.left = sidecar]
           n == upgrading.runs + 1
<1>1. /\ upgrading' = u /\ overlap' = (overlap \/ Busy)
      /\ UNCHANGED <<revisions, height, received, roots, sidecar, stamping, begun, told>>
  BY DEF UpgradeStart
<1>2. sidecar \in Seq(Row) /\ n \in Nat /\ overlap \in BOOLEAN
  BY DEF StampsInv, DocumentTypes
<1> HIDE DEF n
<1>3. u = [pc |-> "asking", left |-> sidecar, out |-> <<>>, changed |-> FALSE, runs |-> n]
  <2> DEFINE f == NotUpgrading(n)
  <2>1. f = [pc |-> "idle", left |-> <<>>, out |-> <<>>, changed |-> FALSE, runs |-> n]
    BY DEF NotUpgrading
  <2>2. u = [f EXCEPT !.pc = "asking", !.left = sidecar]
    BY DEF n
  <2> HIDE DEF u, f
  <2>3. QED
    BY <2>1, <2>2
<1> HIDE DEF u
<1>4. <<>> \in Seq(Row) /\ DOMAIN <<>> = {}
  OBVIOUS
<1>5. u \in UpgradeRun
  BY <1>2, <1>3, <1>4 DEF UpgradeRun
<1>6. \A i \in DOMAIN u.out : RowTrue(u.out[i])
  BY <1>3, <1>4
<1>7. \A i \in DOMAIN u.left : RowTrue(u.left[i])
  BY <1>3 DEF StampsInv, TruthInv
<1>8. \A i \in DOMAIN sidecar' : RowTrue(sidecar'[i])
  BY <1>1 DEF StampsInv, TruthInv
<1>9. QED
  BY <1>1, <1>2, <1>5, <1>6, <1>7, <1>8, UpgradeTruly

\* What the run has in memory while it asks for the next row's news.
LEMMA UpgradeRowStep ==
  ASSUME StampsInv, NEW reach, UpgradeRow(reach)
  PROVE  LET row == Head(upgrading.left)
             up == Upgraded(row, reach)
         IN  /\ row = upgrading.left[1] /\ row \in Row /\ RowTrue(row)
             /\ up \in Row /\ RowTrue(up) /\ SameRow(up, row)
             /\ upgrading'.left \in Seq(Row) /\ Len(upgrading'.left) = Len(upgrading.left) - 1
             /\ Len(upgrading.left) \in Nat \ {0} /\ Len(upgrading.out) \in Nat
             /\ \A i \in 1..(Len(upgrading.left) - 1) : upgrading'.left[i] = upgrading.left[i + 1]
             /\ upgrading'.out \in Seq(Row) /\ Len(upgrading'.out) = Len(upgrading.out) + 1
             /\ upgrading'.out[Len(upgrading.out) + 1] = up
             /\ \A i \in 1..Len(upgrading.out) : upgrading'.out[i] = upgrading.out[i]
             /\ upgrading' \in UpgradeRun /\ upgrading'.pc = "asking"
<1> DEFINE left == upgrading.left
           out == upgrading.out
           row == Head(left)
           up == Upgraded(row, reach)
           changed == upgrading.changed \/ News(row, reach) # {}
<1>1. upgrading \in UpgradeRun
  BY DEF StampsInv, DocumentTypes, UpgradeRun
<1>2. left \in Seq(Row) /\ out \in Seq(Row) /\ upgrading.changed \in BOOLEAN /\ upgrading.runs \in Nat
  BY <1>1 DEF UpgradeRun
<1>3. left # <<>> /\ upgrading.pc = "asking"
      /\ upgrading' = [upgrading EXCEPT !.left = Tail(left), !.out = Append(out, up), !.changed = changed]
  BY DEF UpgradeRow
<1>4. upgrading' = [pc |-> "asking", left |-> Tail(left), out |-> Append(out, up), changed |-> changed, runs |-> upgrading.runs]
  <2> HIDE DEF up, changed, left, out
  <2>1. upgrading = [pc |-> upgrading.pc, left |-> upgrading.left, out |-> upgrading.out,
                     changed |-> upgrading.changed, runs |-> upgrading.runs]
    BY <1>1 DEF UpgradeRun
  <2>2. QED
    BY <1>3, <2>1
<1>5. changed \in BOOLEAN
  BY <1>2
<1>6. 1 \in DOMAIN left /\ row = left[1] /\ row \in Row /\ Len(left) \in Nat \ {0}
  BY <1>2, <1>3
<1>7. RowTrue(row)
  BY <1>6 DEF StampsInv, TruthInv
<1>8. up \in Row /\ RowTrue(up) /\ SameRow(up, row)
  BY <1>6, <1>7, UpgradedIsTrue DEF StampsInv
<1> HIDE DEF left, out, row, up, changed
<1>9. /\ Tail(left) \in Seq(Row) /\ Len(Tail(left)) = Len(left) - 1
      /\ \A i \in 1..(Len(left) - 1) : Tail(left)[i] = left[i + 1]
  BY <1>2, <1>3, <1>6, HeadTailProperties
<1>10. /\ Append(out, up) \in Seq(Row) /\ Len(Append(out, up)) = Len(out) + 1
       /\ Append(out, up)[Len(out) + 1] = up /\ \A i \in 1..Len(out) : Append(out, up)[i] = out[i]
       /\ Len(out) \in Nat
  BY <1>2, <1>8, AppendProperties
<1>11. upgrading' \in UpgradeRun
  BY <1>2, <1>4, <1>5, <1>9, <1>10 DEF UpgradeRun
<1>12. upgrading'.left = Tail(left) /\ upgrading'.out = Append(out, up) /\ upgrading'.pc = "asking"
  BY <1>4
<1>13. QED
  BY <1>6, <1>7, <1>8, <1>9, <1>10, <1>11, <1>12 DEF left, out, row, up

LEMMA UpgradesTruly ==
  ASSUME StampsInv, NEW reach, UpgradeRow(reach)
  PROVE  StampsInv'
<1> DEFINE left == upgrading.left
           out == upgrading.out
           row == Head(left)
           up == Upgraded(row, reach)
           u == upgrading'
<1>1. /\ RowTrue(up) /\ Len(left) \in Nat \ {0} /\ Len(out) \in Nat
      /\ u.left \in Seq(Row) /\ Len(u.left) = Len(left) - 1
      /\ \A i \in 1..(Len(left) - 1) : u.left[i] = left[i + 1]
      /\ u.out \in Seq(Row) /\ Len(u.out) = Len(out) + 1 /\ u.out[Len(out) + 1] = up
      /\ \A i \in 1..Len(out) : u.out[i] = out[i]
      /\ u \in UpgradeRun
  BY UpgradeRowStep
<1>2. UNCHANGED <<revisions, height, received, roots, sidecar, stamping, begun, told, overlap>>
  BY DEF UpgradeRow
<1>3. /\ left \in Seq(Row) /\ out \in Seq(Row) /\ sidecar \in Seq(Row) /\ overlap \in BOOLEAN
      /\ \A i \in DOMAIN left : RowTrue(left[i])
      /\ \A i \in DOMAIN out : RowTrue(out[i])
      /\ \A i \in DOMAIN sidecar : RowTrue(sidecar[i])
  BY DEF StampsInv, DocumentTypes, TruthInv
<1> HIDE DEF left, out, up, u
<1>4. \A i \in DOMAIN u.left : RowTrue(u.left[i])
  <2>1. ASSUME NEW i \in DOMAIN u.left PROVE i \in 1..(Len(left) - 1) /\ i + 1 \in DOMAIN left
    BY <1>1, <1>3
  <2>2. QED
    BY <1>1, <1>3, <2>1
<1>5. \A i \in DOMAIN u.out : RowTrue(u.out[i])
  <2>1. ASSUME NEW i \in DOMAIN u.out PROVE i \in DOMAIN out \/ i = Len(out) + 1
    BY <1>1, <1>3
  <2>2. DOMAIN out = 1..Len(out)
    BY <1>3
  <2>3. QED
    BY <1>1, <1>3, <2>1, <2>2
<1>6. \A i \in DOMAIN sidecar' : RowTrue(sidecar'[i])
  BY <1>2, <1>3
<1>7. QED
  BY <1>1, <1>2, <1>3, <1>4, <1>5, <1>6, UpgradeTruly DEF u

LEMMA WritesTruly ==
  ASSUME StampsInv, UpgradeWrite
  PROVE  StampsInv'
<1> DEFINE u == NotUpgrading(upgrading.runs)
<1>1. /\ upgrading' = u /\ sidecar' = (IF upgrading.changed THEN upgrading.out ELSE sidecar)
      /\ UNCHANGED <<revisions, height, received, roots, stamping, begun, told, overlap>>
  BY DEF UpgradeWrite, Rewritten
<1>2. /\ upgrading.out \in Seq(Row) /\ sidecar \in Seq(Row) /\ upgrading.runs \in Nat /\ overlap \in BOOLEAN
      /\ \A i \in DOMAIN upgrading.out : RowTrue(upgrading.out[i])
      /\ \A i \in DOMAIN sidecar : RowTrue(sidecar[i])
  BY DEF StampsInv, DocumentTypes, TruthInv
<1>3. <<>> \in Seq(Row) /\ DOMAIN <<>> = {}
  OBVIOUS
<1>4. u = [pc |-> "idle", left |-> <<>>, out |-> <<>>, changed |-> FALSE, runs |-> upgrading.runs]
  BY DEF NotUpgrading
<1>5. u \in UpgradeRun /\ u.left = <<>> /\ u.out = <<>>
  BY <1>2, <1>3, <1>4 DEF UpgradeRun
<1> HIDE DEF u
<1>6. /\ \A i \in DOMAIN u.left : RowTrue(u.left[i])
      /\ \A i \in DOMAIN u.out : RowTrue(u.out[i])
  BY <1>3, <1>5
<1>7. sidecar' \in Seq(Row) /\ \A i \in DOMAIN sidecar' : RowTrue(sidecar'[i])
  BY <1>1, <1>2
<1>8. QED
  BY <1>1, <1>2, <1>5, <1>6, <1>7, UpgradeTruly

LEMMA TruthStep == StampsInv /\ [StampsNext]_stampsVars => StampsInv'
<1> SUFFICES ASSUME StampsInv, [StampsNext]_stampsVars PROVE StampsInv'
  OBVIOUS
<1>1. ASSUME UNCHANGED stampsVars PROVE StampsInv'
  <2>1. UNCHANGED <<revisions, height, roots, received, sidecar, upgrading, stamping, begun, told, overlap>>
    BY <1>1 DEF stampsVars
  <2>2. DocumentTypes'
    BY <2>1 DEF StampsInv, DocumentTypes
  <2>3. QED
    BY <2>1, <2>2, ChainKept DEF StampsInv, TruthInv
<1>2. QED
  BY <1>1, RevisesTruly, MinesTruly, StartsTruly, AnsweredTruly, CountsTruly, AppendsTruly, UpgradeStartsTruly,
     UpgradesTruly, WritesTruly DEF StampsNext

LEMMA TruthInit == StampsInit => StampsInv
<1> SUFFICES ASSUME StampsInit PROVE StampsInv
  OBVIOUS
<1>1. /\ revisions = <<0>> /\ height = 0 /\ received = {} /\ roots = {} /\ sidecar = <<>> /\ told = <<>>
      /\ stamping = [p \in Stampers |-> Resting] /\ begun = 0 /\ overlap = FALSE /\ upgrading = NotUpgrading(0)
  BY DEF StampsInit
<1>2. upgrading = [pc |-> "idle", left |-> <<>>, out |-> <<>>, changed |-> FALSE, runs |-> 0]
  BY <1>1 DEF NotUpgrading
<1>3. <<>> \in Seq(Row) /\ <<>> \in Seq(Nat) /\ DOMAIN <<>> = {} /\ <<0>> \in Seq(Nat) /\ DOMAIN <<0>> = {1}
      /\ Len(<<0>>) = 1 /\ <<0>>[1] = 0
  OBVIOUS
<1>4. DocumentTypes
  <2>1. stamping \in [Stampers -> StampRun] /\ overlap \in BOOLEAN
    BY <1>1, RestingType
  <2>2. /\ received \subseteq Calendars \X Message /\ roots \subseteq Message \X Nat
        /\ height \in Nat /\ begun \in Nat
    BY <1>1
  <2>3. revisions \in Seq(Nat) /\ sidecar \in Seq(Row) /\ told \in Seq(Nat)
    BY <1>1, <1>3
  <2>4. upgrading \in [pc: {"idle", "asking"}, left: Seq(Row), out: Seq(Row), changed: BOOLEAN, runs: Nat]
    BY <1>2, <1>3
  <2>5. QED
    BY <2>1, <2>2, <2>3, <2>4 DEF DocumentTypes
<1>5. TruthInv
  BY <1>1, <1>2, <1>3, RestingType DEF TruthInv
<1>6. QED
  BY <1>4, <1>5 DEF StampsInv

LEMMA TruthHolds == StampsSpec => []StampsInv
  BY TruthInit, TruthStep, PTL DEF StampsSpec

LEMMA RowShown ==
  ASSUME StampsInv, NEW row \in Row, RowTrue(row)
  PROVE  \/ row.state = "pending" /\ Verified(row.ots, row.hash) = "pending"
         \/ /\ row.state = "bitcoin" /\ Verified(row.ots, row.hash) = "confirmed"
            /\ row.block = FirstConfirmation(row.ots).at /\ revisions[row.hash] < row.block
<1> DEFINE first == FirstConfirmation(row.ots)
<1>1. row.ots.msg = <<row.hash>>
  BY DEF RowTrue, ProvesRevision
<1>2. CASE Confirmations(row.ots) = {}
  BY <1>1, <1>2 DEF RowTrue, State, Verified
<1>3. CASE Confirmations(row.ots) # {}
  <2>1. \A a \in Confirmations(row.ots) :
          SubmittedTo(a.msg) \in Nat /\ About(a.msg, row.hash) /\ <<a.msg, a.at>> \in roots
    BY DEF Confirmations, RowTrue, ProvesRevision, About
  <2>2. first \in Confirmations(row.ots)
    BY <1>3, <2>1, FirstIsThere
  <2>3. About(first.msg, row.hash) /\ <<first.msg, first.at>> \in roots
    BY <2>1, <2>2
  <2>4. PICK i \in DOMAIN revisions : About(first.msg, i) /\ revisions[i] < first.at
    <3>1. PICK i \in DOMAIN revisions : About(<<first.msg, first.at>>[1], i) /\ revisions[i] < <<first.msg, first.at>>[2]
      BY <2>3 DEF StampsInv, TruthInv
    <3>2. QED
      BY <3>1
  <2>5. i = row.hash
    BY <2>3, <2>4 DEF About
  <2>6. Verified(row.ots, row.hash) = "confirmed"
    BY <1>1, <1>3, <2>3 DEF Verified
  <2>7. row.state = "bitcoin" /\ row.block = first.at
    BY <1>3 DEF RowTrue, State
  <2>8. QED
    BY <2>4, <2>5, <2>6, <2>7
<1>4. QED
  BY <1>2, <1>3

\* However often a document is revised, stamped and upgraded, and however the runs
\* of the two programs overlap: no row of the sidecar claims a block its proof does
\* not show, nor a revision that was not there before it.
THEOREM RowsSayWhatIsSo == StampsSpec => []StampsAreTrue
<1>1. StampsInv => StampsAreTrue
  <2>1. SUFFICES ASSUME StampsInv, NEW row \in ToSet(sidecar)
                 PROVE  \/ row.state = "pending" /\ Verified(row.ots, row.hash) = "pending"
                        \/ /\ row.state = "bitcoin" /\ Verified(row.ots, row.hash) = "confirmed"
                           /\ row.block = FirstConfirmation(row.ots).at /\ revisions[row.hash] < row.block
    BY DEF StampsAreTrue
  <2>2. PICK i \in DOMAIN sidecar : row = sidecar[i]
    BY DEF ToSet
  <2>3. row \in Row /\ RowTrue(row)
    BY <2>1, <2>2 DEF StampsInv, DocumentTypes, TruthInv
  <2>4. QED
    BY <2>1, <2>3, RowShown
<1>2. QED
  BY <1>1, TruthHolds, PTL
-----------------------------------------------------------------------------
\* One program at a time.
RunsAlone ==
  /\ \A p, q \in Stampers : stamping[p].pc # "idle" /\ stamping[q].pc # "idle" => p = q
  /\ upgrading.pc # "idle" => \A p \in Stampers : stamping[p].pc = "idle"

\* The sidecar has what was told.
ToldInOrder ==
  /\ Len(told) = Len(sidecar)
  /\ \A i \in 1..Len(told) : sidecar[i].hash = told[i] /\ sidecar[i].seq = i /\ told[i] <= Len(revisions)
  /\ \A i, j \in 1..Len(told) : i < j => told[i] <= told[j]

\* A run of conarium-stamp will tell of a revision as late as any.
NextInOrder(r) ==
  r.pc # "idle" => /\ \A i \in 1..Len(told) : told[i] <= r.hash
                   /\ r.pc = "counted" => r.seq = Len(sidecar) + 1

\* What the upgrade has asked about and has yet to ask about is the sidecar.
UpgradeInPlace ==
  upgrading.pc # "idle" =>
    /\ Len(upgrading.out) + Len(upgrading.left) = Len(sidecar)
    /\ \A i \in 1..Len(upgrading.out) : SameRow(upgrading.out[i], sidecar[i])
    /\ \A i \in 1..Len(upgrading.left) : SameRow(upgrading.left[i], sidecar[Len(upgrading.out) + i])

InOrder == RunsAlone /\ ToldInOrder /\ (\A p \in Stampers : NextInOrder(stamping[p])) /\ UpgradeInPlace

OrderInv == StampsInv /\ (overlap \/ InOrder)

LEMMA RevisesInOrder ==
  ASSUME StampsInv, InOrder, Revise
  PROVE  InOrder'
<1>1. /\ revisions' = Append(revisions, height) /\ revisions \in Seq(Nat) /\ height \in Nat /\ told \in Seq(Nat)
      /\ UNCHANGED <<sidecar, stamping, upgrading, told>>
  BY DEF Revise, StampsInv, DocumentTypes
<1>2. Len(revisions') = Len(revisions) + 1 /\ Len(revisions) \in Nat
  BY <1>1, AppendProperties
<1>3. ASSUME NEW i \in 1..Len(told) PROVE told[i] <= Len(revisions')
  <2>1. told[i] \in Nat /\ told[i] <= Len(revisions)
    BY <1>1 DEF InOrder, ToldInOrder
  <2>2. QED
    BY <1>2, <2>1
<1>4. ToldInOrder'
  BY <1>1, <1>3 DEF InOrder, ToldInOrder
<1>5. QED
  BY <1>1, <1>4 DEF InOrder, RunsAlone, NextInOrder, UpgradeInPlace, SameRow

LEMMA StartsInOrder ==
  ASSUME StampsInv, InOrder, NEW p \in Stampers, StampStart(p), ~overlap'
  PROVE  InOrder'
<1> DEFINE r == [Resting EXCEPT !.pc = "asking", !.hash = Len(revisions), !.nonce = begun + 1]
<1>1. /\ stamping' = [stamping EXCEPT ![p] = r] /\ stamping \in [Stampers -> StampRun]
      /\ UNCHANGED <<revisions, sidecar, upgrading, told>>
  BY DEF StampStart, StampsInv, DocumentTypes
<1>2. upgrading.pc = "idle" /\ \A q \in Stampers : stamping[q].pc = "idle"
  BY DEF StampStart, Busy
<1>3. r.hash = Len(revisions) /\ r.pc = "asking"
  <2> DEFINE h == Len(revisions)
             n == begun + 1
  <2>1. r = [Resting EXCEPT !.pc = "asking", !.hash = h, !.nonce = n]
    OBVIOUS
  <2> HIDE DEF r, h, n
  <2>2. r = [pc |-> "asking", hash |-> h, nonce |-> n, ots |-> Timestamp(1, {}), seq |-> 1]
    BY <2>1 DEF Resting
  <2>3. QED
    BY <2>2 DEF h
<1> HIDE DEF r
<1>4. \A q \in Stampers : stamping'[q] = IF q = p THEN r ELSE stamping[q]
  BY <1>1
<1>5. RunsAlone'
  BY <1>1, <1>2, <1>4 DEF RunsAlone
<1>6. ToldInOrder' /\ UpgradeInPlace'
  BY <1>1 DEF InOrder, ToldInOrder, UpgradeInPlace, SameRow
<1>7. \A q \in Stampers : NextInOrder(stamping[q])'
  BY <1>1, <1>2, <1>3, <1>4 DEF InOrder, ToldInOrder, NextInOrder
<1>8. QED
  BY <1>5, <1>6, <1>7 DEF InOrder

\* A run that is under way goes on, or ends, and changes nothing but its memory.
LEMMA GoesOnInOrder ==
  ASSUME StampsInv, InOrder, NEW p \in Stampers, stamping[p].pc # "idle", NEW r, NextInOrder(r),
         stamping' = [stamping EXCEPT ![p] = r], UNCHANGED <<revisions, sidecar, upgrading, told>>
  PROVE  InOrder'
<1>1. \A q \in Stampers : stamping'[q] = IF q = p THEN r ELSE stamping[q]
  BY DEF StampsInv, DocumentTypes
<1>2. RunsAlone'
  BY <1>1 DEF InOrder, RunsAlone
<1>3. ToldInOrder' /\ UpgradeInPlace'
  BY DEF InOrder, ToldInOrder, UpgradeInPlace, SameRow
<1>4. \A q \in Stampers : NextInOrder(stamping[q])'
  BY <1>1 DEF InOrder, NextInOrder
<1>5. QED
  BY <1>2, <1>3, <1>4 DEF InOrder

LEMMA AnsweredInOrder ==
  ASSUME StampsInv, InOrder, NEW p \in Stampers, NEW reached \in SUBSET Calendars, NEW answered \in SUBSET reached,
         StampAnswered(p, reached, answered)
  PROVE  InOrder'
<1> DEFINE s == stamping[p]
           ots == MergeTimestamp(Timestamp(s.hash, {}), {Pending(Submitted(Tip(s.hash, s.nonce), c), c) : c \in answered})
           r == IF Cardinality(answered) < MinCalendars THEN Resting ELSE [s EXCEPT !.pc = "stamped", !.ots = ots]
<1>1. s \in StampRun /\ s.pc = "asking" /\ NextInOrder(s)
  BY DEF StampAnswered, StampsInv, DocumentTypes, InOrder
<1>2. stamping' = [stamping EXCEPT ![p] = r] /\ UNCHANGED <<revisions, sidecar, upgrading, told>>
  BY DEF StampAnswered
<1> HIDE DEF ots
<1>3. NextInOrder(r)
  <2>1. CASE Cardinality(answered) < MinCalendars
    BY <2>1 DEF NextInOrder, Resting
  <2>2. CASE ~(Cardinality(answered) < MinCalendars)
    <3>1. r.pc = "stamped" /\ r.hash = s.hash
      BY <1>1, <2>2 DEF StampRun
    <3> HIDE DEF r, s
    <3>2. QED
      BY <1>1, <3>1 DEF NextInOrder
  <2>3. QED
    BY <2>1, <2>2
<1>4. s.pc # "idle"
  BY <1>1
<1> HIDE DEF r
<1>5. QED
  BY <1>2, <1>3, <1>4, GoesOnInOrder

LEMMA CountsInOrder ==
  ASSUME StampsInv, InOrder, NEW p \in Stampers, StampCount(p)
  PROVE  InOrder'
<1> DEFINE s == stamping[p]
           n == Len(sidecar) + 1
           r == [s EXCEPT !.pc = "counted", !.seq = n]
<1>1. s \in StampRun /\ s.pc = "stamped" /\ NextInOrder(s)
  BY DEF StampCount, StampsInv, DocumentTypes, InOrder
<1>2. stamping' = [stamping EXCEPT ![p] = r] /\ UNCHANGED <<revisions, sidecar, upgrading, told>>
  BY DEF StampCount, StampsInv, DocumentTypes
<1>3. s.pc # "idle"
  BY <1>1
<1>4. r.pc = "counted" /\ r.hash = s.hash /\ r.seq = n
  <2> HIDE DEF s, n
  <2>1. QED
    BY <1>1 DEF StampRun
<1> HIDE DEF r
<1>5. NextInOrder(r)
  BY <1>1, <1>4 DEF NextInOrder
<1>6. QED
  BY <1>2, <1>3, <1>5, GoesOnInOrder

LEMMA AppendsInOrder ==
  ASSUME StampsInv, InOrder, NEW p \in Stampers, StampAppend(p)
  PROVE  InOrder'
<1> DEFINE s == stamping[p]
           row == [seq |-> s.seq, hash |-> s.hash, ots |-> s.ots, state |-> "pending", block |-> Unknown]
<1>1. /\ s \in StampRun /\ s.pc = "counted" /\ RunTrue(s) /\ NextInOrder(s)
      /\ sidecar \in Seq(Row) /\ told \in Seq(Nat) /\ stamping \in [Stampers -> StampRun]
      /\ revisions \in Seq(Nat)
  BY DEF StampAppend, StampsInv, DocumentTypes, TruthInv, InOrder
<1>2. /\ sidecar' = Append(sidecar, row) /\ told' = Append(told, s.hash)
      /\ stamping' = [stamping EXCEPT ![p] = Resting] /\ UNCHANGED <<revisions, upgrading>>
  BY DEF StampAppend
<1>3. \A q \in Stampers : stamping'[q].pc = "idle"
  <2>1. ASSUME NEW q \in Stampers, q # p PROVE stamping[q].pc = "idle"
    BY <1>1, <2>1 DEF InOrder, RunsAlone
  <2>2. QED
    BY <1>1, <1>2, <2>1 DEF Resting
<1>4. upgrading.pc = "idle"
  BY <1>1 DEF InOrder, RunsAlone
<1> HIDE DEF s
<1>5. s.hash \in Nat /\ s.seq \in Nat /\ s.ots \in Ots /\ row \in Row
  BY <1>1 DEF StampRun, Row, Unknown
<1>6. row.hash = s.hash /\ row.seq = Len(sidecar) + 1 /\ s.hash <= Len(revisions)
  BY <1>1 DEF NextInOrder, RunTrue
<1> HIDE DEF row
<1>7. /\ Len(sidecar') = Len(sidecar) + 1 /\ sidecar'[Len(sidecar) + 1] = row
      /\ \A i \in 1..Len(sidecar) : sidecar'[i] = sidecar[i]
      /\ Len(told') = Len(told) + 1 /\ told'[Len(told) + 1] = s.hash
      /\ \A i \in 1..Len(told) : told'[i] = told[i]
      /\ Len(sidecar) \in Nat /\ Len(told) \in Nat
  BY <1>1, <1>2, <1>5, AppendProperties
<1>8. ToldInOrder'
  <2>1. ToldInOrder /\ \A i \in 1..Len(told) : told[i] <= s.hash /\ told[i] \in Nat
    BY <1>1 DEF InOrder, NextInOrder
  <2>2. Len(told') = Len(sidecar')
    BY <1>7, <2>1 DEF ToldInOrder
  <2>3. ASSUME NEW i \in 1..Len(told')
        PROVE  sidecar'[i].hash = told'[i] /\ sidecar'[i].seq = i /\ told'[i] <= Len(revisions')
    <3>1. i \in 1..Len(told) \/ i = Len(told) + 1
      BY <1>7
    <3>2. Len(told) = Len(sidecar)
      BY <2>1 DEF ToldInOrder
    <3>3. CASE i \in 1..Len(told)
      BY <1>2, <1>7, <2>1, <3>2, <3>3 DEF ToldInOrder
    <3>4. CASE i = Len(told) + 1
      BY <1>2, <1>6, <1>7, <3>2, <3>4
    <3>5. QED
      BY <3>1, <3>3, <3>4
  <2>4. ASSUME NEW i \in 1..Len(told'), NEW j \in 1..Len(told'), i < j
        PROVE  told'[i] <= told'[j]
    <3>1. i \in 1..Len(told) /\ (j \in 1..Len(told) \/ j = Len(told) + 1)
      BY <1>7, <2>4
    <3>2. QED
      BY <1>7, <2>1, <2>4, <3>1 DEF ToldInOrder
  <2>5. QED
    BY <2>2, <2>3, <2>4 DEF ToldInOrder
<1>9. RunsAlone' /\ UpgradeInPlace' /\ \A q \in Stampers : NextInOrder(stamping[q])'
  BY <1>2, <1>3, <1>4 DEF RunsAlone, UpgradeInPlace, NextInOrder
<1>10. QED
  BY <1>8, <1>9 DEF InOrder

LEMMA UpgradeStartsInOrder ==
  ASSUME StampsInv, InOrder, UpgradeStart, ~overlap'
  PROVE  InOrder'
<1> DEFINE u == [NotUpgrading(upgrading.runs + 1) EXCEPT !.pc = "asking", !.left = sidecar]
<1>1. upgrading' = u /\ UNCHANGED <<revisions, sidecar, stamping, told>> /\ sidecar \in Seq(Row)
  BY DEF UpgradeStart, StampsInv, DocumentTypes
<1>2. \A q \in Stampers : stamping[q].pc = "idle"
  BY DEF UpgradeStart, Busy
<1>3. u.left = sidecar /\ u.out = <<>>
  <2> DEFINE n == upgrading.runs + 1
             f == NotUpgrading(n)
  <2>1. f = [pc |-> "idle", left |-> <<>>, out |-> <<>>, changed |-> FALSE, runs |-> n]
    BY DEF NotUpgrading
  <2>2. u = [f EXCEPT !.pc = "asking", !.left = sidecar]
    OBVIOUS
  <2> HIDE DEF u, f, n
  <2>3. QED
    BY <2>1, <2>2
<1> HIDE DEF u
<1>4. Len(<<>>) = 0 /\ Len(sidecar) \in Nat
  BY <1>1
<1>5. UpgradeInPlace'
  BY <1>1, <1>3, <1>4 DEF UpgradeInPlace, SameRow
<1>6. RunsAlone' /\ ToldInOrder' /\ \A q \in Stampers : NextInOrder(stamping[q])'
  BY <1>1, <1>2 DEF InOrder, RunsAlone, ToldInOrder, NextInOrder
<1>7. QED
  BY <1>5, <1>6 DEF InOrder

LEMMA UpgradesInOrder ==
  ASSUME StampsInv, InOrder, NEW reach, UpgradeRow(reach)
  PROVE  InOrder'
<1> DEFINE left == upgrading.left
           out == upgrading.out
           row == Head(left)
           up == Upgraded(row, reach)
           u == upgrading'
<1>1. /\ row = left[1] /\ SameRow(up, row) /\ Len(left) \in Nat \ {0} /\ Len(out) \in Nat
      /\ Len(u.left) = Len(left) - 1
      /\ \A i \in 1..(Len(left) - 1) : u.left[i] = left[i + 1]
      /\ Len(u.out) = Len(out) + 1 /\ u.out[Len(out) + 1] = up
      /\ \A i \in 1..Len(out) : u.out[i] = out[i]
  BY UpgradeRowStep
<1>2. UNCHANGED <<revisions, sidecar, stamping, told>> /\ upgrading.pc = "asking" /\ Len(sidecar) \in Nat
  BY DEF UpgradeRow, StampsInv, DocumentTypes
<1>3. /\ Len(out) + Len(left) = Len(sidecar)
      /\ \A i \in 1..Len(out) : SameRow(out[i], sidecar[i])
      /\ \A i \in 1..Len(left) : SameRow(left[i], sidecar[Len(out) + i])
      /\ \A q \in Stampers : stamping[q].pc = "idle"
  BY <1>2 DEF InOrder, UpgradeInPlace, RunsAlone
<1> HIDE DEF left, out, row, up, u
<1>4. Len(u.out) + Len(u.left) = Len(sidecar)
  <2> DEFINE m == Len(left)
             n == Len(out)
  <2>1. Len(u.left) = m - 1 /\ Len(u.out) = n + 1 /\ m \in Nat \ {0} /\ n \in Nat
    BY <1>1
  <2>2. n + m = Len(sidecar)
    BY <1>3
  <2> HIDE DEF m, n
  <2>3. QED
    BY <2>1, <2>2
<1>5. ASSUME NEW i \in 1..Len(u.out) PROVE SameRow(u.out[i], sidecar[i])
  <2>1. i \in 1..Len(out) \/ i = Len(out) + 1
    BY <1>1
  <2>2. CASE i \in 1..Len(out)
    BY <1>1, <1>3, <2>2
  <2>3. CASE i = Len(out) + 1
    <3>1. 1 \in 1..Len(left)
      BY <1>1
    <3>2. SameRow(row, sidecar[Len(out) + 1])
      BY <1>1, <1>3, <3>1
    <3>3. QED
      BY <1>1, <2>3, <3>2 DEF SameRow
  <2>4. QED
    BY <2>1, <2>2, <2>3
<1>6. ASSUME NEW i \in 1..Len(u.left) PROVE SameRow(u.left[i], sidecar[Len(u.out) + i])
  <2>1. i \in 1..(Len(left) - 1) /\ i + 1 \in 1..Len(left) /\ Len(u.out) + i = Len(out) + (i + 1)
    BY <1>1
  <2>2. QED
    BY <1>1, <1>3, <2>1
<1>7. UpgradeInPlace'
  BY <1>2, <1>4, <1>5, <1>6 DEF UpgradeInPlace, SameRow, u
<1>8. RunsAlone' /\ ToldInOrder' /\ \A q \in Stampers : NextInOrder(stamping[q])'
  BY <1>2, <1>3 DEF InOrder, RunsAlone, ToldInOrder, NextInOrder
<1>9. QED
  BY <1>7, <1>8 DEF InOrder

LEMMA WritesInOrder ==
  ASSUME StampsInv, InOrder, UpgradeWrite
  PROVE  InOrder'
<1>1. /\ upgrading' = NotUpgrading(upgrading.runs) /\ sidecar' = (IF upgrading.changed THEN upgrading.out ELSE sidecar)
      /\ UNCHANGED <<revisions, stamping, told>> /\ upgrading.pc = "asking" /\ upgrading.left = <<>>
      /\ upgrading.out \in Seq(Row)
  BY DEF UpgradeWrite, Rewritten, StampsInv, DocumentTypes
<1>2. /\ Len(upgrading.out) + Len(upgrading.left) = Len(sidecar)
      /\ \A i \in 1..Len(upgrading.out) : SameRow(upgrading.out[i], sidecar[i])
      /\ \A q \in Stampers : stamping[q].pc = "idle"
      /\ ToldInOrder
  BY <1>1 DEF InOrder, UpgradeInPlace, RunsAlone
<1>3. Len(upgrading.out) = Len(sidecar)
  BY <1>1, <1>2
<1>4. upgrading'.pc = "idle"
  BY <1>1 DEF NotUpgrading
<1>5. ToldInOrder'
  <2>1. Len(sidecar') = Len(sidecar)
    BY <1>1, <1>3
  <2>2. \A i \in 1..Len(told) : sidecar'[i].hash = sidecar[i].hash /\ sidecar'[i].seq = sidecar[i].seq
    BY <1>1, <1>2, <1>3 DEF SameRow, ToldInOrder
  <2>3. QED
    BY <1>1, <1>2, <2>1, <2>2 DEF ToldInOrder
<1>6. RunsAlone' /\ UpgradeInPlace' /\ \A q \in Stampers : NextInOrder(stamping[q])'
  BY <1>1, <1>2, <1>4 DEF RunsAlone, UpgradeInPlace, NextInOrder
<1>7. QED
  BY <1>5, <1>6 DEF InOrder

LEMMA OrderStep == OrderInv /\ [StampsNext]_stampsVars => OrderInv'
<1> SUFFICES ASSUME OrderInv, [StampsNext]_stampsVars PROVE OrderInv'
  OBVIOUS
<1>1. StampsInv'
  BY TruthStep DEF OrderInv
<1>2. overlap => overlap'
  BY DEF StampsNext, stampsVars, Revise, Mine, StampStart, StampAnswered, StampCount, StampAppend,
         UpgradeStart, UpgradeRow, UpgradeWrite
<1>3. ASSUME ~overlap' PROVE InOrder'
  <2>1. StampsInv /\ InOrder
    BY <1>2, <1>3 DEF OrderInv
  <2>2. ASSUME UNCHANGED <<revisions, sidecar, stamping, upgrading, told>> PROVE InOrder'
    BY <2>1, <2>2 DEF InOrder, RunsAlone, ToldInOrder, NextInOrder, UpgradeInPlace, SameRow
  <2>3. CASE UNCHANGED stampsVars
    BY <2>2, <2>3 DEF stampsVars
  <2>4. CASE \E calendars \in SUBSET Calendars : Mine(calendars)
    BY <2>2, <2>4 DEF Mine
  <2>5. CASE \E p \in Stampers : StampStart(p)
    BY <1>3, <2>1, <2>5, StartsInOrder
  <2>6. CASE UpgradeStart
    BY <1>3, <2>1, <2>6, UpgradeStartsInOrder
  <2>7. CASE \E p \in Stampers : \/ StampCount(p) \/ StampAppend(p)
                                \/ \E reached \in SUBSET Calendars : \E answered \in SUBSET reached :
                                       StampAnswered(p, reached, answered)
    BY <2>1, <2>7, AnsweredInOrder, CountsInOrder, AppendsInOrder
  <2>8. CASE \E reach \in [Calendars -> {"none", "relay", "all"}] : UpgradeRow(reach)
    BY <2>1, <2>8, UpgradesInOrder
  <2>9. CASE Revise \/ UpgradeWrite
    BY <2>1, <2>9, RevisesInOrder, WritesInOrder
  <2>10. QED
    BY <2>3, <2>4, <2>5, <2>6, <2>7, <2>8, <2>9 DEF StampsNext
<1>4. QED
  BY <1>1, <1>3 DEF OrderInv

LEMMA OrderInit == StampsInit => OrderInv
<1> SUFFICES ASSUME StampsInit PROVE OrderInv
  OBVIOUS
<1>1. StampsInv
  BY TruthInit
<1>2. /\ sidecar = <<>> /\ told = <<>> /\ stamping = [p \in Stampers |-> Resting] /\ upgrading = NotUpgrading(0)
  BY DEF StampsInit
<1>3. upgrading.pc = "idle" /\ \A p \in Stampers : stamping[p].pc = "idle"
  BY <1>2 DEF NotUpgrading, Resting
<1>4. Len(told) = 0 /\ Len(sidecar) = 0
  BY <1>2
<1>5. RunsAlone /\ ToldInOrder /\ UpgradeInPlace /\ \A p \in Stampers : NextInOrder(stamping[p])
  BY <1>3, <1>4 DEF RunsAlone, ToldInOrder, UpgradeInPlace, NextInOrder
<1>6. QED
  BY <1>1, <1>5 DEF OrderInv, InOrder

\* While no two runs of the stamping programs overlap, however many there are: the
\* sidecar has exactly the stamps that were reported, numbered from 1 and in the
\* order of the revisions, and an upgrade neither drops nor moves a row.
THEOREM RevisionsKeepTheirOrder == StampsSpec => []RevisionsInOrder
<1>1. OrderInv => RevisionsInOrder
  <2>1. SUFFICES ASSUME StampsInv, ToldInOrder
                 PROVE  /\ [i \in DOMAIN sidecar |-> sidecar[i].hash] = told
                        /\ \A i \in DOMAIN sidecar : sidecar[i].seq = i
                        /\ \A i, j \in DOMAIN told : i < j => told[i] <= told[j]
    BY DEF OrderInv, InOrder, RevisionsInOrder
  <2>2. /\ sidecar \in Seq(Row) /\ told \in Seq(Nat)
        /\ DOMAIN sidecar = 1..Len(sidecar) /\ DOMAIN told = 1..Len(told) /\ Len(told) = Len(sidecar)
    BY <2>1 DEF StampsInv, DocumentTypes, ToldInOrder
  <2>3. told = [i \in 1..Len(told) |-> told[i]]
    BY <2>2
  <2>4. [i \in DOMAIN sidecar |-> sidecar[i].hash] = told
    BY <2>1, <2>2, <2>3 DEF ToldInOrder
  <2>5. QED
    BY <2>1, <2>2, <2>4 DEF ToldInOrder
<1>2. QED
  BY <1>1, OrderInit, OrderStep, PTL DEF StampsSpec
-----------------------------------------------------------------------------
(* Evidence: the first check that fails.                                   *)

\* The code that counts, from its place.
LEMMA FirstAt ==
  ASSUME NEW s, DOMAIN s \in SUBSET Nat, NEW i \in DOMAIN s, s[i] # 0,
         \A j \in DOMAIN s : j < i => s[j] = 0
  PROVE  FirstOf(s) = s[i]
<1> DEFINE bad == {k \in DOMAIN s : s[k] # 0}
           least == CHOOSE k \in bad : \A j \in bad : k <= j
<1>1. i \in bad /\ (\A j \in bad : i <= j) /\ \A k \in bad : (\A j \in bad : k <= j) => k = i
  OBVIOUS
<1>2. least = i
  BY <1>1
<1>3. QED
  BY <1>1, <1>2 DEF FirstOf

LEMMA NoneFails ==
  ASSUME NEW s, \A i \in DOMAIN s : s[i] = 0
  PROVE  FirstOf(s) = 0
BY DEF FirstOf

\* It is 0 only where every check passes.
LEMMA ZeroMeansAll ==
  ASSUME NEW s, DOMAIN s \in SUBSET Nat, FirstOf(s) = 0, NEW i \in DOMAIN s
  PROVE  s[i] = 0
<1> DEFINE bad == {k \in DOMAIN s : s[k] # 0}
<1> SUFFICES ASSUME bad # {} PROVE FALSE
  OBVIOUS
<1>1. PICK k \in bad : \A j \in bad : k <= j
  <2>1. bad \in SUBSET Nat
    OBVIOUS
  <2>2. QED
    BY <2>1, LeastNumber
<1>2. \A j \in DOMAIN s : j < k => s[j] = 0
  BY <1>1
<1>3. FirstOf(s) = s[k]
  BY <1>1, <1>2, FirstAt
<1>4. QED
  BY <1>1, <1>3

LEMMA FirstOfOne ==
  ASSUME NEW a
  PROVE  FirstOf(<<a>>) = a
<1> DEFINE s == <<a>>
<1>1. DOMAIN s = {1} /\ s[1] = a
  OBVIOUS
<1> HIDE DEF s
<1>2. CASE a # 0
  <2>1. FirstOf(s) = s[1]
    BY <1>1, <1>2, FirstAt
  <2>2. QED
    BY <1>1, <1>2, <2>1 DEF s
<1>3. CASE a = 0
  <2>1. FirstOf(s) = 0
    BY <1>1, <1>3, NoneFails
  <2>2. QED
    BY <1>3, <2>1 DEF s
<1>4. QED
  BY <1>2, <1>3

LEMMA FirstOfTwo ==
  ASSUME NEW a, NEW b
  PROVE  FirstOf(<<a, b>>) = IF a # 0 THEN a ELSE b
<1> DEFINE s == <<a, b>>
<1>1. DOMAIN s = {1, 2} /\ s[1] = a /\ s[2] = b
  OBVIOUS
<1> HIDE DEF s
<1>2. CASE a # 0
  <2>1. FirstOf(s) = s[1]
    BY <1>1, <1>2, FirstAt
  <2>2. QED
    BY <1>1, <1>2, <2>1 DEF s
<1>3. CASE a = 0 /\ b # 0
  <2>1. FirstOf(s) = s[2]
    BY <1>1, <1>3, FirstAt
  <2>2. QED
    BY <1>1, <1>3, <2>1 DEF s
<1>4. CASE a = 0 /\ b = 0
  <2>1. FirstOf(s) = 0
    BY <1>1, <1>4, NoneFails
  <2>2. QED
    BY <1>4, <2>1 DEF s
<1>5. QED
  BY <1>2, <1>3, <1>4

LEMMA FirstOfThree ==
  ASSUME NEW a, NEW b, NEW c
  PROVE  FirstOf(<<a, b, c>>) = IF a # 0 THEN a ELSE IF b # 0 THEN b ELSE c
<1> DEFINE s == <<a, b, c>>
<1>1. DOMAIN s = {1, 2, 3} /\ s[1] = a /\ s[2] = b /\ s[3] = c
  OBVIOUS
<1> HIDE DEF s
<1>2. CASE a # 0
  <2>1. FirstOf(s) = s[1]
    BY <1>1, <1>2, FirstAt
  <2>2. QED
    BY <1>1, <1>2, <2>1 DEF s
<1>3. CASE a = 0 /\ b # 0
  <2>1. FirstOf(s) = s[2]
    BY <1>1, <1>3, FirstAt
  <2>2. QED
    BY <1>1, <1>3, <2>1 DEF s
<1>4. CASE a = 0 /\ b = 0 /\ c # 0
  <2>1. FirstOf(s) = s[3]
    BY <1>1, <1>4, FirstAt
  <2>2. QED
    BY <1>1, <1>4, <2>1 DEF s
<1>5. CASE a = 0 /\ b = 0 /\ c = 0
  <2>1. FirstOf(s) = 0
    BY <1>1, <1>5, NoneFails
  <2>2. QED
    BY <1>5, <2>1 DEF s
<1>6. QED
  BY <1>2, <1>3, <1>4, <1>5

LEMMA FirstOfFour ==
  ASSUME NEW a, NEW b, NEW c, NEW d
  PROVE  FirstOf(<<a, b, c, d>>) = IF a # 0 THEN a ELSE IF b # 0 THEN b ELSE IF c # 0 THEN c ELSE d
<1> DEFINE s == <<a, b, c, d>>
<1>1. DOMAIN s = {1, 2, 3, 4} /\ s[1] = a /\ s[2] = b /\ s[3] = c /\ s[4] = d
  OBVIOUS
<1> HIDE DEF s
<1>2. CASE a # 0
  <2>1. FirstOf(s) = s[1]
    BY <1>1, <1>2, FirstAt
  <2>2. QED
    BY <1>1, <1>2, <2>1 DEF s
<1>3. CASE a = 0 /\ b # 0
  <2>1. FirstOf(s) = s[2]
    BY <1>1, <1>3, FirstAt
  <2>2. QED
    BY <1>1, <1>3, <2>1 DEF s
<1>4. CASE a = 0 /\ b = 0 /\ c # 0
  <2>1. FirstOf(s) = s[3]
    BY <1>1, <1>4, FirstAt
  <2>2. QED
    BY <1>1, <1>4, <2>1 DEF s
<1>5. CASE a = 0 /\ b = 0 /\ c = 0 /\ d # 0
  <2>1. FirstOf(s) = s[4]
    BY <1>1, <1>5, FirstAt
  <2>2. QED
    BY <1>1, <1>5, <2>1 DEF s
<1>6. CASE a = 0 /\ b = 0 /\ c = 0 /\ d = 0
  <2>1. FirstOf(s) = 0
    BY <1>1, <1>6, NoneFails
  <2>2. QED
    BY <1>6, <2>1 DEF s
<1>7. QED
  BY <1>2, <1>3, <1>4, <1>5, <1>6

LEMMA FirstOfFive ==
  ASSUME NEW a, NEW b, NEW c, NEW d, NEW e
  PROVE  FirstOf(<<a, b, c, d, e>>) = IF a # 0 THEN a ELSE IF b # 0 THEN b ELSE IF c # 0 THEN c ELSE IF d # 0 THEN d ELSE e
<1> DEFINE s == <<a, b, c, d, e>>
<1>1. DOMAIN s = {1, 2, 3, 4, 5} /\ s[1] = a /\ s[2] = b /\ s[3] = c /\ s[4] = d /\ s[5] = e
  OBVIOUS
<1> HIDE DEF s
<1>2. CASE a # 0
  <2>1. FirstOf(s) = s[1]
    BY <1>1, <1>2, FirstAt
  <2>2. QED
    BY <1>1, <1>2, <2>1 DEF s
<1>3. CASE a = 0 /\ b # 0
  <2>1. FirstOf(s) = s[2]
    BY <1>1, <1>3, FirstAt
  <2>2. QED
    BY <1>1, <1>3, <2>1 DEF s
<1>4. CASE a = 0 /\ b = 0 /\ c # 0
  <2>1. FirstOf(s) = s[3]
    BY <1>1, <1>4, FirstAt
  <2>2. QED
    BY <1>1, <1>4, <2>1 DEF s
<1>5. CASE a = 0 /\ b = 0 /\ c = 0 /\ d # 0
  <2>1. FirstOf(s) = s[4]
    BY <1>1, <1>5, FirstAt
  <2>2. QED
    BY <1>1, <1>5, <2>1 DEF s
<1>6. CASE a = 0 /\ b = 0 /\ c = 0 /\ d = 0 /\ e # 0
  <2>1. FirstOf(s) = s[5]
    BY <1>1, <1>6, FirstAt
  <2>2. QED
    BY <1>1, <1>6, <2>1 DEF s
<1>7. CASE a = 0 /\ b = 0 /\ c = 0 /\ d = 0 /\ e = 0
  <2>1. FirstOf(s) = 0
    BY <1>1, <1>7, NoneFails
  <2>2. QED
    BY <1>7, <2>1 DEF s
<1>8. QED
  BY <1>2, <1>3, <1>4, <1>5, <1>6, <1>7
-----------------------------------------------------------------------------
(* A receipt file.                                                         *)

\* A body that holds nothing the two schemas see differently, as the gateway's do.
Usual(b) == b.disclosure.hash # "HEX" /\ b.model.holds # "absent" /\ b.client.holds # "absent"

LEMMA SchemasAgree ==
  ASSUME NEW r, Usual(r)
  PROVE  SchemaOK(r) <=> schemaOk(r)
<1>1. r.v \in 1..4 <=> r.v \in {1, 2, 3, 4}
  OBVIOUS
<1>2. r.v \in {1, 2, 3, 4} => (r.v >= 3 <=> r.v \in {3, 4})
  OBVIOUS
<1>3. ActorOK(r) <=> Actor(r)
  BY DEF ActorOK, Actor, ActorAllowed
<1>4. ASSUME NEW meta, meta.holds # "absent"
      PROVE  MetaOK(meta) <=> Declared(meta)
  BY <1>4 DEF MetaOK, Undeclared, Sources, Declared, metaV3
<1>5. ASSUME NEW d, d.hash # "HEX"
      PROVE  DisclosureOK(d) <=> Disclosure(d)
  BY <1>5 DEF DisclosureOK, Disclosure, hashOK
<1>6. ASSUME NEW d
      PROVE  DestinationOK(d) <=> Destination(d)
  BY DEF DestinationOK, Destination
<1>7. \A meta \in {r.model, r.client} : MetaOK(meta) <=> Declared(meta)
  BY <1>4 DEF Usual
<1>8. DisclosureOK(r.disclosure) <=> Disclosure(r.disclosure)
  BY <1>5 DEF Usual
<1>9. QED
  BY <1>1, <1>2, <1>3, <1>6, <1>7, <1>8 DEF SchemaOK, schemaOk

\* A number in a range that some are in: one of them is the greatest.
LEMMA GreatestIndex ==
  ASSUME NEW n \in Nat, NEW S \in SUBSET (1..n), S # {}
  PROVE  \E i \in S : \A j \in S : j <= i
<1> DEFINE down == {n - i : i \in S}
<1>1. down \in SUBSET Nat /\ down # {}
  <2>1. \A i \in S : i \in 1..n
    OBVIOUS
  <2>2. \A i \in S : n - i \in Nat
    BY <2>1
  <2>3. PICK i \in S : TRUE
    OBVIOUS
  <2>4. n - i \in down
    OBVIOUS
  <2>5. QED
    BY <2>2, <2>4
<1>2. PICK k \in down : \A j \in down : k <= j
  BY <1>1, LeastNumber
<1>3. PICK i \in S : k = n - i
  OBVIOUS
<1>4. ASSUME NEW j \in S PROVE j <= i
  <2>1. n - i <= n - j
    BY <1>2, <1>3
  <2>2. QED
    BY <2>1
<1>5. QED
  BY <1>4

LEMMA KeysAgree ==
  ASSUME NEW keyFiles
  PROVE  KeysRefused(keyFiles) <=> NoKeys(keyFiles)
BY DEF KeysRefused, NoKeys, Unreadable

LEMMA SignaturesAgree ==
  ASSUME NEW S, NEW keyFiles \in Seq(S), ~KeysRefused(keyFiles), NEW sig, NEW digest
  PROVE  SigOK(keyFiles, sig, digest) <=> verifySig(loadPubkeys(keyFiles), sig, digest)
<1> DEFINE keyId == sig.keyId
           named == {i \in DOMAIN keyFiles : keyFiles[i].keyId = keyId}
           chosen == CHOOSE i \in named : \A j \in named : j <= i
           ring == loadPubkeys(keyFiles)
<1>1. DOMAIN keyFiles = 1..Len(keyFiles) /\ Len(keyFiles) \in Nat
  OBVIOUS
<1>2. DOMAIN ring = {keyFiles[i].keyId : i \in DOMAIN keyFiles}
  BY DEF loadPubkeys
<1>3. keyId \in DOMAIN ring <=> named # {}
  BY <1>2
<1>4. CASE named = {}
  <2>1. KeyOf(keyFiles, keyId) = None
    BY <1>4 DEF KeyOf
  <2>2. ~SigOK(keyFiles, sig, digest)
    BY <2>1 DEF SigOK
  <2>3. ~verifySig(ring, sig, digest)
    BY <1>3, <1>4 DEF verifySig
  <2>4. QED
    BY <2>2, <2>3
<1>5. CASE named # {}
  <2>1. PICK i \in named : \A j \in named : j <= i
    BY <1>1, <1>5, GreatestIndex
  <2>2. chosen \in named
    BY <2>1
  <2>3. KeyOf(keyFiles, keyId) = keyFiles[chosen].pair
    BY <1>5 DEF KeyOf
  <2>4. keyFiles[chosen].pair # None
    BY <2>2 DEF KeysRefused
  <2>5. ring[keyId] = keyFiles[chosen].pair
    BY <1>2, <1>3, <1>5 DEF loadPubkeys
  <2>6. QED
    BY <1>3, <1>5, <2>3, <2>4, <2>5 DEF SigOK, verifySig
<1>6. QED
  BY <1>4, <1>5

\* What Go's verifier can be asked.
Plainly(opts) ==
  \E Counts, Hashes : opts \in [strict : BOOLEAN, seqFrom : {None, 1}, count : Counts, lastHash : Hashes,
                                anchorCheck : {FALSE}, headAnchor : {FALSE}]

LEMMA ParsedPlainly ==
  ASSUME NEW opts, Plainly(opts)
  PROVE  /\ Parsed(opts).seqFrom = (IF opts.strict /\ opts.seqFrom = None THEN 1 ELSE opts.seqFrom)
         /\ Parsed(opts).count = opts.count /\ Parsed(opts).lastHash = opts.lastHash
         /\ Parsed(opts).strict = opts.strict
         /\ ~Parsed(opts).anchorCheck /\ ~Parsed(opts).headAnchor
         /\ ~opts.anchorCheck /\ ~opts.headAnchor
BY DEF Plainly, Parsed

\* One receipt in its place.
LEMMA LinesAgree ==
  ASSUME NEW S, NEW keyFiles \in Seq(S), ~KeysRefused(keyFiles), NEW opts, Plainly(opts),
         NEW stored, NEW i \in DOMAIN stored, NEW anchors, NEW net,
         1 # None, ~Differs(stored[i])
  PROVE  ReceiptCode(stored, i, Parsed(opts), keyFiles, anchors, net) = Loop(opts, loadPubkeys(keyFiles), stored)[i]
<1> DEFINE r == stored[i]
           c == r.chain
           o == Parsed(opts)
           gap == IF i = 1 THEN o.seqFrom # None /\ c.seq # o.seqFrom ELSE c.seq # stored[i - 1].chain.seq + 1
           prev == IF i = 1 THEN Genesis ELSE stored[i - 1].chain.hash
           ring == loadPubkeys(keyFiles)
           notPrev == Code(c.prevHash # prev, 11)
           notNext == Code(gap, 12)
           notSame == Code(c.hash # Digest(r), 10)
           notSigned == Code(~SigOK(keyFiles, r.sig, c.hash), 13)
           bad == Code(r.form = "other" \/ ~SchemaOK(r.body), 20)
           goBad == Code(~schemaOk(r.body), 20)
<1>1. ChainCode(stored, i, o.seqFrom) = IF notPrev # 0 THEN notPrev ELSE notNext
  <2>1. CASE i = 1
    BY <2>1, FirstOfTwo DEF ChainCode
  <2>2. CASE i # 1
    BY <2>2, FirstOfTwo DEF ChainCode
  <2>3. QED
    BY <2>1, <2>2
<1>2. ReceiptCode(stored, i, o, keyFiles, anchors, net) =
        FirstOf(<<bad, notSame, ChainCode(stored, i, o.seqFrom), notSigned, 0>>)
  BY ParsedPlainly DEF ReceiptCode
<1>3. Loop(opts, ring, stored)[i] = FirstOf(<<goBad, notSame, notPrev, notNext, notSigned>>)
  <2>1. verifySig(ring, r.sig, c.hash) <=> SigOK(keyFiles, r.sig, c.hash)
    BY SignaturesAgree
  <2>2. receiptHash(r) = Digest(r)
    BY DEF receiptHash, Digest
  <2>3. o.seqFrom = IF opts.seqFrom # None THEN opts.seqFrom ELSE IF opts.strict THEN 1 ELSE None
    BY ParsedPlainly
  <2>4. Code(~verifySig(ring, r.sig, c.hash), 13) = notSigned
    BY <2>1 DEF Code
  <2>5. Code(c.hash # receiptHash(r), 10) = notSame
    BY <2>2
  <2>6. QED
    BY <2>3, <2>4, <2>5 DEF Loop
<1>4. bad = goBad
  <2>1. r.form # "other" /\ Usual(r.body)
    BY DEF Differs, Usual
  <2>2. QED
    BY <2>1, SchemasAgree DEF Code
<1> HIDE DEF bad, goBad, notSame, notPrev, notNext, notSigned
<1>5. QED
  BY <1>1, <1>2, <1>3, <1>4, FirstOfFive

LEMMA PinsAgree ==
  ASSUME NEW opts, Plainly(opts), NEW stored
  PROVE  /\ FirstOf(PinCodes(stored, Parsed(opts))) = FirstOf(Pins(opts, stored))
         /\ FirstOf(AnchorCodes(stored, Parsed(opts))) = 0
<1> DEFINE o == Parsed(opts)
           count == Code(o.count # None /\ (stored = <<>> \/ Len(stored) # o.count), 11)
           head == Code(o.lastHash # None /\ (stored = <<>> \/ Last(stored).chain.hash # o.lastHash), 11)
<1>1. FirstOf(PinCodes(stored, o)) = IF count # 0 THEN count ELSE head
  BY FirstOfTwo DEF PinCodes
<1>2. ASSUME stored = <<>>
      PROVE  FirstOf(PinCodes(stored, o)) = FirstOf(Pins(opts, stored))
  <2> DEFINE any == Code(opts.count # None \/ opts.lastHash # None, 11)
  <2>1. FirstOf(Pins(opts, stored)) = any
    BY <1>2, FirstOfOne DEF Pins
  <2>2. any = IF count # 0 THEN count ELSE head
    BY <1>2, ParsedPlainly DEF Code
  <2>3. QED
    BY <1>1, <2>1, <2>2
<1>3. ASSUME stored # <<>>
      PROVE  FirstOf(PinCodes(stored, o)) = FirstOf(Pins(opts, stored))
  <2> DEFINE goCount == Code(opts.count # None /\ opts.count # Len(stored), 11)
             goHead == Code(opts.lastHash # None /\ opts.lastHash # stored[Len(stored)].chain.hash, 11)
  <2>1. FirstOf(Pins(opts, stored)) = IF goCount # 0 THEN goCount ELSE goHead
    BY <1>3, FirstOfTwo DEF Pins
  <2>2. count = goCount /\ head = goHead
    BY <1>3, ParsedPlainly DEF Code, Last
  <2>3. QED
    BY <1>1, <2>1, <2>2
<1>4. FirstOf(AnchorCodes(stored, o)) = 0
  <2>1. AnchorCodes(stored, o) = <<0, 0>>
    BY ParsedPlainly DEF AnchorCodes, Code
  <2>2. QED
    BY <2>1, FirstOfTwo
<1>5. QED
  BY <1>2, <1>3, <1>4

LEMMA LoadingAgrees ==
  ASSUME NEW stored, \A i \in DOMAIN stored : stored[i].form \notin {"joined", "other"}
  PROVE  LoadCode(stored) = loadReceipts(stored)
<1>1. CASE \E i \in DOMAIN stored : stored[i].form = "pretty"
  BY <1>1 DEF LoadCode, loadReceipts, Decoded
<1>2. CASE (\A i \in DOMAIN stored : stored[i].form # "pretty") /\ \E i \in DOMAIN stored : stored[i].form = "torn"
  BY <1>2 DEF LoadCode, loadReceipts, Decoded, Code
<1>3. CASE \A i \in DOMAIN stored : stored[i].form \notin {"pretty", "torn"}
  BY <1>3 DEF LoadCode, loadReceipts, Decoded, Code
<1>4. QED
  BY <1>1, <1>2, <1>3

\* A file of usual lines of one receipt each.
LEMMA FilesAgree ==
  ASSUME NEW S, NEW keyFiles \in Seq(S), NEW opts, Plainly(opts), NEW L, NEW stored \in Seq(L),
         NEW anchors, NEW net, 1 # None,
         \A i \in DOMAIN stored : ~Differs(stored[i]) /\ stored[i].form # "joined"
  PROVE  Exit(stored, opts, keyFiles, anchors, net) = runReceipts(opts, keyFiles, stored)
<1> DEFINE o == Parsed(opts)
           ring == loadPubkeys(keyFiles)
           unpinned == Code(o.strict /\ ~TailPinned(o), 11)
           keyless == Code(KeysRefused(keyFiles), 13)
           lines == [i \in DOMAIN stored |-> ReceiptCode(stored, i, o, keyFiles, anchors, net)]
           goLines == Loop(opts, ring, stored)
           pins == FirstOf(PinCodes(stored, o))
           earlier == FirstOf(<<unpinned, LoadCode(stored), keyless>>)
           goBefore == FirstOf(<<0, unpinned, loadReceipts(stored), keyless>>)
<1>1. Exit(stored, opts, keyFiles, anchors, net) =
        IF earlier # 0 THEN earlier ELSE IF FirstOf(lines) # 0 THEN FirstOf(lines) ELSE pins
  <2>1. FirstOf(Checks(stored, o, keyFiles, anchors, net)) =
          IF FirstOf(lines) # 0 THEN FirstOf(lines) ELSE IF pins # 0 THEN pins ELSE 0
    BY FirstOfThree, PinsAgree DEF Checks
  <2>2. QED
    BY <2>1 DEF Exit
<1>2. runReceipts(opts, keyFiles, stored) =
        IF goBefore # 0 THEN goBefore ELSE IF FirstOf(goLines) # 0 THEN FirstOf(goLines) ELSE pins
  <2>1. ~UnknownFlag(opts)
    BY ParsedPlainly DEF UnknownFlag
  <2>2. Code(UnknownFlag(opts), 2) = 0
    BY <2>1 DEF Code
  <2>3. Code(opts.strict /\ opts.count = None /\ opts.lastHash = None, 11) = unpinned
    BY ParsedPlainly DEF TailPinned
  <2>4. Code(NoKeys(keyFiles), 13) = keyless
    BY KeysAgree DEF Code
  <2>5. FirstOf(<<FirstOf(goLines), FirstOf(Pins(opts, stored))>>) =
          IF FirstOf(goLines) # 0 THEN FirstOf(goLines) ELSE pins
    BY FirstOfTwo, PinsAgree
  <2>6. QED
    BY <2>2, <2>3, <2>4, <2>5 DEF runReceipts
<1>3. earlier = (IF unpinned # 0 THEN unpinned ELSE IF LoadCode(stored) # 0 THEN LoadCode(stored) ELSE keyless)
  BY FirstOfThree
<1>4. goBefore = (IF unpinned # 0 THEN unpinned ELSE IF loadReceipts(stored) # 0 THEN loadReceipts(stored) ELSE keyless)
  BY FirstOfFour
<1>5. DOMAIN lines \in SUBSET Nat /\ DOMAIN lines = DOMAIN stored /\ DOMAIN goLines = DOMAIN stored
  BY DEF Loop
<1>6. ~KeysRefused(keyFiles) => \A i \in DOMAIN stored : lines[i] = goLines[i]
  BY LinesAgree
<1>7. keyless = 0 => ~KeysRefused(keyFiles)
  BY DEF Code
<1>8. earlier = goBefore
  <2>1. \A i \in DOMAIN stored : stored[i].form \notin {"joined", "other"}
    BY DEF Differs
  <2>2. QED
    BY <1>3, <1>4, <2>1, LoadingAgrees
<1>9. CASE earlier # 0
  BY <1>1, <1>2, <1>8, <1>9
<1>10. CASE earlier = 0
  <2>1. keyless = 0
    BY <1>3, <1>10
  <2>2. goLines = lines
    BY <1>5, <1>6, <1>7, <2>1 DEF Loop
  <2>3. QED
    BY <1>1, <1>2, <1>8, <1>10, <2>2
<1>11. QED
  BY <1>9, <1>10
-----------------------------------------------------------------------------
(* A countersign record.                                                   *)

LEMMA InclusionsAgree ==
  ASSUME NEW rec, NEW P, NEW proof, proof.path \in Seq(P)
  PROVE  InclusionOK(rec, proof) <=> verifyInclusion(rec, proof)
<1> DEFINE path == proof.path
           n == Len(path)
           links == [i \in DOMAIN path |-> path[i].prevHash]
           hashes == [i \in DOMAIN path |-> path[i].hash]
           earlier == <<rec.prevHash>> \o hashes
           step == [i \in DOMAIN path |-> [seq |-> path[i].seq, hash |-> path[i].hash]]
<1>1. DOMAIN path = 1..n /\ n \in Nat
  OBVIOUS
<1> DEFINE H == {path[i].hash : i \in 1..n} \cup {rec.prevHash}
<1>2. hashes \in Seq(H) /\ Len(hashes) = n
  <2>1. \A i \in 1..n : hashes[i] \in H
    BY <1>1
  <2>2. QED
    BY <1>1, <2>1
<1>3. earlier \in Seq(H) /\ Len(earlier) = n + 1
      /\ \A i \in 1..n : earlier[i] = IF i = 1 THEN rec.prevHash ELSE path[i - 1].hash
  <2>1. <<rec.prevHash>> \in Seq(H) /\ Len(<<rec.prevHash>>) = 1 /\ <<rec.prevHash>>[1] = rec.prevHash
    OBVIOUS
  <2> DEFINE one == <<rec.prevHash>>
  <2> HIDE DEF hashes, H, one
  <2>2. one \o hashes \in Seq(H) /\ Len(one \o hashes) = n + 1
        /\ \A i \in 1..(n + 1) : (one \o hashes)[i] = IF i <= 1 THEN one[i] ELSE hashes[i - 1]
    BY <1>1, <1>2, <2>1, ConcatProperties DEF one
  <2>3. \A i \in 1..n : i # 1 => hashes[i - 1] = path[i - 1].hash
    BY <1>1 DEF hashes
  <2>4. QED
    BY <1>1, <2>1, <2>2, <2>3 DEF one
<1>4. SubSeq(earlier, 1, n) \in Seq(H) /\ Len(SubSeq(earlier, 1, n)) = n
      /\ \A i \in 1..n : SubSeq(earlier, 1, n)[i] = earlier[i]
  <2> HIDE DEF earlier, H
  <2>1. QED
    BY <1>1, <1>3
<1>5. links = SubSeq(earlier, 1, n) <=>
        \A i \in 1..n : path[i].prevHash = IF i = 1 THEN rec.prevHash ELSE path[i - 1].hash
  <2> HIDE DEF earlier, H, hashes
  <2> DEFINE sub == SubSeq(earlier, 1, n)
  <2>1. DOMAIN sub = 1..n /\ sub = [i \in 1..n |-> sub[i]]
    BY <1>1, <1>4
  <2>2. links = [i \in 1..n |-> path[i].prevHash]
    BY <1>1
  <2>3. \A i \in 1..n : sub[i] = IF i = 1 THEN rec.prevHash ELSE path[i - 1].hash
    BY <1>3, <1>4
  <2> HIDE DEF sub, links
  <2>4. links = sub <=> \A i \in 1..n : path[i].prevHash = sub[i]
    BY <2>1, <2>2
  <2>5. QED
    BY <2>3, <2>4 DEF sub
<1>6. path # <<>> => 1 \in 1..n /\ n \in 1..n
  BY <1>1
<1>7. ASSUME path # <<>>
      PROVE  /\ step[1] = [seq |-> rec.seq, hash |-> rec.hash] <=> path[1].hash = rec.hash /\ path[1].seq = rec.seq
             /\ step[n] = [seq |-> proof.head.seq, hash |-> proof.head.hash] <=>
                  Last(path).hash = proof.head.hash /\ Last(path).seq = proof.head.seq
  BY <1>1, <1>6, <1>7 DEF Last
<1> HIDE DEF earlier, step, links, hashes
<1>8. QED
  BY <1>1, <1>5, <1>7 DEF InclusionOK, verifyInclusion, Link, earlier, step, links, hashes

\* A record, countersigned or not.
IsRecord(rec) ==
  rec = [form |-> rec.form, type |-> rec.type, seq |-> rec.seq, prevHash |-> rec.prevHash, hash |-> rec.hash,
         digest |-> rec.digest, tidy |-> rec.tidy, sig |-> rec.sig]

\* A record whose hash is one, by itself, and a proof.
LEMMA RecordsAgree ==
  ASSUME NEW rec, IsRecord(rec), rec.tidy, NEW key, NEW given,
         given.is = "proof" => \E P : given.proof.path \in Seq(P)
  PROVE  LET read == CountersignExit(FirstOn(rec), key, given, Without("unasked"))
             go == runCountersign(rec, <<key>>, given)
         IN  go = IF given.is = "null" /\ read = 0 THEN 14 ELSE read
<1> DEFINE alone == FirstOn(rec)
           digest == Unsigned(rec)
           badRecord == Code(~RecordOK(alone), 20)
           goBadRecord == Code(rec.form \notin {"object", "joined", "pretty"} \/ ~Record(rec), 20)
           badSig == Code(KeysRefused(<<key>>) \/ ~SigOK(<<key>>, rec.sig, digest), 13)
           keyless == Code(NoKeys(<<key>>), 13)
           goBadSig == Code(~verifySig(loadPubkeys(<<key>>), rec.sig, digest), 13)
           isNull == Code(given.is = "null", 14)
           outside == Code(given.is = "proof" /\ ~InclusionOK(rec, given.proof), 14)
<1>1. /\ alone.form = (IF rec.form = "joined" THEN "object" ELSE rec.form)
      /\ alone.type = rec.type /\ alone.seq = rec.seq /\ alone.prevHash = rec.prevHash /\ alone.hash = rec.hash
      /\ alone.tidy = rec.tidy /\ alone.sig = rec.sig /\ Unsigned(alone) = digest
  BY DEF IsRecord, FirstOn, Unsigned
<1>2. given.is = "proof" => (InclusionOK(alone, given.proof) <=> InclusionOK(rec, given.proof))
  <2>1. Link(alone) = Link(rec)
    BY <1>1 DEF Link
  <2>2. QED
    BY <1>1, <2>1 DEF InclusionOK
<1> HIDE DEF alone
<1>3. CountersignExit(alone, key, given, Without("unasked")) = FirstOf(<<badRecord, badSig, 0, 0, outside>>)
  <2>1. Code(given.is = "proof" /\ ~InclusionOK(alone, given.proof), 14) = outside
    BY <1>2 DEF Code
  <2>2. Code(KeysRefused(<<key>>) \/ ~SigOK(<<key>>, alone.sig, Unsigned(alone)), 13) = badSig
    BY <1>1 DEF Code
  <2>3. QED
    BY <2>1, <2>2 DEF CountersignExit, Without, Code
<1>4. runCountersign(rec, <<key>>, given) = FirstOf(<<goBadRecord, keyless, goBadSig, isNull, outside>>)
  <2>1. given.is = "proof" => (InclusionOK(rec, given.proof) <=> verifyInclusion(rec, given.proof))
    BY InclusionsAgree
  <2>2. Code(given.is = "proof" /\ ~verifyInclusion(rec, given.proof), 14) = outside
    BY <2>1 DEF Code
  <2>3. QED
    BY <2>2 DEF runCountersign, Unsigned
<1>5. badSig = IF keyless # 0 THEN keyless ELSE goBadSig
  <2>1. <<key>> \in Seq({key})
    OBVIOUS
  <2>2. KeysRefused(<<key>>) <=> NoKeys(<<key>>)
    BY KeysAgree
  <2>3. ~KeysRefused(<<key>>) =>
          (SigOK(<<key>>, rec.sig, digest) <=> verifySig(loadPubkeys(<<key>>), rec.sig, digest))
    BY <2>1, SignaturesAgree
  <2>4. QED
    BY <2>2, <2>3 DEF Code
<1>6. badRecord = goBadRecord
  <2>1. RecordOK(alone) <=> rec.form \in {"object", "joined", "pretty"} /\ Record(rec)
    BY <1>1 DEF RecordOK, Record
  <2>2. QED
    BY <2>1 DEF Code
<1>7. isNull = (IF given.is = "null" THEN 14 ELSE 0) /\ (given.is = "null" => outside = 0)
  BY DEF Code
<1> HIDE DEF badRecord, goBadRecord, badSig, keyless, goBadSig, isNull, outside
<1>8. FirstOf(<<goBadRecord, keyless, goBadSig, isNull, outside>>) =
        IF given.is = "null" /\ FirstOf(<<badRecord, badSig, 0, 0, outside>>) = 0 THEN 14
        ELSE FirstOf(<<badRecord, badSig, 0, 0, outside>>)
  BY <1>5, <1>6, <1>7, FirstOfFive
<1>9. QED
  BY <1>3, <1>4, <1>8 DEF alone

\* A record that does not parse by itself, or whose hash is none.
LEMMA RecordsRefused ==
  ASSUME NEW rec, NEW key, NEW given, ~rec.tidy \/ rec.form = "joined"
  PROVE  CountersignExit(rec, key, given, Without("unasked")) # 0
<1> DEFINE badRecord == Code(~RecordOK(rec), 20)
           badSig == Code(KeysRefused(<<key>>) \/ ~SigOK(<<key>>, rec.sig, Unsigned(rec)), 13)
           outside == Code(given.is = "proof" /\ ~InclusionOK(rec, given.proof), 14)
<1>1. badRecord = 20
  BY DEF RecordOK, Code
<1>2. CountersignExit(rec, key, given, Without("unasked")) = FirstOf(<<badRecord, badSig, 0, 0, outside>>)
  BY DEF CountersignExit, Without, Code
<1> HIDE DEF badRecord, badSig, outside
<1>3. QED
  BY <1>1, <1>2, FirstOfFive

\* Nor does a signature of another record hold with Go's verifier.
LEMMA OtherRecordsRefused ==
  ASSUME NEW rec, NEW paths, NEW given, rec.sig.over # Unsigned(rec)
  PROVE  runCountersign(rec, paths, given) # 0
<1> DEFINE goBadRecord == Code(rec.form \notin {"object", "joined", "pretty"} \/ ~Record(rec), 20)
           keyless == Code(NoKeys(paths), 13)
           goBadSig == Code(~verifySig(loadPubkeys(paths), rec.sig, Unsigned(rec)), 13)
           isNull == Code(given.is = "null", 14)
           outside == Code(given.is = "proof" /\ ~verifyInclusion(rec, given.proof), 14)
<1>1. goBadSig = 13
  BY DEF verifySig, Code
<1>2. runCountersign(rec, paths, given) = FirstOf(<<goBadRecord, keyless, goBadSig, isNull, outside>>)
  BY DEF runCountersign, Unsigned
<1> HIDE DEF goBadRecord, keyless, goBadSig, isNull, outside
<1>3. QED
  BY <1>1, <1>2, FirstOfFive
-----------------------------------------------------------------------------
(* Whatever becomes of them, files are sequences.                          *)

IsSeq(s) == \E L : s \in Seq(L)

LEMMA ListIsSeq ==
  ASSUME NEW n \in Nat, NEW f, f = [i \in 1..n |-> f[i]]
  PROVE  IsSeq(f) /\ Len(f) = n
<1> DEFINE L == {f[i] : i \in 1..n}
<1>1. f \in [1..n -> L]
  OBVIOUS
<1>2. f \in Seq(L)
  BY <1>1, SeqDef
<1>3. Len(f) = n
  <2>1. Len(f) \in Nat /\ 1..Len(f) = 1..n
    BY <1>1, <1>2
  <2>2. Len(f) \in 1..Len(f) \/ Len(f) = 0
    BY <2>1
  <2>3. n \in 1..n \/ n = 0
    OBVIOUS
  <2>4. Len(f) <= n /\ n <= Len(f)
    BY <2>1, <2>2, <2>3
  <2>5. QED
    BY <2>1, <2>4
<1>4. QED
  BY <1>2, <1>3 DEF IsSeq

LEMMA SeqWider ==
  ASSUME NEW L, NEW M, NEW s \in Seq(L)
  PROVE  s \in Seq(L \cup M)
<1>1. PICK n \in Nat : s \in [1..n -> L]
  BY SeqDef
<1>2. s \in [1..n -> L \cup M]
  BY <1>1
<1>3. QED
  BY <1>2, SeqDef

LEMMA OneIsSeq ==
  ASSUME NEW x
  PROVE  IsSeq(<<x>>)
<1>1. <<x>> \in Seq({x})
  OBVIOUS
<1>2. QED
  BY <1>1 DEF IsSeq

LEMMA ChangeIsSeq ==
  ASSUME NEW s, IsSeq(s), NEW t, DOMAIN t = DOMAIN s, t = [i \in DOMAIN s |-> t[i]]
  PROVE  IsSeq(t)
<1>1. Len(s) \in Nat /\ DOMAIN s = 1..Len(s)
  BY DEF IsSeq
<1>2. QED
  BY <1>1, ListIsSeq
-----------------------------------------------------------------------------
\* The properties' own instances of the lemmas above.

LEMMA OptionsArePlain ==
  ASSUME NEW opts \in Options, ~opts.anchorCheck, ~opts.headAnchor
  PROVE  Plainly(opts)
<1> DEFINE Counts == {None, Len(log)}
           Hashes == {None, Last(log).chain.hash}
           Plain == [strict : BOOLEAN, seqFrom : {None, 1}, count : Counts, lastHash : Hashes,
                     anchorCheck : {FALSE}, headAnchor : {FALSE}]
<1>1. Bare \in Plain /\ ConsoleCommand(log) \in Plain
  BY DEF Bare, ConsoleCommand
<1>2. opts \in Plain
  BY <1>1 DEF Options, Bare, ConsoleCommand
<1>3. QED
  BY <1>2 DEF Plainly

LEMMA ProofsAreSeqs ==
  ASSUME IsSeq(log), NEW k \in DOMAIN log, NEW given \in ProofsFor(Countersigned(log), k),
         given.is = "proof"
  PROVE  \E P : given.proof.path \in Seq(P)
<1> DEFINE clog == Countersigned(log)
<1>1. Len(log) \in Nat /\ DOMAIN log = 1..Len(log)
  BY DEF IsSeq
<1>2. Len(clog) = Len(log) /\ DOMAIN clog = 1..Len(log)
  <2>1. DOMAIN clog = 1..Len(log) /\ clog = [i \in 1..Len(log) |-> clog[i]]
    BY <1>1 DEF Countersigned
  <2>2. QED
    BY <1>1, <2>1, ListIsSeq
<1> HIDE DEF clog
<1>3. ASSUME NEW j \in DOMAIN log
      PROVE  IsSeq(ProofOf(clog, j).path)
  <2> DEFINE path == [i \in 1..(Len(clog) - j + 1) |-> Link(clog[j + i - 1])]
  <2>1. Len(clog) - j + 1 \in Nat
    BY <1>1, <1>2
  <2>2. IsSeq(path)
    BY <2>1, ListIsSeq
  <2>3. QED
    BY <2>2 DEF ProofOf
<1>4. 1 \in DOMAIN log
  BY <1>1
<1> DEFINE proof == ProofOf(clog, k)
<1> DEFINE moved == [proof EXCEPT !.head = Link(clog[1])]
<1>5. CASE given = Given(proof) \/ given = Given(moved)
  <2>1. moved.path = proof.path
    BY DEF ProofOf
  <2> HIDE DEF proof, moved
  <2>2. given.proof = proof \/ given.proof = moved
    BY <1>5 DEF Given
  <2>3. given.proof.path = proof.path
    BY <2>1, <2>2
  <2>4. QED
    BY <1>3, <2>3 DEF IsSeq, proof
<1>6. CASE given = Given([proof EXCEPT !.path = <<>>])
  <2>1. given.proof.path = <<>>
    BY <1>6 DEF Given, ProofOf
  <2>2. QED
    BY <2>1, EmptySeq
<1>7. CASE given = Given([proof EXCEPT !.path[1].prevHash = proof.path[1].hash])
  <2> DEFINE path == given.proof.path
  <2>1. path = [proof.path EXCEPT ![1].prevHash = proof.path[1].hash]
    BY <1>7 DEF Given, ProofOf
  <2>2. DOMAIN path = DOMAIN proof.path /\ path = [i \in DOMAIN proof.path |-> path[i]]
    BY <2>1
  <2>3. IsSeq(path)
    BY <1>3, <2>2, ChangeIsSeq
  <2>4. QED
    BY <2>3 DEF IsSeq
<1>8. CASE given = Given(ProofOf(clog, 1))
  <2>1. given.proof.path = ProofOf(clog, 1).path
    BY <1>8 DEF Given
  <2>2. QED
    BY <1>3, <1>4, <2>1 DEF IsSeq
<1>9. CASE given = Without("unasked") \/ given = Without("null")
  BY <1>9 DEF Without
<1>10. QED
  BY <1>5, <1>6, <1>7, <1>8, <1>9 DEF ProofsFor, clog
-----------------------------------------------------------------------------
(* What an accepted file is.                                               *)

\* The line is what it says it is, comes after the one before it and is signed.
Linked(stored, i) ==
  LET c == stored[i].chain
  IN  /\ c.hash = Digest(stored[i])
      /\ c.prevHash = IF i = 1 THEN Genesis ELSE stored[i - 1].chain.hash

SignedItself(r) == r.sig # None /\ r.sig.over = r.chain.hash

LEMMA LineAccepted ==
  ASSUME NEW stored, NEW i, NEW o, NEW keyFiles, NEW anchors, NEW net,
         ReceiptCode(stored, i, o, keyFiles, anchors, net) = 0
  PROVE  /\ Linked(stored, i) /\ SignedItself(stored[i]) /\ stored[i].form # "other"
         /\ o.anchorCheck => AnchorCode(stored[i], anchors, net) = 0
<1> DEFINE r == stored[i]
           bad == Code(r.form = "other" \/ ~SchemaOK(r.body), 20)
           notSame == Code(r.chain.hash # Digest(r), 10)
           notSigned == Code(~SigOK(keyFiles, r.sig, r.chain.hash), 13)
           notAnchored == IF o.anchorCheck THEN AnchorCode(r, anchors, net) ELSE 0
           astray == ChainCode(stored, i, o.seqFrom)
<1>1. ReceiptCode(stored, i, o, keyFiles, anchors, net) = FirstOf(<<bad, notSame, astray, notSigned, notAnchored>>)
  BY DEF ReceiptCode
<1> HIDE DEF bad, notSame, notSigned, notAnchored, astray
<1>2. bad = 0 /\ notSame = 0 /\ notSigned = 0 /\ notAnchored = 0 /\ astray = 0
  BY <1>1, FirstOfFive
<1>3. r.chain.hash = Digest(r)
  BY <1>2 DEF notSame, Code
<1>4. SigOK(keyFiles, r.sig, r.chain.hash)
  BY <1>2 DEF notSigned, Code
<1>5. r.chain.prevHash = IF i = 1 THEN Genesis ELSE stored[i - 1].chain.hash
  <2>1. CASE i = 1
    <3> DEFINE first == Code(r.chain.prevHash # Genesis, 11)
    <3>1. first = 0
      BY <1>2, <2>1, FirstOfTwo DEF astray, ChainCode
    <3>2. QED
      BY <2>1, <3>1 DEF Code
  <2>2. CASE i # 1
    <3> DEFINE first == Code(r.chain.prevHash # stored[i - 1].chain.hash, 11)
    <3>1. first = 0
      BY <1>2, <2>2, FirstOfTwo DEF astray, ChainCode
    <3>2. QED
      BY <2>2, <3>1 DEF Code
  <2>3. QED
    BY <2>1, <2>2
<1>6. o.anchorCheck => AnchorCode(r, anchors, net) = 0
  BY <1>2 DEF notAnchored
<1>7. r.form # "other"
  BY <1>2 DEF bad, Code
<1>8. QED
  BY <1>3, <1>4, <1>5, <1>6, <1>7 DEF Linked, SignedItself, SigOK

LEMMA GoLineAccepted ==
  ASSUME NEW stored, NEW i \in DOMAIN stored, NEW opts, NEW ring, Loop(opts, ring, stored)[i] = 0
  PROVE  Linked(stored, i) /\ SignedItself(stored[i])
<1> DEFINE r == stored[i]
           c == r.chain
           from == IF opts.seqFrom # None THEN opts.seqFrom ELSE IF opts.strict THEN 1 ELSE None
           gap == IF i = 1 THEN from # None /\ c.seq # from ELSE c.seq # stored[i - 1].chain.seq + 1
           prev == IF i = 1 THEN Genesis ELSE stored[i - 1].chain.hash
           bad == Code(~schemaOk(r.body), 20)
           notSame == Code(c.hash # receiptHash(r), 10)
           notPrev == Code(c.prevHash # prev, 11)
           notNext == Code(gap, 12)
           notSigned == Code(~verifySig(ring, r.sig, c.hash), 13)
<1>1. Loop(opts, ring, stored)[i] = FirstOf(<<bad, notSame, notPrev, notNext, notSigned>>)
  BY DEF Loop
<1> HIDE DEF bad, notSame, notPrev, notNext, notSigned
<1>2. notSame = 0 /\ notPrev = 0 /\ notSigned = 0
  BY <1>1, FirstOfFive
<1>3. c.hash = Digest(r)
  BY <1>2 DEF notSame, Code, receiptHash, Digest
<1>4. c.prevHash = prev
  BY <1>2 DEF notPrev, Code
<1>5. verifySig(ring, r.sig, c.hash)
  BY <1>2 DEF notSigned, Code
<1>6. QED
  BY <1>3, <1>4, <1>5 DEF Linked, SignedItself, verifySig

\* A chain's last hash is all that its lines say.
LEMMA ChainIsHistory ==
  ASSUME NEW f, IsSeq(f), f # <<>>, \A i \in DOMAIN f : Linked(f, i)
  PROVE  Contents(f) = Last(f).chain.hash
<1> DEFINE n == Len(f)
           says(i) == [seq |-> f[i].chain.seq, body |-> f[i].body]
           C == {says(i) : i \in 1..n}
           hash(i) == f[i].chain.hash
           Fine(i) == hash(i) \in Seq(C) /\ Len(hash(i)) = i /\ \A j \in 1..i : hash(i)[j] = says(j)
<1>1. n \in Nat \ {0} /\ DOMAIN f = 1..n
  BY DEF IsSeq
<1>2. \A i \in 1..n : Fine(i)
  <2> DEFINE wrong == {i \in 1..n : ~Fine(i)}
  <2> SUFFICES ASSUME wrong # {} PROVE FALSE
    OBVIOUS
  <2>1. wrong \in SUBSET Nat
    BY <1>1
  <2>2. PICK k \in wrong : \A j \in wrong : k <= j
    BY <2>1, LeastNumber
  <2>3. k \in 1..n /\ ~Fine(k)
    OBVIOUS
  <2>4. hash(k) = Append(f[k].chain.prevHash, says(k))
    BY <1>1, <2>3 DEF Linked, Digest
  <2>5. says(k) \in C
    BY <2>3
  <2>6. CASE k = 1
    <3>1. f[k].chain.prevHash = <<>>
      BY <1>1, <2>3, <2>6 DEF Linked, Genesis
    <3> HIDE DEF says, C, hash
    <3>2. Append(<<>>, says(k)) = <<says(k)>>
      OBVIOUS
    <3>3. hash(k) = <<says(k)>>
      BY <2>4, <3>1, <3>2
    <3>4. <<says(k)>> \in Seq(C) /\ Len(<<says(k)>>) = 1
      BY <2>5
    <3>5. \A j \in 1..1 : <<says(k)>>[j] = says(k)
      OBVIOUS
    <3>6. \A j \in 1..k : j = k
      BY <2>6
    <3>7. \A j \in 1..k : hash(k)[j] = says(j)
      BY <2>6, <3>3, <3>5, <3>6
    <3>8. QED
      BY <2>3, <2>6, <3>3, <3>4, <3>7
  <2>7. CASE k # 1
    <3>1. k - 1 \in 1..n /\ k - 1 < k
      BY <1>1, <2>3, <2>7
    <3>2. Fine(k - 1)
      <4>1. ~(k <= k - 1)
        BY <3>1
      <4>2. k - 1 \notin wrong
        BY <2>2, <4>1
      <4> HIDE DEF Fine
      <4>3. QED
        BY <3>1, <4>2
    <3>3. f[k].chain.prevHash = hash(k - 1)
      BY <1>1, <2>3, <2>7 DEF Linked
    <3> HIDE DEF says, C, hash
    <3>4. hash(k) = Append(hash(k - 1), says(k))
      BY <2>4, <3>3
    <3>5. hash(k) \in Seq(C) /\ Len(hash(k)) = k
      BY <2>3, <2>5, <3>1, <3>2, <3>4
    <3>6. \A j \in 1..k : hash(k)[j] = says(j)
      BY <2>3, <2>5, <3>1, <3>2, <3>4
    <3>7. QED
      BY <2>3, <3>5, <3>6
  <2>8. QED
    BY <2>6, <2>7
<1>3. Fine(n)
  <2> HIDE DEF Fine, n
  <2>1. n \in 1..n
    BY <1>1
  <2>2. QED
    BY <1>2, <2>1
<1>4. Contents(f) = [i \in 1..n |-> says(i)]
  BY <1>1 DEF Contents
<1>5. hash(n) = [i \in 1..n |-> hash(n)[i]]
  <2> HIDE DEF C, hash
  <2>1. hash(n) \in [1..Len(hash(n)) -> C]
    BY <1>3, SeqDef
  <2>2. QED
    BY <1>3, <2>1
<1>6. QED
  <2> HIDE DEF says, hash
  <2>1. Contents(f) = hash(n)
    BY <1>3, <1>4, <1>5
  <2>2. QED
    BY <2>1 DEF hash, Last

\* What an auditor can ask.
Askable(opts) ==
  \E Counts, Hashes : opts \in [strict : BOOLEAN, seqFrom : {None, 1}, count : Counts, lastHash : Hashes,
                                anchorCheck : BOOLEAN, headAnchor : BOOLEAN]

LEMMA OptionsAreAskable ==
  ASSUME NEW opts \in Options
  PROVE  /\ Askable(opts)
         /\ opts.lastHash # None => opts.lastHash = Last(log).chain.hash /\ log # <<>>
<1> DEFINE Counts == {None, Len(log)}
           Hashes == {None, Last(log).chain.hash}
           All == [strict : BOOLEAN, seqFrom : {None, 1}, count : Counts, lastHash : Hashes,
                   anchorCheck : BOOLEAN, headAnchor : BOOLEAN]
<1>1. Bare \in All /\ ConsoleCommand(log) \in All
  BY DEF Bare, ConsoleCommand
<1>2. opts \in All
  BY <1>1 DEF Options, Bare, ConsoleCommand
<1>3. opts.lastHash # None => opts.lastHash = Last(log).chain.hash /\ log # <<>>
  <2> DEFINE pinned == ConsoleCommand(log)
  <2>1. pinned.lastHash # None => pinned.lastHash = Last(log).chain.hash /\ log # <<>>
    BY DEF ConsoleCommand
  <2>2. \/ opts.lastHash = None
        \/ opts.lastHash = pinned.lastHash
    <3>1. pinned \in All /\ Bare.lastHash = None
      BY <1>1 DEF Bare
    <3> HIDE DEF pinned
    <3>2. QED
      BY <1>1, <3>1 DEF Options, pinned
  <2>3. QED
    BY <2>1, <2>2
<1>4. QED
  BY <1>2, <1>3 DEF Askable

LEMMA ParsedAskable ==
  ASSUME NEW opts, Askable(opts)
  PROVE  /\ Parsed(opts).lastHash = opts.lastHash
         /\ opts.headAnchor => Parsed(opts).anchorCheck /\ Parsed(opts).headAnchor
BY DEF Askable, Parsed

\* What the exit code 0 says of a file: its lines hold together, and its last
\* is the one that was pinned, and is anchored, where that was asked for.
AcceptedFile(stored, opts, anchors) ==
  /\ \A i \in DOMAIN stored : Linked(stored, i) /\ SignedItself(stored[i]) /\ stored[i].form # "other"
  /\ opts.lastHash # None => Last(stored).chain.hash = opts.lastHash
  /\ opts.headAnchor => \E i \in DOMAIN anchors : anchors[i].ots.over = Last(stored).chain.hash

\* It says so.
LEMMA FileAccepted ==
  ASSUME NEW stored, IsSeq(stored), stored # <<>>, NEW opts, Askable(opts), NEW keyFiles,
         NEW anchors, IsSeq(anchors), NEW net, Exit(stored, opts, keyFiles, anchors, net) = 0
  PROVE  AcceptedFile(stored, opts, anchors)
<1> DEFINE o == Parsed(opts)
           lines == [i \in DOMAIN stored |-> ReceiptCode(stored, i, o, keyFiles, anchors, net)]
           count == Code(o.count # None /\ (stored = <<>> \/ Len(stored) # o.count), 11)
           head == Code(o.lastHash # None /\ (stored = <<>> \/ Last(stored).chain.hash # o.lastHash), 11)
           bare == Code(o.headAnchor /\ (stored = <<>> \/ Last(stored).anchor = None), 14)
           none == Code(o.anchorCheck /\ stored # <<>> /\ \A i \in DOMAIN stored : stored[i].anchor = None, 15)
<1>0. Len(stored) \in Nat /\ DOMAIN stored = 1..Len(stored) /\ Len(stored) \in DOMAIN stored
  BY DEF IsSeq
<1>1. FirstOf(Checks(stored, o, keyFiles, anchors, net)) = 0
  BY DEF Exit
<1>2. FirstOf(lines) = 0 /\ FirstOf(PinCodes(stored, o)) = 0 /\ FirstOf(AnchorCodes(stored, o)) = 0
  BY <1>1, FirstOfThree DEF Checks
<1>3. DOMAIN lines \in SUBSET Nat /\ DOMAIN lines = DOMAIN stored
  BY <1>0
<1>4. \A i \in DOMAIN stored : lines[i] = 0
  BY <1>2, <1>3, ZeroMeansAll
<1>5. \A i \in DOMAIN stored : o.anchorCheck => AnchorCode(stored[i], anchors, net) = 0
  BY <1>4, LineAccepted
<1>6. opts.lastHash # None => Last(stored).chain.hash = opts.lastHash
  <2>1. FirstOf(PinCodes(stored, o)) = IF count # 0 THEN count ELSE head
    BY FirstOfTwo DEF PinCodes
  <2>2. head = 0
    BY <1>2, <2>1
  <2>3. QED
    BY <2>2, ParsedAskable DEF Code
<1>7. ASSUME opts.headAnchor
      PROVE  \E i \in DOMAIN anchors : anchors[i].ots.over = Last(stored).chain.hash
  <2> DEFINE r == Last(stored)
             ref == r.anchor.ref
             row == RowOf(anchors, ref)
             named == {i \in DOMAIN anchors : anchors[i].hash = ref}
             chosen == CHOOSE i \in named : \A j \in named : j <= i
  <2>1. o.headAnchor /\ o.anchorCheck
    BY <1>7, ParsedAskable
  <2>2. FirstOf(AnchorCodes(stored, o)) = IF bare # 0 THEN bare ELSE none
    BY FirstOfTwo DEF AnchorCodes
  <2>3. r.anchor # None
    BY <1>2, <2>1, <2>2 DEF Code
  <2>4. AnchorCode(r, anchors, net) = 0
    <3>1. PICK i \in DOMAIN stored : r = stored[i]
      BY <1>0 DEF Last
    <3>2. AnchorCode(stored[i], anchors, net) = 0
      BY <1>5, <2>1
    <3>3. QED
      BY <3>1, <3>2
  <2>5. row # None /\ OtsCode(row.ots, r.chain.hash, net) = 0
    BY <2>3, <2>4 DEF AnchorCode
  <2>6. named # {} /\ row = anchors[chosen]
    BY <2>5 DEF RowOf
  <2>7. Len(anchors) \in Nat /\ DOMAIN anchors = 1..Len(anchors)
    BY DEF IsSeq
  <2>8. PICK i \in named : \A j \in named : j <= i
    BY <2>6, <2>7, GreatestIndex
  <2>9. chosen \in named
    BY <2>8
  <2> DEFINE other == Code(row.ots.over # r.chain.hash, 14)
             alone == Code(net = "alone", 15)
             unknown == Code(row.ots.confirmed /\ net = "down", 15)
  <2>10. OtsCode(row.ots, r.chain.hash, net) = IF alone # 0 THEN alone ELSE IF other # 0 THEN other ELSE unknown
    BY FirstOfThree DEF OtsCode
  <2>11. other = 0
    BY <2>5, <2>10
  <2>12. row.ots.over = r.chain.hash
    BY <2>11 DEF Code
  <2>13. QED
    BY <2>6, <2>9, <2>12
<1>8. \A i \in DOMAIN stored : Linked(stored, i) /\ SignedItself(stored[i]) /\ stored[i].form # "other"
  BY <1>4, LineAccepted
<1>9. QED
  BY <1>6, <1>7, <1>8 DEF AcceptedFile

LEMMA GoFileAccepted ==
  ASSUME NEW stored, IsSeq(stored), stored # <<>>, NEW opts, NEW keyFiles, runReceipts(opts, keyFiles, stored) = 0
  PROVE  /\ \A i \in DOMAIN stored : Linked(stored, i) /\ SignedItself(stored[i]) /\ stored[i].form # "other"
         /\ opts.lastHash # None => Last(stored).chain.hash = opts.lastHash
         /\ ~opts.headAnchor
<1> DEFINE ring == loadPubkeys(keyFiles)
           lines == Loop(opts, ring, stored)
           unknown == Code(UnknownFlag(opts), 2)
           unpinned == Code(opts.strict /\ opts.count = None /\ opts.lastHash = None, 11)
           keyless == Code(NoKeys(keyFiles), 13)
           count == Code(opts.count # None /\ opts.count # Len(stored), 11)
           head == Code(opts.lastHash # None /\ opts.lastHash # stored[Len(stored)].chain.hash, 11)
           earlier == FirstOf(<<unknown, unpinned, loadReceipts(stored), keyless>>)
<1>0. Len(stored) \in Nat /\ DOMAIN stored = 1..Len(stored)
  BY DEF IsSeq
<1>1. earlier = 0 /\ FirstOf(<<FirstOf(lines), FirstOf(Pins(opts, stored))>>) = 0
  BY DEF runReceipts
<1>2. unknown = 0 /\ loadReceipts(stored) = 0
  BY <1>1, FirstOfFour
<1>3. FirstOf(lines) = 0 /\ FirstOf(Pins(opts, stored)) = 0
  BY <1>1, FirstOfTwo
<1>4. DOMAIN lines \in SUBSET Nat /\ DOMAIN lines = DOMAIN stored
  BY <1>0 DEF Loop
<1>5. \A i \in DOMAIN stored : lines[i] = 0
  BY <1>3, <1>4, ZeroMeansAll
<1>6. \A i \in DOMAIN stored : Linked(stored, i) /\ SignedItself(stored[i])
  BY <1>5, GoLineAccepted
<1>7. opts.lastHash # None => Last(stored).chain.hash = opts.lastHash
  <2>1. FirstOf(Pins(opts, stored)) = IF count # 0 THEN count ELSE head
    BY FirstOfTwo DEF Pins
  <2>2. head = 0
    BY <1>3, <2>1
  <2>3. QED
    BY <2>2 DEF Code, Last
<1>8. ~opts.headAnchor
  BY <1>2 DEF Code, UnknownFlag
<1>9. \A i \in DOMAIN stored : stored[i].form # "other"
  BY <1>2 DEF loadReceipts
<1>10. QED
  BY <1>6, <1>7, <1>8, <1>9
-----------------------------------------------------------------------------
(* Whose signatures there are.                                             *)

\* A receipt whose signature, if it has one, is over a digest of w or blanked.
IsReceipt(r, w) ==
  /\ r = [form |-> r.form, body |-> r.body, chain |-> r.chain, sig |-> r.sig, anchor |-> r.anchor]
  /\ r.chain = [seq |-> r.chain.seq, prevHash |-> r.chain.prevHash, hash |-> r.chain.hash]
  /\ IsSeq(r.chain.prevHash)
  /\ r.sig # None =>
       /\ r.sig = [alg |-> r.sig.alg, keyId |-> r.sig.keyId, by |-> r.sig.by, over |-> r.sig.over,
                   canonical |-> r.sig.canonical]
       /\ r.sig.over \in w \cup {Genesis}

Receipts(s, w) == IsSeq(s) /\ \A i \in DOMAIN s : IsReceipt(s[i], w)

LEMMA EmptyReceipts ==
  ASSUME NEW w
  PROVE  Receipts(<<>>, w)
<1>1. IsSeq(<<>>)
  BY EmptySeq DEF IsSeq
<1>2. QED
  BY <1>1 DEF Receipts

LEMMA JoinReceipts ==
  ASSUME NEW w, NEW s, NEW t, Receipts(s, w), Receipts(t, w)
  PROVE  Receipts(s \o t, w)
<1>1. PICK L, M : s \in Seq(L) /\ t \in Seq(M)
  BY DEF Receipts, IsSeq
<1>2. s \in Seq(L \cup M) /\ t \in Seq(L \cup M)
  <2>1. M \cup L = L \cup M
    OBVIOUS
  <2>2. QED
    BY <1>1, <2>1, SeqWider
<1>3. /\ s \o t \in Seq(L \cup M) /\ Len(s \o t) = Len(s) + Len(t)
      /\ \A i \in 1..(Len(s) + Len(t)) : (s \o t)[i] = IF i <= Len(s) THEN s[i] ELSE t[i - Len(s)]
  BY <1>2, ConcatProperties
<1>4. ASSUME NEW i \in DOMAIN (s \o t)
      PROVE  IsReceipt((s \o t)[i], w)
  <2>1. Len(s) \in Nat /\ Len(t) \in Nat /\ DOMAIN s = 1..Len(s) /\ DOMAIN t = 1..Len(t)
    BY <1>1
  <2>2. i \in 1..(Len(s) + Len(t))
    BY <1>3, <1>4
  <2>3. CASE i <= Len(s)
    BY <1>3, <2>1, <2>2, <2>3 DEF Receipts
  <2>4. CASE ~(i <= Len(s))
    <3>1. i - Len(s) \in 1..Len(t)
      BY <2>1, <2>2, <2>4
    <3>2. QED
      BY <1>3, <2>1, <2>2, <2>4, <3>1 DEF Receipts
  <2>5. QED
    BY <2>3, <2>4
<1>5. QED
  BY <1>3, <1>4 DEF Receipts, IsSeq

LEMMA PartReceipts ==
  ASSUME NEW w, NEW s, Receipts(s, w), NEW a \in 1..(Len(s) + 1), NEW b \in 0..Len(s)
  PROVE  Receipts(SubSeq(s, a, b), w)
<1>1. PICK L : s \in Seq(L)
  BY DEF Receipts, IsSeq
<1>2. Len(s) \in Nat /\ DOMAIN s = 1..Len(s)
  BY <1>1
<1>3. /\ SubSeq(s, a, b) \in Seq(L)
      /\ Len(SubSeq(s, a, b)) = IF a <= b THEN b - a + 1 ELSE 0
      /\ \A i \in 1..(b - a + 1) : SubSeq(s, a, b)[i] = s[a + i - 1]
  <2>1. \A i \in a..b : s[i] \in L
    BY <1>1, <1>2
  <2>2. a \in Int /\ b \in Int
    BY <1>2
  <2>3. QED
    BY <2>1, <2>2, SubSeqProperties
<1>4. ASSUME NEW i \in DOMAIN SubSeq(s, a, b)
      PROVE  IsReceipt(SubSeq(s, a, b)[i], w)
  <2>1. i \in 1..(b - a + 1)
    BY <1>2, <1>3, <1>4
  <2>2. a + i - 1 \in 1..Len(s)
    BY <1>2, <2>1
  <2>3. QED
    BY <1>2, <1>3, <2>1, <2>2 DEF Receipts
<1>5. QED
  BY <1>3, <1>4 DEF Receipts, IsSeq

LEMMA OneReceipt ==
  ASSUME NEW w, NEW r, IsReceipt(r, w)
  PROVE  Receipts(<<r>>, w)
<1>1. IsSeq(<<r>>)
  BY OneIsSeq
<1>2. \A i \in DOMAIN <<r>> : <<r>>[i] = r
  OBVIOUS
<1>3. QED
  BY <1>1, <1>2 DEF Receipts

LEMMA ChangeReceipts ==
  ASSUME NEW w, NEW s, Receipts(s, w), NEW t, DOMAIN t = DOMAIN s, t = [i \in DOMAIN s |-> t[i]],
         \A i \in DOMAIN s : IsReceipt(t[i], w)
  PROVE  Receipts(t, w)
BY ChangeIsSeq DEF Receipts

LEMMA AppendIsSeq ==
  ASSUME NEW s, IsSeq(s), NEW x
  PROVE  IsSeq(Append(s, x)) /\ Len(Append(s, x)) = Len(s) + 1 /\ Append(s, x)[Len(s) + 1] = x
<1>1. PICK L : s \in Seq(L)
  BY DEF IsSeq
<1>2. s \in Seq(L \cup {x})
  BY <1>1, SeqWider
<1>3. Append(s, x) \in Seq(L \cup {x}) /\ Len(Append(s, x)) = Len(s) + 1 /\ Append(s, x)[Len(s) + 1] = x
  BY <1>2
<1>4. QED
  BY <1>3 DEF IsSeq

LEMMA DamagedReceipt ==
  ASSUME NEW w, NEW r, IsReceipt(r, w), NEW d \in Damaged(r) \cup {[r EXCEPT !.form = f] : f \in {"joined", "pretty"}}
  PROVE  IsReceipt(d, w)
<1>1. CASE \E f, b, a : d = [form |-> f, body |-> b, chain |-> r.chain, sig |-> r.sig, anchor |-> a]
  BY <1>1 DEF IsReceipt
<1>2. CASE d.sig = None /\ d = [r EXCEPT !.sig = None]
  BY <1>2 DEF IsReceipt
<1>3. CASE r.sig # None /\ d \in {[r EXCEPT !.sig.canonical = FALSE], [r EXCEPT !.sig.over = Genesis],
                                  [r EXCEPT !.sig.keyId = None]}
  BY <1>3 DEF IsReceipt
<1>4. CASE d \in {[r EXCEPT !.form = f] : f \in {"joined", "pretty", "torn", "other"}}
  BY <1>1, <1>4 DEF IsReceipt
<1>5. CASE d \in {[r EXCEPT !.body = b] : b \in Spoilt(r.body)} \cup {[r EXCEPT !.anchor = None]}
  BY <1>1, <1>5 DEF IsReceipt
<1>6. CASE d \in {[r EXCEPT !.chain.seq = @ + 1],
                  [r EXCEPT !.chain.prevHash = Append(@, [seq |-> 0, body |-> r.body])],
                  [r EXCEPT !.chain.hash = Append(@, [seq |-> 0, body |-> r.body])]}
  <2>1. PICK c : d = [form |-> r.form, body |-> r.body, chain |-> c, sig |-> r.sig, anchor |-> r.anchor]
    BY <1>6 DEF IsReceipt
  <2>2. \/ d.chain = [r.chain EXCEPT !.seq = @ + 1]
        \/ d.chain = [r.chain EXCEPT !.prevHash = Append(@, [seq |-> 0, body |-> r.body])]
        \/ d.chain = [r.chain EXCEPT !.hash = Append(@, [seq |-> 0, body |-> r.body])]
    BY <1>6 DEF IsReceipt
  <2>3. IsSeq(Append(r.chain.prevHash, [seq |-> 0, body |-> r.body]))
    BY AppendIsSeq DEF IsReceipt
  <2>4. /\ d.chain = [seq |-> d.chain.seq, prevHash |-> d.chain.prevHash, hash |-> d.chain.hash]
        /\ IsSeq(d.chain.prevHash)
    BY <2>2, <2>3 DEF IsReceipt
  <2>5. QED
    BY <2>1, <2>4 DEF IsReceipt
<1>7. QED
  BY <1>2, <1>3, <1>4, <1>5, <1>6 DEF Damaged, IsReceipt

LEMMA FaultyReceipts ==
  ASSUME NEW w, NEW old, Receipts(old, w),
         NEW stored \in Lost(old) \cup Repeated(old) \cup Reordered(old) \cup Joined(old) \cup Pretty(old)
                        \cup UNION {{[old EXCEPT ![i] = r] : r \in Damaged(old[i])} : i \in DOMAIN old}
  PROVE  Receipts(stored, w)
<1>1. Len(old) \in Nat /\ DOMAIN old = 1..Len(old)
  BY DEF Receipts, IsSeq
<1>2. ASSUME NEW i \in DOMAIN old
      PROVE  Receipts(RemoveAt(old, i), w)
  <2>1. /\ 1 \in 1..(Len(old) + 1) /\ i + 1 \in 1..(Len(old) + 1)
        /\ i - 1 \in 0..Len(old) /\ Len(old) \in 0..Len(old)
    BY <1>1, <1>2
  <2>2. Receipts(SubSeq(old, 1, i - 1), w) /\ Receipts(SubSeq(old, i + 1, Len(old)), w)
    BY <2>1, PartReceipts
  <2>3. QED
    BY <2>2, JoinReceipts DEF RemoveAt
<1>3. ASSUME NEW i \in DOMAIN old
      PROVE  Receipts(InsertAt(old, i, old[i]), w)
  <2>1. Receipts(SubSeq(old, 1, i - 1), w) /\ Receipts(SubSeq(old, i, Len(old)), w)
    BY <1>1, <1>3, PartReceipts
  <2>2. Receipts(<<old[i]>>, w)
    BY <1>3, OneReceipt DEF Receipts
  <2>3. Receipts(SubSeq(old, 1, i - 1) \o <<old[i]>>, w)
    BY <2>1, <2>2, JoinReceipts
  <2>4. QED
    BY <2>1, <2>3, JoinReceipts DEF InsertAt
<1>4. CASE stored \in Lost(old)
  BY <1>2, <1>4 DEF Lost
<1>5. CASE stored \in Repeated(old)
  BY <1>3, <1>5 DEF Repeated
<1>6. CASE stored \in Reordered(old)
  <2>1. PICK k \in {j \in DOMAIN old : j < Len(old)} : stored = [old EXCEPT ![k] = old[k + 1], ![k + 1] = old[k]]
    BY <1>6 DEF Reordered
  <2>2. k + 1 \in DOMAIN old
    BY <1>1, <2>1
  <2>3. DOMAIN stored = DOMAIN old /\ stored = [i \in DOMAIN old |-> stored[i]]
    BY <2>1
  <2>4. \A i \in DOMAIN old : \E j \in DOMAIN old : stored[i] = old[j]
    BY <2>1, <2>2
  <2>5. QED
    BY <2>3, <2>4, ChangeReceipts DEF Receipts
<1>7. CASE stored \in Joined(old)
  <2>1. PICK k \in {j \in DOMAIN old : j < Len(old)} : stored = [RemoveAt(old, k + 1) EXCEPT ![k].form = "joined"]
    BY <1>7 DEF Joined
  <2> DEFINE rest == RemoveAt(old, k + 1)
  <2>2. Receipts(rest, w)
    BY <1>1, <1>2
  <2> HIDE DEF rest
  <2>3. stored = [rest EXCEPT ![k].form = "joined"]
    BY <2>1 DEF rest
  <2>4. DOMAIN stored = DOMAIN rest /\ stored = [i \in DOMAIN rest |-> stored[i]]
    BY <2>3
  <2>5. \A i \in DOMAIN rest : stored[i] = rest[i] \/ stored[i] = [rest[i] EXCEPT !.form = "joined"]
    BY <2>3
  <2>6. ASSUME NEW i \in DOMAIN rest PROVE IsReceipt(stored[i], w)
    <3>1. IsReceipt(rest[i], w)
      BY <2>2 DEF Receipts
    <3>2. IsReceipt([rest[i] EXCEPT !.form = "joined"], w)
      BY <3>1, DamagedReceipt
    <3>3. QED
      BY <2>5, <3>1, <3>2
  <2>7. QED
    BY <2>2, <2>4, <2>6, ChangeReceipts
<1>8. CASE stored \in Pretty(old)
  <2> DEFINE laidOut == [old[1] EXCEPT !.form = "pretty"]
  <2>1. stored = <<laidOut>> /\ 1 \in DOMAIN old
    BY <1>1, <1>8 DEF Pretty
  <2>2. IsReceipt(laidOut, w)
    BY <2>1, DamagedReceipt DEF Receipts
  <2>3. QED
    BY <2>1, <2>2, OneReceipt
<1>9. CASE stored \in UNION {{[old EXCEPT ![i] = r] : r \in Damaged(old[i])} : i \in DOMAIN old}
  <2>1. PICK i \in DOMAIN old : \E r \in Damaged(old[i]) : stored = [old EXCEPT ![i] = r]
    BY <1>9
  <2>2. PICK r \in Damaged(old[i]) : stored = [old EXCEPT ![i] = r]
    BY <2>1
  <2>3. DOMAIN stored = DOMAIN old /\ stored = [j \in DOMAIN old |-> stored[j]]
    BY <2>2
  <2>4. IsReceipt(r, w)
    BY <2>1, DamagedReceipt DEF Receipts
  <2>5. \A j \in DOMAIN old : stored[j] = old[j] \/ stored[j] = r
    BY <2>2
  <2>6. QED
    BY <2>3, <2>4, <2>5, ChangeReceipts DEF Receipts
<1>10. QED
  BY <1>4, <1>5, <1>6, <1>7, <1>8, <1>9

OneChain(stored) == \A i \in DOMAIN stored : Linked(stored, i)

\* All receipts there are were signed by the gateway, for a digest it wrote; a
\* sink, and what the stamper will put back, is one chain.
ChainInv ==
  /\ Receipts(log, written) /\ Receipts(archive, written) /\ Receipts(stamper.read, written)
  /\ stamper = [pc |-> stamper.pc, read |-> stamper.read]
  /\ copy # None => Receipts(copy.file, written)
  /\ OneChain(log) /\ OneChain(stamper.read)
  /\ IsSeq(rows)

LEMMA MoreWritten ==
  ASSUME NEW w, NEW h, NEW s, Receipts(s, w)
  PROVE  Receipts(s, w \cup {h})
BY DEF Receipts, IsReceipt

LEMMA WriteKeeps ==
  ASSUME ChainInv, NEW entry, Write(entry)
  PROVE  ChainInv'
<1> DEFINE in == ReceiptInput(entry, Meta)
           r == BuildReceipt(in, log, Keys[used])
           state == NextState(log)
           digest == Append(state.prevHash, [seq |-> state.seq, body |-> Body(in)])
<1>1. /\ log' = Append(log, r) /\ written' = written \cup {r.chain.hash}
      /\ archive' = archive /\ stamper' = stamper /\ copy' = copy /\ rows' = rows
  BY DEF Write, anchoring
<1>2. /\ r.chain.hash = digest /\ r.sig.over = digest /\ r.chain.prevHash = state.prevHash
      /\ r.chain.seq = state.seq /\ r.body = Body(in)
      /\ r = [form |-> r.form, body |-> r.body, chain |-> r.chain, sig |-> r.sig, anchor |-> r.anchor]
      /\ r.sig = [alg |-> r.sig.alg, keyId |-> r.sig.keyId, by |-> r.sig.by, over |-> r.sig.over,
                  canonical |-> r.sig.canonical]
      /\ r.chain = [seq |-> r.chain.seq, prevHash |-> r.chain.prevHash, hash |-> r.chain.hash]
  BY DEF BuildReceipt, Sign
<1> HIDE DEF r
<1>3. IsReceipt(r, written')
  <2>1. IsSeq(state.prevHash)
    <3>1. CASE log = <<>>
      BY <3>1, EmptySeq DEF NextState, Genesis, IsSeq
    <3>2. CASE log # <<>>
      <4>1. Len(log) \in DOMAIN log
        BY <3>2 DEF ChainInv, Receipts, IsSeq
      <4>2. Linked(log, Len(log)) /\ IsReceipt(log[Len(log)], written)
        BY <4>1 DEF ChainInv, OneChain, Receipts
      <4>3. IsSeq(Digest(log[Len(log)]))
        BY <4>2, AppendIsSeq DEF Digest, IsReceipt
      <4>4. QED
        BY <3>2, <4>2, <4>3 DEF NextState, Last, Linked
    <3>3. QED
      BY <3>1, <3>2
  <2>2. QED
    BY <1>1, <1>2, <2>1 DEF IsReceipt
<1>4. Receipts(log, written')
  BY <1>1, MoreWritten DEF ChainInv
<1>5. Append(log, r) = log \o <<r>>
  BY DEF ChainInv, Receipts, IsSeq
<1>6. Receipts(log', written')
  BY <1>1, <1>3, <1>4, <1>5, OneReceipt, JoinReceipts
<1>7. PICK L : log \in Seq(L)
  BY DEF ChainInv, Receipts, IsSeq
<1>8. /\ Len(log) \in Nat /\ DOMAIN log = 1..Len(log) /\ DOMAIN log' = 1..(Len(log) + 1)
      /\ log'[Len(log) + 1] = r /\ \A i \in 1..Len(log) : log'[i] = log[i]
  <2>1. log \in Seq(L \cup {r})
    BY <1>7, SeqWider
  <2>2. QED
    BY <1>1, <2>1
<1>9. OneChain(log')
  <2>1. SUFFICES ASSUME NEW i \in DOMAIN log' PROVE Linked(log', i)
    BY DEF OneChain
  <2>2. CASE i <= Len(log)
    <3>1. i \in DOMAIN log /\ log'[i] = log[i] /\ (i # 1 => log'[i - 1] = log[i - 1])
      BY <1>8, <2>1, <2>2
    <3>2. Linked(log, i)
      BY <3>1 DEF ChainInv, OneChain
    <3>3. QED
      BY <3>1, <3>2 DEF Linked
  <2>3. CASE i = Len(log) + 1
    <3>1. log'[i] = r
      BY <1>8, <2>3
    <3>2. r.chain.hash = Digest(r)
      BY <1>2 DEF Digest
    <3>3. r.chain.prevHash = IF i = 1 THEN Genesis ELSE log'[i - 1].chain.hash
      <4>1. CASE log = <<>>
        BY <1>2, <2>3, <4>1 DEF NextState
      <4>2. CASE log # <<>>
        <5>1. Len(log) \in 1..Len(log)
          BY <1>7, <1>8, <4>2
        <5>2. log'[i - 1] = log[Len(log)] /\ i # 1
          BY <1>8, <2>3, <5>1
        <5>3. state.prevHash = log[Len(log)].chain.hash
          BY <4>2 DEF NextState, Last
        <5>4. QED
          BY <1>2, <5>2, <5>3
      <4>3. QED
        BY <4>1, <4>2
    <3>4. QED
      BY <3>1, <3>2, <3>3 DEF Linked
  <2>4. QED
    BY <1>8, <2>1, <2>2, <2>3
<1>10. Receipts(archive, written') /\ Receipts(stamper.read, written') /\ (copy # None => Receipts(copy.file, written'))
  BY <1>1, MoreWritten DEF ChainInv
<1>11. QED
  BY <1>1, <1>6, <1>9, <1>10 DEF ChainInv

LEMMA InvStays ==
  ASSUME ChainInv, [Next]_vars
  PROVE  ChainInv'
<1>1. CASE \E entry : Write(entry)
  BY <1>1, WriteKeeps
<1>2. CASE Rotate \/ UNCHANGED vars
  BY <1>2 DEF Rotate, vars, gateway, anchoring, ChainInv
<1>3. CASE NewSink
  <2>1. Receipts(<<>>, written) /\ OneChain(<<>>) /\ IsSeq(<<>>)
    BY EmptyReceipts DEF OneChain, Receipts
  <2>2. QED
    BY <1>3, <2>1 DEF NewSink, ChainInv
<1>4. CASE StampRead \/ StampDies
  <2>1. Receipts(<<>>, written) /\ OneChain(<<>>)
    BY EmptyReceipts DEF OneChain
  <2>2. /\ log' = log /\ archive' = archive /\ written' = written /\ copy' = copy /\ rows' = rows
        /\ stamper' = [pc |-> "calendar", read |-> log] \/ stamper' = Idle
    BY <1>4 DEF StampRead, StampDies, gateway
  <2>3. /\ stamper' = [pc |-> stamper'.pc, read |-> stamper'.read]
        /\ stamper'.read = log \/ stamper'.read = <<>>
    BY <2>2 DEF Idle
  <2>4. QED
    BY <2>1, <2>2, <2>3 DEF ChainInv
<1>5. CASE StampAnswer
  <2>1. /\ log' = log /\ archive' = archive /\ written' = written /\ copy' = copy
        /\ \E row : rows' = <<row>>
        /\ stamper' = [stamper EXCEPT !.pc = "chain"]
    BY <1>5 DEF StampAnswer, gateway
  <2>2. stamper'.read = stamper.read /\ stamper' = [pc |-> stamper'.pc, read |-> stamper'.read]
    BY <2>1 DEF ChainInv
  <2>3. IsSeq(rows')
    BY <2>1, OneIsSeq
  <2>4. QED
    BY <2>1, <2>2, <2>3 DEF ChainInv
<1>6. CASE StampWrite
  <2> DEFINE read == stamper.read
             ref == [ref |-> Last(read).chain.hash]
  <2>1. Receipts(<<>>, written) /\ OneChain(<<>>)
    BY EmptyReceipts DEF OneChain
  <2>2. /\ DOMAIN Anchored(read) = DOMAIN read
        /\ Anchored(read) = [i \in DOMAIN read |-> Anchored(read)[i]]
        /\ \A i \in DOMAIN read : Anchored(read)[i] = read[i] \/ Anchored(read)[i] = [read[i] EXCEPT !.anchor = ref]
    BY DEF Anchored
  <2>3. ASSUME NEW i \in DOMAIN read
        PROVE  /\ IsReceipt(Anchored(read)[i], written)
               /\ Anchored(read)[i].chain = read[i].chain /\ Anchored(read)[i].body = read[i].body
    <3>1. IsReceipt(read[i], written)
      BY DEF ChainInv, Receipts
    <3>2. CASE Anchored(read)[i] = read[i]
      BY <3>1, <3>2
    <3>3. CASE Anchored(read)[i] = [read[i] EXCEPT !.anchor = ref]
      BY <3>1, <3>3 DEF IsReceipt
    <3>4. QED
      BY <2>2, <3>2, <3>3
  <2>4. Receipts(Anchored(read), written)
    BY <2>2, <2>3, ChangeReceipts DEF ChainInv
  <2>5. OneChain(Anchored(read))
    <3>1. SUFFICES ASSUME NEW i \in DOMAIN read PROVE Linked(Anchored(read), i)
      BY <2>2 DEF OneChain
    <3>2. Linked(read, i)
      BY DEF ChainInv, OneChain
    <3>3. i # 1 => i - 1 \in DOMAIN read
      BY DEF ChainInv, Receipts, IsSeq
    <3>4. Digest(Anchored(read)[i]) = Digest(read[i])
      BY <2>3 DEF Digest
    <3>5. QED
      BY <2>3, <3>2, <3>3, <3>4 DEF Linked
  <2>6. /\ log' = Anchored(read) /\ stamper' = Idle
        /\ archive' = archive /\ written' = written /\ rows' = rows /\ copy' = copy
    BY <1>6 DEF StampWrite
  <2>7. QED
    BY <2>1, <2>4, <2>5, <2>6 DEF ChainInv, Idle
<1>7. CASE HandOver
  <2>1. Receipts(archive \o log, written)
    BY JoinReceipts DEF ChainInv
  <2>2. PICK stored \in {log, archive \o log} : copy' = [file |-> stored, faults |-> 0]
    BY <1>7 DEF HandOver
  <2>3. Receipts(copy'.file, written)
    BY <2>1, <2>2 DEF ChainInv
  <2>4. QED
    BY <1>7, <2>3 DEF HandOver, ChainInv, gateway, anchoring
<1>8. CASE Fault
  <2>1. Receipts(copy'.file, written)
    BY <1>8, FaultyReceipts DEF Fault, ChainInv
  <2>2. QED
    BY <1>8, <2>1 DEF Fault, ChainInv, gateway, anchoring
<1>9. QED
  BY <1>1, <1>2, <1>3, <1>4, <1>5, <1>6, <1>7, <1>8 DEF Next, Live

LEMMA InvHolds == Spec => []ChainInv
<1>1. Init => ChainInv
  <2>1. Receipts(<<>>, {}) /\ OneChain(<<>>) /\ IsSeq(<<>>)
    BY EmptyReceipts DEF OneChain, Receipts
  <2>2. QED
    BY <2>1 DEF Init, Idle, ChainInv
<1>2. ChainInv /\ [Next]_vars => ChainInv'
  BY InvStays
<1>3. QED
  BY <1>1, <1>2, PTL DEF Spec
-----------------------------------------------------------------------------
\* A chain of lines that are signed is one the gateway wrote.
LEMMA ChainIsWritten ==
  ASSUME NEW f, f # <<>>, Receipts(f, written), \A i \in DOMAIN f : Linked(f, i) /\ SignedItself(f[i])
  PROVE  Contents(f) = Last(f).chain.hash /\ Last(f).chain.hash \in written
<1> DEFINE n == Len(f)
           hash == Last(f).chain.hash
<1>1. IsSeq(f)
  BY DEF Receipts
<1>2. n \in DOMAIN f
  BY <1>1 DEF IsSeq
<1>3. Contents(f) = hash
  BY <1>1, ChainIsHistory
<1>4. SignedItself(f[n]) /\ IsReceipt(f[n], written)
  BY <1>2 DEF Receipts
<1>5. hash \in written \cup {Genesis}
  BY <1>4 DEF SignedItself, IsReceipt, Last
<1>6. hash # Genesis
  <2>1. DOMAIN Contents(f) = DOMAIN f
    BY DEF Contents
  <2>2. DOMAIN hash # {}
    BY <1>2, <1>3, <2>1
  <2>3. QED
    BY <2>2 DEF Genesis
<1>7. QED
  BY <1>3, <1>5, <1>6

LEMMA OursIfAccepted ==
  ASSUME ChainInv
  PROVE  AcceptedIsOurs
<1> SUFFICES ASSUME copy # None, copy.file # <<>>,
                    NEW v \in {"mjs", "go"}, NEW opts \in Options, NEW keyFiles \in KeyFiles,
                    Verdict(v, copy.file, opts, keyFiles) = 0
             PROVE  LET hash == Last(copy.file).chain.hash
                    IN  /\ Contents(copy.file) = hash
                        /\ hash \in written
                        /\ opts.lastHash # None => Contents(copy.file) = Contents(log)
                        /\ opts.headAnchor => \E i \in DOMAIN rows : rows[i].ots.over = hash
  BY DEF AcceptedIsOurs
<1> DEFINE stored == copy.file
           hash == Last(stored).chain.hash
<1>1. IsSeq(stored) /\ Receipts(stored, written) /\ IsSeq(rows) /\ IsSeq(log)
  BY DEF ChainInv, Receipts
<1>2. /\ \A i \in DOMAIN stored : Linked(stored, i) /\ SignedItself(stored[i])
      /\ opts.lastHash # None => hash = opts.lastHash
      /\ opts.headAnchor => \E i \in DOMAIN rows : rows[i].ots.over = hash
  <2>1. CASE v = "mjs"
    <3>1. Exit(stored, opts, keyFiles, rows, "up") = 0
      BY <2>1 DEF Verdict
    <3>2. Askable(opts) /\ stored # <<>>
      BY OptionsAreAskable
    <3> HIDE DEF stored
    <3>3. IsSeq(stored) /\ IsSeq(rows)
      BY <1>1
    <3>4. AcceptedFile(stored, opts, rows)
      BY <3>1, <3>2, <3>3, FileAccepted
    <3>5. QED
      BY <3>4 DEF AcceptedFile
  <2>2. CASE v = "go"
    <3>1. runReceipts(opts, keyFiles, stored) = 0
      BY <2>2 DEF Verdict
    <3>2. QED
      BY <1>1, <3>1, GoFileAccepted
  <2>3. QED
    BY <2>1, <2>2
<1>3. Contents(stored) = hash /\ hash \in written
  BY <1>1, <1>2, ChainIsWritten
<1>4. opts.lastHash # None => Contents(stored) = Contents(log)
  <2>1. opts.lastHash # None => hash = Last(log).chain.hash /\ log # <<>>
    BY <1>2, OptionsAreAskable
  <2>2. log # <<>> => Contents(log) = Last(log).chain.hash
    BY <1>1, ChainIsHistory DEF ChainInv, OneChain
  <2>3. QED
    BY <1>3, <2>1, <2>2
<1>5. QED
  BY <1>2, <1>3, <1>4

\* A file that either verifier accepts, whatever happened to the copy, is the
\* history its last receipt commits to, which the gateway wrote; with the pins
\* of the console it is all of the sink, with --require-head-anchor its head
\* was stamped.
THEOREM OnlyOursIsAccepted == Spec => []AcceptedIsOurs
<1>1. ChainInv => AcceptedIsOurs
  BY OursIfAccepted
<1>2. QED
  BY <1>1, InvHolds, PTL
-----------------------------------------------------------------------------
(* Two verifiers.                                                          *)

\* All the gateway writes is usual.
UsualFile(stored) == \A i \in DOMAIN stored : Usual(stored[i].body)
UsualInv ==
  /\ UsualFile(log) /\ UsualFile(stamper.read)
  /\ \A h \in written : UsualFile(h)

\* What an entry becomes.
LEMMA BodyIsUsual ==
  ASSUME NEW in
  PROVE  Usual(Body(in))
<1>1. /\ Body(in).model = BuildModel(in.model) /\ Body(in).client = BuildClient(in.client)
      /\ Body(in).disclosure = BuildDisclosure(in)
  BY DEF Body
<1>2. BuildModel(in.model).holds # "absent"
  BY DEF BuildModel, Holds
<1>3. BuildClient(in.client).holds # "absent"
  BY DEF BuildClient
<1>4. BuildDisclosure(in).hash # "HEX"
  BY EvidenceAssumption DEF BuildDisclosure
<1>5. QED
  BY <1>1, <1>2, <1>3, <1>4 DEF Usual

LEMMA UsualStays ==
  ASSUME ChainInv, UsualInv, [Next]_vars
  PROVE  UsualInv'
<1>1. CASE \E entry : Write(entry)
  <2>1. PICK entry : Write(entry)
    BY <1>1
  <2> DEFINE in == ReceiptInput(entry, Meta)
             r == BuildReceipt(in, log, Keys[used])
             line == [seq |-> NextState(log).seq, body |-> Body(in)]
             prior == NextState(log).prevHash
  <2>2. /\ log' = Append(log, r) /\ written' = written \cup {r.chain.hash} /\ stamper' = stamper
        /\ r.body = Body(in) /\ r.chain.hash = Append(prior, line)
    BY <2>1 DEF Write, anchoring, BuildReceipt
  <2>3. Usual(Body(in))
    BY BodyIsUsual
  <2> HIDE DEF in, r
  <2>4. PICK L : log \in Seq(L)
    BY DEF ChainInv, Receipts, IsSeq
  <2>5. DOMAIN log' = 1..(Len(log) + 1) /\ log'[Len(log) + 1] = r /\ \A i \in 1..Len(log) : log'[i] = log[i]
    <3>1. log \in Seq(L \cup {r})
      BY <2>4, SeqWider
    <3>2. QED
      BY <2>2, <3>1
  <2>6. Len(log) \in Nat /\ DOMAIN log = 1..Len(log)
    BY <2>4
  <2>7. \A i \in DOMAIN log' : i = Len(log) + 1 \/ i \in 1..Len(log)
    BY <2>5, <2>6
  <2>8. UsualFile(log')
    BY <2>2, <2>3, <2>5, <2>6, <2>7 DEF UsualInv, UsualFile
  <2>9. IsSeq(prior) /\ UsualFile(prior)
    <3>1. CASE log = <<>>
      BY <3>1, EmptySeq DEF NextState, Genesis, IsSeq, UsualFile
    <3>2. CASE log # <<>>
      <4>1. prior = Contents(log)
        BY <3>2, ChainIsHistory DEF ChainInv, Receipts, OneChain, NextState
      <4>2. DOMAIN Contents(log) = DOMAIN log /\ Contents(log) = [i \in DOMAIN log |-> Contents(log)[i]]
        BY DEF Contents
      <4>3. IsSeq(Contents(log))
        BY <4>2, ChangeIsSeq DEF ChainInv, Receipts
      <4>4. UsualFile(Contents(log))
        BY <4>2 DEF UsualInv, UsualFile, Contents
      <4>5. QED
        BY <4>1, <4>3, <4>4
    <3>3. QED
      BY <3>1, <3>2
  <2>10. UsualFile(Append(prior, line))
    <3>1. Usual(line.body)
      BY <2>3
    <3> HIDE DEF line, prior
    <3>2. PICK M : prior \in Seq(M)
      BY <2>9 DEF IsSeq
    <3>3. prior \in Seq(M \cup {line})
      BY <3>2, SeqWider
    <3>4. /\ Len(prior) \in Nat /\ DOMAIN prior = 1..Len(prior)
          /\ DOMAIN Append(prior, line) = 1..(Len(prior) + 1) /\ Append(prior, line)[Len(prior) + 1] = line
          /\ \A i \in 1..Len(prior) : Append(prior, line)[i] = prior[i]
      BY <3>3
    <3>5. \A i \in DOMAIN Append(prior, line) : i = Len(prior) + 1 \/ i \in 1..Len(prior)
      BY <3>4
    <3>6. QED
      BY <2>9, <3>1, <3>4, <3>5 DEF UsualFile
  <2>11. QED
    BY <2>2, <2>8, <2>10 DEF UsualInv
<1>2. CASE StampWrite
  <2> DEFINE read == stamper.read
             back == Anchored(read)
  <2>1. log' = back /\ stamper' = Idle /\ written' = written
    BY <1>2 DEF StampWrite
  <2> DEFINE ref == [ref |-> Last(read).chain.hash]
             n == Len(read)
  <2>2. back = [read EXCEPT ![n].anchor = ref]
    BY DEF Anchored
  <2> HIDE DEF back, ref, n
  <2>3. DOMAIN back = DOMAIN read /\ \A i \in DOMAIN read : back[i].body = read[i].body
    <3>1. SUFFICES ASSUME NEW i \in DOMAIN read PROVE back[i].body = read[i].body
      BY <2>2
    <3>2. IsReceipt(read[i], written)
      BY DEF ChainInv, Receipts
    <3> DEFINE r == read[i]
    <3>3. back[i] = r \/ back[i] = [r EXCEPT !.anchor = ref]
      BY <2>2
    <3> HIDE DEF r
    <3>4. [r EXCEPT !.anchor = ref].body = r.body
      BY <3>2 DEF IsReceipt, r
    <3>5. QED
      BY <3>3, <3>4 DEF r
  <2>4. UsualFile(back)
    BY <2>3 DEF UsualInv, UsualFile
  <2>5. stamper'.read = <<>>
    BY <2>1 DEF Idle
  <2>6. UsualFile(<<>>)
    BY DEF UsualFile
  <2>7. QED
    BY <2>1, <2>4, <2>5, <2>6 DEF UsualInv
<1>3. CASE NewSink
  <2>1. log' = <<>> /\ stamper' = stamper /\ written' = written
    BY <1>3 DEF NewSink
  <2>2. UsualFile(<<>>)
    BY DEF UsualFile
  <2>3. QED
    BY <2>1, <2>2 DEF UsualInv
<1>4. CASE StampRead
  <2>1. log' = log /\ stamper'.read = log /\ written' = written
    BY <1>4 DEF StampRead, gateway
  <2>2. QED
    BY <2>1 DEF UsualInv
<1>5. CASE StampDies
  <2>1. log' = log /\ stamper'.read = <<>> /\ written' = written
    BY <1>5 DEF StampDies, gateway, Idle
  <2>2. UsualFile(<<>>)
    BY DEF UsualFile
  <2>3. QED
    BY <2>1, <2>2 DEF UsualInv
<1>6. CASE StampAnswer
  <2>1. log' = log /\ stamper'.read = stamper.read /\ written' = written
    BY <1>6 DEF StampAnswer, gateway, ChainInv
  <2>2. QED
    BY <2>1 DEF UsualInv
<1>7. CASE Rotate \/ HandOver \/ Fault \/ UNCHANGED vars
  BY <1>7 DEF Rotate, HandOver, Fault, vars, gateway, anchoring, UsualInv
<1>8. QED
  BY <1>1, <1>2, <1>3, <1>4, <1>5, <1>6, <1>7 DEF Next, Live

LEMMA UsualHolds == Spec => []UsualInv
<1>1. Init => UsualInv
  BY DEF Init, Idle, UsualInv, UsualFile
<1>2. ChainInv /\ UsualInv /\ [Next]_vars => UsualInv'
  BY UsualStays
<1>3. QED
  BY <1>1, <1>2, InvHolds, PTL DEF Spec

\* The receipts that stand first on their lines.
Firsts(first, stored) ==
  /\ DOMAIN first = DOMAIN stored /\ Len(first) = Len(stored)
  /\ \A i \in DOMAIN stored :
       /\ first[i].form = IF stored[i].form = "joined" THEN "object" ELSE stored[i].form
       /\ first[i].body = stored[i].body /\ first[i].chain = stored[i].chain /\ first[i].sig = stored[i].sig

LEMMA FirstReceipts ==
  ASSUME NEW w, NEW stored, Receipts(stored, w)
  PROVE  Receipts(FirstOnEach(stored), w) /\ Firsts(FirstOnEach(stored), stored)
<1> DEFINE first == FirstOnEach(stored)
<1>1. DOMAIN first = DOMAIN stored /\ first = [i \in DOMAIN stored |-> first[i]]
      /\ \A i \in DOMAIN stored : first[i] = FirstOn(stored[i])
  BY DEF FirstOnEach
<1>2. ASSUME NEW i \in DOMAIN stored
      PROVE  /\ IsReceipt(first[i], w)
             /\ first[i].form = IF stored[i].form = "joined" THEN "object" ELSE stored[i].form
             /\ first[i].body = stored[i].body /\ first[i].chain = stored[i].chain
             /\ first[i].sig = stored[i].sig
  <2> DEFINE r == stored[i]
  <2>1. IsReceipt(r, w)
    BY DEF Receipts
  <2> HIDE DEF r
  <2>2. /\ IsReceipt(FirstOn(r), w)
        /\ FirstOn(r).form = IF r.form = "joined" THEN "object" ELSE r.form
        /\ FirstOn(r).body = r.body /\ FirstOn(r).chain = r.chain /\ FirstOn(r).sig = r.sig
    BY <2>1 DEF FirstOn, IsReceipt
  <2>3. QED
    BY <1>1, <2>2 DEF r
<1>3. Len(stored) \in Nat /\ DOMAIN stored = 1..Len(stored)
  BY DEF Receipts, IsSeq
<1>4. Len(first) = Len(stored)
  BY <1>1, <1>3, ListIsSeq
<1>5. Receipts(first, w)
  BY <1>1, <1>2, ChangeReceipts
<1>6. QED
  BY <1>1, <1>2, <1>4, <1>5 DEF Firsts

\* They are all that Go's verifier reads.
LEMMA GoReadsFirst ==
  ASSUME NEW w, NEW stored, Receipts(stored, w), NEW first, first = FirstOnEach(stored), NEW opts, NEW paths
  PROVE  runReceipts(opts, paths, first) = runReceipts(opts, paths, stored)
<1>1. /\ DOMAIN first = DOMAIN stored /\ Len(first) = Len(stored)
      /\ \A i \in DOMAIN stored :
           /\ first[i].form = IF stored[i].form = "joined" THEN "object" ELSE stored[i].form
           /\ first[i].body = stored[i].body /\ first[i].chain = stored[i].chain /\ first[i].sig = stored[i].sig
  <2>1. Firsts(first, stored)
    BY FirstReceipts
  <2>2. QED
    BY <2>1 DEF Firsts
<1>2. Len(stored) \in Nat /\ DOMAIN stored = 1..Len(stored) /\ (stored = <<>> <=> Len(stored) = 0)
      /\ (first = <<>> <=> Len(first) = 0)
  <2>1. Receipts(first, w)
    BY FirstReceipts
  <2>2. QED
    BY <2>1 DEF Receipts, IsSeq
<1>3. loadReceipts(first) = loadReceipts(stored)
  <2>1. \A i \in DOMAIN stored :
          /\ Decoded(first[i]) <=> Decoded(stored[i])
          /\ first[i].form = "pretty" <=> stored[i].form = "pretty"
          /\ first[i].form = "other" <=> stored[i].form = "other"
    BY <1>1 DEF Decoded
  <2>2. /\ {i \in DOMAIN first : ~Decoded(first[i])} = {i \in DOMAIN stored : ~Decoded(stored[i])}
        /\ {i \in DOMAIN first : first[i].form = "other"} = {i \in DOMAIN stored : stored[i].form = "other"}
    BY <1>1, <2>1
  <2>3. QED
    BY <2>1, <2>2 DEF loadReceipts
<1>4. ASSUME NEW ring
      PROVE  Loop(opts, ring, first) = Loop(opts, ring, stored)
  <2>1. ASSUME NEW i \in DOMAIN stored
        PROVE  Loop(opts, ring, first)[i] = Loop(opts, ring, stored)[i]
    <3>1. receiptHash(first[i]) = receiptHash(stored[i])
      BY <1>1 DEF receiptHash
    <3>2. i # 1 => first[i - 1].chain = stored[i - 1].chain
      BY <1>1, <1>2
    <3>3. first[i].body = stored[i].body /\ first[i].chain = stored[i].chain /\ first[i].sig = stored[i].sig
          /\ i \in DOMAIN first
      BY <1>1
    <3>4. QED
      BY <3>1, <3>2, <3>3 DEF Loop
  <2>2. /\ Loop(opts, ring, first) = [i \in DOMAIN stored |-> Loop(opts, ring, first)[i]]
        /\ Loop(opts, ring, stored) = [i \in DOMAIN stored |-> Loop(opts, ring, stored)[i]]
    BY <1>1 DEF Loop
  <2>3. QED
    BY <2>1, <2>2
<1>5. Pins(opts, first) = Pins(opts, stored)
  <2>1. CASE stored = <<>>
    BY <1>1, <1>2, <2>1 DEF Pins
  <2>2. CASE stored # <<>>
    <3>1. Len(stored) \in DOMAIN stored /\ first # <<>>
      BY <1>1, <1>2, <2>2
    <3>2. first[Len(first)].chain = stored[Len(stored)].chain
      BY <1>1, <3>1
    <3>3. QED
      BY <1>1, <2>2, <3>1, <3>2 DEF Pins
  <2>3. QED
    BY <2>1, <2>2
<1>6. QED
  BY <1>3, <1>4, <1>5 DEF runReceipts

\* Each verifier's judgement of a file the gateway's signatures hold together.
LEMMA AcceptedIsUsual ==
  ASSUME UsualInv, NEW stored, Receipts(stored, written),
         \A i \in DOMAIN stored : Linked(stored, i) /\ SignedItself(stored[i]) /\ stored[i].form # "other"
  PROVE  \A i \in DOMAIN stored : ~Differs(stored[i])
<1> SUFFICES ASSUME NEW i \in DOMAIN stored PROVE ~Differs(stored[i])
  OBVIOUS
<1>1. stored # <<>>
  OBVIOUS
<1>2. Contents(stored) \in written
  BY <1>1, ChainIsWritten
<1>3. i \in DOMAIN Contents(stored) /\ Contents(stored)[i].body = stored[i].body
  BY DEF Contents
<1>4. Usual(stored[i].body)
  BY <1>2, <1>3 DEF UsualInv, UsualFile
<1>5. QED
  BY <1>4 DEF Differs, Usual

\* The records of heads, as they are and as they are damaged.
LEMMA RecordsAreRecords ==
  ASSUME NEW k \in DOMAIN log, NEW rec \in {Countersigned(log)[k]} \cup DamagedRecords(Countersigned(log)[k])
  PROVE  IsRecord(rec) /\ (rec.tidy \/ rec.sig.over # Unsigned(rec))
<1> DEFINE digests == [i \in 1..k |-> log[i].chain.hash]
           bare == [form |-> "object", type |-> "submit", seq |-> k, prevHash |-> Front(digests), hash |-> digests,
                    digest |-> Last(digests), tidy |-> TRUE, sig |-> None]
           whole == Countersigned(log)[k]
<1>1. whole = [bare EXCEPT !.sig = Sign(Service, bare)]
  BY DEF Countersigned
<1> HIDE DEF digests
<1>2. /\ IsRecord(whole) /\ whole.tidy = TRUE /\ whole.sig.over.tidy = TRUE
  <2> DEFINE sig == Sign(Service, bare)
  <2>1. sig.over = bare
    BY DEF Sign
  <2>2. IsRecord(bare) /\ bare.tidy = TRUE
    BY DEF IsRecord
  <2> HIDE DEF whole, bare, sig
  <2>3. whole = [bare EXCEPT !.sig = sig]
    BY <1>1 DEF sig
  <2>4. whole.sig = sig /\ IsRecord(whole) /\ whole.tidy = TRUE
    BY <2>2, <2>3 DEF IsRecord
  <2>5. QED
    BY <2>1, <2>2, <2>4
<1> HIDE DEF whole, bare
<1>3. CASE rec = whole
  BY <1>2, <1>3
<1>4. CASE rec = [whole EXCEPT !.tidy = FALSE]
  <2>1. IsRecord(rec) /\ rec.sig = whole.sig /\ rec.tidy = FALSE
    BY <1>2, <1>4 DEF IsRecord
  <2>2. Unsigned(rec).tidy = FALSE
    BY <2>1 DEF Unsigned, IsRecord
  <2>3. QED
    BY <1>2, <2>1, <2>2
<1>5. CASE rec \in DamagedRecords(whole) /\ rec # [whole EXCEPT !.tidy = FALSE]
  <2>1. \E f, t, n, d, g : rec = [form |-> f, type |-> t, seq |-> n, prevHash |-> whole.prevHash, hash |-> whole.hash,
                               digest |-> d, tidy |-> whole.tidy, sig |-> g]
    BY <1>2, <1>5 DEF DamagedRecords, IsRecord
  <2>2. QED
    BY <1>2, <2>1 DEF IsRecord
<1>6. QED
  BY <1>3, <1>4, <1>5 DEF whole

\* VerifiersAgree, for a copy that is a sequence.
LEMMA AgreeOnSeqs ==
  ASSUME ChainInv, UsualInv
  PROVE  VerifiersAgree
<1> SUFFICES ASSUME copy # None PROVE VerifiersAgree
  BY DEF VerifiersAgree
<1> DEFINE stored == copy.file
<1>1. PICK L : stored \in Seq(L)
  BY DEF ChainInv, Receipts, IsSeq
<1>2. 1 # None
  BY EvidenceAssumption
<1>3. ASSUME NEW keyFiles \in KeyFiles
      PROVE  \E S : keyFiles \in Seq(S)
  <2> DEFINE S == {Keys[i] : i \in DOMAIN Keys}
  <2>1. Keys \in Seq(S)
    BY EvidenceAssumption
  <2> HIDE DEF S
  <2>2. CASE Keys # <<>>
    <3>1. Tail(Keys) \in Seq(S)
      BY <2>1, <2>2
    <3>2. QED
      BY <2>1, <3>1 DEF KeyFiles
  <2>3. CASE Keys = <<>>
    <3>1. Tail(Keys) = <<>>
      BY <2>3
    <3>2. QED
      BY <2>1, <2>3, <3>1, EmptySeq DEF KeyFiles
  <2>4. QED
    BY <2>2, <2>3
<1>4. Receipts(stored, written)
  BY DEF ChainInv
<1> DEFINE first == FirstOnEach(stored)
<1> HIDE DEF stored, first
<1>5. /\ Receipts(first, written) /\ DOMAIN first = DOMAIN stored
      /\ \A i \in DOMAIN stored : first[i].form # "joined" /\ (Differs(first[i]) <=> Differs(stored[i]))
  <2>1. Receipts(first, written) /\ Firsts(first, stored)
    BY <1>4, FirstReceipts DEF first
  <2>2. QED
    BY <2>1 DEF Firsts, Differs
<1>6. ASSUME NEW opts \in Options, ~opts.anchorCheck, ~opts.headAnchor, NEW keyFiles \in KeyFiles
      PROVE  LET read == Exit(first, opts, keyFiles, rows, "up")
                 go == runReceipts(opts, keyFiles, stored)
             IN  /\ IF \E i \in DOMAIN stored : Differs(stored[i]) THEN read # 0 /\ go # 0 ELSE read = go
                 /\ (\E i \in DOMAIN stored : stored[i].form = "joined") => Exit(stored, opts, keyFiles, rows, "up") # 0
  <2> DEFINE read == Exit(first, opts, keyFiles, rows, "up")
             go == runReceipts(opts, keyFiles, stored)
  <2>1. PICK S : keyFiles \in Seq(S)
    BY <1>3
  <2>2. Plainly(opts)
    BY <1>6, OptionsArePlain
  <2>3. ASSUME \A i \in DOMAIN stored : ~Differs(stored[i])
        PROVE  read = go
    <3>1. PICK M : first \in Seq(M)
      BY <1>5 DEF Receipts, IsSeq
    <3>2. read = runReceipts(opts, keyFiles, first)
      BY <1>2, <1>5, <2>1, <2>2, <2>3, <3>1, FilesAgree
    <3>3. runReceipts(opts, keyFiles, first) = go
      BY <1>4, GoReadsFirst DEF first
    <3>4. QED
      BY <3>2, <3>3
  <2>4. ASSUME NEW i \in DOMAIN stored, Differs(stored[i])
        PROVE  read # 0 /\ go # 0
    <3>1. stored # <<>> /\ first # <<>>
      BY <1>5, <2>4
    <3>2. read # 0
      <4>1. SUFFICES ASSUME read = 0 PROVE FALSE
        OBVIOUS
      <4>2. IsSeq(first) /\ IsSeq(rows) /\ Askable(opts)
        BY <1>5, OptionsAreAskable DEF ChainInv, Receipts
      <4>3. AcceptedFile(first, opts, rows)
        BY <3>1, <4>1, <4>2, FileAccepted
      <4>4. \A j \in DOMAIN first : ~Differs(first[j])
        BY <1>5, <4>3, AcceptedIsUsual DEF AcceptedFile
      <4>5. QED
        BY <1>5, <2>4, <4>4
    <3>3. go # 0
      <4>1. SUFFICES ASSUME go = 0 PROVE FALSE
        OBVIOUS
      <4>2. IsSeq(stored)
        BY <1>4 DEF Receipts
      <4>3. \A j \in DOMAIN stored : Linked(stored, j) /\ SignedItself(stored[j]) /\ stored[j].form # "other"
        BY <3>1, <4>1, <4>2, GoFileAccepted
      <4>4. \A j \in DOMAIN stored : ~Differs(stored[j])
        BY <1>4, <4>3, AcceptedIsUsual
      <4>5. QED
        BY <2>4, <4>4
    <3>4. QED
      BY <3>2, <3>3
  <2>5. ASSUME NEW i \in DOMAIN stored, stored[i].form = "joined"
        PROVE  Exit(stored, opts, keyFiles, rows, "up") # 0
    <3> DEFINE unpinned == Code(Parsed(opts).strict /\ ~TailPinned(Parsed(opts)), 11)
               keyless == Code(KeysRefused(keyFiles), 13)
    <3>1. LoadCode(stored) # 0
      BY <2>5 DEF LoadCode, Code
    <3> HIDE DEF unpinned, keyless
    <3>2. FirstOf(<<unpinned, LoadCode(stored), keyless>>) # 0
      BY <3>1, FirstOfThree
    <3>3. QED
      BY <3>2 DEF Exit, unpinned, keyless
  <2> HIDE DEF read, go
  <2>6. QED
    BY <2>3, <2>4, <2>5 DEF read, go
<1>7. ASSUME NEW k \in DOMAIN Countersigned(log),
             NEW rec \in {Countersigned(log)[k]} \cup DamagedRecords(Countersigned(log)[k]),
             NEW given \in ProofsFor(Countersigned(log), k), NEW keyFile
      PROVE  LET read == CountersignExit(FirstOn(rec), keyFile, given, Without("unasked"))
                 go == runCountersign(rec, <<keyFile>>, given)
             IN  /\ IF ~rec.tidy THEN read # 0 /\ go # 0
                    ELSE go = IF given.is = "null" /\ read = 0 THEN 14 ELSE read
                 /\ rec.form = "joined" => CountersignExit(rec, keyFile, given, Without("unasked")) # 0
  <2>1. k \in DOMAIN log
    BY DEF Countersigned
  <2>2. IsRecord(rec) /\ (rec.tidy \/ rec.sig.over # Unsigned(rec))
    BY <2>1, RecordsAreRecords
  <2>3. CASE rec.tidy
    <3>1. given.is = "proof" => \E P : given.proof.path \in Seq(P)
      BY <2>1, ProofsAreSeqs DEF ChainInv, Receipts
    <3>2. QED
      BY <2>2, <2>3, <3>1, RecordsAgree, RecordsRefused
  <2>4. CASE ~rec.tidy
    <3>1. ~FirstOn(rec).tidy
      BY <2>2, <2>4 DEF FirstOn, IsRecord
    <3>2. QED
      BY <2>2, <2>4, <3>1, RecordsRefused, OtherRecordsRefused
  <2>5. QED
    BY <2>3, <2>4
<1>8. QED
  <2>1. \A opts \in Options, keyFiles \in KeyFiles : \A f :
          /\ Verdict("mjs", f, opts, keyFiles) = Exit(f, opts, keyFiles, rows, "up")
          /\ Verdict("go", f, opts, keyFiles) = runReceipts(opts, keyFiles, f)
    BY DEF Verdict
  <2>2. QED
    BY <1>6, <1>7, <2>1 DEF VerifiersAgree, stored, first

\* The verifier written in Go and those written in JavaScript give the same
\* exit code of the receipts that stand first on their lines, for every file that
\* comes of a sink, however often it is damaged, and of every countersigned head,
\* its damaged copies and its proofs, for any keys and pins; a line that holds
\* more than its receipt is refused by the latter alone (verify.go:2).
THEOREM OneVerdictOfTwo == Spec => []VerifiersAgree
<1>1. ChainInv /\ UsualInv => VerifiersAgree
  BY AgreeOnSeqs
<1>2. QED
  BY <1>1, InvHolds, UsualHolds, PTL
-----------------------------------------------------------------------------
(* A copy nobody touched.                                                  *)

\* None stands for what is not there, and is not a record.
NoneIsNoRecord == None # [field \in DOMAIN None |-> None[field]]

LEMMA RecordIsThere ==
  ASSUME NoneIsNoRecord, NEW r, r = [field \in DOMAIN r |-> r[field]]
  PROVE  r # None
BY DEF NoneIsNoRecord

LEMMA SignatureIsThere ==
  ASSUME NoneIsNoRecord, NEW key, NEW digest
  PROVE  Sign(key, digest) # None
<1>1. Sign(key, digest) = [field \in DOMAIN Sign(key, digest) |-> Sign(key, digest)[field]]
  BY DEF Sign
<1>2. QED
  BY <1>1, RecordIsThere

\* What buildReceipt makes with a key of the gateway; an anchor is of itself.
Genuine(r) ==
  /\ r.form = "object" /\ SchemaOK(r.body)
  /\ \E i \in DOMAIN Keys : r.sig = Sign(Keys[i], r.chain.hash)
  /\ r.anchor # None => r.anchor.ref = r.chain.hash

Sound(stored) == \A i \in DOMAIN stored : Genuine(stored[i]) /\ stored[i].chain.seq = i

HeadIsStamped == log # <<>> /\ Last(log).anchor # None

\* The sidecar holds the anchor of one digest.
RowIsOf(hash) ==
  /\ Len(rows) = 1
  /\ rows[1] = [hash |-> hash, ots |-> [over |-> hash, confirmed |-> rows[1].ots.confirmed]]

\* The sink holds what the gateway wrote, in its order; while a stamper is under
\* way its head gets no other anchor than the stamper's, and the row of a
\* stamped head stays until there is a new head.
SoundInv ==
  /\ used \in DOMAIN Keys
  /\ IsFiniteSet(written)
  /\ Sound(log) /\ Sound(stamper.read)
  /\ stamper # Idle => stamper.read # <<>>
  /\ stamper.pc = "chain" => RowIsOf(Last(stamper.read).chain.hash)
  /\ stamper # Idle /\ HeadIsStamped => log = stamper.read
  /\ HeadIsStamped => RowIsOf(Last(log).chain.hash)

LEMMA BodyIsWell ==
  ASSUME NEW entry, entry.assurance # None, entry.client \in {"protocol", None},
         ActorAllowed(ReceiptInput(entry, Meta).actor)
  PROVE  SchemaOK(Body(ReceiptInput(entry, Meta)))
<1> DEFINE in == ReceiptInput(entry, Meta)
           b == Body(in)
<1>1. /\ b.v = 4 /\ b.whole /\ b.actor = in.actor /\ b.model = BuildModel(in.model)
      /\ b.client = BuildClient(in.client) /\ b.destination = BuildDestination(in.destination)
      /\ b.disclosure = BuildDisclosure(in)
  BY DEF Body, Current
<1>2. in.actor.type \in {"user", "service"} /\ in.actor.assurance # None
  BY DEF ReceiptInput
<1>3. in.client \in {"protocol", "operator-declared", None}
  BY EvidenceAssumption DEF ReceiptInput
<1> HIDE DEF in, b
<1>4. ActorOK(b)
  BY <1>1, <1>2 DEF ActorOK, in
<1>5. MetaOK(b.model)
  BY <1>1 DEF BuildModel, Holds, MetaOK, Undeclared, Sources
<1>6. MetaOK(b.client)
  BY <1>1, <1>3 DEF BuildClient, MetaOK, Undeclared, Sources
<1>7. DestinationOK(b.destination)
  BY <1>1 DEF BuildDestination, Holds, DestinationOK
<1>8. DisclosureOK(b.disclosure)
  <2>1. \/ b.disclosure.source = "measured" /\ b.disclosure.hash = "hex"
        \/ b.disclosure.source = "undeclared" /\ b.disclosure.hash = None
    BY <1>1 DEF BuildDisclosure
  <2>2. QED
    BY <2>1 DEF DisclosureOK
<1>9. SchemaOK(b)
  BY <1>1, <1>4, <1>5, <1>6, <1>7, <1>8 DEF SchemaOK
<1>10. QED
  BY <1>9 DEF in, b

LEMMA WriteIsSound ==
  ASSUME ChainInv, SoundInv, NEW entry, entry.assurance # None, entry.client \in {"protocol", None}, Write(entry)
  PROVE  SoundInv'
<1> DEFINE in == ReceiptInput(entry, Meta)
           r == BuildReceipt(in, log, Keys[used])
           state == NextState(log)
<1>1. /\ log' = Append(log, r) /\ written' = written \cup {r.chain.hash}
      /\ used' = used /\ stamper' = stamper /\ rows' = rows /\ ActorAllowed(in.actor)
  BY DEF Write, anchoring
<1>2. /\ r.form = "object" /\ r.body = Body(in) /\ r.sig = Sign(Keys[used], r.chain.hash)
      /\ r.anchor = None /\ r.chain.seq = state.seq
  BY DEF BuildReceipt
<1> HIDE DEF r
<1>3. Genuine(r)
  BY <1>1, <1>2, BodyIsWell DEF SoundInv, Genuine
<1>4. PICK L : log \in Seq(L)
  BY DEF ChainInv, Receipts, IsSeq
<1>5. /\ Len(log) \in Nat /\ DOMAIN log = 1..Len(log) /\ DOMAIN log' = 1..(Len(log) + 1)
      /\ log'[Len(log) + 1] = r /\ (\A i \in 1..Len(log) : log'[i] = log[i])
      /\ Len(log') = Len(log) + 1
  <2>1. log \in Seq(L \cup {r})
    BY <1>4, SeqWider
  <2>2. QED
    BY <1>1, <2>1
<1>6. r.chain.seq = Len(log) + 1
  <2>1. CASE log = <<>>
    BY <1>2, <2>1 DEF NextState
  <2>2. CASE log # <<>>
    <3>1. Len(log) \in DOMAIN log
      BY <1>4, <1>5, <2>2
    <3>2. log[Len(log)].chain.seq = Len(log)
      BY <3>1 DEF SoundInv, Sound
    <3>3. QED
      BY <1>2, <2>2, <3>2 DEF NextState, Last
  <2>3. QED
    BY <2>1, <2>2
<1>7. Sound(log')
  <2>1. SUFFICES ASSUME NEW i \in DOMAIN log' PROVE Genuine(log'[i]) /\ log'[i].chain.seq = i
    BY DEF Sound
  <2>2. CASE i = Len(log) + 1
    BY <1>3, <1>5, <1>6, <2>2
  <2>3. CASE i \in 1..Len(log)
    BY <1>5, <2>3 DEF SoundInv, Sound
  <2>4. QED
    BY <1>5, <2>1, <2>2, <2>3
<1>8. ~HeadIsStamped'
  BY <1>2, <1>5 DEF HeadIsStamped, Last
<1>9. IsFiniteSet(written')
  BY <1>1, FS_AddElement DEF SoundInv
<1>10. QED
  BY <1>1, <1>7, <1>8, <1>9 DEF SoundInv, RowIsOf, Idle

LEMMA SoundStays ==
  ASSUME ChainInv, SoundInv, [Next]_vars
  PROVE  SoundInv'
<1>1. Sound(<<>>)
  BY DEF Sound
<1>2. CASE Cardinality(written) < Len(Entries) /\ \E entry \in Entries[Cardinality(written) + 1] : Write(entry)
  <2>1. Cardinality(written) \in Nat
    BY FS_CardinalityType DEF SoundInv
  <2>2. Len(Entries) \in Nat /\ DOMAIN Entries = 1..Len(Entries)
    BY EvidenceAssumption
  <2>3. Cardinality(written) + 1 \in DOMAIN Entries
    BY <1>2, <2>1, <2>2
  <2>4. PICK entry \in Entries[Cardinality(written) + 1] : Write(entry)
    BY <1>2
  <2>5. entry.assurance # None /\ entry.client \in {"protocol", None}
    BY <2>3, EvidenceAssumption
  <2>6. QED
    BY <2>4, <2>5, WriteIsSound
<1>3. CASE Rotate
  <2>1. Len(Keys) \in Nat /\ DOMAIN Keys = 1..Len(Keys)
    BY EvidenceAssumption
  <2>2. used' \in DOMAIN Keys
    BY <1>3, <2>1 DEF Rotate, SoundInv
  <2>3. QED
    BY <1>3, <2>2 DEF Rotate, anchoring, SoundInv, HeadIsStamped, RowIsOf
<1>4. CASE UNCHANGED vars
  BY <1>4 DEF vars, gateway, anchoring, SoundInv, HeadIsStamped, RowIsOf
<1>5. CASE NewSink
  <2>1. /\ log' = <<>> /\ stamper' = stamper /\ stamper = Idle /\ written' = written /\ used' = used
    BY <1>5 DEF NewSink
  <2>2. ~HeadIsStamped' /\ stamper'.pc = "idle"
    BY <2>1 DEF HeadIsStamped, Idle
  <2>3. QED
    BY <1>1, <2>1, <2>2 DEF SoundInv
<1>6. CASE StampRead
  <2>1. /\ log' = log /\ log # <<>> /\ written' = written /\ used' = used /\ rows' = rows
        /\ stamper' = [pc |-> "calendar", read |-> log]
    BY <1>6 DEF StampRead, gateway
  <2>2. stamper'.pc = "calendar" /\ stamper'.read = log
    BY <2>1
  <2>3. QED
    BY <2>1, <2>2 DEF SoundInv, HeadIsStamped, RowIsOf
<1>7. CASE StampDies
  <2>1. /\ log' = log /\ written' = written /\ used' = used /\ rows' = rows /\ stamper' = Idle
    BY <1>7 DEF StampDies, gateway
  <2>2. stamper'.pc = "idle" /\ stamper'.read = <<>>
    BY <2>1 DEF Idle
  <2>3. QED
    BY <1>1, <2>1, <2>2 DEF SoundInv, HeadIsStamped, RowIsOf
<1>8. CASE StampAnswer
  <2> DEFINE head == Last(stamper.read).chain.hash
  <2>1. /\ log' = log /\ written' = written /\ used' = used
        /\ stamper' = [stamper EXCEPT !.pc = "chain"] /\ stamper.pc = "calendar"
        /\ \E confirmed : rows' = <<[hash |-> head, ots |-> [over |-> head, confirmed |-> confirmed]]>>
    BY <1>8 DEF StampAnswer, gateway
  <2>2. /\ stamper'.pc = "chain" /\ stamper'.read = stamper.read
        /\ stamper # Idle
    BY <2>1 DEF ChainInv, Idle
  <2>3. RowIsOf(head)'
    <3>1. PICK confirmed : rows' = <<[hash |-> head, ots |-> [over |-> head, confirmed |-> confirmed]]>>
      BY <2>1
    <3>2. head' = head
      BY <2>2
    <3>3. rows'[1] = [hash |-> head, ots |-> [over |-> head, confirmed |-> confirmed]] /\ Len(rows') = 1
      BY <3>1
    <3>4. QED
      BY <3>2, <3>3 DEF RowIsOf
  <2>4. HeadIsStamped => Last(log).chain.hash = head
    BY <2>2 DEF SoundInv
  <2>5. QED
    BY <2>1, <2>2, <2>3, <2>4 DEF SoundInv, HeadIsStamped
<1>9. CASE StampWrite
  <2> DEFINE read == stamper.read
             back == Anchored(read)
             ref == [ref |-> Last(read).chain.hash]
  <2>1. /\ log' = back /\ stamper' = Idle /\ stamper.pc = "chain"
        /\ written' = written /\ used' = used /\ rows' = rows
    BY <1>9 DEF StampWrite
  <2>2. stamper'.pc = "idle" /\ stamper'.read = <<>>
    BY <2>1 DEF Idle
  <2>3. PICK L : read \in Seq(L)
    BY DEF ChainInv, Receipts, IsSeq
  <2>4. read # <<>> /\ RowIsOf(Last(read).chain.hash)
    BY <2>1 DEF SoundInv, Idle
  <2>5. Len(read) \in Nat /\ DOMAIN read = 1..Len(read) /\ Len(read) \in DOMAIN read
    BY <2>3, <2>4
  <2>6. /\ DOMAIN back = DOMAIN read /\ back = [i \in DOMAIN read |-> back[i]]
        /\ \A i \in DOMAIN read : i # Len(read) => back[i] = read[i]
        /\ back[Len(read)] = [read[Len(read)] EXCEPT !.anchor = ref]
    BY <2>5 DEF Anchored
  <2>7. Len(back) = Len(read)
    BY <2>5, <2>6, ListIsSeq
  <2>8. ASSUME NEW i \in DOMAIN read
        PROVE  Genuine(back[i]) /\ back[i].chain = read[i].chain
    <3>1. Genuine(read[i]) /\ IsReceipt(read[i], written)
      BY DEF SoundInv, Sound, ChainInv, Receipts
    <3>2. CASE i # Len(read)
      BY <2>6, <3>1, <3>2
    <3>3. CASE i = Len(read)
      <4>1. Last(read) = read[i]
        BY <3>3 DEF Last
      <4>2. back[i] = [form |-> read[i].form, body |-> read[i].body, chain |-> read[i].chain,
                       sig |-> read[i].sig, anchor |-> ref]
        BY <2>6, <3>1, <3>3 DEF IsReceipt
      <4>3. QED
        BY <3>1, <4>1, <4>2 DEF Genuine
    <3>4. QED
      BY <3>2, <3>3
  <2>9. Sound(back)
    BY <2>6, <2>8 DEF SoundInv, Sound
  <2>10. Last(back).chain.hash = Last(read).chain.hash
    BY <2>5, <2>7, <2>8 DEF Last
  <2>11. RowIsOf(Last(log).chain.hash)'
    BY <2>1, <2>4, <2>10 DEF RowIsOf
  <2>12. QED
    BY <1>1, <2>1, <2>2, <2>9, <2>11 DEF SoundInv
<1>10. CASE HandOver \/ Fault
  BY <1>10 DEF HandOver, Fault, gateway, anchoring, SoundInv, HeadIsStamped, RowIsOf
<1>11. QED
  BY <1>2, <1>3, <1>4, <1>5, <1>6, <1>7, <1>8, <1>9, <1>10 DEF Next, Live

LEMMA SoundHolds == Spec => []SoundInv
<1>1. Init => SoundInv
  <2>1. Len(Keys) \in Nat /\ DOMAIN Keys = 1..Len(Keys) /\ Len(Keys) # 0
    BY EvidenceAssumption
  <2>2. IsFiniteSet({})
    BY FS_EmptySet
  <2>3. SUFFICES ASSUME Init PROVE SoundInv
    OBVIOUS
  <2>4. ~HeadIsStamped /\ stamper.pc = "idle" /\ stamper.read = <<>> /\ used \in DOMAIN Keys
    BY <2>1, <2>3 DEF Init, HeadIsStamped, Idle
  <2>5. QED
    BY <2>2, <2>3, <2>4 DEF Init, SoundInv, Sound
<1>2. ChainInv /\ SoundInv /\ [Next]_vars => SoundInv'
  BY SoundStays
<1>3. QED
  BY <1>1, <1>2, InvHolds, PTL DEF Spec

\* The gateway's own signatures hold with the gateway's keys.
LEMMA OwnKeyIsFound ==
  ASSUME NamesAreApart, NoneIsNoRecord, NEW i \in DOMAIN Keys, NEW digest
  PROVE  SigOK(Keys, Sign(Keys[i], digest), digest)
<1> DEFINE named == {j \in DOMAIN Keys : Keys[j].keyId = Keys[i].keyId}
           chosen == CHOOSE k \in named : \A j \in named : j <= k
           sig == Sign(Keys[i], digest)
<1>1. Len(Keys) \in Nat /\ DOMAIN Keys = 1..Len(Keys)
  BY EvidenceAssumption
<1>2. i \in named
  OBVIOUS
<1>3. PICK k \in named : \A j \in named : j <= k
  BY <1>1, <1>2, GreatestIndex
<1>4. chosen \in named
  BY <1>3
<1>5. KeyOf(Keys, Keys[i].keyId) = Keys[chosen].pair
  BY <1>2 DEF KeyOf
<1>6. Keys[chosen].pair = Keys[i].pair
  BY <1>4 DEF NamesAreApart
<1>7. Keys[i].pair # None
  BY EvidenceAssumption
<1>8. sig # None
  BY SignatureIsThere
<1>9. /\ sig.alg = "Ed25519" /\ sig.keyId = Keys[i].keyId /\ sig.by = Keys[i].pair
      /\ sig.over = digest /\ sig.canonical
  BY DEF Sign
<1> HIDE DEF sig
<1>10. SigOK(Keys, sig, digest)
  BY <1>5, <1>6, <1>7, <1>8, <1>9 DEF SigOK
<1>11. QED
  BY <1>10 DEF sig

\* Each of its lines passes.
LEMMA LinePasses ==
  ASSUME ChainInv, SoundInv, NamesAreApart, NoneIsNoRecord, NEW i \in DOMAIN log, NEW o, o.seqFrom \in {None, 1},
         o.anchorCheck => AnchorCode(log[i], rows, "up") = 0
  PROVE  ReceiptCode(log, i, o, Keys, rows, "up") = 0
<1> DEFINE r == log[i]
           bad == Code(r.form = "other" \/ ~SchemaOK(r.body), 20)
           notSame == Code(r.chain.hash # Digest(r), 10)
           notSigned == Code(~SigOK(Keys, r.sig, r.chain.hash), 13)
           notAnchored == IF o.anchorCheck THEN AnchorCode(r, rows, "up") ELSE 0
           astray == ChainCode(log, i, o.seqFrom)
<1>1. ReceiptCode(log, i, o, Keys, rows, "up") = FirstOf(<<bad, notSame, astray, notSigned, notAnchored>>)
  BY DEF ReceiptCode
<1>2. Genuine(r) /\ r.chain.seq = i /\ Linked(log, i)
  BY DEF SoundInv, Sound, ChainInv, OneChain
<1>3. bad = 0
  BY <1>2 DEF Genuine, Code
<1>4. notSame = 0
  BY <1>2 DEF Linked, Code
<1>5. SigOK(Keys, r.sig, r.chain.hash)
  BY <1>2, OwnKeyIsFound DEF Genuine
<1>6. notSigned = 0
  BY <1>5 DEF Code
<1>7. astray = 0
  <2>1. CASE i = 1
    <3>1. Code(r.chain.prevHash # Genesis, 11) = 0 /\ Code(o.seqFrom # None /\ r.chain.seq # o.seqFrom, 12) = 0
      BY <1>2, <2>1 DEF Linked, Code
    <3>2. QED
      BY <2>1, <3>1, FirstOfTwo DEF ChainCode
  <2>2. CASE i # 1
    <3>1. i \in Nat /\ i - 1 \in DOMAIN log
      BY <2>2 DEF ChainInv, Receipts, IsSeq
    <3>2. log[i - 1].chain.seq = i - 1
      BY <3>1 DEF SoundInv, Sound
    <3>3. /\ Code(r.chain.prevHash # log[i - 1].chain.hash, 11) = 0
          /\ Code(r.chain.seq # log[i - 1].chain.seq + 1, 12) = 0
      BY <1>2, <2>2, <3>1, <3>2 DEF Linked, Code
    <3>4. QED
      BY <2>2, <3>3, FirstOfTwo DEF ChainCode
  <2>3. QED
    BY <2>1, <2>2
<1>8. notAnchored = 0
  OBVIOUS
<1> HIDE DEF bad, notSame, notSigned, notAnchored, astray
<1>9. QED
  BY <1>1, <1>3, <1>4, <1>6, <1>7, <1>8, FirstOfFive

\* And all of it, where the pins and the anchors asked for are there.
LEMMA SinkPasses ==
  ASSUME ChainInv, SoundInv, NamesAreApart, NoneIsNoRecord, NEW opts, Parsed(opts).seqFrom \in {None, 1},
         Parsed(opts).strict => TailPinned(Parsed(opts)),
         FirstOf(PinCodes(log, Parsed(opts))) = 0, FirstOf(AnchorCodes(log, Parsed(opts))) = 0,
         Parsed(opts).anchorCheck => \A i \in DOMAIN log : AnchorCode(log[i], rows, "up") = 0
  PROVE  Exit(log, opts, Keys, rows, "up") = 0
<1> DEFINE o == Parsed(opts)
           lines == [i \in DOMAIN log |-> ReceiptCode(log, i, o, Keys, rows, "up")]
           pins == FirstOf(PinCodes(log, o))
           anchors == FirstOf(AnchorCodes(log, o))
           unpinned == Code(o.strict /\ ~TailPinned(o), 11)
           keyless == Code(KeysRefused(Keys), 13)
<1>1. LoadCode(log) = 0
  BY DEF LoadCode, Code, SoundInv, Sound, Genuine
<1>2. keyless = 0
  BY EvidenceAssumption DEF KeysRefused, Code
<1>3. unpinned = 0
  BY DEF Code
<1>4. \A i \in DOMAIN lines : lines[i] = 0
  BY LinePasses
<1>5. FirstOf(lines) = 0
  BY <1>4, NoneFails
<1>6. /\ FirstOf(<<unpinned, LoadCode(log), keyless>>) = 0
      /\ FirstOf(<<FirstOf(lines), pins, anchors>>) = 0
  BY <1>1, <1>2, <1>3, <1>5, FirstOfThree
<1>7. Checks(log, o, Keys, rows, "up") = <<FirstOf(lines), pins, anchors>>
  BY DEF Checks
<1> HIDE DEF lines, pins, anchors
<1>8. QED
  BY <1>6, <1>7 DEF Exit

LEMMA PinnedSinkPasses ==
  ASSUME ChainInv, SoundInv, UsualInv, NamesAreApart, NoneIsNoRecord, log # <<>>,
         NEW v \in {"mjs", "go"}, NEW strict \in BOOLEAN
  PROVE  Verdict(v, log, [ConsoleCommand(log) EXCEPT !.strict = strict], Keys) = 0
<1> DEFINE hash == Last(log).chain.hash
           opts == [ConsoleCommand(log) EXCEPT !.strict = strict]
           o == Parsed(opts)
           Plain == [strict : BOOLEAN, seqFrom : {None, 1}, count : {Len(log)}, lastHash : {hash},
                     anchorCheck : {FALSE}, headAnchor : {FALSE}]
<1>1. opts \in Plain /\ opts.seqFrom = None
  BY DEF ConsoleCommand
<1>2. /\ o.seqFrom \in {None, 1} /\ ~o.anchorCheck /\ ~o.headAnchor
      /\ o.count = Len(log) /\ o.lastHash = hash
  BY <1>1 DEF Parsed
<1> HIDE DEF opts, o
<1>3. PICK L : log \in Seq(L)
  BY DEF ChainInv, Receipts, IsSeq
<1>4. Len(log) # None
  BY <1>3, EvidenceAssumption
<1>5. FirstOf(PinCodes(log, o)) = 0
  <2>1. /\ Code(o.count # None /\ (log = <<>> \/ Len(log) # o.count), 11) = 0
        /\ Code(o.lastHash # None /\ (log = <<>> \/ Last(log).chain.hash # o.lastHash), 11) = 0
    BY <1>2 DEF Code
  <2>2. QED
    BY <2>1, FirstOfTwo DEF PinCodes
<1>6. FirstOf(AnchorCodes(log, o)) = 0
  <2>1. /\ Code(o.headAnchor /\ (log = <<>> \/ Last(log).anchor = None), 14) = 0
        /\ Code(o.anchorCheck /\ log # <<>> /\ \A i \in DOMAIN log : log[i].anchor = None, 15) = 0
    BY <1>2 DEF Code
  <2>2. QED
    BY <2>1, FirstOfTwo DEF AnchorCodes
<1>7. TailPinned(o)
  BY <1>2, <1>4 DEF TailPinned
<1>8. Exit(log, opts, Keys, rows, "up") = 0
  BY <1>2, <1>5, <1>6, <1>7, SinkPasses DEF o
<1>9. runReceipts(opts, Keys, log) = 0
  <2>1. Plainly(opts)
    BY <1>1 DEF Plainly
  <2>2. 1 # None
    BY EvidenceAssumption
  <2>3. Keys \in Seq({Keys[i] : i \in DOMAIN Keys})
    BY EvidenceAssumption
  <2>4. \A i \in DOMAIN log : ~Differs(log[i]) /\ log[i].form # "joined"
    BY DEF UsualInv, UsualFile, Usual, SoundInv, Sound, Genuine, Differs
  <2>5. QED
    BY <1>3, <1>8, <2>1, <2>2, <2>3, <2>4, FilesAgree
<1>10. QED
  BY <1>8, <1>9 DEF Verdict, opts

\* A head that alone is anchored passes --require-head-anchor.
LEMMA StampedSinkPasses ==
  ASSUME ChainInv, SoundInv, NamesAreApart, NoneIsNoRecord, log # <<>>, Last(log).anchor # None,
         \A i \in 1..(Len(log) - 1) : log[i].anchor = None
  PROVE  Verdict("mjs", log, [Bare EXCEPT !.headAnchor = TRUE], Keys) = 0
<1> DEFINE opts == [Bare EXCEPT !.headAnchor = TRUE]
           o == Parsed(opts)
           n == Len(log)
           hash == Last(log).chain.hash
<1>1. /\ ~opts.strict /\ opts.seqFrom = None /\ opts.count = None /\ opts.lastHash = None
      /\ opts \in [strict : {FALSE}, seqFrom : {None}, count : {None}, lastHash : {None},
                   anchorCheck : {FALSE}, headAnchor : {TRUE}]
  BY DEF Bare
<1>2. ~o.strict /\ o.seqFrom = None /\ o.count = None /\ o.lastHash = None
  BY <1>1 DEF Parsed
<1> HIDE DEF opts, o
<1>3. n \in Nat /\ DOMAIN log = 1..n /\ n \in DOMAIN log
  BY DEF ChainInv, Receipts, IsSeq
<1>4. FirstOf(PinCodes(log, o)) = 0
  <2>1. /\ Code(o.count # None /\ (log = <<>> \/ Len(log) # o.count), 11) = 0
        /\ Code(o.lastHash # None /\ (log = <<>> \/ Last(log).chain.hash # o.lastHash), 11) = 0
    BY <1>2 DEF Code
  <2>2. QED
    BY <2>1, FirstOfTwo DEF PinCodes
<1>5. FirstOf(AnchorCodes(log, o)) = 0
  <2>1. /\ Code(o.headAnchor /\ (log = <<>> \/ Last(log).anchor = None), 14) = 0
        /\ Code(o.anchorCheck /\ log # <<>> /\ \A i \in DOMAIN log : log[i].anchor = None, 15) = 0
    BY <1>3 DEF Code, Last
  <2>2. QED
    BY <2>1, FirstOfTwo DEF AnchorCodes
<1>6. AnchorCode(log[n], rows, "up") = 0
  <2> DEFINE r == log[n]
             row == rows[1]
             named == {i \in DOMAIN rows : rows[i].hash = hash}
  <2>1. r.anchor # None /\ r.anchor.ref = hash /\ r.chain.hash = hash
    BY <1>3 DEF Last, SoundInv, Sound, Genuine
  <2>2. RowIsOf(hash) /\ DOMAIN rows = {1}
    <3>1. RowIsOf(hash)
      BY DEF SoundInv, HeadIsStamped
    <3>2. DOMAIN rows = 1..Len(rows)
      BY DEF ChainInv, IsSeq
    <3>3. QED
      BY <3>1, <3>2 DEF RowIsOf
  <2>3. /\ row.hash = hash /\ row.ots.over = hash
        /\ row = [field \in DOMAIN row |-> row[field]]
        /\ row.ots = [field \in DOMAIN row.ots |-> row.ots[field]]
    BY <2>2 DEF RowIsOf
  <2>4. row # None /\ row.ots # None
    BY <2>3, RecordIsThere
  <2>5. named = {1}
    BY <2>2, <2>3
  <2>6. RowOf(rows, hash) = row
    BY <2>5 DEF RowOf
  <2>7. OtsCode(row.ots, hash, "up") = 0
    <3>1. /\ Code("up" = "alone", 15) = 0 /\ Code(row.ots.over # hash, 14) = 0
          /\ Code(row.ots.confirmed /\ "up" = "down", 15) = 0
      BY <2>3 DEF Code
    <3> HIDE DEF row
    <3>2. QED
      BY <3>1, FirstOfThree DEF OtsCode
  <2>8. QED
    BY <2>1, <2>4, <2>6, <2>7 DEF AnchorCode
<1>7. \A i \in DOMAIN log : AnchorCode(log[i], rows, "up") = 0
  BY <1>3, <1>6 DEF AnchorCode
<1>8. Exit(log, opts, Keys, rows, "up") = 0
  BY <1>2, <1>4, <1>5, <1>7, SinkPasses DEF o
<1>9. QED
  BY <1>8 DEF Verdict, opts

\* The anchor service's signature holds with its key.
LEMMA ServiceKeyIsFound ==
  ASSUME NoneIsNoRecord, NEW digest
  PROVE  ~KeysRefused(<<Service>>) /\ SigOK(<<Service>>, Sign(Service, digest), digest)
<1> DEFINE keyFile == <<Service>>
           named == {j \in DOMAIN keyFile : keyFile[j].keyId = Service.keyId}
           sig == Sign(Service, digest)
<1>1. DOMAIN keyFile = {1} /\ keyFile[1] = Service /\ keyFile # <<>>
  OBVIOUS
<1>2. Service.keyId # None /\ Service.pair # None
  BY EvidenceAssumption
<1> HIDE DEF keyFile
<1>3. named = {1}
  BY <1>1
<1>4. KeyOf(keyFile, Service.keyId) = Service.pair
  BY <1>1, <1>3 DEF KeyOf
<1>5. sig # None
  BY SignatureIsThere
<1>6. /\ sig.alg = "Ed25519" /\ sig.keyId = Service.keyId /\ sig.by = Service.pair
      /\ sig.over = digest /\ sig.canonical
  BY DEF Sign
<1> HIDE DEF sig
<1>7. SigOK(keyFile, sig, digest)
  BY <1>2, <1>4, <1>5, <1>6 DEF SigOK
<1>8. ~KeysRefused(keyFile)
  BY <1>1, <1>2 DEF KeysRefused
<1>9. QED
  BY <1>7, <1>8 DEF keyFile, sig

\* The heads of a sink, up to one.
Heads(k) == [i \in 1..k |-> log[i].chain.hash]

LEMMA HeadsGrow ==
  ASSUME ChainInv, NEW k \in DOMAIN log
  PROVE  /\ Last(Heads(k)) = log[k].chain.hash
         /\ k > 1 => Front(Heads(k)) = Heads(k - 1)
<1>1. k \in Nat /\ k >= 1
  BY DEF ChainInv, Receipts, IsSeq
<1>2. Heads(k) = [i \in 1..k |-> Heads(k)[i]] /\ \A i \in 1..k : Heads(k)[i] = log[i].chain.hash
  BY DEF Heads
<1>3. PICK L : Heads(k) \in Seq(L)
  BY <1>1, <1>2, ListIsSeq DEF IsSeq
<1>4. Len(Heads(k)) = k
  BY <1>1, <1>2, ListIsSeq
<1>5. k \in 1..k
  BY <1>1
<1>6. Last(Heads(k)) = log[k].chain.hash
  BY <1>2, <1>4, <1>5 DEF Last
<1>7. ASSUME k > 1 PROVE Front(Heads(k)) = Heads(k - 1)
  <2> DEFINE front == SubSeq(Heads(k), 1, k - 1)
  <2>1. /\ front \in Seq(L) /\ Len(front) = k - 1
        /\ \A i \in 1..(k - 1) : front[i] = Heads(k)[i]
    <3>1. 1 \in Int /\ k - 1 \in Int /\ \A i \in 1..(k - 1) : Heads(k)[i] \in L
      BY <1>1, <1>3, <1>4
    <3>2. /\ front \in Seq(L) /\ Len(front) = IF 1 <= k - 1 THEN (k - 1) - 1 + 1 ELSE 0
          /\ \A i \in 1..((k - 1) - 1 + 1) : front[i] = Heads(k)[1 + i - 1]
      BY <3>1, SubSeqProperties
    <3>3. 1 <= k - 1 /\ (k - 1) - 1 + 1 = k - 1
      BY <1>1, <1>7
    <3>4. \A i \in 1..(k - 1) : 1 + i - 1 = i
      OBVIOUS
    <3>5. QED
      BY <3>2, <3>3, <3>4
  <2>2. front = [i \in 1..(k - 1) |-> front[i]]
    BY <1>1, <2>1
  <2>3. \A i \in 1..(k - 1) : front[i] = log[i].chain.hash
    BY <1>1, <1>2, <2>1
  <2>4. front = Heads(k - 1)
    BY <2>2, <2>3 DEF Heads
  <2>5. QED
    BY <1>4, <2>4 DEF Front
<1>8. QED
  BY <1>6, <1>7

LEMMA SigTakenOff ==
  ASSUME NEW r, r = [field \in DOMAIN r |-> r[field]], r.sig = None, r.form = "object", NEW sig
  PROVE  [[r EXCEPT !.sig = sig] EXCEPT !.sig = None, !.form = "object"] = r
<1> DEFINE s == [r EXCEPT !.sig = sig]
           t == [s EXCEPT !.sig = None, !.form = "object"]
<1>1. /\ DOMAIN s = DOMAIN r /\ s = [field \in DOMAIN r |-> s[field]]
      /\ \A field \in DOMAIN r : field # "sig" => s[field] = r[field]
  OBVIOUS
<1> HIDE DEF s
<1>2. /\ DOMAIN t = DOMAIN r /\ t = [field \in DOMAIN r |-> t[field]]
      /\ \A field \in DOMAIN r : t[field] = IF field = "sig" THEN None ELSE IF field = "form" THEN "object" ELSE s[field]
  BY <1>1
<1>3. \A field \in DOMAIN r : t[field] = r[field]
  BY <1>1, <1>2
<1> HIDE DEF t
<1>4. t = r
  BY <1>2, <1>3
<1>5. QED
  BY <1>4 DEF t, s

LEMMA SignedRecord ==
  ASSUME NEW seq, NEW prevHash, NEW hash, NEW digest, NEW sig
  PROVE  LET plain == [form |-> "object", type |-> "submit", seq |-> seq, prevHash |-> prevHash,
                       hash |-> hash, digest |-> digest, tidy |-> TRUE, sig |-> None]
             rec == [plain EXCEPT !.sig = sig]
         IN  /\ rec.seq = seq /\ rec.hash = hash /\ rec.prevHash = prevHash /\ rec.form = "object"
             /\ rec.type = "submit" /\ rec.tidy /\ rec.sig = sig /\ Unsigned(rec) = plain
<1> DEFINE plain == [form |-> "object", type |-> "submit", seq |-> seq, prevHash |-> prevHash,
                     hash |-> hash, digest |-> digest, tidy |-> TRUE, sig |-> None]
           rec == [plain EXCEPT !.sig = sig]
<1>1. /\ rec.seq = seq /\ rec.hash = hash /\ rec.prevHash = prevHash /\ rec.form = "object"
      /\ rec.type = "submit" /\ rec.tidy /\ rec.sig = sig
  OBVIOUS
<1>2. Unsigned(rec) = [rec EXCEPT !.sig = None, !.form = "object"]
  BY DEF Unsigned
<1>3. [rec EXCEPT !.sig = None, !.form = "object"] = plain
  <2>1. plain = [field \in DOMAIN plain |-> plain[field]] /\ plain.sig = None /\ plain.form = "object"
    OBVIOUS
  <2> HIDE DEF plain
  <2>2. QED
    BY <2>1, SigTakenOff
<1>4. QED
  BY <1>1, <1>2, <1>3

\* A value with the fields of a record is one.
LEMMA FieldsMakeRecord ==
  ASSUME NEW form, NEW type, NEW seq, NEW prevHash, NEW hash, NEW digest, NEW tidy, NEW old, NEW sig
  PROVE  IsRecord([[form |-> form, type |-> type, seq |-> seq, prevHash |-> prevHash, hash |-> hash,
                    digest |-> digest, tidy |-> tidy, sig |-> old] EXCEPT !.sig = sig])
<1>1. PICK rec : rec = [form |-> form, type |-> type, seq |-> seq, prevHash |-> prevHash, hash |-> hash,
                        digest |-> digest, tidy |-> tidy, sig |-> sig]
  OBVIOUS
<1>2. [[form |-> form, type |-> type, seq |-> seq, prevHash |-> prevHash, hash |-> hash,
        digest |-> digest, tidy |-> tidy, sig |-> old] EXCEPT !.sig = sig] = rec
  BY <1>1
<1>3. IsRecord(rec)
  BY <1>1 DEF IsRecord
<1>4. QED
  BY <1>2, <1>3

\* A countersigned head and the proof that the log holds it.
LEMMA RecordPasses ==
  ASSUME ChainInv, NoneIsNoRecord, NEW k \in DOMAIN log
  PROVE  LET clog == Countersigned(log)
             proof == Given(ProofOf(clog, k))
         IN  /\ CountersignExit(clog[k], Service, proof, Without("unasked")) = 0
             /\ CountersignExit(clog[k], Service, Without("unasked"), proof) = 0
             /\ runCountersign(clog[k], <<Service>>, proof) = 0
<1> DEFINE clog == Countersigned(log)
           plain(j) == [form |-> "object", type |-> "submit", seq |-> j, prevHash |-> Front(Heads(j)),
                        hash |-> Heads(j), digest |-> Last(Heads(j)), tidy |-> TRUE, sig |-> None]
           signed(j) == [plain(j) EXCEPT !.sig = Sign(Service, plain(j))]
           n == Len(log)
           proof == ProofOf(clog, k)
           rec == clog[k]
           path == proof.path
<1>1. n \in Nat /\ DOMAIN log = 1..n /\ k \in 1..n
  BY DEF ChainInv, Receipts, IsSeq
<1>2. \A j \in 1..n : clog[j] = signed(j)
  BY <1>1 DEF Countersigned, Heads
<1>3. Len(clog) = n
  <2>1. DOMAIN clog = 1..n /\ clog = [j \in 1..n |-> clog[j]]
    BY <1>1 DEF Countersigned
  <2> HIDE DEF clog
  <2>2. QED
    BY <1>1, <2>1, ListIsSeq
<1>4. ASSUME NEW j \in 1..n
      PROVE  /\ clog[j].seq = j /\ clog[j].hash = Heads(j)
             /\ clog[j].prevHash = Front(Heads(j)) /\ clog[j].form = "object" /\ clog[j].type = "submit"
             /\ clog[j].tidy /\ clog[j].sig = Sign(Service, plain(j)) /\ Unsigned(clog[j]) = plain(j)
  <2>1. clog[j] = signed(j)
    BY <1>2
  <2> HIDE DEF clog
  <2>2. QED
    BY <2>1, SignedRecord
<1>5. RecordOK(rec)
  <2>1. rec.sig # None /\ rec.sig.alg = "Ed25519" /\ rec.sig.keyId = Service.keyId
    <3>1. rec.sig = Sign(Service, plain(k))
      BY <1>1, <1>4
    <3> HIDE DEF rec, plain
    <3>2. QED
      BY <3>1, SignatureIsThere DEF Sign
  <2>2. Service.keyId # None
    BY EvidenceAssumption
  <2> HIDE DEF clog, plain
  <2>3. rec.form = "object" /\ rec.type = "submit" /\ rec.tidy /\ rec.seq = k
    BY <1>1, <1>4
  <2>. HIDE DEF rec
  <2>4. QED
    BY <1>1, <2>1, <2>2, <2>3 DEF RecordOK
<1>6. ~KeysRefused(<<Service>>) /\ SigOK(<<Service>>, rec.sig, Unsigned(rec))
  <2>1. rec.sig = Sign(Service, plain(k)) /\ Unsigned(rec) = plain(k)
    BY <1>1, <1>4
  <2> HIDE DEF rec, plain
  <2>2. QED
    BY <2>1, ServiceKeyIsFound
<1> HIDE DEF clog, plain, signed
<1>7. /\ proof.of = Link(rec) /\ proof.head = Link(Last(clog))
      /\ path = [i \in 1..(n - k + 1) |-> Link(clog[k + i - 1])]
  BY <1>3 DEF ProofOf
<1> HIDE DEF proof
<1>8. n - k + 1 \in Nat /\ n - k + 1 >= 1
  BY <1>1
<1>9. IsSeq(path) /\ Len(path) = n - k + 1 /\ DOMAIN path = 1..(n - k + 1)
  <2>1. path = [i \in 1..(n - k + 1) |-> path[i]] /\ DOMAIN path = 1..(n - k + 1)
    BY <1>7
  <2> HIDE DEF path
  <2>2. QED
    BY <1>8, <2>1, ListIsSeq
<1>10. \A i \in 1..(n - k + 1) : path[i] = Link(clog[k + i - 1]) /\ k + i - 1 \in 1..n
  BY <1>1, <1>7
<1>11. ASSUME NEW i \in 1..(n - k + 1)
       PROVE  /\ path[i].seq = k + i - 1 /\ path[i].hash = Heads(k + i - 1)
              /\ path[i].prevHash = Front(Heads(k + i - 1))
  <2> DEFINE j == k + i - 1
  <2>1. j \in 1..n /\ path[i] = Link(clog[j])
    BY <1>10
  <2> HIDE DEF j, path
  <2>2. path[i].seq = j /\ path[i].hash = Heads(j) /\ path[i].prevHash = Front(Heads(j))
    BY <1>4, <2>1 DEF Link
  <2>3. QED
    BY <2>2 DEF j
<1>12. InclusionOK(rec, proof)
  <2>1. path # <<>>
    BY <1>8, <1>9
  <2>2. path[1].hash = rec.hash /\ path[1].seq = rec.seq /\ path[1].prevHash = rec.prevHash
    <3>1. 1 \in 1..(n - k + 1) /\ k + 1 - 1 = k
      BY <1>1, <1>8
    <3>2. QED
      BY <1>1, <1>4, <1>11, <3>1
  <2>3. ASSUME NEW i \in 1..(n - k + 1), i # 1
        PROVE  path[i].prevHash = path[i - 1].hash
    <3>1. /\ i - 1 \in 1..(n - k + 1) /\ k + i - 1 \in 1..n /\ k + i - 1 > 1
          /\ k + (i - 1) - 1 = (k + i - 1) - 1
      BY <1>1, <2>3
    <3>2. Front(Heads(k + i - 1)) = Heads((k + i - 1) - 1)
      BY <1>1, <3>1, HeadsGrow
    <3>3. path[i - 1].hash = Heads((k + i - 1) - 1)
      BY <1>11, <3>1
    <3>4. path[i].prevHash = Front(Heads(k + i - 1))
      BY <1>11
    <3>5. QED
      BY <3>2, <3>3, <3>4
  <2>4. Last(path).hash = proof.head.hash /\ Last(path).seq = proof.head.seq
    <3>1. n - k + 1 \in 1..(n - k + 1) /\ k + (n - k + 1) - 1 = n
      BY <1>1, <1>8
    <3>2. Last(path) = Link(clog[n]) /\ Last(clog) = clog[n]
      BY <1>3, <1>9, <1>10, <3>1 DEF Last
    <3>3. QED
      BY <1>7, <3>2
  <2>5. QED
    BY <1>7, <1>9, <2>1, <2>2, <2>3, <2>4 DEF InclusionOK
<1> DEFINE badRecord == Code(~RecordOK(rec), 20)
           badSig == Code(KeysRefused(<<Service>>) \/ ~SigOK(<<Service>>, rec.sig, Unsigned(rec)), 13)
           given == Given(proof)
           none == Without("unasked")
<1>13. badRecord = 0 /\ badSig = 0
  BY <1>5, <1>6 DEF Code
<1>14. /\ given.is = "proof" /\ given.proof = proof /\ none.is = "unasked"
       /\ Code(none.is = "down", 15) = 0 /\ Code(none.is = "nothing", 14) = 0
       /\ Code(given.is = "down", 15) = 0 /\ Code(given.is = "nothing", 14) = 0
       /\ Code(given.is = "proof" /\ ~InclusionOK(rec, given.proof), 14) = 0
  BY <1>12 DEF Given, Without, Code
<1>15. FirstOf(<<0, 0, 0, 0, 0>>) = 0
  BY FirstOfFive
<1> HIDE DEF given, none
<1>16. CountersignExit(rec, Service, given, none) = 0
  BY <1>13, <1>14, <1>15 DEF CountersignExit
<1>17. CountersignExit(rec, Service, none, given) = 0
  BY <1>13, <1>14, <1>15 DEF CountersignExit
<1>18. runCountersign(rec, <<Service>>, given) = 0
  <2>1. \E P : given.proof.path \in Seq(P)
    BY <1>9, <1>14 DEF IsSeq
  <2>2. IsRecord(rec)
    <3>1. rec = signed(k)
      BY <1>1, <1>2
    <3>2. PICK r : r = signed(k)
      OBVIOUS
    <3>3. IsRecord(r)
      BY <3>2, FieldsMakeRecord DEF signed, plain
    <3>4. rec = r
      BY <3>1, <3>2
    <3> HIDE DEF rec
    <3>5. QED
      BY <3>3, <3>4
  <2>3. FirstOn(rec) = rec /\ rec.tidy
    BY <1>1, <1>4 DEF FirstOn
  <2> HIDE DEF rec, clog
  <2>4. CountersignExit(rec, Service, given, none) = 0 /\ given.is # "null"
    BY <1>14, <1>16
  <2>5. QED
    BY <2>1, <2>2, <2>3, <2>4, RecordsAgree DEF none
<1>19. QED
  BY <1>16, <1>17, <1>18 DEF given, none, proof, clog

LEMMA HonestIfSound ==
  ASSUME ChainInv, SoundInv, UsualInv, NamesAreApart, NoneIsNoRecord
  PROVE  HonestCopyVerifies
<1>1. ChainHolds(log)
  <2>1. SUFFICES ASSUME NEW i \in DOMAIN log
                 PROVE  /\ log[i].form = "object" /\ Linked(log, i)
                        /\ i > 1 => log[i].chain.seq = log[i - 1].chain.seq + 1
    BY DEF ChainHolds, Linked
  <2>2. i > 1 => i - 1 \in DOMAIN log
    BY DEF ChainInv, Receipts, IsSeq
  <2>3. i \in Nat
    BY DEF ChainInv, Receipts, IsSeq
  <2>4. QED
    BY <2>2, <2>3 DEF ChainInv, OneChain, SoundInv, Sound, Genuine
<1>2. DOMAIN Countersigned(log) = DOMAIN log
  BY DEF Countersigned
<1>3. QED
  BY <1>1, <1>2, PinnedSinkPasses, StampedSinkPasses, RecordPasses DEF HonestCopyVerifies

\* A copy of a sink that nobody touched passes both verifiers and the console's
\* own check, with the pins the console prints, however long the sink, whatever
\* was written, whichever keys were used and however the stamper interfered; a
\* head that alone is anchored passes --require-head-anchor, and every head the
\* service countersigned passes with its proof; if every key has a name of its
\* own (NamesAreApart).
THEOREM HonestCopiesVerify == NamesAreApart /\ NoneIsNoRecord /\ Spec => []HonestCopyVerifies
<1> SUFFICES ASSUME NamesAreApart, NoneIsNoRecord PROVE Spec => []HonestCopyVerifies
  OBVIOUS
<1>1. ChainInv /\ SoundInv /\ UsualInv => HonestCopyVerifies
  BY HonestIfSound
<1>2. QED
  BY <1>1, InvHolds, SoundHolds, UsualHolds, PTL
-----------------------------------------------------------------------------
(* A declaration that is complete.                                         *)

\* What is signed is the history from the genesis on, and there is an end to it.
HistoryInv ==
  /\ \A h \in written : IsSeq(h) /\ Len(h) >= 1 /\ h[Len(h)].seq = Len(h)
  /\ \E bound \in Nat : \A h \in written : Len(h) <= bound

LEMMA HistoryStays ==
  ASSUME ChainInv, SoundInv, HistoryInv, [Next]_vars
  PROVE  HistoryInv'
<1>1. CASE written' = written
  BY <1>1 DEF HistoryInv
<1>2. CASE \E entry : Write(entry)
  <2>1. PICK entry : Write(entry)
    BY <1>2
  <2> DEFINE in == ReceiptInput(entry, Meta)
             r == BuildReceipt(in, log, Keys[used])
             state == NextState(log)
             digest == Append(state.prevHash, [seq |-> state.seq, body |-> Body(in)])
  <2>2. written' = written \cup {digest}
    BY <2>1 DEF Write, BuildReceipt
  <2>3. IsSeq(state.prevHash) /\ Len(state.prevHash) = Len(log) /\ state.seq = Len(log) + 1
    <3>1. CASE log = <<>>
      BY <3>1, EmptySeq DEF NextState, Genesis, IsSeq
    <3>2. CASE log # <<>>
      <4>1. Len(log) \in Nat /\ DOMAIN log = 1..Len(log) /\ Len(log) \in DOMAIN log
        BY <3>2 DEF ChainInv, Receipts, IsSeq
      <4>2. state.prevHash = Contents(log)
        BY <3>2, ChainIsHistory DEF ChainInv, Receipts, OneChain, NextState
      <4>3. DOMAIN Contents(log) = 1..Len(log) /\ Contents(log) = [i \in 1..Len(log) |-> Contents(log)[i]]
        BY <4>1 DEF Contents
      <4>4. IsSeq(Contents(log)) /\ Len(Contents(log)) = Len(log)
        BY <4>1, <4>3, ListIsSeq
      <4>5. Last(log).chain.seq = Len(log)
        BY <4>1 DEF SoundInv, Sound, Last
      <4>6. QED
        BY <3>2, <4>2, <4>4, <4>5 DEF NextState
    <3>3. QED
      BY <3>1, <3>2
  <2>4. Len(log) \in Nat
    BY DEF ChainInv, Receipts, IsSeq
  <2> HIDE DEF state
  <2>5. IsSeq(digest) /\ Len(digest) = Len(log) + 1 /\ digest[Len(log) + 1].seq = Len(log) + 1
    BY <2>3, AppendIsSeq
  <2> HIDE DEF digest
  <2>6. \A h \in written' : IsSeq(h) /\ Len(h) >= 1 /\ h[Len(h)].seq = Len(h)
    BY <2>2, <2>4, <2>5 DEF HistoryInv
  <2>7. PICK bound \in Nat : \A h \in written : Len(h) <= bound
    BY DEF HistoryInv
  <2>8. \A h \in written' : Len(h) \in Nat
    BY <2>6 DEF IsSeq
  <2> DEFINE more == bound + Len(log) + 1
  <2>9. more \in Nat /\ \A h \in written' : Len(h) <= more
    <3>1. \A h \in written : Len(h) \in Nat /\ Len(h) <= bound
      BY <2>2, <2>7, <2>8
    <3>2. QED
      BY <2>2, <2>4, <2>5, <2>7, <3>1
  <2>10. QED
    BY <2>6, <2>9 DEF HistoryInv
<1>3. QED
  BY <1>1, <1>2 DEF Next, Live, Rotate, NewSink, StampRead, StampAnswer, StampWrite, StampDies, HandOver, Fault,
                    vars, gateway

LEMMA HistoryHolds == Spec => []HistoryInv
<1>1. Init => HistoryInv
  <2>1. 0 \in Nat
    OBVIOUS
  <2>2. QED
    BY <2>1 DEF Init, HistoryInv
<1>2. ChainInv /\ SoundInv /\ HistoryInv /\ [Next]_vars => HistoryInv'
  BY HistoryStays
<1>3. QED
  BY <1>1, <1>2, InvHolds, SoundHolds, PTL DEF Spec

\* What conarium-coverage has found when it passes and calls it complete.
LEMMA CoverageFinds ==
  ASSUME NEW d, NEW stored, NEW opts, NEW keyFiles, CoverageExit(d, stored, opts, keyFiles) = 0,
         opts.seqFrom = 1, Complete(d.claim, opts)
  PROVE  /\ stored # <<>> /\ Min(Seqs(stored)) = 1 /\ Gaps(Seqs(stored)) = {}
         /\ \A i \in DOMAIN stored : ReceiptSigOK(keyFiles, stored[i])
<1> DEFINE unsigned == Code(\E i \in DOMAIN stored : ~ReceiptSigOK(keyFiles, stored[i]), 13)
           torn == Code(\E i \in DOMAIN stored : stored[i].form \in {"torn", "joined", "pretty"}, 1)
           other == Code(Inconsistent(d.claim, stored), 30)
           late == Code(opts.seqFrom # None /\ stored # <<>> /\ Min(Seqs(stored)) # opts.seqFrom, 12)
           gap == Code(~d.claim.chain.contiguous /\ ~opts.allowGaps, 12)
           keyless == Code(KeysRefused(keyFiles), 13)
           forged == Code(~SigOK(keyFiles, d.sig, d.claim), 13)
           checks == <<keyless, forged, torn, unsigned, other, late, gap>>
<1>1. FirstOf(checks) = 0
  BY DEF CoverageExit
<1>2. /\ DOMAIN checks = 1..7 /\ checks[4] = unsigned /\ checks[5] = other /\ checks[6] = late
  OBVIOUS
<1> HIDE DEF checks
<1>3. unsigned = 0 /\ other = 0 /\ late = 0
  <2>1. DOMAIN checks \in SUBSET Nat /\ 4 \in DOMAIN checks /\ 5 \in DOMAIN checks /\ 6 \in DOMAIN checks
    BY <1>2
  <2>2. checks[4] = 0 /\ checks[5] = 0 /\ checks[6] = 0
    BY <1>1, <2>1, ZeroMeansAll
  <2>3. QED
    BY <1>2, <2>2
<1>4. \A i \in DOMAIN stored : ReceiptSigOK(keyFiles, stored[i])
  BY <1>3 DEF Code
<1>5. ~Inconsistent(d.claim, stored)
  BY <1>3 DEF Code
<1>6. stored # <<>> /\ [Chain(stored, None) EXCEPT !.pinned = d.claim.chain.pinned] = d.claim.chain
  BY <1>5 DEF Inconsistent
<1>7. Min(Seqs(stored)) = 1
  <2>1. 1 # None
    BY EvidenceAssumption
  <2>2. QED
    BY <1>3, <1>6, <2>1 DEF Code
<1>8. Gaps(Seqs(stored)) = {}
  <2>1. [Chain(stored, None) EXCEPT !.pinned = d.claim.chain.pinned].contiguous
    BY <1>6 DEF Complete
  <2>2. [Chain(stored, None) EXCEPT !.pinned = d.claim.chain.pinned].contiguous = Chain(stored, None).contiguous
    BY DEF Chain
  <2>3. Chain(stored, None).contiguous = (Gaps(Seqs(stored)) \cup {} = {})
    BY DEF Chain
  <2>4. QED
    BY <2>1, <2>2, <2>3
<1>9. QED
  BY <1>4, <1>6, <1>7, <1>8

LEMMA AllOfSeq ==
  ASSUME NEW s, IsSeq(s)
  PROVE  SubSeq(s, 1, Len(s)) = s
<1>1. PICK L : s \in Seq(L)
  BY DEF IsSeq
<1> DEFINE n == Len(s)
           t == SubSeq(s, 1, n)
<1>2. n \in Nat /\ s \in [1..n -> L]
  BY <1>1
<1>3. t \in Seq(L) /\ Len(t) = n /\ \A i \in 1..n : t[i] = s[i]
  <2>1. 1 \in Int /\ n \in Int /\ \A i \in 1..n : s[i] \in L
    BY <1>2
  <2>2. /\ t \in Seq(L) /\ Len(t) = IF 1 <= n THEN n - 1 + 1 ELSE 0
        /\ \A i \in 1..(n - 1 + 1) : t[i] = s[1 + i - 1]
    BY <2>1, SubSeqProperties
  <2>3. n - 1 + 1 = n /\ (~(1 <= n) => n = 0) /\ \A i \in 1..n : 1 + i - 1 = i
    BY <1>2
  <2>4. QED
    BY <2>2, <2>3
<1> HIDE DEF t
<1>4. t \in [1..n -> L]
  BY <1>3
<1>5. t = s
  BY <1>2, <1>3, <1>4
<1>6. QED
  BY <1>5 DEF t

\* A receipt whose signature holds is of the gateway, at the place in its history
\* it says.
LEMMA SignedIsHistory ==
  ASSUME ChainInv, HistoryInv, NEW r, IsReceipt(r, written), NEW keyFiles, ReceiptSigOK(keyFiles, r)
  PROVE  /\ r.chain.hash \in written /\ IsSeq(r.chain.hash) /\ r.chain.hash # <<>>
         /\ r.chain.seq = Len(r.chain.hash) /\ Len(r.chain.hash) \in Nat \ {0}
<1> DEFINE h == r.chain.hash
           last == [seq |-> r.chain.seq, body |-> r.body]
<1>1. r.sig # None /\ h = Append(r.chain.prevHash, last) /\ SigOK(keyFiles, [r.sig EXCEPT !.canonical = TRUE], h)
  BY DEF ReceiptSigOK, Digest
<1>2. r.sig.over = h
  <2>1. r.sig = [alg |-> r.sig.alg, keyId |-> r.sig.keyId, by |-> r.sig.by, over |-> r.sig.over,
                 canonical |-> r.sig.canonical]
    BY <1>1 DEF IsReceipt
  <2>2. [r.sig EXCEPT !.canonical = TRUE].over = r.sig.over
    BY <2>1
  <2>3. QED
    BY <1>1, <2>2 DEF SigOK
<1>3. /\ IsSeq(h) /\ Len(h) = Len(r.chain.prevHash) + 1 /\ h[Len(r.chain.prevHash) + 1] = last
      /\ Len(r.chain.prevHash) \in Nat
  <2> DEFINE prev == r.chain.prevHash
  <2>1. IsSeq(prev)
    BY DEF IsReceipt
  <2>2. h = Append(prev, last)
    BY <1>1
  <2> HIDE DEF prev, last, h
  <2>3. IsSeq(h) /\ Len(h) = Len(prev) + 1 /\ h[Len(prev) + 1] = last
    BY <2>1, <2>2, AppendIsSeq
  <2>4. Len(prev) \in Nat
    BY <2>1 DEF IsSeq
  <2>5. QED
    BY <2>3, <2>4 DEF prev
<1>4. h # <<>>
  <2>1. h = <<>> => Len(h) = 0
    OBVIOUS
  <2>2. QED
    BY <1>3, <2>1
<1>5. h \in written
  BY <1>1, <1>2, <1>4 DEF IsReceipt, Genesis
<1>6. h[Len(h)].seq = Len(h)
  BY <1>5 DEF HistoryInv
<1>7. last.seq = r.chain.seq
  OBVIOUS
<1> HIDE DEF h, last
<1>8. r.chain.seq = Len(h)
  BY <1>3, <1>6, <1>7
<1>9. QED
  BY <1>3, <1>4, <1>5, <1>8 DEF h

LEMMA CompleteIfSigned ==
  ASSUME ChainInv, HistoryInv
  PROVE  CompleteMeansAll
<1> SUFFICES ASSUME copy # None, NEW declared, NEW opts \in [seqFrom : {1}, allowGaps : BOOLEAN],
                    CoverageExit(declared, copy.file, opts, Keys) = 0, Complete(declared.claim, opts)
             PROVE  LeavesNoneOut(copy.file)
  BY DEF CompleteMeansAll
<1> DEFINE stored == copy.file
           hashes == {stored[i].chain.hash : i \in DOMAIN stored}
           longest == CHOOSE h \in hashes : \A g \in hashes : Len(g) <= Len(h)
           seqs == Seqs(stored)
<1>1. /\ stored # <<>> /\ Min(seqs) = 1 /\ Gaps(seqs) = {}
      /\ \A i \in DOMAIN stored : ReceiptSigOK(Keys, stored[i])
  <2>1. opts.seqFrom = 1
    OBVIOUS
  <2>2. QED
    BY <2>1, CoverageFinds
<1>2. ASSUME NEW i \in DOMAIN stored
      PROVE  /\ stored[i].chain.hash \in written /\ IsSeq(stored[i].chain.hash)
             /\ stored[i].chain.seq = Len(stored[i].chain.hash) /\ Len(stored[i].chain.hash) \in Nat \ {0}
  <2>1. IsReceipt(stored[i], written)
    BY DEF ChainInv, Receipts
  <2>2. QED
    BY <1>1, <2>1, SignedIsHistory
<1>3. PICK bound \in Nat : \A h \in written : Len(h) <= bound
  BY DEF HistoryInv
<1>4. seqs \in SUBSET (1..bound) /\ seqs # {}
  <2>1. \A i \in DOMAIN stored : stored[i].chain.seq \in 1..bound
    BY <1>2, <1>3
  <2>2. 1 \in DOMAIN stored
    BY <1>1 DEF ChainInv, Receipts, IsSeq
  <2>3. QED
    BY <2>1, <2>2 DEF Seqs
<1>5. PICK m \in seqs : \A n \in seqs : n <= m
  BY <1>4, GreatestIndex
<1>6. Max(seqs) \in seqs /\ \A n \in seqs : Max(seqs) >= n
  <2>1. \A n \in seqs : m >= n
    BY <1>4, <1>5
  <2>2. QED
    BY <1>5, <2>1 DEF Max
<1>7. PICK top \in DOMAIN stored : stored[top].chain.seq = Max(seqs)
  BY <1>6 DEF Seqs
<1>8. \A i \in DOMAIN stored : stored[i].chain.seq \in seqs
  BY DEF Seqs
<1>9. \A g \in hashes : Len(g) <= Len(stored[top].chain.hash)
  BY <1>2, <1>6, <1>7, <1>8
<1>10. longest \in hashes /\ \A g \in hashes : Len(g) <= Len(longest)
  BY <1>9
<1> HIDE DEF longest
<1>11. \A h \in hashes : IsSeq(h) /\ Len(h) \in Nat \ {0}
  BY <1>2
<1>12. Len(longest) = Max(seqs)
  <2>1. Len(longest) <= Len(stored[top].chain.hash) /\ Len(stored[top].chain.hash) <= Len(longest)
    BY <1>9, <1>10
  <2>2. Len(stored[top].chain.hash) = Max(seqs) /\ Len(stored[top].chain.hash) \in Nat /\ Len(longest) \in Nat
    BY <1>2, <1>7, <1>10, <1>11
  <2>3. QED
    BY <2>1, <2>2
<1>13. 1..Len(longest) \subseteq seqs
  BY <1>1, <1>12 DEF Gaps
<1>14. ASSUME \A h \in hashes : IsPrefix(h, longest)
       PROVE  \A h \in hashes : h = SubSeq(longest, 1, Len(h)) /\ Len(h) \in 1..Len(longest)
  BY <1>10, <1>11, <1>14, AllOfSeq DEF IsPrefix
<1>15. ASSUME \A h \in hashes : IsPrefix(h, longest), NEW n \in 1..Len(longest)
       PROVE  SubSeq(longest, 1, n) \in hashes
  <2>1. PICK i \in DOMAIN stored : stored[i].chain.seq = n
    BY <1>13 DEF Seqs
  <2>2. stored[i].chain.hash \in hashes /\ Len(stored[i].chain.hash) = n
    BY <1>2, <2>1
  <2>3. QED
    BY <1>14, <1>15, <2>2
<1>16. (\A h \in hashes : IsPrefix(h, longest)) => hashes = {SubSeq(longest, 1, n) : n \in 1..Len(longest)}
  BY <1>14, <1>15
<1>17. QED
  BY <1>16 DEF longest, LeavesNoneOut

\* A declaration that conarium-coverage calls complete, for a window that starts
\* at 1, leaves no receipt out: whatever happened to the file, if its receipts are
\* of one chain it has every one of them up to its last.
THEOREM CompleteLeavesNoneOut == Spec => []CompleteMeansAll
<1>1. ChainInv /\ HistoryInv => CompleteMeansAll
  BY CompleteIfSigned
<1>2. QED
  BY <1>1, InvHolds, HistoryHolds, PTL
=============================================================================
