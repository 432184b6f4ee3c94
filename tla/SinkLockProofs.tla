--------------------------- MODULE SinkLockProofs ---------------------------
(***************************************************************************)
(* Proofs about SinkLock, for any number of processes, pids and crashes.   *)
(***************************************************************************)
EXTENDS SinkLock, TLAPS

\* A body, an age, a name: the lock file keeps its type.
LEMMA FileType ==
  ASSUME NEW p \in Proc, NEW n \in Pid
  PROVE  [by |-> p, pid |-> n, body |-> "empty", old |-> FALSE] \in LockFile
BY DEF LockFile

\* The first state is of the type.
LEMMA InitTypes == Init => TypeOK
<1> SUFFICES ASSUME Init PROVE TypeOK
  OBVIOUS
<1>1. pid \in [Proc -> Pid]
  BY DEF Init
<1>2. attempt \in [Proc -> 0..1] /\ file \in LockFile \cup {NoFile}
  BY DEF Init
<1>3. given \in BOOLEAN /\ crashes \in Nat
  BY DEF Init
<1>4. QED
  BY <1>1, <1>2, <1>3 DEF Init, TypeOK

\* Every step keeps it.
LEMMA StepTypes == TypeOK /\ [Next]_vars => TypeOK'
<1> SUFFICES ASSUME TypeOK, [Next]_vars PROVE TypeOK'
  OBVIOUS
<1>1. ASSUME NEW p \in Proc, Create(p) PROVE TypeOK'
  <2>1. pid[p] \in Pid
    BY DEF TypeOK
  <2>2. QED
    BY <1>1, <2>1, FileType DEF Create, Goto, TypeOK
<1>2. ASSUME NEW p \in Proc, WriteBody(p) PROVE TypeOK'
  <2>1. file # NoFile => [file EXCEPT !.body = "full"] \in LockFile
    BY DEF TypeOK, LockFile
  <2>2. QED
    BY <1>2, <2>1 DEF WriteBody, Goto, TypeOK
<1>3. ASSUME NEW p \in Proc, ReadOwner(p) PROVE TypeOK'
  BY <1>3 DEF ReadOwner, Throw, Goto, TypeOK
<1>4. ASSUME NEW p \in Proc, CheckAge(p) PROVE TypeOK'
  BY <1>4 DEF CheckAge, Throw, Goto, TypeOK
<1>5. ASSUME NEW p \in Proc, Steal(p) PROVE TypeOK'
  BY <1>5 DEF Steal, Throw, Goto, TypeOK
<1>6. ASSUME NEW p \in Proc, Want(p) \/ Retry(p) \/ Release(p) PROVE TypeOK'
  <2>1. CASE Want(p)
    BY <2>1 DEF Want, Goto, TypeOK
  <2>2. CASE Retry(p)
    BY <2>2 DEF Retry, Goto, TypeOK
  <2>3. CASE Release(p)
    BY <2>3 DEF Release, Goto, TypeOK
  <2>4. QED
    BY <1>6, <2>1, <2>2, <2>3
<1>7. ASSUME NEW p \in Proc, Crash(p) \/ Restart(p) PROVE TypeOK'
  BY <1>7 DEF Crash, Restart, Goto, TypeOK
<1>8. ASSUME Age PROVE TypeOK'
  <2>1. [file EXCEPT !.old = TRUE] \in LockFile
    BY <1>8 DEF Age, TypeOK, LockFile
  <2>2. QED
    BY <1>8, <2>1 DEF Age, TypeOK
<1>9. CASE UNCHANGED vars
  BY <1>9 DEF vars, TypeOK
<1>10. QED
  BY <1>1, <1>2, <1>3, <1>4, <1>5, <1>6, <1>7, <1>8, <1>9 DEF Next, Step
-----------------------------------------------------------------------------
(* Who has the lock, as long as nobody was killed and nobody gave it back. *)

Started == crashes = 0 /\ ~given

\* All programs are the ones that were there at the start.
AllRun ==
  /\ \A p \in Proc : pc[p] \notin {"down", "unlink"}
  /\ \A p, q \in Proc : pid[p] = pid[q] => p = q

\* There is no file: nobody has tried.
Untried == \A p \in Proc : pc[p] \in {"idle", "create"}

\* There is one: the program that created it is writing it or holds it, no other
\* does, and while one asks for the age of an empty lock it is young.
Taken ==
  /\ file.by \in Proc /\ file.pid = pid[file.by]
  /\ pc[file.by] = IF file.body = "empty" THEN "body" ELSE "held"
  /\ \A p \in Proc : pc[p] \in {"body", "held"} => p = file.by
  /\ (file.body = "empty" \/ \E p \in Proc : pc[p] = "age") => ~file.old

BootInv == Started => AllRun /\ (IF file = NoFile THEN Untried ELSE Taken)

\* Every step keeps it.
LEMMA BootStep ==
  ASSUME TypeOK, BootInv, Started', [Next]_vars
  PROVE  BootInv'
<1>1. Started
  BY DEF Next, Started, Want, Retry, Step, Create, WriteBody, ReadOwner, CheckAge, Steal, Release,
         Crash, Restart, Age, vars, TypeOK
<1>2. AllRun /\ (file = NoFile => Untried) /\ (file # NoFile => Taken /\ file \in LockFile)
  BY <1>1 DEF BootInv, TypeOK
<1>3. \A p \in Proc : pid[p] \in LivePids /\ pid[p] \in Pid /\ pid[p] # NoFile
  BY <1>2, SinkLockAssumption DEF AllRun, LivePids, Running, TypeOK
<1> DEFINE Good == AllRun' /\ (IF file' = NoFile THEN Untried' ELSE Taken')
<1>4. ASSUME NEW p \in Proc, Create(p) PROVE Good
  <2>1. CASE file = NoFile
    <3>1. /\ file' = [by |-> p, pid |-> pid[p], body |-> "empty", old |-> FALSE]
          /\ pc' = [pc EXCEPT ![p] = "body"] /\ pid' = pid
      BY <1>4, <2>1 DEF Create, Goto
    <3>2. file' \in LockFile /\ file' # NoFile
      <4>1. PICK f \in LockFile : f = file'
        BY <1>3, <3>1, FileType
      <4>2. QED
        BY <3>1, <4>1, SinkLockAssumption DEF LockFile
    <3>3. \A q \in Proc \ {p} : pc'[q] \in {"idle", "create"} /\ pc'[q] = pc[q]
      BY <1>2, <2>1, <3>1 DEF Untried, TypeOK
    <3>4. pc'[p] = "body"
      BY <3>1 DEF TypeOK
    <3>5. Taken'
      BY <3>1, <3>3, <3>4 DEF Taken
    <3>6. AllRun'
      BY <1>2, <3>1, <3>3, <3>4 DEF AllRun
    <3>7. QED
      BY <3>2, <3>5, <3>6
  <2>2. CASE file # NoFile
    BY <1>2, <1>4, <2>2 DEF Create, Goto, Taken, AllRun, TypeOK
  <2>3. QED
    BY <2>1, <2>2
<1>5. ASSUME NEW p \in Proc, WriteBody(p) PROVE Good
  <2>1. file # NoFile /\ file.by = p
    BY <1>2, <1>5 DEF WriteBody, Untried, Taken
  <2>2. /\ file' = [file EXCEPT !.body = "full"] /\ pc' = [pc EXCEPT ![p] = "held"] /\ pid' = pid
    BY <1>5, <2>1 DEF WriteBody, Goto
  <2>3. file' \in LockFile /\ file'.by = p /\ file'.pid = file.pid /\ file'.body = "full" /\ file'.old = file.old
    BY <1>2, <2>1, <2>2 DEF LockFile
  <2>4. file.body = "empty" /\ ~file.old
    BY <1>2, <1>5, <2>1 DEF Taken, WriteBody
  <2>5. pc'[p] = "held" /\ \A q \in Proc \ {p} : pc'[q] = pc[q]
    BY <2>2 DEF TypeOK
  <2>6. Taken'
    BY <1>2, <2>1, <2>2, <2>3, <2>4, <2>5 DEF Taken
  <2>7. AllRun'
    BY <1>2, <2>2, <2>5 DEF AllRun
  <2>8. QED
    BY <2>3, <2>6, <2>7, SinkLockAssumption
<1>6. ASSUME NEW p \in Proc, ReadOwner(p) PROVE Good
  <2>1. file # NoFile /\ file' = file /\ pid' = pid
    BY <1>2, <1>6 DEF ReadOwner, Untried
  <2>2. file.by # p /\ Owner \notin Pid \ LivePids /\ Owner # pid[p]
    <3>1. file.by # p
      BY <1>2, <1>6, <2>1 DEF Taken, ReadOwner
    <3>2. file.pid = pid[file.by] /\ file.by \in Proc
      BY <1>2, <2>1 DEF Taken
    <3>3. pid[file.by] # pid[p]
      BY <1>2, <3>1, <3>2 DEF AllRun
    <3>4. QED
      BY <1>3, <2>1, <3>1, <3>2, <3>3, SinkLockAssumption DEF Owner
  <2>3. \/ Owner = NoFile /\ pc' = [pc EXCEPT ![p] = "age"]
        \/ \E l \in {"create", "refused"} : pc' = [pc EXCEPT ![p] = l]
    BY <1>6, <2>2 DEF ReadOwner, Throw, Goto
  <2>4. Owner = NoFile => file.body = "empty"
    BY <1>2, <1>3, <2>1 DEF Owner, Taken
  <2>5. \A q \in Proc \ {p} : pc'[q] = pc[q]
    BY <2>3 DEF TypeOK
  <2>6. pc'[p] \in {"age", "create", "refused"} /\ (pc'[p] = "age" => file.body = "empty")
    BY <2>3, <2>4 DEF TypeOK
  <2>7. Taken'
    BY <1>2, <2>1, <2>2, <2>5, <2>6 DEF Taken
  <2>8. AllRun'
    BY <1>2, <2>1, <2>5, <2>6 DEF AllRun
  <2>9. QED
    BY <2>1, <2>7, <2>8
<1>7. ASSUME NEW p \in Proc, CheckAge(p) PROVE Good
  <2>1. file # NoFile /\ file' = file /\ pid' = pid /\ ~file.old /\ file.by # p
    BY <1>2, <1>7 DEF CheckAge, Untried, Taken
  <2>2. \E l \in {"create", "refused"} : pc' = [pc EXCEPT ![p] = l]
    BY <1>7, <2>1 DEF CheckAge, TooYoung, Throw, Goto
  <2>3. pc'[p] \in {"create", "refused"} /\ \A q \in Proc \ {p} : pc'[q] = pc[q]
    BY <2>2 DEF TypeOK
  <2>4. QED
    BY <1>2, <2>1, <2>3 DEF Taken, AllRun
<1>8. ASSUME NEW p \in Proc, Steal(p) PROVE Good
  BY <1>2, <1>8 DEF Steal, AllRun
<1>9. ASSUME NEW p \in Proc, Want(p) \/ Retry(p) PROVE Good
  <2>1. file' = file /\ pid' = pid /\ pc[p] \in {"idle", "refused"} /\ pc' = [pc EXCEPT ![p] = "create"]
    BY <1>9 DEF Want, Retry, Goto
  <2>2. pc'[p] = "create" /\ \A q \in Proc \ {p} : pc'[q] = pc[q]
    BY <2>1 DEF TypeOK
  <2>3. QED
    BY <1>2, <2>1, <2>2 DEF Taken, Untried, AllRun
<1>10. ASSUME NEW p \in Proc, Release(p) PROVE Good
  BY <1>10 DEF Release, Started
<1>11. ASSUME NEW p \in Proc, Crash(p) PROVE Good
  BY <1>11, <1>1 DEF Crash, Started
<1>12. ASSUME NEW p \in Proc, Restart(p) PROVE Good
  BY <1>12, <1>2 DEF Restart, AllRun
<1>13. ASSUME Age PROVE Good
  <2>1. /\ file # NoFile /\ pc' = pc /\ pid' = pid /\ file' = [file EXCEPT !.old = TRUE]
        /\ pc[file.by] # "body" /\ \A p \in Proc : pc[p] # "age"
    BY <1>13 DEF Age
  <2>2. file' \in LockFile /\ file'.by = file.by /\ file'.pid = file.pid /\ file'.body = file.body
    BY <1>2, <2>1 DEF LockFile
  <2>3. file' # NoFile
    BY <1>2, <2>1, <2>2, SinkLockAssumption DEF LockFile
  <2>4. QED
    BY <1>2, <2>1, <2>2, <2>3 DEF Taken, AllRun
<1>14. ASSUME UNCHANGED vars PROVE Good
  BY <1>2, <1>14 DEF vars, Taken, Untried, AllRun
<1>15. Good
  BY <1>4, <1>5, <1>6, <1>7, <1>8, <1>9, <1>10, <1>11, <1>12, <1>13, <1>14 DEF Next, Step
<1>16. QED
  BY <1>15 DEF BootInv
-----------------------------------------------------------------------------
(* Theorems.                                                               *)

\* The lock file, the programs and their loop counters keep their type: no
\* program makes a third attempt.
THEOREM TypeCorrect == Spec => []TypeOK
  BY InitTypes, StepTypes, PTL DEF Spec

\* It holds in every state.
LEMMA BootInvariant == Spec => []BootInv
<1>1. Init => BootInv
  BY DEF Init, BootInv, Started, AllRun, Untried
<1>2. TypeOK /\ BootInv /\ [Next]_vars => BootInv'
  BY BootStep DEF BootInv
<1>3. QED
  BY <1>1, <1>2, TypeCorrect, PTL DEF Spec

\* However many gateways start together on one sink, and however their system
\* calls interleave, at most one of them gets it.
THEOREM OneStarterGetsTheSink == Spec => []BootExclusion
<1>1. BootInv => BootExclusion
  BY DEF BootInv, BootExclusion, MutualExclusion, Started, Untried, Taken
<1>2. QED
  BY <1>1, BootInvariant, PTL
=============================================================================
