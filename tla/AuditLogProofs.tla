--------------------------- MODULE AuditLogProofs ---------------------------
(***************************************************************************)
(* Proofs about AuditLog, for any number of processes, instances, paths,   *)
(* keys, failed appends and restarts.                                      *)
(***************************************************************************)
EXTENDS AuditLog, FiniteSetTheorems, TLAPS

\* An instance's paths are paths (writeLockSinks drops the absent one).
LEMMA PathsOf ==
  ASSUME NEW i \in Inst
  PROVE  /\ SinkOf[i] \in Path /\ SinkOf[i] \in Nat \ {NoPath}
         /\ ReceiptOf[i] \in Nat
         /\ ReceiptOf[i] # NoPath => ReceiptOf[i] \in Path
         /\ WriteSinks(i) \subseteq Path
         /\ SinkOf[i] \in WriteSinks(i)
         /\ ReceiptOf[i] # NoPath => ReceiptOf[i] \in WriteSinks(i)
  BY AuditLogAssumption DEF Path, WriteSinks, NoPath

\* A write has at most two sinks, so the least and the greatest of some of
\* them exist: the sinks acquireWriteLocks takes next and releases next.
LEMMA LeastSink ==
  ASSUME NEW i \in Inst, NEW S \in SUBSET WriteSinks(i), S # {}
  PROVE  /\ (CHOOSE x \in S : \A y \in S : x <= y) \in S
         /\ (CHOOSE x \in S : \A y \in S : y <= x) \in S
<1>1. S \subseteq {SinkOf[i], ReceiptOf[i]} /\ SinkOf[i] \in Nat /\ ReceiptOf[i] \in Nat
  BY PathsOf DEF WriteSinks
<1>2. \E x \in S : \A y \in S : x <= y
  BY <1>1
<1>3. \E x \in S : \A y \in S : y <= x
  BY <1>1
<1>4. QED
  BY <1>2, <1>3

\* The sink to be locked next is one that still has to be locked.
LEMMA NextSinkPending ==
  ASSUME TypeOK, NEW p \in Proc, Pending(p) # {}
  PROVE  NextSink(p) \in Pending(p) /\ NextSink(p) \in Path
<1>1. op[p].inst \in Inst
  BY DEF TypeOK, OpState
<1>2. Pending(p) \in SUBSET WriteSinks(op[p].inst)
  BY DEF Pending
<1>3. NextSink(p) \in Pending(p)
  BY <1>1, <1>2, LeastSink DEF NextSink
<1>4. QED
  BY <1>1, <1>2, <1>3, PathsOf

\* The sink unlocked next is one whose lock the call has.
LEMMA LastSinkTaken ==
  ASSUME TypeOK, CallsWellFormed, NEW p \in Proc, op[p].got # {}
  PROVE  LastSink(p) \in op[p].got /\ LastSink(p) \in Path
<1>1. op[p].inst \in Inst /\ op[p].got \in SUBSET Path
  BY DEF TypeOK, OpState
<1>2. op[p].got \in SUBSET WriteSinks(op[p].inst)
  BY DEF CallsWellFormed
<1>3. LastSink(p) \in op[p].got
  BY <1>1, <1>2, LeastSink DEF LastSink
<1>4. QED
  BY <1>1, <1>3
-----------------------------------------------------------------------------
(* Types.                                                                  *)

\* The resting values of the state are of its types.
LEMMA ConstTypes ==
  /\ Idle \in OpState
  /\ Idle.pc = "idle" /\ Idle.got = {} /\ Idle.inst \in Inst
  /\ Closed \in InstState
  /\ Free \in LockState
  BY AuditLogAssumption DEF Idle, OpState, Closed, InstState, Free, LockState, Genesis

\* Taking and releasing a lock keeps its shape.
LEMMA LockTypes ==
  ASSUME NEW l \in LockState
  PROVE  /\ Released(l) \in LockState
         /\ \A p \in Proc : Taken(l, p) \in LockState
<1>1. ASSUME ~(l.count <= 1) PROVE [l EXCEPT !.count = l.count - 1] \in LockState
  <2>1. l.count - 1 \in Nat
    BY <1>1 DEF LockState
  <2>2. QED
    BY <2>1 DEF LockState
<1>2. Released(l) \in LockState
  BY <1>1, ConstTypes DEF Released
<1>3. ASSUME NEW p \in Proc PROVE Taken(l, p) \in LockState
  BY <1>3 DEF Taken, LockState
<1>4. QED
  BY <1>2, <1>3

\* Fields an instance's memory can be given one at a time.
LEMMA MemoryTypes ==
  ASSUME NEW m \in InstState, NEW h \in Nat, NEW n \in Nat
  PROVE  /\ [m EXCEPT !.last = h, !.size = n] \in InstState
         /\ [m EXCEPT !.rlast = h, !.rseq = n] \in InstState
         /\ m.size \in Nat /\ m.rseq \in Nat /\ m.last \in Nat /\ m.rlast \in Nat
  BY DEF InstState

\* The tail of a sink is a hash and, when there is one, a line.
LEMMA TailTypes ==
  ASSUME NEW f \in Seq(Chunk)
  PROVE  /\ TailHash(f) \in Nat
         /\ f # <<>> => f[Len(f)] \in Chunk
<1>1. f # <<>> => Len(f) \in 1..Len(f)
  OBVIOUS
<1>2. f # <<>> => f[Len(f)] \in Chunk
  BY <1>1
<1>3. \A l \in Chunk : l.hash \in Nat
  BY DEF Chunk
<1>4. QED
  BY <1>2, <1>3 DEF TailHash, Genesis

\* An append leaves the file alone or adds one line, of which only the kind may differ.
LEMMA WrittenType ==
  ASSUME NEW f \in Seq(Chunk), NEW line \in Chunk, NEW out \in {"ok"} \cup FaultKinds
  PROVE  /\ Written(f, line, out) \in Seq(Chunk)
         /\ \/ Written(f, line, out) = f /\ out # "ok"
            \/ \E l \in Chunk : /\ Written(f, line, out) = Append(f, l)
                               /\ l = [line EXCEPT !.kind = out]
                               /\ l.hash = line.hash /\ l.prev = line.prev /\ l.seq = line.seq
<1> DEFINE l == [line EXCEPT !.kind = out]
<1>1. CASE out = "none"
  BY <1>1 DEF Written
<1>2. CASE out # "none"
  <2>1. l \in Chunk /\ l.hash = line.hash /\ l.prev = line.prev /\ l.seq = line.seq
    BY <1>2 DEF Chunk, FaultKinds
  <2>2. Written(f, line, out) = Append(f, l)
    BY <1>2 DEF Written
  <2>3. Append(f, l) \in Seq(Chunk)
    BY <2>1
  <2>4. QED
    BY <2>1, <2>2, <2>3
<1>3. QED
  BY <1>1, <1>2

\* An append succeeds or fails in one of the ways it can.
LEMMA OutcomeKinds == Outcomes \subseteq {"ok"} \cup FaultKinds
  BY AuditLogAssumption DEF Outcomes

\* A call that throws is a call still.
LEMMA RefusedType ==
  ASSUME NEW o \in OpState
  PROVE  Refused(o) \in OpState
  BY ConstTypes DEF Refused, OpState

\* The receipt tail an instance works from is a hash and a number.
LEMMA ReceiptTailType ==
  ASSUME TypeOK, NEW i \in Inst, ReceiptOf[i] # NoPath
  PROVE  ReceiptTail(i) \in [hash: Nat, seq: Nat]
<1>1. files[ReceiptOf[i]] \in Seq(Chunk) /\ inst[i] \in InstState
  BY PathsOf DEF TypeOK
<1>2. QED
  BY <1>1, TailTypes DEF ReceiptTail, InstState, Chunk

\* The audit line and the receipt of a call are lines.
LEMMA LineTypes ==
  ASSUME TypeOK, NEW i \in Inst, NEW h \in Nat
  PROVE  AuditLine(i) \in Chunk /\ ReceiptLine(i, h) \in Chunk
<1>1. keys[ProcOf[i]] \in KeyEnv /\ inst[i] \in InstState /\ fresh \in Nat
  BY AuditLogAssumption DEF TypeOK
<1>2. QED
  BY <1>1 DEF AuditLine, ReceiptLine, Chunk, KeyEnv, InstState

\* The system starts well-typed, with no call in progress.
LEMMA InitTypes == Init => TypeOK /\ CallsWellFormed
<1> SUFFICES ASSUME Init PROVE TypeOK /\ CallsWellFormed
  OBVIOUS
<1>1. TypeOK
  BY ConstTypes, AuditLogAssumption DEF Init, TypeOK
<1>2. CallsWellFormed
  BY ConstTypes DEF Init, CallsWellFormed
<1>3. QED
  BY <1>1, <1>2

\* Every step keeps the state well-typed.
LEMMA StepTypes ==
  ASSUME TypeOK, CallsWellFormed, [Next]_vars
  PROVE  TypeOK'
<1> USE ConstTypes
<1>0. \A p \in Proc : op[p] \in OpState /\ op[p].inst \in Inst
  BY DEF TypeOK, OpState
<1>1. ASSUME NEW p \in Proc, Start(p) PROVE TypeOK'
  <2>1. keys' \in [Proc -> KeyEnv]
    BY <1>1, AuditLogAssumption DEF Start, TypeOK
  <2>2. QED
    BY <1>1, <2>1 DEF Start, TypeOK
<1>2. ASSUME NEW p \in Proc, Stop(p) PROVE TypeOK'
  BY <1>2 DEF Stop, TypeOK
<1>3. ASSUME NEW i \in Inst, Open(i) PROVE TypeOK'
  <2>1. lock' \in [Path -> LockState]
    BY <1>3, PathsOf, LockTypes, AuditLogAssumption DEF Open, TypeOK
  <2>2. Opened(i) \in InstState
    <3>1. files[SinkOf[i]] \in Seq(Chunk)
      BY PathsOf DEF TypeOK
    <3>2. TailHash(files[SinkOf[i]]) \in Nat /\ Len(files[SinkOf[i]]) \in Nat
      BY <3>1, TailTypes
    <3>3. ReceiptOf[i] # NoPath => ReceiptTail(i) \in [hash: Nat, seq: Nat]
      BY ReceiptTailType
    <3>4. QED
      BY <3>2, <3>3 DEF Opened, InstState, Genesis
  <2>3. inst' \in [Inst -> InstState]
    <3>1. \A st \in {"rejected", "failed"} : [inst[i] EXCEPT !.status = st] \in InstState
      BY DEF TypeOK, InstState
    <3>2. QED
      BY <1>3, <2>2, <3>1 DEF Open, TypeOK
  <2>4. QED
    BY <1>3, <2>1, <2>3 DEF Open, TypeOK
<1>4. ASSUME NEW i \in Inst, Close(i) PROVE TypeOK'
  BY <1>4, PathsOf, LockTypes DEF Close, TypeOK
<1>5. ASSUME NEW i \in Inst, Log(i) PROVE TypeOK'
  <2>1. [Idle EXCEPT !.pc = "lock", !.inst = i] \in OpState
    BY DEF OpState
  <2>2. QED
    BY <1>5, <2>1 DEF Log, TypeOK
<1>6. ASSUME NEW p \in Proc, Acquire(p) PROVE TypeOK'
  <2>1. NextSink(p) \in Path
    BY <1>6, NextSinkPending DEF Acquire
  <2>2. [op[p] EXCEPT !.got = @ \cup {NextSink(p)}] \in OpState
    BY <1>0, <2>1 DEF OpState
  <2>3. QED
    BY <1>6, <2>1, <2>2, LockTypes DEF Acquire, TypeOK
<1>7. ASSUME NEW p \in Proc, WaitTimesOut(p) PROVE TypeOK'
  BY <1>0, <1>7, RefusedType DEF WaitTimesOut, TypeOK
<1>8. ASSUME NEW p \in Proc, Sync(p) PROVE TypeOK'
  <2> DEFINE i == op[p].inst
  <2>1. Synced(i) \in InstState
    <3>1. files[SinkOf[i]] \in Seq(Chunk) /\ inst[i] \in InstState
      BY <1>0, PathsOf DEF TypeOK
    <3>2. QED
      <4>1. TailHash(files[SinkOf[i]]) \in Nat /\ Len(files[SinkOf[i]]) \in Nat
        BY <3>1, TailTypes
      <4>2. QED
        BY <3>1, <4>1, MemoryTypes DEF Synced
  <2>2. [op[p] EXCEPT !.pc = "audit"] \in OpState
    BY <1>0 DEF OpState
  <2>3. QED
    <3>1. inst' \in [Inst -> InstState]
      BY <1>0, <1>8, <2>1 DEF Sync, TypeOK
    <3>2. op' \in [Proc -> OpState]
      BY <1>0, <1>8, <2>2, RefusedType DEF Sync, TypeOK
    <3>3. QED
      BY <1>8, <3>1, <3>2 DEF Sync, TypeOK
<1>9. ASSUME NEW p \in Proc, AppendAudit(p) PROVE TypeOK'
  <2> DEFINE i == op[p].inst
  <2>1. PICK out \in Outcomes :
          /\ files' = [files EXCEPT ![SinkOf[i]] = Written(@, AuditLine(i), out)]
          /\ inst' = [inst EXCEPT ![i] = AfterAudit(i, out)]
          /\ Counted(out)
          /\ op' = [op EXCEPT ![p] =
               IF Passed(i, out)
                 THEN [@ EXCEPT !.pc = IF ReceiptOf[i] = NoPath THEN "release" ELSE "load",
                                !.hash = fresh, !.ok = TRUE]
                 ELSE Refused(@)]
    BY <1>9 DEF AppendAudit
  <2>2. files[SinkOf[i]] \in Seq(Chunk) /\ inst[i] \in InstState /\ fresh \in Nat
    BY <1>0, PathsOf DEF TypeOK
  <2>3. Written(files[SinkOf[i]], AuditLine(i), out) \in Seq(Chunk)
    BY <1>0, <2>1, <2>2, WrittenType, LineTypes, OutcomeKinds
  <2>4. AfterAudit(i, out) \in InstState
    <3>1. Len(files[SinkOf[i]]) + 1 \in Nat
      BY <2>2
    <3>2. QED
      BY <2>2, <3>1, MemoryTypes DEF AfterAudit
  <2>5. [op[p] EXCEPT !.pc = IF ReceiptOf[i] = NoPath THEN "release" ELSE "load",
                      !.hash = fresh, !.ok = TRUE] \in OpState
    BY <1>0, <2>2 DEF OpState
  <2>6. files' \in [Path -> Seq(Chunk)] /\ inst' \in [Inst -> InstState]
    BY <2>1, <2>3, <2>4 DEF TypeOK
  <2>7. op' \in [Proc -> OpState]
    BY <1>0, <2>1, <2>5, RefusedType DEF TypeOK
  <2>8. faults' \in Nat /\ fresh' \in Nat
    BY <1>9, <2>1 DEF AppendAudit, Counted, TypeOK
  <2>9. QED
    BY <1>9, <2>6, <2>7, <2>8 DEF AppendAudit, TypeOK
<1>10. ASSUME NEW p \in Proc, LoadReceipts(p) PROVE TypeOK'
  <2> DEFINE i == op[p].inst
  <2>1. ReceiptTail(i) \in [hash: Nat, seq: Nat]
    BY <1>0, <1>10, ReceiptTailType DEF LoadReceipts, CallsWellFormed
  <2>2. [inst[i] EXCEPT !.rlast = ReceiptTail(i).hash, !.rseq = ReceiptTail(i).seq] \in InstState
    BY <1>0, <2>1 DEF TypeOK, InstState
  <2>3. [op[p] EXCEPT !.pc = "receipt"] \in OpState
    BY <1>0 DEF OpState
  <2>4. QED
    <3>1. inst' \in [Inst -> InstState]
      BY <1>0, <1>10, <2>2 DEF LoadReceipts, TypeOK
    <3>2. op' \in [Proc -> OpState]
      BY <1>0, <1>10, <2>3, RefusedType DEF LoadReceipts, TypeOK
    <3>3. QED
      BY <1>10, <3>1, <3>2 DEF LoadReceipts, TypeOK
<1>11. ASSUME NEW p \in Proc, WriteReceipt(p) PROVE TypeOK'
  <2> DEFINE i == op[p].inst
  <2>1. PICK out \in Outcomes :
          /\ files' = [files EXCEPT ![ReceiptOf[i]] =
                         Written(@, ReceiptLine(i, op[p].hash), out)]
          /\ inst' = [inst EXCEPT ![i] = AfterReceipt(i, op[p].hash, out)]
          /\ Counted(out)
          /\ op' = [op EXCEPT ![p] = IF Passed(i, out)
                                       THEN [@ EXCEPT !.pc = "release"]
                                       ELSE Refused(@)]
    BY <1>11 DEF WriteReceipt
  <2>2. /\ files[ReceiptOf[i]] \in Seq(Chunk) /\ inst[i] \in InstState
        /\ op[p].hash \in Nat
    BY <1>0, <1>11, PathsOf DEF TypeOK, CallsWellFormed, WriteReceipt, OpState
  <2>3. Written(files[ReceiptOf[i]], ReceiptLine(i, op[p].hash), out) \in Seq(Chunk)
    BY <1>0, <2>1, <2>2, WrittenType, LineTypes, OutcomeKinds
  <2>4. AfterReceipt(i, op[p].hash, out) \in InstState
    <3>1. inst[i].rseq + 1 \in Nat
      BY <2>2 DEF InstState
    <3>2. QED
      BY <2>2, <3>1, MemoryTypes DEF AfterReceipt
  <2>5. [op[p] EXCEPT !.pc = "release"] \in OpState
    BY <1>0 DEF OpState
  <2>6. files' \in [Path -> Seq(Chunk)] /\ inst' \in [Inst -> InstState]
    BY <2>1, <2>3, <2>4 DEF TypeOK
  <2>7. op' \in [Proc -> OpState]
    BY <1>0, <2>1, <2>5, RefusedType DEF TypeOK
  <2>8. faults' \in Nat
    BY <2>1 DEF Counted, TypeOK
  <2>9. QED
    BY <1>11, <2>6, <2>7, <2>8 DEF WriteReceipt, TypeOK
<1>12. ASSUME NEW p \in Proc, Release(p) PROVE TypeOK'
  <2>1. [op[p] EXCEPT !.got = @ \ {LastSink(p)}] \in OpState
    BY <1>0 DEF OpState
  <2>2. op' \in [Proc -> OpState]
    BY <1>12, <2>1 DEF Release, TypeOK
  <2>3. LastSink(p) \in Path
    BY <1>12, LastSinkTaken DEF Release, CallsWellFormed
  <2>4. Released(lock[LastSink(p)]) \in LockState
    BY <2>3, LockTypes DEF TypeOK
  <2>5. lock' \in [Path -> LockState]
    BY <1>12, <2>4 DEF Release, TypeOK
  <2>6. served' \subseteq Inst \X Nat
    BY <1>0, <1>12 DEF Release, TypeOK, OpState
  <2>7. QED
    BY <1>12, <2>2, <2>5, <2>6 DEF Release, TypeOK
<1>13. CASE UNCHANGED vars
  BY <1>13 DEF vars, TypeOK
<1>14. QED
  BY <1>1, <1>2, <1>3, <1>4, <1>5, <1>6, <1>7, <1>8, <1>9, <1>10, <1>11, <1>12, <1>13
     DEF Next, LogStep, Work
-----------------------------------------------------------------------------
(* Calls.                                                                  *)

\* A step of a log() leaves the other processes' calls alone, and opens and
\* closes no instance.
LEMMA LogStepFrame ==
  ASSUME TypeOK, NEW q \in Proc, LogStep(q)
  PROVE  /\ \A p \in Proc : p # q => op'[p] = op[p]
         /\ \A j \in Inst : inst'[j].status = inst[j].status
<1>0. /\ \A p \in Proc : op[p] \in OpState /\ op[p].inst \in Inst
      /\ \A i \in Inst : inst[i] \in InstState
      /\ op \in [Proc -> OpState] /\ inst \in [Inst -> InstState]
  BY DEF TypeOK, OpState
<1>1. \A p \in Proc : p # q => op'[p] = op[p]
  BY <1>0 DEF LogStep, Work, Acquire, WaitTimesOut, Sync, AppendAudit, LoadReceipts, WriteReceipt, Release
<1>2. ASSUME NEW j \in Inst PROVE inst'[j].status = inst[j].status
  <2>1. ASSUME NEW i \in Inst
        PROVE  /\ Synced(i).status = inst[i].status
               /\ \A out \in Outcomes : AfterAudit(i, out).status = inst[i].status
               /\ \A h, out : AfterReceipt(i, h, out).status = inst[i].status
               /\ \A h, n : [inst[i] EXCEPT !.rlast = h, !.rseq = n].status = inst[i].status
    BY <1>0 DEF Synced, AfterAudit, AfterReceipt, InstState
  <2>2. CASE Acquire(q) \/ WaitTimesOut(q) \/ Release(q)
    BY <2>2 DEF Acquire, WaitTimesOut, Release
  <2>3. CASE Sync(q)
    BY <1>0, <2>1, <2>3 DEF Sync
  <2>4. CASE AppendAudit(q)
    BY <1>0, <2>1, <2>4 DEF AppendAudit
  <2>5. CASE LoadReceipts(q)
    <3> DEFINE i == op[q].inst
               m == [inst[i] EXCEPT !.rlast = ReceiptTail(i).hash, !.rseq = ReceiptTail(i).seq]
    <3>1. inst' = inst \/ inst' = [inst EXCEPT ![i] = m]
      BY <2>5 DEF LoadReceipts
    <3>2. m.status = inst[i].status
      BY <1>0, <2>1
    <3> HIDE DEF m
    <3>3. QED
      BY <1>0, <3>1, <3>2
  <2>6. CASE WriteReceipt(q)
    BY <1>0, <2>1, <2>6 DEF WriteReceipt
  <2>7. QED
    BY <2>2, <2>3, <2>4, <2>5, <2>6 DEF LogStep, Work
<1>3. QED
  BY <1>1, <1>2

\* Each action keeps the calls well formed.
LEMMA StepCalls ==
  ASSUME TypeOK, CallsWellFormed, [Next]_vars
  PROVE  CallsWellFormed'
<1> USE ConstTypes
<1> DEFINE Call(p) ==
      LET o == op[p]
      IN  /\ o.pc # "idle" => ProcOf[o.inst] = p /\ inst[o.inst].status = "open"
          /\ o.got \subseteq WriteSinks(o.inst)
          /\ o.pc = "idle" => o.got = {}
          /\ o.pc \in {"audit", "load", "receipt"} => o.got = WriteSinks(o.inst)
          /\ o.pc \in {"load", "receipt"} => ReceiptOf[o.inst] # NoPath
          /\ o.pc = "release" => o.got # {}
<1>0. /\ \A p \in Proc : Call(p)
      /\ \A p \in Proc : op[p] \in OpState /\ op[p].inst \in Inst /\ op[p].got \subseteq Path
      /\ \A i \in Inst : inst[i] \in InstState
      /\ op \in [Proc -> OpState] /\ inst \in [Inst -> InstState]
  BY DEF TypeOK, OpState, CallsWellFormed
<1>q. ASSUME NEW p \in Proc, op'[p] = Refused(op[p]), op[p].pc # "idle",
             inst'[op[p].inst].status = inst[op[p].inst].status
      PROVE  Call(p)'
  <2>1. CASE op[p].got = {}
    BY <1>0, <1>q, <2>1 DEF Refused
  <2>2. CASE op[p].got # {}
    <3>1. op'[p] = [op[p] EXCEPT !.pc = "release", !.ok = FALSE]
      BY <1>q, <2>2 DEF Refused
    <3>2. /\ op'[p].pc = "release" /\ op'[p].got = op[p].got
          /\ op'[p].inst = op[p].inst
      BY <1>0, <3>1 DEF OpState
    <3>3. QED
      BY <1>0, <1>q, <2>2, <3>2
  <2>3. QED
    BY <2>1, <2>2
<1>1. ASSUME NEW q \in Proc, Start(q) PROVE CallsWellFormed'
  BY <1>1 DEF Start, CallsWellFormed
<1>2. ASSUME NEW q \in Proc, Stop(q) PROVE CallsWellFormed'
  <2>1. ASSUME NEW p \in Proc, p # q PROVE Call(p)'
    BY <1>0, <1>2, <2>1 DEF Stop
  <2>2. Call(q)'
    BY <1>0, <1>2 DEF Stop
  <2>3. QED
    BY <2>1, <2>2 DEF CallsWellFormed
<1>3. ASSUME NEW i \in Inst, Open(i) PROVE CallsWellFormed'
  <2>1. op' = op /\ \A j \in Inst : inst[j].status = "open" => inst'[j].status = "open"
    BY <1>0, <1>3 DEF Open, Opened
  <2>2. QED
    BY <1>0, <2>1 DEF CallsWellFormed
<1>4. ASSUME NEW i \in Inst, Close(i) PROVE CallsWellFormed'
  <2>1. ASSUME NEW p \in Proc PROVE Call(p)'
    <3>1. op' = op /\ op[ProcOf[i]].pc = "idle"
      BY <1>4 DEF Close
    <3>2. \A j \in Inst : j # i => inst'[j] = inst[j]
      BY <1>0, <1>4 DEF Close
    <3>3. QED
      BY <1>0, <3>1, <3>2
  <2>2. QED
    BY <2>1 DEF CallsWellFormed
<1>5. ASSUME NEW i \in Inst, Log(i) PROVE CallsWellFormed'
  <2>1. ASSUME NEW p \in Proc PROVE Call(p)'
    <3>1. inst' = inst /\ inst[i].status = "open"
      BY <1>5 DEF Log
    <3>2. CASE p = ProcOf[i]
      <4>1. /\ op'[p].pc = "lock" /\ op'[p].inst = i /\ op'[p].got = {}
        BY <1>0, <1>5, <3>2 DEF Log, OpState
      <4>2. QED
        BY <3>1, <3>2, <4>1
    <3>3. CASE p # ProcOf[i]
      BY <1>0, <1>5, <3>1, <3>3 DEF Log
    <3>4. QED
      BY <3>2, <3>3
  <2>2. QED
    BY <2>1 DEF CallsWellFormed
<1>6. ASSUME NEW q \in Proc, LogStep(q) PROVE CallsWellFormed'
  <2>1. \A p \in Proc : p # q => op'[p] = op[p]
    BY <1>6, LogStepFrame
  <2>2. \A j \in Inst : inst'[j].status = inst[j].status
    BY <1>6, LogStepFrame
  <2>3. ASSUME NEW p \in Proc, p # q PROVE Call(p)'
    BY <1>0, <2>1, <2>2, <2>3
  <2>4. op[q].pc # "idle"
    BY <1>6 DEF LogStep, Work, Acquire, WaitTimesOut, Sync, AppendAudit, LoadReceipts, WriteReceipt, Release
  <2>5. ASSUME op'[q] = Refused(op[q]) PROVE Call(q)'
    BY <1>0, <1>q, <2>2, <2>4, <2>5
  <2>6. ASSUME NEW l, op'[q] = [op[q] EXCEPT !.pc = l], l # "idle",
               l \in {"audit", "load", "receipt"} => op[q].got = WriteSinks(op[q].inst),
               l \in {"load", "receipt"} => ReceiptOf[op[q].inst] # NoPath,
               l = "release" => op[q].got # {}
        PROVE  Call(q)'
    <3>1. op'[q].pc = l /\ op'[q].inst = op[q].inst /\ op'[q].got = op[q].got
      BY <1>0, <2>6 DEF OpState
    <3>2. QED
      BY <1>0, <2>2, <2>4, <2>6, <3>1
  <2>7. Call(q)'
    <3>1. CASE Acquire(q)
      <4>1. /\ op'[q].pc = "lock" /\ op'[q].inst = op[q].inst
            /\ op'[q].got = op[q].got \cup {NextSink(q)}
        BY <1>0, <3>1 DEF Acquire, OpState
      <4>2. NextSink(q) \in WriteSinks(op[q].inst)
        BY <3>1, NextSinkPending DEF Acquire, Pending
      <4>3. QED
        BY <1>0, <2>2, <2>4, <4>1, <4>2
    <3>2. CASE WaitTimesOut(q)
      BY <1>0, <2>5, <3>2 DEF WaitTimesOut
    <3>3. CASE Sync(q)
      <4>1. op[q].got = WriteSinks(op[q].inst)
        BY <1>0, <3>3 DEF Sync, Pending
      <4>2. op'[q] = Refused(op[q]) \/ op'[q] = [op[q] EXCEPT !.pc = "audit"]
        BY <1>0, <3>3 DEF Sync
      <4>3. CASE op'[q] = [op[q] EXCEPT !.pc = "audit"]
        BY <2>6, <4>1, <4>3
      <4>4. QED
        BY <2>5, <4>2, <4>3
    <3>4. CASE AppendAudit(q)
      <4>1. \/ op'[q] = Refused(op[q])
            \/ op'[q] = [op[q] EXCEPT !.pc = IF ReceiptOf[op[q].inst] = NoPath
                                               THEN "release" ELSE "load",
                                      !.hash = fresh, !.ok = TRUE]
        BY <1>0, <3>4 DEF AppendAudit
      <4>2. op[q].got = WriteSinks(op[q].inst) /\ op[q].got # {}
        BY <1>0, <3>4, PathsOf DEF AppendAudit
      <4>3. CASE op'[q] = Refused(op[q])
        BY <2>5, <4>3
      <4>4. CASE op'[q] = [op[q] EXCEPT !.pc = IF ReceiptOf[op[q].inst] = NoPath
                                                 THEN "release" ELSE "load",
                                        !.hash = fresh, !.ok = TRUE]
        <5>1. /\ op'[q].pc = IF ReceiptOf[op[q].inst] = NoPath THEN "release" ELSE "load"
              /\ op'[q].inst = op[q].inst /\ op'[q].got = op[q].got
          BY <1>0, <4>4 DEF OpState
        <5>2. QED
          BY <1>0, <2>2, <2>4, <4>2, <5>1
      <4>5. QED
        BY <4>1, <4>3, <4>4
    <3>5. CASE LoadReceipts(q)
      <4>1. op'[q] = Refused(op[q]) \/ op'[q] = [op[q] EXCEPT !.pc = "receipt"]
        BY <1>0, <3>5 DEF LoadReceipts
      <4>2. QED
        BY <1>0, <2>5, <2>6, <3>5, <4>1 DEF LoadReceipts
    <3>6. CASE WriteReceipt(q)
      <4>1. op'[q] = Refused(op[q]) \/ op'[q] = [op[q] EXCEPT !.pc = "release"]
        BY <1>0, <3>6 DEF WriteReceipt
      <4>2. op[q].got # {}
        BY <1>0, <3>6, PathsOf DEF WriteReceipt
      <4>3. QED
        BY <2>5, <2>6, <4>1, <4>2
    <3>7. CASE Release(q)
      <4>1. op'[q] = Idle \/ op'[q] = [op[q] EXCEPT !.got = @ \ {LastSink(q)}]
        BY <1>0, <3>7 DEF Release
      <4>2. CASE op'[q] = Idle
        BY <4>2
      <4>3. CASE op'[q] = [op[q] EXCEPT !.got = @ \ {LastSink(q)}] /\ op'[q] # Idle
        <5>1. /\ op'[q].pc = "release" /\ op'[q].inst = op[q].inst
              /\ op'[q].got = op[q].got \ {LastSink(q)}
          BY <1>0, <3>7, <4>3 DEF Release, OpState
        <5>2. op'[q].got # {}
          BY <1>0, <3>7, <4>3, <5>1 DEF Release
        <5>3. QED
          BY <1>0, <2>2, <2>4, <5>1, <5>2
      <4>4. QED
        BY <4>1, <4>2, <4>3
    <3>8. QED
      BY <1>6, <3>1, <3>2, <3>3, <3>4, <3>5, <3>6, <3>7 DEF LogStep, Work
  <2>8. QED
    BY <2>3, <2>7 DEF CallsWellFormed
<1>7. CASE UNCHANGED vars
  BY <1>7 DEF vars, CallsWellFormed
<1>8. QED
  BY <1>1, <1>2, <1>3, <1>4, <1>5, <1>6, <1>7 DEF Next

-----------------------------------------------------------------------------
(* Locks.                                                                  *)

\* The instances that keep a path's lock can be counted.
LEMMA HoldersFinite ==
  ASSUME NEW x \in Path
  PROVE  IsFiniteSet(Holders(x)) /\ Cardinality(Holders(x)) \in Nat
<1>1. IsFiniteSet(Inst) /\ Holders(x) \subseteq Inst
  BY AuditLogAssumption DEF Holders
<1>2. QED
  BY <1>1, FS_Subset, FS_CardinalityType

\* An idle process that opens an instance owes one more release ...
LEMMA OpenBalanced ==
  ASSUME TypeOK, CallsWellFormed, LockCountBalanced, NEW i \in Inst, Open(i)
  PROVE  LockCountBalanced'
<1> DEFINE p == ProcOf[i]
           s == SinkOf[i]
<1>0. p \in Proc /\ s \in Path /\ op' = op /\ op[p].pc = "idle" /\ op[p].got = {}
  BY PathsOf, AuditLogAssumption DEF Open, CallsWellFormed
<1>1. /\ inst[i].status = "closed" /\ inst'[i].status # "closed"
      /\ \A j \in Inst : j # i => inst'[j] = inst[j]
  <2>1. Opened(i).status # "closed"
    BY DEF Opened
  <2>2. QED
    BY <2>1 DEF Open, TypeOK, InstState
<1>2. /\ lock[s].owner \in {NoProc, p}
      /\ lock'[s].owner = p /\ lock'[s].count = lock[s].count + 1
      /\ \A x \in Path : x # s => lock'[x] = lock[x]
  BY <1>0 DEF Open, Lockable, Taken, TypeOK
<1>3. /\ Holders(s)' = Holders(s) \cup {i} /\ i \notin Holders(s)
      /\ \A x \in Path : x # s => Holders(x)' = Holders(x)
  BY <1>1 DEF Holders
<1>4. ASSUME NEW x \in Path, x # s PROVE Balanced(x)'
  BY <1>0, <1>2, <1>3, <1>4 DEF LockCountBalanced, Balanced
<1>5. Balanced(s)'
  <2>1. Cardinality(Holders(s)') = Cardinality(Holders(s)) + 1
    BY <1>0, <1>3, HoldersFinite, FS_AddElement
  <2>2. p # NoProc /\ lock[s].count \in Nat
    BY <1>0, AuditLogAssumption DEF TypeOK, LockState
  <2>3. Balanced(s)
    BY <1>0 DEF LockCountBalanced
  <2>4. lock[s].count = Cardinality(Holders(s))
    <3>1. CASE lock[s].owner = NoProc
      BY <2>3, <3>1, FS_EmptySet DEF Balanced
    <3>2. CASE lock[s].owner = p
      <4>1. Cardinality(Holders(s)) \in Nat
        BY <1>0, HoldersFinite
      <4>2. QED
        BY <1>0, <2>2, <2>3, <3>2, <4>1 DEF Balanced
    <3>3. QED
      BY <1>2, <3>1, <3>2
  <2>5. /\ \A j \in Holders(s) : ProcOf[j] = p
        /\ \A q \in Proc \ {p} : s \notin op[q].got
    BY <1>2, <2>2, <2>3 DEF Balanced
  <2>6. QED
    BY <1>0, <1>2, <1>3, <2>1, <2>2, <2>4, <2>5 DEF Balanced
<1>6. QED
  BY <1>4, <1>5 DEF LockCountBalanced

\* ... and one that closes it has paid it back.
LEMMA CloseBalanced ==
  ASSUME TypeOK, CallsWellFormed, LockCountBalanced, NEW i \in Inst, Close(i)
  PROVE  LockCountBalanced'
<1> DEFINE p == ProcOf[i]
           s == SinkOf[i]
<1>0. p \in Proc /\ p # NoProc /\ s \in Path /\ op' = op /\ op[p].got = {}
  BY PathsOf, AuditLogAssumption DEF Close, CallsWellFormed
<1>1. /\ inst[i].status = "open" /\ inst'[i].status = "closed"
      /\ \A j \in Inst : j # i => inst'[j] = inst[j]
  BY DEF Close, TypeOK, Closed
<1>2. lock'[s] = Released(lock[s]) /\ \A x \in Path : x # s => lock'[x] = lock[x]
  BY <1>0 DEF Close, TypeOK
<1>3. /\ Holders(s)' = Holders(s) \ {i} /\ i \in Holders(s)
      /\ \A x \in Path : x # s => Holders(x)' = Holders(x)
  BY <1>1 DEF Holders
<1>4. ASSUME NEW x \in Path, x # s PROVE Balanced(x)'
  BY <1>0, <1>2, <1>3, <1>4 DEF LockCountBalanced, Balanced
<1>5. Balanced(s)'
  <2>1. Cardinality(Holders(s)') = Cardinality(Holders(s)) - 1
    BY <1>0, <1>3, HoldersFinite, FS_RemoveElement
  <2>2. /\ lock[s].owner = p /\ lock[s].count = Cardinality(Holders(s))
        /\ \A j \in Holders(s) : ProcOf[j] = p
        /\ \A q \in Proc : s \notin op[q].got
    <3>1. Cardinality(Holders(s)) \in Nat /\ Balanced(s)
      BY <1>0, HoldersFinite DEF LockCountBalanced
    <3>2. lock[s].owner # NoProc
      BY <1>3, <3>1 DEF Balanced
    <3>3. lock[s].owner = p
      BY <1>3, <3>1, <3>2 DEF Balanced
    <3>4. QED
      BY <1>0, <3>1, <3>2, <3>3 DEF Balanced
  <2>3. lock[s] \in LockState /\ Cardinality(Holders(s)) \in Nat
    BY <1>0, HoldersFinite DEF TypeOK
  <2>4. CASE lock[s].count <= 1
    <3>1. lock'[s].owner = NoProc /\ lock'[s].count = 0
      BY <1>2, <2>4 DEF Released, Free
    <3>2. Holders(s) = {i}
      <4>1. Cardinality(Holders(s)') = 0 /\ IsFiniteSet(Holders(s)')
        <5>1. IsFiniteSet(Holders(s)')
          <6>1. IsFiniteSet(Holders(s))
            BY <1>0, HoldersFinite
          <6>2. QED
            BY <1>3, <6>1, FS_RemoveElement
        <5>2. Cardinality(Holders(s)') \in Nat
          BY <5>1, FS_CardinalityType
        <5>3. QED
          BY <2>1, <2>2, <2>3, <2>4, <5>1, <5>2
      <4>2. Holders(s)' = {}
        BY <4>1, FS_EmptySet
      <4>3. QED
        BY <1>3, <4>2
    <3>3. QED
      BY <1>0, <1>3, <2>2, <3>1, <3>2 DEF Balanced
  <2>5. CASE ~(lock[s].count <= 1)
    <3>1. lock'[s].owner = p /\ lock'[s].count = lock[s].count - 1
      BY <1>2, <2>2, <2>3, <2>5 DEF Released, LockState
    <3>2. QED
      BY <1>0, <1>3, <2>1, <2>2, <2>3, <2>5, <3>1 DEF Balanced
  <2>6. QED
    BY <2>4, <2>5
<1>6. QED
  BY <1>4, <1>5 DEF LockCountBalanced

\* The end of a process frees what it held and touches nobody else's locks.
LEMMA StopBalanced ==
  ASSUME TypeOK, LockCountBalanced, NEW q \in Proc, Stop(q)
  PROVE  LockCountBalanced'
<1>0. /\ q # NoProc
      /\ \A x \in Path : lock'[x] = IF lock[x].owner = q THEN Free ELSE lock[x]
      /\ \A i \in Inst : inst'[i] = IF ProcOf[i] = q THEN Closed ELSE inst[i]
      /\ op'[q].got = {} /\ \A p \in Proc : p # q => op'[p] = op[p]
  BY ConstTypes, AuditLogAssumption DEF Stop, TypeOK
<1>1. ASSUME NEW x \in Path PROVE Balanced(x)'
  <2>0. Balanced(x)
    BY DEF LockCountBalanced
  <2>1. CASE lock[x].owner = q
    <3>1. Holders(x)' = {}
      BY <1>0, <2>0, <2>1 DEF Balanced, Holders, Closed
    <3>2. \A p \in Proc : x \notin op'[p].got
      BY <1>0, <2>0, <2>1 DEF Balanced
    <3>3. QED
      BY <1>0, <2>1, <3>1, <3>2 DEF Balanced, Free
  <2>2. CASE lock[x].owner = NoProc
    <3>1. Holders(x)' = {}
      BY <1>0, <2>0, <2>2 DEF Balanced, Holders, Closed
    <3>2. QED
      BY <1>0, <2>0, <2>2, <3>1 DEF Balanced
  <2>3. CASE lock[x].owner \notin {q, NoProc}
    <3>1. Holders(x)' = Holders(x)
      BY <1>0, <2>0, <2>3 DEF Balanced, Holders, Closed
    <3>2. lock[x].owner \in Proc
      BY <2>3 DEF TypeOK, LockState
    <3>3. QED
      BY <1>0, <2>0, <2>3, <3>1, <3>2 DEF Balanced
  <2>4. QED
    BY <2>1, <2>2, <2>3
<1>2. QED
  BY <1>1 DEF LockCountBalanced

\* What the steps of a log() other than Acquire and Release leave alone.
LEMMA QuietStep ==
  ASSUME TypeOK, NEW q \in Proc, LogStep(q), ~Acquire(q), ~Release(q)
  PROVE  lock' = lock /\ \A p \in Proc : op'[p].got = op[p].got
<1>0. op \in [Proc -> OpState] /\ op[q] \in OpState
  BY DEF TypeOK
<1>1. Refused(op[q]).got = op[q].got
  BY <1>0, ConstTypes DEF Refused, OpState
<1>2. /\ \A l : [op[q] EXCEPT !.pc = l].got = op[q].got
      /\ \A l, h : [op[q] EXCEPT !.pc = l, !.hash = h, !.ok = TRUE].got = op[q].got
  BY <1>0 DEF OpState
<1>3. WaitTimesOut(q) \/ Sync(q) \/ AppendAudit(q) \/ LoadReceipts(q) \/ WriteReceipt(q)
  BY DEF LogStep, Work
<1>4. lock' = lock
  BY <1>3 DEF WaitTimesOut, Sync, AppendAudit, LoadReceipts, WriteReceipt
<1>5. op'[q].got = op[q].got
  <2>1. CASE WaitTimesOut(q)
    BY <1>0, <1>1, <2>1 DEF WaitTimesOut
  <2>2. CASE Sync(q)
    <3>1. op'[q] = Refused(op[q]) \/ op'[q] = [op[q] EXCEPT !.pc = "audit"]
      BY <1>0, <2>2 DEF Sync
    <3>2. QED
      BY <1>1, <1>2, <3>1
  <2>3. CASE AppendAudit(q)
    BY <1>0, <1>1, <1>2, <2>3 DEF AppendAudit
  <2>4. CASE LoadReceipts(q)
    <3>1. op'[q] = Refused(op[q]) \/ op'[q] = [op[q] EXCEPT !.pc = "receipt"]
      BY <1>0, <2>4 DEF LoadReceipts
    <3>2. QED
      BY <1>1, <1>2, <3>1
  <2>5. CASE WriteReceipt(q)
    <3>1. op'[q] = Refused(op[q]) \/ op'[q] = [op[q] EXCEPT !.pc = "release"]
      BY <1>0, <2>5 DEF WriteReceipt
    <3>2. QED
      BY <1>1, <1>2, <3>1
  <2>6. QED
    BY <1>3, <2>1, <2>2, <2>3, <2>4, <2>5
<1>6. QED
  BY <1>4, <1>5, LogStepFrame

\* A step of log() adds or gives back its own reference only.
LEMMA LogStepBalanced ==
  ASSUME TypeOK, CallsWellFormed, LockCountBalanced, NEW q \in Proc, LogStep(q)
  PROVE  LockCountBalanced'
<1>0. /\ q # NoProc
      /\ \A p \in Proc : p # q => op'[p] = op[p]
      /\ op \in [Proc -> OpState] /\ op[q] \in OpState
      /\ \A x \in Path : Holders(x)' = Holders(x)
  <2>1. \A x \in Path : Holders(x)' = Holders(x)
    BY LogStepFrame DEF Holders
  <2>2. QED
    BY <2>1, LogStepFrame, AuditLogAssumption DEF TypeOK
<1>1. CASE Acquire(q)
  <2> DEFINE s == NextSink(q)
  <2>1. s \in Path /\ s \notin op[q].got
    BY <1>1, NextSinkPending DEF Acquire, Pending
  <2>2. /\ lock[s].owner \in {NoProc, q}
        /\ lock'[s].owner = q /\ lock'[s].count = lock[s].count + 1
        /\ \A x \in Path : x # s => lock'[x] = lock[x]
        /\ op'[q].got = op[q].got \cup {s}
    BY <1>0, <1>1, <2>1 DEF Acquire, Lockable, Taken, TypeOK, OpState
  <2> HIDE DEF s
  <2>3. ASSUME NEW x \in Path PROVE Balanced(x)'
    <3>1. Balanced(x) /\ lock[x] \in LockState /\ Cardinality(Holders(x)) \in Nat
      BY HoldersFinite DEF LockCountBalanced, TypeOK
    <3>2. CASE x # s
      <4>1. \A p \in Proc : x \in op'[p].got <=> x \in op[p].got
        BY <1>0, <2>2, <3>2
      <4>2. lock[x].owner \in Proc \cup {NoProc}
        BY <3>1 DEF LockState
      <4>3. QED
        BY <1>0, <2>2, <3>1, <3>2, <4>1, <4>2 DEF Balanced
    <3>3. CASE x = s
      <4>1. lock[s].count = Cardinality(Holders(s)) /\ \A j \in Holders(s) : ProcOf[j] = q
        <5>1. CASE lock[s].owner = NoProc
          BY <3>1, <3>3, <5>1, FS_EmptySet DEF Balanced
        <5>2. CASE lock[s].owner = q
          BY <1>0, <2>1, <3>1, <3>3, <5>2 DEF Balanced
        <5>3. QED
          BY <2>2, <5>1, <5>2
      <4>2. \A p \in Proc \ {q} : s \notin op[p].got
        BY <1>0, <2>2, <3>1, <3>3 DEF Balanced
      <4>3. QED
        BY <1>0, <2>2, <3>1, <3>3, <4>1, <4>2 DEF Balanced
    <3>4. QED
      BY <3>2, <3>3
  <2>4. QED
    BY <2>3 DEF LockCountBalanced
<1>2. CASE Release(q)
  <2> DEFINE s == LastSink(q)
  <2>1. s \in Path /\ s \in op[q].got
    BY <1>2, LastSinkTaken DEF Release, CallsWellFormed
  <2>2. /\ lock'[s] = Released(lock[s])
        /\ \A x \in Path : x # s => lock'[x] = lock[x]
        /\ op'[q].got = op[q].got \ {s}
    BY <1>0, <1>2, <2>1, ConstTypes DEF Release, TypeOK, OpState
  <2> HIDE DEF s
  <2>3. ASSUME NEW x \in Path PROVE Balanced(x)'
    <3>1. Balanced(x) /\ lock[x] \in LockState /\ Cardinality(Holders(x)) \in Nat
      BY HoldersFinite DEF LockCountBalanced, TypeOK
    <3>2. CASE x # s
      <4>1. \A p \in Proc : x \in op'[p].got <=> x \in op[p].got
        BY <1>0, <2>2, <3>2
      <4>2. lock[x].owner \in Proc \cup {NoProc}
        BY <3>1 DEF LockState
      <4>3. QED
        BY <1>0, <2>2, <3>1, <3>2, <4>1, <4>2 DEF Balanced
    <3>3. CASE x = s
      <4>1. lock[s].owner = q
        BY <2>1, <3>1, <3>3 DEF Balanced
      <4>2. /\ lock[s].count = Cardinality(Holders(s)) + 1
            /\ \A j \in Holders(s) : ProcOf[j] = q
            /\ \A p \in Proc \ {q} : s \notin op[p].got
        BY <1>0, <2>1, <3>1, <3>3, <4>1 DEF Balanced
      <4>3. CASE lock[s].count <= 1
        <5>1. Holders(s) = {}
          <6>1. IsFiniteSet(Holders(s)) /\ Cardinality(Holders(s)) = 0
            BY <2>1, <3>1, <3>3, <4>2, <4>3, HoldersFinite
          <6>2. QED
            BY <6>1, FS_EmptySet
        <5>2. lock'[s].owner = NoProc /\ lock'[s].count = 0
          BY <2>2, <4>3 DEF Released, Free
        <5>3. QED
          BY <1>0, <2>2, <3>3, <4>2, <5>1, <5>2 DEF Balanced
      <4>4. CASE ~(lock[s].count <= 1)
        <5>1. lock'[s].owner = q /\ lock'[s].count = lock[s].count - 1
          BY <2>2, <3>1, <3>3, <4>1, <4>4 DEF Released, LockState
        <5>2. QED
          BY <1>0, <2>2, <3>1, <3>3, <4>2, <4>4, <5>1 DEF Balanced
      <4>5. QED
        BY <4>3, <4>4
    <3>4. QED
      BY <3>2, <3>3
  <2>4. QED
    BY <2>3 DEF LockCountBalanced
<1>3. CASE ~Acquire(q) /\ ~Release(q)
  <2>1. lock' = lock /\ \A p \in Proc : op'[p].got = op[p].got
    BY <1>3, QuietStep
  <2>2. ASSUME NEW x \in Path PROVE Balanced(x)'
    <3>1. Balanced(x) /\ lock[x].owner \in Proc \cup {NoProc}
      BY DEF LockCountBalanced, TypeOK, LockState
    <3>2. QED
      BY <1>0, <2>1, <3>1 DEF Balanced
  <2>3. QED
    BY <2>2 DEF LockCountBalanced
<1>4. QED
  BY <1>1, <1>2, <1>3

\* Every step keeps the lock counts what is owed.
LEMMA StepLocks ==
  ASSUME TypeOK, CallsWellFormed, LockCountBalanced, [Next]_vars
  PROVE  LockCountBalanced'
<1>1. ASSUME NEW q \in Proc, Start(q) PROVE LockCountBalanced'
  BY <1>1 DEF Start, LockCountBalanced, Balanced, Holders
<1>2. ASSUME NEW i \in Inst, Log(i) PROVE LockCountBalanced'
  <2>1. \A p \in Proc : op'[p].got = op[p].got
    <3>1. /\ [Idle EXCEPT !.pc = "lock", !.inst = i].got = {}
          /\ ProcOf[i] \in Proc
      BY ConstTypes, AuditLogAssumption DEF OpState
    <3>2. op[ProcOf[i]].got = {}
      BY <1>2, <3>1 DEF Log, CallsWellFormed
    <3>3. QED
      BY <1>2, <3>1, <3>2 DEF Log, TypeOK
  <2>2. lock' = lock /\ inst' = inst
    BY <1>2 DEF Log
  <2>3. ASSUME NEW x \in Path PROVE Balanced(x)'
    <3>1. Balanced(x) /\ lock[x].owner \in Proc \cup {NoProc}
      BY DEF LockCountBalanced, TypeOK, LockState
    <3>2. QED
      BY <2>1, <2>2, <3>1 DEF Balanced, Holders
  <2>4. QED
    BY <2>3 DEF LockCountBalanced
<1>3. CASE UNCHANGED vars
  BY <1>3 DEF vars, LockCountBalanced, Balanced, Holders
<1>4. QED
  BY <1>1, <1>2, <1>3, OpenBalanced, CloseBalanced, StopBalanced, LogStepBalanced DEF Next

-----------------------------------------------------------------------------
(* Chains.                                                                 *)

\* A line that carries the tail's hash extends the chain.
LEMMA LinkedAppend ==
  ASSUME NEW f \in Seq(Chunk), NEW l \in Chunk, Linked(f), l.prev = TailHash(f)
  PROVE  /\ Linked(Append(f, l))
         /\ TailHash(Append(f, l)) = l.hash
         /\ Len(Append(f, l)) = Len(f) + 1 /\ Append(f, l) # <<>>
<1> DEFINE g == Append(f, l)
<1>1. /\ Len(g) = Len(f) + 1 /\ g # <<>> /\ g[Len(f) + 1] = l
      /\ \A k \in 1..Len(f) : g[k] = f[k]
  OBVIOUS
<1>2. ASSUME NEW k \in 1..Len(g)
      PROVE  g[k].prev = IF k = 1 THEN Genesis ELSE g[k-1].hash
  <2>1. CASE k \in 1..Len(f)
    <3>1. k # 1 => k - 1 \in 1..Len(f)
      BY <2>1
    <3>2. QED
      BY <1>1, <2>1, <3>1 DEF Linked
  <2>2. CASE k = Len(f) + 1
    <3>1. CASE f = <<>>
      BY <1>1, <2>2, <3>1 DEF TailHash
    <3>2. CASE f # <<>>
      <4>1. Len(f) \in 1..Len(f) /\ k # 1 /\ k - 1 = Len(f)
        BY <2>2, <3>2
      <4>2. QED
        BY <1>1, <2>2, <3>2, <4>1 DEF TailHash
    <3>3. QED
      BY <3>1, <3>2
  <2>3. QED
    BY <1>1, <2>1, <2>2
<1>3. QED
  BY <1>1, <1>2 DEF Linked, TailHash

\* A line with the next number continues the numbering.
LEMMA NumberedAppend ==
  ASSUME NEW f \in Seq(Chunk), NEW l \in Chunk, \A k \in 1..Len(f) : f[k].seq = k,
         l.seq = Len(f) + 1
  PROVE  \A k \in 1..Len(Append(f, l)) : Append(f, l)[k].seq = k
  OBVIOUS

\* Two processes never both hold a path's lock for a write; and a process
\* that does is the one whose instances keep it.
LEMMA LockExclusive ==
  ASSUME LockCountBalanced, NEW p \in Proc, NEW x \in Path, x \in op[p].got
  PROVE  /\ \A q \in Proc : x \in op[q].got => q = p
         /\ \A i \in Holders(x) : ProcOf[i] = p
  BY DEF LockCountBalanced, Balanced

\* A call that throws is over, or releasing.
LEMMA RefusedPc ==
  ASSUME NEW o \in OpState
  PROVE  Refused(o).pc \in {"idle", "release"}
  BY ConstTypes DEF Refused, OpState

\* The parts of MemoryCurrent and TailsHeld, instance by instance and process
\* by process.
MemoryOf(i) ==
  /\ inst[i].status = "closed" => inst[i] = Closed
  /\ inst[i].status = "open" =>
       /\ inst[i].size <= Len(files[SinkOf[i]])
       /\ inst[i].size = Len(files[SinkOf[i]]) => inst[i].last = TailHash(files[SinkOf[i]])
       /\ ReceiptOf[i] # NoPath /\ files[ReceiptOf[i]] = <<>> =>
            inst[i].rlast = Genesis /\ inst[i].rseq = 0

TailsOf(p) ==
  LET i == op[p].inst
  IN  /\ op[p].pc = "audit" => inst[i].last = TailHash(files[SinkOf[i]])
      /\ op[p].pc = "receipt" => /\ inst[i].rlast = TailHash(files[ReceiptOf[i]])
                                 /\ inst[i].rseq = Len(files[ReceiptOf[i]])

\* MemoryCurrent and TailsHeld are these parts, for everyone.
LEMMA MemoryAndTails ==
  /\ MemoryCurrent <=> \A i \in Inst : MemoryOf(i)
  /\ TailsHeld <=> \A p \in Proc : TailsOf(p)
  BY DEF MemoryCurrent, MemoryOf, TailsHeld, TailsOf

\* What a step of q's log() can disturb of another process's call: nothing
\* but the files.
LEMMA OtherCalls ==
  ASSUME ChainInv, NEW q \in Proc, LogStep(q), NEW p \in Proc, p # q, op[p].pc # "idle"
  PROVE  op'[p] = op[p] /\ op[p].inst \in Inst /\ op[p].inst # op[q].inst
<1>1. op[p].inst \in Inst /\ op[q].inst \in Inst
  BY DEF ChainInv, TypeOK, OpState
<1>2. op[q].pc # "idle"
  BY DEF LogStep, Work, Acquire, WaitTimesOut, Sync, AppendAudit, LoadReceipts, WriteReceipt, Release
<1>3. ProcOf[op[p].inst] = p /\ ProcOf[op[q].inst] = q
  BY <1>2 DEF ChainInv, CallsWellFormed
<1>4. QED
  BY <1>1, <1>3, LogStepFrame DEF ChainInv

\* The audit append extends the chain from the tail its process held.
LEMMA ChainAppendAudit ==
  ASSUME ChainInv, NEW q \in Proc, AppendAudit(q)
  PROVE  MemoryCurrent' /\ TailsHeld' /\ AuditChained' /\ ReceiptsChained'
<1> DEFINE i == op[q].inst
           x == SinkOf[i]
           f == files[x]
<1>1. PICK out \in Outcomes :
        /\ files' = [files EXCEPT ![x] = Written(f, AuditLine(i), out)]
        /\ inst' = [inst EXCEPT ![i] = AfterAudit(i, out)]
        /\ op' = [op EXCEPT ![q] =
             IF Passed(i, out)
               THEN [op[q] EXCEPT !.pc = IF ReceiptOf[i] = NoPath THEN "release" ELSE "load",
                                  !.hash = fresh, !.ok = TRUE]
               ELSE Refused(op[q])]
  BY DEF AppendAudit
<1>2. /\ i \in Inst /\ op[q] \in OpState /\ op[q].pc = "audit" /\ inst[i] \in InstState
      /\ inst[i].status = "open" /\ inst[i].last = TailHash(f)
      /\ op[q].got = WriteSinks(i) /\ x \in op[q].got
      /\ f \in Seq(Chunk) /\ x \in Path
  BY PathsOf DEF ChainInv, TypeOK, OpState, CallsWellFormed, TailsHeld, AppendAudit
<1>3. AuditLine(i) \in Chunk /\ AuditLine(i).prev = TailHash(f) /\ AuditLine(i).hash = fresh
  BY <1>2, LineTypes, ConstTypes DEF ChainInv, AuditLine, TypeOK
<1> DEFINE g == Written(f, AuditLine(i), out)
<1>w. \/ g = f /\ out # "ok"
      \/ \E l \in Chunk : g = Append(f, l) /\ l.hash = fresh /\ l.prev = TailHash(f)
  <2> HIDE DEF f, i, x
  <2>1. out \in {"ok"} \cup FaultKinds
    BY OutcomeKinds
  <2>2. PICK line \in Chunk : line = AuditLine(i)
    BY <1>3
  <2>3. PICK w : w = Written(f, line, out)
    OBVIOUS
  <2>4. \/ w = f /\ out # "ok"
        \/ \E l \in Chunk : w = Append(f, l) /\ l.hash = line.hash /\ l.prev = line.prev
    <3>1. \/ Written(f, line, out) = f /\ out # "ok"
          \/ \E l \in Chunk : /\ Written(f, line, out) = Append(f, l)
                             /\ l = [line EXCEPT !.kind = out]
                             /\ l.hash = line.hash /\ l.prev = line.prev /\ l.seq = line.seq
      BY <1>2, <2>1, <2>2, WrittenType, Zenon
    <3>2. QED
      BY <2>3, <3>1, Zenon
  <2>5. g = w
    BY <2>2, <2>3
  <2> HIDE DEF g
  <2>6. QED
    BY <1>3, <2>2, <2>4, <2>5
<1>4. \/ g = f /\ out # "ok"
      \/ Len(g) = Len(f) + 1 /\ g # <<>> /\ TailHash(g) = fresh
  <2>1. Linked(f)
    BY <1>2 DEF ChainInv, AuditChained
  <2> HIDE DEF f, g, i, x
  <2>2. CASE g = f /\ out # "ok"
    BY <2>2
  <2>3. CASE \E l \in Chunk : g = Append(f, l) /\ l.hash = fresh /\ l.prev = TailHash(f)
    BY <1>2, <2>1, <2>3, LinkedAppend
  <2>4. QED
    BY <1>w, <2>2, <2>3
<1>5. Linked(g)
  <2>1. Linked(f)
    BY <1>2 DEF ChainInv, AuditChained
  <2> HIDE DEF f, g, i, x
  <2>2. CASE g = f
    BY <2>1, <2>2
  <2>3. CASE \E l \in Chunk : g = Append(f, l) /\ l.prev = TailHash(f)
    BY <1>2, <2>1, <2>3, LinkedAppend
  <2>4. QED
    BY <1>w, <2>2, <2>3
<1>6. files'[x] = g /\ \A y \in Path : y # x => files'[y] = files[y]
  BY <1>1, <1>2 DEF ChainInv, TypeOK
<1> HIDE DEF g
<1>7. AuditChained'
  BY <1>5, <1>6, PathsOf DEF ChainInv, AuditChained
<1>8. ReceiptsChained'
  BY <1>2, <1>6, PathsOf, AuditLogAssumption DEF ChainInv, ReceiptsChained
<1>9. inst'[i] = AfterAudit(i, out) /\ \A j \in Inst : j # i => inst'[j] = inst[j]
  BY <1>1, <1>2 DEF ChainInv, TypeOK
<1>10. ASSUME NEW j \in Inst PROVE MemoryOf(j)'
  <2>1. MemoryOf(j) /\ files[SinkOf[j]] \in Seq(Chunk) /\ inst[j] \in InstState
    BY MemoryAndTails, PathsOf DEF ChainInv, TypeOK
  <2>2. ReceiptOf[j] # NoPath => files'[ReceiptOf[j]] = files[ReceiptOf[j]]
    BY <1>2, <1>6, PathsOf, AuditLogAssumption
  <2>3. CASE inst'[j] = inst[j]
    <3>1. CASE SinkOf[j] = x
      <4>1. files'[SinkOf[j]] = f \/ Len(files'[SinkOf[j]]) = Len(f) + 1
        BY <1>4, <1>6, <3>1
      <4>2. inst[j].size \in Nat
        BY <2>1 DEF InstState
      <4>3. QED
        BY <1>2, <2>1, <2>2, <2>3, <3>1, <4>1, <4>2 DEF MemoryOf
    <3>2. CASE SinkOf[j] # x
      BY <1>6, <2>1, <2>2, <2>3, <3>2, PathsOf DEF MemoryOf
    <3>3. QED
      BY <3>1, <3>2
  <2>4. CASE j = i /\ out = "ok"
    <3>1. /\ inst'[i].status = "open" /\ inst'[i].size = Len(f) + 1
          /\ inst'[i].last = fresh /\ inst'[i].rlast = inst[i].rlast
          /\ inst'[i].rseq = inst[i].rseq
      BY <1>2, <1>9, <2>4 DEF AfterAudit, InstState
    <3>2. Len(files'[x]) = Len(f) + 1 /\ TailHash(files'[x]) = fresh
      BY <1>4, <1>6, <2>4
    <3>3. QED
      BY <1>2, <2>1, <2>2, <2>4, <3>1, <3>2 DEF MemoryOf
  <2>5. CASE j = i /\ out # "ok"
    BY <1>9, <2>3, <2>5 DEF AfterAudit
  <2>6. QED
    BY <1>9, <2>3, <2>4, <2>5
<1>11. ASSUME NEW p \in Proc PROVE TailsOf(p)'
  <2>1. CASE p = q
    <3>1. op'[q].pc \notin {"audit", "receipt"}
      BY <1>1, <1>2, RefusedPc DEF ChainInv, TypeOK, OpState
    <3>2. QED
      BY <2>1, <3>1 DEF TailsOf
  <2>2. CASE p # q /\ op[p].pc \in {"audit", "receipt"}
    <3>1. op'[p] = op[p] /\ op[p].inst \in Inst /\ op[p].inst # i
      BY <2>2, OtherCalls DEF LogStep, Work
    <3>2. op[p].got = WriteSinks(op[p].inst)
      BY <2>2 DEF ChainInv, CallsWellFormed
    <3>3. SinkOf[op[p].inst] # x
      BY <1>2, <2>2, <3>1, <3>2, PathsOf, LockExclusive DEF ChainInv
    <3>4. ReceiptOf[op[p].inst] # x
      BY <1>2, <3>1, AuditLogAssumption
    <3>5. op[p].pc = "receipt" => ReceiptOf[op[p].inst] \in Path
      BY <2>2, <3>1, PathsOf DEF ChainInv, CallsWellFormed
    <3>6. TailsOf(p)
      BY MemoryAndTails DEF ChainInv
    <3>7. QED
      BY <1>6, <1>9, <3>1, <3>3, <3>4, <3>5, <3>6, PathsOf DEF TailsOf
  <2>3. CASE p # q /\ op[p].pc \notin {"audit", "receipt"}
    BY <1>1, <2>3 DEF TailsOf, ChainInv, TypeOK
  <2>4. QED
    BY <2>1, <2>2, <2>3
<1>12. QED
  BY <1>7, <1>8, <1>10, <1>11, MemoryAndTails DEF MemoryCurrent, MemoryOf, TailsHeld, TailsOf


\* The receipt append extends the shared chain from the tail its process held.
LEMMA ChainWriteReceipt ==
  ASSUME ChainInv, NEW q \in Proc, WriteReceipt(q)
  PROVE  MemoryCurrent' /\ TailsHeld' /\ AuditChained' /\ ReceiptsChained'
<1> DEFINE i == op[q].inst
           x == ReceiptOf[i]
           f == files[x]
           line == ReceiptLine(i, op[q].hash)
<1>1. PICK out \in Outcomes :
        /\ files' = [files EXCEPT ![x] = Written(f, line, out)]
        /\ inst' = [inst EXCEPT ![i] = AfterReceipt(i, op[q].hash, out)]
        /\ op' = [op EXCEPT ![q] = IF Passed(i, out) THEN [op[q] EXCEPT !.pc = "release"]
                                                     ELSE Refused(op[q])]
  BY DEF WriteReceipt
<1>2. /\ i \in Inst /\ op[q] \in OpState /\ op[q].hash \in Nat
      /\ op[q].pc = "receipt" /\ inst[i] \in InstState
      /\ inst[i].rlast = TailHash(f) /\ inst[i].rseq = Len(f)
      /\ inst[i].status = "open" /\ op[q].got = WriteSinks(i) /\ x # NoPath
  BY DEF ChainInv, TypeOK, OpState, CallsWellFormed, TailsHeld, WriteReceipt
<1>3. /\ x \in Path /\ x \in op[q].got /\ f \in Seq(Chunk)
      /\ Linked(f) /\ \A k \in 1..Len(f) : f[k].seq = k
  BY <1>2, PathsOf DEF ChainInv, TypeOK, ReceiptsChained
<1>4. line \in Chunk /\ line.prev = TailHash(f) /\ line.seq = Len(f) + 1
  BY <1>2, LineTypes DEF ChainInv, ReceiptLine
<1> DEFINE g == Written(f, line, out)
<1>w. \/ g = f /\ out # "ok"
      \/ \E l \in Chunk : g = Append(f, l) /\ l.prev = TailHash(f) /\ l.seq = Len(f) + 1
  <2> HIDE DEF f, i, x, line
  <2>1. out \in {"ok"} \cup FaultKinds
    BY OutcomeKinds
  <2>2. \/ g = f /\ out # "ok"
        \/ \E l \in Chunk : g = Append(f, l) /\ l.prev = line.prev /\ l.seq = line.seq
    BY <1>3, <1>4, <2>1, WrittenType
  <2>3. QED
    BY <1>4, <2>2
<1>5. /\ Linked(g) /\ \A k \in 1..Len(g) : g[k].seq = k
      /\ (g = f /\ out # "ok") \/ g # <<>>
  <2> HIDE DEF f, g, i, x, line
  <2>1. CASE g = f /\ out # "ok"
    BY <1>3, <2>1
  <2>2. CASE \E l \in Chunk : g = Append(f, l) /\ l.prev = TailHash(f) /\ l.seq = Len(f) + 1
    BY <1>3, <2>2, LinkedAppend, NumberedAppend
  <2>3. QED
    BY <1>w, <2>1, <2>2
<1>6. files'[x] = g /\ \A y \in Path : y # x => files'[y] = files[y]
  BY <1>1, <1>3 DEF ChainInv, TypeOK
<1> HIDE DEF g
<1>7. \A j \in Inst : files'[SinkOf[j]] = files[SinkOf[j]]
  BY <1>2, <1>6, PathsOf, AuditLogAssumption
<1>8. AuditChained'
  BY <1>7 DEF ChainInv, AuditChained
<1>9. ReceiptsChained'
  <2>1. ASSUME NEW j \in Inst, ReceiptOf[j] # NoPath
        PROVE  LET h == files'[ReceiptOf[j]]
               IN  Linked(h) /\ \A k \in 1..Len(h) : h[k].seq = k
    <3>1. CASE ReceiptOf[j] = x
      BY <1>5, <1>6, <3>1
    <3>2. CASE ReceiptOf[j] # x
      BY <1>6, <2>1, <3>2, PathsOf DEF ChainInv, ReceiptsChained
    <3>3. QED
      BY <3>1, <3>2
  <2>2. QED
    BY <2>1 DEF ReceiptsChained
<1>10. inst'[i] = AfterReceipt(i, op[q].hash, out) /\ \A j \in Inst : j # i => inst'[j] = inst[j]
  BY <1>1, <1>2 DEF ChainInv, TypeOK
<1>11. ASSUME NEW j \in Inst PROVE MemoryOf(j)'
  <2>1. MemoryOf(j)
    BY MemoryAndTails DEF ChainInv
  <2>2. CASE inst'[j] = inst[j]
    <3>1. ReceiptOf[j] # NoPath /\ files'[ReceiptOf[j]] = <<>> => files[ReceiptOf[j]] = <<>>
      BY <1>5, <1>6, PathsOf
    <3>2. QED
      BY <1>7, <2>1, <2>2, <3>1 DEF MemoryOf
  <2>3. CASE j = i /\ out = "ok"
    <3>1. /\ inst'[i].status = "open" /\ inst'[i].size = inst[i].size
          /\ inst'[i].last = inst[i].last
      BY <1>2, <1>10, <2>3 DEF AfterReceipt, InstState
    <3>2. files'[ReceiptOf[i]] # <<>>
      BY <1>5, <1>6, <2>3
    <3>3. QED
      BY <1>2, <1>7, <2>1, <2>3, <3>1, <3>2 DEF MemoryOf
  <2>4. CASE j = i /\ out # "ok"
    BY <1>10, <2>2, <2>4 DEF AfterReceipt
  <2>5. QED
    BY <1>10, <2>2, <2>3, <2>4
<1>12. ASSUME NEW p \in Proc PROVE TailsOf(p)'
  <2>1. CASE p = q
    <3>1. op'[q].pc \notin {"audit", "receipt"}
      BY <1>1, <1>2, RefusedPc DEF ChainInv, TypeOK, OpState
    <3>2. QED
      BY <2>1, <3>1 DEF TailsOf
  <2>2. CASE p # q /\ op[p].pc \in {"audit", "receipt"}
    <3>1. op'[p] = op[p] /\ op[p].inst \in Inst /\ op[p].inst # i
      BY <2>2, OtherCalls DEF LogStep, Work
    <3>2. op[p].got = WriteSinks(op[p].inst)
      BY <2>2 DEF ChainInv, CallsWellFormed
    <3>3. op[p].pc = "receipt" => ReceiptOf[op[p].inst] # x /\ ReceiptOf[op[p].inst] \in Path
      BY <1>3, <2>2, <3>1, <3>2, PathsOf, LockExclusive DEF ChainInv, CallsWellFormed
    <3>4. TailsOf(p)
      BY MemoryAndTails DEF ChainInv
    <3>5. QED
      BY <1>6, <1>7, <1>10, <3>1, <3>3, <3>4 DEF TailsOf
  <2>3. CASE p # q /\ op[p].pc \notin {"audit", "receipt"}
    BY <1>1, <2>3 DEF TailsOf, ChainInv, TypeOK
  <2>4. QED
    BY <2>1, <2>2, <2>3
<1>13. QED
  BY <1>8, <1>9, <1>11, <1>12, MemoryAndTails DEF MemoryCurrent, MemoryOf, TailsHeld, TailsOf

\* Steps that write no file keep the chains; what is left is the memory.
LEMMA ChainStart ==
  ASSUME ChainInv, UNCHANGED <<files, inst, op>>
  PROVE  MemoryCurrent' /\ TailsHeld' /\ AuditChained' /\ ReceiptsChained'
  BY DEF ChainInv, MemoryCurrent, TailsHeld, AuditChained, ReceiptsChained

\* What nobody writes to stays a chain.
LEMMA ChainSameFiles ==
  ASSUME ChainInv, UNCHANGED files
  PROVE  AuditChained' /\ ReceiptsChained'
  BY DEF ChainInv, AuditChained, ReceiptsChained

\* A call's tails survive a step that leaves its call and instance alone.
LEMMA TailsFrame ==
  ASSUME ChainInv, UNCHANGED files, NEW p \in Proc,
         op'[p] = op[p] /\ (op[p].pc \in {"audit", "receipt"} => inst'[op[p].inst] = inst[op[p].inst])
  PROVE  TailsOf(p)'
  BY MemoryAndTails DEF ChainInv, TailsOf

\* A call that is not about to append relies on no tail.
LEMMA TailsIdle ==
  ASSUME NEW p \in Proc, op'[p].pc \notin {"audit", "receipt"}
  PROVE  TailsOf(p)'
  BY DEF TailsOf

\* An instance left alone remembers rightly what it remembered rightly.
LEMMA MemoryFrame ==
  ASSUME ChainInv, UNCHANGED files, NEW i \in Inst, inst'[i] = inst[i]
  PROVE  MemoryOf(i)'
  BY MemoryAndTails DEF ChainInv, MemoryOf

\* The end of a process leaves its files and forgets its memory.
LEMMA ChainStop ==
  ASSUME ChainInv, NEW q \in Proc, Stop(q)
  PROVE  MemoryCurrent' /\ TailsHeld' /\ AuditChained' /\ ReceiptsChained'
<1>1. UNCHANGED files
  BY DEF Stop
<1>2. ASSUME NEW i \in Inst PROVE MemoryOf(i)'
  <2>1. CASE ProcOf[i] = q
    <3>1. inst'[i] = Closed
      BY <2>1 DEF Stop
    <3>2. QED
      BY <3>1 DEF MemoryOf, Closed
  <2>2. CASE ProcOf[i] # q
    <3>1. inst'[i] = inst[i]
      BY <2>2 DEF Stop
    <3>2. QED
      BY <1>1, <3>1, MemoryFrame
  <2>3. QED
    BY <2>1, <2>2
<1>3. ASSUME NEW p \in Proc PROVE TailsOf(p)'
  <2>1. CASE p = q
    <3>1. op'[p] = Idle
      BY <2>1 DEF Stop, ChainInv, TypeOK
    <3>2. QED
      BY <3>1, ConstTypes, TailsIdle
  <2>2. CASE p # q
    <3>1. op'[p] = op[p]
      BY <2>2 DEF Stop, ChainInv, TypeOK
    <3>2. op[p].pc \in {"audit", "receipt"} => inst'[op[p].inst] = inst[op[p].inst]
      <4>1. op[p].inst \in Inst
        BY DEF ChainInv, TypeOK, OpState
      <4>2. op[p].pc \in {"audit", "receipt"} => ProcOf[op[p].inst] # q
        BY <2>2 DEF ChainInv, CallsWellFormed
      <4>3. QED
        BY <4>1, <4>2 DEF Stop
    <3>3. QED
      BY <1>1, <3>1, <3>2, TailsFrame
  <2>3. QED
    BY <2>1, <2>2
<1>4. QED
  BY <1>1, <1>2, <1>3, ChainSameFiles, MemoryAndTails DEF MemoryCurrent, MemoryOf, TailsHeld, TailsOf

\* A constructor and close() touch one instance, which no call is using.
LEMMA ChainOneInstance ==
  ASSUME ChainInv, UNCHANGED <<files, op>>, NEW i \in Inst, NEW m,
         inst' = [inst EXCEPT ![i] = m],
         inst[i].status # "open" \/ op[ProcOf[i]].pc = "idle",
         MemoryOf(i)'
  PROVE  MemoryCurrent' /\ TailsHeld' /\ AuditChained' /\ ReceiptsChained'
<1>1. \A j \in Inst : j # i => inst'[j] = inst[j]
  BY DEF ChainInv, TypeOK
<1>2. ASSUME NEW j \in Inst PROVE MemoryOf(j)'
  BY <1>1, MemoryFrame
<1>3. ASSUME NEW p \in Proc PROVE TailsOf(p)'
  <2>1. op[p].inst \in Inst
    BY DEF ChainInv, TypeOK, OpState
  <2>2. op[p].pc \in {"audit", "receipt"} => op[p].inst # i
    BY DEF ChainInv, CallsWellFormed
  <2>3. QED
    BY <1>1, <2>1, <2>2, TailsFrame
<1>4. QED
  BY <1>2, <1>3, ChainSameFiles, MemoryAndTails DEF MemoryCurrent, MemoryOf, TailsHeld, TailsOf

\* close() forgets the instance's memory.
LEMMA ChainClose ==
  ASSUME ChainInv, NEW i \in Inst, Close(i)
  PROVE  MemoryCurrent' /\ TailsHeld' /\ AuditChained' /\ ReceiptsChained'
<1>1. inst' = [inst EXCEPT ![i] = Closed] /\ UNCHANGED <<files, op>> /\ op[ProcOf[i]].pc = "idle"
  BY DEF Close
<1>2. inst'[i] = Closed
  BY <1>1 DEF ChainInv, TypeOK
<1>3. MemoryOf(i)'
  BY <1>2 DEF MemoryOf, Closed
<1>4. QED
  BY <1>1, <1>3, ChainOneInstance

\* The constructor remembers the tail of the file it validated.
LEMMA ChainOpen ==
  ASSUME ChainInv, NEW i \in Inst, Open(i)
  PROVE  MemoryCurrent' /\ TailsHeld' /\ AuditChained' /\ ReceiptsChained'
<1>1. UNCHANGED <<files, op>> /\ op[ProcOf[i]].pc = "idle" /\ inst[i].status = "closed"
  BY DEF Open
<1>2. inst[i] \in InstState /\ inst \in [Inst -> InstState]
  BY DEF ChainInv, TypeOK
<1>3. ASSUME NEW st \in {"rejected", "failed"}, inst' = [inst EXCEPT ![i].status = st]
      PROVE  MemoryCurrent' /\ TailsHeld' /\ AuditChained' /\ ReceiptsChained'
  <2> DEFINE m == [inst[i] EXCEPT !.status = st]
  <2>1. inst' = [inst EXCEPT ![i] = m]
    BY <1>3
  <2>2. inst'[i] = m /\ m.status = st
    BY <1>2, <2>1 DEF InstState
  <2> HIDE DEF m
  <2>3. MemoryOf(i)'
    BY <2>2 DEF MemoryOf
  <2>4. QED
    BY <1>1, <2>1, <2>3, ChainOneInstance
<1>4. ASSUME inst' = [inst EXCEPT ![i] = Opened(i)]
      PROVE  MemoryCurrent' /\ TailsHeld' /\ AuditChained' /\ ReceiptsChained'
  <2>1. inst'[i] = Opened(i)
    BY <1>2, <1>4
  <2>2. inst[i] = Closed
    BY <1>1, MemoryAndTails DEF ChainInv, MemoryOf
  <2>3. /\ Opened(i).status = "open" /\ Opened(i).size = Len(files[SinkOf[i]])
        /\ Opened(i).last = TailHash(files[SinkOf[i]])
        /\ ReceiptOf[i] # NoPath =>
             Opened(i).rlast = ReceiptTail(i).hash /\ Opened(i).rseq = ReceiptTail(i).seq
    BY DEF Opened
  <2>4. files[ReceiptOf[i]] = <<>> => ReceiptTail(i).hash = Genesis /\ ReceiptTail(i).seq = 0
    BY <2>2 DEF ReceiptTail, Closed
  <2>5. Len(files[SinkOf[i]]) <= Len(files[SinkOf[i]])
    <3>1. files[SinkOf[i]] \in Seq(Chunk)
      BY PathsOf DEF ChainInv, TypeOK
    <3>2. QED
      BY <3>1
  <2>6. MemoryOf(i)'
    BY <1>1, <2>1, <2>3, <2>4, <2>5 DEF MemoryOf
  <2>7. QED
    BY <1>1, <1>4, <2>6, ChainOneInstance
<1>5. QED
  BY <1>3, <1>4 DEF Open

\* The entry into log() relies on no tail yet.
LEMMA ChainLog ==
  ASSUME ChainInv, NEW i \in Inst, Log(i)
  PROVE  MemoryCurrent' /\ TailsHeld' /\ AuditChained' /\ ReceiptsChained'
<1> DEFINE o == [Idle EXCEPT !.pc = "lock", !.inst = i]
<1>1. UNCHANGED <<files, inst>> /\ op' = [op EXCEPT ![ProcOf[i]] = o]
  BY DEF Log
<1>2. o.pc = "lock" /\ op \in [Proc -> OpState]
  BY ConstTypes DEF OpState, ChainInv, TypeOK
<1> HIDE DEF o
<1>3. ASSUME NEW p \in Proc PROVE TailsOf(p)'
  <2>1. op'[p] = op[p] \/ op'[p] = o
    BY <1>1, <1>2
  <2>2. QED
    BY <1>1, <1>2, <2>1, TailsFrame, TailsIdle
<1>4. ASSUME NEW j \in Inst PROVE MemoryOf(j)'
  BY <1>1, MemoryFrame
<1>5. QED
  BY <1>1, <1>3, <1>4, ChainSameFiles, MemoryAndTails DEF MemoryCurrent, MemoryOf, TailsHeld, TailsOf

\* Taking and giving back locks, and giving up, reads and writes no sink.
LEMMA ChainLockStep ==
  ASSUME ChainInv, NEW q \in Proc, Acquire(q) \/ WaitTimesOut(q) \/ Release(q)
  PROVE  MemoryCurrent' /\ TailsHeld' /\ AuditChained' /\ ReceiptsChained'
<1>1. UNCHANGED <<files, inst>> /\ op[q] \in OpState /\ op \in [Proc -> OpState]
  BY DEF Acquire, WaitTimesOut, Release, ChainInv, TypeOK
<1>2. op'[q].pc \in {"lock", "release", "idle"}
  <2>1. CASE Acquire(q)
    <3> DEFINE o == [op[q] EXCEPT !.got = op[q].got \cup {NextSink(q)}]
    <3>1. op' = [op EXCEPT ![q] = o] /\ op[q].pc = "lock"
      BY <2>1 DEF Acquire
    <3>2. o.pc = op[q].pc
      BY <1>1 DEF OpState
    <3> HIDE DEF o
    <3>3. QED
      BY <1>1, <3>1, <3>2
  <2>2. CASE WaitTimesOut(q)
    BY <1>1, <2>2, RefusedPc DEF WaitTimesOut
  <2>3. CASE Release(q)
    <3> DEFINE o == [op[q] EXCEPT !.got = op[q].got \ {LastSink(q)}]
    <3>1. op' = [op EXCEPT ![q] = o] \/ op' = [op EXCEPT ![q] = Idle]
      BY <2>3 DEF Release
    <3>2. o.pc = op[q].pc /\ op[q].pc = "release"
      BY <1>1, <2>3 DEF OpState, Release
    <3> HIDE DEF o
    <3>3. QED
      BY <1>1, <3>1, <3>2, ConstTypes
  <2>4. QED
    BY <2>1, <2>2, <2>3
<1>3. ASSUME NEW p \in Proc PROVE TailsOf(p)'
  <2>1. CASE p = q
    BY <1>2, <2>1, TailsIdle
  <2>2. CASE p # q
    <3>1. op'[p] = op[p]
      BY <2>2, LogStepFrame DEF ChainInv, LogStep, Work
    <3>2. QED
      BY <1>1, <3>1, TailsFrame
  <2>3. QED
    BY <2>1, <2>2
<1>4. ASSUME NEW j \in Inst PROVE MemoryOf(j)'
  BY <1>1, MemoryFrame
<1>5. QED
  BY <1>1, <1>3, <1>4, ChainSameFiles, MemoryAndTails DEF MemoryCurrent, MemoryOf, TailsHeld, TailsOf

\* A read of a tail: q's call changes its own instance's memory only, and
\* leaves the files as they are.
LEMMA ChainRead ==
  ASSUME ChainInv, NEW q \in Proc, LogStep(q), UNCHANGED files,
         NEW i \in Inst, i = op[q].inst, NEW m,
         inst' = inst \/ inst' = [inst EXCEPT ![i] = m],
         MemoryOf(i)', TailsOf(q)'
  PROVE  MemoryCurrent' /\ TailsHeld' /\ AuditChained' /\ ReceiptsChained'
<1>1. \A j \in Inst : j # i => inst'[j] = inst[j]
  BY DEF ChainInv, TypeOK
<1>2. ASSUME NEW j \in Inst PROVE MemoryOf(j)'
  BY <1>1, MemoryFrame
<1>3. ASSUME NEW p \in Proc PROVE TailsOf(p)'
  <2>1. CASE p # q
    <3>1. op'[p] = op[p]
      BY <2>1, LogStepFrame DEF ChainInv
    <3>2. op[p].pc \in {"audit", "receipt"} => op[p].inst \in Inst /\ op[p].inst # op[q].inst
      BY <2>1, OtherCalls
    <3>3. QED
      BY <1>1, <3>1, <3>2, TailsFrame
  <2>2. QED
    BY <2>1
<1>4. QED
  BY <1>2, <1>3, ChainSameFiles, MemoryAndTails DEF MemoryCurrent, MemoryOf, TailsHeld, TailsOf

\* Once synced, a call holds the tail of its audit sink.
LEMMA ChainSync ==
  ASSUME ChainInv, NEW q \in Proc, Sync(q)
  PROVE  MemoryCurrent' /\ TailsHeld' /\ AuditChained' /\ ReceiptsChained'
<1>0. PICK i \in Inst : i = op[q].inst
  BY DEF ChainInv, TypeOK, OpState
<1> DEFINE f == files[SinkOf[i]]
<1>1. /\ inst[i] \in InstState /\ inst \in [Inst -> InstState]
      /\ op[q] \in OpState /\ op \in [Proc -> OpState] /\ f \in Seq(Chunk)
      /\ UNCHANGED files /\ LogStep(q)
      /\ MemoryOf(i) /\ inst[i].status = "open"
  BY <1>0, PathsOf, MemoryAndTails DEF ChainInv, TypeOK, OpState, CallsWellFormed, Sync, LogStep, Work
<1>2. CASE inst' = inst /\ op' = [op EXCEPT ![q] = Refused(op[q])]
  <2>1. MemoryOf(i)'
    BY <1>1, <1>2, MemoryFrame
  <2>2. TailsOf(q)'
    BY <1>1, <1>2, RefusedPc, TailsIdle
  <2>3. QED
    BY <1>0, <1>1, <1>2, <2>1, <2>2, ChainRead
<1>3. CASE inst' = [inst EXCEPT ![i] = Synced(i)] /\ op' = [op EXCEPT ![q].pc = "audit"]
  <2>1. /\ Synced(i).last = TailHash(f) /\ Synced(i).size = Len(f)
        /\ Synced(i).status = "open" /\ Synced(i).rlast = inst[i].rlast
        /\ Synced(i).rseq = inst[i].rseq
    BY <1>1 DEF Synced, Stale, InstState, MemoryOf
  <2>2. inst'[i] = Synced(i)
    BY <1>1, <1>3
  <2>3. Len(f) <= Len(f)
    BY <1>1
  <2>4. MemoryOf(i)'
    BY <1>1, <2>1, <2>2, <2>3 DEF MemoryOf
  <2>5. op'[q].inst = i /\ op'[q].pc = "audit"
    BY <1>0, <1>1, <1>3 DEF OpState
  <2>6. TailsOf(q)'
    BY <1>1, <2>1, <2>2, <2>5 DEF TailsOf
  <2>7. QED
    BY <1>0, <1>1, <1>3, <2>4, <2>6, ChainRead
<1>4. QED
  BY <1>0, <1>2, <1>3 DEF Sync

\* Once reloaded, a call holds the tail of its receipt sink.
LEMMA ChainLoadReceipts ==
  ASSUME ChainInv, NEW q \in Proc, LoadReceipts(q)
  PROVE  MemoryCurrent' /\ TailsHeld' /\ AuditChained' /\ ReceiptsChained'
<1>0. PICK i \in Inst : i = op[q].inst
  BY DEF ChainInv, TypeOK, OpState
<1> DEFINE f == files[ReceiptOf[i]]
           m == [inst[i] EXCEPT !.rlast = ReceiptTail(i).hash, !.rseq = ReceiptTail(i).seq]
<1>1. /\ inst[i] \in InstState /\ inst \in [Inst -> InstState]
      /\ op[q] \in OpState /\ op \in [Proc -> OpState]
      /\ UNCHANGED files /\ LogStep(q)
      /\ MemoryOf(i) /\ inst[i].status = "open" /\ ReceiptOf[i] # NoPath
  BY <1>0, MemoryAndTails DEF ChainInv, TypeOK, OpState, CallsWellFormed, LoadReceipts, LogStep, Work
<1>2. CASE inst' = inst /\ op' = [op EXCEPT ![q] = Refused(op[q])]
  <2>1. MemoryOf(i)'
    BY <1>1, <1>2, MemoryFrame
  <2>2. TailsOf(q)'
    BY <1>1, <1>2, RefusedPc, TailsIdle
  <2>3. QED
    BY <1>0, <1>1, <1>2, <2>1, <2>2, ChainRead
<1>3. CASE inst' = [inst EXCEPT ![i] = m] /\ op' = [op EXCEPT ![q].pc = "receipt"]
  <2>1. f \in Seq(Chunk) /\ \A k \in 1..Len(f) : f[k].seq = k
    BY <1>1, PathsOf DEF ChainInv, TypeOK, ReceiptsChained
  <2>2. ReceiptTail(i).hash = TailHash(f) /\ ReceiptTail(i).seq = Len(f)
    <3>1. CASE f = <<>>
      BY <1>1, <3>1 DEF ReceiptTail, TailHash, MemoryOf
    <3>2. CASE f # <<>>
      <4>1. Len(f) \in 1..Len(f)
        BY <2>1, <3>2
      <4>2. QED
        BY <2>1, <3>2, <4>1 DEF ReceiptTail, TailHash
    <3>3. QED
      BY <3>1, <3>2
  <2>3. /\ m.rlast = TailHash(f) /\ m.rseq = Len(f)
        /\ m.last = inst[i].last /\ m.size = inst[i].size /\ m.status = inst[i].status
    BY <1>1, <2>2 DEF InstState
  <2>4. f = <<>> => Len(f) = 0 /\ TailHash(f) = Genesis
    BY DEF TailHash
  <2> HIDE DEF m
  <2>5. inst'[i] = m
    BY <1>1, <1>3
  <2>6. MemoryOf(i)'
    BY <1>1, <2>3, <2>4, <2>5 DEF MemoryOf
  <2>7. op'[q].inst = i /\ op'[q].pc = "receipt"
    BY <1>0, <1>1, <1>3 DEF OpState
  <2>8. TailsOf(q)'
    BY <1>1, <2>3, <2>5, <2>7 DEF TailsOf
  <2>9. QED
    BY <1>0, <1>1, <1>3, <2>6, <2>8, ChainRead
<1>4. QED
  BY <1>0, <1>2, <1>3 DEF LoadReceipts

\* Every action keeps the chains, the memories and the tails.
LEMMA StepChain ==
  ASSUME ChainInv, [Next]_vars
  PROVE  MemoryCurrent' /\ TailsHeld' /\ AuditChained' /\ ReceiptsChained'
<1>1. ASSUME NEW q \in Proc, Start(q)
      PROVE  MemoryCurrent' /\ TailsHeld' /\ AuditChained' /\ ReceiptsChained'
  BY <1>1, ChainStart DEF Start
<1>2. CASE UNCHANGED vars
  BY <1>2, ChainStart DEF vars
<1>3. QED
  BY <1>1, <1>2, ChainStop, ChainOpen, ChainClose, ChainLog, ChainLockStep, ChainSync,
     ChainAppendAudit, ChainLoadReceipts, ChainWriteReceipt DEF Next, LogStep, Work

\* The first state: no file has a line, no lock is taken, nothing is open.
LEMMA InitChain == Init => ChainInv
<1> SUFFICES ASSUME Init PROVE ChainInv
  OBVIOUS
<1>1. TypeOK /\ CallsWellFormed
  BY InitTypes
<1>2. /\ \A i \in Inst : inst[i] = Closed /\ files[SinkOf[i]] = <<>>
      /\ \A i \in Inst : ReceiptOf[i] # NoPath => files[ReceiptOf[i]] = <<>>
      /\ \A p \in Proc : op[p] = Idle
      /\ \A x \in Path : lock[x] = Free
  BY PathsOf DEF Init
<1>3. MemoryCurrent
  BY <1>2 DEF MemoryCurrent, Closed
<1>4. TailsHeld
  BY <1>2, ConstTypes DEF TailsHeld
<1>5. AuditChained /\ ReceiptsChained
  BY <1>2 DEF AuditChained, ReceiptsChained, Linked
<1>6. LockCountBalanced
  <2>1. \A i \in Inst : inst[i].status = "closed"
    BY <1>2 DEF Closed
  <2>2. \A x \in Path : Holders(x) = {}
    BY <2>1 DEF Holders
  <2>3. \A x \in Path : lock[x].owner = NoProc /\ lock[x].count = 0
    BY <1>2 DEF Free
  <2>4. QED
    BY <1>2, <2>2, <2>3, ConstTypes DEF LockCountBalanced, Balanced
<1>7. QED
  BY <1>1, <1>3, <1>4, <1>5, <1>6 DEF ChainInv

\* The inductive invariant: types, calls, locks, memories, tails and chains.
LEMMA ChainInvariant == Spec => []ChainInv
<1>1. ChainInv /\ [Next]_vars => ChainInv'
  <2> SUFFICES ASSUME ChainInv, [Next]_vars PROVE ChainInv'
    OBVIOUS
  <2>1. TypeOK' /\ CallsWellFormed' /\ LockCountBalanced'
    BY StepTypes, StepCalls, StepLocks DEF ChainInv
  <2>2. QED
    BY <2>1, StepChain DEF ChainInv
<1>2. QED
  BY <1>1, InitChain, PTL DEF Spec
-----------------------------------------------------------------------------
(* Records.                                                                *)

\* An append keeps what is recorded and, when it succeeds, records its line.
LEMMA RecordedWritten ==
  ASSUME NEW f \in Seq(Chunk), NEW line \in Chunk, NEW out \in {"ok"} \cup FaultKinds,
         NEW g, g = Written(f, line, out)
  PROVE  /\ \A k \in 1..Len(f) : k \in 1..Len(g) /\ g[k] = f[k]
         /\ out = "ok" => HasLine(g, line.hash)
         /\ \A k \in 1..Len(g) : k \in 1..Len(f) \/ g[k].hash = line.hash
<1>1. CASE out = "none"
  BY <1>1 DEF Written
<1>2. CASE out # "none"
  <2> DEFINE l == [line EXCEPT !.kind = out]
  <2>1. l \in Chunk /\ l.hash = line.hash /\ l.kind = out
    BY <1>2 DEF Chunk, FaultKinds
  <2>2. g = Append(f, l)
    BY <1>2 DEF Written
  <2> HIDE DEF l
  <2>3. /\ Len(g) = Len(f) + 1 /\ g[Len(f) + 1] = l
        /\ \A k \in 1..Len(f) : g[k] = f[k]
    BY <2>1, <2>2
  <2>4. /\ Len(f) \in Nat /\ Len(f) + 1 \in 1..Len(g)
        /\ \A k \in 1..Len(g) : k \in 1..Len(f) \/ k = Len(f) + 1
        /\ \A k \in 1..Len(f) : k \in 1..Len(g)
    BY <2>3
  <2>5. out = "ok" => g[Len(f) + 1].hash = line.hash /\ g[Len(f) + 1].kind = "ok"
    BY <2>1, <2>3
  <2>6. \A k \in 1..Len(g) : k \in 1..Len(f) \/ g[k].hash = line.hash
    BY <2>1, <2>3, <2>4
  <2>7. QED
    BY <2>3, <2>4, <2>5, <2>6 DEF HasLine
<1>3. QED
  BY <1>1, <1>2

\* A file's lines are those it had and, in the file x, one of hash h.
Grown(y, x, h) ==
  \A k \in 1..Len(files'[y]) :
    \/ k \in 1..Len(files[y]) /\ files'[y][k] = files[y][k]
    \/ y = x /\ files'[y][k].hash = h

\* The file an append writes to.
LEMMA AppendEffect ==
  ASSUME TypeOK, NEW x \in Path, NEW line \in Chunk, NEW out \in Outcomes,
         files' = [files EXCEPT ![x] = Written(files[x], line, out)]
  PROVE  /\ \A y \in Path : \A h : HasLine(files[y], h) => HasLine(files'[y], h)
         /\ out = "ok" => HasLine(files'[x], line.hash)
         /\ \A y \in Path : Grown(y, x, line.hash)
<1>1. files[x] \in Seq(Chunk) /\ out \in {"ok"} \cup FaultKinds
  BY OutcomeKinds DEF TypeOK
<1>2. files'[x] = Written(files[x], line, out) /\ \A y \in Path : y # x => files'[y] = files[y]
  BY DEF TypeOK
<1> DEFINE f == files[x]
           g == files'[x]
<1>3. /\ \A k \in 1..Len(f) : k \in 1..Len(g) /\ g[k] = f[k]
      /\ out = "ok" => HasLine(g, line.hash)
      /\ \A k \in 1..Len(g) : k \in 1..Len(f) \/ g[k].hash = line.hash
  <2> HIDE DEF f, g
  <2>1. f \in Seq(Chunk) /\ g = Written(f, line, out)
    BY <1>1, <1>2 DEF f, g
  <2>2. QED
    BY <1>1, <2>1, RecordedWritten
<1>4. QED
  BY <1>2, <1>3 DEF HasLine, Grown

\* An audit append and a receipt append are appends in that sense.
LEMMA AuditEffect ==
  ASSUME ChainInv, NEW q \in Proc, NEW i \in Inst, i = op[q].inst, AppendAudit(q)
  PROVE  \E out \in Outcomes :
           /\ files' = [files EXCEPT ![SinkOf[i]] = Written(files[SinkOf[i]], AuditLine(i), out)]
           /\ op' = [op EXCEPT ![q] =
                IF Passed(i, out)
                  THEN [op[q] EXCEPT !.pc = IF ReceiptOf[i] = NoPath THEN "release" ELSE "load",
                                     !.hash = fresh, !.ok = TRUE]
                  ELSE Refused(op[q])]
           /\ AuditLine(i) \in Chunk /\ AuditLine(i).hash = fresh
<1>1. AuditLine(i) \in Chunk
  BY LineTypes, ConstTypes DEF ChainInv, TypeOK
<1>2. AuditLine(i).hash = fresh
  BY DEF AuditLine
<1>3. QED
  BY <1>1, <1>2 DEF AppendAudit

\* The audit append writes to its instance's audit sink.
LEMMA AuditWrites ==
  ASSUME ChainInv, NEW q \in Proc, NEW i \in Inst, i = op[q].inst, AppendAudit(q)
  PROVE  \E out \in Outcomes, line \in Chunk :
           files' = [files EXCEPT ![SinkOf[i]] = Written(files[SinkOf[i]], line, out)]
<1>1. AuditLine(i) \in Chunk
  BY LineTypes, ConstTypes DEF ChainInv, TypeOK
<1>2. \E out \in Outcomes :
        files' = [files EXCEPT ![SinkOf[i]] = Written(files[SinkOf[i]], AuditLine(i), out)]
  BY DEF AppendAudit
<1>3. QED
  BY <1>1, <1>2

\* The receipt append writes one sink and moves its call to the release of its locks.
LEMMA ReceiptEffect ==
  ASSUME ChainInv, NEW q \in Proc, NEW i \in Inst, i = op[q].inst, WriteReceipt(q)
  PROVE  \E out \in Outcomes : \E line \in Chunk :
           /\ files' = [files EXCEPT ![ReceiptOf[i]] = Written(files[ReceiptOf[i]], line, out)]
           /\ op' = [op EXCEPT ![q] = IF Passed(i, out)
                                        THEN [op[q] EXCEPT !.pc = "release"]
                                        ELSE Refused(op[q])]
           /\ line.hash = op[q].hash /\ ReceiptOf[i] \in Path
<1>1. op[q].hash \in Nat /\ ReceiptOf[i] \in Path
  BY PathsOf DEF ChainInv, TypeOK, OpState, CallsWellFormed, WriteReceipt
<1>2. ReceiptLine(i, op[q].hash) \in Chunk /\ ReceiptLine(i, op[q].hash).hash = op[q].hash
  BY <1>1, LineTypes DEF ChainInv, ReceiptLine
<1>3. QED
  BY <1>1, <1>2 DEF WriteReceipt

\* A line, once in a file, stays there.
LEMMA RecordsStay ==
  ASSUME ChainInv, [Next]_vars
  PROVE  \A y \in Path : \A h : HasLine(files[y], h) => HasLine(files'[y], h)
<1>1. CASE UNCHANGED files
  BY <1>1 DEF Recorded
<1>2. ASSUME NEW q \in Proc, AppendAudit(q)
      PROVE  \A y \in Path : \A h : HasLine(files[y], h) => HasLine(files'[y], h)
  <2>1. PICK i \in Inst : i = op[q].inst
    BY DEF ChainInv, TypeOK, OpState
  <2>2. SinkOf[i] \in Path /\ TypeOK
    BY PathsOf DEF ChainInv
  <2>3. PICK out \in Outcomes, line \in Chunk :
          files' = [files EXCEPT ![SinkOf[i]] = Written(files[SinkOf[i]], line, out)]
    BY <1>2, <2>1, AuditWrites
  <2>4. QED
    BY <2>2, <2>3, AppendEffect
<1>3. ASSUME NEW q \in Proc, WriteReceipt(q)
      PROVE  \A y \in Path : \A h : HasLine(files[y], h) => HasLine(files'[y], h)
  <2>1. PICK i \in Inst : i = op[q].inst
    BY DEF ChainInv, TypeOK, OpState
  <2>2. PICK out \in Outcomes, line \in Chunk :
          /\ files' = [files EXCEPT ![ReceiptOf[i]] = Written(files[ReceiptOf[i]], line, out)]
          /\ ReceiptOf[i] \in Path
    BY <1>3, <2>1, ReceiptEffect
  <2>3. QED
    BY <2>2, AppendEffect DEF ChainInv
<1>4. QED
  BY <1>1, <1>2, <1>3 DEF Next, LogStep, Work, vars, Start, Stop, Open, Close, Log,
     Acquire, WaitTimesOut, Sync, LoadReceipts, Release

RecordOf(p) ==
  op[p].inst \in FailClosed =>
    LET i == op[p].inst
    IN  /\ op[p].ok \/ op[p].pc \in {"load", "receipt"} => HasLine(files[SinkOf[i]], op[p].hash)
        /\ op[p].ok /\ op[p].pc = "release" /\ ReceiptOf[i] # NoPath =>
             HasLine(files[ReceiptOf[i]], op[p].hash)

\* A call that is left alone has the line and the receipt it had.
LEMMA RecordFrame ==
  ASSUME ChainInv, [Next]_vars, NEW p \in Proc, RecordOf(p), op'[p] = op[p]
  PROVE  RecordOf(p)'
<1>1. op[p].inst \in Inst
  BY DEF ChainInv, TypeOK, OpState
<1>2. QED
  BY <1>1, RecordsStay, PathsOf DEF RecordOf

\* A call that is over, or that will throw, has nothing to show.
LEMMA RecordOver ==
  ASSUME NEW p \in Proc, ~op'[p].ok, op'[p].pc \notin {"load", "receipt"}
  PROVE  RecordOf(p)'
  BY DEF RecordOf

\* A call that throws will not be served.
LEMMA RefusedFields ==
  ASSUME NEW o \in OpState
  PROVE  ~Refused(o).ok /\ Refused(o).pc \notin {"load", "receipt"}
<1>1. ~Idle.ok /\ Idle.pc = "idle"
  BY DEF Idle
<1>2. QED
  BY <1>1 DEF Refused, OpState

\* Each action keeps what the calls in progress have recorded.
LEMMA StepRecorded ==
  ASSUME ChainInv, CallsRecorded, [Next]_vars, NEW p \in Proc
  PROVE  RecordOf(p)'
<1>0. RecordOf(p) /\ op \in [Proc -> OpState] /\ op[p] \in OpState
  BY DEF CallsRecorded, RecordOf, Recorded, ChainInv, TypeOK
<1>1. CASE op'[p] = op[p]
  BY <1>0, <1>1, RecordFrame
<1>2. CASE op'[p] = Idle
  <2>1. ~Idle.ok /\ Idle.pc = "idle"
    BY DEF Idle
  <2>2. QED
    BY <1>2, <2>1, RecordOver
<1>3. CASE op'[p] = Refused(op[p])
  BY <1>0, <1>3, RefusedFields, RecordOver
<1>4. PICK i \in Inst : i = op[p].inst
  BY <1>0 DEF OpState
<1>5. ASSUME AppendAudit(p) PROVE RecordOf(p)'
  <2>1. PICK out \in Outcomes :
          /\ files' = [files EXCEPT ![SinkOf[i]] = Written(files[SinkOf[i]], AuditLine(i), out)]
          /\ op' = [op EXCEPT ![p] =
               IF Passed(i, out)
                 THEN [op[p] EXCEPT !.pc = IF ReceiptOf[i] = NoPath THEN "release" ELSE "load",
                                    !.hash = fresh, !.ok = TRUE]
                 ELSE Refused(op[p])]
          /\ AuditLine(i) \in Chunk /\ AuditLine(i).hash = fresh
    BY <1>4, <1>5, AuditEffect
  <2>2. CASE ~Passed(i, out)
    BY <1>0, <1>3, <2>1, <2>2
  <2>3. CASE Passed(i, out)
    <3>1. /\ op'[p].inst = i /\ op'[p].hash = fresh
          /\ op'[p].pc = IF ReceiptOf[i] = NoPath THEN "release" ELSE "load"
      BY <1>0, <1>4, <2>1, <2>3 DEF OpState
    <3>2. i \in FailClosed => HasLine(files'[SinkOf[i]], fresh)
      <4>1. SinkOf[i] \in Path /\ TypeOK
        BY PathsOf DEF ChainInv
      <4>2. out = "ok" => HasLine(files'[SinkOf[i]], AuditLine(i).hash)
        BY <2>1, <4>1, AppendEffect
      <4>3. QED
        BY <2>1, <2>3, <4>2 DEF Passed
    <3>3. QED
      BY <3>1, <3>2 DEF RecordOf
  <2>4. QED
    BY <2>2, <2>3
<1>6. ASSUME WriteReceipt(p) PROVE RecordOf(p)'
  <2>1. PICK out \in Outcomes, line \in Chunk :
          /\ files' = [files EXCEPT ![ReceiptOf[i]] = Written(files[ReceiptOf[i]], line, out)]
          /\ op' = [op EXCEPT ![p] = IF Passed(i, out) THEN [op[p] EXCEPT !.pc = "release"]
                                                       ELSE Refused(op[p])]
          /\ line.hash = op[p].hash /\ ReceiptOf[i] \in Path
    BY <1>4, <1>6, ReceiptEffect
  <2>2. CASE ~Passed(i, out)
    BY <1>0, <1>3, <2>1, <2>2
  <2>3. CASE Passed(i, out)
    <3>1. op'[p].inst = i /\ op'[p].hash = op[p].hash
      BY <1>0, <1>4, <2>1, <2>3 DEF OpState
    <3>2. op[p].pc = "receipt" /\ op'[p].pc = "release"
      BY <1>0, <1>6, <2>1, <2>3 DEF OpState, WriteReceipt
    <3>3. i \in FailClosed => HasLine(files'[SinkOf[i]], op[p].hash)
      BY <1>0, <1>4, <3>2, RecordsStay, PathsOf DEF RecordOf
    <3>4. i \in FailClosed => HasLine(files'[ReceiptOf[i]], line.hash)
      BY <2>1, <2>3, AppendEffect DEF ChainInv, Passed
    <3>5. QED
      BY <2>1, <3>1, <3>2, <3>3, <3>4 DEF RecordOf
  <2>4. QED
    BY <2>2, <2>3
\* The other actions of the call keep its instance, its line and whether it
\* has it.
<1>7. ASSUME op'[p].inst = i, op'[p].hash = op[p].hash, op'[p].ok = op[p].ok,
             op'[p].pc \in {"load", "receipt"} => op[p].pc \in {"load", "receipt"},
             op'[p].pc = "release" => op[p].pc = "release"
      PROVE  RecordOf(p)'
  <2>1. i \in FailClosed /\ (op[p].ok \/ op[p].pc \in {"load", "receipt"}) =>
          HasLine(files'[SinkOf[i]], op[p].hash)
    BY <1>0, <1>4, RecordsStay, PathsOf DEF RecordOf
  <2>2. i \in FailClosed /\ op[p].ok /\ op[p].pc = "release" /\ ReceiptOf[i] # NoPath =>
          HasLine(files'[ReceiptOf[i]], op[p].hash)
    BY <1>0, <1>4, RecordsStay, PathsOf DEF RecordOf
  <2>3. QED
    BY <1>7, <2>1, <2>2 DEF RecordOf
<1>8. ASSUME NEW j \in Inst, Log(j) PROVE RecordOf(p)'
  <2> DEFINE o == [Idle EXCEPT !.pc = "lock", !.inst = j]
  <2>1. op' = [op EXCEPT ![ProcOf[j]] = o]
    BY <1>8 DEF Log
  <2>2. ~o.ok /\ o.pc = "lock"
    BY DEF Idle
  <2> HIDE DEF o
  <2>3. op'[p] = op[p] \/ op'[p] = o
    BY <1>0, <2>1
  <2>4. QED
    BY <1>1, <2>2, <2>3, RecordOver
<1>9. ASSUME NEW q \in Proc, q # p, LogStep(q) PROVE op'[p] = op[p]
  BY <1>9, LogStepFrame DEF ChainInv
<1>10. ASSUME Acquire(p) PROVE RecordOf(p)'
  <2>1. op' = [op EXCEPT ![p].got = op[p].got \cup {NextSink(p)}]
    BY <1>10 DEF Acquire
  <2>2. QED
    BY <1>0, <1>4, <1>7, <2>1 DEF OpState
<1>11. ASSUME WaitTimesOut(p) PROVE RecordOf(p)'
  BY <1>0, <1>3, <1>11 DEF WaitTimesOut
<1>12. ASSUME Sync(p) PROVE RecordOf(p)'
  <2>1. CASE op' = [op EXCEPT ![p].pc = "audit"]
    BY <1>0, <1>4, <1>7, <2>1 DEF OpState
  <2>2. QED
    BY <1>0, <1>3, <1>12, <2>1 DEF Sync
<1>13. ASSUME LoadReceipts(p) PROVE RecordOf(p)'
  <2>1. CASE op' = [op EXCEPT ![p].pc = "receipt"]
    <3>1. op[p].pc = "load"
      BY <1>13 DEF LoadReceipts
    <3>2. QED
      BY <1>0, <1>4, <1>7, <2>1, <3>1 DEF OpState
  <2>2. QED
    BY <1>0, <1>3, <1>13, <2>1 DEF LoadReceipts
<1>14. ASSUME Release(p) PROVE RecordOf(p)'
  <2>1. CASE op' = [op EXCEPT ![p].got = op[p].got \ {LastSink(p)}]
    BY <1>0, <1>4, <1>7, <2>1 DEF OpState
  <2>2. CASE op' = [op EXCEPT ![p] = Idle]
    BY <1>0, <1>2, <2>2
  <2>3. QED
    BY <1>14, <2>1, <2>2 DEF Release
<1>15. ASSUME LogStep(p) PROVE RecordOf(p)'
  BY <1>5, <1>6, <1>10, <1>11, <1>12, <1>13, <1>14, <1>15 DEF LogStep, Work
<1>16. ASSUME NEW q \in Proc, Stop(q) PROVE RecordOf(p)'
  <2>1. op'[p] = op[p] \/ op'[p] = Idle
    BY <1>0, <1>16 DEF Stop
  <2>2. QED
    BY <1>1, <1>2, <2>1
<1>17. QED
  BY <1>1, <1>8, <1>9, <1>15, <1>16 DEF Next, vars, Start, Open, Close

\* What log() returned for is recorded, and no receipt is without its line.
RecordInv ==
  /\ ChainInv
  /\ CallsRecorded
  /\ ServedHasLines
  /\ ReceiptHasAuditLine

\* A step serves nothing that is not recorded.
LEMMA StepServed ==
  ASSUME RecordInv, [Next]_vars
  PROVE  ServedHasLines'
<1>1. \A s \in served : s[1] \in Inst
  BY DEF RecordInv, ChainInv, TypeOK
<1>2. ASSUME NEW s \in served, s[1] \in FailClosed
      PROVE  /\ HasLine(files'[SinkOf[s[1]]], s[2])
             /\ ReceiptOf[s[1]] # NoPath => HasLine(files'[ReceiptOf[s[1]]], s[2])
  BY <1>1, <1>2, RecordsStay, PathsOf DEF RecordInv, ServedHasLines, Recorded
<1>3. ASSUME NEW q \in Proc, Release(q), op[q].ok, op[q].inst \in FailClosed
      PROVE  /\ HasLine(files'[SinkOf[op[q].inst]], op[q].hash)
             /\ ReceiptOf[op[q].inst] # NoPath =>
                  HasLine(files'[ReceiptOf[op[q].inst]], op[q].hash)
  <2>1. UNCHANGED files
    BY <1>3 DEF Release
  <2>2. PICK i \in Inst : i = op[q].inst
    BY DEF RecordInv, ChainInv, TypeOK, OpState
  <2>3. /\ HasLine(files[SinkOf[i]], op[q].hash)
        /\ ReceiptOf[i] # NoPath => HasLine(files[ReceiptOf[i]], op[q].hash)
    BY <1>3, <2>2 DEF RecordInv, CallsRecorded, Recorded, Release
  <2>4. QED
    BY <2>1, <2>2, <2>3
<1>4. \A x \in Path : \A h : HasLine(files[x], h) => HasLine(files'[x], h)
  BY RecordsStay DEF RecordInv
<1>5. ASSUME NEW q \in Proc, Release(q) PROVE ServedHasLines'
  <2>1. \/ served' = served
        \/ op[q].ok /\ served' = served \cup {<<op[q].inst, op[q].hash>>}
    BY <1>5 DEF Release
  <2>2. QED
    BY <1>2, <1>3, <1>5, <2>1 DEF ServedHasLines, Recorded
<1>6. CASE served' = served
  BY <1>2, <1>6 DEF ServedHasLines, Recorded
<1>7. QED
  BY <1>5, <1>6 DEF Next, LogStep, Work, vars, Start, Stop, Open, Close, Log,
     Acquire, WaitTimesOut, Sync, AppendAudit, LoadReceipts, WriteReceipt

\* A receipt's hash is one a writer of its sink has, when fail-closed, a line for.
HasWriter(i, h) ==
  \E j \in Inst : /\ ReceiptOf[j] = ReceiptOf[i]
                  /\ j \in FailClosed => HasLine(files[SinkOf[j]], h)

\* A receipt that has its audit line keeps it.
LEMMA WritersStay ==
  ASSUME ChainInv, [Next]_vars, NEW i \in Inst, NEW h, HasWriter(i, h)
  PROVE  \E j \in Inst : /\ ReceiptOf[j] = ReceiptOf[i]
                         /\ j \in FailClosed => HasLine(files'[SinkOf[j]], h)
  BY RecordsStay, PathsOf DEF HasWriter

\* A step issues no receipt for a line that is not written.
LEMMA StepReceipts ==
  ASSUME RecordInv, [Next]_vars
  PROVE  ReceiptHasAuditLine'
<1> SUFFICES ASSUME NEW i \in Inst, ReceiptOf[i] # NoPath,
                    NEW k \in 1..Len(files'[ReceiptOf[i]])
             PROVE  \E j \in Inst :
                      /\ ReceiptOf[j] = ReceiptOf[i]
                      /\ j \in FailClosed =>
                           HasLine(files'[SinkOf[j]], files'[ReceiptOf[i]][k].hash)
  BY DEF ReceiptHasAuditLine, Recorded
<1>1. ChainInv /\ ReceiptOf[i] \in Path
  BY PathsOf DEF RecordInv
<1>2. CASE /\ k \in 1..Len(files[ReceiptOf[i]])
           /\ files'[ReceiptOf[i]][k] = files[ReceiptOf[i]][k]
  <2>1. HasWriter(i, files[ReceiptOf[i]][k].hash)
    BY <1>2 DEF RecordInv, ReceiptHasAuditLine, Recorded, HasWriter
  <2>2. QED
    BY <1>1, <1>2, <2>1, WritersStay
<1>3. CASE UNCHANGED files
  BY <1>2, <1>3
<1>4. ASSUME NEW q \in Proc, AppendAudit(q)
      PROVE  /\ k \in 1..Len(files[ReceiptOf[i]])
             /\ files'[ReceiptOf[i]][k] = files[ReceiptOf[i]][k]
  <2>1. PICK j \in Inst : j = op[q].inst
    BY <1>1 DEF ChainInv, TypeOK, OpState
  <2>2. SinkOf[j] \in Path /\ SinkOf[j] # ReceiptOf[i]
    BY PathsOf, AuditLogAssumption
  <2>3. PICK out \in Outcomes, line \in Chunk :
          files' = [files EXCEPT ![SinkOf[j]] = Written(files[SinkOf[j]], line, out)]
    BY <1>1, <1>4, <2>1, AuditWrites
  <2>4. files'[ReceiptOf[i]] = files[ReceiptOf[i]]
    BY <1>1, <2>2, <2>3 DEF ChainInv, TypeOK
  <2>5. QED
    BY <2>4
<1>5. ASSUME NEW q \in Proc, WriteReceipt(q)
      PROVE  \/ /\ k \in 1..Len(files[ReceiptOf[i]])
                /\ files'[ReceiptOf[i]][k] = files[ReceiptOf[i]][k]
             \/ HasWriter(i, files'[ReceiptOf[i]][k].hash)
  <2>1. PICK j \in Inst : j = op[q].inst
    BY <1>1 DEF ChainInv, TypeOK, OpState
  <2>2. PICK out \in Outcomes, line \in Chunk :
          /\ files' = [files EXCEPT ![ReceiptOf[j]] = Written(files[ReceiptOf[j]], line, out)]
          /\ line.hash = op[q].hash /\ ReceiptOf[j] \in Path
    BY <1>1, <1>5, <2>1, ReceiptEffect
  <2>3. \/ /\ k \in 1..Len(files[ReceiptOf[i]])
           /\ files'[ReceiptOf[i]][k] = files[ReceiptOf[i]][k]
        \/ ReceiptOf[i] = ReceiptOf[j] /\ files'[ReceiptOf[i]][k].hash = op[q].hash
    <3>1. \/ /\ k \in 1..Len(files[ReceiptOf[i]])
             /\ files'[ReceiptOf[i]][k] = files[ReceiptOf[i]][k]
          \/ ReceiptOf[i] = ReceiptOf[j] /\ files'[ReceiptOf[i]][k].hash = line.hash
      <4>1. PICK x \in Path : x = ReceiptOf[j]
        BY <2>2
      <4>2. TypeOK /\ files' = [files EXCEPT ![x] = Written(files[x], line, out)]
        BY <1>1, <2>2, <4>1 DEF ChainInv
      <4>3. Grown(ReceiptOf[i], x, line.hash)
        BY <1>1, <4>2, AppendEffect
      <4>4. QED
        BY <4>1, <4>3 DEF Grown
    <3>2. QED
      BY <2>2, <3>1
  <2>4. j \in FailClosed => HasLine(files[SinkOf[j]], op[q].hash)
    BY <1>5, <2>1 DEF RecordInv, CallsRecorded, Recorded, WriteReceipt
  <2>5. QED
    BY <2>3, <2>4 DEF HasWriter
<1>6. ASSUME NEW q \in Proc, WriteReceipt(q)
      PROVE  \E j \in Inst :
               /\ ReceiptOf[j] = ReceiptOf[i]
               /\ j \in FailClosed =>
                    HasLine(files'[SinkOf[j]], files'[ReceiptOf[i]][k].hash)
  <2>1. PICK h : h = files'[ReceiptOf[i]][k].hash
    OBVIOUS
  <2>2. CASE HasWriter(i, h)
    BY <1>1, <2>1, <2>2, WritersStay
  <2>3. QED
    BY <1>2, <1>5, <1>6, <2>1, <2>2
<1>7. QED
  BY <1>2, <1>3, <1>4, <1>6 DEF Next, LogStep, Work, vars, Start, Stop, Open, Close, Log,
     Acquire, WaitTimesOut, Sync, LoadReceipts, Release

\* What calls, accesses and receipts need to be recorded is, in every state.
LEMMA RecordInvariant == Spec => []RecordInv
<1>1. ASSUME Init PROVE RecordInv
  <2>1. CallsRecorded
    <3>1. \A p \in Proc : op[p] = Idle /\ ~Idle.ok
      BY <1>1 DEF Init, Idle
    <3>2. QED
      BY <3>1, ConstTypes DEF CallsRecorded
  <2>2. ServedHasLines
    BY <1>1 DEF Init, ServedHasLines
  <2>3. ReceiptHasAuditLine
    <3>1. \A i \in Inst : ReceiptOf[i] # NoPath => files[ReceiptOf[i]] = <<>>
      BY <1>1, PathsOf DEF Init
    <3>2. QED
      BY <3>1 DEF ReceiptHasAuditLine
  <2>4. QED
    BY <1>1, <2>1, <2>2, <2>3, InitChain DEF RecordInv
<1>2. ASSUME RecordInv, [Next]_vars PROVE RecordInv'
  <2>1. ChainInv'
    BY <1>2, StepTypes, StepCalls, StepLocks, StepChain DEF RecordInv, ChainInv
  <2>2. CallsRecorded'
    BY <1>2, StepRecorded DEF RecordInv, CallsRecorded, RecordOf, Recorded
  <2>3. QED
    BY <1>2, <2>1, <2>2, StepServed, StepReceipts DEF RecordInv
<1>3. QED
  BY <1>1, <1>2, PTL DEF Spec
-----------------------------------------------------------------------------
(* Acceptance: under WholeAppends, KeysKept and SharersAgree a process      *)
(* accepts what is in its sinks, at every moment.                          *)

\* A line that was written whole and that the process of these keys goes on from.
Fits(env, l) == l.kind = "ok" /\ Continues(env, l.mac, l.sig)

\* A sink whose lines its process accepts, signed without a break.
Kept(i) == \A k \in 1..Len(files[SinkOf[i]]) : Fits(keys[ProcOf[i]], files[SinkOf[i]][k])
Unbroken(f) == Contiguous(f, HasMac) /\ Contiguous(f, HasSig)

\* A process whose operator replaces no keys has its first ones.
Settled(p) == Rekey[FirstKeys[p]] = {} => keys[p] = FirstKeys[p]

AcceptInv ==
  /\ \A p \in Proc : Settled(p)
  /\ \A i \in Inst : Kept(i) /\ Unbroken(files[SinkOf[i]])
  /\ OwnSinkAccepted

\* validateChain accepts a chain of such lines.
LEMMA FittingIsValid ==
  ASSUME NEW f \in Seq(Chunk), NEW env, Linked(f), Unbroken(f),
         \A k \in 1..Len(f) : Fits(env, f[k])
  PROVE  ValidChain(f, env)
<1>1. \A k \in 1..Len(f) : f[k].kind = "ok"
  BY DEF Fits
<1>2. AllReadable(f)
  <2> SUFFICES ASSUME NEW k \in 1..Len(f) PROVE Readable(f, k)
    BY DEF AllReadable
  <2>1. k > 1 => k - 1 \in 1..Len(f)
    OBVIOUS
  <2>2. QED
    BY <1>1, <2>1 DEF Readable
<1>3. ASSUME NEW k \in 1..Len(f)
      PROVE  /\ HasMac(f[k]) /\ env.mac # NoKey => f[k].mac = env.mac
             /\ HasSig(f[k]) /\ TrustStore(env) # {} => f[k].sig \in TrustStore(env)
             /\ env.requireSig => /\ env.mac # NoKey => HasMac(f[k])
                                  /\ env.ed # NoKey => HasSig(f[k])
  BY <1>3 DEF Fits, Continues, HasMac, HasSig
<1>4. SignaturesAccepted(f, env)
  BY <1>3 DEF SignaturesAccepted
<1>5. QED
  BY <1>2, <1>4 DEF ValidChain, Unbroken

\* A process accepts what it signs.
LEMMA OwnLineFits ==
  ASSUME NEW env \in KeyEnv
  PROVE  Continues(env, env.mac, env.ed)
BY DEF Continues, TrustStore, KeyEnv

\* A line of a process that goes on from all the lines there are breaks nothing.
LEMMA UnbrokenAppend ==
  ASSUME NEW f \in Seq(Chunk), NEW l \in Chunk, NEW env, Unbroken(f),
         \A k \in 1..Len(f) : Fits(env, f[k]), l.mac = env.mac, l.sig = env.ed
  PROVE  Unbroken(Append(f, l))
<1>1. PICK g : g = Append(f, l)
  OBVIOUS
<1>2. /\ Len(f) \in Nat /\ Len(g) = Len(f) + 1 /\ g[Len(f) + 1] = l
      /\ \A k \in 1..Len(f) : g[k] = f[k]
  BY <1>1
<1>3. ASSUME NEW j \in 1..Len(g), NEW k \in 1..Len(g), j < k
      PROVE  (HasMac(g[j]) => HasMac(g[k])) /\ (HasSig(g[j]) => HasSig(g[k]))
  <2>1. j \in 1..Len(f) /\ g[j] = f[j]
    BY <1>2, <1>3
  <2>2. CASE k \in 1..Len(f)
    BY <1>2, <1>3, <2>1, <2>2 DEF Unbroken, Contiguous
  <2>3. CASE k = Len(f) + 1
    <3>1. g[k] = l /\ Fits(env, f[j])
      BY <1>2, <2>1, <2>3
    <3>2. QED
      BY <2>1, <3>1 DEF Fits, Continues, HasMac, HasSig
  <2>4. QED
    BY <1>2, <2>2, <2>3
<1>4. QED
  BY <1>1, <1>3 DEF Unbroken, Contiguous

\* A step that leaves keys and audit sinks alone, and rejects none.
LEMMA AcceptFrame ==
  ASSUME AcceptInv, keys' = keys, \A i \in Inst : files'[SinkOf[i]] = files[SinkOf[i]],
         \A i \in Inst : inst'[i].status # "rejected"
  PROVE  AcceptInv'
<1>1. \A p \in Proc : Settled(p)'
  BY DEF AcceptInv, Settled
<1>2. \A i \in Inst : Kept(i)' /\ Unbroken(files'[SinkOf[i]])
  BY DEF AcceptInv, Kept
<1>3. QED
  BY <1>1, <1>2 DEF AcceptInv, OwnSinkAccepted, Unbroken

\* A process that starts with other keys accepts what it accepted before.
LEMMA AcceptStart ==
  ASSUME KeysKept, ChainInv, AcceptInv, NEW p \in Proc, Start(p)
  PROVE  AcceptInv'
<1>1. PICK env \in {keys[p]} \cup Rekey[keys[p]] : keys' = [keys EXCEPT ![p] = env]
  BY DEF Start
<1>2. /\ keys = [q \in Proc |-> keys[q]] /\ keys[p] \in KeyEnv
      /\ files' = files /\ inst' = inst
  BY DEF Start, ChainInv, TypeOK
<1>3. keys'[p] = env /\ \A q \in Proc \ {p} : keys'[q] = keys[q]
  BY <1>1, <1>2
<1>4. ASSUME NEW q \in Proc PROVE Settled(q)'
  <2>1. CASE q = p
    BY <1>1, <1>3, <2>1 DEF AcceptInv, Settled
  <2>2. CASE q # p
    BY <1>3, <2>2 DEF AcceptInv, Settled
  <2>3. QED
    BY <2>1, <2>2
<1>5. ASSUME NEW i \in Inst PROVE Kept(i)'
  <2>1. ProcOf[i] \in Proc /\ files[SinkOf[i]] \in Seq(Chunk) /\ Kept(i)
    BY PathsOf, AuditLogAssumption DEF ChainInv, TypeOK, AcceptInv
  <2>2. CASE ProcOf[i] # p
    BY <1>2, <1>3, <2>1, <2>2 DEF Kept
  <2>3. CASE ProcOf[i] = p
    <3> SUFFICES ASSUME NEW k \in 1..Len(files[SinkOf[i]])
                 PROVE  Fits(env, files[SinkOf[i]][k])
      BY <1>2, <1>3, <2>3 DEF Kept
    <3>1. PICK l \in Chunk : l = files[SinkOf[i]][k]
      BY <2>1
    <3>2. l.mac \in Key \cup {NoKey} /\ l.sig \in Key \cup {NoKey}
      BY DEF Chunk
    <3>3. Fits(keys[p], l)
      BY <2>1, <2>3, <3>1 DEF Kept
    <3>4. Continues(env, l.mac, l.sig)
      BY <1>2, <3>2, <3>3 DEF KeysKept, Fits
    <3>5. QED
      BY <3>1, <3>3, <3>4 DEF Fits
  <2>4. QED
    BY <2>2, <2>3
<1>6. QED
  BY <1>2, <1>4, <1>5 DEF AcceptInv, OwnSinkAccepted, Unbroken

\* What is opened is accepted.
LEMMA AcceptOpen ==
  ASSUME ChainInv, AcceptInv, NEW i \in Inst, Open(i)
  PROVE  AcceptInv'
<1>1. files[SinkOf[i]] \in Seq(Chunk) /\ Linked(files[SinkOf[i]])
  BY PathsOf DEF ChainInv, TypeOK, AuditChained
<1>2. PICK f \in Seq(Chunk) : f = files[SinkOf[i]]
  BY <1>1
<1>3. PICK env : env = keys[ProcOf[i]]
  OBVIOUS
<1>4. Linked(f) /\ Unbroken(f) /\ \A k \in 1..Len(f) : Fits(env, f[k])
  BY <1>1, <1>2, <1>3 DEF AcceptInv, Kept
<1>5. ValidChain(f, env)
  BY <1>4, FittingIsValid
<1>6. /\ \/ inst' = [inst EXCEPT ![i].status = "failed"]
         \/ inst' = [inst EXCEPT ![i] = Opened(i)]
      /\ keys' = keys /\ files' = files
  BY <1>2, <1>3, <1>5 DEF Open
<1>7. inst[i] \in InstState /\ inst = [j \in Inst |-> inst[j]] /\ inst[i] = [inst[i] EXCEPT !.size = inst[i].size]
  BY DEF ChainInv, TypeOK, InstState
<1>8. Opened(i).status = "open"
  BY DEF Opened
<1>9. inst'[i].status \in {"failed", "open"} /\ \A j \in Inst \ {i} : inst'[j] = inst[j]
  BY <1>6, <1>7, <1>8 DEF InstState
<1>10. \A j \in Inst : inst'[j].status # "rejected"
  BY <1>9 DEF AcceptInv, OwnSinkAccepted
<1>11. QED
  BY <1>6, <1>10, AcceptFrame

\* The audit line of a process fits its sink, for whoever opens it next.
LEMMA AcceptAppend ==
  ASSUME WholeAppends, SharersAgree, ChainInv, AcceptInv, NEW q \in Proc, AppendAudit(q)
  PROVE  AcceptInv'
<1>1. PICK i \in Inst : i = op[q].inst
  BY DEF ChainInv, TypeOK, OpState
<1>2. ProcOf[i] = q /\ keys[q] \in KeyEnv /\ inst[i] \in InstState /\ inst[i].status = "open"
  BY <1>1 DEF ChainInv, TypeOK, CallsWellFormed, AppendAudit
<1>3. PICK f \in Seq(Chunk) : f = files[SinkOf[i]]
  BY PathsOf DEF ChainInv, TypeOK
<1>4. PICK line \in Chunk : line = AuditLine(i)
  BY LineTypes, ConstTypes DEF ChainInv, TypeOK
<1>5. PICK out \in Outcomes : /\ files' = [files EXCEPT ![SinkOf[i]] = Written(f, line, out)]
                              /\ inst' = [inst EXCEPT ![i] = AfterAudit(i, out)]
  BY <1>1, <1>3, <1>4 DEF AppendAudit
<1>6. keys' = keys
  BY DEF AppendAudit
<1>7. out \in {"ok", "none"}
  BY DEF Outcomes, WholeAppends
<1>8. files'[SinkOf[i]] = Written(f, line, out) /\ \A x \in Path \ {SinkOf[i]} : files'[x] = files[x]
  BY <1>5, PathsOf DEF ChainInv, TypeOK
<1>9. \A j \in Inst : inst'[j].status # "rejected"
  <2>1. AfterAudit(i, out).status = "open"
    BY <1>2 DEF AfterAudit, InstState
  <2>2. inst'[i] = AfterAudit(i, out) /\ \A j \in Inst \ {i} : inst'[j] = inst[j]
    BY <1>5 DEF ChainInv, TypeOK
  <2>3. QED
    BY <2>1, <2>2 DEF AcceptInv, OwnSinkAccepted
<1>10. CASE out = "none"
  <2>1. files'[SinkOf[i]] = f
    BY <1>8, <1>10 DEF Written
  <2>2. \A j \in Inst : files'[SinkOf[j]] = files[SinkOf[j]]
    BY <1>3, <1>8, <2>1, PathsOf
  <2>3. QED
    BY <1>6, <1>9, <2>2, AcceptFrame
<1>11. CASE out = "ok"
  <2>1. PICK l \in Chunk : /\ files'[SinkOf[i]] = Append(f, l)
                           /\ l.kind = "ok" /\ l.mac = keys[q].mac /\ l.sig = keys[q].ed
    <3>1. line.mac = keys[q].mac /\ line.sig = keys[q].ed /\ line.kind = "ok"
      BY <1>2, <1>4 DEF AuditLine
    <3>2. PICK l : l = [line EXCEPT !.kind = "ok"]
      OBVIOUS
    <3>3. l \in Chunk /\ l.kind = "ok" /\ l.mac = line.mac /\ l.sig = line.sig
      BY <3>2 DEF Chunk
    <3>4. Written(f, line, out) = Append(f, l)
      BY <1>11, <3>2 DEF Written
    <3>5. QED
      BY <1>8, <3>1, <3>3, <3>4
  <2>2. PICK g : g = Append(f, l)
    OBVIOUS
  <2>3. /\ Len(f) \in Nat /\ Len(g) = Len(f) + 1 /\ g[Len(f) + 1] = l
        /\ \A k \in 1..Len(f) : g[k] = f[k]
    BY <2>2
  <2>4. Unbroken(g)
    <3>1. PICK env : env = keys[q]
      OBVIOUS
    <3>2. Unbroken(f) /\ \A k \in 1..Len(f) : Fits(env, f[k])
      BY <1>2, <1>3, <3>1 DEF AcceptInv, Kept
    <3>3. QED
      BY <2>1, <2>2, <3>1, <3>2, UnbrokenAppend
  <2>5. ASSUME NEW j \in Inst, SinkOf[j] = SinkOf[i]
        PROVE  Fits(keys[ProcOf[j]], l)
    <3>1. CASE ProcOf[j] = q
      BY <1>2, <2>1, <3>1, OwnLineFits DEF Fits
    <3>2. CASE ProcOf[j] # q
      <4>1. ProcOf[j] \in Proc
        BY AuditLogAssumption
      <4>2. /\ Rekey[FirstKeys[ProcOf[j]]] = {} /\ Rekey[FirstKeys[q]] = {}
            /\ Continues(FirstKeys[ProcOf[j]], FirstKeys[q].mac, FirstKeys[q].ed)
        BY <1>2, <2>5, <3>2 DEF SharersAgree
      <4>3. keys[ProcOf[j]] = FirstKeys[ProcOf[j]] /\ keys[q] = FirstKeys[q]
        BY <4>1, <4>2 DEF AcceptInv, Settled
      <4>4. QED
        BY <2>1, <4>2, <4>3 DEF Fits
    <3>3. QED
      BY <3>1, <3>2
  <2>6. ASSUME NEW j \in Inst PROVE Kept(j)' /\ Unbroken(files'[SinkOf[j]])
    <3>1. CASE SinkOf[j] = SinkOf[i]
      <4>1. \A k \in 1..Len(g) : Fits(keys[ProcOf[j]], g[k])
        <5> SUFFICES ASSUME NEW k \in 1..Len(g) PROVE Fits(keys[ProcOf[j]], g[k])
          OBVIOUS
        <5>1. CASE k \in 1..Len(f)
          BY <1>3, <2>3, <3>1, <5>1 DEF AcceptInv, Kept
        <5>2. CASE k = Len(f) + 1
          BY <2>3, <2>5, <3>1, <5>2
        <5>3. QED
          BY <2>3, <5>1, <5>2
      <4>2. files'[SinkOf[j]] = g
        BY <2>1, <2>2, <3>1
      <4>3. QED
        BY <1>6, <2>4, <4>1, <4>2 DEF Kept
    <3>2. CASE SinkOf[j] # SinkOf[i]
      <4>1. files'[SinkOf[j]] = files[SinkOf[j]]
        BY <1>8, <3>2, PathsOf
      <4>2. QED
        BY <1>6, <4>1 DEF AcceptInv, Kept
    <3>3. QED
      BY <3>1, <3>2
  <2>7. \A p \in Proc : Settled(p)'
    BY <1>6 DEF AcceptInv, Settled
  <2>8. QED
    BY <1>9, <2>6, <2>7 DEF AcceptInv, OwnSinkAccepted, Unbroken
<1>12. QED
  BY <1>7, <1>10, <1>11

\* A receipt goes to a file that is nobody's audit sink.
LEMMA AcceptReceipt ==
  ASSUME ChainInv, AcceptInv, NEW q \in Proc, WriteReceipt(q)
  PROVE  AcceptInv'
<1>1. PICK i \in Inst : i = op[q].inst
  BY DEF ChainInv, TypeOK, OpState
<1>2. PICK out, f : /\ files' = [files EXCEPT ![ReceiptOf[i]] = f]
                    /\ inst' = [inst EXCEPT ![i] = AfterReceipt(i, op[q].hash, out)]
  BY <1>1 DEF WriteReceipt
<1>3. \A j \in Inst : SinkOf[j] # ReceiptOf[i] /\ SinkOf[j] \in Path
  BY PathsOf, AuditLogAssumption
<1>4. \A j \in Inst : files'[SinkOf[j]] = files[SinkOf[j]]
  BY <1>2, <1>3 DEF ChainInv, TypeOK
<1>5. inst[i] \in InstState /\ inst = [j \in Inst |-> inst[j]]
  BY DEF ChainInv, TypeOK
<1>6. AfterReceipt(i, op[q].hash, out).status = inst[i].status
  BY <1>5 DEF AfterReceipt, InstState
<1>7. \A j \in Inst : inst'[j].status = inst[j].status
  BY <1>2, <1>5, <1>6
<1>8. keys' = keys
  BY DEF WriteReceipt
<1>9. QED
  BY <1>4, <1>7, <1>8, AcceptFrame DEF AcceptInv, OwnSinkAccepted

\* A step of these kinds writes no file; but for the two that read one, it changes
\* an instance only to close it.
LEMMA QuietFrame ==
  ASSUME TypeOK
  PROVE  /\ \A p \in Proc : Stop(p) => /\ keys' = keys /\ files' = files
                                      /\ \A i \in Inst : inst'[i] \in {inst[i], Closed}
         /\ \A p \in Proc : Acquire(p) \/ WaitTimesOut(p) \/ Release(p) =>
              keys' = keys /\ files' = files /\ inst' = inst
         /\ \A p \in Proc : Sync(p) \/ LoadReceipts(p) => keys' = keys /\ files' = files
         /\ \A i \in Inst : Log(i) => keys' = keys /\ files' = files /\ inst' = inst
         /\ \A i \in Inst : Close(i) => /\ keys' = keys /\ files' = files /\ op' = op
                                       /\ \A j \in Inst : inst'[j] \in {inst[j], Closed}
         /\ UNCHANGED vars => keys' = keys /\ files' = files /\ inst' = inst /\ op' = op
<1>1. inst = [i \in Inst |-> inst[i]]
  BY DEF TypeOK
<1>2. ASSUME NEW p \in Proc, Stop(p)
      PROVE  keys' = keys /\ files' = files /\ \A i \in Inst : inst'[i] \in {inst[i], Closed}
  BY <1>2 DEF Stop
<1>3. ASSUME NEW p \in Proc, Acquire(p) \/ WaitTimesOut(p) \/ Release(p)
      PROVE  keys' = keys /\ files' = files /\ inst' = inst
  BY <1>3 DEF Acquire, WaitTimesOut, Release
<1>4. ASSUME NEW p \in Proc, Sync(p) \/ LoadReceipts(p) PROVE keys' = keys /\ files' = files
  BY <1>4 DEF Sync, LoadReceipts
<1>5. ASSUME NEW i \in Inst, Log(i) PROVE keys' = keys /\ files' = files /\ inst' = inst
  BY <1>5 DEF Log
<1>6. ASSUME NEW i \in Inst, Close(i)
      PROVE  /\ keys' = keys /\ files' = files /\ op' = op
             /\ \A j \in Inst : inst'[j] \in {inst[j], Closed}
  BY <1>1, <1>6 DEF Close
<1>7. UNCHANGED vars => keys' = keys /\ files' = files /\ inst' = inst /\ op' = op
  BY DEF vars
<1>8. QED
  BY <1>2, <1>3, <1>4, <1>5, <1>6, <1>7

\* The other steps write nothing, and reject nothing.
LEMMA AcceptQuiet ==
  ASSUME ChainInv, AcceptInv,
         \/ \E p \in Proc : Stop(p) \/ Acquire(p) \/ WaitTimesOut(p) \/ Sync(p) \/ LoadReceipts(p) \/ Release(p)
         \/ \E i \in Inst : Close(i) \/ Log(i)
         \/ UNCHANGED vars
  PROVE  AcceptInv'
<1>1. keys' = keys /\ files' = files
  BY QuietFrame DEF ChainInv
<1>2. \A i \in Inst : inst[i].status # "rejected"
  BY DEF AcceptInv, OwnSinkAccepted
<1>3. Closed.status = "closed"
  BY DEF Closed
<1>4. CASE \A i \in Inst : inst'[i] \in {inst[i], Closed}
  <2>1. \A i \in Inst : inst'[i].status # "rejected"
    BY <1>2, <1>3, <1>4
  <2>2. QED
    BY <1>1, <2>1, AcceptFrame
<1>5. CASE \E p \in Proc : Sync(p) \/ LoadReceipts(p)
  <2>1. \E p \in Proc : LogStep(p)
    BY <1>5 DEF LogStep, Work
  <2>2. \A i \in Inst : inst'[i].status = inst[i].status
    BY <2>1, LogStepFrame DEF ChainInv
  <2>3. QED
    BY <1>1, <1>2, <2>2, AcceptFrame
<1>6. CASE inst' = inst
  BY <1>1, <1>2, <1>6, AcceptFrame
<1>7. QED
  BY <1>4, <1>5, <1>6, QuietFrame DEF ChainInv
-----------------------------------------------------------------------------
(* Legibility: in a file without a bare line only the last line can be     *)
(* torn, and nobody appends to one whose last line is.                     *)

TornAtMostLast(f) == NoBareLine(f) => \A k \in 1..Len(f) : k < Len(f) => f[k].kind = "ok"

WholeTail(f) == NoBareLine(f) /\ f # <<>> => f[Len(f)].kind = "ok"

\* An instance whose size is the file's, and a call about to append, have a
\* file with a whole tail.
SizeIsWhole(i) ==
  inst[i].status = "open" /\ inst[i].size = Len(files[SinkOf[i]]) => WholeTail(files[SinkOf[i]])
AppendsToWhole(p) ==
  LET i == op[p].inst
  IN  /\ op[p].pc = "audit" => WholeTail(files[SinkOf[i]])
      /\ op[p].pc = "receipt" => WholeTail(files[ReceiptOf[i]])

LegibleInv ==
  /\ \A x \in Path : TornAtMostLast(files[x])
  /\ \A i \in Inst : SizeIsWhole(i)
  /\ \A p \in Proc : AppendsToWhole(p)

\* A tail that getLastHash parses is whole when none lacks just its newline.
LEMMA ReadableTail ==
  ASSUME NEW f \in Seq(Chunk), TailReadable(f)
  PROVE  WholeTail(f)
<1>1. f # <<>> => Len(f) \in 1..Len(f)
  OBVIOUS
<1>2. f # <<>> => f[Len(f)] \in Chunk
  BY <1>1
<1>3. QED
  BY <1>1, <1>2 DEF NoBareLine, TailReadable, Readable, WholeTail, Chunk

\* In a file no line of which was joined, a whole line is legible.
LEMMA WholeLineLegible ==
  ASSUME NEW x \in Path, files[x] \in Seq(Chunk), TornAtMostLast(files[x]), NoBareLine(files[x]),
         NEW h, Recorded(x, h)
  PROVE  Legible(x, h)
<1>1. PICK k \in 1..Len(files[x]) : files[x][k].hash = h /\ files[x][k].kind = "ok"
  BY DEF Recorded, HasLine
<1>2. k > 1 => k - 1 \in 1..Len(files[x]) /\ k - 1 < Len(files[x])
  OBVIOUS
<1>3. Readable(files[x], k)
  BY <1>1, <1>2 DEF Readable, TornAtMostLast
<1>4. QED
  BY <1>1, <1>3 DEF Legible

\* An append after a whole tail tears at most the last line, and a new tail
\* that is torn makes the file longer than it was.
LEMMA AppendToWhole ==
  ASSUME NEW f \in Seq(Chunk), NEW line \in Chunk, NEW out \in {"ok"} \cup FaultKinds,
         TornAtMostLast(f), WholeTail(f)
  PROVE  /\ TornAtMostLast(Written(f, line, out))
         /\ out = "ok" => WholeTail(Written(f, line, out))
         /\ Written(f, line, out) = f \/ Len(Written(f, line, out)) = Len(f) + 1
<1>1. CASE out = "none"
  BY <1>1 DEF Written
<1>2. CASE out # "none"
  <2>1. PICK l \in Chunk : Written(f, line, out) = Append(f, l) /\ l.kind = out
    <3>1. [line EXCEPT !.kind = out] \in Chunk /\ [line EXCEPT !.kind = out].kind = out
      BY <1>2 DEF Chunk, FaultKinds
    <3>2. QED
      BY <1>2, <3>1 DEF Written
  <2>2. PICK g : g = Append(f, l)
    OBVIOUS
  <2>3. /\ Len(f) \in Nat /\ Len(g) = Len(f) + 1 /\ g[Len(f) + 1] = l
        /\ \A k \in 1..Len(f) : g[k] = f[k]
    BY <2>2
  <2>4. NoBareLine(g) => NoBareLine(f)
    BY <2>3 DEF NoBareLine
  <2>5. ASSUME NoBareLine(f), NEW k \in 1..Len(f) PROVE f[k].kind = "ok"
    <3>1. CASE k < Len(f)
      BY <2>5, <3>1 DEF TornAtMostLast
    <3>2. CASE k = Len(f)
      BY <2>5, <3>2 DEF WholeTail
    <3>3. QED
      BY <3>1, <3>2
  <2>6. TornAtMostLast(g)
    BY <2>3, <2>4, <2>5 DEF TornAtMostLast
  <2>7. out = "ok" => WholeTail(g)
    BY <2>1, <2>3 DEF WholeTail
  <2>8. QED
    BY <2>1, <2>2, <2>3, <2>6, <2>7
<1>3. QED
  BY <1>1, <1>2

\* A step that writes nothing: who may append next could before, or has looked.
LEMMA LegibleQuiet ==
  ASSUME LegibleInv, files' = files,
         \A i \in Inst : inst'[i].status = "open" =>
           \/ inst[i].status = "open" /\ inst'[i].size = inst[i].size
           \/ WholeTail(files[SinkOf[i]]),
         \A p \in Proc : op'[p].pc \in {"audit", "receipt"} =>
           \/ op'[p] = op[p]
           \/ op'[p].pc = "audit" /\ WholeTail(files[SinkOf[op'[p].inst]])
           \/ op'[p].pc = "receipt" /\ WholeTail(files[ReceiptOf[op'[p].inst]])
  PROVE  LegibleInv'
<1>1. \A x \in Path : TornAtMostLast(files'[x])
  BY DEF LegibleInv
<1>2. ASSUME NEW i \in Inst PROVE SizeIsWhole(i)'
  BY DEF LegibleInv, SizeIsWhole
<1>3. ASSUME NEW p \in Proc PROVE AppendsToWhole(p)'
  BY DEF LegibleInv, AppendsToWhole
<1>4. QED
  BY <1>1, <1>2, <1>3 DEF LegibleInv, TornAtMostLast

\* An append to one sink by the call that holds its lock, after which no call of
\* its process is about to append and its instance counts what it wrote.
LEMMA LegibleWrite ==
  ASSUME ChainInv, LegibleInv, NEW q \in Proc, NEW x \in op[q].got, x \in Path,
         WholeTail(files[x]), NEW line \in Chunk, NEW out \in Outcomes,
         files' = [files EXCEPT ![x] = Written(files[x], line, out)],
         op'[q].pc \notin {"audit", "receipt"}, \A p \in Proc \ {q} : op'[p] = op[p],
         \A i \in Inst :
           /\ inst'[i].status = inst[i].status
           /\ inst'[i].size = inst[i].size \/ (SinkOf[i] = x /\ out = "ok")
  PROVE  LegibleInv'
<1>1. out \in {"ok"} \cup FaultKinds
  BY OutcomeKinds
<1>2. PICK f \in Seq(Chunk) : f = files[x]
  BY DEF ChainInv, TypeOK
<1>3. PICK g : g = Written(f, line, out)
  OBVIOUS
<1>4. files'[x] = g /\ \A y \in Path \ {x} : files'[y] = files[y]
  BY <1>2, <1>3 DEF ChainInv, TypeOK
<1>5. TornAtMostLast(g) /\ (out = "ok" => WholeTail(g)) /\ (g = f \/ Len(g) = Len(f) + 1)
  BY <1>1, <1>2, <1>3, AppendToWhole DEF LegibleInv
<1>6. \A y \in Path : TornAtMostLast(files'[y])
  BY <1>4, <1>5 DEF LegibleInv
<1>7. ASSUME NEW i \in Inst PROVE SizeIsWhole(i)'
  <2> SUFFICES ASSUME inst'[i].status = "open", inst'[i].size = Len(files'[SinkOf[i]])
               PROVE  WholeTail(files'[SinkOf[i]])
    BY DEF SizeIsWhole
  <2>1. /\ inst[i].status = "open" /\ SizeIsWhole(i) /\ SinkOf[i] \in Path
        /\ inst[i].size \in Nat /\ inst[i].size <= Len(files[SinkOf[i]])
    BY PathsOf DEF LegibleInv, ChainInv, MemoryCurrent, TypeOK, InstState
  <2>2. CASE SinkOf[i] # x
    BY <1>4, <2>1, <2>2 DEF SizeIsWhole
  <2>3. CASE SinkOf[i] = x /\ g = f
    BY <1>2, <1>4, <2>3
  <2>4. CASE SinkOf[i] = x /\ Len(g) = Len(f) + 1
    <3>1. inst'[i].size = Len(f) + 1 /\ inst[i].size <= Len(f) /\ Len(f) \in Nat
      BY <1>2, <1>4, <2>1, <2>4
    <3>2. out = "ok"
      BY <2>1, <3>1
    <3>3. QED
      BY <1>4, <1>5, <2>4, <3>2
  <2>5. QED
    BY <1>5, <2>2, <2>3, <2>4
<1>8. ASSUME NEW p \in Proc PROVE AppendsToWhole(p)'
  <2>1. CASE p = q
    BY <2>1 DEF AppendsToWhole
  <2>2. CASE p # q
    <3>1. op'[p] = op[p] /\ AppendsToWhole(p) /\ op[p].inst \in Inst
      BY <2>2 DEF LegibleInv, ChainInv, TypeOK, OpState
    <3>2. op[p].pc \in {"audit", "receipt"} => op[p].got = WriteSinks(op[p].inst) /\ x \notin op[p].got
      BY <2>2, LockExclusive DEF ChainInv, CallsWellFormed
    <3>3. op[p].pc = "audit" => files'[SinkOf[op[p].inst]] = files[SinkOf[op[p].inst]]
      BY <1>4, <3>1, <3>2, PathsOf
    <3>4. op[p].pc = "receipt" => ReceiptOf[op[p].inst] # NoPath
      BY DEF ChainInv, CallsWellFormed
    <3>5. op[p].pc = "receipt" => files'[ReceiptOf[op[p].inst]] = files[ReceiptOf[op[p].inst]]
      BY <1>4, <3>1, <3>2, <3>4, PathsOf
    <3>6. QED
      BY <3>1, <3>3, <3>5 DEF AppendsToWhole
  <2>3. QED
    BY <2>1, <2>2
<1>9. QED
  BY <1>6, <1>7, <1>8 DEF LegibleInv, TornAtMostLast

\* A constructor that accepts its file has read a whole tail.
LEMMA LegibleOpen ==
  ASSUME ChainInv, LegibleInv, NEW i \in Inst, Open(i)
  PROVE  LegibleInv'
<1>1. files' = files /\ op' = op
  BY DEF Open
<1>2. inst[i] \in InstState /\ inst = [j \in Inst |-> inst[j]]
  BY DEF ChainInv, TypeOK
<1>3. \A j \in Inst \ {i} : inst'[j] = inst[j]
  BY <1>2 DEF Open
<1>4. inst'[i].status = "open" => ValidChain(files[SinkOf[i]], keys[ProcOf[i]])
  BY <1>2 DEF Open, InstState
<1>5. PICK f \in Seq(Chunk) : f = files[SinkOf[i]]
  BY PathsOf DEF ChainInv, TypeOK
<1>6. AllReadable(f) => TailReadable(f)
  BY DEF AllReadable, TailReadable
<1>7. inst'[i].status = "open" => WholeTail(f)
  BY <1>4, <1>5, <1>6, ReadableTail, PathsOf DEF ValidChain, LegibleInv
<1>8. QED
  BY <1>1, <1>3, <1>5, <1>7, LegibleQuiet

\* syncLastHashIfStale leaves nothing to append to but a whole tail.
LEMMA LegibleSync ==
  ASSUME ChainInv, LegibleInv, NEW q \in Proc, Sync(q)
  PROVE  LegibleInv'
<1>1. PICK i \in Inst : i = op[q].inst
  BY DEF ChainInv, TypeOK, OpState
<1>2. /\ inst[i] \in InstState /\ inst = [j \in Inst |-> inst[j]] /\ op = [p \in Proc |-> op[p]]
      /\ op[q] \in OpState /\ inst[i].status = "open"
  BY <1>1 DEF ChainInv, TypeOK, CallsWellFormed, Sync
<1>3. PICK f \in Seq(Chunk) : f = files[SinkOf[i]]
  BY PathsOf DEF ChainInv, TypeOK
<1>4. files' = files
  BY DEF Sync
<1>5. CASE Stale(i) /\ ~TailReadable(f)
  <2>1. inst' = inst /\ op' = [op EXCEPT ![q] = Refused(op[q])]
    BY <1>1, <1>3, <1>5 DEF Sync
  <2>2. op'[q].pc \in {"idle", "release"} /\ \A p \in Proc \ {q} : op'[p] = op[p]
    BY <1>2, <2>1, RefusedPc
  <2>3. QED
    BY <1>4, <2>1, <2>2, LegibleQuiet
<1>6. CASE ~(Stale(i) /\ ~TailReadable(f))
  <2>1. inst' = [inst EXCEPT ![i] = Synced(i)] /\ op' = [op EXCEPT ![q].pc = "audit"]
    BY <1>1, <1>3, <1>6 DEF Sync
  <2>2. WholeTail(f)
    <3>1. CASE Stale(i)
      BY <1>3, <1>6, <3>1, ReadableTail, PathsOf DEF LegibleInv
    <3>2. CASE ~Stale(i)
      BY <1>2, <1>3, <3>2 DEF Stale, LegibleInv, SizeIsWhole
    <3>3. QED
      BY <3>1, <3>2
  <2>3. \A j \in Inst \ {i} : inst'[j] = inst[j]
    BY <1>2, <2>1
  <2>4. op'[q].pc = "audit" /\ op'[q].inst = i /\ \A p \in Proc \ {q} : op'[p] = op[p]
    BY <1>1, <1>2, <2>1 DEF OpState
  <2>5. QED
    BY <1>3, <1>4, <2>2, <2>3, <2>4, LegibleQuiet
<1>7. QED
  BY <1>5, <1>6

\* loadReceiptChainState leaves none to append to but a whole one either.
LEMMA LegibleLoad ==
  ASSUME ChainInv, LegibleInv, NEW q \in Proc, LoadReceipts(q)
  PROVE  LegibleInv'
<1>1. PICK i \in Inst : i = op[q].inst
  BY DEF ChainInv, TypeOK, OpState
<1>2. /\ inst[i] \in InstState /\ inst = [j \in Inst |-> inst[j]] /\ op = [p \in Proc |-> op[p]]
      /\ op[q] \in OpState /\ ReceiptOf[i] # NoPath
  BY <1>1 DEF ChainInv, TypeOK, CallsWellFormed, LoadReceipts
<1>3. PICK f \in Seq(Chunk) : f = files[ReceiptOf[i]]
  BY <1>2, PathsOf DEF ChainInv, TypeOK
<1>4. files' = files
  BY DEF LoadReceipts
<1>5. CASE ~TailReadable(f)
  <2>1. inst' = inst /\ op' = [op EXCEPT ![q] = Refused(op[q])]
    BY <1>1, <1>3, <1>5 DEF LoadReceipts
  <2>2. op'[q].pc \in {"idle", "release"} /\ \A p \in Proc \ {q} : op'[p] = op[p]
    BY <1>2, <2>1, RefusedPc
  <2>3. QED
    BY <1>4, <2>1, <2>2, LegibleQuiet
<1>6. CASE TailReadable(f)
  <2>. DEFINE Loaded == [inst[i] EXCEPT !.rlast = ReceiptTail(i).hash,
                                        !.rseq = ReceiptTail(i).seq]
  <2>1. inst' = [inst EXCEPT ![i] = Loaded] /\ op' = [op EXCEPT ![q].pc = "receipt"]
    BY <1>1, <1>3, <1>6 DEF LoadReceipts
  <2>2. Loaded.status = inst[i].status /\ Loaded.size = inst[i].size
    BY <1>2 DEF InstState
  <2>. HIDE DEF Loaded
  <2>3. \A j \in Inst : inst'[j].status = inst[j].status /\ inst'[j].size = inst[j].size
    BY <1>2, <2>1, <2>2
  <2>4. op'[q].pc = "receipt" /\ op'[q].inst = i /\ \A p \in Proc \ {q} : op'[p] = op[p]
    BY <1>1, <1>2, <2>1 DEF OpState
  <2>5. WholeTail(f)
    BY <1>2, <1>3, <1>6, ReadableTail, PathsOf DEF LegibleInv
  <2>6. QED
    BY <1>3, <1>4, <2>3, <2>4, <2>5, LegibleQuiet
<1>7. QED
  BY <1>5, <1>6

\* The audit append goes to a whole tail, and its instance counts what it wrote.
LEMMA LegibleAppend ==
  ASSUME ChainInv, LegibleInv, NEW q \in Proc, AppendAudit(q)
  PROVE  LegibleInv'
<1>1. PICK i \in Inst : i = op[q].inst
  BY DEF ChainInv, TypeOK, OpState
<1>2. /\ op[q] \in OpState /\ op[q].pc = "audit" /\ SinkOf[i] \in op[q].got /\ SinkOf[i] \in Path
      /\ WholeTail(files[SinkOf[i]]) /\ inst[i] \in InstState
  BY <1>1, PathsOf DEF ChainInv, TypeOK, CallsWellFormed, LegibleInv, AppendsToWhole, AppendAudit
<1>3. PICK line \in Chunk : line = AuditLine(i)
  BY LineTypes, ConstTypes DEF ChainInv, TypeOK
<1>4. PICK out \in Outcomes :
        /\ files' = [files EXCEPT ![SinkOf[i]] = Written(files[SinkOf[i]], line, out)]
        /\ inst' = [inst EXCEPT ![i] = AfterAudit(i, out)]
        /\ op' = [op EXCEPT ![q] =
             IF Passed(i, out)
               THEN [op[q] EXCEPT !.pc = IF ReceiptOf[i] = NoPath THEN "release" ELSE "load",
                                  !.hash = fresh, !.ok = TRUE]
               ELSE Refused(op[q])]
  BY <1>1, <1>3 DEF AppendAudit
<1>5. op'[q].pc \notin {"audit", "receipt"} /\ \A p \in Proc \ {q} : op'[p] = op[p]
  <2>1. Refused(op[q]).pc \notin {"audit", "receipt"}
    BY <1>2, RefusedPc
  <2>2. QED
    BY <1>2, <1>4, <2>1 DEF ChainInv, TypeOK, OpState
<1>6. ASSUME NEW j \in Inst
      PROVE  /\ inst'[j].status = inst[j].status
             /\ inst'[j].size = inst[j].size \/ (SinkOf[j] = SinkOf[i] /\ out = "ok")
  <2>1. inst'[j] = IF j = i THEN AfterAudit(i, out) ELSE inst[j]
    BY <1>4 DEF ChainInv, TypeOK
  <2>2. AfterAudit(i, out).status = inst[i].status /\ (out # "ok" => AfterAudit(i, out) = inst[i])
    BY <1>2 DEF AfterAudit, InstState
  <2>3. QED
    BY <2>1, <2>2
<1>7. PICK x : x = SinkOf[i]
  OBVIOUS
<1>8. files' = [files EXCEPT ![x] = Written(files[x], line, out)]
  BY <1>4, <1>7
<1>9. x \in op[q].got /\ x \in Path /\ WholeTail(files[x])
  BY <1>2, <1>7
<1>10. ASSUME NEW j \in Inst
       PROVE  /\ inst'[j].status = inst[j].status
              /\ inst'[j].size = inst[j].size \/ (SinkOf[j] = x /\ out = "ok")
  BY <1>6, <1>7
<1>11. QED
  BY <1>5, <1>8, <1>9, <1>10, LegibleWrite

\* So does the receipt.
LEMMA LegibleReceipt ==
  ASSUME ChainInv, LegibleInv, NEW q \in Proc, WriteReceipt(q)
  PROVE  LegibleInv'
<1>1. PICK i \in Inst : i = op[q].inst
  BY DEF ChainInv, TypeOK, OpState
<1>2. /\ op[q] \in OpState /\ op[q].pc = "receipt" /\ ReceiptOf[i] \in op[q].got
      /\ ReceiptOf[i] \in Path /\ WholeTail(files[ReceiptOf[i]]) /\ inst[i] \in InstState
  BY <1>1, PathsOf DEF ChainInv, TypeOK, CallsWellFormed, LegibleInv, AppendsToWhole, WriteReceipt
<1>3. op[q].hash \in Nat
  BY <1>2 DEF OpState
<1>4. PICK line \in Chunk : line = ReceiptLine(i, op[q].hash)
  BY <1>3, LineTypes DEF ChainInv
<1>5. PICK out \in Outcomes :
        /\ files' = [files EXCEPT ![ReceiptOf[i]] = Written(files[ReceiptOf[i]], line, out)]
        /\ inst' = [inst EXCEPT ![i] = AfterReceipt(i, op[q].hash, out)]
        /\ op' = [op EXCEPT ![q] = IF Passed(i, out) THEN [op[q] EXCEPT !.pc = "release"]
                                                     ELSE Refused(op[q])]
  BY <1>1, <1>4 DEF WriteReceipt
<1>6. op'[q].pc \notin {"audit", "receipt"} /\ \A p \in Proc \ {q} : op'[p] = op[p]
  <2>1. Refused(op[q]).pc \notin {"audit", "receipt"}
    BY <1>2, RefusedPc
  <2>2. QED
    BY <1>2, <1>5, <2>1 DEF ChainInv, TypeOK, OpState
<1>7. AfterReceipt(i, op[q].hash, out).status = inst[i].status
      /\ AfterReceipt(i, op[q].hash, out).size = inst[i].size
  BY <1>2 DEF AfterReceipt, InstState
<1>8. \A j \in Inst : inst'[j].status = inst[j].status /\ inst'[j].size = inst[j].size
  BY <1>5, <1>7 DEF ChainInv, TypeOK
<1>9. QED
  BY <1>2, <1>5, <1>6, <1>8, LegibleWrite

\* A start writes nothing.
LEMMA LegibleStart ==
  ASSUME LegibleInv, NEW p \in Proc, Start(p)
  PROVE  LegibleInv'
<1>1. files' = files /\ inst' = inst /\ op' = op
  BY DEF Start
<1>2. QED
  BY <1>1, LegibleQuiet

\* A call that enters log() waits for a lock.
LEMMA LogWaits ==
  ASSUME ChainInv, NEW i \in Inst, Log(i), NEW p \in Proc
  PROVE  op'[p] = op[p] \/ op'[p].pc = "lock"
<1> DEFINE o == [Idle EXCEPT !.pc = "lock", !.inst = i]
<1>1. op' = [op EXCEPT ![ProcOf[i]] = o]
  BY DEF Log
<1>2. o.pc = "lock" /\ op \in [Proc -> OpState]
  BY ConstTypes DEF OpState, ChainInv, TypeOK
<1> HIDE DEF o
<1>3. QED
  BY <1>1, <1>2

\* The other steps write nothing and let nobody append who could not before.
LEMMA LegibleOther ==
  ASSUME ChainInv, LegibleInv,
         \/ \E p \in Proc : Stop(p) \/ Acquire(p) \/ WaitTimesOut(p) \/ Release(p)
         \/ \E i \in Inst : Close(i) \/ Log(i)
         \/ UNCHANGED vars
  PROVE  LegibleInv'
<1>1. files' = files
  BY QuietFrame DEF ChainInv, vars
<1>2. inst = [i \in Inst |-> inst[i]] /\ op = [p \in Proc |-> op[p]]
      /\ \A p \in Proc : op[p] \in OpState /\ op[p].inst \in Inst /\ Refused(op[p]).pc \in {"idle", "release"}
  BY RefusedPc DEF ChainInv, TypeOK, OpState
<1>3. \A i \in Inst : inst'[i] = inst[i] \/ inst'[i] = Closed
  BY QuietFrame DEF ChainInv, vars
<1>4. ASSUME NEW p \in Proc, op'[p].pc \in {"audit", "receipt"} PROVE op'[p] = op[p]
  <2>1. CASE \E q \in Proc : Acquire(q)
    <3>1. PICK q \in Proc : Acquire(q)
      BY <2>1
    <3>2. op' = [op EXCEPT ![q].got = op[q].got \cup {NextSink(q)}] /\ op[q].pc = "lock"
      BY <3>1 DEF Acquire
    <3>3. op'[q].pc = "lock" /\ (p # q => op'[p] = op[p])
      BY <1>2, <3>2 DEF OpState
    <3>4. QED
      BY <1>4, <3>3
  <2>2. CASE \E q \in Proc : Release(q)
    <3>1. PICK q \in Proc : Release(q)
      BY <2>2
    <3>2. /\ \/ op' = [op EXCEPT ![q].got = op[q].got \ {LastSink(q)}]
             \/ op' = [op EXCEPT ![q] = Idle]
          /\ op[q].pc = "release"
      BY <3>1 DEF Release
    <3>3. op'[q].pc \in {"release", "idle"} /\ (p # q => op'[p] = op[p])
      BY <1>2, <3>2, ConstTypes DEF OpState
    <3>4. QED
      BY <1>4, <3>3
  <2>3. CASE \E q \in Proc : WaitTimesOut(q)
    BY <1>2, <1>4, <2>3 DEF WaitTimesOut
  <2>4. CASE \E q \in Proc : Stop(q)
    BY <1>2, <1>4, <2>4, ConstTypes DEF Stop
  <2>5. CASE \E i \in Inst : Log(i)
    BY <1>4, <2>5, LogWaits
  <2>6. CASE (\E i \in Inst : Close(i)) \/ UNCHANGED vars
    BY <2>6, QuietFrame DEF ChainInv, vars
  <2>7. QED
    BY <2>1, <2>2, <2>3, <2>4, <2>5, <2>6
<1>5. Closed.status = "closed"
  BY DEF Closed
<1>6. QED
  BY <1>1, <1>3, <1>4, <1>5, LegibleQuiet
-----------------------------------------------------------------------------
(* The theorems.                                                           *)

\* Every reachable state is of the shape the code gives its state, and every
\* log() in progress holds the locks its phase relies on.
THEOREM TypeCorrect == Spec => [](TypeOK /\ CallsWellFormed)
<1>1. Init => TypeOK /\ CallsWellFormed
  BY InitTypes
<1>2. TypeOK /\ CallsWellFormed /\ [Next]_vars => (TypeOK /\ CallsWellFormed)'
  BY StepTypes, StepCalls
<1>3. QED
  BY <1>1, <1>2, PTL DEF Spec

\* The re-entrant lock of every sink is held as often as it is owed: once for
\* each instance whose constructor took it and once for the write in progress.
THEOREM LocksBalance == Spec => []LockCountBalanced
<1>1. ChainInv => LockCountBalanced
  BY DEF ChainInv
<1>2. QED
  BY <1>1, ChainInvariant, PTL

\* The lines of every audit sink form one hash chain, whatever instances
\* share it, whatever appends fail and whoever is killed when.
THEOREM AuditIsOneChain == Spec => []AuditChained
<1>1. ChainInv => AuditChained
  BY DEF ChainInv
<1>2. QED
  BY <1>1, ChainInvariant, PTL

\* The receipts of every sink, shared by any number of processes, form one
\* chain numbered without a gap or a repetition.
THEOREM ReceiptsAreOneChain == Spec => []ReceiptsChained
<1>1. ChainInv => ReceiptsChained
  BY DEF ChainInv
<1>2. QED
  BY <1>1, ChainInvariant, PTL

\* No receipt of a fail-closed instance stands for a line that is not written.
THEOREM NoReceiptWithoutLine == Spec => []ReceiptHasAuditLine
<1>1. RecordInv => ReceiptHasAuditLine
  BY DEF RecordInv
<1>2. QED
  BY <1>1, RecordInvariant, PTL

\* A sink the program itself wrote is never called corrupt when it is opened
\* again, for any processes, restarts and failed appends: provided a failed append
\* leaves nothing in the file (WholeAppends), an operator's new keys accept what
\* the old ones did (KeysKept), and processes that take turns on a sink have keys
\* that fit (SharersAgree).
THEOREM OwnSinksAreAccepted ==
  WholeAppends /\ KeysKept /\ SharersAgree /\ Spec => []OwnSinkAccepted
<1> SUFFICES ASSUME WholeAppends, KeysKept, SharersAgree PROVE Spec => []OwnSinkAccepted
  OBVIOUS
<1>1. Init => AcceptInv
  <2> SUFFICES ASSUME Init PROVE AcceptInv
    OBVIOUS
  <2>1. \A i \in Inst : files[SinkOf[i]] = <<>> /\ inst[i] = Closed /\ Closed.status = "closed"
    BY PathsOf DEF Init, Closed
  <2>2. \A p \in Proc : Settled(p)
    BY DEF Init, Settled
  <2>3. \A i \in Inst : Kept(i) /\ Unbroken(files[SinkOf[i]])
    BY <2>1 DEF Kept, Unbroken, Contiguous
  <2>4. QED
    BY <2>1, <2>2, <2>3 DEF AcceptInv, OwnSinkAccepted
<1>2. ChainInv /\ AcceptInv /\ [Next]_vars => AcceptInv'
  <2> SUFFICES ASSUME ChainInv, AcceptInv, [Next]_vars PROVE AcceptInv'
    OBVIOUS
  <2>1. CASE \E p \in Proc : Start(p)
    BY <2>1, AcceptStart
  <2>2. CASE \E i \in Inst : Open(i)
    BY <2>2, AcceptOpen
  <2>3. CASE \E p \in Proc : AppendAudit(p)
    BY <2>3, AcceptAppend
  <2>4. CASE \E p \in Proc : WriteReceipt(p)
    BY <2>4, AcceptReceipt
  <2>5. CASE \/ \E p \in Proc : Stop(p) \/ Acquire(p) \/ WaitTimesOut(p) \/ Sync(p) \/ LoadReceipts(p) \/ Release(p)
             \/ \E i \in Inst : Close(i) \/ Log(i)
             \/ UNCHANGED vars
    BY <2>5, AcceptQuiet
  <2>6. QED
    BY <2>1, <2>2, <2>3, <2>4, <2>5 DEF Next, LogStep, Work
<1>3. AcceptInv => OwnSinkAccepted
  BY DEF AcceptInv
<1>4. QED
  BY <1>1, <1>2, <1>3, ChainInvariant, PTL DEF Spec

\* No access a fail-closed instance let through lacks its audit line or its
\* receipt, at whatever step an append failed or a process was killed; and in a
\* file without a bare line no later append joins them: a cut line stays the last
\* one of its file, whoever comes to it next.
THEOREM EveryServedAccessIsRecorded == Spec => []ServedIsRecorded
<1>1. Init => LegibleInv
  <2> SUFFICES ASSUME Init PROVE LegibleInv
    OBVIOUS
  <2>1. /\ \A x \in Path : files[x] = <<>>
        /\ \A i \in Inst : inst[i] = Closed /\ Closed.status = "closed"
        /\ \A p \in Proc : op[p] = Idle /\ Idle.pc = "idle"
    BY ConstTypes DEF Init, Closed
  <2>2. QED
    BY <2>1 DEF LegibleInv, TornAtMostLast, SizeIsWhole, AppendsToWhole
<1>2. ChainInv /\ LegibleInv /\ [Next]_vars => LegibleInv'
  BY LegibleStart, LegibleOpen, LegibleSync, LegibleLoad, LegibleAppend, LegibleReceipt, LegibleOther
     DEF Next, LogStep, Work
<1>3. RecordInv /\ LegibleInv => ServedIsRecorded
  <2> SUFFICES ASSUME RecordInv, LegibleInv, NEW s \in served, s[1] \in FailClosed,
                      NEW x \in WriteSinks(s[1])
               PROVE  Recorded(x, s[2]) /\ (NoBareLine(files[x]) => Legible(x, s[2]))
    BY DEF ServedIsRecorded
  <2>1. s[1] \in Inst /\ files \in [Path -> Seq(Chunk)]
    BY DEF RecordInv, ChainInv, TypeOK
  <2>2. Recorded(x, s[2])
    BY DEF RecordInv, ServedHasLines, WriteSinks
  <2>3. x \in Path /\ files[x] \in Seq(Chunk) /\ TornAtMostLast(files[x])
    BY <2>1, PathsOf DEF LegibleInv
  <2>4. QED
    BY <2>2, <2>3, WholeLineLegible
<1>4. QED
  BY <1>1, <1>2, <1>3, ChainInvariant, RecordInvariant, PTL DEF Spec
=============================================================================
