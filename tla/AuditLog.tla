------------------------------ MODULE AuditLog ------------------------------
(***************************************************************************)
(* The audit trail of src/audit.ts: instances of class Audit in several    *)
(* operating-system processes, each appending hash-chained lines to its    *)
(* own audit sink and, when one is configured, a signed receipt per line   *)
(* to a receipt sink that several processes may share.                     *)
(*                                                                         *)
(* Node runs one process's JavaScript on one thread and Audit.log is       *)
(* synchronous (even its waiting is, sleepSync), so inside a process two   *)
(* instances never interleave.  Processes interleave between the system    *)
(* calls of log(), and may die between any two of them.                    *)
(*                                                                         *)
(* The sink lock appears here as what acquireSinkLock promises: one owner  *)
(* process per path, re-entrant inside it, and free once its owner is      *)
(* dead.  Module SinkLock models the lock-file protocol itself.            *)
(*                                                                         *)
(* A hash is a number no other line has: a line's hash covers its          *)
(* prevHash and its timestamp, and SHA-256 is taken as injective.          *)
(***************************************************************************)
EXTENDS Naturals, Sequences, FiniteSets

CONSTANTS
  Proc,        \* operating-system processes
  NoProc,      \* no process
  Inst,        \* Audit instances
  ProcOf,      \* the process an instance lives in
  SinkOf,      \* audit.sink of an instance; a path is its lexicographic rank
  ReceiptOf,   \* audit.receiptSink of an instance, NoPath when not configured
  FailClosed,  \* instances built with failClosed left at its default, true
  Key, NoKey,  \* HMAC keys and Ed25519 key ids
  FirstKeys,   \* the signing environment of a process at its first start
  Rekey,       \* the environments an operator may restart it with
  Faults,      \* how an append can fail, a subset of FaultKinds
  CanTimeout,  \* whether the 10 s lock wait may run out
  MaxLogs, MaxFaults, MaxCrashes   \* bounds on log() calls, failed appends, process ends

NoPath == 0
Genesis == 0
Path == {SinkOf[i] : i \in Inst} \cup ({ReceiptOf[i] : i \in Inst} \ {NoPath})

\* "none": no byte reached the file; "cut": a part of the line did; "open":
\* all of it but the newline.  appendFileSync reports an error for each.
FaultKinds == {"none", "cut", "open"}

KeyEnv == [mac: Key \cup {NoKey}, ed: Key \cup {NoKey},
           trusted: SUBSET Key, requireSig: BOOLEAN]

\* What one append left in a file: a whole line, or a torn one.
Chunk == [kind: {"ok", "cut", "open"}, hash: Nat, prev: Nat, seq: Nat,
          mac: Key \cup {NoKey}, sig: Key \cup {NoKey}]

ASSUME AuditLogAssumption ==
  /\ NoProc \notin Proc
  /\ NoKey \notin Key
  /\ Inst # {} /\ IsFiniteSet(Inst)
  /\ ProcOf \in [Inst -> Proc]
  /\ SinkOf \in [Inst -> Nat \ {NoPath}]
  /\ ReceiptOf \in [Inst -> Nat]
  /\ \A i, j \in Inst : SinkOf[i] # ReceiptOf[j]
  /\ FailClosed \subseteq Inst
  /\ FirstKeys \in [Proc -> KeyEnv]
  /\ Rekey \in [KeyEnv -> SUBSET KeyEnv]
  /\ Faults \subseteq FaultKinds
  /\ CanTimeout \in BOOLEAN
  /\ MaxLogs \in Nat /\ MaxFaults \in Nat /\ MaxCrashes \in Nat

VARIABLES
  up,      \* the processes that are running
  keys,    \* the signing environment of each process
  files,   \* what each sink file holds, append by append
  lock,    \* each path's lock: its owner and the owner's heldLocks count
  inst,    \* each instance: its status and its memory of the chain tails
  op,      \* the log() call each process is executing
  fresh,   \* the next hash
  served,  \* the accesses whose log() returned, <<instance, hash>>
  faults, crashes  \* how often an append failed, a process ended

vars == <<up, keys, files, lock, inst, op, fresh, served, faults, crashes>>
-----------------------------------------------------------------------------
Idle == [pc |-> "idle", inst |-> CHOOSE i \in Inst : TRUE, got |-> {},
         hash |-> 0, ok |-> FALSE]
Closed == [status |-> "closed", last |-> Genesis, size |-> 0,
           rlast |-> Genesis, rseq |-> 0]
Free == [owner |-> NoProc, count |-> 0]

Init ==
  /\ up = {}
  /\ keys = FirstKeys
  /\ files = [x \in Path |-> <<>>]
  /\ lock = [x \in Path |-> Free]
  /\ inst = [i \in Inst |-> Closed]
  /\ op = [p \in Proc |-> Idle]
  /\ fresh = 1
  /\ served = {}
  /\ faults = 0 /\ crashes = 0
-----------------------------------------------------------------------------
(* Reading a sink file.                                                    *)

\* The k-th append is a line JSON.parse accepts: it is whole, and a newline
\* separates it from its neighbours.
Readable(f, k) ==
  /\ f[k].kind # "cut"
  /\ k > 1 => f[k-1].kind = "ok"
  /\ k < Len(f) => f[k].kind = "ok"

AllReadable(f) == \A k \in 1..Len(f) : Readable(f, k)

\* getLastHash and loadReceiptChainState parse the last line only.
TailReadable(f) == f # <<>> => Readable(f, Len(f))
TailHash(f) == IF f = <<>> THEN Genesis ELSE f[Len(f)].hash

Linked(f) == \A k \in 1..Len(f) : f[k].prev = IF k = 1 THEN Genesis ELSE f[k-1].hash

\* A signature, once a line carries one, is on every later line.
Contiguous(f, has(_)) == \A j, k \in 1..Len(f) : j < k /\ has(f[j]) => has(f[k])

HasMac(l) == l.mac # NoKey
HasSig(l) == l.sig # NoKey
\* Mutant: CONARIUM_AUDIT_TRUST_PUBKEYS is ignored.
TrustStore_OwnKeyOnly(env) == {env.ed} \ {NoKey}

TrustStore(env) == env.trusted \cup ({env.ed} \ {NoKey})

SignaturesAccepted(f, env) ==
  \A k \in 1..Len(f) :
    /\ HasMac(f[k]) /\ env.mac # NoKey => f[k].mac = env.mac
    /\ HasSig(f[k]) /\ TrustStore(env) # {} => f[k].sig \in TrustStore(env)
    /\ env.requireSig => /\ env.mac # NoKey => HasMac(f[k])
                         /\ env.ed # NoKey => HasSig(f[k])

\* validateChain: what the constructor demands of the file it finds.
ValidChain(f, env) ==
  /\ AllReadable(f)
  /\ Linked(f)
  /\ Contiguous(f, HasMac)
  /\ Contiguous(f, HasSig)
  /\ SignaturesAccepted(f, env)
-----------------------------------------------------------------------------
(* The sink lock, as acquireSinkLock and releaseSinkLock present it.       *)

Lockable(x, p) == lock[x].owner \in {NoProc, p}
Taken(l, p) == [owner |-> p, count |-> l.count + 1]
Released(l) == IF l.count <= 1 THEN Free ELSE [l EXCEPT !.count = @ - 1]

\* Mutant: a receipt is written without the receipt sink's lock.
WriteSinks_AuditOnly(i) == {SinkOf[i]}

\* writeLockSinks: the sinks of a write, taken in the order of their paths.
WriteSinks(i) == {SinkOf[i], ReceiptOf[i]} \ {NoPath}
Pending(p) == WriteSinks(op[p].inst) \ op[p].got
NextSink(p) == CHOOSE x \in Pending(p) : \A y \in Pending(p) : x <= y
LastSink(p) == CHOOSE x \in op[p].got : \A y \in op[p].got : y <= x

\* Mutant: a log() that throws keeps the locks it has.
Refused_KeepsLocks(o) == Idle

\* log() throws: acquireWriteLocks' catch or log's finally releases first.
Refused(o) == IF o.got = {} THEN Idle ELSE [o EXCEPT !.pc = "release", !.ok = FALSE]
-----------------------------------------------------------------------------
(* Processes.                                                              *)

\* A process starts, with the keys it had or with others from its operator.
Start(p) ==
  /\ p \notin up
  /\ up' = up \cup {p}
  /\ \E env \in {keys[p]} \cup Rekey[keys[p]] : keys' = [keys EXCEPT ![p] = env]
  /\ UNCHANGED <<files, lock, inst, op, fresh, served, faults, crashes>>

\* A process ends.  When it exits, its hook unlinks the locks it holds; when
\* it is killed, pidAlive tells the next taker that the owner is gone.
Stop(p) ==
  /\ p \in up
  /\ crashes < MaxCrashes
  /\ crashes' = crashes + 1
  /\ up' = up \ {p}
  /\ lock' = [x \in Path |-> IF lock[x].owner = p THEN Free ELSE lock[x]]
  /\ inst' = [i \in Inst |-> IF ProcOf[i] = p THEN Closed ELSE inst[i]]
  /\ op' = [op EXCEPT ![p] = Idle]
  /\ UNCHANGED <<keys, files, fresh, served, faults>>
-----------------------------------------------------------------------------
(* The constructor and close().                                            *)

\* The receipt tail an instance works from: what the file's last line says,
\* or, while there is none, what the instance remembers.
ReceiptTail(i) ==
  LET f == files[ReceiptOf[i]]
  IN  IF f = <<>> THEN [hash |-> inst[i].rlast, seq |-> inst[i].rseq]
                  ELSE [hash |-> f[Len(f)].hash, seq |-> f[Len(f)].seq]

ReceiptsUsable(i, env) ==
  ReceiptOf[i] # NoPath => env.ed # NoKey /\ TailReadable(files[ReceiptOf[i]])

\* Mutant: the size of the sink is off by one.
Opened_OffByOne(i) == [Closed EXCEPT !.status = "open", !.size = Len(files[SinkOf[i]]) - 1]

Opened(i) ==
  LET f == files[SinkOf[i]]
      r == IF ReceiptOf[i] = NoPath THEN [hash |-> Genesis, seq |-> 0] ELSE ReceiptTail(i)
  IN  [status |-> "open", last |-> TailHash(f), size |-> Len(f),
       rlast |-> r.hash, rseq |-> r.seq]

\* new Audit(...).  The lock on audit.sink is taken without waiting and kept
\* until close(); a check that fails throws and leaves the lock taken.
Open(i) ==
  LET p == ProcOf[i]
      x == SinkOf[i]
  IN  /\ p \in up
      /\ op[p].pc = "idle"
      /\ inst[i].status = "closed"
      /\ Lockable(x, p)
      /\ lock' = [lock EXCEPT ![x] = Taken(@, p)]
      /\ \/ /\ ~ValidChain(files[x], keys[p])
            /\ inst' = [inst EXCEPT ![i].status = "rejected"]
         \/ /\ ValidChain(files[x], keys[p])
            /\ ~ReceiptsUsable(i, keys[p])
            /\ inst' = [inst EXCEPT ![i].status = "failed"]
         \/ /\ ValidChain(files[x], keys[p])
            /\ ReceiptsUsable(i, keys[p])
            /\ inst' = [inst EXCEPT ![i] = Opened(i)]
      /\ UNCHANGED <<up, keys, files, op, fresh, served, faults, crashes>>

Close(i) ==
  /\ op[ProcOf[i]].pc = "idle"
  /\ inst[i].status = "open"
  /\ lock' = [lock EXCEPT ![SinkOf[i]] = Released(@)]
  /\ inst' = [inst EXCEPT ![i] = Closed]
  /\ UNCHANGED <<up, keys, files, op, fresh, served, faults, crashes>>
-----------------------------------------------------------------------------
(* log().                                                                  *)

\* The call enters acquireWriteLocks.
Log(i) ==
  /\ inst[i].status = "open"
  /\ op[ProcOf[i]].pc = "idle"
  /\ fresh <= MaxLogs
  /\ op' = [op EXCEPT ![ProcOf[i]] = [Idle EXCEPT !.pc = "lock", !.inst = i]]
  /\ UNCHANGED <<up, keys, files, lock, inst, fresh, served, faults, crashes>>

\* The next sink's lock is free or already this process's.
Acquire(p) ==
  /\ op[p].pc = "lock"
  /\ Pending(p) # {}
  /\ Lockable(NextSink(p), p)
  /\ lock' = [lock EXCEPT ![NextSink(p)] = Taken(@, p)]
  /\ op' = [op EXCEPT ![p].got = @ \cup {NextSink(p)}]
  /\ UNCHANGED <<up, keys, files, inst, fresh, served, faults, crashes>>

\* A live process kept the lock for LOCK_WAIT_MS.
WaitTimesOut(p) ==
  /\ CanTimeout
  /\ op[p].pc = "lock"
  /\ Pending(p) # {}
  /\ ~Lockable(NextSink(p), p)
  /\ op' = [op EXCEPT ![p] = Refused(@)]
  /\ UNCHANGED <<up, keys, files, lock, inst, fresh, served, faults, crashes>>

\* Mutant: the in-memory tail is always trusted.
Stale_Never(i) == FALSE

\* syncLastHashIfStale, under the locks: re-read the tail when the file is not
\* of the size this instance left it with.  getLastHash throws on a torn one.
Stale(i) == inst[i].size # Len(files[SinkOf[i]])
Synced(i) == IF Stale(i) THEN [inst[i] EXCEPT !.last = TailHash(files[SinkOf[i]]),
                                              !.size = Len(files[SinkOf[i]])]
                         ELSE inst[i]

Sync(p) ==
  LET i == op[p].inst
  IN  /\ op[p].pc = "lock"
      /\ Pending(p) = {}
      /\ \/ /\ Stale(i) /\ ~TailReadable(files[SinkOf[i]])
            /\ op' = [op EXCEPT ![p] = Refused(@)]
            /\ UNCHANGED inst
         \/ /\ Stale(i) => TailReadable(files[SinkOf[i]])
            /\ inst' = [inst EXCEPT ![i] = Synced(i)]
            /\ op' = [op EXCEPT ![p].pc = "audit"]
      /\ UNCHANGED <<up, keys, files, lock, fresh, served, faults, crashes>>

Outcomes == {"ok"} \cup IF faults < MaxFaults THEN Faults ELSE {}
Written(f, line, out) == IF out = "none" THEN f ELSE Append(f, [line EXCEPT !.kind = out])
Counted(out) == faults' = IF out = "ok" THEN faults ELSE faults + 1

\* Mutant: every failed append is swallowed.
Passed_Always(i, out) == TRUE

\* A failed append stops a fail-closed log(); otherwise it is swallowed.
Passed(i, out) == out = "ok" \/ i \notin FailClosed

AuditLine(i) == [kind |-> "ok", hash |-> fresh, prev |-> inst[i].last, seq |-> 0,
                 mac |-> keys[ProcOf[i]].mac, sig |-> keys[ProcOf[i]].ed]

\* Mutant: the tail advances before the append is known to have worked.
AfterAudit_Eager(i, out) ==
  [inst[i] EXCEPT !.last = fresh, !.size = Len(files[SinkOf[i]]) + (IF out = "ok" THEN 1 ELSE 0)]

\* The tail in memory advances only when the line is in the file.
AfterAudit(i, out) ==
  IF out = "ok"
    THEN [inst[i] EXCEPT !.last = fresh, !.size = Len(files[SinkOf[i]]) + 1]
    ELSE inst[i]

AppendAudit(p) ==
  LET i == op[p].inst
  IN  /\ op[p].pc = "audit"
      /\ \E out \in Outcomes :
           /\ files' = [files EXCEPT ![SinkOf[i]] = Written(@, AuditLine(i), out)]
           /\ inst' = [inst EXCEPT ![i] = AfterAudit(i, out)]
           /\ Counted(out)
           /\ op' = [op EXCEPT ![p] =
                IF Passed(i, out)
                  THEN [@ EXCEPT !.pc = IF ReceiptOf[i] = NoPath THEN "release" ELSE "load",
                                 !.hash = fresh, !.ok = TRUE]
                  ELSE Refused(@)]
      /\ fresh' = fresh + 1
      /\ UNCHANGED <<up, keys, lock, served, crashes>>

\* writeReceipt reloads the chain state the shared sink is in.  A tail that
\* does not parse throws, whatever failClosed says.
LoadReceipts(p) ==
  LET i == op[p].inst
  IN  /\ op[p].pc = "load"
      /\ \/ /\ ~TailReadable(files[ReceiptOf[i]])
            /\ op' = [op EXCEPT ![p] = Refused(@)]
            /\ UNCHANGED inst
         \/ /\ TailReadable(files[ReceiptOf[i]])
            /\ inst' = [inst EXCEPT ![i] = [@ EXCEPT !.rlast = ReceiptTail(i).hash,
                                                     !.rseq = ReceiptTail(i).seq]]
            /\ op' = [op EXCEPT ![p].pc = "receipt"]
      /\ UNCHANGED <<up, keys, files, lock, fresh, served, faults, crashes>>

ReceiptLine(i, h) == [kind |-> "ok", hash |-> h, prev |-> inst[i].rlast,
                      seq |-> inst[i].rseq + 1, mac |-> NoKey,
                      sig |-> keys[ProcOf[i]].ed]

AfterReceipt(i, h, out) ==
  IF out = "ok" THEN [inst[i] EXCEPT !.rlast = h, !.rseq = @ + 1] ELSE inst[i]

WriteReceipt(p) ==
  LET i == op[p].inst
  IN  /\ op[p].pc = "receipt"
      /\ \E out \in Outcomes :
           /\ files' = [files EXCEPT ![ReceiptOf[i]] =
                          Written(@, ReceiptLine(i, op[p].hash), out)]
           /\ inst' = [inst EXCEPT ![i] = AfterReceipt(i, op[p].hash, out)]
           /\ Counted(out)
           /\ op' = [op EXCEPT ![p] = IF Passed(i, out)
                                        THEN [@ EXCEPT !.pc = "release"]
                                        ELSE Refused(@)]
      /\ UNCHANGED <<up, keys, lock, fresh, served, crashes>>

\* The finally block: one lock, the last taken first.  After the last of
\* them log() returns to its caller, or throws.
Release(p) ==
  /\ op[p].pc = "release"
  /\ lock' = [lock EXCEPT ![LastSink(p)] = Released(@)]
  /\ \/ /\ op[p].got # {LastSink(p)}
        /\ op' = [op EXCEPT ![p].got = @ \ {LastSink(p)}]
        /\ UNCHANGED served
     \/ /\ op[p].got = {LastSink(p)}
        /\ op' = [op EXCEPT ![p] = Idle]
        /\ served' = IF op[p].ok THEN served \cup {<<op[p].inst, op[p].hash>>} ELSE served
  /\ UNCHANGED <<up, keys, files, inst, fresh, faults, crashes>>

Work(p) ==
  \/ Acquire(p) \/ Sync(p) \/ AppendAudit(p)
  \/ LoadReceipts(p) \/ WriteReceipt(p)
  \/ Release(p)

LogStep(p) == Work(p) \/ WaitTimesOut(p)

Next ==
  \/ \E p \in Proc : Start(p) \/ Stop(p) \/ LogStep(p)
  \/ \E i \in Inst : Open(i) \/ Close(i) \/ Log(i)

Spec == Init /\ [][Next]_vars

\* A running process carries a synchronous call through, and a waiter, which
\* polls every 15 ms, does not miss forever a lock that is free again and
\* again: its owner keeps it for the length of two appends.  A wait may run out
\* (WaitTimesOut) but nothing counts on it.
FairSpec == Spec /\ \A p \in Proc : WF_vars(Work(p)) /\ SF_vars(Acquire(p))
-----------------------------------------------------------------------------
(* Properties.                                                             *)

LockState == [owner: Proc \cup {NoProc}, count: Nat]
InstState == [status: {"closed", "open", "rejected", "failed"}, last: Nat,
              size: Nat, rlast: Nat, rseq: Nat]
OpState == [pc: {"idle", "lock", "audit", "load", "receipt", "release"},
            inst: Inst, got: SUBSET Path, hash: Nat, ok: BOOLEAN]

\* Every variable has the shape the code gives its counterpart.
TypeOK ==
  /\ up \subseteq Proc
  /\ keys \in [Proc -> KeyEnv]
  /\ files \in [Path -> Seq(Chunk)]
  /\ lock \in [Path -> LockState]
  /\ inst \in [Inst -> InstState]
  /\ op \in [Proc -> OpState]
  /\ fresh \in Nat
  /\ served \subseteq Inst \X Nat
  /\ faults \in Nat /\ crashes \in Nat

\* Each line of an audit sink carries the hash of the line before it, whatever
\* instances wrote to it, in whatever order, and whatever appends failed
\* (audit.ts log and syncLastHashIfStale).
AuditChained == \A i \in Inst : Linked(files[SinkOf[i]])

\* The receipts of a sink several processes share form one chain numbered
\* 1, 2, 3, ...: no two writers claim a number, none is skipped (writeReceipt).
ReceiptsChained ==
  \A i \in Inst : ReceiptOf[i] # NoPath =>
    LET f == files[ReceiptOf[i]]
    IN  Linked(f) /\ \A k \in 1..Len(f) : f[k].seq = k

HasLine(f, h) == \E k \in 1..Len(f) : f[k].hash = h /\ f[k].kind = "ok"
Recorded(x, h) == HasLine(files[x], h)

\* A line of this hash that a reader of the file can parse.
Legible(x, h) == \E k \in 1..Len(files[x]) : files[x][k].hash = h /\ Readable(files[x], k)

\* No append left all of its line but the newline, which is what getLastHash
\* takes for a whole line.
NoBareLine(f) == \A k \in 1..Len(f) : f[k].kind # "open"

\* No access a fail-closed instance let through lacks its audit line or, where
\* receipts are configured, its receipt: "every access is appended".  And, but in
\* a file with a bare line, both can be read back: no later append, by whatever
\* writer and after whatever failure, joined them (log, syncLastHashIfStale).
ServedIsRecorded ==
  \A s \in served : s[1] \in FailClosed => \A x \in WriteSinks(s[1]) :
    Recorded(x, s[2]) /\ (NoBareLine(files[x]) => Legible(x, s[2]))

\* A receipt of a fail-closed instance stands for a line of an audit sink:
\* none is issued for a line that could not be written (log, before writeReceipt).
ReceiptHasAuditLine ==
  \A i \in Inst : ReceiptOf[i] # NoPath =>
    \A k \in 1..Len(files[ReceiptOf[i]]) :
      \E j \in Inst : /\ ReceiptOf[j] = ReceiptOf[i]
                      /\ j \in FailClosed => Recorded(SinkOf[j], files[ReceiptOf[i]][k].hash)

Holders(x) == {i \in Inst : inst[i].status # "closed" /\ SinkOf[i] = x}

\* The re-entrant lock count is what is owed: one for each instance that took
\* its sink's lock in the constructor and one for the write in progress, so a
\* log() that throws half-way neither leaks a lock nor drops the constructor's.
Balanced(x) ==
  LET p == lock[x].owner
  IN  IF p = NoProc
        THEN lock[x].count = 0 /\ Holders(x) = {} /\ \A q \in Proc : x \notin op[q].got
        ELSE /\ lock[x].count = Cardinality(Holders(x)) + (IF x \in op[p].got THEN 1 ELSE 0)
             /\ lock[x].count > 0
             /\ \A i \in Holders(x) : ProcOf[i] = p
             /\ \A q \in Proc \ {p} : x \notin op[q].got

LockCountBalanced == \A x \in Path : Balanced(x)

\* A sink the program itself wrote is not called corrupt when it is opened
\* again (constructor, validateChain), restarts and failed appends included.
OwnSinkAccepted == \A i \in Inst : inst[i].status # "rejected"

\* What the environment must grant for that: an append that fails leaves nothing
\* in the file (AuditTornBoot shows what happens else) ...
WholeAppends == Faults \subseteq {"none"}

\* ... and an operator replaces keys by ones whose process accepts all lines the
\* process before did, and goes on signing where those were signed; processes
\* that take turns on a sink have keys that fit, and keep them.
Continues(env, mac, sig) ==
  /\ mac # NoKey => env.mac = mac
  /\ sig # NoKey => env.ed # NoKey /\ sig \in TrustStore(env)
  /\ env.requireSig => (env.mac # NoKey => mac # NoKey) /\ (env.ed # NoKey => sig # NoKey)

KeysKept ==
  \A env \in KeyEnv : \A next \in Rekey[env] : \A mac, sig \in Key \cup {NoKey} :
    Continues(env, mac, sig) => Continues(next, mac, sig)

SharersAgree ==
  \A i, j \in Inst : SinkOf[i] = SinkOf[j] /\ ProcOf[i] # ProcOf[j] =>
    LET mine == FirstKeys[ProcOf[i]]
        other == FirstKeys[ProcOf[j]]
    IN  Rekey[mine] = {} /\ Continues(mine, other.mac, other.ed)

\* No lock wait has to run out for a log() to come back: writers of a shared
\* receipt sink never wait for each other in a circle, and a dead owner's lock
\* does not hold anyone up (writeLockSinks, acquireSinkLock).
LogReturns == \A p \in Proc : op[p].pc # "idle" ~> op[p].pc = "idle"
-----------------------------------------------------------------------------
(* What makes the safety properties inductive.                             *)

\* A call in progress is of an open instance of its process and holds the
\* locks its phase needs, all of them while it reads and writes the files.
CallsWellFormed ==
  \A p \in Proc :
    LET o == op[p]
    IN  /\ o.pc # "idle" => ProcOf[o.inst] = p /\ inst[o.inst].status = "open"
        /\ o.got \subseteq WriteSinks(o.inst)
        /\ o.pc = "idle" => o.got = {}
        /\ o.pc \in {"audit", "load", "receipt"} => o.got = WriteSinks(o.inst)
        /\ o.pc \in {"load", "receipt"} => ReceiptOf[o.inst] # NoPath
        /\ o.pc = "release" => o.got # {}

\* An instance's memory of its sink is right whenever the size it remembers
\* is the file's, and its memory of an empty receipt sink is the genesis.
MemoryCurrent ==
  \A i \in Inst :
    /\ inst[i].status = "closed" => inst[i] = Closed
    /\ inst[i].status = "open" =>
         /\ inst[i].size <= Len(files[SinkOf[i]])
         /\ inst[i].size = Len(files[SinkOf[i]]) => inst[i].last = TailHash(files[SinkOf[i]])
         /\ ReceiptOf[i] # NoPath /\ files[ReceiptOf[i]] = <<>> =>
              inst[i].rlast = Genesis /\ inst[i].rseq = 0

\* Between reading a tail and appending to it nobody else appends.
TailsHeld ==
  \A p \in Proc :
    LET i == op[p].inst
    IN  /\ op[p].pc = "audit" => inst[i].last = TailHash(files[SinkOf[i]])
        /\ op[p].pc = "receipt" => /\ inst[i].rlast = TailHash(files[ReceiptOf[i]])
                                   /\ inst[i].rseq = Len(files[ReceiptOf[i]])

\* What returned has both lines in its files ...
ServedHasLines ==
  \A s \in served : s[1] \in FailClosed =>
    /\ Recorded(SinkOf[s[1]], s[2])
    /\ ReceiptOf[s[1]] # NoPath => Recorded(ReceiptOf[s[1]], s[2])

\* ... and a call has the line it will return for, in the end its receipt too.
CallsRecorded ==
  \A p \in Proc : op[p].inst \in FailClosed =>
    LET i == op[p].inst
    IN  /\ op[p].ok \/ op[p].pc \in {"load", "receipt"} => Recorded(SinkOf[i], op[p].hash)
        /\ op[p].ok /\ op[p].pc = "release" /\ ReceiptOf[i] # NoPath =>
             Recorded(ReceiptOf[i], op[p].hash)

ChainInv ==
  /\ TypeOK
  /\ CallsWellFormed
  /\ LockCountBalanced
  /\ MemoryCurrent
  /\ TailsHeld
  /\ AuditChained
  /\ ReceiptsChained
=============================================================================
