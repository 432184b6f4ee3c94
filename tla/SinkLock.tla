------------------------------ MODULE SinkLock ------------------------------
(***************************************************************************)
(* The lock-file protocol of src/audit.ts, system call by system call:     *)
(* acquireSinkLockOnce, its two callers (the constructor, which does not   *)
(* wait, and log(), which polls) and releaseSinkLock, for one sink and     *)
(* the processes that want it.  Re-entrancy inside a process never touches *)
(* the file and is in AuditLog.                                            *)
(***************************************************************************)
EXTENDS Naturals, FiniteSets

CONSTANTS
  Proc,        \* programs that start, want the sink, and end
  Pid,         \* process ids the kernel hands out
  NoFile,
  Waiter,      \* the programs that are in log(), which polls; the others are
               \* in the constructor, which does not wait
  Releaser,    \* the programs that give the lock back and take it again
  MaxCrashes   \* bound on processes that are killed

\* body: `wx` creates an empty file, a second system call fills it.
\* old: whether its mtime is LOCK_STALE_MS in the past.
LockFile == [by: Proc, pid: Pid, body: {"empty", "full"}, old: BOOLEAN]

ASSUME SinkLockAssumption ==
  /\ NoFile \notin Pid \cup LockFile
  /\ Cardinality(Pid) >= Cardinality(Proc)
  /\ Waiter \subseteq Proc /\ Releaser \subseteq Proc
  /\ MaxCrashes \in Nat

VARIABLES
  file,     \* <sink>.lock: NoFile, or the pid, the body and the age of it
  pid,      \* the pid of each running program
  pc,       \* where each program is
  attempt,  \* the for loop of acquireSinkLockOnce
  given,    \* whether a lock was ever given back
  crashes

vars == <<file, pid, pc, attempt, given, crashes>>

Running(p) == pc[p] # "down"
LivePids == {pid[p] : p \in {q \in Proc : Running(q)}}

Init ==
  /\ file = NoFile
  /\ pid \in {f \in [Proc -> Pid] : \A p, q \in Proc : f[p] = f[q] => p = q}
  /\ pc = [p \in Proc |-> "idle"]
  /\ attempt = [p \in Proc |-> 0]
  /\ given = FALSE
  /\ crashes = 0

Goto(p, l) == pc' = [pc EXCEPT ![p] = l]

\* The program sets out to take the lock.
Want(p) ==
  /\ pc[p] = "idle"
  /\ Goto(p, "create")
  /\ attempt' = [attempt EXCEPT ![p] = 0]
  /\ UNCHANGED <<file, pid, given, crashes>>

\* log() has thrown "Audit sink lock wait timed out"; the next call logs again.
Retry(p) ==
  /\ p \in Waiter
  /\ pc[p] = "refused"
  /\ Goto(p, "create")
  /\ UNCHANGED <<file, pid, attempt, given, crashes>>

\* writeFileSync(lockPath, body, {flag: 'wx'}): the open.
Create(p) ==
  /\ pc[p] = "create"
  /\ \/ /\ file = NoFile
        /\ file' = [by |-> p, pid |-> pid[p], body |-> "empty", old |-> FALSE]
        /\ Goto(p, "body")
     \/ /\ file # NoFile
        /\ Goto(p, "read")
        /\ UNCHANGED file
  /\ UNCHANGED <<pid, attempt, given, crashes>>

\* ... and the write, which reaches the file it opened or, when that has been
\* unlinked, nothing another program can see.
WriteBody(p) ==
  /\ pc[p] = "body"
  /\ file' = IF file = NoFile THEN NoFile
              ELSE IF file.by = p THEN [file EXCEPT !.body = "full"] ELSE file
  /\ Goto(p, "held")
  /\ UNCHANGED <<pid, attempt, given, crashes>>

\* "another process holds the audit sink lock": the constructor gives up; the
\* polling loop starts over, or gives up too when LOCK_WAIT_MS have passed, which
\* is sooner than LOCK_STALE_MS.
Throw(p) == /\ \/ p \in Waiter /\ Goto(p, "create")
               \/ Goto(p, "refused")
            /\ attempt' = [attempt EXCEPT ![p] = 0]

\* otherPid is null: there is no file any more, or no body in it yet.
Owner == IF file = NoFile THEN NoFile ELSE IF file.body = "empty" THEN NoFile ELSE file.pid

\* readFileSync and pidAlive.
ReadOwner(p) ==
  /\ pc[p] = "read"
  /\ \/ /\ Owner = NoFile
        /\ Goto(p, "age")
        /\ UNCHANGED attempt
     \/ /\ Owner = pid[p]                                 \* its own: adopt it
        /\ Goto(p, "held")
        /\ UNCHANGED attempt
     \/ /\ Owner \in LivePids \ {pid[p]}
        /\ Throw(p)
     \/ /\ Owner \in Pid \ LivePids
        /\ Goto(p, "unlink")
        /\ UNCHANGED attempt
  /\ UNCHANGED <<file, pid, given, crashes>>

\* lockAgeMs of a lock whose owner could not be read; a lock that is gone is
\* infinitely old.
\* Mutants: an unreadable lock is stolen at once; or honoured for good.
TooYoung_Never == FALSE
TooYoung_Always == file # NoFile

TooYoung == IF file = NoFile THEN FALSE ELSE ~file.old

CheckAge(p) ==
  /\ pc[p] = "age"
  /\ \/ /\ TooYoung
        /\ Throw(p)
     \/ /\ ~TooYoung
        /\ Goto(p, "unlink")
        /\ UNCHANGED attempt
  /\ UNCHANGED <<file, pid, given, crashes>>

\* Mutant: the loop makes a third attempt.
Steal_ThirdAttempt(p) ==
  /\ pc[p] = "unlink"
  /\ file' = NoFile
  /\ attempt' = [attempt EXCEPT ![p] = @ + 1]
  /\ Goto(p, "create")
  /\ UNCHANGED <<pid, given, crashes>>

\* unlinkSync: whatever file has the name now; then the second attempt.
Steal(p) ==
  /\ pc[p] = "unlink"
  /\ file' = NoFile
  /\ \/ /\ attempt[p] = 0
        /\ attempt' = [attempt EXCEPT ![p] = 1]
        /\ Goto(p, "create")
     \/ /\ attempt[p] = 1
        /\ Throw(p)
  /\ UNCHANGED <<pid, given, crashes>>

\* releaseSinkLock of the last reference, or the exit hook.
Release(p) ==
  /\ p \in Releaser
  /\ pc[p] = "held"
  /\ file' = NoFile
  /\ given' = TRUE
  /\ Goto(p, "idle")
  /\ UNCHANGED <<pid, attempt, crashes>>

\* The process is killed: no exit hook runs.
Crash(p) ==
  /\ Running(p)
  /\ crashes < MaxCrashes
  /\ crashes' = crashes + 1
  /\ Goto(p, "down")
  /\ UNCHANGED <<file, pid, attempt, given>>

\* It is started again, with any pid no running process has.
Restart(p) ==
  /\ pc[p] = "down"
  /\ \E n \in Pid \ LivePids : pid' = [pid EXCEPT ![p] = n]
  /\ Goto(p, "idle")
  /\ UNCHANGED <<file, attempt, given, crashes>>

\* 30 s pass over a lock.  A running program is never that long between two
\* adjacent system calls: not while it creates the lock, nor between reading
\* an empty one and asking for its age.
Age ==
  /\ file # NoFile
  /\ ~file.old
  /\ pc[file.by] # "body"
  /\ \A p \in Proc : pc[p] # "age"
  /\ file' = [file EXCEPT !.old = TRUE]
  /\ UNCHANGED <<pid, pc, attempt, given, crashes>>

Step(p) == Create(p) \/ WriteBody(p) \/ ReadOwner(p) \/ CheckAge(p) \/ Steal(p)

Next ==
  \/ \E p \in Proc : Want(p) \/ Retry(p) \/ Step(p) \/ Release(p) \/ Crash(p) \/ Restart(p)
  \/ Age

Spec == Init /\ [][Next]_vars

\* Programs run on, a gateway whose log() timed out is called again, and the clock
\* runs on while they poll.
FairSpec == Spec /\ SF_vars(Age) /\ \A p \in Proc : WF_vars(Step(p)) /\ WF_vars(Retry(p))
-----------------------------------------------------------------------------
(* Properties.                                                             *)

\* The lock file, the programs and their loop counters have the shape the code
\* gives them; the for loop makes two attempts, never a third.
TypeOK ==
  /\ file \in LockFile \cup {NoFile}
  /\ pid \in [Proc -> Pid]
  /\ pc \in [Proc -> {"down", "idle", "create", "body", "read", "age", "unlink",
                      "held", "refused"}]
  /\ attempt \in [Proc -> 0..1]
  /\ given \in BOOLEAN /\ crashes \in Nat

\* Two running programs never both believe they own the sink: "A second OS
\* process is rejected" (acquireSinkLockOnce).
MutualExclusion == \A p, q \in Proc : pc[p] = "held" /\ pc[q] = "held" => p = q

\* Gateways that start together on one sink, which has no lock of a dead owner
\* and none that is given back meanwhile, never both get it: an empty lock is a
\* lock in the making, not an abandoned one (LOCK_STALE_MS).
BootExclusion == crashes = 0 /\ ~given => MutualExclusion

\* A lock whose owner is dead, in the middle of creating it or later, does not
\* keep out a program that logs while no other wants the sink: in this log() or,
\* that one having timed out, in a later one it gets the lock (the steal and LOCK_STALE_MS in acquireSinkLockOnce), unless the pid
\* in the lock is by then some other running program's.
Trying(p) == pc[p] \in {"create", "body", "read", "age", "unlink", "refused"}
Alone(p) == \A q \in Proc \ {p} :
  pc[q] \in {"down", "idle", "refused"} /\ (file # NoFile /\ Running(q) => file.pid # pid[q])
DeadOwnerIsOutlived ==
  \A p \in Waiter : Trying(p) /\ Alone(p) ~> pc[p] = "held" \/ ~Running(p) \/ ~Alone(p)
=============================================================================
