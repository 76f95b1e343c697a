------------------------------- MODULE TaskLock -------------------------------
(***************************************************************************)
(* The recoverable lock of one task run (runtime/lib/task-lock.mjs).  A    *)
(* runner is one invocation of runtime/task-run.mjs; it creates            *)
(* task-execution.lock exclusively, and when that file exists it enters    *)
(* the recovery guard (task-execution.lock.recover), judges the recorded   *)
(* owner and removes the file if owner and recorded child are dead.  The   *)
(* child marker (task-execution.lock.child) is written by the runner's     *)
(* wrapper process and protects a command that outlives its runner.        *)
(*                                                                         *)
(* A lock or guard file and its owner record are one value here: without a *)
(* record the file is recoverable 30 seconds later exactly when its        *)
(* creator is dead, as it is with a record, because a live creator writes  *)
(* the record at once.  Pids carry the start time of their process, so a   *)
(* reused pid is not mistaken for the owner.                               *)
(***************************************************************************)
EXTENDS Integers

CONSTANTS Runner,   \* invocations of task-run for one task and one run id
          Mortal,   \* the runners that may be killed, with their wrappers
          NoRunner  \* no such file

ASSUME RunnerAssumption == Mortal \subseteq Runner /\ NoRunner \notin Runner

VARIABLES alive,    \* runners that have not been killed
          lock,     \* owner of task-execution.lock
          guard,    \* owner of the recovery guard
          marker,   \* runner named by the child marker
          command,  \* the frozen command each runner started: "none", "running" or "over"
          pc,       \* what each runner does next
          attempt,  \* attempts at the lock a runner has made
          entry,    \* attempts at the guard within this attempt at the lock
          seen      \* lock owner a recoverer observed

lockVars == <<alive, lock, guard, marker, command, pc, attempt, entry, seen>>

Attempts == 2

GuardSteps == {"judge", "verify", "unlink", "leaveGuard", "refuse"}
AcquireSteps == {"start", "guard", "dropGuard"} \cup GuardSteps

LockTypeOK(steps) ==
    /\ alive \in SUBSET Runner
    /\ lock \in Runner \cup {NoRunner}
    /\ guard \in Runner \cup {NoRunner} /\ marker \in Runner \cup {NoRunner}
    /\ command \in [Runner -> {"none", "running", "over"}]
    /\ pc \in [Runner -> steps]
    /\ attempt \in [Runner -> 0..Attempts] /\ entry \in [Runner -> 0..Attempts]
    /\ seen \in [Runner -> Runner \cup {NoRunner}]

LockInit ==
    /\ alive = Runner
    /\ lock = NoRunner /\ guard = NoRunner /\ marker = NoRunner
    /\ command = [r \in Runner |-> "none"]
    /\ pc = [r \in Runner |-> "start"]
    /\ attempt = [r \in Runner |-> 0] /\ entry = [r \in Runner |-> 0]
    /\ seen = [r \in Runner |-> NoRunner]

At(r, step) == r \in alive /\ pc[r] = step
Goto(r, step) == pc' = [pc EXCEPT ![r] = step]

\* The pid of r is gone: killed, or the invocation has exited.
Gone(r) == r \notin alive \/ pc[r] = "over"

\* A command still runs under the child marker.
ChildIsAlive == marker # NoRunner /\ command[marker] = "running"

\* canRecoverLock: owner dead, and no marker but one of this lock whose child
\* is dead.  The age of the file is left to Judge.
CanRecover(owner) ==
    /\ Gone(owner)
    /\ marker = NoRunner \/ (marker = owner /\ ~ChildIsAlive)

\* withRecoverableTaskLock: exclusive creation of the lock file.
OpenLock(r) ==
    /\ At(r, "start")
    /\ attempt' = [attempt EXCEPT ![r] = @ + 1]
    /\ IF lock = NoRunner
         THEN lock' = r /\ Goto(r, "orphan") /\ UNCHANGED entry
         ELSE entry' = [entry EXCEPT ![r] = 0] /\ Goto(r, "guard") /\ UNCHANGED lock
    /\ UNCHANGED <<alive, guard, marker, command, seen>>

\* acquireRecoveryGuard: a live owner refuses the newcomer (EH-STATE-LOCK-012),
\* the guard of a dead one is about to be removed, unless it is unsigned and
\* younger than 30 seconds.
EnterGuard(r) ==
    /\ At(r, "guard")
    /\ entry' = [entry EXCEPT ![r] = @ + 1]
    /\ IF guard = NoRunner
         THEN guard' = r /\ Goto(r, "judge")
         ELSE /\ \E next \in IF Gone(guard) THEN {"dropGuard", "over"} ELSE {"over"} : Goto(r, next)
              /\ UNCHANGED guard
    /\ UNCHANGED <<alive, lock, marker, command, attempt, seen>>

\* Removal by path: it takes whatever guard is there by now.
DropGuard(r) ==
    /\ At(r, "dropGuard")
    /\ guard' = NoRunner
    /\ Goto(r, IF entry[r] < Attempts THEN "guard" ELSE "over")
    /\ UNCHANGED <<alive, lock, marker, command, attempt, entry, seen>>

\* readLock and canRecoverLock; a lock younger than 30 seconds is refused too.
Judge(r) ==
    /\ At(r, "judge")
    /\ seen' = [seen EXCEPT ![r] = lock]
    /\ \/ lock = NoRunner /\ Goto(r, "leaveGuard")
       \/ lock # NoRunner /\ CanRecover(lock) /\ Goto(r, "verify")
       \/ lock # NoRunner /\ Goto(r, "refuse")
    /\ UNCHANGED <<alive, lock, guard, marker, command, attempt, entry>>

\* sameLockStat after the quarantine link: still the inode that was judged.
Verify(r) ==
    /\ At(r, "verify")
    /\ Goto(r, IF lock = seen[r] THEN "unlink" ELSE "leaveGuard")
    /\ UNCHANGED <<alive, lock, guard, marker, command, attempt, entry, seen>>

\* unlinkSync by path.
Unlink(r) ==
    /\ At(r, "unlink")
    /\ lock' = NoRunner
    /\ Goto(r, "leaveGuard")
    /\ UNCHANGED <<alive, guard, marker, command, attempt, entry, seen>>

\* releaseRecoveryGuard, then the next attempt or EH-STATE-LOCK-012.
LeaveGuard(r) ==
    /\ r \in alive /\ pc[r] \in {"leaveGuard", "refuse"}
    /\ guard' = NoRunner
    /\ Goto(r, IF pc[r] = "leaveGuard" /\ attempt[r] < Attempts THEN "start" ELSE "over")
    /\ UNCHANGED <<alive, lock, marker, command, attempt, entry, seen>>

\* removeOrphanChildMarker: the marker of an earlier lock goes.
ClearOrphan(r) ==
    /\ At(r, "orphan")
    /\ marker' = IF marker = r THEN marker ELSE NoRunner
    /\ Goto(r, "held")
    /\ UNCHANGED <<alive, lock, guard, command, attempt, entry, seen>>

\* removeOwnedLock reads the owner and removes the file in two steps.
ReadOwnLock(r) ==
    /\ At(r, "release")
    /\ Goto(r, IF lock = r THEN "remove" ELSE "over")
    /\ UNCHANGED <<alive, lock, guard, marker, command, attempt, entry, seen>>

RemoveLock(r) ==
    /\ At(r, "remove")
    /\ lock' = NoRunner
    /\ Goto(r, "over")
    /\ UNCHANGED <<alive, guard, marker, command, attempt, entry, seen>>

LockStep(r) ==
    \/ OpenLock(r) \/ EnterGuard(r) \/ DropGuard(r) \/ Judge(r) \/ Verify(r) \/ Unlink(r)
    \/ LeaveGuard(r) \/ ClearOrphan(r) \/ ReadOwnLock(r) \/ RemoveLock(r)
==============================================================================
