-------------------------------- MODULE TaskRun --------------------------------
(***************************************************************************)
(* Execution of the frozen commands of one task by one execute run         *)
(* (runtime/task-run.mjs, runtime/task-child.mjs and                       *)
(* runtime/lib/task-receipt-publication.mjs) under the lock of TaskLock.   *)
(*                                                                         *)
(* An invocation runs one phase: it writes an authorization and an intent, *)
(* both exclusively, spawns the wrapper that runs the command, and appends *)
(* the outcome to the receipt in the spool; after the last phase it        *)
(* publishes the receipt in the worktree (canonical) and in the            *)
(* integration checkout (projection), or rolls all of it back; every step  *)
(* of the rollback may itself fail, and the next one is taken all the      *)
(* same.  Only then the intent goes: an intent that is found tells that a  *)
(* command may have run without leaving a receipt.                         *)
(*                                                                         *)
(* A receipt is the number of phases it records.  The checks of handoff,   *)
(* state, write scope and receipt that may refuse at any point are one     *)
(* nondeterministic refusal each.                                          *)
(***************************************************************************)
EXTENDS TaskLock, FiniteSets

CONSTANTS Phases  \* length of the frozen phase chain

ASSUME PhasesAssumption == Phases \in Nat \ {0}

VARIABLES wrapper,    \* state of the task-child process of each runner
          outcome,    \* what it reported: "none", "exit" or "bad"
          auth,       \* runner named by the active authorization
          intent,     \* runner named by the intent file
          spool,      \* phases recorded in the spool, 0 without a spool
          canonical,  \* the receipt exists in the worktree
          projection, \* the receipt exists in the integration checkout
          leftover,   \* a publication failed and its rollback left something behind
          base,       \* phases recorded when the runner read the spool
          result,     \* exit of the runner: "none", "ok" or "failed"
          starts      \* starts[i]: times the command of phase i was started

runVars == <<wrapper, outcome, auth, intent, spool, canonical, projection, leftover, base, result,
            starts>>
vars == <<lockVars, runVars>>

RunSteps == {"held", "authorize", "intend", "spawn", "waiting", "publish", "canonical",
             "projection", "settle", "clearIntent", "undoProjection", "undoCanonical", "undoSpool"}
CriticalSteps == RunSteps \cup {"orphan", "release", "remove"}
Steps == AcquireSteps \cup CriticalSteps \cup {"over"}
WrapperSteps == {"none", "start", "check", "record", "recorded", "reject", "ended", "killed"}

TypeOK ==
    /\ LockTypeOK(Steps)
    /\ wrapper \in [Runner -> WrapperSteps]
    /\ outcome \in [Runner -> {"none", "exit", "bad"}]
    /\ auth \in Runner \cup {NoRunner} /\ intent \in Runner \cup {NoRunner}
    /\ spool \in 0..Phases
    /\ canonical \in BOOLEAN /\ projection \in BOOLEAN /\ leftover \in BOOLEAN
    /\ base \in [Runner -> 0..Phases]
    /\ result \in [Runner -> {"none", "ok", "failed"}]
    /\ starts \in [0..Phases - 1 -> Nat]

Init ==
    /\ LockInit
    /\ wrapper = [r \in Runner |-> "none"] /\ outcome = [r \in Runner |-> "none"]
    /\ auth = NoRunner /\ intent = NoRunner
    /\ spool = 0 /\ canonical = FALSE /\ projection = FALSE /\ leftover = FALSE
    /\ base = [r \in Runner |-> 0]
    /\ result = [r \in Runner |-> "none"]
    /\ starts = [i \in 0..Phases - 1 |-> 0]

fileLock == <<alive, lock, guard, attempt, entry, seen>>
supervised == <<marker, command, wrapper, outcome, starts>>
receipts == <<spool, canonical, projection, leftover, base>>

\* The runner leaves the critical section.
Leave(r, how) ==
    /\ Goto(r, "release")
    /\ result' = [result EXCEPT ![r] = how]

(***************************************************************************)
(* From the lock to the spawn.                                             *)
(***************************************************************************)

\* A published receipt ends the run (idempotent success if the spool agrees); a
\* complete spool is published; an intent without a receipt needs an operator.
Inspect(r) ==
    /\ At(r, "held")
    /\ base' = [base EXCEPT ![r] = spool]
    /\ \/ canonical /\ Leave(r, IF spool = Phases THEN "ok" ELSE "failed")
       \/ ~canonical /\ spool = Phases /\ Goto(r, "publish") /\ UNCHANGED result
       \/ /\ ~canonical /\ spool < Phases
          /\ intent = NoRunner \/ spool > 0
          /\ Goto(r, "authorize") /\ UNCHANGED result
       \/ Leave(r, "failed")
    /\ UNCHANGED <<fileLock, supervised, auth, intent, spool, canonical, projection, leftover>>

\* clearRecoverableAuthorization removes the marker of a process that is gone;
\* the new one is created exclusively.
Authorize(r) ==
    /\ At(r, "authorize")
    /\ IF auth = NoRunner \/ Gone(auth)
         THEN auth' = r /\ Goto(r, "intend") /\ UNCHANGED result
         ELSE Leave(r, "failed") /\ UNCHANGED auth
    /\ UNCHANGED <<fileLock, supervised, intent, receipts>>

\* Mutant: the intent replaces the one it finds.
WriteIntentOver(r) ==
    /\ At(r, "intend")
    /\ intent' = r /\ Goto(r, "spawn")
    /\ UNCHANGED <<fileLock, supervised, auth, result, receipts>>

\* The intent is created exclusively; if one exists the runner fails, and its
\* authorization stays.
WriteIntent(r) ==
    /\ At(r, "intend")
    /\ IF intent = NoRunner
         THEN intent' = r /\ Goto(r, "spawn") /\ UNCHANGED result
         ELSE Leave(r, "failed") /\ UNCHANGED intent
    /\ UNCHANGED <<fileLock, supervised, auth, receipts>>

Spawn(r) ==
    /\ At(r, "spawn")
    /\ wrapper' = [wrapper EXCEPT ![r] = "start"]
    /\ Goto(r, "waiting")
    /\ UNCHANGED <<fileLock, marker, command, outcome, starts, auth, intent, result, receipts>>

(***************************************************************************)
(* The wrapper process (task-child.mjs).  It survives its runner.          *)
(***************************************************************************)

Wrapped(r, from, to) ==
    /\ wrapper[r] = from
    /\ wrapper' = [wrapper EXCEPT ![r] = to]
    /\ UNCHANGED <<fileLock, pc, auth, intent, result, receipts>>

\* Start the command of the intent, or report spawn-error.
StartCommand(r) ==
    \/ /\ Wrapped(r, "start", "check")
       /\ command' = [command EXCEPT ![r] = "running"]
       /\ starts' = [starts EXCEPT ![base[r]] = @ + 1]
       /\ UNCHANGED <<marker, outcome>>
    \/ /\ Wrapped(r, "start", "ended")
       /\ outcome' = [outcome EXCEPT ![r] = "bad"]
       /\ UNCHANGED <<marker, command, starts>>

\* updateTaskLockChild reads the owner of the lock ...
CheckLock(r) ==
    /\ Wrapped(r, "check", IF lock = r THEN "record" ELSE "reject")
    /\ UNCHANGED <<marker, command, outcome, starts>>

\* ... and creates the marker exclusively.
RecordChild(r) ==
    /\ Wrapped(r, "record", IF marker = NoRunner THEN "recorded" ELSE "reject")
    /\ marker' = IF marker = NoRunner THEN r ELSE marker
    /\ UNCHANGED <<command, outcome, starts>>

\* The command exits or is killed.
CommandEnds(r) ==
    /\ command[r] = "running"
    /\ command' = [command EXCEPT ![r] = "over"]
    /\ UNCHANGED <<fileLock, marker, pc, wrapper, outcome, starts, auth, intent, result, receipts>>

\* Descendants are terminated, the marker it recorded is cleared, and the
\* outcome is reported: a rejected recording never reports an exit.
EndWrapper(r) ==
    /\ \/ wrapper[r] = "recorded" /\ command[r] = "over"
       \/ wrapper[r] = "reject"
    /\ wrapper' = [wrapper EXCEPT ![r] = "ended"]
    /\ \E o \in IF wrapper[r] = "recorded" THEN {"exit", "bad"} ELSE {"bad"} :
            outcome' = [outcome EXCEPT ![r] = o]
    /\ command' = [command EXCEPT ![r] = "over"]
    /\ marker' = IF marker = r /\ wrapper[r] = "recorded" THEN NoRunner ELSE marker
    /\ UNCHANGED <<fileLock, pc, starts, auth, intent, result, receipts>>

(***************************************************************************)
(* From the outcome to the receipt.                                        *)
(***************************************************************************)

\* The authorization goes in any case.  Without a trusted exit, or when
\* handoff, write scope or receipt are refused, the intent stays.
Collect(r) ==
    /\ At(r, "waiting") /\ wrapper[r] \in {"ended", "killed"}
    /\ auth' = NoRunner
    /\ \/ outcome[r] = "exit" /\ Goto(r, "publish") /\ UNCHANGED result
       \/ Leave(r, "failed")
    /\ UNCHANGED <<fileLock, supervised, intent, receipts>>

\* The receipt a runner publishes: one more phase, or the complete spool.
Extended(r) == IF base[r] = Phases THEN Phases ELSE base[r] + 1

\* publishTaskReceiptArtifacts: refused before anything is written, or the spool
\* is replaced; a refusal afterwards restores it.
PublishSpool(r) ==
    /\ At(r, "publish")
    /\ \/ /\ spool' = Extended(r)
          /\ \/ Goto(r, IF Extended(r) = Phases THEN "canonical" ELSE "clearIntent")
             \/ Goto(r, "undoSpool")
          /\ UNCHANGED result
       \/ Leave(r, "failed") /\ UNCHANGED spool
    /\ UNCHANGED <<fileLock, supervised, auth, intent, canonical, projection, leftover, base>>

\* The two exclusive receipts.  Each may be refused; and each may be linked while
\* its temporary file cannot be removed, which fails the publication although the
\* receipt is there: the rollback does not know of it.
PublishCanonical(r) ==
    /\ At(r, "canonical")
    /\ \/ /\ ~canonical /\ canonical' = TRUE
          /\ \/ Goto(r, "projection") /\ UNCHANGED leftover
             \/ Goto(r, "undoSpool") /\ leftover' = TRUE
       \/ Goto(r, "undoSpool") /\ UNCHANGED <<canonical, leftover>>
    /\ UNCHANGED <<fileLock, supervised, auth, intent, result, spool, projection, base>>

\* Mutant: the rollback forgets the first receipt and starts with the spool.
PublishProjectionOrForget(r) ==
    /\ At(r, "projection")
    /\ \/ /\ ~projection /\ projection' = TRUE
          /\ \/ Goto(r, "settle") /\ UNCHANGED leftover
             \/ Goto(r, "undoSpool") /\ leftover' = TRUE
       \/ Goto(r, "undoSpool") /\ UNCHANGED <<projection, leftover>>
    /\ UNCHANGED <<fileLock, supervised, auth, intent, result, spool, canonical, base>>

PublishProjection(r) ==
    /\ At(r, "projection")
    /\ \/ /\ ~projection /\ projection' = TRUE
          /\ \/ Goto(r, "settle") /\ UNCHANGED leftover
             \/ Goto(r, "undoCanonical") /\ leftover' = TRUE
       \/ Goto(r, "undoCanonical") /\ UNCHANGED <<projection, leftover>>
    /\ UNCHANGED <<fileLock, supervised, auth, intent, result, spool, canonical, base>>

\* The last freshness check.
Settle(r) ==
    /\ At(r, "settle")
    /\ Goto(r, "clearIntent") \/ Goto(r, "undoProjection")
    /\ UNCHANGED <<fileLock, supervised, auth, intent, result, receipts>>

ClearIntent(r) ==
    /\ At(r, "clearIntent")
    /\ intent' = NoRunner
    /\ Leave(r, "ok")
    /\ UNCHANGED <<fileLock, supervised, auth, receipts>>

\* Rollback, in the reverse order of publication.  A removal that fails is noted
\* (rollbackProblems) and the rollback goes on.
UndoProjection(r) ==
    /\ At(r, "undoProjection")
    /\ \/ projection' = FALSE /\ UNCHANGED leftover
       \/ leftover' = TRUE /\ UNCHANGED projection
    /\ Goto(r, "undoCanonical")
    /\ UNCHANGED <<fileLock, supervised, auth, intent, result, spool, canonical, base>>

UndoCanonical(r) ==
    /\ At(r, "undoCanonical")
    /\ \/ canonical' = FALSE /\ UNCHANGED leftover
       \/ leftover' = TRUE /\ UNCHANGED canonical
    /\ Goto(r, "undoSpool")
    /\ UNCHANGED <<fileLock, supervised, auth, intent, result, spool, projection, base>>

\* Mutant: the rollback removes the spool instead of restoring it.
UndoSpoolWhole(r) ==
    /\ At(r, "undoSpool")
    /\ \/ spool' = 0 /\ UNCHANGED leftover
       \/ leftover' = TRUE /\ UNCHANGED spool
    /\ Leave(r, "failed")
    /\ UNCHANGED <<fileLock, supervised, auth, intent, canonical, projection, base>>

UndoSpool(r) ==
    /\ At(r, "undoSpool")
    /\ \/ spool' = base[r] /\ UNCHANGED leftover
       \/ leftover' = TRUE /\ UNCHANGED spool
    /\ Leave(r, "failed")
    /\ UNCHANGED <<fileLock, supervised, auth, intent, canonical, projection, base>>

(***************************************************************************)
(* Deaths and the whole system.                                            *)
(***************************************************************************)

Crash(r) ==
    /\ r \in Mortal \cap alive /\ pc[r] # "over"
    /\ alive' = alive \ {r}
    /\ UNCHANGED <<lock, guard, marker, command, pc, attempt, entry, seen, runVars>>

\* The wrapper is killed; a command it had started runs on.
CrashWrapper(r) ==
    /\ r \in Mortal
    /\ wrapper[r] \notin {"none", "ended", "killed"}
    /\ wrapper' = [wrapper EXCEPT ![r] = "killed"]
    /\ UNCHANGED <<lockVars, outcome, auth, intent, result, receipts, starts>>

RunStep(r) ==
    \/ Inspect(r) \/ Authorize(r) \/ WriteIntent(r) \/ Spawn(r) \/ Collect(r)
    \/ PublishSpool(r) \/ PublishCanonical(r) \/ PublishProjection(r) \/ Settle(r)
    \/ ClearIntent(r) \/ UndoProjection(r) \/ UndoCanonical(r) \/ UndoSpool(r)

WrapperStep(r) ==
    StartCommand(r) \/ CheckLock(r) \/ RecordChild(r) \/ CommandEnds(r) \/ EndWrapper(r)

Next == \E r \in Runner :
    \/ LockStep(r) /\ UNCHANGED runVars
    \/ RunStep(r) \/ WrapperStep(r)
    \/ Crash(r) \/ CrashWrapper(r)

Spec == Init /\ [][Next]_vars

(***************************************************************************)
(* Properties.                                                             *)
(***************************************************************************)

Critical(r) == r \in alive /\ pc[r] \in CriticalSteps

\* The recoverable lock admits one live runner at a time.
LockExclusive == \A r, s \in Runner : Critical(r) /\ Critical(s) => r = s

\* However runners and wrappers die and are retried, the command of a frozen
\* phase is started at most once for one execute run.
AtMostOnce == \A i \in DOMAIN starts : starts[i] <= 1

\* Two commands of one task never run side by side, also when the first has
\* outlived its runner.
OneCommand ==
    \A r, s \in Runner : command[r] = "running" /\ command[s] = "running" => r = s

\* Retries never repeat work and never overlap: one live runner has the lock, a
\* frozen command is started once, and none runs beside another.
CommandsRunOnce == LockExclusive /\ AtMostOnce /\ OneCommand

\* The spool records the phases that have been run, in order: every recorded
\* phase was started, and none was started before its predecessors were
\* recorded.
ReceiptIsEarned ==
    \A i \in DOMAIN starts : (i < spool => starts[i] = 1) /\ (i > spool => starts[i] = 0)

\* As long as every rollback succeeds, a receipt is only visible in the worktree
\* while the spool is complete, and in the integration checkout while it is visible
\* in the worktree, also in the middle of a publication, of its rollback, or after a
\* crash in either.  A receipt that a failed rollback leaves behind may be seen over
\* a spool that was taken back; but wherever a receipt is seen, every phase has been
\* run.
PublishedIsComplete ==
    /\ ~leftover => (canonical => spool = Phases) /\ (projection => canonical)
    /\ canonical \/ projection => \A i \in DOMAIN starts : starts[i] = 1

\* What a receipt says and where it is seen agree with what was done.
ReceiptIsTrue == ReceiptIsEarned /\ PublishedIsComplete

\* The phase log: its lock is the lock file, its holder alive until killed.
Log == INSTANCE PhaseLog WITH
    Proc <- Runner, NoHolder <- NoRunner, Length <- Phases,
    holder <- lock, live <- alive,
    begun <- starts, running <- {r \in Runner : command[r] = "running"},
    recorded <- spool, spoiled <- leftover,
    shown <- {p \in {"worktree", "checkout"} :
                 IF p = "worktree" THEN canonical ELSE projection}

\* All invocations for one execute run together are one phase log: the lock passes
\* from the dead to the living and is never taken from a live runner, commands
\* start in order, once and alone, records follow commands that have ended and are
\* taken back only while nothing was built on them, and the receipt is shown and
\* hidden copy by copy while the spool is complete.  After a rollback that failed no
\* command is started and no phase recorded any more.
RunsArePhaseLog == Log!LogSpec
==============================================================================
