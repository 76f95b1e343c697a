------------------------------- MODULE PhaseLog -------------------------------
(***************************************************************************)
(* What runtime/task-run.mjs promises for one execute run, however often   *)
(* it is invoked: one runner at a time, as of any lock; every frozen       *)
(* command once, alone, and after all phases before it are recorded; and a *)
(* receipt that is shown while it is complete.  Taking back what was       *)
(* shown may fail: then the log is spoiled, and nothing is started or      *)
(* recorded any more.  TaskRun, which models the files and processes,      *)
(* implements this specification.                                          *)
(***************************************************************************)
EXTENDS MutexLock, Naturals

CONSTANT Length  \* length of the frozen phase chain

VARIABLES begun,    \* begun[i]: times the command of phase i was started
          running,  \* the runners whose command is running
          recorded, \* phases the receipt records
          shown,    \* where the receipt is seen: in the worktree, in the checkout
          spoiled   \* something that should have been taken back was left behind

logVars == <<begun, running, recorded, shown, spoiled>>

LogInit ==
    /\ begun = [i \in 0 .. Length - 1 |-> 0]
    /\ running = {} /\ recorded = 0 /\ shown = {} /\ spoiled = FALSE

\* The next phase starts.  The runner may be dead by then: its wrapper is not.
BeginPhase(p) ==
    /\ recorded < Length /\ begun[recorded] = 0
    /\ running = {} /\ ~spoiled
    /\ begun' = [begun EXCEPT ![recorded] = 1]
    /\ running' = {p}
    /\ UNCHANGED <<recorded, shown, spoiled>>

EndPhase(p) == running' = running \ {p} /\ UNCHANGED <<begun, recorded, shown, spoiled>>

\* The holder records the phase that was started and has ended.
Record ==
    /\ recorded < Length /\ begun[recorded] = 1
    /\ running = {} /\ shown = {} /\ ~spoiled
    /\ recorded' = recorded + 1
    /\ UNCHANGED <<begun, running, shown, spoiled>>

\* The holder takes back the last record, as long as nothing was built on it.
Withdraw ==
    /\ recorded > 0
    /\ shown = {} \/ spoiled
    /\ recorded < Length => begun[recorded] = 0
    /\ recorded' = recorded - 1
    /\ UNCHANGED <<begun, running, shown, spoiled>>

\* The complete receipt is shown, the copy of the worktree first; the copy may be
\* there although showing it is taken for a failure.
Show(place) ==
    /\ recorded = Length
    /\ place = "checkout" => "worktree" \in shown
    /\ shown' = shown \cup {place}
    /\ spoiled' \in {spoiled, TRUE}
    /\ UNCHANGED <<begun, running, recorded>>

Hide(place) ==
    /\ place = "worktree" => "checkout" \notin shown \/ spoiled
    /\ shown' = shown \ {place}
    /\ UNCHANGED <<begun, running, recorded, spoiled>>

Spoil == spoiled' = TRUE /\ UNCHANGED <<begun, running, recorded, shown>>

\* Receipts are written under the lock, commands outlive it.
HolderStep ==
    /\ holder \in live
    /\ \/ Record \/ Withdraw \/ Spoil
       \/ \E place \in {"worktree", "checkout"} : Show(place) \/ Hide(place)

LogNext ==
    \/ MutexNext /\ UNCHANGED logVars
    \/ HolderStep /\ UNCHANGED mutexVars
    \/ (\E p \in Proc : BeginPhase(p) \/ EndPhase(p)) /\ UNCHANGED mutexVars

LogSpec == MutexInit /\ LogInit /\ [][LogNext]_<<mutexVars, logVars>>
==============================================================================
