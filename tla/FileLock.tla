------------------------------- MODULE FileLock -------------------------------
(***************************************************************************)
(* The file lock of runtime/lib/state-store.mjs (withFileLock), one action *)
(* per file-system or git operation.                                       *)
(*                                                                         *)
(* A free lock is taken by an atomic hard link.  A lock whose recorded     *)
(* owner is dead on this host is recovered under an acquisition gate:      *)
(* a git ref moved by compare-and-swap inside a repository ("git"), a      *)
(* directory elsewhere ("fs").  The gate's holder renames the dead lock    *)
(* away, reads what it moved, and puts it back when it moved something     *)
(* else than it had observed.                                              *)
(*                                                                         *)
(* A process is one run of a CLI command or hook: when it dies it never    *)
(* returns, a restarted command is another process.  Pids are not reused.  *)
(***************************************************************************)
EXTENDS Integers, FiniteSets

CONSTANTS Proc,      \* the processes
          Host,      \* Host[p]: the machine process p runs on
          Fallible,  \* the processes that may be killed
          GateKind,  \* "git" or "fs"
          Tokens,    \* lock tokens a process draws before it reuses the first
          Tries,     \* acquisition attempts (3 in the code)
          NoOwner,   \* the file does not exist, or holds no owner record
          EmptyDir   \* a gate directory without an owner record in it

Owner == [proc : Proc, serial : 0..Tokens]

ASSUME ProcAssumption == Fallible \subseteq Proc /\ DOMAIN Host = Proc
ASSUME GateAssumption == GateKind \in {"git", "fs"}
ASSUME BoundAssumption == Tokens \in Nat \ {0} /\ Tries \in Nat \ {0}
ASSUME OwnerAssumption ==
    NoOwner \notin Owner \cup Proc /\ EmptyDir \notin Owner /\ NoOwner # EmptyDir

VARIABLES alive,   \* processes that have not been killed
          lock,    \* owner record in <file>.lock
          gate,    \* owner record of the acquisition gate
          pc,      \* what each process does next
          serial,  \* token of its current withFileLock call
          seen,    \* owner record it observed
          moved,   \* owner record in its quarantine
          tries    \* attempts left in the current loop

vars == <<alive, lock, gate, pc, serial, seen, moved, tries>>

GitSteps == {"observeGate", "claimGate", "reobserveGate"}
FsSteps == {"makeGate", "signGate", "readGate", "judgeGate", "moveGate", "settleGate"}
GatedSteps == {"create", "observe", "judge", "move", "settle", "leaveWon", "leaveLost"}
HoldSteps == {"held", "releasing"}
Steps == {"idle", "check", "dead"} \cup GitSteps \cup FsSteps \cup GatedSteps \cup HoldSteps

TypeOK ==
    /\ alive \in SUBSET Proc
    /\ lock \in Owner \cup {NoOwner}
    /\ gate \in Owner \cup {NoOwner, EmptyDir}
    /\ pc \in [Proc -> Steps]
    /\ serial \in [Proc -> 0..Tokens]
    /\ seen \in [Proc -> Owner \cup {NoOwner, EmptyDir}]
    /\ moved \in [Proc -> Owner \cup {NoOwner, EmptyDir}]
    /\ tries \in [Proc -> 0..Tries]

Init ==
    /\ alive = Proc
    /\ lock = NoOwner
    /\ gate = NoOwner
    /\ pc = [p \in Proc |-> "idle"]
    /\ serial = [p \in Proc |-> 0]
    /\ seen = [p \in Proc |-> NoOwner]
    /\ moved = [p \in Proc |-> NoOwner]
    /\ tries = [p \in Proc |-> 0]

(***************************************************************************)
(* Owner records.                                                          *)
(***************************************************************************)

\* The record a withFileLock call publishes: a fresh token per call.
Mine(p) == [proc |-> p, serial |-> serial[p]]

\* The git claimant blob is written once per process and file.
Claimant(p) == [proc |-> p, serial |-> 0]

\* The record that signs the gate for p.
GateSignature(p) == IF GateKind = "git" THEN Claimant(p) ELSE Mine(p)

\* Mutant: the host name is not compared.
IsRecoverableAnywhere(p, owner) == owner \in Owner /\ owner.proc \notin alive

\* An owner counts as dead only on the reader's host and only when the pid is
\* gone; a missing record or a foreign host is never recoverable.
IsRecoverable(p, owner) ==
    /\ owner \in Owner
    /\ Host[owner.proc] = Host[p]
    /\ owner.proc \notin alive

At(p, step) == p \in alive /\ pc[p] = step
Goto(p, step) == pc' = [pc EXCEPT ![p] = step]

(***************************************************************************)
(* Uncontended acquisition.                                                *)
(***************************************************************************)

\* Mutant: the owner record is renamed into place and replaces any lock.
FastCreateReplacing(p) ==
    /\ At(p, "idle")
    /\ serial' = [serial EXCEPT ![p] = (@ % Tokens) + 1]
    /\ lock' = [proc |-> p, serial |-> serial'[p]]
    /\ Goto(p, "held")
    /\ UNCHANGED <<alive, gate, seen, moved, tries>>

\* withFileLock: publish the pending owner record with a no-replace hard link.
FastCreate(p) ==
    /\ At(p, "idle")
    /\ serial' = [serial EXCEPT ![p] = (@ % Tokens) + 1]
    /\ IF lock = NoOwner
         THEN lock' = [proc |-> p, serial |-> serial'[p]] /\ Goto(p, "held")
         ELSE UNCHANGED lock /\ Goto(p, "check")
    /\ UNCHANGED <<alive, gate, seen, moved, tries>>

\* Mutant: recovery starts without the acquisition gate.
CheckUngated(p) ==
    /\ At(p, "check")
    /\ Goto(p, IF IsRecoverable(p, lock) THEN "create" ELSE "idle")
    /\ tries' = [tries EXCEPT ![p] = IF IsRecoverable(p, lock) THEN Tries ELSE 0]
    /\ UNCHANGED <<alive, lock, gate, serial, seen, moved>>

\* The link failed: give up (EH-STATE-LOCK-012) unless the owner is dead here.
Check(p) ==
    /\ At(p, "check")
    /\ Goto(p, IF ~IsRecoverable(p, lock) THEN "idle"
               ELSE IF GateKind = "git" THEN "observeGate" ELSE "makeGate")
    /\ tries' = [tries EXCEPT ![p] = IF IsRecoverable(p, lock) THEN Tries ELSE 0]
    /\ UNCHANGED <<alive, lock, gate, serial, seen, moved>>

(***************************************************************************)
(* The acquisition gate as a git ref.                                      *)
(***************************************************************************)

\* Mutant: a gate ref left by a dead process is never claimed.
ObserveFreeGate(p) ==
    /\ At(p, "observeGate")
    /\ seen' = [seen EXCEPT ![p] = gate]
    /\ Goto(p, IF gate = NoOwner THEN "claimGate" ELSE "idle")
    /\ UNCHANGED <<alive, lock, gate, serial, moved, tries>>

\* gitRefOwner before the first claim; a live owner ends the call (159).
ObserveGate(p) ==
    /\ At(p, "observeGate")
    /\ IF gate = NoOwner \/ IsRecoverable(p, gate)
         THEN seen' = [seen EXCEPT ![p] = gate] /\ Goto(p, "claimGate")
         ELSE UNCHANGED seen /\ Goto(p, "idle")
    /\ UNCHANGED <<alive, lock, gate, serial, moved, tries>>

\* update-ref <ref> <claimant> <observed>: compare-and-swap.
ClaimGate(p) ==
    /\ At(p, "claimGate")
    /\ IF gate = seen[p]
         THEN /\ gate' = Claimant(p)
              /\ tries' = [tries EXCEPT ![p] = Tries]
              /\ Goto(p, "create")
         ELSE /\ UNCHANGED gate
              /\ tries' = [tries EXCEPT ![p] = @ - 1]
              /\ Goto(p, "reobserveGate")
    /\ UNCHANGED <<alive, lock, serial, seen, moved>>

\* The claim lost: look again, and claim again while attempts are left.
ReobserveGate(p) ==
    /\ At(p, "reobserveGate")
    /\ IF tries[p] > 0 /\ (gate = NoOwner \/ IsRecoverable(p, gate))
         THEN seen' = [seen EXCEPT ![p] = gate] /\ Goto(p, "claimGate")
         ELSE UNCHANGED seen /\ Goto(p, "idle")
    /\ UNCHANGED <<alive, lock, gate, serial, moved, tries>>

(***************************************************************************)
(* The acquisition gate as a directory <lock>.acquire.                     *)
(***************************************************************************)

\* mkdirSync(gate).
MakeGate(p) ==
    /\ At(p, "makeGate")
    /\ IF gate = NoOwner
         THEN gate' = EmptyDir /\ Goto(p, "signGate")
         ELSE UNCHANGED gate /\ Goto(p, "readGate")
    /\ UNCHANGED <<alive, lock, serial, seen, moved, tries>>

\* writeFileSync(gate/owner.json, 'wx').  The directory may have been moved
\* away meanwhile (the call throws) or replaced by a signed one (EEXIST).
SignGate(p) ==
    /\ At(p, "signGate")
    /\ IF gate = EmptyDir
         THEN /\ gate' = Mine(p)
              /\ tries' = [tries EXCEPT ![p] = Tries]
              /\ Goto(p, "create")
         ELSE /\ UNCHANGED <<gate, tries>>
              /\ Goto(p, IF gate = NoOwner THEN "idle" ELSE "readGate")
    /\ UNCHANGED <<alive, lock, serial, seen, moved>>

\* readLockOwner(gate): null for a missing gate and for an unsigned one.
ReadGate(p) ==
    /\ At(p, "readGate")
    /\ seen' = [seen EXCEPT ![p] = IF gate = EmptyDir THEN NoOwner ELSE gate]
    /\ Goto(p, "judgeGate")
    /\ UNCHANGED <<alive, lock, gate, serial, moved, tries>>

\* lockIsRecoverable(gate) reads the owner a second time.
JudgeGate(p) ==
    /\ At(p, "judgeGate")
    /\ Goto(p, IF IsRecoverable(p, gate) THEN "moveGate" ELSE "idle")
    /\ UNCHANGED <<alive, lock, gate, serial, seen, moved, tries>>

\* quarantineStaleLock(gate): rename whatever is there now.
MoveGate(p) ==
    /\ At(p, "moveGate")
    /\ moved' = [moved EXCEPT ![p] = gate]
    /\ gate' = NoOwner
    /\ Goto(p, IF gate = NoOwner THEN "idle" ELSE "settleGate")
    /\ UNCHANGED <<alive, lock, serial, seen, tries>>

\* Delete the quarantined gate when it is the dead one observed, otherwise
\* rename it back, which fails when a signed gate has appeared meanwhile.
SettleGate(p) ==
    /\ At(p, "settleGate")
    /\ IF moved[p] = seen[p] /\ IsRecoverable(p, moved[p])
         THEN /\ UNCHANGED gate
              /\ tries' = [tries EXCEPT ![p] = @ - 1]
              /\ Goto(p, IF tries[p] > 1 THEN "makeGate" ELSE "idle")
         ELSE /\ gate' = IF gate \in {NoOwner, EmptyDir} THEN moved[p] ELSE gate
              /\ UNCHANGED tries
              /\ Goto(p, "idle")
    /\ moved' = [moved EXCEPT ![p] = NoOwner]
    /\ UNCHANGED <<alive, lock, serial, seen>>

(***************************************************************************)
(* acquireOwnedLock, run by the gate's holder.                             *)
(***************************************************************************)

Create(p) ==
    /\ At(p, "create")
    /\ IF lock = NoOwner
         THEN lock' = Mine(p) /\ Goto(p, "leaveWon")
         ELSE UNCHANGED lock /\ Goto(p, "observe")
    /\ UNCHANGED <<alive, gate, serial, seen, moved, tries>>

\* observedOwner = readLockOwner(lock).
Observe(p) ==
    /\ At(p, "observe")
    /\ seen' = [seen EXCEPT ![p] = lock]
    /\ Goto(p, "judge")
    /\ UNCHANGED <<alive, lock, gate, serial, moved, tries>>

\* lockIsRecoverable(lock) reads the owner a second time.
Judge(p) ==
    /\ At(p, "judge")
    /\ Goto(p, IF IsRecoverable(p, lock) THEN "move" ELSE "leaveLost")
    /\ UNCHANGED <<alive, lock, gate, serial, seen, moved, tries>>

\* quarantineStaleLock(lock): rename whatever is there now.
Move(p) ==
    /\ At(p, "move")
    /\ moved' = [moved EXCEPT ![p] = lock]
    /\ lock' = NoOwner
    /\ Goto(p, IF lock = NoOwner THEN "leaveLost" ELSE "settle")
    /\ UNCHANGED <<alive, gate, serial, seen, tries>>

\* Delete the quarantined lock when it is the dead one observed, otherwise
\* rename it back over whatever lock has been published meanwhile.
Settle(p) ==
    /\ At(p, "settle")
    /\ IF moved[p] = seen[p] /\ IsRecoverable(p, moved[p])
         THEN /\ UNCHANGED lock
              /\ tries' = [tries EXCEPT ![p] = @ - 1]
              /\ Goto(p, IF tries[p] > 1 THEN "create" ELSE "leaveLost")
         ELSE /\ lock' = moved[p]
              /\ UNCHANGED tries
              /\ Goto(p, "leaveLost")
    /\ moved' = [moved EXCEPT ![p] = NoOwner]
    /\ UNCHANGED <<alive, gate, serial, seen>>

\* The gate's cleanup: delete the ref if it still names p's claimant, or the
\* directory if it still carries p's token.
LeaveGate(p) ==
    /\ At(p, "leaveWon") \/ At(p, "leaveLost")
    /\ gate' = IF gate = GateSignature(p) THEN NoOwner ELSE gate
    /\ Goto(p, IF pc[p] = "leaveWon" THEN "held" ELSE "idle")
    /\ UNCHANGED <<alive, lock, serial, seen, moved, tries>>

(***************************************************************************)
(* Holding and releasing.                                                  *)
(***************************************************************************)

\* The action is over (it returned, threw or called process.exit): the
\* cleanup reads the owner first, and leaves a lock of someone else alone.
ReadOwn(p) ==
    /\ At(p, "held")
    /\ Goto(p, IF lock = Mine(p) THEN "releasing" ELSE "idle")
    /\ UNCHANGED <<alive, lock, gate, serial, seen, moved, tries>>

\* rmSync(lock) removes whatever is there now.
Remove(p) ==
    /\ At(p, "releasing")
    /\ lock' = NoOwner
    /\ Goto(p, "idle")
    /\ UNCHANGED <<alive, gate, serial, seen, moved, tries>>

\* SIGKILL or power loss at any point: no cleanup runs.
Crash(p) ==
    /\ p \in Fallible \cap alive
    /\ alive' = alive \ {p}
    /\ Goto(p, "dead")
    /\ UNCHANGED <<lock, gate, serial, seen, moved, tries>>

Step(p) ==
    \/ FastCreate(p) \/ Check(p)
    \/ ObserveGate(p) \/ ClaimGate(p) \/ ReobserveGate(p)
    \/ MakeGate(p) \/ SignGate(p) \/ ReadGate(p)
    \/ JudgeGate(p) \/ MoveGate(p) \/ SettleGate(p)
    \/ Create(p) \/ Observe(p) \/ Judge(p) \/ Move(p) \/ Settle(p) \/ LeaveGate(p)
    \/ ReadOwn(p) \/ Remove(p)

Next == \E p \in Proc : Step(p) \/ Crash(p)

Spec == Init /\ [][Next]_vars

\* A live process keeps executing its synchronous code and its caller retries
\* (withFileLockWait, a repeated command).
FairSpec == Spec /\ \A p \in Proc : WF_vars(Step(p))

(***************************************************************************)
(* Properties.                                                             *)
(***************************************************************************)

Holds(p) == p \in alive /\ pc[p] \in HoldSteps
InGate(p) == p \in alive /\ pc[p] \in GatedSteps

\* Two live processes are never both inside withFileLock's action: the
\* recovery of a dead owner's lock admits one successor.
MutualExclusion ==
    \A p, q \in Proc : Holds(p) /\ Holds(q) => p = q

\* While a live process runs its action, the lock file carries its token: no
\* recovery, restore or late release took the file from under it.
HolderIsRecorded ==
    \A p \in Proc : Holds(p) => lock = Mine(p)

\* acquireOwnedLock is never run by two live processes: the compare-and-swap
\* on the gate ref serializes recovery even when gate holders die in it.
GateExclusion ==
    \A p, q \in Proc : InGate(p) /\ InGate(q) => p = q

\* What withFileLock admits: one live holder, whose token the file carries, and
\* one process that recovers.
OneHolder == MutualExclusion /\ HolderIsRecorded /\ GateExclusion

\* A lock record disappears, or gives way to another, only when its owner
\* releases it or is dead on the host of the process that moves it: "a live
\* owner is never replaced", and a foreign host fails closed.
LiveOwnerKept ==
    [][lock # NoOwner /\ lock' # lock =>
         \/ \E p \in Proc : lock.proc = p /\ At(p, "releasing") /\ At(p, "idle")'
         \/ \E p \in Proc : /\ At(p, "move") /\ moved'[p] = lock
                            /\ lock.proc \notin alive /\ Host[lock.proc] = Host[p]]_vars

\* A signed gate record disappears only when its owner leaves the gate, or to
\* a process of the same host after its owner died.
LiveGateKept ==
    [][(gate \in Owner) /\ gate' # gate =>
         \/ \E p \in Proc : gate.proc = p /\ InGate(p) /\ ~InGate(p)'
         \/ \E p \in Proc : /\ pc[p] \in {"claimGate", "moveGate"} /\ pc'[p] # pc[p]
                            /\ gate.proc \notin alive /\ Host[gate.proc] = Host[p]]_vars

\* No live process loses what it owns, neither the lock nor the gate.
LiveOwnersKept == LiveOwnerKept /\ LiveGateKept

\* A gate directory that nobody has signed and nobody is going to sign, because
\* its maker died; lockIsRecoverable never says yes to it.
GateAbandoned == gate = EmptyDir /\ \A p \in alive : pc[p] # "signGate"

\* A lock left by a dead process is recovered as long as one process of its
\* host stays alive and retries, whoever else dies in whatever step, also in the
\* gate.  Only a death between the mkdir of a gate and its signature ends that.
DeadOwnerRecovered ==
    \A d \in Proc, p \in Proc \ Fallible :
        (/\ Host[d] = Host[p]
         /\ d \notin alive
         /\ lock \in Owner
         /\ lock.proc = d) ~> (lock = NoOwner \/ lock.proc # d \/ GateAbandoned)

\* One lock with one holder, for callers that look at the file only.
Holder == IF lock = NoOwner THEN NoOwner ELSE lock.proc
Abstract == INSTANCE MutexLock WITH NoHolder <- NoOwner, holder <- Holder, live <- alive
AbstractSpec == Abstract!MutexSpec
==============================================================================
