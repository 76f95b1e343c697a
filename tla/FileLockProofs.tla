---------------------------- MODULE FileLockProofs ----------------------------
(***************************************************************************)
(* Theorems about FileLock, for every set of processes, every assignment   *)
(* of processes to hosts, every number of tokens and of attempts.          *)
(***************************************************************************)
EXTENDS FileLock, TLAPS

(***************************************************************************)
(* Type correctness.  The attempt counter stays in its range only because  *)
(* every step of a loop is entered with an attempt left, and the lock file *)
(* never becomes a gate directory because a quarantined lock is a record.  *)
(***************************************************************************)
LoopSteps ==
    {"observeGate", "claimGate", "create", "observe", "judge", "move", "settle"} \cup FsSteps

TypeInv ==
    /\ TypeOK
    /\ \A p \in Proc : pc[p] \in LoopSteps => tries[p] > 0
    /\ \A p \in Proc : pc[p] = "settle" => moved[p] \in Owner

LEMMA TypeInit == Init => TypeInv
  BY BoundAssumption DEF Init, TypeInv, TypeOK, Steps, LoopSteps, FsSteps

\* A fresh lock token is in range.
LEMMA NextSerial ==
    ASSUME NEW n \in 0..Tokens
    PROVE  (n % Tokens) + 1 \in 0..Tokens
  BY BoundAssumption, SMT

LEMMA TypeStep == TypeInv /\ [Next]_vars => TypeInv'
  <1> SUFFICES ASSUME TypeInv, [Next]_vars PROVE TypeInv'
    OBVIOUS
  <1> USE BoundAssumption DEF TypeInv, TypeOK, Steps, LoopSteps, GitSteps, FsSteps,
          GatedSteps, HoldSteps, Owner, At, Goto, Mine, Claimant
  <1>1. ASSUME NEW p \in Proc, FastCreate(p) PROVE TypeInv'
    BY <1>1, NextSerial DEF FastCreate
  <1>2. ASSUME NEW p \in Proc, Check(p) PROVE TypeInv'
    BY <1>2 DEF Check
  <1>3. ASSUME NEW p \in Proc, ObserveGate(p) PROVE TypeInv'
    BY <1>3 DEF ObserveGate
  <1>4. ASSUME NEW p \in Proc, ClaimGate(p) PROVE TypeInv'
    BY <1>4 DEF ClaimGate
  <1>5. ASSUME NEW p \in Proc, ReobserveGate(p) PROVE TypeInv'
    BY <1>5 DEF ReobserveGate
  <1>6. ASSUME NEW p \in Proc, MakeGate(p) PROVE TypeInv'
    BY <1>6 DEF MakeGate
  <1>7. ASSUME NEW p \in Proc, SignGate(p) PROVE TypeInv'
    BY <1>7 DEF SignGate
  <1>8. ASSUME NEW p \in Proc, ReadGate(p) PROVE TypeInv'
    BY <1>8 DEF ReadGate
  <1>9. ASSUME NEW p \in Proc, JudgeGate(p) PROVE TypeInv'
    BY <1>9 DEF JudgeGate
  <1>10. ASSUME NEW p \in Proc, MoveGate(p) PROVE TypeInv'
    BY <1>10 DEF MoveGate
  <1>11. ASSUME NEW p \in Proc, SettleGate(p) PROVE TypeInv'
    BY <1>11 DEF SettleGate
  <1>12. ASSUME NEW p \in Proc, Create(p) PROVE TypeInv'
    BY <1>12 DEF Create
  <1>13. ASSUME NEW p \in Proc, Observe(p) PROVE TypeInv'
    BY <1>13 DEF Observe
  <1>14. ASSUME NEW p \in Proc, Judge(p) PROVE TypeInv'
    BY <1>14 DEF Judge
  <1>15. ASSUME NEW p \in Proc, Move(p) PROVE TypeInv'
    BY <1>15 DEF Move
  <1>16. ASSUME NEW p \in Proc, Settle(p) PROVE TypeInv'
    BY <1>16 DEF Settle
  <1>17. ASSUME NEW p \in Proc, LeaveGate(p) PROVE TypeInv'
    BY <1>17 DEF LeaveGate
  <1>18. ASSUME NEW p \in Proc, ReadOwn(p) PROVE TypeInv'
    BY <1>18 DEF ReadOwn
  <1>19. ASSUME NEW p \in Proc, Remove(p) PROVE TypeInv'
    BY <1>19 DEF Remove
  <1>20. ASSUME NEW p \in Proc, Crash(p) PROVE TypeInv'
    BY <1>20 DEF Crash
  <1>21. CASE UNCHANGED vars
    BY <1>21 DEF vars
  <1>22. QED
    BY <1>1, <1>2, <1>3, <1>4, <1>5, <1>6, <1>7, <1>8, <1>9, <1>10, <1>11, <1>12, <1>13, <1>14,
       <1>15, <1>16, <1>17, <1>18, <1>19, <1>20, <1>21 DEF Next, Step

\* Every reachable state of the lock protocol is well typed, whatever dies when.
THEOREM TypeCorrect == Spec => []TypeOK
  <1>1. Spec => []TypeInv
    BY TypeInit, TypeStep, PTL DEF Spec
  <1>2. TypeInv => TypeOK
    BY DEF TypeInv
  <1>3. QED
    BY <1>1, <1>2, PTL

(***************************************************************************)
(* The git gate.  A claim replaces only the owner it was observed against, *)
(* and that owner was dead (or the ref absent), so a process inside the    *)
(* gate stays the one named by the ref.                                    *)
(***************************************************************************)
GateInv ==
    /\ \A p \in Proc : pc[p] \notin FsSteps
    /\ \A p \in Proc : InGate(p) => gate = Claimant(p)
    /\ \A p \in Proc : At(p, "claimGate") =>
           seen[p] = NoOwner \/ (seen[p] \in Owner /\ seen[p].proc \notin alive)

LEMMA GateStep ==
    ASSUME GateKind = "git", TypeInv, GateInv, [Next]_vars
    PROVE  GateInv'
  <1> USE GateKind = "git", OwnerAssumption DEF TypeInv, TypeOK, Steps, LoopSteps, GitSteps,
          FsSteps, GatedSteps, HoldSteps, Owner, At, Goto, Mine, Claimant, GateInv, InGate,
          IsRecoverable, GateSignature
  <1>1. ASSUME NEW q \in Proc, FastCreate(q) PROVE GateInv'
    BY <1>1 DEF FastCreate
  <1>2. ASSUME NEW q \in Proc, Check(q) PROVE GateInv'
    BY <1>2 DEF Check
  <1>3. ASSUME NEW q \in Proc, ObserveGate(q) PROVE GateInv'
    BY <1>3 DEF ObserveGate
  <1>4. ASSUME NEW q \in Proc, ClaimGate(q) PROVE GateInv'
    <2>1. CASE gate # seen[q]
      BY <1>4, <2>1 DEF ClaimGate
    <2>2. CASE gate = seen[q]
      <3>1. seen[q] = NoOwner \/ seen[q].proc \notin alive
        BY <1>4 DEF ClaimGate
      <3>2. ASSUME NEW p \in Proc, InGate(p) PROVE FALSE
        <4>1. gate = Claimant(p) /\ p \in alive
          BY <3>2
        <4>2. gate # NoOwner /\ gate.proc = p
          BY <4>1, BoundAssumption
        <4>3. QED
          BY <2>2, <3>1, <4>1, <4>2
      <3>3. QED
        BY <1>4, <2>2, <3>2 DEF ClaimGate
    <2>3. QED
      BY <2>1, <2>2
  <1>5. ASSUME NEW q \in Proc, ReobserveGate(q) PROVE GateInv'
    BY <1>5 DEF ReobserveGate
  <1>6. ASSUME NEW q \in Proc, MakeGate(q) PROVE GateInv'
    BY <1>6 DEF MakeGate
  <1>7. ASSUME NEW q \in Proc, SignGate(q) PROVE GateInv'
    BY <1>7 DEF SignGate
  <1>8. ASSUME NEW q \in Proc, ReadGate(q) PROVE GateInv'
    BY <1>8 DEF ReadGate
  <1>9. ASSUME NEW q \in Proc, JudgeGate(q) PROVE GateInv'
    BY <1>9 DEF JudgeGate
  <1>10. ASSUME NEW q \in Proc, MoveGate(q) PROVE GateInv'
    BY <1>10 DEF MoveGate
  <1>11. ASSUME NEW q \in Proc, SettleGate(q) PROVE GateInv'
    BY <1>11 DEF SettleGate
  <1>12. ASSUME NEW q \in Proc, Create(q) PROVE GateInv'
    BY <1>12 DEF Create
  <1>13. ASSUME NEW q \in Proc, Observe(q) PROVE GateInv'
    BY <1>13 DEF Observe
  <1>14. ASSUME NEW q \in Proc, Judge(q) PROVE GateInv'
    BY <1>14 DEF Judge
  <1>15. ASSUME NEW q \in Proc, Move(q) PROVE GateInv'
    BY <1>15 DEF Move
  <1>16. ASSUME NEW q \in Proc, Settle(q) PROVE GateInv'
    BY <1>16 DEF Settle
  <1>17. ASSUME NEW q \in Proc, LeaveGate(q) PROVE GateInv'
    BY <1>17 DEF LeaveGate
  <1>18. ASSUME NEW q \in Proc, ReadOwn(q) PROVE GateInv'
    BY <1>18 DEF ReadOwn
  <1>19. ASSUME NEW q \in Proc, Remove(q) PROVE GateInv'
    BY <1>19 DEF Remove
  <1>20. ASSUME NEW q \in Proc, Crash(q) PROVE GateInv'
    BY <1>20 DEF Crash
  <1>21. CASE UNCHANGED vars
    BY <1>21 DEF vars
  <1>22. QED
    BY <1>1, <1>2, <1>3, <1>4, <1>5, <1>6, <1>7, <1>8, <1>9, <1>10, <1>11, <1>12, <1>13, <1>14,
       <1>15, <1>16, <1>17, <1>18, <1>19, <1>20, <1>21 DEF Next, Step

\* At most one live process runs acquireOwnedLock, however many processes there
\* are and whichever of them die in whichever step: the compare-and-swap on
\* the gate ref never takes the gate from a live owner.
THEOREM GitGateExclusion ==
    ASSUME GateKind = "git"
    PROVE  Spec => []GateExclusion
  <1>1. Init => GateInv
    BY DEF Init, GateInv, FsSteps, InGate, GatedSteps, At
  <1>2. TypeInv /\ GateInv /\ [Next]_vars => GateInv'
    BY GateStep
  <1>3. GateInv => GateExclusion
    BY DEF GateInv, GateExclusion, Claimant
  <1>4. QED
    BY <1>1, <1>2, <1>3, TypeInit, TypeStep, PTL DEF Spec

SingleFault == \A p, q \in Fallible : p = q

(***************************************************************************)
(* The directory gate, with one process that can die.  Nobody recovers     *)
(* before that death, so it leaves no gate behind: a gate is of a live     *)
(* process, its maker or the one that signed it, and is never moved.       *)
(***************************************************************************)
DirectoryInv ==
    /\ Proc \ alive \subseteq Fallible
    /\ alive = Proc => gate = NoOwner
    /\ \A p \in alive : pc[p] \in FsSteps \cup GatedSteps => alive # Proc
    /\ \A p \in alive : pc[p] \notin GitSteps \cup {"moveGate", "settleGate"}
    /\ \A p \in Proc : At(p, "signGate") => gate = EmptyDir
    /\ \A p, q \in Proc : At(p, "signGate") /\ At(q, "signGate") => p = q
    /\ \A p \in Proc : InGate(p) => gate = Mine(p)
    /\ gate \in Owner => gate.proc \in alive

LEMMA DirectoryStep ==
    ASSUME GateKind = "fs", SingleFault, TypeInv, DirectoryInv, [Next]_vars
    PROVE  DirectoryInv'
  <1> USE GateKind = "fs", OwnerAssumption, ProcAssumption DEF SingleFault, TypeInv, TypeOK, Steps,
          LoopSteps, GitSteps, FsSteps, GatedSteps, HoldSteps, Owner, At, Goto, Mine, DirectoryInv,
          InGate, IsRecoverable, GateSignature
  <1>1. ASSUME NEW q \in Proc, FastCreate(q) PROVE DirectoryInv'
    BY <1>1 DEF FastCreate
  <1>2. ASSUME NEW q \in Proc, Check(q) PROVE DirectoryInv'
    BY <1>2 DEF Check
  <1>3. ASSUME NEW q \in Proc, ObserveGate(q) \/ ClaimGate(q) \/ ReobserveGate(q)
        PROVE  DirectoryInv'
    BY <1>3 DEF ObserveGate, ClaimGate, ReobserveGate
  <1>4. ASSUME NEW q \in Proc, MakeGate(q) PROVE DirectoryInv'
    BY <1>4 DEF MakeGate
  <1>5. ASSUME NEW q \in Proc, SignGate(q) PROVE DirectoryInv'
    BY <1>5 DEF SignGate
  <1>6. ASSUME NEW q \in Proc, ReadGate(q) PROVE DirectoryInv'
    BY <1>6 DEF ReadGate
  <1>7. ASSUME NEW q \in Proc, JudgeGate(q) PROVE DirectoryInv'
    BY <1>7 DEF JudgeGate
  <1>8. ASSUME NEW q \in Proc, MoveGate(q) \/ SettleGate(q) PROVE DirectoryInv'
    BY <1>8 DEF MoveGate, SettleGate
  <1>9. ASSUME NEW q \in Proc, Create(q) PROVE DirectoryInv'
    BY <1>9 DEF Create
  <1>10. ASSUME NEW q \in Proc, Observe(q) PROVE DirectoryInv'
    BY <1>10 DEF Observe
  <1>11. ASSUME NEW q \in Proc, Judge(q) PROVE DirectoryInv'
    BY <1>11 DEF Judge
  <1>12. ASSUME NEW q \in Proc, Move(q) PROVE DirectoryInv'
    BY <1>12 DEF Move
  <1>13. ASSUME NEW q \in Proc, Settle(q) PROVE DirectoryInv'
    BY <1>13 DEF Settle
  <1>14. ASSUME NEW q \in Proc, LeaveGate(q) PROVE DirectoryInv'
    <2>1. InGate(q) /\ gate = Mine(q)
      BY <1>14 DEF LeaveGate
    <2>2. \A p \in Proc : InGate(p) => p = q
      BY <2>1
    <2>3. \A p \in Proc : ~ At(p, "signGate")
      BY <2>1
    <2>4. /\ gate' = NoOwner /\ UNCHANGED <<alive, serial>>
          /\ pc' \in {[pc EXCEPT ![q] = "held"], [pc EXCEPT ![q] = "idle"]}
      BY <1>14, <2>1 DEF LeaveGate
    <2>5. QED
      BY <2>1, <2>2, <2>3, <2>4
  <1>15. ASSUME NEW q \in Proc, ReadOwn(q) \/ Remove(q) PROVE DirectoryInv'
    BY <1>15 DEF ReadOwn, Remove
  <1>16. ASSUME NEW q \in Proc, Crash(q) PROVE DirectoryInv'
    <2>1. alive = Proc
      <3>1. \A r \in Proc \ alive : r = q
        BY <1>16 DEF Crash
      <3>2. q \in alive
        BY <1>16 DEF Crash
      <3>3. QED
        BY <3>1, <3>2
    <2>2. gate = NoOwner /\ \A p \in alive : pc[p] \notin FsSteps \cup GatedSteps
      BY <2>1
    <2>3. UNCHANGED <<gate, serial>> /\ alive' = Proc \ {q} /\ q \in Fallible
      BY <1>16, <2>1 DEF Crash
    <2>4. \A p \in Proc : p \in alive' => pc'[p] = pc[p] /\ p \in alive
      BY <1>16, <2>3 DEF Crash
    <2>5. QED
      BY <2>2, <2>3, <2>4
  <1>17. CASE UNCHANGED vars
    BY <1>17 DEF vars
  <1>18. QED
    BY <1>1, <1>2, <1>3, <1>4, <1>5, <1>6, <1>7, <1>8, <1>9, <1>10, <1>11, <1>12, <1>13, <1>14,
       <1>15, <1>16, <1>17 DEF Next, Step

GatesAreSafe == (GateKind = "git" => GateInv) /\ (GateKind = "fs" => DirectoryInv)

LEMMA GatesInit == Init => GatesAreSafe
  BY OwnerAssumption
     DEF Init, GatesAreSafe, GateInv, DirectoryInv, FsSteps, GitSteps, InGate, GatedSteps, At

LEMMA GatesExclude == TypeInv /\ GatesAreSafe => GateExclusion
  BY GateAssumption DEF GatesAreSafe, GateInv, DirectoryInv, GateExclusion, Claimant, Mine

(***************************************************************************)
(* Mutual exclusion, with either gate.  With one process that can die, the *)
(* only dead owner there can be is the one a recovering process observed,  *)
(* so what it moves is what it judged and nothing is ever restored.        *)
(***************************************************************************)
HoldInv ==
    /\ Proc \ alive \subseteq Fallible
    /\ \A p \in Proc : Holds(p) \/ At(p, "leaveWon") => lock = Mine(p)
    /\ \A p \in Proc : p \in alive /\ pc[p] \in GitSteps \cup FsSteps \cup GatedSteps => alive # Proc
    /\ \A p \in Proc : At(p, "judge") /\ lock \in Owner /\ lock.proc \notin alive => seen[p] = lock
    /\ \A p \in Proc : At(p, "move") => lock = seen[p] /\ IsRecoverable(p, lock)
    /\ \A p \in Proc : At(p, "settle") => moved[p] = seen[p] /\ IsRecoverable(p, moved[p])

LEMMA HoldStep ==
    ASSUME SingleFault, TypeInv, GateExclusion, HoldInv, [Next]_vars
    PROVE  HoldInv'
  <1> USE OwnerAssumption, ProcAssumption DEF SingleFault, TypeInv, TypeOK,
          Steps, LoopSteps, GitSteps, FsSteps, GatedSteps, HoldSteps, Owner, At, Goto, Mine,
          Claimant, GateExclusion, InGate, IsRecoverable, HoldInv, Holds
  <1>1. ASSUME NEW q \in Proc, FastCreate(q) PROVE HoldInv'
    BY <1>1 DEF FastCreate
  <1>2. ASSUME NEW q \in Proc, Check(q) PROVE HoldInv'
    BY <1>2 DEF Check
  <1>3. ASSUME NEW q \in Proc, ObserveGate(q) PROVE HoldInv'
    BY <1>3 DEF ObserveGate
  <1>4. ASSUME NEW q \in Proc, ClaimGate(q) PROVE HoldInv'
    BY <1>4 DEF ClaimGate
  <1>5. ASSUME NEW q \in Proc, ReobserveGate(q) PROVE HoldInv'
    BY <1>5 DEF ReobserveGate
  <1>6. ASSUME NEW q \in Proc, MakeGate(q) PROVE HoldInv'
    BY <1>6 DEF MakeGate
  <1>7. ASSUME NEW q \in Proc, SignGate(q) PROVE HoldInv'
    BY <1>7 DEF SignGate
  <1>8. ASSUME NEW q \in Proc, ReadGate(q) PROVE HoldInv'
    BY <1>8 DEF ReadGate
  <1>9. ASSUME NEW q \in Proc, JudgeGate(q) PROVE HoldInv'
    BY <1>9 DEF JudgeGate
  <1>10. ASSUME NEW q \in Proc, MoveGate(q) PROVE HoldInv'
    BY <1>10 DEF MoveGate
  <1>11. ASSUME NEW q \in Proc, SettleGate(q) PROVE HoldInv'
    BY <1>11 DEF SettleGate
  <1>12. ASSUME NEW q \in Proc, Create(q) PROVE HoldInv'
    BY <1>12 DEF Create
  <1>13. ASSUME NEW q \in Proc, Observe(q) PROVE HoldInv'
    BY <1>13 DEF Observe
  <1>14. ASSUME NEW q \in Proc, Judge(q) PROVE HoldInv'
    BY <1>14 DEF Judge
  <1>15. ASSUME NEW q \in Proc, Move(q) PROVE HoldInv'
    BY <1>15 DEF Move
  <1>16. ASSUME NEW q \in Proc, Settle(q) PROVE HoldInv'
    BY <1>16 DEF Settle
  <1>17. ASSUME NEW q \in Proc, LeaveGate(q) PROVE HoldInv'
    BY <1>17 DEF LeaveGate
  <1>18. ASSUME NEW q \in Proc, ReadOwn(q) PROVE HoldInv'
    BY <1>18 DEF ReadOwn
  <1>19. ASSUME NEW q \in Proc, Remove(q) PROVE HoldInv'
    BY <1>19 DEF Remove
  <1>20. ASSUME NEW q \in Proc, Crash(q) PROVE HoldInv'
    \* Nobody had died before: nobody can have started a recovery.
    <2>1. alive = Proc
      <3>1. \A r \in Proc \ alive : r = q
        BY <1>20 DEF Crash
      <3>2. q \in alive
        BY <1>20 DEF Crash
      <3>3. QED
        BY <3>1, <3>2
    <2>2. \A p \in Proc : p \in alive => pc[p] \notin GitSteps \cup FsSteps \cup GatedSteps
      BY <2>1
    <2>3. UNCHANGED <<lock, serial, seen, moved>> /\ alive' = Proc \ {q} /\ q \in Fallible
      BY <1>20, <2>1 DEF Crash
    <2>4. \A p \in Proc : p \in alive' => pc'[p] = pc[p] /\ p \in alive
      BY <1>20, <2>3 DEF Crash
    <2>5. \A p \in Proc : p \in alive' => pc'[p] \notin GitSteps \cup FsSteps \cup GatedSteps
      BY <2>2, <2>4
    <2>6. \A p \in Proc : (Holds(p) \/ At(p, "leaveWon"))' => lock' = Mine(p)'
      BY <2>3, <2>4
    <2>7. QED
      BY <2>3, <2>5, <2>6
  <1>21. CASE UNCHANGED vars
    BY <1>21 DEF vars
  <1>22. QED
    BY <1>1, <1>2, <1>3, <1>4, <1>5, <1>6, <1>7, <1>8, <1>9, <1>10, <1>11, <1>12, <1>13, <1>14,
       <1>15, <1>16, <1>17, <1>18, <1>19, <1>20, <1>21 DEF Next, Step

LEMMA HoldSafe ==
    ASSUME SingleFault
    PROVE  Spec => [](TypeInv /\ GatesAreSafe /\ HoldInv)
  <1>1. Init => GatesAreSafe /\ HoldInv
    BY GatesInit DEF Init, HoldInv, FsSteps, GitSteps, GatedSteps, At, Holds, HoldSteps
  <1>2. TypeInv /\ GatesAreSafe /\ [Next]_vars => GatesAreSafe'
    BY GateStep, DirectoryStep DEF GatesAreSafe
  <1>3. TypeInv /\ GatesAreSafe /\ HoldInv /\ [Next]_vars => HoldInv'
    BY HoldStep, GatesExclude
  <1>4. QED
    BY <1>1, <1>2, <1>3, TypeInit, TypeStep, PTL DEF Spec

\* A live process inside withFileLock's action still owns the lock file.
THEOREM HolderStaysRecorded == ASSUME SingleFault PROVE Spec => []HolderIsRecorded
  <1>1. HoldInv => HolderIsRecorded
    BY DEF HoldInv, HolderIsRecorded
  <1>2. QED
    BY <1>1, HoldSafe, PTL

\* One live holder, recorded in the file, and one process that recovers.
THEOREM OneHolderAdmitted == ASSUME SingleFault PROVE Spec => []OneHolder
  <1>1. TypeInv /\ GatesAreSafe /\ HoldInv => OneHolder
    BY GatesExclude DEF HoldInv, OneHolder, HolderIsRecorded, MutualExclusion, Mine
  <1>2. QED
    BY <1>1, HoldSafe, PTL

(***************************************************************************)
(* The lock protocol implements the abstract lock: publication is Take,    *)
(* removal by the owner is Give, moving a dead owner's file is Reclaim,    *)
(* and every other step leaves the lock file as it is.                     *)
(***************************************************************************)
LEMMA RefinementStep ==
    ASSUME TypeInv, HoldInv, [Next]_vars
    PROVE  [Abstract!MutexNext]_<<Holder, alive>>
  <1> USE OwnerAssumption DEF Holder, Abstract!MutexNext, At, Goto
  <1>1. ASSUME NEW q \in Proc, FastCreate(q) PROVE Abstract!Take(q) \/ UNCHANGED <<Holder, alive>>
    <2>1. serial'[q] \in 0..Tokens
      BY <1>1, NextSerial DEF FastCreate, TypeInv, TypeOK
    <2>2. [proc |-> q, serial |-> serial'[q]] \in Owner
      BY <2>1 DEF Owner
    <2>3. QED
      BY <1>1, <2>2 DEF FastCreate, Abstract!Take
  <1>2. ASSUME NEW q \in Proc, Create(q) PROVE Abstract!Take(q) \/ UNCHANGED <<Holder, alive>>
    <2>1. Mine(q) \in Owner /\ Mine(q).proc = q
      BY DEF Mine, Owner, TypeInv, TypeOK
    <2>2. QED
      BY <1>2, <2>1 DEF Create, Abstract!Take
  <1>3. ASSUME NEW q \in Proc, Remove(q) PROVE Abstract!Give(q)
    <2>1. Mine(q) \in Owner /\ Mine(q).proc = q
      BY DEF Mine, Owner, TypeInv, TypeOK
    <2>2. lock = Mine(q)
      BY <1>3 DEF Remove, HoldInv, Holds, HoldSteps
    <2>3. QED
      BY <1>3, <2>1, <2>2 DEF Remove, Abstract!Give
  <1>4. ASSUME NEW q \in Proc, Move(q) PROVE Abstract!Reclaim
    <2>1. lock \in Owner /\ lock.proc \in Proc /\ lock.proc \notin alive
      BY <1>4 DEF Move, HoldInv, IsRecoverable, Owner
    <2>2. lock.proc # NoOwner
      BY <2>1
    <2>3. QED
      BY <1>4, <2>1, <2>2 DEF Move, Abstract!Reclaim
  <1>5. ASSUME NEW q \in Proc, Settle(q) PROVE UNCHANGED <<Holder, alive>>
    BY <1>5 DEF Settle, HoldInv
  <1>6. ASSUME NEW q \in Proc, Crash(q) PROVE Abstract!Die(q)
    BY <1>6 DEF Crash, Abstract!Die
  <1>7. ASSUME NEW q \in Proc,
               \/ Check(q) \/ ObserveGate(q) \/ ClaimGate(q) \/ ReobserveGate(q)
               \/ MakeGate(q) \/ SignGate(q) \/ ReadGate(q) \/ JudgeGate(q) \/ MoveGate(q)
               \/ SettleGate(q) \/ Observe(q) \/ Judge(q) \/ LeaveGate(q) \/ ReadOwn(q)
        PROVE  UNCHANGED <<Holder, alive>>
    <2>1. UNCHANGED <<lock, alive>>
      BY <1>7 DEF Check, ObserveGate, ClaimGate, ReobserveGate, MakeGate, SignGate, ReadGate,
         JudgeGate,
         MoveGate, SettleGate, Observe, Judge, LeaveGate, ReadOwn
    <2>2. QED
      BY <2>1
  <1>8. CASE UNCHANGED vars
    BY <1>8 DEF vars
  <1>9. QED
    BY <1>1, <1>2, <1>3, <1>4, <1>5, <1>6, <1>7, <1>8 DEF Next, Step

\* withFileLock implements the abstract lock: callers may reason about it as one
\* holder that only a dead process loses involuntarily.
THEOREM LockRefinement == ASSUME SingleFault PROVE Spec => AbstractSpec
  <1>1. Init => Abstract!MutexInit
    BY DEF Init, Abstract!MutexInit, Holder
  <1>2. TypeInv /\ HoldInv /\ [Next]_vars => [Abstract!MutexNext]_(Abstract!mutexVars)
    BY RefinementStep DEF Abstract!mutexVars
  <1>3. QED
    BY <1>1, <1>2, HoldSafe, PTL DEF Spec, AbstractSpec, Abstract!MutexSpec

(***************************************************************************)
(* No live process loses what it owns.  The gate needs the claim to know   *)
(* the host of the owner it replaces; the lock file changes only by its    *)
(* owner's release and by the move of a dead owner's file.                 *)
(***************************************************************************)
ClaimInv ==
    \A p \in Proc : At(p, "claimGate") => seen[p] = NoOwner \/ IsRecoverable(p, seen[p])

LEMMA ClaimStep == TypeInv /\ ClaimInv /\ [Next]_vars => ClaimInv'
  <1> SUFFICES ASSUME TypeInv, ClaimInv, [Next]_vars PROVE ClaimInv'
    OBVIOUS
  <1> USE DEF ClaimInv, TypeInv, TypeOK, Steps, GitSteps, FsSteps, GatedSteps, HoldSteps, At, Goto,
          IsRecoverable
  <1>1. ASSUME NEW q \in Proc, ObserveGate(q) PROVE ClaimInv'
    BY <1>1 DEF ObserveGate
  <1>2. ASSUME NEW q \in Proc, ReobserveGate(q) PROVE ClaimInv'
    BY <1>2 DEF ReobserveGate
  <1>3. ASSUME NEW q \in Proc, ReadGate(q) \/ Observe(q) PROVE ClaimInv'
    BY <1>3 DEF ReadGate, Observe
  <1>4. ASSUME NEW q \in Proc, Crash(q) PROVE ClaimInv'
    BY <1>4 DEF Crash
  <1>5. ASSUME NEW q \in Proc,
               \/ FastCreate(q) \/ Check(q) \/ ClaimGate(q) \/ MakeGate(q) \/ SignGate(q)
               \/ JudgeGate(q) \/ MoveGate(q) \/ SettleGate(q) \/ Create(q) \/ Judge(q)
               \/ Move(q) \/ Settle(q) \/ LeaveGate(q) \/ ReadOwn(q) \/ Remove(q)
        PROVE  ClaimInv'
    <2>1. UNCHANGED <<alive, seen>> /\ \E s \in Steps \ {"claimGate"} : Goto(q, s)
      BY <1>5 DEF FastCreate, Check, ClaimGate, MakeGate, SignGate, JudgeGate, MoveGate, SettleGate,
                  Create, Judge, Move, Settle, LeaveGate, ReadOwn, Remove
    <2>2. QED
      BY <2>1
  <1>6. CASE UNCHANGED vars
    BY <1>6 DEF vars
  <1>7. QED
    BY <1>1, <1>2, <1>3, <1>4, <1>5, <1>6 DEF Next, Step

LEMMA LockFileChanges ==
    ASSUME TypeInv, HoldInv, Next, lock # NoOwner, lock' # lock
    PROVE  \/ \E p \in Proc : lock.proc = p /\ At(p, "releasing") /\ At(p, "idle")'
           \/ \E p \in Proc : /\ At(p, "move") /\ moved'[p] = lock
                              /\ lock.proc \notin alive /\ Host[lock.proc] = Host[p]
  <1>1. PICK q \in Proc : Remove(q) \/ Move(q)
    <2>1. PICK q \in Proc : Step(q) \/ Crash(q)
      BY DEF Next
    <2>2. ~ Settle(q)
      BY DEF Settle, HoldInv
    <2>3. ~ (FastCreate(q) \/ Create(q))
      BY DEF FastCreate, Create
    <2>4. QED
      BY <2>1, <2>2, <2>3 DEF Step, Crash, Check, ObserveGate, ClaimGate, ReobserveGate, MakeGate,
         SignGate, ReadGate, JudgeGate, MoveGate, SettleGate, Observe, Judge, LeaveGate, ReadOwn
  <1>2. CASE Remove(q)
    <2>1. At(q, "releasing") /\ lock = Mine(q)
      BY <1>2 DEF Remove, HoldInv, Holds, HoldSteps, At
    <2>2. pc'[q] = "idle" /\ alive' = alive
      BY <1>2 DEF Remove, Goto, TypeInv, TypeOK
    <2>3. QED
      BY <2>1, <2>2 DEF At, Mine
  <1>3. CASE Move(q)
    <2>1. At(q, "move") /\ IsRecoverable(q, lock)
      BY <1>3 DEF Move, HoldInv
    <2>2. moved'[q] = lock
      BY <1>3 DEF Move, TypeInv, TypeOK
    <2>3. QED
      BY <2>1, <2>2 DEF IsRecoverable
  <1>4. QED
    BY <1>1, <1>2, <1>3

LEMMA GateChanges ==
    ASSUME TypeInv, GatesAreSafe, ClaimInv, Next, gate \in Owner, gate' # gate
    PROVE  \/ \E p \in Proc : gate.proc = p /\ InGate(p) /\ ~InGate(p)'
           \/ \E p \in Proc : /\ pc[p] \in {"claimGate", "moveGate"} /\ pc'[p] # pc[p]
                              /\ gate.proc \notin alive /\ Host[gate.proc] = Host[p]
  <1>1. PICK q \in Proc : ClaimGate(q) \/ LeaveGate(q)
    <2>1. PICK q \in Proc : Step(q) \/ Crash(q)
      BY DEF Next
    <2>2. ~ At(q, "moveGate") /\ ~ At(q, "settleGate")
      BY GateAssumption DEF GatesAreSafe, GateInv, DirectoryInv, FsSteps, At
    <2>3. gate \notin {NoOwner, EmptyDir}
      BY OwnerAssumption
    <2>4. QED
      BY <2>1, <2>2, <2>3 DEF Step, Crash, FastCreate, Check, ObserveGate, ReobserveGate,
         MakeGate, SignGate, ReadGate, JudgeGate, MoveGate, SettleGate, Create, Observe, Judge,
         Move, Settle, ReadOwn, Remove
  <1>2. CASE ClaimGate(q)
    <2>1. At(q, "claimGate") /\ gate = seen[q]
      BY <1>2 DEF ClaimGate
    <2>2. IsRecoverable(q, gate)
      BY <2>1, OwnerAssumption DEF ClaimInv
    <2>3. pc'[q] = "create"
      BY <1>2, <2>1 DEF ClaimGate, Goto, TypeInv, TypeOK
    <2>4. QED
      BY <2>1, <2>2, <2>3 DEF At, IsRecoverable
  <1>3. CASE LeaveGate(q)
    <2>1. InGate(q) /\ gate = GateSignature(q)
      BY <1>3 DEF LeaveGate, At, InGate, GatedSteps
    <2>2. pc'[q] \in {"held", "idle"}
      BY <1>3 DEF LeaveGate, Goto, TypeInv, TypeOK
    <2>3. gate.proc = q
      BY <2>1 DEF GateSignature, Claimant, Mine
    <2>4. QED
      BY <2>1, <2>2, <2>3 DEF InGate, GatedSteps
  <1>4. QED
    BY <1>1, <1>2, <1>3

\* No live process loses the lock or the gate: a lock record disappears by its
\* owner's release, a gate record by its owner's exit, and both otherwise only
\* after their owner died on the host of the process that takes them.
THEOREM LiveOwnersStay == ASSUME SingleFault PROVE Spec => LiveOwnersKept
  <1>1. Init => ClaimInv
    BY DEF Init, ClaimInv, At
  <1>2. TypeInv /\ HoldInv /\ [Next]_vars =>
          [lock # NoOwner /\ lock' # lock =>
             \/ \E p \in Proc : lock.proc = p /\ At(p, "releasing") /\ At(p, "idle")'
             \/ \E p \in Proc : /\ At(p, "move") /\ moved'[p] = lock
                                /\ lock.proc \notin alive /\ Host[lock.proc] = Host[p]]_vars
    BY LockFileChanges
  <1>3. TypeInv /\ GatesAreSafe /\ ClaimInv /\ [Next]_vars =>
          [(gate \in Owner) /\ gate' # gate =>
             \/ \E p \in Proc : gate.proc = p /\ InGate(p) /\ ~InGate(p)'
             \/ \E p \in Proc : /\ pc[p] \in {"claimGate", "moveGate"} /\ pc'[p] # pc[p]
                                /\ gate.proc \notin alive /\ Host[gate.proc] = Host[p]]_vars
    BY GateChanges
  <1>4. QED
    BY <1>1, <1>2, <1>3, ClaimStep, HoldSafe, PTL
       DEF Spec, LiveOwnersKept, LiveOwnerKept, LiveGateKept
==============================================================================
