-------------------------- MODULE WriteLeaseProofs ---------------------------
(***************************************************************************)
(* Theorems about ChangeTransaction, for every set of commands and tools,  *)
(* every lease lifetime and whichever processes are killed; and about      *)
(* HookDelivery, for every set of tool calls, channels, sessions, changes  *)
(* and budgets, whichever hooks are killed and however the bindings move.  *)
(***************************************************************************)
EXTENDS ChangeTransaction, HookDelivery, FiniteSetTheorems, TLAPS

(***************************************************************************)
(* The inductive invariant: a process between its entry into the           *)
(* coordinator and its exit holds the coordinator lock, so no lease can be *)
(* written after a command found none, and a tool at work either has a     *)
(* live lease or is known to work without one.                             *)
(***************************************************************************)
CoordinatorInv ==
    /\ \A p \in Proc : p \in alive /\ pc[p] \in CoordinatedSteps => coordinator = p
    /\ \A c \in Command : pc[c] \in CommandSteps
    /\ \A t \in Tool : pc[t] \in ToolSteps

LeaseInv ==
    /\ \A c \in Command, t \in Tool : Inside(c) => lease[t] = NoLease
    /\ \A t \in Tool : pc[t] \in AtWorkSteps => IsLive(t) \/ t \in exposed

TxInv == TypeOK /\ CoordinatorInv /\ LeaseInv

LEMMA TxInit == Init => TxInv
  <1> SUFFICES ASSUME Init PROVE TxInv
    OBVIOUS
  <1> USE ActorAssumption, ClockAssumption
      DEF Init, CommandSteps, ToolSteps, PreHookSteps, CoordinatedSteps, InsideSteps, AtWorkSteps, NoLease, Proc
  <1>1. TypeOK
    BY DEF TypeOK
  <1>2. CoordinatorInv
    BY DEF CoordinatorInv
  <1>3. LeaseInv
    BY DEF LeaseInv, Inside
  <1>4. QED
    BY <1>1, <1>2, <1>3 DEF TxInv

\* The purge keeps live leases as they are and removes the others.
LEMMA Purged ==
    ASSUME TypeOK
    PROVE  /\ Unexpired \in [Tool -> 0..TTL \cup {NoLease}]
           /\ \A t \in Tool : Unexpired[t] = IF IsLive(t) THEN lease[t] ELSE NoLease
  BY DEF TypeOK, Unexpired, NoLease, IsLive

LEMMA TypeStep == TypeOK /\ [Next]_vars => TypeOK'
  <1> SUFFICES ASSUME TypeOK, [Next]_vars PROVE TypeOK'
    OBVIOUS
  <1> USE ActorAssumption, ClockAssumption
      DEF TypeOK, Proc, At, Goto, CommandSteps, ToolSteps, PreHookSteps, IsLive, Unexpired, NoLease,
          CoordinatorBusy, state, notes, history, Coordinator!Take, Coordinator!Give, Coordinator!Reclaim,
          Coordinator!Die, Transaction!Take, Transaction!Give, Transaction!Reclaim
  <1>1. ASSUME NEW c \in Command, Begin(c) PROVE TypeOK'
    BY <1>1 DEF Begin
  <1>2. ASSUME NEW c \in Command, CheckLeases(c) PROVE TypeOK'
    BY <1>2 DEF CheckLeases
  <1>3. ASSUME NEW c \in Command, ReadState(c) PROVE TypeOK'
    BY <1>3 DEF ReadState
  <1>4. ASSUME NEW c \in Command, Validate(c) PROVE TypeOK'
    BY <1>4 DEF Validate
  <1>5. ASSUME NEW c \in Command, Commit(c) PROVE TypeOK'
    BY <1>5 DEF Commit
  <1>6. ASSUME NEW c \in Command, LeaveTransaction(c) PROVE TypeOK'
    BY <1>6 DEF LeaveTransaction
  <1>7. ASSUME NEW c \in Command, LeaveCommand(c) PROVE TypeOK'
    BY <1>7 DEF LeaveCommand
  <1>8. ASSUME NEW t \in Tool, CheckGates(t) PROVE TypeOK'
    BY <1>8 DEF CheckGates
  <1>9. ASSUME NEW t \in Tool, EnterLease(t) PROVE TypeOK'
    BY <1>9 DEF EnterLease
  <1>10. ASSUME NEW t \in Tool, WriteLease(t) PROVE TypeOK'
    <2> HIDE DEF Unexpired
    <2>1. lease' = Unexpired \/ lease' = [Unexpired EXCEPT ![t] = TTL]
      BY <1>10 DEF WriteLease
    <2>2. lease' \in [Tool -> 0..TTL \cup {NoLease}]
      BY <2>1, Purged
    <2>3. QED
      BY <1>10, <2>2 DEF WriteLease
  <1>11. ASSUME NEW t \in Tool, LeaveLease(t) PROVE TypeOK'
    BY <1>11 DEF LeaveLease
  <1>12. ASSUME NEW t \in Tool, HostWrite(t) PROVE TypeOK'
    BY <1>12 DEF HostWrite, Write
  <1>13. ASSUME NEW t \in Tool, PostWrite(t) PROVE TypeOK'
    BY <1>13 DEF PostWrite
  <1>14. ASSUME NEW t \in Tool, EnterRelease(t) PROVE TypeOK'
    BY <1>14 DEF EnterRelease
  <1>15. ASSUME NEW t \in Tool, DropLease(t) PROVE TypeOK'
    BY <1>15 DEF DropLease
  <1>16. ASSUME NEW t \in Tool, LeaveRelease(t) PROVE TypeOK'
    BY <1>16 DEF LeaveRelease
  <1>17. ASSUME NEW t \in Tool, LosePost(t) PROVE TypeOK'
    BY <1>17 DEF LosePost
  <1>18. CASE ReclaimCoordinator
    BY <1>18 DEF ReclaimCoordinator
  <1>19. CASE ReclaimTransaction
    BY <1>19 DEF ReclaimTransaction
  <1>20. CASE Tick
    BY <1>20 DEF Tick
  <1>21. ASSUME NEW p \in Proc, Crash(p) PROVE TypeOK'
    BY <1>21 DEF Crash
  <1>22. ASSUME NEW t \in Tool, UnhookedWrite(t) PROVE TypeOK'
    BY <1>22 DEF UnhookedWrite, Write
  <1>23. ASSUME NEW t \in Tool, StartPostHook(t) PROVE TypeOK'
    BY <1>23 DEF StartPostHook
  <1>24. CASE UNCHANGED vars
    BY <1>24 DEF vars
  <1>25. QED
    BY <1>1, <1>2, <1>3, <1>4, <1>5, <1>6, <1>7, <1>8, <1>9, <1>10, <1>11, <1>12, <1>13, <1>14,
       <1>15, <1>16, <1>17, <1>18, <1>19, <1>20, <1>21, <1>22, <1>23, <1>24
       DEF Next, CommandStep, ToolStep

LEMMA CoordinatorStep == TypeOK /\ CoordinatorInv /\ [Next]_vars => CoordinatorInv'
  <1> SUFFICES ASSUME TypeOK, CoordinatorInv, [Next]_vars PROVE CoordinatorInv'
    OBVIOUS
  <1> USE ActorAssumption
      DEF TypeOK, CoordinatorInv, Proc, At, Goto, CommandSteps, ToolSteps, PreHookSteps, InsideSteps,
          CoordinatedSteps, CoordinatorBusy, state, notes, history, Coordinator!Take, Coordinator!Give,
          Coordinator!Reclaim, Coordinator!Die, Transaction!Take, Transaction!Give, Transaction!Reclaim
  <1>1. ASSUME NEW c \in Command, Begin(c) PROVE CoordinatorInv'
    BY <1>1 DEF Begin
  <1>2. ASSUME NEW c \in Command, CheckLeases(c) PROVE CoordinatorInv'
    BY <1>2 DEF CheckLeases
  <1>3. ASSUME NEW c \in Command, ReadState(c) PROVE CoordinatorInv'
    BY <1>3 DEF ReadState
  <1>4. ASSUME NEW c \in Command, Validate(c) PROVE CoordinatorInv'
    BY <1>4 DEF Validate
  <1>5. ASSUME NEW c \in Command, Commit(c) PROVE CoordinatorInv'
    BY <1>5 DEF Commit
  <1>6. ASSUME NEW c \in Command, LeaveTransaction(c) PROVE CoordinatorInv'
    BY <1>6 DEF LeaveTransaction
  <1>7. ASSUME NEW c \in Command, LeaveCommand(c) PROVE CoordinatorInv'
    BY <1>7 DEF LeaveCommand
  <1>8. ASSUME NEW t \in Tool, CheckGates(t) PROVE CoordinatorInv'
    BY <1>8 DEF CheckGates
  <1>9. ASSUME NEW t \in Tool, EnterLease(t) PROVE CoordinatorInv'
    BY <1>9 DEF EnterLease
  <1>10. ASSUME NEW t \in Tool, WriteLease(t) PROVE CoordinatorInv'
    BY <1>10 DEF WriteLease
  <1>11. ASSUME NEW t \in Tool, LeaveLease(t) PROVE CoordinatorInv'
    BY <1>11 DEF LeaveLease
  <1>12. ASSUME NEW t \in Tool, HostWrite(t) PROVE CoordinatorInv'
    BY <1>12 DEF HostWrite, Write
  <1>13. ASSUME NEW t \in Tool, PostWrite(t) PROVE CoordinatorInv'
    BY <1>13 DEF PostWrite
  <1>14. ASSUME NEW t \in Tool, EnterRelease(t) PROVE CoordinatorInv'
    BY <1>14 DEF EnterRelease
  <1>15. ASSUME NEW t \in Tool, DropLease(t) PROVE CoordinatorInv'
    BY <1>15 DEF DropLease
  <1>16. ASSUME NEW t \in Tool, LeaveRelease(t) PROVE CoordinatorInv'
    BY <1>16 DEF LeaveRelease
  <1>17. ASSUME NEW t \in Tool, LosePost(t) PROVE CoordinatorInv'
    BY <1>17 DEF LosePost
  <1>18. CASE ReclaimCoordinator
    BY <1>18 DEF ReclaimCoordinator
  <1>19. CASE ReclaimTransaction
    BY <1>19 DEF ReclaimTransaction
  <1>20. CASE Tick
    BY <1>20 DEF Tick
  <1>21. ASSUME NEW p \in Proc, Crash(p) PROVE CoordinatorInv'
    BY <1>21 DEF Crash
  <1>22. ASSUME NEW t \in Tool, UnhookedWrite(t) PROVE CoordinatorInv'
    BY <1>22 DEF UnhookedWrite, Write
  <1>23. ASSUME NEW t \in Tool, StartPostHook(t) PROVE CoordinatorInv'
    BY <1>23 DEF StartPostHook
  <1>24. CASE UNCHANGED vars
    BY <1>24 DEF vars
  <1>25. QED
    BY <1>1, <1>2, <1>3, <1>4, <1>5, <1>6, <1>7, <1>8, <1>9, <1>10, <1>11, <1>12, <1>13, <1>14,
       <1>15, <1>16, <1>17, <1>18, <1>19, <1>20, <1>21, <1>22, <1>23, <1>24
       DEF Next, CommandStep, ToolStep

LEMMA LeaseStep == TypeOK /\ CoordinatorInv /\ LeaseInv /\ [Next]_vars => LeaseInv'
  <1> SUFFICES ASSUME TypeOK, CoordinatorInv, LeaseInv, [Next]_vars PROVE LeaseInv'
    OBVIOUS
  <1> USE ActorAssumption, ClockAssumption
      DEF TypeOK, CoordinatorInv, LeaseInv, Inside, IsLive, NoLease, Unexpired, Proc, At, Goto,
          CommandSteps, ToolSteps, PreHookSteps, InsideSteps, CoordinatedSteps, AtWorkSteps, CoordinatorBusy,
          state, notes, history, Coordinator!Take, Coordinator!Give, Coordinator!Reclaim, Coordinator!Die,
          Transaction!Take, Transaction!Give, Transaction!Reclaim
  <1>1. ASSUME NEW c \in Command, Begin(c) PROVE LeaseInv'
    BY <1>1 DEF Begin
  <1>2. ASSUME NEW c \in Command, CheckLeases(c) PROVE LeaseInv'
    BY <1>2 DEF CheckLeases
  <1>3. ASSUME NEW c \in Command, ReadState(c) PROVE LeaseInv'
    BY <1>3 DEF ReadState
  <1>4. ASSUME NEW c \in Command, Validate(c) PROVE LeaseInv'
    BY <1>4 DEF Validate
  <1>5. ASSUME NEW c \in Command, Commit(c) PROVE LeaseInv'
    BY <1>5 DEF Commit
  <1>6. ASSUME NEW c \in Command, LeaveTransaction(c) PROVE LeaseInv'
    BY <1>6 DEF LeaveTransaction
  <1>7. ASSUME NEW c \in Command, LeaveCommand(c) PROVE LeaseInv'
    BY <1>7 DEF LeaveCommand
  <1>8. ASSUME NEW t \in Tool, CheckGates(t) PROVE LeaseInv'
    BY <1>8 DEF CheckGates
  <1>9. ASSUME NEW t \in Tool, EnterLease(t) PROVE LeaseInv'
    BY <1>9 DEF EnterLease
  <1>10. ASSUME NEW t \in Tool, WriteLease(t) PROVE LeaseInv'
    <2> HIDE DEF Unexpired
    <2>1. \A c \in Command : ~Inside(c) /\ ~Inside(c)'
      BY <1>10 DEF WriteLease
    <2>2. \A u \in Tool : IsLive(u) => lease'[u] = lease[u] \/ lease'[u] = TTL
      BY <1>10, Purged DEF WriteLease
    <2>3. pc'[t] \in AtWorkSteps => lease'[t] = TTL
      BY <1>10, Purged DEF WriteLease
    <2>4. \A u \in Tool : pc'[u] \in AtWorkSteps => IsLive(u)' \/ u \in exposed'
      BY <1>10, <2>2, <2>3 DEF WriteLease
    <2>5. QED
      BY <2>1, <2>4
  <1>11. ASSUME NEW t \in Tool, LeaveLease(t) PROVE LeaseInv'
    BY <1>11 DEF LeaveLease
  <1>12. ASSUME NEW t \in Tool, HostWrite(t) PROVE LeaseInv'
    BY <1>12 DEF HostWrite, Write
  <1>13. ASSUME NEW t \in Tool, PostWrite(t) PROVE LeaseInv'
    BY <1>13 DEF PostWrite
  <1>14. ASSUME NEW t \in Tool, EnterRelease(t) PROVE LeaseInv'
    BY <1>14 DEF EnterRelease
  <1>15. ASSUME NEW t \in Tool, DropLease(t) PROVE LeaseInv'
    BY <1>15 DEF DropLease
  <1>16. ASSUME NEW t \in Tool, LeaveRelease(t) PROVE LeaseInv'
    BY <1>16 DEF LeaveRelease
  <1>17. ASSUME NEW t \in Tool, LosePost(t) PROVE LeaseInv'
    BY <1>17 DEF LosePost
  <1>18. CASE ReclaimCoordinator
    BY <1>18 DEF ReclaimCoordinator
  <1>19. CASE ReclaimTransaction
    BY <1>19 DEF ReclaimTransaction
  <1>20. CASE Tick
    BY <1>20 DEF Tick
  <1>21. ASSUME NEW p \in Proc, Crash(p) PROVE LeaseInv'
    BY <1>21 DEF Crash
  <1>22. ASSUME NEW t \in Tool, UnhookedWrite(t) PROVE LeaseInv'
    BY <1>22 DEF UnhookedWrite, Write
  <1>23. ASSUME NEW t \in Tool, StartPostHook(t) PROVE LeaseInv'
    BY <1>23 DEF StartPostHook
  <1>24. CASE UNCHANGED vars
    BY <1>24 DEF vars
  <1>25. QED
    BY <1>1, <1>2, <1>3, <1>4, <1>5, <1>6, <1>7, <1>8, <1>9, <1>10, <1>11, <1>12, <1>13, <1>14,
       <1>15, <1>16, <1>17, <1>18, <1>19, <1>20, <1>21, <1>22, <1>23, <1>24
       DEF Next, CommandStep, ToolStep

LEMMA TxInvariant == Spec => []TxInv
  BY TxInit, TypeStep, CoordinatorStep, LeaseStep, PTL DEF Spec, TxInv

\* Every reachable state of commands, hooks and leases is well typed.
THEOREM TypeCorrect == Spec => []TypeOK
  <1>1. TxInv => TypeOK
    BY DEF TxInv
  <1>2. QED
    BY <1>1, TxInvariant, PTL

\* While a command is inside its transaction no unexpired write lease exists.
THEOREM LeasesExcluded == Spec => []TransactionExcludesLeases
  <1>1. TxInv => TransactionExcludesLeases
    BY DEF TxInv, LeaseInv, TransactionExcludesLeases, IsLive, NoLease
  <1>2. QED
    BY <1>1, TxInvariant, PTL

\* A stage advance never happens under a tool at work, except under one that works
\* without a live lease.
THEOREM StageFrozen == Spec => StageFrozenWhileLeased
  <1> DEFINE Frozen == \A t \in Tool : pc[t] \in AtWorkSteps => t \in exposed
  <1>1. TxInv /\ [Next]_vars => [stage' # stage => Frozen]_vars
    <2> SUFFICES ASSUME TxInv, Next, stage' # stage PROVE Frozen
      BY DEF vars, state
    <2>1. PICK c \in Command : Commit(c)
      BY DEF Next, CommandStep, ToolStep, Begin, CheckLeases, ReadState, Validate, LeaveTransaction,
         LeaveCommand, CheckGates, EnterLease, WriteLease, LeaveLease, HostWrite, PostWrite,
         EnterRelease, DropLease, LeaveRelease, LosePost, ReclaimCoordinator, ReclaimTransaction,
         Crash, Tick, Write, UnhookedWrite, StartPostHook, state
    <2>2. Inside(c)
      BY <2>1 DEF Commit, At, Inside, InsideSteps
    <2>3. QED
      BY <2>2 DEF TxInv, LeaseInv, IsLive, NoLease
  <1>2. QED
    BY <1>1, TxInvariant, PTL DEF Spec, StageFrozenWhileLeased

(***************************************************************************)
(* What a command is about to commit is fresh: its proof was computed      *)
(* inside the transaction, where the only tools that can still write are   *)
(* those without a live lease.                                             *)
(***************************************************************************)
FreshInv == \A c \in Command : At(c, "commit") => proof[c] = content \/ c \in slipped

\* A write leaves every proof fresh or marks its command, wherever the tool stands.
LEMMA WriteKeepsFresh ==
    ASSUME TxInv, FreshInv, NEW t \in Tool, Write(t), NEW label \in ToolSteps, Goto(t, label)
    PROVE  FreshInv'
  <1>1. /\ pc \in [Proc -> CommandSteps \cup ToolSteps]
        /\ Command \subseteq Proc /\ Tool \subseteq Proc
        /\ \A c \in Command : t # c
    BY ActorAssumption DEF TxInv, TypeOK, Proc
  <1>2. \A c \in Command : pc'[c] = pc[c]
    BY <1>1 DEF Goto
  <1>3. UNCHANGED <<alive, proof>>
    BY DEF Write, notes
  <1>4. CASE IsLive(t)
    <2>1. \A c \in Command : c \in alive => pc[c] # "commit"
      BY <1>4 DEF TxInv, LeaseInv, IsLive, NoLease, Inside, InsideSteps
    <2>2. QED
      BY <1>2, <1>3, <2>1 DEF FreshInv, At
  <1>5. CASE ~ IsLive(t)
    <2>1. slipped' = slipped \cup {c \in Command : At(c, "commit")}
      BY <1>5 DEF Write
    <2>2. QED
      BY <1>2, <1>3, <2>1 DEF FreshInv, At
  <1>6. QED
    BY <1>4, <1>5

LEMMA FreshStep == TxInv /\ FreshInv /\ [Next]_vars => FreshInv'
  <1> SUFFICES ASSUME TxInv, FreshInv, [Next]_vars PROVE FreshInv'
    OBVIOUS
  <1>1. /\ pc \in [Proc -> CommandSteps \cup ToolSteps]
        /\ proof \in [Command -> Nat]
        /\ Command \subseteq Proc /\ Tool \subseteq Proc
        /\ \A t \in Tool, c \in Command : t # c
    BY ActorAssumption DEF TxInv, TypeOK, Proc
  <1>2. ASSUME content' = content, proof' = proof, slipped' = slipped,
               \A c \in Command : c \in alive' => c \in alive,
               \A c \in Command : pc'[c] = "commit" => pc[c] = "commit"
        PROVE  FreshInv'
    BY <1>2 DEF FreshInv, At
  <1>3. ASSUME NEW p \in Proc, NEW label \in CommandSteps \cup ToolSteps, Goto(p, label), label # "commit"
        PROVE  \A c \in Command : pc'[c] = "commit" => pc[c] = "commit"
    BY <1>1, <1>3 DEF Goto
  <1> USE DEF notes, history
  <1>4. ASSUME NEW c \in Command, CommandStep(c) PROVE FreshInv'
    <2>1. CASE Begin(c)
      BY <1>1, <1>2, <1>3, <2>1 DEF Begin, Coordinator!Take, CommandSteps
    <2>2. CASE CheckLeases(c)
      BY <1>1, <1>2, <1>3, <2>2 DEF CheckLeases, Transaction!Take, CommandSteps
    <2>3. CASE ReadState(c)
      BY <1>1, <1>2, <1>3, <2>3 DEF ReadState, CommandSteps
    <2>4. CASE Validate(c)
      <3>1. /\ proof' = [proof EXCEPT ![c] = content] /\ Goto(c, "commit")
            /\ slipped' = slipped \ {c} /\ UNCHANGED <<alive, content>>
        BY <2>4 DEF Validate
      <3>2. \A d \in Command \ {c} : pc'[d] = pc[d] /\ proof'[d] = proof[d]
        BY <1>1, <3>1 DEF Goto
      <3>3. proof'[c] = content
        BY <1>1, <3>1
      <3>4. QED
        BY <3>1, <3>2, <3>3 DEF FreshInv, At
    <2>5. CASE Commit(c)
      BY <1>1, <1>2, <1>3, <2>5 DEF Commit, CommandSteps
    <2>6. CASE LeaveTransaction(c)
      BY <1>1, <1>2, <1>3, <2>6 DEF LeaveTransaction, Transaction!Give, CommandSteps
    <2>7. CASE LeaveCommand(c)
      BY <1>1, <1>2, <1>3, <2>7 DEF LeaveCommand, Coordinator!Give, CommandSteps
    <2>8. QED
      BY <1>4, <2>1, <2>2, <2>3, <2>4, <2>5, <2>6, <2>7 DEF CommandStep
  <1>5. ASSUME NEW t \in Tool, HostWrite(t) \/ UnhookedWrite(t) PROVE FreshInv'
    <2>1. Write(t) /\ \E label \in ToolSteps : Goto(t, label)
      BY <1>5 DEF HostWrite, UnhookedWrite, ToolSteps
    <2>2. QED
      BY <2>1, WriteKeepsFresh
  <1>6. ASSUME NEW t \in Tool, ToolStep(t) \/ LosePost(t) \/ StartPostHook(t), ~ HostWrite(t)
        PROVE  FreshInv'
    <2>1. /\ \A c \in Command : c \in alive' => c \in alive
          /\ content' = content /\ proof' = proof /\ slipped' = slipped
          /\ \E label \in ToolSteps : Goto(t, label)
      BY <1>1, <1>6 DEF ToolStep, CheckGates, EnterLease, WriteLease, LeaveLease, PostWrite,
                  EnterRelease, DropLease, LeaveRelease, LosePost, StartPostHook,
                  Coordinator!Take, Coordinator!Give, ToolSteps, PreHookSteps
    <2>2. "commit" \notin ToolSteps
      BY DEF ToolSteps, PreHookSteps
    <2>3. QED
      BY <1>1, <1>2, <1>3, <2>1, <2>2
  <1>7. CASE ReclaimCoordinator \/ ReclaimTransaction \/ Tick \/ UNCHANGED vars
    BY <1>2, <1>7 DEF ReclaimCoordinator, ReclaimTransaction, Tick, vars,
                      Coordinator!Reclaim, Transaction!Reclaim
  <1>8. ASSUME NEW p \in Proc, Crash(p) PROVE FreshInv'
    BY <1>2, <1>8 DEF Crash, Coordinator!Die
  <1>9. QED
    BY <1>4, <1>5, <1>6, <1>7, <1>8 DEF Next

\* A stage advance commits a proof of the files as they are at that moment, unless
\* a tool without a live lease wrote in between.
THEOREM AdvanceStaysFresh == Spec => AdvanceIsFresh
  <1>1. Init => FreshInv
    BY ActorAssumption DEF Init, FreshInv, At, Proc
  <1>2. TxInv /\ FreshInv /\ [Next]_vars =>
          [\A c \in Command :
             At(c, "commit") /\ stage' # stage /\ pc'[c] # "commit" =>
                 proof[c] = content \/ c \in slipped]_vars
    BY DEF FreshInv
  <1>3. QED
    BY <1>1, <1>2, FreshStep, TxInvariant, PTL DEF Spec, AdvanceIsFresh


(***************************************************************************)
(* The hooks of one tool call.  The invariant says, for every round of a   *)
(* call, where its hooks can be, who of them won the marker of the round   *)
(* and what that one has seen to so far.  It holds call by call: a hook    *)
(* changes its own call only, and a command or the clock leaves a call     *)
(* alone or disturbs it.  Two calls meet in the post-write lock of their   *)
(* change, in the spool of the reads and in the binding of their session.  *)
(***************************************************************************)
Active(e) == ActiveChange(SessionOf[e])
Gated(e, answer) == <<answer, e>> \in gated
Leased(e, c) == <<c, e>> \in leases
Claimed(kind, e) == <<kind, e>> \in claimed
Unleased(e) == \A c \in Change : ~Leased(e, c)
Spooled(e) == \E i \in DOMAIN spool : spool[i] = e
Undecided == {"decide", "gate", "lease", "charge", "block"}
Unsnapped(e) == tool[e] = "bash" /\ snapshot[e] = "none"

\* What the hook that won the marker has seen to when it lets its call pass.
Decided(e) ==
    /\ IsWrite(e) => \E answer \in Answers : Gated(e, answer)
    /\ tool[e] \in Budgeted => Spooled(e)
    /\ tool[e] \in Fallback => Attempted(AgentOf[e])

RoundSites ==
    [pre |-> {"claim", "allow", "died"} \cup Undecided,
     post |-> {"look", "wait", "work", "mark", "release"} \cup Results,
     failed |-> {"fail", "release"} \cup Results,
     over |-> Sites]

\* Where the hooks of a call are in each of its rounds.
SitesFit(e) ==
    /\ phase[e] \in {"post", "failed"} => IsWrite(e)
    /\ \A h \in HooksOf(e) :
         /\ at[h] \in RoundSites[phase[e]]
         /\ at[h] \notin LoadSites => step[h] = "ready"
         /\ step[h] = "beat" => seen[h] \in Change
         /\ at[h] = "died" => e \in troubled

\* While the binding stays as it is, whatever a hook has seen is what is active.
ViewFits(e) ==
    e \notin disturbed /\ phase[e] # "over" =>
        /\ \A h \in HooksOf(e) :
             /\ at[h] \in LoadSites /\ step[h] # "load" => seen[h] = Active(e)
             /\ at[h] \in {"gate", "lease", "wait", "work", "mark"} => runner[h] = Active(e)
             /\ at[h] = "release" /\ phase[e] = "post" => runner[h] = Active(e)
        /\ \A answer \in Answers : Gated(e, answer) => answer = Active(e)

GateFits(e) ==
    /\ \A answer \in Answers : Gated(e, answer) => IsWrite(e) /\ ~Unsnapped(e)
    /\ \A c \in Change : Leased(e, c) => Gated(e, c) \/ e \in disturbed
    /\ e \in ran => phase[e] \in {"post", "over"} /\ (e \in troubled \/ Decided(e))

MarkerFits(e) ==
    phase[e] = "pre" =>
        /\ ~Claimed("post", e) /\ ~Claimed("failed", e)
        /\ ~Claimed("pre", e) =>
             /\ Unleased(e) /\ ~Spooled(e)
             /\ \A answer \in Answers : ~Gated(e, answer)
             /\ \A h \in HooksOf(e) : at[h] \in {"claim", "died"}
        /\ Claimed("pre", e) => \E h \in HooksOf(e) : at[h] # "claim"

\* The one hook that decides the call.
DeciderFits(e) ==
    phase[e] = "pre" =>
        \A h \in HooksOf(e) :
             /\ at[h] \in Undecided =>
                  Unleased(e) /\ ~Spooled(e) /\ \A g \in HooksOf(e) : at[g] \in Undecided => g = h
             /\ at[h] \in {"gate", "lease"} => IsWrite(e) /\ ~Unsnapped(e)
             /\ at[h] = "lease" => \E answer \in Answers : Gated(e, answer)
             /\ at[h] = "lease" /\ e \notin disturbed => Gated(e, runner[h])
             /\ at[h] = "charge" => tool[e] \in Budgeted /\ (tool[e] \in Fallback => Attempted(AgentOf[e]))

DecisionFits(e) ==
    phase[e] = "pre" =>
        /\ Claimed("pre", e) /\ e \notin troubled => Decided(e) \/ \E h \in HooksOf(e) : at[h] \in Undecided
        /\ Smooth(e) => \A c \in Change : Gated(e, c) =>
                            Leased(e, c) \/ \E h \in HooksOf(e) : at[h] \in {"lease", "block"}

\* After the write, until the validation is stale.
WorkFits(e) ==
    phase[e] = "post" =>
        /\ ~Claimed("post", e) /\ e \notin troubled => \A h \in HooksOf(e) : at[h] \in {"look", "wait", "work"}
        /\ Smooth(e) => \A c \in Change : Gated(e, c) =>
              \/ <<c, e>> \in stale
              \/ Leased(e, c) /\ (Claimed("post", e) => \E h \in HooksOf(e) : at[h] = "mark")
        /\ Smooth(e) /\ (\E h \in HooksOf(e) : at[h] \in {"allow", "block", "alarm"}) => Unleased(e)
        /\ Unsnapped(e) =>
              \/ \E h \in HooksOf(e) : 
                    at[h] \in {"block", "alarm", "died"} \/ (at[h] = "release" /\ verdict[h] = "block")
              \/ ~Claimed("post", e) /\ \A h \in HooksOf(e) : at[h] \in {"look", "wait", "work"}

EndFits(e) ==
    /\ phase[e] = "failed" /\ Smooth(e) =>
          \/ Unleased(e) \/ \E h \in HooksOf(e) : at[h] = "release"
          \/ ~Claimed("failed", e) /\ \A h \in HooksOf(e) : at[h] = "fail"
    /\ phase[e] = "over" /\ Smooth(e) => Unleased(e)
    /\ phase[e] = "over" /\ e \in ran /\ Unsnapped(e) =>
          \E h \in HooksOf(e) : at[h] \in {"block", "alarm", "died"}

CallInv(e) ==
    /\ SitesFit(e) /\ ViewFits(e) /\ GateFits(e) /\ MarkerFits(e) /\ DeciderFits(e)
    /\ DecisionFits(e) /\ WorkFits(e) /\ EndFits(e)

\* Who is in the post-write work of a change has its lock.
LockFits ==
    \A h \in Hook :
        phase[h[1]] = "post" /\ at[h] \in {"work", "mark", "release"} /\ runner[h] \in Change =>
            postLock[runner[h]] = h

HookInv == HooksTypeOK /\ (\A e \in Event : CallInv(e)) /\ LockFits /\ BudgetKept

LEMMA HooksOfCall ==
    /\ \A e \in Event : HooksOf(e) # {} /\ \A h \in HooksOf(e) : h \in Hook /\ h[1] = e
    /\ \A h \in Hook : h[1] \in Event /\ h \in HooksOf(h[1])
  <1>1. ASSUME NEW e \in Event PROVE HooksOf(e) # {}
    <2>1. PICK c \in Channel : TRUE
      BY DeliveryAssumption
    <2>2. <<e, c>> \in HooksOf(e)
      BY <2>1 DEF HooksOf
    <2>3. QED
      BY <2>2
  <1>2. ASSUME NEW e \in Event, NEW h \in HooksOf(e) PROVE h \in Hook /\ h[1] = e
    BY <1>2 DEF HooksOf, Hook
  <1>3. ASSUME NEW h \in Hook PROVE h[1] \in Event /\ h \in HooksOf(h[1])
    BY <1>3 DEF HooksOf, Hook
  <1>4. QED
    BY <1>1, <1>2, <1>3

LEMMA ActiveIsAnswer ==
    ASSUME SessionTypeOK, NEW s \in Session
    PROVE  ActiveChange(s) \in Answers
  BY DEF SessionTypeOK, ActiveChange, Answers, Refusals, Binding

LEMMA HooksInit == DeliveryInit => HookInv
  <1> SUFFICES ASSUME DeliveryInit PROVE HookInv
    OBVIOUS
  <1>1. HooksTypeOK
    <2>1. SessionTypeOK
      BY StartAssumption, LeaseAssumption DEF DeliveryInit, SessionInit, SessionTypeOK
    <2>2. tool \in [Event -> WriteTool \cup ReadTool \cup {"none"}]
      BY DeliveryAssumption DEF DeliveryInit
    <2>3. DeliveryTypeOK
      BY <2>2 DEF DeliveryInit, DeliveryTypeOK, Sites, Results, LoadSites, Answers, Refusals
    <2>4. QED
      BY <2>1, <2>3 DEF HooksTypeOK
  <1>2. ASSUME NEW e \in Event PROVE CallInv(e)
    <2>1. \A h \in HooksOf(e) : at[h] = "claim" /\ step[h] = "ready"
      BY HooksOfCall DEF DeliveryInit
    <2>2. phase[e] \in {"pre", "over"} /\ Unleased(e) /\ ~Spooled(e) /\ ran = {} /\ claimed = {} /\ gated = {}
          /\ leases = {} /\ snapshot[e] = "none"
      BY DEF DeliveryInit, Unleased, Leased, Spooled
    <2>3. QED
      BY <2>1, <2>2 DEF CallInv, SitesFit, ViewFits, GateFits, MarkerFits, DeciderFits,
         DecisionFits, WorkFits,
         EndFits, RoundSites, Sites, LoadSites, Results, Undecided, Gated, Leased, Claimed
  <1>3. LockFits /\ BudgetKept
    BY HooksOfCall DEF DeliveryInit, LockFits, BudgetKept
  <1>4. QED
    BY <1>1, <1>2, <1>3 DEF HookInv

LEMMA GoToDoes ==
    ASSUME HooksTypeOK, NEW h \in Hook, NEW site \in Sites, GoTo(h, site)
    PROVE  /\ at' \in [Hook -> Sites] /\ step' \in [Hook -> {"load", "beat", "ready"}]
           /\ at'[h] = site /\ step'[h] = IF site \in LoadSites THEN "load" ELSE "ready"
           /\ \A g \in Hook : g # h => at'[g] = at[g] /\ step'[g] = step[g]
  BY DEF HooksTypeOK, DeliveryTypeOK, GoTo

LEMMA UnlockDoes ==
    ASSUME HooksTypeOK, NEW h \in Hook, Unlock(h)
    PROVE  /\ postLock' \in [Change -> Hook \cup {NoHook}]
           /\ \A c \in Change : postLock[c] # h => postLock'[c] = postLock[c]
  BY DEF HooksTypeOK, DeliveryTypeOK, Unlock

(***************************************************************************)
(* The binding.                                                            *)
(***************************************************************************)

\* A heartbeat renews only a binding that is active, so no answer changes.
LEMMA RenewDoes ==
    ASSUME SessionTypeOK, NEW s \in Session, Renew(s), UNCHANGED <<place, clearing, binds>>
    PROVE  /\ SessionTypeOK'
           /\ \A r \in Session : (ActiveChange(r))' = ActiveChange(r)
           /\ \A r \in Session : bound'[r] # NoBinding /\ (bound[r] = NoBinding \/ bound[r].left = 0) =>
                                    bound'[r] = bound[r]
           /\ bound'[s] # NoBinding => bound'[s].left \notin 1..Within
  <1>1. CASE bound[s] # NoBinding /\ Due(bound[s])
    <2>1. bound[s] \in Binding /\ bound[s].left # 0
      BY <1>1, LeaseAssumption DEF SessionTypeOK, Due
    <2>2. [bound[s] EXCEPT !.left = Lease] = [change |-> bound[s].change, left |-> Lease]
      BY <2>1 DEF Binding
    <2>3. bound' = [bound EXCEPT ![s] = [change |-> bound[s].change, left |-> Lease]]
      BY <1>1, <2>2 DEF Renew
    <2>4. [change |-> bound[s].change, left |-> Lease] \in Binding
      BY <2>1, LeaseAssumption DEF Binding
    <2>5. bound' \in [Session -> Binding \cup {NoBinding}]
      BY <2>3, <2>4 DEF SessionTypeOK
    <2>6. /\ bound'[s] = [change |-> bound[s].change, left |-> Lease]
          /\ \A r \in Session : r # s => bound'[r] = bound[r]
      BY <2>3 DEF SessionTypeOK
    <2>7. Lease # 0 /\ bound'[s] # NoBinding
      BY <2>4, <2>6, LeaseAssumption, StartAssumption
    <2>8. ASSUME NEW r \in Session PROVE (ActiveChange(r))' = ActiveChange(r)
      BY <2>1, <2>6, <2>7, <1>1 DEF ActiveChange
    <2>9. Lease \notin 1..Within
      BY LeaseAssumption
    <2>10. QED
      BY <1>1, <2>1, <2>5, <2>6, <2>8, <2>9 DEF SessionTypeOK
  <1>2. CASE ~(bound[s] # NoBinding /\ Due(bound[s]))
    <2>1. bound' = bound
      BY <1>2 DEF Renew
    <2>2. QED
      BY <1>2, <2>1 DEF SessionTypeOK, ActiveChange, Due
  <1>3. QED
    BY <1>1, <1>2

LEMMA SessionTypeStep == SessionTypeOK /\ (SessionCommand \/ SessionTick) => SessionTypeOK'
  <1> SUFFICES ASSUME SessionTypeOK, SessionCommand \/ SessionTick PROVE SessionTypeOK'
    OBVIOUS
  <1> USE LeaseAssumption DEF SessionTypeOK
  <1>1. ASSUME NEW s \in Session, Unbind(s) \/ ClearBinding(s) PROVE SessionTypeOK'
    BY <1>1 DEF Unbind, ClearBinding
  <1>2. ASSUME NEW s \in Session, NEW c \in Change, Bind(s, c) PROVE SessionTypeOK'
    <2>1. Fresh(c) \in Binding
      BY DEF Fresh, Binding
    <2>2. QED
      BY <1>2, <2>1 DEF Bind
  <1>3. ASSUME NEW c \in Change, Scaffold(c) \/ Archive(c) PROVE SessionTypeOK'
    BY <1>3 DEF Scaffold, Archive
  <1>4. CASE SessionTick
    <2>1. ASSUME NEW s \in Session
          PROVE (IF bound[s] # NoBinding /\ bound[s].left > 0 THEN [bound[s] EXCEPT !.left = @ - 1] ELSE bound[s])
                    \in Binding \cup {NoBinding}
      BY DEF Binding
    <2>2. bound' \in [Session -> Binding \cup {NoBinding}]
      BY <1>4, <2>1 DEF SessionTick
    <2>3. QED
      BY <1>4, <2>2 DEF SessionTick
  <1>5. QED
    BY <1>1, <1>2, <1>3, <1>4 DEF SessionCommand

(***************************************************************************)
(* Types.                                                                  *)
(***************************************************************************)
LEMMA AppendDoes ==
    ASSUME NEW S, NEW seq \in Seq(S), NEW x \in S
    PROVE  /\ Append(seq, x) \in Seq(S) /\ Len(Append(seq, x)) = Len(seq) + 1
           /\ DOMAIN seq = 1..Len(seq) /\ DOMAIN Append(seq, x) = 1..Len(seq) + 1
           /\ \A i \in 1..Len(seq) : Append(seq, x)[i] = seq[i]
           /\ Append(seq, x)[Len(seq) + 1] = x
  OBVIOUS

LEMMA HookTypeStep ==
    ASSUME HooksTypeOK, NEW h \in Hook, HookStep(h) \/ Die(h)
    PROVE  HooksTypeOK'
  <1> DEFINE Moved(site) == /\ at' \in [Hook -> Sites] /\ step' \in [Hook -> {"load", "beat", "ready"}]
  <1>0. \A site \in Sites : GoTo(h, site) => Moved(site)
    BY GoToDoes
  <1>e. h[1] \in Event /\ SessionOf[h[1]] \in Session /\ ActiveChange(SessionOf[h[1]]) \in Answers
    BY HooksOfCall, ActiveIsAnswer, DeliveryAssumption DEF HooksTypeOK
  <1>u. UNCHANGED sessionVars => SessionTypeOK'
    BY DEF HooksTypeOK, SessionTypeOK, sessionVars
  <1>s. {"claim", "decide", "gate", "lease", "charge", "allow", "block", "alarm", "died", "look", "wait", "work", "mark",
         "release", "fail"} \subseteq Sites
    BY DEF Sites, LoadSites, Results
  <1> USE <1>0, <1>e, <1>u, <1>s DEF HooksTypeOK, DeliveryTypeOK
  <1>1. CASE Load(h)
    BY <1>1 DEF Load, host, evidence
  <1>2. CASE Beat(h)
    <2>1. SessionTypeOK'
      BY <1>2, RenewDoes DEF Beat
    <2>3. AfterHeartbeat(SessionOf[h[1]], seen[h]) \subseteq Answers \cup {"failed"}
      BY DEF AfterHeartbeat
    <2>4. /\ at' \in [Hook -> Sites] /\ step' \in [Hook -> {"load", "beat", "ready"}]
          /\ seen' \in [Hook -> Answers] /\ troubled' \subseteq Event /\ verdict' \in [Hook -> {"allow", "block"}]
          /\ postLock' \in [Change -> Hook \cup {NoHook}]
      <3>1. PICK answer \in AfterHeartbeat(SessionOf[h[1]], seen[h]) :
              IF answer # "failed"
              THEN /\ seen' = [seen EXCEPT ![h] = answer] /\ step' = [step EXCEPT ![h] = "ready"]
                   /\ UNCHANGED <<at, verdict, troubled, postLock>>
              ELSE /\ Trouble(h) /\ UNCHANGED seen
                   /\ \/ GoTo(h, "release") /\ verdict' = [verdict EXCEPT ![h] = "block"] /\ UNCHANGED postLock
                      \/ GoTo(h, "block") /\ Unlock(h) /\ UNCHANGED verdict
                      \/ GoTo(h, "died") /\ UNCHANGED <<verdict, postLock>>
        BY <1>2 DEF Beat
      <3>2. CASE answer # "failed"
        BY <3>1, <3>2, <2>3
      <3>3. CASE answer = "failed"
        BY <3>1, <3>3, UnlockDoes DEF Trouble
      <3>4. QED
        BY <3>2, <3>3
    <2>5. QED
      BY <1>2, <2>1, <2>4 DEF Beat, host
  <1>3. CASE Claim(h)
    BY <1>3 DEF Claim, host
  <1>4. CASE DecideWrite(h)
    <2>1. /\ UNCHANGED <<host, seen, hadLease, verdict, claimed, leases, stale, postLock, spool, troubled, disturbed>>
          /\ runner' = [runner EXCEPT ![h] = seen[h]] /\ UNCHANGED sessionVars
          /\ snapshot' = [snapshot EXCEPT ![h[1]] = "taken"] \/ UNCHANGED snapshot
          /\ GoTo(h, "gate") \/ GoTo(h, "lease") \/ GoTo(h, "block")
          /\ gated' = gated \cup {<<seen[h], h[1]>>} \/ UNCHANGED gated
      BY <1>4 DEF DecideWrite, Pass, Refuse
    <2>2. runner' \in [Hook -> Answers] /\ snapshot' \in [Event -> {"none", "taken", "consumed"}]
      BY <2>1
    <2>3. QED
      BY <2>1, <2>2 DEF host
  <1>5. CASE Gate(h)
    BY <1>5 DEF Gate, host, Pass, Refuse
  <1>6. CASE TakeLease(h)
    BY <1>6 DEF TakeLease, host
  <1>7. CASE DecideRead(h)
    BY <1>7 DEF DecideRead, host, evidence
  <1>8. CASE Charge(h)
    <2>1. /\ spool' = Append(spool, h[1]) \/ UNCHANGED spool
          /\ GoTo(h, "allow") \/ GoTo(h, "block")
      BY <1>8 DEF Charge
    <2>2. spool' \in Seq(Event)
      <3>1. spool \in Seq(Event) /\ h[1] \in Event
        OBVIOUS
      <3>2. Append(spool, h[1]) \in Seq(Event)
        BY <3>1, AppendDoes
      <3>3. QED
        BY <2>1, <3>1, <3>2
    <2>3. QED
      BY <1>8, <2>1, <2>2 DEF Charge, host
  <1>9. CASE LookAtWrite(h)
    BY <1>9 DEF LookAtWrite, host, evidence
  <1>10. CASE Enter(h)
    BY <1>10 DEF Enter, host
  <1>11. CASE WaitTimesOut(h)
    BY <1>11 DEF WaitTimesOut, host, evidence, Trouble
  <1>12. CASE Attribute(h)
    <2>1. /\ claimed' = claimed \cup {<<"post", h[1]>>} \/ UNCHANGED claimed
          /\ snapshot' = [snapshot EXCEPT ![h[1]] = "consumed"] \/ UNCHANGED snapshot
          /\ verdict' = [verdict EXCEPT ![h] = "block"] \/ verdict' = [verdict EXCEPT ![h] = verdict[h]]
             \/ UNCHANGED verdict
          /\ GoTo(h, "release") \/ GoTo(h, "mark")
      BY <1>12 DEF Attribute
    <2>2. verdict' \in [Hook -> {"allow", "block"}]
      BY <2>1
    <2>3. snapshot' \in [Event -> {"none", "taken", "consumed"}]
      BY <2>1
    <2>4. QED
      BY <1>12, <2>1, <2>2, <2>3 DEF Attribute, host
  <1>13. CASE Mark(h)
    BY <1>13 DEF Mark, host, Trouble
  <1>14. CASE Release(h)
    BY <1>14, UnlockDoes DEF Release, host, Trouble
  <1>15. CASE Fail(h)
    BY <1>15 DEF Fail, host
  <1>16. CASE Die(h)
    BY <1>16 DEF Die, host, evidence, Trouble
  <1>17. QED
    BY <1>1, <1>2, <1>3, <1>4, <1>5, <1>6, <1>7, <1>8, <1>9, <1>10, <1>11, <1>12, <1>13, <1>14,
       <1>15, <1>16 DEF HookStep

LEMMA CallTypeStep ==
    ASSUME HooksTypeOK, NEW e \in Event, RunTool(e) \/ EndCall(e)
    PROVE  HooksTypeOK'
  <1>1. SessionTypeOK'
    BY DEF HooksTypeOK, SessionTypeOK, sessionVars, RunTool, EndCall
  <1>2. /\ seen' \in [Hook -> Answers] /\ runner' \in [Hook -> Answers] /\ hadLease' \in [Hook -> BOOLEAN]
        /\ verdict' \in [Hook -> {"allow", "block"}]
    <2>1. Forget(e)
      BY DEF RunTool, EndCall
    <2>2. QED
      BY <2>1 DEF HooksTypeOK, DeliveryTypeOK, Forget, Answers, Refusals
  <1>3. /\ phase' \in [Event -> {"pre", "post", "failed", "over"}] /\ at' \in [Hook -> Sites]
        /\ step' \in [Hook -> {"load", "beat", "ready"}] /\ ran' \subseteq Event
    BY DEF HooksTypeOK, DeliveryTypeOK, RunTool, EndCall, NextRound, LastRound, Sites, LoadSites
  <1>4. QED
    BY <1>1, <1>2, <1>3 DEF HooksTypeOK, DeliveryTypeOK, RunTool, EndCall, evidence

LEMMA TypeStepOfHooks == HooksTypeOK /\ [DeliveryNext]_deliveryVars => HooksTypeOK'
  <1> SUFFICES ASSUME HooksTypeOK, [DeliveryNext]_deliveryVars PROVE HooksTypeOK'
    OBVIOUS
  <1>1. CASE BindingCommand \/ ClockTick
    <2>1. SessionTypeOK'
      BY <1>1, SessionTypeStep DEF BindingCommand, ClockTick, HooksTypeOK
    <2>2. DeliveryTypeOK'
      BY <1>1 DEF BindingCommand, ClockTick, HooksTypeOK, DeliveryTypeOK, host, hookVars,
         evidence, Disturbance
    <2>3. QED
      BY <2>1, <2>2 DEF HooksTypeOK
  <1>2. CASE UNCHANGED deliveryVars
    BY <1>2 DEF deliveryVars, sessionVars, host, hookVars, evidence, HooksTypeOK, SessionTypeOK,
       DeliveryTypeOK
  <1>3. QED
    BY <1>1, <1>2, HookTypeStep, CallTypeStep DEF DeliveryNext

(***************************************************************************)
(* A step that leaves a call alone.                                        *)
(***************************************************************************)
SameFor(e) ==
    /\ tool' = tool /\ phase'[e] = phase[e] /\ snapshot'[e] = snapshot[e]
    /\ \A h \in HooksOf(e) :
         /\ at'[h] = at[h] /\ step'[h] = step[h] /\ seen'[h] = seen[h]
         /\ runner'[h] = runner[h] /\ verdict'[h] = verdict[h]
    /\ \A kind \in {"pre", "post", "failed"} : (Claimed(kind, e))' <=> Claimed(kind, e)
    /\ \A c \in Change : ((Leased(e, c))' <=> Leased(e, c)) /\ (<<c, e>> \in stale' <=> <<c, e>> \in stale)
    /\ \A answer \in Answers : (Gated(e, answer))' <=> Gated(e, answer)
    /\ (e \in ran' <=> e \in ran) /\ (e \in troubled' <=> e \in troubled) /\ (e \in disturbed => e \in disturbed')
    /\ phase[e] # "over" /\ Begun(e) /\ e \notin disturbed' => (Active(e))' = Active(e)
    /\ (Spooled(e))' <=> Spooled(e)
    /\ Attempted(AgentOf[e]) => (Attempted(AgentOf[e]))'

LEMMA Frame ==
    ASSUME HooksTypeOK, NEW e \in Event, CallInv(e), SameFor(e)
    PROVE  (CallInv(e))'
  <1> USE DEF CallInv, SameFor
  <1>1. (SitesFit(e))'
    BY DEF SitesFit, IsWrite
  <1>2. (ViewFits(e))'
    <2> SUFFICES ASSUME e \notin disturbed', phase'[e] # "over" PROVE (ViewFits(e))'
      BY DEF ViewFits
    <2>1. e \notin disturbed /\ phase[e] # "over" /\ (Begun(e) => (Active(e))' = Active(e))
      OBVIOUS
    <2>2. ASSUME NEW h \in HooksOf(e)
          PROVE  /\ at'[h] \in LoadSites /\ step'[h] # "load" => seen'[h] = (Active(e))'
                 /\ at'[h] \in {"gate", "lease", "wait", "work", "mark"} => runner'[h] = (Active(e))'
                 /\ at'[h] = "release" /\ phase'[e] = "post" => runner'[h] = (Active(e))'
      <3>1. at[h] # "claim" => Begun(e)
        BY DEF Begun
      <3>2. "claim" \notin LoadSites
        BY DEF LoadSites
      <3>3. QED
        BY <2>1, <3>1, <3>2 DEF ViewFits
    <2>3. ASSUME NEW answer \in Answers, (Gated(e, answer))' PROVE answer = (Active(e))'
      <3>1. Gated(e, answer)
        BY <2>3
      <3>2. Begun(e)
        BY <3>1 DEF Begun, MarkerFits
      <3>3. QED
        BY <2>1, <3>1, <3>2 DEF ViewFits
    <2>4. QED
      BY <2>2, <2>3 DEF ViewFits
  <1>3. (Decided(e) => (Decided(e))') /\ (IsWrite(e) <=> (IsWrite(e))') /\ (Unsnapped(e) <=> (Unsnapped(e))')
        /\ (Unleased(e) <=> (Unleased(e))') /\ ((Smooth(e))' => Smooth(e))
    BY DEF Decided, IsWrite, Unsnapped, Unleased, Smooth
  <1>4. (GateFits(e))'
    BY <1>3 DEF GateFits, Answers
  <1>5. (MarkerFits(e))'
    BY <1>3 DEF MarkerFits
  <1>6. (DeciderFits(e))'
    <2> SUFFICES ASSUME phase[e] = "pre", NEW h \in HooksOf(e)
                 PROVE  /\ at[h] \in Undecided =>
                             Unleased(e) /\ ~Spooled(e) /\ \A g \in HooksOf(e) : at[g] \in Undecided => g = h
                        /\ at[h] \in {"gate", "lease"} => IsWrite(e) /\ ~Unsnapped(e)
                        /\ at[h] = "lease" => \E answer \in Answers : (Gated(e, answer))'
                        /\ at[h] = "lease" /\ e \notin disturbed => (Gated(e, runner[h]))'
                        /\ at[h] = "charge" => tool[e] \in Budgeted /\ (tool[e] \in Fallback => (Attempted(AgentOf[e]))')
      BY <1>3 DEF DeciderFits
    <2>1. runner[h] \in Answers
      BY HooksOfCall DEF HooksTypeOK, DeliveryTypeOK
    <2>2. QED
      BY <2>1 DEF DeciderFits
  <1>7. (DecisionFits(e))'
    BY <1>3 DEF DecisionFits, Answers
  <1>8. (WorkFits(e))'
    BY <1>3 DEF WorkFits, Answers
  <1>9. (EndFits(e))'
    BY <1>3 DEF EndFits
  <1>10. QED
    BY <1>1, <1>2, <1>4, <1>5, <1>6, <1>7, <1>8, <1>9

(***************************************************************************)
(* A step of a hook concerns its call only.                                *)
(***************************************************************************)
Local(h) ==
    /\ UNCHANGED <<host, disturbed>>
    /\ \A s \in Session : (ActiveChange(s))' = ActiveChange(s)
    /\ \A g \in Hook : g # h =>
         /\ at'[g] = at[g] /\ step'[g] = step[g] /\ seen'[g] = seen[g]
         /\ runner'[g] = runner[g] /\ verdict'[g] = verdict[g]
    /\ \A e \in Event : e # h[1] =>
         /\ snapshot'[e] = snapshot[e] /\ (e \in troubled' <=> e \in troubled)
         /\ \A kind \in {"pre", "post", "failed"} : <<kind, e>> \in claimed' <=> <<kind, e>> \in claimed
         /\ \A c \in Change :
              (<<c, e>> \in leases' <=> <<c, e>> \in leases) /\ (<<c, e>> \in stale' <=> <<c, e>> \in stale)
         /\ \A answer \in Answers : <<answer, e>> \in gated' <=> <<answer, e>> \in gated
    /\ spool' = spool \/ spool' = Append(spool, h[1])

LEMMA HookStepIsLocal ==
    ASSUME HooksTypeOK, NEW h \in Hook, HookStep(h) \/ Die(h)
    PROVE  Local(h)
  <1> DEFINE Moved == \A g \in Hook : g # h => at'[g] = at[g] /\ step'[g] = step[g]
  <1>0. \A site \in Sites : GoTo(h, site) => Moved
    BY GoToDoes
  <1>e. h[1] \in Event /\ SessionOf[h[1]] \in Session
    BY HooksOfCall, DeliveryAssumption
  <1>a. UNCHANGED sessionVars => \A s \in Session : (ActiveChange(s))' = ActiveChange(s)
    BY DEF sessionVars, ActiveChange
  <1>s. {"claim", "decide", "gate", "lease", "charge", "allow", "block", "alarm", "died", "look", "wait", "work", "mark",
         "release", "fail"} \subseteq Sites
    BY DEF Sites, LoadSites, Results
  <1> USE <1>0, <1>e, <1>a, <1>s DEF HooksTypeOK, DeliveryTypeOK, Local
  <1>1. CASE Load(h)
    BY <1>1 DEF Load, evidence
  <1>2. CASE Beat(h)
    <2>1. \A s \in Session : (ActiveChange(s))' = ActiveChange(s)
      BY <1>2, RenewDoes DEF Beat
    <2>2. /\ \A g \in Hook : g # h => seen'[g] = seen[g] /\ verdict'[g] = verdict[g]
          /\ \A e \in Event : e # h[1] => (e \in troubled' <=> e \in troubled)
          /\ Moved
      BY <1>2 DEF Beat, Trouble
    <2>3. QED
      BY <1>2, <2>1, <2>2 DEF Beat
  <1>3. CASE Claim(h)
    BY <1>3 DEF Claim
  <1>4. CASE DecideWrite(h)
    BY <1>4 DEF DecideWrite, Pass, Refuse
  <1>5. CASE Gate(h)
    BY <1>5 DEF Gate, Pass, Refuse
  <1>6. CASE TakeLease(h)
    BY <1>6 DEF TakeLease
  <1>7. CASE DecideRead(h)
    BY <1>7 DEF DecideRead, evidence
  <1>8. CASE Charge(h)
    BY <1>8 DEF Charge
  <1>9. CASE LookAtWrite(h)
    BY <1>9 DEF LookAtWrite, evidence
  <1>10. CASE Enter(h)
    BY <1>10 DEF Enter
  <1>11. CASE WaitTimesOut(h)
    BY <1>11 DEF WaitTimesOut, evidence, Trouble
  <1>12. CASE Attribute(h)
    BY <1>12 DEF Attribute
  <1>13. CASE Mark(h)
    BY <1>13 DEF Mark, Trouble
  <1>14. CASE Release(h)
    BY <1>14 DEF Release, Trouble
  <1>15. CASE Fail(h)
    BY <1>15 DEF Fail
  <1>16. CASE Die(h)
    BY <1>16 DEF Die, evidence, Trouble
  <1>17. QED
    BY <1>1, <1>2, <1>3, <1>4, <1>5, <1>6, <1>7, <1>8, <1>9, <1>10, <1>11, <1>12, <1>13, <1>14,
       <1>15, <1>16 DEF HookStep

LEMMA SpoolOnlyGrows ==
    ASSUME HooksTypeOK, NEW e \in Event, tool' = tool, spool' = spool \/ spool' = Append(spool, e)
    PROVE  /\ \A x \in Event : Spooled(x) => (Spooled(x))'
           /\ \A x \in Event : x # e => ((Spooled(x))' => Spooled(x))
           /\ \A a : Attempted(a) => (Attempted(a))'
  <1>1. CASE spool' = spool
    BY <1>1 DEF Spooled, Attempted, Charged
  <1>2. CASE spool' = Append(spool, e)
    <2>1. /\ DOMAIN spool = 1..Len(spool) /\ DOMAIN spool' = 1..Len(spool) + 1 /\ Len(spool) \in Nat
          /\ \A i \in 1..Len(spool) : spool'[i] = spool[i]
          /\ spool'[Len(spool) + 1] = e
      BY <1>2, AppendDoes DEF HooksTypeOK, DeliveryTypeOK
    <2>2. \A i \in DOMAIN spool : i \in DOMAIN spool' /\ spool'[i] = spool[i]
      BY <2>1
    <2>3. \A i \in DOMAIN spool' : i \in DOMAIN spool \/ spool'[i] = e
      BY <2>1
    <2>4. QED
      BY <2>2, <2>3 DEF Spooled, Attempted, Charged
  <1>3. QED
    BY <1>1, <1>2

LEMMA OthersAreLeftAlone ==
    ASSUME HooksTypeOK, NEW h \in Hook, Local(h), NEW e \in Event, e # h[1]
    PROVE  SameFor(e)
  <1>1. \A g \in HooksOf(e) : g \in Hook /\ g # h
    BY HooksOfCall
  <1>2. ((Spooled(e))' <=> Spooled(e)) /\ (Attempted(AgentOf[e]) => (Attempted(AgentOf[e]))')
    BY HooksOfCall, SpoolOnlyGrows DEF Local, host
  <1>3. (Active(e))' = Active(e)
    BY DeliveryAssumption DEF Local, Active
  <1>4. QED
    BY <1>1, <1>2, <1>3 DEF Local, SameFor, host, Claimed, Leased, Gated

(***************************************************************************)
(* The step of a hook for its own call.                                    *)
(***************************************************************************)

\* What every such step leaves as it is.
OwnCall(h, e) ==
    /\ HooksTypeOK /\ h \in Hook /\ e = h[1] /\ e \in Event /\ h \in HooksOf(e)
    /\ tool' = tool /\ phase' = phase /\ ran' = ran /\ disturbed' = disturbed
    /\ (Active(e))' = Active(e) /\ Active(e) \in Answers
    /\ \A g \in HooksOf(e) : g \in Hook
    /\ \A g \in HooksOf(e) : g # h =>
         /\ at'[g] = at[g] /\ step'[g] = step[g] /\ seen'[g] = seen[g]
         /\ runner'[g] = runner[g] /\ verdict'[g] = verdict[g]
    /\ (Spooled(e) => (Spooled(e))') /\ (Attempted(AgentOf[e]) => (Attempted(AgentOf[e]))')
    /\ (IsWrite(e))' <=> IsWrite(e)

LEMMA LocalIsOwn ==
    ASSUME HooksTypeOK, NEW h \in Hook, Local(h)
    PROVE  OwnCall(h, h[1])
  <1>1. h[1] \in Event /\ h \in HooksOf(h[1]) /\ \A g \in HooksOf(h[1]) : g \in Hook
    BY HooksOfCall
  <1>2. (Active(h[1]))' = Active(h[1]) /\ Active(h[1]) \in Answers
    BY <1>1, ActiveIsAnswer, DeliveryAssumption DEF Local, Active, HooksTypeOK
  <1>3. (Spooled(h[1]) => (Spooled(h[1]))') /\ (Attempted(AgentOf[h[1]]) => (Attempted(AgentOf[h[1]]))')
    BY <1>1, SpoolOnlyGrows DEF Local, host
  <1>4. QED
    BY <1>1, <1>2, <1>3 DEF Local, OwnCall, host, IsWrite

LEMMA SiteTellsRound ==
    ASSUME NEW h \in Hook, NEW e, OwnCall(h, e), SitesFit(e), phase[e] # "over"
    PROVE  /\ at[h] \in {"claim", "decide", "gate", "lease", "charge"} => phase[e] = "pre"
           /\ at[h] \in {"look", "wait", "work", "mark"} => phase[e] = "post"
           /\ at[h] = "fail" => phase[e] = "failed"
           /\ at[h] = "release" => phase[e] \in {"post", "failed"}
  <1>1. phase[e] \in {"pre", "post", "failed"} /\ at[h] \in RoundSites[phase[e]]
    BY DEF OwnCall, HooksTypeOK, DeliveryTypeOK, SitesFit
  <1>2. QED
    BY <1>1 DEF RoundSites, Results, Undecided

LEMMA ClaimKeeps ==
    ASSUME NEW h \in Hook, NEW e, OwnCall(h, e), CallInv(e), Claim(h)
    PROVE  (CallInv(e))'
  <1>1. phase[e] = "pre" /\ at[h] = "claim"
    BY SiteTellsRound DEF Claim, AtSite, OwnCall, CallInv
  <1>2. /\ UNCHANGED <<seen, runner, verdict, snapshot, leases, stale, gated, troubled, spool>>
        /\ \/ /\ ~Claimed("pre", e) /\ claimed' = claimed \cup {<<"pre", e>>}
              /\ at'[h] = "decide" /\ step'[h] = "load"
           \/ /\ Claimed("pre", e) /\ UNCHANGED claimed
              /\ at'[h] = "allow" /\ step'[h] = "ready"
    BY GoToDoes DEF Claim, First, OwnCall, Claimed, Sites, LoadSites, Results
  <1> USE <1>1, <1>2 DEF OwnCall, CallInv
  <1>3. (SitesFit(e))'
    BY DEF SitesFit, RoundSites, LoadSites, Results, Undecided
  <1>4. (ViewFits(e))'
    BY DEF ViewFits, LoadSites, Gated
  <1>5. (GateFits(e))'
    BY DEF GateFits, Gated, Leased, Decided, Unsnapped
  <1>6. (MarkerFits(e))'
    BY DEF MarkerFits, Claimed
  <1>7. (DeciderFits(e))'
    <2>1. /\ (Unleased(e))' <=> Unleased(e)
          /\ (Spooled(e))' <=> Spooled(e)
          /\ (Unsnapped(e))' <=> Unsnapped(e)
          /\ \A answer : (Gated(e, answer))' <=> Gated(e, answer)
      BY DEF Unleased, Leased, Spooled, Unsnapped, Gated
    <2>2. CASE Claimed("pre", e)
      BY <2>1, <2>2 DEF DeciderFits, Undecided
    <2>3. CASE ~Claimed("pre", e)
      BY <2>1, <2>3 DEF DeciderFits, MarkerFits, Undecided
    <2>4. QED
      BY <2>2, <2>3
  <1>8. (DecisionFits(e))'
    BY DEF DecisionFits, MarkerFits, Undecided, Decided, Smooth, Leased, Gated
  <1>9. (WorkFits(e))' /\ (EndFits(e))'
    BY DEF WorkFits, EndFits
  <1>10. QED
    BY <1>3, <1>4, <1>5, <1>6, <1>7, <1>8, <1>9

LEMMA DecideWriteKeeps ==
    ASSUME NEW h \in Hook, NEW e, OwnCall(h, e), CallInv(e), DecideWrite(h)
    PROVE  (CallInv(e))'
  <1>1. phase[e] = "pre" /\ at[h] = "decide" /\ IsWrite(e) /\ step[h] = "ready"
    BY SiteTellsRound DEF DecideWrite, AtSite, OwnCall, CallInv
  <1>2. /\ UNCHANGED <<seen, verdict, claimed, leases, stale, troubled, spool>>
        /\ runner'[h] = seen[h] /\ seen[h] \in Answers
        /\ (Unleased(e))' <=> Unleased(e)
        /\ (Spooled(e))' <=> Spooled(e)
    BY DEF DecideWrite, OwnCall, HooksTypeOK, DeliveryTypeOK, Unleased, Leased, Spooled
  <1>3. \/ /\ at'[h] = "gate" /\ step'[h] = "load" /\ UNCHANGED gated
           /\ ~(Unsnapped(e))'
        \/ /\ at'[h] = "lease" /\ step'[h] = "ready" /\ gated' = gated \cup {<<seen[h], e>>}
           /\ ~(Unsnapped(e))'
        \/ /\ at'[h] = "block" /\ step'[h] = "ready" /\ UNCHANGED <<gated, snapshot>>
    <2>1. CASE tool[e] = "edit"
      BY <1>1, <2>1, GoToDoes DEF DecideWrite, OwnCall, Sites, LoadSites, Results, Pass, Refuse,
         Unsnapped
    <2>2. CASE tool[e] = "bash" /\ snapshot' = [snapshot EXCEPT ![e] = "taken"]
      <3>1. snapshot'[e] = "taken"
        BY <2>2 DEF OwnCall, HooksTypeOK, DeliveryTypeOK
      <3>2. QED
        BY <1>1, <2>2, <3>1, GoToDoes DEF DecideWrite, OwnCall, Sites, LoadSites, Results, Pass,
           Refuse, Unsnapped
    <2>3. CASE tool[e] = "bash" /\ GoTo(h, "block") /\ UNCHANGED <<gated, snapshot>>
      BY <2>3, GoToDoes DEF OwnCall, Sites, LoadSites, Results
    <2>4. QED
      BY <1>1, <2>1, <2>2, <2>3 DEF DecideWrite, OwnCall, Refuse
  <1>4. (Unsnapped(e))' => Unsnapped(e)
    BY <1>3 DEF Unsnapped, OwnCall
  <1>5. \A answer : (Gated(e, answer))' <=> Gated(e, answer) \/ (at'[h] = "lease" /\ answer = seen[h])
    BY <1>3 DEF Gated
  <1>6. /\ at'[h] \in {"gate", "lease", "block"} /\ (at'[h] = "gate" => step'[h] = "load")
        /\ (at'[h] # "gate" => step'[h] = "ready") /\ (at'[h] \in {"gate", "lease"} => ~(Unsnapped(e))')
    BY <1>3
  <1>7. Unleased(e) /\ ~Spooled(e) /\ (\A g \in HooksOf(e) : at[g] \in Undecided => g = h) /\ Claimed("pre", e)
    BY <1>1 DEF CallInv, DeciderFits, MarkerFits, OwnCall, Undecided
  <1>8. e \notin disturbed => seen[h] = Active(e)
    BY <1>1 DEF CallInv, ViewFits, OwnCall, LoadSites
  <1>9. \A kind : (Claimed(kind, e))' <=> Claimed(kind, e)
    BY <1>2 DEF Claimed
  <1> USE <1>1, <1>2, <1>4, <1>5, <1>6, <1>7, <1>8, <1>9 DEF OwnCall, CallInv
  <1>10. (SitesFit(e))'
    BY DEF SitesFit, RoundSites, LoadSites, Results, Undecided
  <1>11. (ViewFits(e))'
    BY DEF ViewFits, LoadSites
  <1>12. (GateFits(e))'
    BY DEF GateFits, Leased, Decided, Answers
  <1>13. (MarkerFits(e))'
    BY DEF MarkerFits
  <1>14. (DeciderFits(e))'
    BY DEF DeciderFits, Undecided
  <1>15. (DecisionFits(e))'
    BY DEF DecisionFits, Undecided, Smooth, Leased, Unleased, Answers
  <1>16. (WorkFits(e))' /\ (EndFits(e))'
    BY DEF WorkFits, EndFits
  <1>17. QED
    BY <1>10, <1>11, <1>12, <1>13, <1>14, <1>15, <1>16

LEMMA GateKeeps ==
    ASSUME NEW h \in Hook, NEW e, OwnCall(h, e), CallInv(e), Gate(h)
    PROVE  (CallInv(e))'
  <1>1. phase[e] = "pre" /\ at[h] = "gate" /\ step[h] = "ready" /\ IsWrite(e) /\ ~Unsnapped(e)
    BY SiteTellsRound DEF Gate, AtSite, OwnCall, CallInv, DeciderFits
  <1>2. /\ UNCHANGED <<seen, runner, verdict, claimed, snapshot, leases, stale, troubled, spool>>
        /\ seen[h] \in Answers
        /\ (Unleased(e))' <=> Unleased(e)
        /\ (Spooled(e))' <=> Spooled(e)
        /\ (Unsnapped(e))' <=> Unsnapped(e)
        /\ \A kind : (Claimed(kind, e))' <=> Claimed(kind, e)
    BY DEF Gate, OwnCall, HooksTypeOK, DeliveryTypeOK, Unleased, Leased, Spooled, Unsnapped, Claimed
  <1>3. \/ at'[h] = "lease" /\ step'[h] = "ready" /\ gated' = gated \cup {<<seen[h], e>>}
        \/ at'[h] = "block" /\ step'[h] = "ready" /\ UNCHANGED gated
    BY <1>1, GoToDoes DEF Gate, OwnCall, Sites, LoadSites, Results, Pass, Refuse
  <1>4. \A answer : (Gated(e, answer))' <=> Gated(e, answer) \/ (at'[h] = "lease" /\ answer = seen[h])
    BY <1>3 DEF Gated
  <1>5. at'[h] \in {"lease", "block"} /\ step'[h] = "ready"
    BY <1>3
  <1>6. Unleased(e) /\ ~Spooled(e) /\ (\A g \in HooksOf(e) : at[g] \in Undecided => g = h) /\ Claimed("pre", e)
    BY <1>1 DEF CallInv, DeciderFits, MarkerFits, OwnCall, Undecided
  <1>7. e \notin disturbed => seen[h] = Active(e) /\ runner[h] = Active(e)
    BY <1>1 DEF CallInv, ViewFits, OwnCall, LoadSites
  <1> USE <1>1, <1>2, <1>4, <1>5, <1>6, <1>7 DEF OwnCall, CallInv
  <1>8. (SitesFit(e))'
    BY DEF SitesFit, RoundSites, LoadSites, Results, Undecided
  <1>9. (ViewFits(e))'
    BY DEF ViewFits, LoadSites
  <1>10. (GateFits(e))'
    BY DEF GateFits, Leased, Decided, Answers
  <1>11. (MarkerFits(e))'
    BY DEF MarkerFits
  <1>12. (DeciderFits(e))'
    BY DEF DeciderFits, Undecided
  <1>13. (DecisionFits(e))'
    BY DEF DecisionFits, Undecided, Smooth, Leased, Unleased, Answers
  <1>14. (WorkFits(e))' /\ (EndFits(e))'
    BY DEF WorkFits, EndFits
  <1>15. QED
    BY <1>8, <1>9, <1>10, <1>11, <1>12, <1>13, <1>14

LEMMA TakeLeaseKeeps ==
    ASSUME NEW h \in Hook, NEW e, OwnCall(h, e), CallInv(e), TakeLease(h)
    PROVE  (CallInv(e))'
  <1>1. phase[e] = "pre" /\ at[h] = "lease" /\ step[h] = "ready" /\ IsWrite(e) /\ ~Unsnapped(e)
    BY SiteTellsRound DEF TakeLease, AtSite, OwnCall, CallInv, DeciderFits
  <1>2. /\ UNCHANGED <<seen, runner, verdict, claimed, snapshot, gated, stale, troubled, spool>>
        /\ \A answer : (Gated(e, answer))' <=> Gated(e, answer)
        /\ (Spooled(e))' <=> Spooled(e)
        /\ (Unsnapped(e))' <=> Unsnapped(e)
        /\ \A kind : (Claimed(kind, e))' <=> Claimed(kind, e)
    BY DEF TakeLease, OwnCall, Gated, Spooled, Unsnapped, Claimed
  <1>3. \/ /\ runner[h] \in Change /\ leases' = leases \cup {<<runner[h], e>>}
           /\ at'[h] = "allow" /\ step'[h] = "ready"
        \/ at'[h] = "block" /\ step'[h] = "ready" /\ UNCHANGED leases
        \/ runner[h] \notin Change /\ at'[h] = "allow" /\ step'[h] = "ready" /\ UNCHANGED leases
    BY <1>1, GoToDoes DEF TakeLease, OwnCall, Sites, LoadSites, Results
  <1>4. \A c : (Leased(e, c))' <=> Leased(e, c) \/ (at'[h] = "allow" /\ runner[h] \in Change /\ c = runner[h])
    BY <1>3 DEF Leased
  <1>5. at'[h] \in {"allow", "block"} /\ step'[h] = "ready"
    BY <1>3
  <1>6. Unleased(e) /\ ~Spooled(e) /\ (\A g \in HooksOf(e) : at[g] \in Undecided => g = h) /\ Claimed("pre", e)
        /\ (\E answer \in Answers : Gated(e, answer))
    BY <1>1 DEF CallInv, DeciderFits, MarkerFits, OwnCall, Undecided
  <1>7. e \notin disturbed => /\ runner[h] = Active(e) /\ Gated(e, runner[h])
                             /\ \A c \in Change : Gated(e, c) => c = runner[h]
    BY <1>1 DEF CallInv, ViewFits, DeciderFits, OwnCall, Answers
  <1> USE <1>1, <1>2, <1>4, <1>5, <1>6, <1>7 DEF OwnCall, CallInv
  <1>8. (SitesFit(e))'
    BY DEF SitesFit, RoundSites, LoadSites, Results, Undecided
  <1>9. (ViewFits(e))'
    BY DEF ViewFits, LoadSites
  <1>10. (GateFits(e))'
    BY DEF GateFits, Decided, Answers
  <1>11. (MarkerFits(e))'
    BY DEF MarkerFits
  <1>12. (DeciderFits(e))'
    <2>1. at'[h] = "block" => (Unleased(e))'
      BY DEF Unleased
    <2>2. QED
      BY <2>1 DEF DeciderFits, Undecided
  <1>13. (DecisionFits(e))'
    <2>1. (Decided(e))'
      BY DEF Decided, WriteTool, Budgeted, Fallback, IsWrite
    <2>2. ASSUME (Smooth(e))', NEW c \in Change, Gated(e, c)
          PROVE (Leased(e, c))' \/ at'[h] = "block"
      BY <2>2 DEF Smooth
    <2>3. QED
      BY <2>1, <2>2 DEF DecisionFits
  <1>14. (WorkFits(e))' /\ (EndFits(e))'
    BY DEF WorkFits, EndFits
  <1>15. QED
    BY <1>8, <1>9, <1>10, <1>11, <1>12, <1>13, <1>14

LEMMA DecideReadKeeps ==
    ASSUME NEW h \in Hook, NEW e, OwnCall(h, e), CallInv(e), DecideRead(h)
    PROVE  (CallInv(e))'
  <1>1. phase[e] = "pre" /\ at[h] = "decide" /\ ~IsWrite(e)
    BY SiteTellsRound DEF DecideRead, AtSite, OwnCall, CallInv
  <1>2. /\ UNCHANGED <<seen, runner, verdict, claimed, snapshot, leases, gated, stale, troubled, spool>>
        /\ \A answer : (Gated(e, answer))' <=> Gated(e, answer)
        /\ \A c : (Leased(e, c))' <=> Leased(e, c)
        /\ (Unleased(e))' <=> Unleased(e)
        /\ (Spooled(e))' <=> Spooled(e)
        /\ (Unsnapped(e))' <=> Unsnapped(e)
        /\ \A kind : (Claimed(kind, e))' <=> Claimed(kind, e)
    BY DEF DecideRead, OwnCall, Gated, Leased, Unleased, Spooled, Unsnapped, Claimed, evidence
  <1>3. /\ at'[h] \in {"block", "charge", "allow"} /\ step'[h] = "ready"
        /\ at'[h] # "block" => (tool[e] \in Fallback => Attempted(AgentOf[e]))
        /\ at'[h] = "charge" <=> (at'[h] # "block" /\ tool[e] \in Budgeted)
    <2>1. {"block", "charge", "allow"} \subseteq Sites \ LoadSites
      BY DEF Sites, LoadSites, Results
    <2>2. PICK site \in {"block", "charge", "allow"} :
            /\ GoTo(h, site)
            /\ site # "block" => (tool[e] \in Fallback => Attempted(AgentOf[e]))
            /\ site = "charge" <=> (site # "block" /\ tool[e] \in Budgeted)
      BY DEF DecideRead, OwnCall, Fallback
    <2>3. QED
      BY <2>1, <2>2, GoToDoes DEF OwnCall
  <1>4. Unleased(e) /\ ~Spooled(e) /\ (\A g \in HooksOf(e) : at[g] \in Undecided => g = h) /\ Claimed("pre", e)
    BY <1>1 DEF CallInv, DeciderFits, MarkerFits, OwnCall, Undecided
  <1>5. \A answer \in Answers : ~Gated(e, answer)
    BY <1>1 DEF CallInv, GateFits
  <1> USE <1>1, <1>2, <1>3, <1>4, <1>5 DEF OwnCall, CallInv
  <1>6. (SitesFit(e))'
    BY DEF SitesFit, RoundSites, LoadSites, Results, Undecided
  <1>7. (ViewFits(e))'
    BY DEF ViewFits, LoadSites
  <1>8. (GateFits(e))'
    BY DEF GateFits, Decided
  <1>9. (MarkerFits(e))'
    BY DEF MarkerFits
  <1>10. (DeciderFits(e))'
    BY DEF DeciderFits, Undecided
  <1>11. (DecisionFits(e))'
    <2>1. (Decided(e))' \/ at'[h] \in Undecided
      BY DEF Decided, Undecided
    <2>2. QED
      BY <2>1 DEF DecisionFits, Answers
  <1>12. (WorkFits(e))' /\ (EndFits(e))'
    BY DEF WorkFits, EndFits
  <1>13. QED
    BY <1>6, <1>7, <1>8, <1>9, <1>10, <1>11, <1>12

LEMMA ChargeKeeps ==
    ASSUME NEW h \in Hook, NEW e, OwnCall(h, e), CallInv(e), Charge(h)
    PROVE  (CallInv(e))'
  <1>1. /\ phase[e] = "pre" /\ at[h] = "charge" /\ tool[e] \in Budgeted /\ ~IsWrite(e)
        /\ tool[e] \in Fallback => Attempted(AgentOf[e])
    BY SiteTellsRound DEF Charge, AtSite, OwnCall, CallInv, DeciderFits, Budgeted, WriteTool,
       IsWrite
  <1>2. /\ UNCHANGED <<seen, runner, verdict, claimed, snapshot, leases, gated, stale, troubled>>
        /\ \A answer : (Gated(e, answer))' <=> Gated(e, answer)
        /\ \A c : (Leased(e, c))' <=> Leased(e, c)
        /\ (Unleased(e))' <=> Unleased(e)
        /\ (Unsnapped(e))' <=> Unsnapped(e)
        /\ \A kind : (Claimed(kind, e))' <=> Claimed(kind, e)
    BY DEF Charge, OwnCall, Gated, Leased, Unleased, Unsnapped, Claimed
  <1>3. \/ at'[h] = "allow" /\ step'[h] = "ready" /\ (Spooled(e))'
        \/ at'[h] = "block" /\ step'[h] = "ready" /\ UNCHANGED spool
    <2>1. CASE GoTo(h, "allow") /\ spool' = Append(spool, e)
      <3>1. Len(spool) + 1 \in DOMAIN spool' /\ spool'[Len(spool) + 1] = e
        BY <2>1, AppendDoes DEF OwnCall, HooksTypeOK, DeliveryTypeOK
      <3>2. QED
        BY <2>1, <3>1, GoToDoes DEF OwnCall, Spooled, Sites, LoadSites, Results
    <2>2. CASE GoTo(h, "block") /\ UNCHANGED spool
      BY <2>2, GoToDoes DEF OwnCall, Sites, LoadSites, Results
    <2>3. QED
      BY <2>1, <2>2 DEF Charge, OwnCall
  <1>4. Unleased(e) /\ ~Spooled(e) /\ (\A g \in HooksOf(e) : at[g] \in Undecided => g = h) /\ Claimed("pre", e)
    BY <1>1 DEF CallInv, DeciderFits, MarkerFits, OwnCall, Undecided
  <1>5. \A answer \in Answers : ~Gated(e, answer)
    BY <1>1 DEF CallInv, GateFits
  <1>6. at'[h] = "block" => ~(Spooled(e))'
    BY <1>3, <1>4 DEF Spooled
  <1>7. (at'[h] = "block" \/ (at'[h] = "allow" /\ (Spooled(e))')) /\ step'[h] = "ready"
    BY <1>3
  <1> USE <1>1, <1>2, <1>4, <1>5, <1>6, <1>7 DEF OwnCall, CallInv
  <1>8. (SitesFit(e))'
    BY DEF SitesFit, RoundSites, LoadSites, Results, Undecided
  <1>9. (ViewFits(e))'
    BY DEF ViewFits, LoadSites
  <1>10. (GateFits(e))'
    BY DEF GateFits, Decided
  <1>11. (MarkerFits(e))'
    BY DEF MarkerFits
  <1>12. (DeciderFits(e))'
    BY DEF DeciderFits, Undecided
  <1>13. (DecisionFits(e))'
    <2>1. (Decided(e))' \/ at'[h] \in Undecided
      BY DEF Decided, Undecided
    <2>2. QED
      BY <2>1 DEF DecisionFits, Answers
  <1>14. (WorkFits(e))' /\ (EndFits(e))'
    BY DEF WorkFits, EndFits
  <1>15. QED
    BY <1>8, <1>9, <1>10, <1>11, <1>12, <1>13, <1>14

\* A hook has looked at what its session is bound to.
LEMMA LookKeeps ==
    ASSUME NEW h \in Hook, NEW e, OwnCall(h, e), CallInv(e), at[h] \in LoadSites,
           UNCHANGED <<at, runner, verdict, claimed, snapshot, leases, gated, stale, troubled, spool>>,
           e \notin disturbed => seen'[h] = Active(e),
           step'[h] = "ready" \/ (step'[h] = "beat" /\ seen'[h] \in Change)
    PROVE  (CallInv(e))'
  <1>1. /\ \A answer : (Gated(e, answer))' <=> Gated(e, answer)
        /\ \A c : (Leased(e, c))' <=> Leased(e, c)
        /\ (Unleased(e))' <=> Unleased(e)
        /\ (Spooled(e))' <=> Spooled(e)
        /\ (Unsnapped(e))' <=> Unsnapped(e)
        /\ \A kind : (Claimed(kind, e))' <=> Claimed(kind, e)
    BY DEF OwnCall, Gated, Leased, Unleased, Spooled, Unsnapped, Claimed
  <1> USE <1>1 DEF OwnCall, CallInv
  <1>2. (SitesFit(e))'
    BY DEF SitesFit
  <1>3. (ViewFits(e))'
    BY DEF ViewFits
  <1>4. (GateFits(e))'
    BY DEF GateFits, Decided
  <1>5. (MarkerFits(e))'
    BY DEF MarkerFits
  <1>6. (DeciderFits(e))'
    BY DEF DeciderFits
  <1>7. (DecisionFits(e))'
    BY DEF DecisionFits, Decided, Smooth
  <1>8. (WorkFits(e))' /\ (EndFits(e))'
    BY DEF WorkFits, EndFits, Smooth
  <1>9. QED
    BY <1>2, <1>3, <1>4, <1>5, <1>6, <1>7, <1>8

LEMMA LoadKeeps ==
    ASSUME NEW h \in Hook, NEW e, OwnCall(h, e), CallInv(e), Load(h)
    PROVE  (CallInv(e))'
  <1>1. at[h] \in LoadSites
    BY DEF Load, OwnCall, CallInv, SitesFit
  <1>2. UNCHANGED <<at, runner, verdict, claimed, snapshot, leases, gated, stale, troubled, spool>>
    BY DEF Load, evidence
  <1>3. seen'[h] = Active(e) /\ (step'[h] = "ready" \/ (step'[h] = "beat" /\ seen'[h] \in Change))
    BY DEF Load, OwnCall, HooksTypeOK, DeliveryTypeOK, Active
  <1>4. QED
    BY <1>1, <1>2, <1>3, LookKeeps

\* A hook of a call fails.  A call with such a hook owes little, but after a
\* write it is reported.
LEMMA TroubleKeeps ==
    ASSUME NEW h \in Hook, NEW e, OwnCall(h, e), CallInv(e), phase[e] # "over",
           UNCHANGED <<seen, runner, claimed, snapshot, leases, gated, stale, spool>>,
           troubled' = troubled \cup {e},
           \/ at'[h] = "died" /\ step'[h] = "ready"
           \/ at'[h] = "block" /\ step'[h] = "ready" /\ phase[e] # "pre"
           \/ at'[h] = "release" /\ step'[h] = "load" /\ at[h] = "mark" /\ verdict'[h] = "block"
    PROVE  (CallInv(e))'
  <1>1. /\ \A answer : (Gated(e, answer))' <=> Gated(e, answer)
        /\ \A c : (Leased(e, c))' <=> Leased(e, c)
        /\ (Unleased(e))' <=> Unleased(e)
        /\ (Spooled(e))' <=> Spooled(e)
        /\ (Unsnapped(e))' <=> Unsnapped(e)
        /\ \A kind : (Claimed(kind, e))' <=> Claimed(kind, e)
    BY DEF OwnCall, Gated, Leased, Unleased, Spooled, Unsnapped, Claimed
  <1>2. e \in troubled' /\ ~(Smooth(e))'
    BY DEF Smooth
  <1>3. at[h] = "mark" => phase[e] = "post"
    BY SiteTellsRound DEF CallInv
  <1>4. phase[e] \in {"pre", "post", "failed"}
    BY DEF OwnCall, HooksTypeOK, DeliveryTypeOK
  <1> USE <1>1, <1>2, <1>3, <1>4 DEF OwnCall, CallInv
  <1>5. (SitesFit(e))'
    BY DEF SitesFit, RoundSites, LoadSites, Results, Undecided
  <1>6. (ViewFits(e))'
    BY DEF ViewFits, LoadSites
  <1>7. (GateFits(e))'
    BY DEF GateFits
  <1>8. phase[e] = "pre" => at'[h] = "died"
    OBVIOUS
  <1>9. (MarkerFits(e))'
    BY <1>8 DEF MarkerFits
  <1>10. (DeciderFits(e))'
    BY <1>8 DEF DeciderFits, Undecided
  <1>11. (DecisionFits(e))' /\ (EndFits(e))'
    BY DEF DecisionFits, EndFits
  <1>12. (WorkFits(e))'
    BY DEF WorkFits
  <1>13. QED
    BY <1>5, <1>6, <1>7, <1>9, <1>10, <1>11, <1>12

LEMMA BeatKeeps ==
    ASSUME NEW h \in Hook, NEW e, OwnCall(h, e), CallInv(e), Beat(h)
    PROVE  (CallInv(e))'
  <1>1. phase[e] # "over" /\ step[h] = "beat" /\ at[h] \in LoadSites
    BY DEF Beat, OwnCall, CallInv, SitesFit
  <1>2. UNCHANGED <<runner, claimed, snapshot, leases, gated, stale, spool>>
    BY DEF Beat
  <1>3. PICK answer \in AfterHeartbeat(SessionOf[e], seen[h]) :
          IF answer # "failed"
          THEN /\ seen' = [seen EXCEPT ![h] = answer] /\ step' = [step EXCEPT ![h] = "ready"]
               /\ UNCHANGED <<at, verdict, troubled>>
          ELSE /\ Trouble(h) /\ UNCHANGED seen
               /\ \/ GoTo(h, "release") /\ verdict' = [verdict EXCEPT ![h] = "block"] /\ at[h] = "mark"
                  \/ GoTo(h, "block") /\ UNCHANGED verdict /\ at[h] = "release"
                  \/ GoTo(h, "died")
    BY DEF Beat, OwnCall
  <1>4. CASE answer # "failed"
    <2>1. e \notin disturbed => seen[h] = Active(e)
      BY <1>1 DEF CallInv, ViewFits, OwnCall
    <2>2. e \notin disturbed => answer = Active(e)
      BY <1>4, <2>1 DEF AfterHeartbeat, Active
    <2>3. seen'[h] = answer /\ step'[h] = "ready"
      BY <1>3, <1>4 DEF OwnCall, HooksTypeOK, DeliveryTypeOK
    <2>4. QED
      BY <1>1, <1>2, <1>3, <1>4, <2>2, <2>3, LookKeeps
  <1>5. CASE answer = "failed"
    <2>1. troubled' = troubled \cup {e} /\ UNCHANGED seen
      BY <1>3, <1>5 DEF Trouble, OwnCall
    <2>2. at[h] = "release" => phase[e] # "pre"
      BY <1>1, SiteTellsRound DEF CallInv
    <2>3. \/ at'[h] = "died" /\ step'[h] = "ready"
          \/ at'[h] = "block" /\ step'[h] = "ready" /\ phase[e] # "pre"
          \/ at'[h] = "release" /\ step'[h] = "load" /\ at[h] = "mark" /\ verdict'[h] = "block"
      BY <1>3, <1>5, <2>2, GoToDoes DEF OwnCall, HooksTypeOK, DeliveryTypeOK, Sites, LoadSites,
         Results
    <2>4. QED
      BY <1>1, <1>2, <2>1, <2>3, TroubleKeeps
  <1>6. QED
    BY <1>4, <1>5

LEMMA DieKeeps ==
    ASSUME NEW h \in Hook, NEW e, OwnCall(h, e), CallInv(e), Die(h)
    PROVE  (CallInv(e))'
  <1>1. phase[e] # "over" /\ troubled' = troubled \cup {e}
    BY DEF Die, OwnCall, Trouble
  <1>2. UNCHANGED <<seen, runner, claimed, snapshot, leases, gated, stale, spool>>
    BY DEF Die, evidence
  <1>3. at'[h] = "died" /\ step'[h] = "ready"
    BY GoToDoes DEF Die, OwnCall, Sites, LoadSites, Results
  <1>4. QED
    BY <1>1, <1>2, <1>3, TroubleKeeps

LEMMA LookAtWriteKeeps ==
    ASSUME NEW h \in Hook, NEW e, OwnCall(h, e), CallInv(e), LookAtWrite(h)
    PROVE  (CallInv(e))'
  <1>1. phase[e] = "post" /\ at[h] = "look" /\ step[h] = "ready"
    BY SiteTellsRound DEF LookAtWrite, AtSite, OwnCall, CallInv
  <1>2. /\ UNCHANGED <<seen, claimed, snapshot, leases, gated, stale, troubled, spool>>
        /\ \A answer : (Gated(e, answer))' <=> Gated(e, answer)
        /\ \A c : (Leased(e, c))' <=> Leased(e, c)
        /\ (Unleased(e))' <=> Unleased(e)
        /\ (Unsnapped(e))' <=> Unsnapped(e)
        /\ \A kind : (Claimed(kind, e))' <=> Claimed(kind, e)
    BY DEF LookAtWrite, OwnCall, Gated, Leased, Unleased, Unsnapped, Claimed, evidence
  <1>3. runner'[h] = seen[h] /\ at'[h] \in {"wait", "work"} /\ step'[h] = "ready"
    <2>1. GoTo(h, "wait") \/ GoTo(h, "work")
      BY DEF LookAtWrite
    <2>2. QED
      BY <2>1, GoToDoes DEF LookAtWrite, OwnCall, HooksTypeOK, DeliveryTypeOK, Sites, LoadSites,
         Results
  <1>4. e \notin disturbed => seen[h] = Active(e)
    BY <1>1 DEF CallInv, ViewFits, OwnCall, LoadSites
  <1> USE <1>1, <1>2, <1>3, <1>4 DEF OwnCall, CallInv
  <1>5. (SitesFit(e))'
    BY DEF SitesFit, RoundSites, LoadSites, Results
  <1>6. (ViewFits(e))'
    BY DEF ViewFits, LoadSites
  <1>7. (GateFits(e))'
    BY DEF GateFits, Decided
  <1>8. (MarkerFits(e))' /\ (DeciderFits(e))' /\ (DecisionFits(e))' /\ (EndFits(e))'
    BY DEF MarkerFits, DeciderFits, DecisionFits, EndFits
  <1>9. (WorkFits(e))'
    BY DEF WorkFits, Smooth
  <1>10. QED
    BY <1>5, <1>6, <1>7, <1>8, <1>9

LEMMA EnterKeeps ==
    ASSUME NEW h \in Hook, NEW e, OwnCall(h, e), CallInv(e), Enter(h)
    PROVE  (CallInv(e))'
  <1>1. phase[e] = "post" /\ at[h] = "wait"
    BY SiteTellsRound DEF Enter, AtSite, OwnCall, CallInv
  <1>2. /\ UNCHANGED <<seen, runner, verdict, claimed, snapshot, leases, gated, stale, troubled, spool>>
        /\ \A answer : (Gated(e, answer))' <=> Gated(e, answer)
        /\ \A c : (Leased(e, c))' <=> Leased(e, c)
        /\ (Unleased(e))' <=> Unleased(e)
        /\ (Unsnapped(e))' <=> Unsnapped(e)
        /\ \A kind : (Claimed(kind, e))' <=> Claimed(kind, e)
    BY DEF Enter, OwnCall, Gated, Leased, Unleased, Unsnapped, Claimed
  <1>3. at'[h] = "work" /\ step'[h] = "ready"
    BY GoToDoes DEF Enter, OwnCall, Sites, LoadSites, Results
  <1> USE <1>1, <1>2, <1>3 DEF OwnCall, CallInv
  <1>4. (SitesFit(e))'
    BY DEF SitesFit, RoundSites, LoadSites, Results
  <1>5. (ViewFits(e))'
    BY DEF ViewFits, LoadSites
  <1>6. (GateFits(e))'
    BY DEF GateFits, Decided
  <1>7. (MarkerFits(e))' /\ (DeciderFits(e))' /\ (DecisionFits(e))' /\ (EndFits(e))'
    BY DEF MarkerFits, DeciderFits, DecisionFits, EndFits
  <1>8. (WorkFits(e))'
    BY DEF WorkFits, Smooth
  <1>9. QED
    BY <1>4, <1>5, <1>6, <1>7, <1>8

LEMMA WaitTimesOutKeeps ==
    ASSUME NEW h \in Hook, NEW e, OwnCall(h, e), CallInv(e), WaitTimesOut(h)
    PROVE  (CallInv(e))'
  <1>1. phase[e] = "post" /\ troubled' = troubled \cup {e}
    BY SiteTellsRound DEF WaitTimesOut, AtSite, OwnCall, CallInv, Trouble
  <1>2. UNCHANGED <<seen, runner, claimed, snapshot, leases, gated, stale, spool>>
    BY DEF WaitTimesOut, evidence
  <1>3. at'[h] = "block" /\ step'[h] = "ready"
    BY GoToDoes DEF WaitTimesOut, OwnCall, Sites, LoadSites, Results
  <1>4. QED
    BY <1>1, <1>2, <1>3, TroubleKeeps

LEMMA AttributeKeeps ==
    ASSUME NEW h \in Hook, NEW e, OwnCall(h, e), CallInv(e), Attribute(h)
    PROVE  (CallInv(e))'
  <1>1. phase[e] = "post" /\ at[h] = "work"
    BY SiteTellsRound DEF Attribute, AtSite, OwnCall, CallInv
  <1>2. /\ UNCHANGED <<seen, runner, leases, gated, stale, troubled, spool>>
        /\ \A answer : (Gated(e, answer))' <=> Gated(e, answer)
        /\ \A c : (Leased(e, c))' <=> Leased(e, c)
        /\ (Unleased(e))' <=> Unleased(e)
    BY DEF Attribute, OwnCall, Gated, Leased, Unleased
  <1>3. (Unsnapped(e))' => Unsnapped(e)
    BY DEF Attribute, OwnCall, Unsnapped, HooksTypeOK, DeliveryTypeOK
  <1>4. /\ (Claimed("post", e))'
        /\ step'[h] = IF at'[h] = "release" \/ at'[h] = "mark" THEN "load" ELSE "ready"
        /\ \/ at'[h] = "release" /\ ~Claimed("post", e) /\ Unsnapped(e) /\ verdict'[h] = "block"
           \/ at'[h] = "mark" /\ ~Claimed("post", e) /\ ~(Unsnapped(e))'
           \/ at'[h] = "release" /\ Claimed("post", e) /\ ((Unsnapped(e))' <=> Unsnapped(e))
    <2> DEFINE unattributed == tool[e] = "bash" /\ snapshot[e] = "none"
    <2>0. {"mark", "release"} \subseteq Sites /\ {"mark", "release"} \subseteq LoadSites
      BY DEF Sites, LoadSites
    <2>1. CASE ~Claimed("post", e) /\ unattributed
      <3>1. /\ claimed' = claimed \cup {<<"post", e>>} /\ GoTo(h, "release")
            /\ verdict' = [verdict EXCEPT ![h] = "block"]
        BY <2>1 DEF Attribute, First, OwnCall, Claimed
      <3>2. QED
        BY <2>0, <2>1, <3>1, GoToDoes DEF OwnCall, HooksTypeOK, DeliveryTypeOK, Claimed, Unsnapped
    <2>2. CASE ~Claimed("post", e) /\ ~unattributed
      <3>1. /\ claimed' = claimed \cup {<<"post", e>>} /\ GoTo(h, "mark")
            /\ snapshot' = IF tool[e] = "bash" THEN [snapshot EXCEPT ![e] = "consumed"] ELSE snapshot
        BY <2>2 DEF Attribute, First, OwnCall, Claimed
      <3>2. ~(Unsnapped(e))'
        BY <2>2, <3>1 DEF OwnCall, HooksTypeOK, DeliveryTypeOK, Unsnapped
      <3>3. QED
        BY <2>0, <2>2, <3>1, <3>2, GoToDoes DEF OwnCall, Claimed
    <2>3. CASE Claimed("post", e)
      <3>1. GoTo(h, "release") /\ UNCHANGED <<claimed, snapshot, verdict>>
        BY <2>3 DEF Attribute, First, OwnCall, Claimed
      <3>2. QED
        BY <2>0, <2>3, <3>1, GoToDoes DEF OwnCall, Claimed, Unsnapped
    <2>4. QED
      BY <2>1, <2>2, <2>3
  <1> USE <1>1, <1>2, <1>3, <1>4 DEF OwnCall, CallInv
  <1>5. at'[h] \in {"release", "mark"} /\ step'[h] = "load"
    OBVIOUS
  <1>6. (SitesFit(e))'
    BY <1>5 DEF SitesFit, RoundSites, LoadSites, Results
  <1>7. (ViewFits(e))'
    BY <1>5 DEF ViewFits, LoadSites
  <1>8. (GateFits(e))'
    BY DEF GateFits, Decided
  <1>9. (MarkerFits(e))' /\ (DeciderFits(e))' /\ (DecisionFits(e))' /\ (EndFits(e))'
    BY DEF MarkerFits, DeciderFits, DecisionFits, EndFits
  <1>10. (WorkFits(e))'
    <2>1. ASSUME Smooth(e), NEW c \in Change, Gated(e, c)
          PROVE  <<c, e>> \in stale \/ (Leased(e, c) /\ \E g \in HooksOf(e) : at'[g] = "mark")
      <3>1. ~Unsnapped(e)
        BY <2>1 DEF GateFits, Answers
      <3>2. QED
        BY <2>1, <3>1 DEF WorkFits
    <2>2. Smooth(e) /\ (\E g \in HooksOf(e) : at'[g] \in {"allow", "block", "alarm"}) => Unleased(e)
      BY <1>5 DEF WorkFits
    <2>3. (Unsnapped(e))' => \E g \in HooksOf(e) :
              at'[g] \in {"block", "alarm", "died"} \/ (at'[g] = "release" /\ verdict'[g] = "block")
      BY DEF WorkFits
    <2>4. (Smooth(e))' <=> Smooth(e)
      BY DEF Smooth
    <2>5. QED
      BY <2>1, <2>2, <2>3, <2>4 DEF WorkFits
  <1>11. QED
    BY <1>6, <1>7, <1>8, <1>9, <1>10

LEMMA MarkKeeps ==
    ASSUME NEW h \in Hook, NEW e, OwnCall(h, e), CallInv(e), Mark(h)
    PROVE  (CallInv(e))'
  <1>1. phase[e] = "post" /\ at[h] = "mark" /\ step[h] = "ready"
    BY SiteTellsRound DEF Mark, AtSite, OwnCall, CallInv
  <1>2. /\ UNCHANGED <<seen, runner, claimed, snapshot, leases, gated, spool>>
        /\ \A answer : (Gated(e, answer))' <=> Gated(e, answer)
        /\ \A c : (Leased(e, c))' <=> Leased(e, c)
        /\ (Unleased(e))' <=> Unleased(e)
        /\ (Unsnapped(e))' <=> Unsnapped(e)
        /\ \A kind : (Claimed(kind, e))' <=> Claimed(kind, e)
    BY DEF Mark, OwnCall, Gated, Leased, Unleased, Unsnapped, Claimed
  <1>3. at'[h] = "release" /\ step'[h] = "load"
    BY GoToDoes DEF Mark, OwnCall, Sites, LoadSites
  <1>4. CASE seen[h] \in Change /\ Trouble(h) /\ verdict' = [verdict EXCEPT ![h] = "block"] /\ UNCHANGED stale
    <2>1. verdict'[h] = "block" /\ troubled' = troubled \cup {e}
      BY <1>4 DEF Trouble, OwnCall, HooksTypeOK, DeliveryTypeOK
    <2>2. QED
      BY <1>1, <1>2, <1>3, <1>4, <2>1, TroubleKeeps
  <1>5. CASE /\ UNCHANGED <<verdict, troubled>>
             /\ \/ seen[h] \in Change /\ stale' = stale \cup {<<seen[h], e>>}
                \/ seen[h] \notin Change /\ UNCHANGED stale
    <2> USE <1>1, <1>2, <1>3, <1>5 DEF OwnCall, CallInv
    <2>1. (SitesFit(e))'
      BY DEF SitesFit, RoundSites, LoadSites
    <2>2. (ViewFits(e))'
      BY DEF ViewFits, LoadSites
    <2>3. (GateFits(e))'
      BY DEF GateFits, Decided, Spooled
    <2>4. (MarkerFits(e))' /\ (DeciderFits(e))' /\ (DecisionFits(e))' /\ (EndFits(e))'
      BY DEF MarkerFits, DeciderFits, DecisionFits, EndFits
    <2>5. (WorkFits(e))'
      <3>1. (Smooth(e))' <=> Smooth(e)
        BY DEF Smooth
      <3>2. Claimed("post", e) \/ e \in troubled
        BY DEF WorkFits
      <3>3. ASSUME Smooth(e), NEW c \in Change, Gated(e, c) PROVE <<c, e>> \in stale'
        <4>1. c = Active(e) /\ seen[h] = Active(e)
          BY <3>3 DEF ViewFits, Smooth, Answers, LoadSites
        <4>2. QED
          BY <4>1
      <3>4. Smooth(e) /\ (\E g \in HooksOf(e) : at'[g] \in {"allow", "block", "alarm"}) => Unleased(e)
        BY DEF WorkFits
      <3>5. Unsnapped(e) => \E g \in HooksOf(e) :
              at'[g] \in {"block", "alarm", "died"} \/ (at'[g] = "release" /\ verdict'[g] = "block")
        BY DEF WorkFits
      <3>6. QED
        BY <3>1, <3>2, <3>3, <3>4, <3>5 DEF WorkFits
    <2>6. QED
      BY <2>1, <2>2, <2>3, <2>4, <2>5
  <1>6. QED
    BY <1>4, <1>5 DEF Mark, OwnCall

\* The post-write work of a change has one hook at a time.
Alone(h) ==
    \A g \in HooksOf(h[1]) :
        at[g] = "mark" /\ phase[h[1]] = "post" /\ runner[g] \in Change /\ runner[g] = runner[h] => g = h

LEMMA ReleaseKeeps ==
    ASSUME NEW h \in Hook, NEW e, OwnCall(h, e), CallInv(e), Alone(h), Release(h)
    PROVE  (CallInv(e))'
  <1>1. phase[e] \in {"post", "failed"} /\ at[h] = "release" /\ step[h] = "ready"
    BY SiteTellsRound DEF Release, AtSite, OwnCall, CallInv
  <1>2. /\ UNCHANGED <<seen, runner, verdict, claimed, snapshot, gated, stale, spool>>
        /\ \A answer : (Gated(e, answer))' <=> Gated(e, answer)
        /\ (Unsnapped(e))' <=> Unsnapped(e)
        /\ \A kind : (Claimed(kind, e))' <=> Claimed(kind, e)
    BY DEF Release, OwnCall, Gated, Unsnapped, Claimed
  <1>3. CASE GoTo(h, "block") /\ Trouble(h) /\ UNCHANGED leases
    <2>1. at'[h] = "block" /\ step'[h] = "ready" /\ troubled' = troubled \cup {e}
      BY <1>3, GoToDoes DEF OwnCall, Sites, LoadSites, Results, Trouble
    <2>2. QED
      BY <1>1, <1>2, <1>3, <2>1, TroubleKeeps
  <1>4. CASE /\ UNCHANGED troubled
             /\ GoTo(h, "alarm") \/ GoTo(h, verdict[h])
             /\ \/ seen[h] \in Change /\ leases' = leases \ {<<seen[h], e>>}
                \/ seen[h] \notin Change /\ UNCHANGED leases
    <2>1. verdict[h] \in {"allow", "block"}
      BY DEF OwnCall, HooksTypeOK, DeliveryTypeOK
    <2>2. at'[h] \in {"alarm", verdict[h]} /\ step'[h] = "ready"
      BY <1>4, <2>1, GoToDoes DEF OwnCall, Sites, LoadSites, Results
    <2>3. \A c \in Change : (Leased(e, c))' <=> Leased(e, c) /\ c # seen[h]
      BY <1>4 DEF Leased
    <2>4. Unleased(e) => (Unleased(e))'
      BY <2>3 DEF Unleased
    <2> USE <1>1, <1>2, <1>4, <2>1, <2>2, <2>3, <2>4 DEF OwnCall, CallInv
    <2>5. (SitesFit(e))'
      BY DEF SitesFit, RoundSites, LoadSites, Results
    <2>6. (ViewFits(e))'
      BY DEF ViewFits, LoadSites
    <2>7. (GateFits(e))'
      BY DEF GateFits, Decided, Spooled
    <2>8. (Smooth(e))' <=> Smooth(e)
      BY DEF Smooth
    <2>9. ASSUME Smooth(e)
          PROVE (Unleased(e))' /\ seen[h] = Active(e) /\ (phase[e] = "post" => runner[h] = Active(e))
                /\ \A c \in Change : Gated(e, c) => c = Active(e)
      <3>1. seen[h] = Active(e) /\ (phase[e] = "post" => runner[h] = Active(e))
            /\ \A answer \in Answers : Gated(e, answer) => answer = Active(e)
        BY <2>9 DEF ViewFits, Smooth, LoadSites
      <3>2. ASSUME NEW c \in Change PROVE ~(Leased(e, c))'
        BY <2>9, <3>1 DEF GateFits, Smooth, Answers
      <3>3. QED
        BY <3>1, <3>2 DEF Unleased, Answers
    <2>10. (MarkerFits(e))' /\ (DeciderFits(e))' /\ (DecisionFits(e))'
      BY DEF MarkerFits, DeciderFits, DecisionFits
    <2>11. (EndFits(e))'
      BY <2>8, <2>9 DEF EndFits
    <2>12. (WorkFits(e))'
      <3> SUFFICES ASSUME phase[e] = "post" PROVE (WorkFits(e))'
        BY DEF WorkFits
      <3>1. Claimed("post", e) \/ e \in troubled
        BY DEF WorkFits
      <3>2. ASSUME Smooth(e), NEW c \in Change, Gated(e, c) PROVE <<c, e>> \in stale
        <4>1. c = Active(e) /\ seen[h] = Active(e) /\ runner[h] = Active(e)
          BY <2>9, <3>2
        <4>2. SUFFICES ASSUME NEW g \in HooksOf(e), at[g] = "mark" PROVE FALSE
          BY <3>1, <3>2 DEF WorkFits, Smooth
        <4>3. runner[g] = Active(e)
          BY <4>2, <3>2 DEF ViewFits, Smooth
        <4>4. QED
          BY <4>1, <4>2, <4>3 DEF Alone
      <3>3. Unsnapped(e) => \E g \in HooksOf(e) :
              at'[g] \in {"block", "alarm", "died"} \/ (at'[g] = "release" /\ verdict'[g] = "block")
        BY DEF WorkFits
      <3>4. QED
        BY <2>8, <2>9, <3>1, <3>2, <3>3 DEF WorkFits
    <2>13. QED
      BY <2>5, <2>6, <2>7, <2>10, <2>11, <2>12
  <1>5. QED
    BY <1>3, <1>4 DEF Release, OwnCall

LEMMA FailKeeps ==
    ASSUME NEW h \in Hook, NEW e, OwnCall(h, e), CallInv(e), Fail(h)
    PROVE  (CallInv(e))'
  <1>1. phase[e] = "failed" /\ at[h] = "fail"
    BY SiteTellsRound DEF Fail, AtSite, OwnCall, CallInv
  <1>2. /\ UNCHANGED <<seen, runner, snapshot, leases, gated, stale, troubled, spool>>
        /\ \A answer : (Gated(e, answer))' <=> Gated(e, answer)
        /\ \A c : (Leased(e, c))' <=> Leased(e, c)
        /\ (Unleased(e))' <=> Unleased(e)
        /\ (Unsnapped(e))' <=> Unsnapped(e)
    BY DEF Fail, OwnCall, Gated, Leased, Unleased, Unsnapped
  <1>3. \/ at'[h] = "release" /\ step'[h] = "load"
        \/ at'[h] = "allow" /\ step'[h] = "ready" /\ Claimed("failed", e)
    BY GoToDoes DEF Fail, First, OwnCall, Sites, LoadSites, Results, Claimed
  <1> USE <1>1, <1>2, <1>3 DEF OwnCall, CallInv
  <1>4. (SitesFit(e))'
    BY DEF SitesFit, RoundSites, LoadSites, Results
  <1>5. (ViewFits(e))'
    BY DEF ViewFits, LoadSites
  <1>6. (GateFits(e))'
    BY DEF GateFits, Decided, Spooled
  <1>7. (MarkerFits(e))' /\ (DeciderFits(e))' /\ (DecisionFits(e))' /\ (WorkFits(e))'
    BY DEF MarkerFits, DeciderFits, DecisionFits, WorkFits
  <1>8. (EndFits(e))'
    BY DEF EndFits, Smooth
  <1>9. QED
    BY <1>4, <1>5, <1>6, <1>7, <1>8

(***************************************************************************)
(* The step of the host.                                                   *)
(***************************************************************************)
LEMMA HostIsLocal ==
    ASSUME HooksTypeOK, NEW e \in Event, RunTool(e) \/ EndCall(e), NEW f \in Event, f # e
    PROVE  SameFor(f)
  <1>1. \A g \in HooksOf(f) : g \in Hook /\ g[1] # e
    BY HooksOfCall
  <1>2. /\ UNCHANGED <<sessionVars, tool, evidence, troubled, disturbed>> /\ Forget(e)
        /\ (f \in ran' <=> f \in ran)
        /\ (\E round, site : NextRound(e, round, site)) \/ LastRound(e)
    BY DEF RunTool, EndCall
  <1>3. /\ phase'[f] = phase[f]
        /\ \A g \in HooksOf(f) : at'[g] = at[g] /\ step'[g] = step[g]
    BY <1>1, <1>2 DEF NextRound, LastRound, HooksTypeOK, DeliveryTypeOK
  <1>4. \A g \in HooksOf(f) : seen'[g] = seen[g] /\ runner'[g] = runner[g] /\ verdict'[g] = verdict[g]
    BY <1>1, <1>2 DEF Forget
  <1>5. (Active(f))' = Active(f)
    BY <1>2 DEF Active, ActiveChange, sessionVars
  <1>6. ((Spooled(f))' <=> Spooled(f)) /\ (Attempted(AgentOf[f]) => (Attempted(AgentOf[f]))')
    BY <1>2 DEF evidence, Spooled, Attempted, Charged
  <1>7. QED
    BY <1>2, <1>3, <1>4, <1>5, <1>6 DEF SameFor, evidence, Claimed, Leased, Gated

\* Nothing but the round of the call changes.
LEMMA HostKeeps ==
    ASSUME HooksTypeOK, NEW e \in Event, RunTool(e) \/ EndCall(e)
    PROVE  /\ \A answer : (Gated(e, answer))' <=> Gated(e, answer)
           /\ \A c : (Leased(e, c))' <=> Leased(e, c)
           /\ \A kind : (Claimed(kind, e))' <=> Claimed(kind, e)
           /\ (Unleased(e))' <=> Unleased(e)
           /\ (Unsnapped(e))' <=> Unsnapped(e)
           /\ (IsWrite(e))' <=> IsWrite(e)
           /\ (Smooth(e))' <=> Smooth(e)
           /\ (Decided(e))' <=> Decided(e)
           /\ (Active(e))' = Active(e)
           /\ UNCHANGED <<tool, troubled, disturbed, stale>>
  <1>1. UNCHANGED <<sessionVars, tool, evidence, troubled, disturbed>>
    BY DEF RunTool, EndCall
  <1>2. (Active(e))' = Active(e)
    BY <1>1 DEF Active, ActiveChange, sessionVars
  <1>3. QED
    BY <1>1, <1>2 DEF evidence, Gated, Leased, Claimed, Unleased, Unsnapped, IsWrite, Smooth,
       Decided, Spooled,
       Attempted, Charged

LEMMA RunToolKeeps ==
    ASSUME HooksTypeOK, NEW e \in Event, CallInv(e), RunTool(e)
    PROVE  (CallInv(e))'
  <1>1. \A h \in HooksOf(e) : h \in Hook /\ h[1] = e
    BY HooksOfCall
  <1>2. PICK some \in HooksOf(e) : TRUE
    BY HooksOfCall
  <1>3. phase[e] = "pre" /\ (\A h \in HooksOf(e) : at[h] \in Results) /\ e \notin ran
    BY DEF RunTool, Ended, CallInv, GateFits
  <1>4. e \notin troubled => Claimed("pre", e)
    BY <1>2, <1>3 DEF CallInv, SitesFit, MarkerFits, Results
  <1> DEFINE blocked == \E h \in HooksOf(e) : at[h] = "block"
  <1>5. ~blocked => /\ e \in troubled \/ Decided(e)
                    /\ Smooth(e) => \A c \in Change : Gated(e, c) => Leased(e, c)
    <2>1. ~blocked => \A h \in HooksOf(e) : at[h] \notin Undecided /\ at[h] # "lease"
      BY <1>3 DEF Results, Undecided
    <2>2. QED
      BY <1>3, <1>4, <2>1 DEF CallInv, DecisionFits
  <1>6. blocked => Unleased(e)
    BY <1>3 DEF CallInv, DeciderFits, Undecided
  <1>7. ~Claimed("post", e) /\ ~Claimed("failed", e)
    BY <1>3 DEF CallInv, MarkerFits
  <1>8. ~IsWrite(e) => ~Unsnapped(e) /\ (Smooth(e) => Unleased(e))
    BY DEF CallInv, GateFits, Answers, IsWrite, WriteTool, Unsnapped, Unleased, Smooth
  <1>9. ~blocked /\ IsWrite(e) /\ Smooth(e) => \A c \in Change : Gated(e, c) => Leased(e, c)
    BY <1>5
  <1>10. \/ /\ phase'[e] = "over" /\ UNCHANGED <<at, step>>
            /\ \/ blocked /\ e \notin ran'
               \/ ~blocked /\ e \in ran' /\ ~IsWrite(e)
         \/ /\ phase'[e] = "post" /\ IsWrite(e) /\ ~blocked /\ e \in ran'
            /\ \A h \in HooksOf(e) : at'[h] = "look" /\ step'[h] = "load"
         \/ /\ phase'[e] = "failed" /\ IsWrite(e) /\ ~blocked /\ e \notin ran'
            /\ \A h \in HooksOf(e) : at'[h] = "fail" /\ step'[h] = "ready"
    <2>1. CASE blocked /\ LastRound(e) /\ UNCHANGED ran
      BY <1>3, <2>1 DEF LastRound, HooksTypeOK, DeliveryTypeOK
    <2>2. CASE ~blocked /\ ran' = ran \cup {e} /\ IsWrite(e) /\ NextRound(e, "post", "look")
      BY <1>1, <2>2 DEF NextRound, HooksTypeOK, DeliveryTypeOK
    <2>3. CASE ~blocked /\ ran' = ran \cup {e} /\ ~IsWrite(e) /\ LastRound(e)
      BY <2>3 DEF LastRound, HooksTypeOK, DeliveryTypeOK
    <2>4. CASE ~blocked /\ UNCHANGED ran /\ IsWrite(e) /\ NextRound(e, "failed", "fail")
      BY <1>1, <1>3, <2>4 DEF NextRound, HooksTypeOK, DeliveryTypeOK
    <2>5. QED
      BY <2>1, <2>2, <2>3, <2>4 DEF RunTool
  <1> USE HostKeeps DEF CallInv
  <1>11. CASE phase'[e] = "over"
    <2> USE <1>10, <1>11
    <2>1. (SitesFit(e))'
      BY <1>3 DEF SitesFit, RoundSites, Sites, LoadSites, Results
    <2>2. (GateFits(e))'
      BY <1>5 DEF GateFits
    <2>3. (EndFits(e))'
      BY <1>6, <1>8 DEF EndFits
    <2>4. QED
      BY <2>1, <2>2, <2>3 DEF ViewFits, MarkerFits, DeciderFits, DecisionFits, WorkFits
  <1>12. CASE phase'[e] = "post"
    <2> USE <1>10, <1>12
    <2>1. (SitesFit(e))'
      BY DEF SitesFit, RoundSites, LoadSites
    <2>2. (ViewFits(e))'
      BY <1>3 DEF ViewFits, LoadSites
    <2>3. (GateFits(e))'
      BY <1>5 DEF GateFits
    <2>4. (WorkFits(e))'
      BY <1>7, <1>9 DEF WorkFits
    <2>5. QED
      BY <2>1, <2>2, <2>3, <2>4 DEF MarkerFits, DeciderFits, DecisionFits, EndFits
  <1>13. CASE phase'[e] = "failed"
    <2> USE <1>10, <1>13
    <2>1. (SitesFit(e))'
      BY DEF SitesFit, RoundSites, LoadSites
    <2>2. (ViewFits(e))'
      BY <1>3 DEF ViewFits, LoadSites
    <2>3. (GateFits(e))'
      BY <1>5 DEF GateFits
    <2>4. (EndFits(e))'
      BY <1>7 DEF EndFits
    <2>5. QED
      BY <2>1, <2>2, <2>3, <2>4 DEF MarkerFits, DeciderFits, DecisionFits, WorkFits
  <1>14. QED
    BY <1>10, <1>11, <1>12, <1>13

LEMMA EndCallKeeps ==
    ASSUME HooksTypeOK, NEW e \in Event, CallInv(e), EndCall(e)
    PROVE  (CallInv(e))'
  <1>1. PICK some \in HooksOf(e) : TRUE
    BY HooksOfCall
  <1>2. /\ phase[e] \in {"post", "failed"} /\ (\A h \in HooksOf(e) : at[h] \in Results)
        /\ phase'[e] = "over" /\ UNCHANGED <<at, step, ran>>
    BY DEF EndCall, Ended, LastRound, HooksTypeOK, DeliveryTypeOK
  <1>3. Smooth(e) => Unleased(e)
    <2>1. Smooth(e) => at[some] \in {"allow", "block", "alarm"}
      BY <1>1, <1>2 DEF CallInv, SitesFit, Smooth, Results
    <2>2. CASE phase[e] = "post"
      BY <1>1, <2>1, <2>2 DEF CallInv, WorkFits
    <2>3. CASE phase[e] = "failed"
      BY <1>1, <1>2, <2>3 DEF CallInv, EndFits, Results
    <2>4. QED
      BY <1>2, <2>2, <2>3
  <1>4. e \in ran /\ Unsnapped(e) => \E h \in HooksOf(e) : at[h] \in {"block", "alarm", "died"}
    <2>1. e \in ran => phase[e] = "post"
      BY <1>2 DEF CallInv, GateFits
    <2>2. QED
      BY <1>1, <1>2, <2>1 DEF CallInv, WorkFits, Results
  <1> USE <1>2, HostKeeps DEF CallInv
  <1>5. (SitesFit(e))'
    BY DEF SitesFit, RoundSites, Sites, LoadSites, Results
  <1>6. (GateFits(e))'
    BY DEF GateFits
  <1>7. (EndFits(e))'
    BY <1>3, <1>4 DEF EndFits
  <1>8. QED
    BY <1>5, <1>6, <1>7 DEF ViewFits, MarkerFits, DeciderFits, DecisionFits, WorkFits

(***************************************************************************)
(* Commands and the clock.                                                 *)
(***************************************************************************)
LEMMA BindingIsLocal ==
    ASSUME HooksTypeOK, BindingCommand \/ ClockTick, NEW e \in Event
    PROVE  SameFor(e)
  <1>1. UNCHANGED <<host, hookVars, evidence, troubled>> /\ Disturbance
    BY DEF BindingCommand, ClockTick
  <1>2. phase[e] # "over" /\ Begun(e) /\ e \notin disturbed' => (Active(e))' = Active(e)
    BY <1>1 DEF Disturbance, Active
  <1>3. e \in disturbed => e \in disturbed'
    BY <1>1 DEF Disturbance
  <1>4. ((Spooled(e))' <=> Spooled(e)) /\ (Attempted(AgentOf[e]) => (Attempted(AgentOf[e]))')
    BY <1>1 DEF host, evidence, Spooled, Attempted, Charged
  <1>5. QED
    BY <1>1, <1>2, <1>3, <1>4 DEF SameFor, host, hookVars, evidence, Claimed, Leased, Gated

(***************************************************************************)
(* The lock of the post-write work.                                        *)
(***************************************************************************)
AtPostWork == {"work", "mark", "release"}

LEMMA LockFitsStep ==
    ASSUME HooksTypeOK, LockFits, NEW h \in Hook, CallInv(h[1]), HookStep(h) \/ Die(h)
    PROVE  LockFits'
  <1> DEFINE e == h[1]
  <1>1. Local(h) /\ OwnCall(h, e)
    BY HookStepIsLocal, LocalIsOwn
  <1>2. phase' = phase /\ \A g \in Hook : g # h => at'[g] = at[g] /\ runner'[g] = runner[g]
    BY <1>1 DEF Local, host
  <1>3. ASSUME NEW c \in Change, postLock[c] \in Hook, postLock[c] # h, at[postLock[c]] \in AtPostWork
        PROVE  postLock'[c] = postLock[c]
    <2>1. postLock[c] # NoHook /\ at[postLock[c]] # "died"
      BY <1>3, DeliveryAssumption DEF AtPostWork
    <2>2. CASE Enter(h)
      BY <1>3, <2>1, <2>2 DEF Enter, HooksTypeOK, DeliveryTypeOK
    <2>3. CASE UNCHANGED postLock \/ Unlock(h)
      BY <1>3, <2>3, UnlockDoes
    <2>4. QED
      BY <2>2, <2>3 DEF HookStep, Die, Load, Beat, Claim, DecideWrite, Gate, TakeLease,
         DecideRead, Charge,
         LookAtWrite, WaitTimesOut, Attribute, Mark, Release, Fail, evidence
  <1>4. ASSUME phase[e] = "post", at'[h] \in AtPostWork, runner'[h] \in Change
        PROVE  postLock'[runner'[h]] = h
    <2>1. CASE at[h] \in AtPostWork /\ runner'[h] = runner[h] /\ postLock' = postLock
      BY <1>4, <2>1, <1>1 DEF LockFits, AtPostWork, OwnCall
    <2>2. CASE Enter(h)
      BY <1>4, <2>2 DEF Enter, HooksTypeOK, DeliveryTypeOK
    <2>3. CASE LookAtWrite(h)
      <3>1. runner'[h] = seen[h] /\ GoTo(h, "wait")
        BY <1>4, <2>3 DEF LookAtWrite, HooksTypeOK, DeliveryTypeOK
      <3>2. QED
        BY <1>4, <3>1, GoToDoes DEF AtPostWork, Sites
    <2>4. CASE Load(h)
      BY <1>4, <2>1, <2>4 DEF Load, evidence
    <2>5. CASE Beat(h)
      <3>1. runner' = runner
        BY <2>5 DEF Beat
      <3>2. (at' = at /\ postLock' = postLock) \/ (GoTo(h, "release") /\ at[h] = "mark" /\ postLock' = postLock)
            \/ GoTo(h, "block") \/ GoTo(h, "died")
        BY <2>5 DEF Beat
      <3>3. QED
        BY <1>4, <2>1, <3>1, <3>2, GoToDoes DEF AtPostWork, Sites, LoadSites, Results
    <2>6. CASE Attribute(h)
      BY <1>4, <2>1, <2>6 DEF Attribute, AtSite, AtPostWork
    <2>7. CASE Mark(h)
      BY <1>4, <2>1, <2>7 DEF Mark, AtSite, AtPostWork
    <2>8. CASE Fail(h)
      BY <1>1, <1>4, <2>8, SiteTellsRound DEF Fail, AtSite, CallInv
    <2>9. CASE Claim(h) \/ DecideWrite(h) \/ Gate(h) \/ TakeLease(h) \/ DecideRead(h) \/ Charge(h)
      BY <1>1, <1>4, <2>9, SiteTellsRound DEF Claim, DecideWrite, Gate, TakeLease, DecideRead,
         Charge, AtSite, CallInv
    <2>10. CASE WaitTimesOut(h) \/ Release(h) \/ Die(h)
      <3>1. verdict[h] \in {"allow", "block"}
        BY DEF HooksTypeOK, DeliveryTypeOK
      <3>2. \E site \in Results : GoTo(h, site)
        BY <2>10, <3>1 DEF WaitTimesOut, Release, Die, Results
      <3>3. QED
        BY <1>4, <3>2, GoToDoes DEF AtPostWork, Sites, Results
    <2>11. QED
      BY <2>2, <2>3, <2>4, <2>5, <2>6, <2>7, <2>8, <2>9, <2>10 DEF HookStep
  <1>5. ASSUME NEW g \in Hook, phase'[g[1]] = "post", at'[g] \in AtPostWork, runner'[g] \in Change
        PROVE  postLock'[runner'[g]] = g
    <2>1. CASE g = h
      BY <1>2, <1>4, <1>5, <2>1
    <2>2. CASE g # h
      <3>1. postLock[runner[g]] = g
        BY <1>2, <1>5, <2>2 DEF LockFits, AtPostWork
      <3>2. QED
        BY <1>2, <1>3, <1>5, <2>2, <3>1
    <2>3. QED
      BY <2>1, <2>2
  <1>6. QED
    BY <1>5 DEF LockFits, AtPostWork

LEMMA LockFitsHost ==
    ASSUME HooksTypeOK, LockFits, NEW e \in Event, RunTool(e) \/ EndCall(e)
    PROVE  LockFits'
  <1>1. UNCHANGED postLock
    BY DEF RunTool, EndCall, evidence
  <1>2. ASSUME NEW g \in Hook, g[1] # e
        PROVE  phase'[g[1]] = phase[g[1]] /\ at'[g] = at[g] /\ runner'[g] = runner[g]
    <2>1. SameFor(g[1]) /\ g \in HooksOf(g[1])
      BY <1>2, HooksOfCall, HostIsLocal
    <2>2. QED
      BY <2>1 DEF SameFor
  <1>3. ASSUME NEW g \in Hook, g[1] = e PROVE runner'[g] = "unbound"
    BY <1>3 DEF RunTool, EndCall, Forget
  <1>4. QED
    BY <1>1, <1>2, <1>3, RefusalAssumption DEF LockFits, Refusals

(***************************************************************************)
(* The budget.                                                             *)
(***************************************************************************)
LEMMA BudgetStep ==
    ASSUME HooksTypeOK, BudgetKept, NEW h \in Hook, ~Spooled(h[1]), tool[h[1]] \in Budgeted, Charge(h)
    PROVE  BudgetKept'
  <1> DEFINE e == h[1]
             n == Len(spool)
             Pair(t, a) == tool[e] = t /\ AgentOf[e] = a
  <1>1. CASE UNCHANGED spool
    BY <1>1 DEF Charge, host, BudgetKept, Charged
  <1>2. CASE spool' = Append(spool, e) /\ Cardinality(Charged(tool[e], AgentOf[e])) < Limit[tool[e]]
    <2>1. /\ e \in Event /\ tool' = tool /\ n \in Nat
          /\ DOMAIN spool = 1..n /\ DOMAIN spool' = 1..n + 1 /\ spool'[n + 1] = e
          /\ \A i \in 1..n : spool'[i] = spool[i] /\ spool[i] \in Event /\ spool[i] # e
      BY <1>2, HooksOfCall, AppendDoes DEF Charge, host, HooksTypeOK, DeliveryTypeOK, Spooled
    <2>2. ASSUME NEW t, NEW a
          PROVE  /\ (Charged(t, a))' = IF Pair(t, a) THEN Charged(t, a) \cup {n + 1} ELSE Charged(t, a)
                 /\ n + 1 \notin Charged(t, a) /\ IsFiniteSet(Charged(t, a))
      <3>1. (Charged(t, a))' = {i \in 1..n + 1 : tool[spool'[i]] = t /\ AgentOf[spool'[i]] = a}
        BY <2>1 DEF Charged
      <3>2. Charged(t, a) = {i \in 1..n : tool[spool[i]] = t /\ AgentOf[spool[i]] = a}
        BY <2>1 DEF Charged
      <3>3. IsFiniteSet(Charged(t, a))
        <4>1. IsFiniteSet(1..n)
          BY <2>1, FS_Interval
        <4>2. Charged(t, a) \in SUBSET (1..n)
          BY <3>2
        <4>3. QED
          BY <4>1, <4>2, FS_Subset
      <3>4. \A i : i \in 1..n + 1 <=> i \in 1..n \/ i = n + 1
        BY <2>1
      <3>5. QED
        BY <2>1, <3>1, <3>2, <3>3, <3>4
    <2>3. ASSUME NEW i \in DOMAIN spool', NEW j \in DOMAIN spool', spool'[i] = spool'[j] PROVE i = j
      BY <2>1, <2>3 DEF BudgetKept
    <2>4. ASSUME NEW i \in DOMAIN spool', NEW t, NEW a, t = tool[spool'[i]], a = AgentOf[spool'[i]]
          PROVE  Cardinality((Charged(t, a))') <= Limit[t]
      <3>1. CASE Pair(t, a)
        <4>1. /\ (Charged(t, a))' = Charged(t, a) \cup {n + 1} /\ n + 1 \notin Charged(t, a)
              /\ IsFiniteSet(Charged(t, a))
          BY <2>2, <3>1
        <4>2. /\ Cardinality(Charged(t, a)) \in Nat
              /\ Cardinality((Charged(t, a))') = Cardinality(Charged(t, a)) + 1
          BY <4>1, FS_CardinalityType, FS_AddElement
        <4>3. Limit[t] \in Nat /\ Cardinality(Charged(t, a)) < Limit[t]
          BY <1>2, <3>1, DeliveryAssumption
        <4>4. QED
          BY <4>2, <4>3
      <3>2. CASE ~Pair(t, a)
        <4>1. i \in DOMAIN spool /\ t = tool[spool[i]] /\ a = AgentOf[spool[i]]
          BY <2>1, <2>4, <3>2
        <4>2. (Charged(t, a))' = Charged(t, a)
          BY <2>2, <3>2
        <4>3. QED
          BY <4>1, <4>2 DEF BudgetKept
      <3>3. QED
        BY <3>1, <3>2
    <2>5. \A t, a : (Charged(t, a))' = {k \in DOMAIN spool' : tool'[spool'[k]] = t /\ AgentOf[spool'[k]] = a}
      BY DEF Charged
    <2>6. QED
      BY <2>1, <2>3, <2>4, <2>5 DEF BudgetKept, Charged
  <1>3. QED
    BY <1>1, <1>2 DEF Charge

(***************************************************************************)
(* The invariant.                                                          *)
(***************************************************************************)
LEMMA CallInvHook ==
    ASSUME HookInv, NEW h \in Hook, HookStep(h) \/ Die(h), NEW e \in Event
    PROVE  (CallInv(e))'
  <1>1. Local(h) /\ OwnCall(h, h[1]) /\ CallInv(h[1]) /\ CallInv(e) /\ HooksTypeOK
    BY HookStepIsLocal, LocalIsOwn, HooksOfCall DEF HookInv
  <1>2. CASE e # h[1]
    BY <1>1, <1>2, OthersAreLeftAlone, Frame
  <1>3. CASE e = h[1]
    <2>1. ASSUME Release(h) PROVE Alone(h)
      <3>1. \A g \in HooksOf(e) : g \in Hook /\ g[1] = e
        BY HooksOfCall
      <3>2. at[h] = "release"
        BY <2>1 DEF Release, AtSite
      <3>3. QED
        BY <1>3, <3>1, <3>2 DEF Alone, HookInv, LockFits
    <2>2. CASE Release(h)
      BY <1>1, <1>3, <2>1, <2>2, ReleaseKeeps
    <2>3. CASE Load(h) \/ Beat(h) \/ Die(h)
      BY <1>1, <1>3, <2>3, LoadKeeps, BeatKeeps, DieKeeps
    <2>4. CASE Claim(h) \/ DecideWrite(h) \/ Gate(h) \/ TakeLease(h) \/ DecideRead(h) \/ Charge(h)
      BY <1>1, <1>3, <2>4, ClaimKeeps, DecideWriteKeeps, GateKeeps, TakeLeaseKeeps,
         DecideReadKeeps, ChargeKeeps
    <2>5. CASE LookAtWrite(h) \/ Enter(h) \/ WaitTimesOut(h) \/ Attribute(h) \/ Mark(h) \/ Fail(h)
      BY <1>1, <1>3, <2>5, LookAtWriteKeeps, EnterKeeps, WaitTimesOutKeeps, AttributeKeeps,
         MarkKeeps, FailKeeps
    <2>6. QED
      BY <2>2, <2>3, <2>4, <2>5 DEF HookStep
  <1>4. QED
    BY <1>2, <1>3

LEMMA BudgetHook ==
    ASSUME HookInv, NEW h \in Hook, HookStep(h) \/ Die(h)
    PROVE  BudgetKept'
  <1>1. CASE Charge(h)
    <2>1. h[1] \in Event /\ h \in HooksOf(h[1]) /\ HooksTypeOK /\ CallInv(h[1]) /\ OwnCall(h, h[1])
      BY HooksOfCall, HookStepIsLocal, LocalIsOwn DEF HookInv
    <2>2. phase[h[1]] = "pre" /\ at[h] = "charge"
      BY <1>1, <2>1, SiteTellsRound DEF Charge, AtSite, CallInv
    <2>3. ~Spooled(h[1]) /\ tool[h[1]] \in Budgeted
      BY <2>1, <2>2 DEF CallInv, DeciderFits, Undecided
    <2>4. QED
      BY <1>1, <2>1, <2>3, BudgetStep DEF HookInv
  <1>2. CASE ~Charge(h)
    <2>1. UNCHANGED <<tool, spool>>
      BY <1>2 DEF HookStep, Die, Load, Beat, Claim, DecideWrite, Gate, TakeLease, DecideRead,
         LookAtWrite, Enter,
         WaitTimesOut, Attribute, Mark, Release, Fail, evidence, host
    <2>2. QED
      BY <2>1 DEF HookInv, BudgetKept, Charged
  <1>3. QED
    BY <1>1, <1>2

LEMMA HookInvStep == HookInv /\ [DeliveryNext]_deliveryVars => HookInv'
  <1> SUFFICES ASSUME HookInv, [DeliveryNext]_deliveryVars PROVE HookInv'
    OBVIOUS
  <1>1. HooksTypeOK /\ HooksTypeOK' /\ LockFits /\ BudgetKept
    BY TypeStepOfHooks DEF HookInv
  <1>2. ASSUME NEW h \in Hook, HookStep(h) \/ Die(h) PROVE HookInv'
    <2>1. LockFits'
      BY <1>1, <1>2, HooksOfCall, LockFitsStep DEF HookInv
    <2>2. QED
      BY <1>1, <1>2, <2>1, CallInvHook, BudgetHook DEF HookInv
  <1>3. ASSUME NEW e \in Event, RunTool(e) \/ EndCall(e) PROVE HookInv'
    <2>1. ASSUME NEW f \in Event PROVE (CallInv(f))'
      <3>1. CallInv(f) /\ CallInv(e)
        BY DEF HookInv
      <3>2. CASE f = e
        BY <1>1, <1>3, <3>1, <3>2, RunToolKeeps, EndCallKeeps
      <3>3. CASE f # e
        BY <1>1, <1>3, <3>1, <3>3, HostIsLocal, Frame
      <3>4. QED
        BY <3>2, <3>3
    <2>2. LockFits'
      BY <1>1, <1>3, LockFitsHost
    <2>3. UNCHANGED <<tool, spool>>
      BY <1>3 DEF RunTool, EndCall, evidence
    <2>4. BudgetKept'
      BY <1>1, <2>3 DEF BudgetKept, Charged
    <2>5. QED
      BY <1>1, <2>1, <2>2, <2>4 DEF HookInv
  <1>4. CASE BindingCommand \/ ClockTick
    <2>1. \A f \in Event : (CallInv(f))'
      BY <1>1, <1>4, BindingIsLocal, Frame DEF HookInv
    <2>2. UNCHANGED <<host, hookVars, evidence>>
      BY <1>4 DEF BindingCommand, ClockTick
    <2>3. LockFits' /\ BudgetKept'
      BY <1>1, <2>2 DEF LockFits, BudgetKept, Charged, host, hookVars, evidence
    <2>4. QED
      BY <1>1, <2>1, <2>3 DEF HookInv
  <1>5. CASE UNCHANGED deliveryVars
    <2>1. UNCHANGED <<sessionVars, host, hookVars, evidence, troubled, disturbed>>
      BY <1>5 DEF deliveryVars
    <2>2. LockFits' /\ BudgetKept'
      BY <1>1, <2>1 DEF LockFits, BudgetKept, Charged, host, hookVars, evidence
    <2>3. \A f \in Event : (Active(f))' = Active(f) /\ ((Spooled(f))' <=> Spooled(f))
                           /\ (Attempted(AgentOf[f]) => (Attempted(AgentOf[f]))')
      BY <2>1 DEF Active, ActiveChange, sessionVars, host, evidence, Spooled, Attempted, Charged
    <2>4. \A f \in Event : SameFor(f)
      BY <2>1, <2>3 DEF SameFor, host, hookVars, evidence, Claimed, Leased, Gated
    <2>5. \A f \in Event : (CallInv(f))'
      BY <1>1, <2>4, Frame DEF HookInv
    <2>6. QED
      BY <1>1, <2>2, <2>5 DEF HookInv
  <1>6. QED
    BY <1>2, <1>3, <1>4, <1>5 DEF DeliveryNext

LEMMA HooksAreInvariant == DeliverySpec => []HookInv
  <1>1. DeliveryInit => HookInv
    BY HooksInit
  <1>2. HookInv /\ [DeliveryNext]_deliveryVars => HookInv'
    BY HookInvStep
  <1>3. QED
    BY <1>1, <1>2, PTL DEF DeliverySpec

(***************************************************************************)
(* What it implies.                                                        *)
(***************************************************************************)

\* Every write was let through by the gates or is reported, whatever hooks die and
\* whatever happens to the binding (preWrite, allowWithLease, postWriteCore).
THEOREM WritesStayDecided == DeliverySpec => []WritesAreDecided
  <1>1. HookInv => WritesAreDecided
    <2> SUFFICES ASSUME HookInv PROVE WritesAreDecided
      OBVIOUS
    <2>1. HooksTypeOK /\ ran \subseteq Event
      BY DEF HookInv, HooksTypeOK, DeliveryTypeOK
    <2>2. \A e \in Event : GateFits(e) /\ EndFits(e)
      BY DEF HookInv, CallInv
    <2>3. WriteIsGated
      BY <2>1, <2>2 DEF WriteIsGated, GateFits, Decided, Gated, Leased
    <2>4. UndecidedIsReported
      BY <2>1, <2>2 DEF UndecidedIsReported, EndFits, Unsnapped
    <2>5. QED
      BY <2>1, <2>3, <2>4 DEF WritesAreDecided
  <1>2. QED
    BY <1>1, HooksAreInvariant, PTL

\* A write lease lasts exactly as long as its call, as long as nothing fails and
\* nobody moves the binding (allowWithLease, postWrite, releaseHookWriteLease).
THEOREM LeasesStayWithCalls == DeliverySpec => []LeasesFitCalls
  <1>1. HookInv => LeasesFitCalls
    <2> SUFFICES ASSUME HookInv PROVE LeasesFitCalls
      OBVIOUS
    <2>1. ran \subseteq Event
      BY DEF HookInv, HooksTypeOK, DeliveryTypeOK
    <2>2. \A e \in Event : WorkFits(e) /\ EndFits(e)
      BY DEF HookInv, CallInv
    <2>3. LeaseUntilSeen
      BY <2>1, <2>2 DEF LeaseUntilSeen, WorkFits, Gated, Leased
    <2>4. LeaseEndsWithCall
      BY <2>2 DEF LeaseEndsWithCall, EndFits, Unleased, Leased
    <2>5. QED
      BY <2>3, <2>4 DEF LeasesFitCalls
  <1>2. QED
    BY <1>1, HooksAreInvariant, PTL

\* A read that runs was paid for, once, and in the prescribed order
\* (preExplore, claimAgentEventBudget).
THEOREM ReadsStayBudgeted == DeliverySpec => []ReadsAreBudgeted
  <1>1. HookInv => ReadsAreBudgeted
    <2> SUFFICES ASSUME HookInv PROVE ReadsAreBudgeted
      OBVIOUS
    <2>1. ran \subseteq Event /\ BudgetKept
      BY DEF HookInv, HooksTypeOK, DeliveryTypeOK
    <2>2. \A e \in ran : e \in troubled \/ Decided(e)
      BY <2>1 DEF HookInv, CallInv, GateFits
    <2>3. ReadIsCharged /\ FallbackAfterAttempt
      BY <2>2 DEF ReadIsCharged, FallbackAfterAttempt, Decided, Spooled, Attempted
    <2>4. QED
      BY <2>1, <2>3 DEF ReadsAreBudgeted
  <1>2. QED
    BY <1>1, HooksAreInvariant, PTL

(***************************************************************************)
(* How bindings lapse.                                                     *)
(***************************************************************************)
LEMMA BeatDoes ==
    ASSUME HookInv, NEW h \in Hook, Beat(h)
    PROVE  LET s == SessionOf[h[1]] IN
           /\ \A r \in Session : bound'[r] # NoBinding /\ (bound[r] = NoBinding \/ bound[r].left = 0) =>
                                    bound'[r] = bound[r]
           /\ at'[h] = at[h] /\ seen'[h] \in Change /\ bound'[s] # NoBinding => bound'[s].left > Within
  <1> DEFINE s == SessionOf[h[1]]
  <1>1. /\ HooksTypeOK /\ HooksTypeOK' /\ s \in Session /\ h[1] \in Event /\ h \in HooksOf(h[1]) /\ CallInv(h[1])
    BY HooksOfCall, DeliveryAssumption, HookTypeStep DEF HookInv, HookStep
  <1>2. /\ Renew(s) /\ UNCHANGED <<place, clearing, binds>> /\ SessionTypeOK /\ SessionTypeOK'
    BY <1>1 DEF Beat, HooksTypeOK
  <1>3. /\ \A r \in Session : bound'[r] # NoBinding /\ (bound[r] = NoBinding \/ bound[r].left = 0) =>
                                 bound'[r] = bound[r]
        /\ bound'[s] # NoBinding => bound'[s].left \notin 1..Within
        /\ (ActiveChange(s))' = ActiveChange(s)
    BY <1>1, <1>2, RenewDoes
  <1>4. ASSUME at'[h] = at[h], seen'[h] \in Change, bound'[s] # NoBinding PROVE bound'[s].left > Within
    <2>1. step[h] = "beat" /\ at[h] \in LoadSites
      BY <1>1 DEF Beat, CallInv, SitesFit
    <2>2. PICK answer \in AfterHeartbeat(s, seen[h]) :
            IF answer # "failed"
            THEN seen' = [seen EXCEPT ![h] = answer]
            ELSE \/ GoTo(h, "release") /\ at[h] = "mark"
                 \/ GoTo(h, "block") /\ at[h] = "release"
                 \/ GoTo(h, "died")
      BY DEF Beat
    <2>3. answer # "failed"
      BY <1>1, <1>4, <2>1, <2>2, GoToDoes DEF Sites, LoadSites, Results
    <2>4. seen'[h] = answer
      BY <1>1, <2>2, <2>3 DEF HooksTypeOK, DeliveryTypeOK
    <2>5. ASSUME bound'[s].left = 0 PROVE FALSE
      <3>1. (ActiveChange(s))' = "expired"
        BY <1>4, <2>5 DEF ActiveChange
      <3>2. bound[s] # NoBinding /\ bound[s].left = 0
        BY <1>1, <1>2, <1>3, <3>1, RefusalAssumption DEF ActiveChange, SessionTypeOK, Binding,
           Refusals
      <3>3. answer = "expired"
        BY <1>3, <2>2, <3>1, <3>2 DEF AfterHeartbeat
      <3>4. QED
        BY <1>4, <2>4, <3>3, RefusalAssumption DEF Refusals
    <2>6. bound'[s].left \in 0..Lease
      BY <1>1, <1>2, <1>4 DEF SessionTypeOK, Binding
    <2>7. QED
      BY <1>3, <1>4, <2>5, <2>6, LeaseAssumption
  <1>5. QED
    BY <1>3, <1>4

\* A binding lives on heartbeats in time and on nothing else (heartbeatSessionLease,
\* bindSession): an expired one needs a command, and a heartbeat leaves time.
THEOREM BindingsStayLapsed == DeliverySpec => BindingsLapse
  <1>1. HookInv /\ [DeliveryNext]_deliveryVars =>
          [\A s \in Session :
             bound[s] # NoBinding /\ bound[s].left = 0 /\ bound'[s] # NoBinding /\ bound'[s].left > 0 =>
                 binds' # binds]_sessionVars
    <2> SUFFICES ASSUME HookInv, [DeliveryNext]_deliveryVars, NEW s \in Session,
                        bound[s] # NoBinding, bound[s].left = 0, bound'[s] # NoBinding, bound'[s].left > 0
                 PROVE  binds' # binds
      BY DEF deliveryVars, sessionVars
    <2>1. bound'[s] # bound[s] /\ SessionTypeOK
      BY DEF HookInv, HooksTypeOK
    <2>2. ASSUME NEW h \in Hook PROVE ~(HookStep(h) \/ Die(h))
      BY <2>1, BeatDoes DEF HookStep, Die, Load, Claim, DecideWrite, Gate, TakeLease, DecideRead,
         Charge, LookAtWrite,
         Enter, WaitTimesOut, Attribute, Mark, Release, Fail, sessionVars
    <2>3. ~\E e \in Event : RunTool(e) \/ EndCall(e)
      BY <2>1 DEF RunTool, EndCall, sessionVars
    <2>4. ~ClockTick
      BY <2>1 DEF ClockTick, SessionTick
    <2>5. ASSUME BindingCommand PROVE binds' # binds
      BY <2>1, <2>5 DEF BindingCommand, SessionCommand, SessionTypeOK, Unbind, ClearBinding, Bind,
         Scaffold, Archive
    <2>6. QED
      BY <2>1, <2>2, <2>3, <2>4, <2>5 DEF DeliveryNext, deliveryVars, sessionVars
  <1>2. HookInv /\ [DeliveryNext]_deliveryVars =>
          [\A h \in Hook : LET s == SessionOf[h[1]] IN
             step[h] = "beat" /\ step'[h] = "ready" /\ at'[h] = at[h] /\ seen'[h] \in Change
             /\ bound'[s] # NoBinding
                 => bound'[s].left > Within]_deliveryVars
    <2> SUFFICES ASSUME HookInv, DeliveryNext, NEW h \in Hook, step[h] = "beat", step'[h] = "ready",
                        at'[h] = at[h], seen'[h] \in Change, bound'[SessionOf[h[1]]] # NoBinding
                 PROVE  bound'[SessionOf[h[1]]].left > Within
      OBVIOUS
    <2>1. /\ HooksTypeOK /\ h[1] \in Event /\ h \in HooksOf(h[1]) /\ at[h] \in LoadSites
      BY HooksOfCall DEF HookInv, CallInv, SitesFit
    <2>2. at[h] \notin Results
      BY <2>1 DEF LoadSites, Results
    <2>3. ASSUME NEW k \in Hook, HookStep(k) \/ Die(k) PROVE Beat(h)
      <3>1. k = h
        BY <2>1, <2>3, HookStepIsLocal DEF Local
      <3>2. ~Die(h)
        BY <2>1, <2>2, GoToDoes DEF Die, Sites, Results
      <3>3. QED
        BY <2>3, <3>1, <3>2 DEF HookStep, Load, Claim, DecideWrite, Gate, TakeLease, DecideRead,
           Charge, LookAtWrite,
           Enter, WaitTimesOut, Attribute, Mark, Release, Fail, AtSite
    <2>4. ASSUME NEW e \in Event, RunTool(e) \/ EndCall(e) PROVE FALSE
      <3>1. h[1] # e
        BY <2>1, <2>2, <2>4 DEF RunTool, EndCall, Ended
      <3>2. SameFor(h[1])
        BY <2>1, <2>4, <3>1, HostIsLocal
      <3>3. QED
        BY <2>1, <3>2 DEF SameFor
    <2>5. ~(BindingCommand \/ ClockTick)
      BY DEF BindingCommand, ClockTick, hookVars
    <2>6. QED
      BY <2>3, <2>4, <2>5, BeatDoes DEF DeliveryNext
  <1>3. QED
    BY <1>1, <1>2, HooksAreInvariant, PTL DEF DeliverySpec, BindingsLapse, ExpiredStaysExpired,
       HeartbeatLeavesTime
===============================================================================
