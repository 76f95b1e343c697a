---------------------------- MODULE TaskRunProofs ----------------------------
(***************************************************************************)
(* Theorems about TaskRun, for every set of runners and every length of    *)
(* the phase chain.  Type correctness holds whoever dies; the other        *)
(* theorems assume that at most one runner is killed: after two deaths,    *)
(* one with the lock and one in the recovery guard, two runners can pass   *)
(* the guard.                                                              *)
(***************************************************************************)
EXTENDS TaskRun, TLAPS

OneMortal == \A r, s \in Mortal : r = s

(***************************************************************************)
(* Type correctness.                                                       *)
(***************************************************************************)
BeforeSpawn == AcquireSteps \cup {"orphan", "held", "authorize", "intend", "spawn"}

TypeInv ==
    /\ TypeOK
    /\ \A r \in Runner : pc[r] \in BeforeSpawn => wrapper[r] = "none"
    /\ \A r \in Runner : pc[r] = "start" => attempt[r] < Attempts
    /\ \A r \in Runner : pc[r] = "guard" => entry[r] < Attempts
    /\ \A r \in Runner :
         pc[r] \in {"authorize", "intend", "spawn"} \/ wrapper[r] = "start" => base[r] < Phases

LEMMA TypeInit == Init => TypeInv
  <1> SUFFICES ASSUME Init PROVE TypeInv
    OBVIOUS
  <1>1. /\ pc = [r \in Runner |-> "start"] /\ wrapper = [r \in Runner |-> "none"]
        /\ attempt = [r \in Runner |-> 0]
    BY DEF Init, LockInit
  <1>2. pc \in [Runner -> Steps]
    BY <1>1 DEF Steps, AcquireSteps
  <1>3. LockTypeOK(Steps)
    <2>1. alive \in SUBSET Runner
      BY DEF Init, LockInit
    <2>2. command \in [Runner -> {"none", "running", "over"}]
      BY DEF Init, LockInit
    <2>3. attempt \in [Runner -> 0..Attempts] /\ entry \in [Runner -> 0..Attempts]
      BY DEF Init, LockInit, Attempts
    <2>4. lock \in Runner \cup {NoRunner} /\ guard \in Runner \cup {NoRunner} /\ marker \in Runner \cup {NoRunner}
      BY DEF Init, LockInit
    <2>5. seen \in [Runner -> Runner \cup {NoRunner}]
      BY DEF Init, LockInit
    <2>6. QED
      BY <1>2, <2>1, <2>2, <2>3, <2>4, <2>5 DEF LockTypeOK
  <1>4. TypeOK
    <2>1. starts \in [0..Phases - 1 -> Nat]
      BY DEF Init
    <2>2. spool \in 0..Phases /\ base \in [Runner -> 0..Phases]
      BY PhasesAssumption DEF Init
    <2>3. /\ wrapper \in [Runner -> WrapperSteps]
          /\ outcome \in [Runner -> {"none", "exit", "bad"}]
      BY DEF Init, WrapperSteps
    <2>4. /\ auth \in Runner \cup {NoRunner} /\ intent \in Runner \cup {NoRunner}
         /\ canonical \in BOOLEAN /\ projection \in BOOLEAN /\ leftover \in BOOLEAN
    BY DEF Init
    <2>5. result \in [Runner -> {"none", "ok", "failed"}]
      BY DEF Init
    <2>6. QED
      BY <1>3, <2>1, <2>2, <2>3, <2>4, <2>5 DEF TypeOK
  <1>5. QED
    BY <1>1, <1>4, PhasesAssumption DEF TypeInv, BeforeSpawn, AcquireSteps, Attempts

\* The names of the steps, so that the typing of a step need not enumerate them.
LEMMA StepNames ==
    /\ {"start", "guard", "dropGuard", "judge", "verify", "unlink", "leaveGuard", "refuse", "orphan",
        "held", "authorize", "intend", "spawn", "waiting", "publish", "canonical", "projection",
        "settle", "clearIntent", "undoProjection", "undoCanonical", "undoSpool", "release", "remove",
        "over"} \subseteq Steps
    /\ {"none", "start", "check", "record", "recorded", "reject", "ended", "killed"} \subseteq WrapperSteps
  BY DEF Steps, AcquireSteps, GuardSteps, CriticalSteps, RunSteps, WrapperSteps

LEMMA CountUp ==
    ASSUME NEW f \in [Runner -> 0..Attempts], NEW q \in Runner, f[q] < Attempts
    PROVE  f[q] + 1 \in 0..Attempts
  <1>1. f[q] \in 0..2
    BY DEF Attempts
  <1>2. QED
    BY <1>1 DEF Attempts

LEMMA Moved ==
    ASSUME TypeOK, NEW q \in Runner, NEW x \in Steps, Goto(q, x)
    PROVE  pc' \in [Runner -> Steps]
  BY DEF TypeOK, LockTypeOK, Goto

LEMMA TypeOKStep == TypeInv /\ [Next]_vars => TypeOK'
  <1> SUFFICES ASSUME TypeInv, [Next]_vars PROVE TypeOK'
    OBVIOUS
  <1> USE RunnerAssumption, PhasesAssumption, StepNames DEF TypeInv, TypeOK, LockTypeOK, Attempts,
          At, Goto, Leave, Wrapped, Extended, lockVars, runVars, fileLock, supervised, receipts
  <1>1. ASSUME NEW q \in Runner, OpenLock(q), UNCHANGED runVars PROVE TypeOK'
    <2>1. pc' \in [Runner -> Steps]
      <3> HIDE DEF Goto, TypeInv
      <3>1. \E x \in Steps : Goto(q, x)
        BY <1>1 DEF OpenLock
      <3>2. QED
        BY <3>1, Moved DEF TypeInv
    <2>2. attempt' \in [Runner -> 0..Attempts] /\ entry' \in [Runner -> 0..Attempts]
      <3> HIDE DEF Goto
      <3>1. attempt[q] < Attempts /\ attempt \in [Runner -> 0..Attempts]
        BY <1>1 DEF OpenLock
      <3>2. attempt[q] + 1 \in 0..Attempts
        BY <3>1, CountUp
      <3>3. attempt' = [attempt EXCEPT ![q] = attempt[q] + 1]
        BY <1>1 DEF OpenLock
      <3>4. entry' = entry \/ entry' = [entry EXCEPT ![q] = 0]
        BY <1>1 DEF OpenLock
      <3>5. QED
        <4> HIDE DEF TypeInv
        <4>1. entry \in [Runner -> 0..Attempts]
          BY DEF TypeInv
        <4>2. attempt' \in [Runner -> 0..Attempts]
          BY <3>1, <3>2, <3>3
        <4>3. 0 \in 0..Attempts
          OBVIOUS
        <4>4. entry' \in [Runner -> 0..Attempts]
          BY <3>4, <4>1, <4>3
        <4>5. QED
          BY <4>2, <4>4
    <2>3. /\ alive' \in SUBSET Runner
          /\ lock' \in Runner \cup {NoRunner}
          /\ guard' \in Runner \cup {NoRunner} /\ marker' \in Runner \cup {NoRunner}
      BY <1>1 DEF OpenLock
    <2>4. /\ command' \in [Runner -> {"none", "running", "over"}]
          /\ seen' \in [Runner -> Runner \cup {NoRunner}]
      BY <1>1 DEF OpenLock
    <2>5. /\ wrapper' \in [Runner -> WrapperSteps]
          /\ outcome' \in [Runner -> {"none", "exit", "bad"}]
          /\ auth' \in Runner \cup {NoRunner} /\ intent' \in Runner \cup {NoRunner}
          /\ canonical' \in BOOLEAN /\ projection' \in BOOLEAN /\ leftover' \in BOOLEAN
      BY <1>1 DEF OpenLock
    <2>6. spool' \in 0..Phases /\ base' \in [Runner -> 0..Phases]
      BY <1>1 DEF OpenLock
    <2>7. result' \in [Runner -> {"none", "ok", "failed"}]
      BY <1>1 DEF OpenLock
    <2>8. starts' \in [0..Phases - 1 -> Nat]
      BY <1>1 DEF OpenLock
    <2>9. QED
      BY <2>1, <2>2, <2>3, <2>4, <2>5, <2>6, <2>7, <2>8
  <1>2. ASSUME NEW q \in Runner, EnterGuard(q), UNCHANGED runVars PROVE TypeOK'
    <2>1. pc' \in [Runner -> Steps]
      <3> HIDE DEF Goto, TypeInv
      <3>1. \E x \in Steps : Goto(q, x)
        BY <1>2 DEF EnterGuard
      <3>2. QED
        BY <3>1, Moved DEF TypeInv
    <2>2. attempt' \in [Runner -> 0..Attempts] /\ entry' \in [Runner -> 0..Attempts]
      <3> HIDE DEF Goto
      <3>1. entry[q] < Attempts /\ entry \in [Runner -> 0..Attempts]
        BY <1>2 DEF EnterGuard
      <3>2. entry[q] + 1 \in 0..Attempts
        BY <3>1, CountUp
      <3>3. entry' = [entry EXCEPT ![q] = entry[q] + 1] /\ attempt' = attempt
        BY <1>2 DEF EnterGuard
      <3>4. QED
        BY <3>2, <3>3
    <2>3. /\ alive' \in SUBSET Runner
          /\ lock' \in Runner \cup {NoRunner}
          /\ guard' \in Runner \cup {NoRunner} /\ marker' \in Runner \cup {NoRunner}
      BY <1>2 DEF EnterGuard
    <2>4. /\ command' \in [Runner -> {"none", "running", "over"}]
          /\ seen' \in [Runner -> Runner \cup {NoRunner}]
      BY <1>2 DEF EnterGuard
    <2>5. /\ wrapper' \in [Runner -> WrapperSteps]
          /\ outcome' \in [Runner -> {"none", "exit", "bad"}]
          /\ auth' \in Runner \cup {NoRunner} /\ intent' \in Runner \cup {NoRunner}
          /\ canonical' \in BOOLEAN /\ projection' \in BOOLEAN /\ leftover' \in BOOLEAN
      BY <1>2 DEF EnterGuard
    <2>6. spool' \in 0..Phases /\ base' \in [Runner -> 0..Phases]
      BY <1>2 DEF EnterGuard
    <2>7. result' \in [Runner -> {"none", "ok", "failed"}]
      BY <1>2 DEF EnterGuard
    <2>8. starts' \in [0..Phases - 1 -> Nat]
      BY <1>2 DEF EnterGuard
    <2>9. QED
      BY <2>1, <2>2, <2>3, <2>4, <2>5, <2>6, <2>7, <2>8
  <1>3. ASSUME NEW q \in Runner, DropGuard(q), UNCHANGED runVars PROVE TypeOK'
    BY <1>3 DEF DropGuard
  <1>4. ASSUME NEW q \in Runner, Judge(q), UNCHANGED runVars PROVE TypeOK'
    <2>1. pc' \in [Runner -> Steps]
      <3> HIDE DEF Goto, TypeInv
      <3>1. \E x \in Steps : Goto(q, x)
        BY <1>4 DEF Judge
      <3>2. QED
        BY <3>1, Moved DEF TypeInv
    <2>2. attempt' \in [Runner -> 0..Attempts] /\ entry' \in [Runner -> 0..Attempts]
      BY <1>4 DEF Judge
    <2>3. /\ alive' \in SUBSET Runner
          /\ lock' \in Runner \cup {NoRunner}
          /\ guard' \in Runner \cup {NoRunner} /\ marker' \in Runner \cup {NoRunner}
      BY <1>4 DEF Judge
    <2>4. /\ command' \in [Runner -> {"none", "running", "over"}]
          /\ seen' \in [Runner -> Runner \cup {NoRunner}]
      BY <1>4 DEF Judge
    <2>5. /\ wrapper' \in [Runner -> WrapperSteps]
          /\ outcome' \in [Runner -> {"none", "exit", "bad"}]
          /\ auth' \in Runner \cup {NoRunner} /\ intent' \in Runner \cup {NoRunner}
          /\ canonical' \in BOOLEAN /\ projection' \in BOOLEAN /\ leftover' \in BOOLEAN
      BY <1>4 DEF Judge
    <2>6. spool' \in 0..Phases /\ base' \in [Runner -> 0..Phases]
      BY <1>4 DEF Judge
    <2>7. result' \in [Runner -> {"none", "ok", "failed"}]
      BY <1>4 DEF Judge
    <2>8. starts' \in [0..Phases - 1 -> Nat]
      BY <1>4 DEF Judge
    <2>9. QED
      BY <2>1, <2>2, <2>3, <2>4, <2>5, <2>6, <2>7, <2>8
  <1>5. ASSUME NEW q \in Runner, Verify(q), UNCHANGED runVars PROVE TypeOK'
    BY <1>5 DEF Verify
  <1>6. ASSUME NEW q \in Runner, Unlink(q), UNCHANGED runVars PROVE TypeOK'
    BY <1>6 DEF Unlink
  <1>7. ASSUME NEW q \in Runner, LeaveGuard(q), UNCHANGED runVars PROVE TypeOK'
    BY <1>7 DEF LeaveGuard
  <1>8. ASSUME NEW q \in Runner, ClearOrphan(q), UNCHANGED runVars PROVE TypeOK'
    BY <1>8 DEF ClearOrphan
  <1>9. ASSUME NEW q \in Runner, ReadOwnLock(q), UNCHANGED runVars PROVE TypeOK'
    BY <1>9 DEF ReadOwnLock
  <1>10. ASSUME NEW q \in Runner, RemoveLock(q), UNCHANGED runVars PROVE TypeOK'
    BY <1>10 DEF RemoveLock
  <1>11. ASSUME NEW q \in Runner, Inspect(q) PROVE TypeOK'
    <2>1. pc' \in [Runner -> Steps]
      <3> HIDE DEF Goto, TypeInv
      <3>1. \E x \in Steps : Goto(q, x)
        BY <1>11 DEF Inspect
      <3>2. QED
        BY <3>1, Moved DEF TypeInv
    <2>2. attempt' \in [Runner -> 0..Attempts] /\ entry' \in [Runner -> 0..Attempts]
      BY <1>11 DEF Inspect
    <2>3. /\ alive' \in SUBSET Runner
          /\ lock' \in Runner \cup {NoRunner}
          /\ guard' \in Runner \cup {NoRunner} /\ marker' \in Runner \cup {NoRunner}
      BY <1>11 DEF Inspect
    <2>4. /\ command' \in [Runner -> {"none", "running", "over"}]
          /\ seen' \in [Runner -> Runner \cup {NoRunner}]
      BY <1>11 DEF Inspect
    <2>5. /\ wrapper' \in [Runner -> WrapperSteps]
          /\ outcome' \in [Runner -> {"none", "exit", "bad"}]
          /\ auth' \in Runner \cup {NoRunner} /\ intent' \in Runner \cup {NoRunner}
          /\ canonical' \in BOOLEAN /\ projection' \in BOOLEAN /\ leftover' \in BOOLEAN
      BY <1>11 DEF Inspect
    <2>6. spool' \in 0..Phases /\ base' \in [Runner -> 0..Phases]
      BY <1>11 DEF Inspect
    <2>7. result' \in [Runner -> {"none", "ok", "failed"}]
      BY <1>11 DEF Inspect
    <2>8. starts' \in [0..Phases - 1 -> Nat]
      BY <1>11 DEF Inspect
    <2>9. QED
      BY <2>1, <2>2, <2>3, <2>4, <2>5, <2>6, <2>7, <2>8
  <1>12. ASSUME NEW q \in Runner, Authorize(q) PROVE TypeOK'
    <2>1. pc' \in [Runner -> Steps]
      <3> HIDE DEF Goto, TypeInv
      <3>1. \E x \in Steps : Goto(q, x)
        BY <1>12 DEF Authorize
      <3>2. QED
        BY <3>1, Moved DEF TypeInv
    <2>2. attempt' \in [Runner -> 0..Attempts] /\ entry' \in [Runner -> 0..Attempts]
      BY <1>12 DEF Authorize
    <2>3. /\ alive' \in SUBSET Runner
          /\ lock' \in Runner \cup {NoRunner}
          /\ guard' \in Runner \cup {NoRunner} /\ marker' \in Runner \cup {NoRunner}
      BY <1>12 DEF Authorize
    <2>4. /\ command' \in [Runner -> {"none", "running", "over"}]
          /\ seen' \in [Runner -> Runner \cup {NoRunner}]
      BY <1>12 DEF Authorize
    <2>5. /\ wrapper' \in [Runner -> WrapperSteps]
          /\ outcome' \in [Runner -> {"none", "exit", "bad"}]
          /\ auth' \in Runner \cup {NoRunner} /\ intent' \in Runner \cup {NoRunner}
          /\ canonical' \in BOOLEAN /\ projection' \in BOOLEAN /\ leftover' \in BOOLEAN
      BY <1>12 DEF Authorize
    <2>6. spool' \in 0..Phases /\ base' \in [Runner -> 0..Phases]
      BY <1>12 DEF Authorize
    <2>7. result' \in [Runner -> {"none", "ok", "failed"}]
      BY <1>12 DEF Authorize
    <2>8. starts' \in [0..Phases - 1 -> Nat]
      BY <1>12 DEF Authorize
    <2>9. QED
      BY <2>1, <2>2, <2>3, <2>4, <2>5, <2>6, <2>7, <2>8
  <1>13. ASSUME NEW q \in Runner, WriteIntent(q) PROVE TypeOK'
    <2>1. pc' \in [Runner -> Steps]
      <3> HIDE DEF Goto, TypeInv
      <3>1. \E x \in Steps : Goto(q, x)
        BY <1>13 DEF WriteIntent
      <3>2. QED
        BY <3>1, Moved DEF TypeInv
    <2>2. attempt' \in [Runner -> 0..Attempts] /\ entry' \in [Runner -> 0..Attempts]
      BY <1>13 DEF WriteIntent
    <2>3. /\ alive' \in SUBSET Runner
          /\ lock' \in Runner \cup {NoRunner}
          /\ guard' \in Runner \cup {NoRunner} /\ marker' \in Runner \cup {NoRunner}
      BY <1>13 DEF WriteIntent
    <2>4. /\ command' \in [Runner -> {"none", "running", "over"}]
          /\ seen' \in [Runner -> Runner \cup {NoRunner}]
      BY <1>13 DEF WriteIntent
    <2>5. /\ wrapper' \in [Runner -> WrapperSteps]
          /\ outcome' \in [Runner -> {"none", "exit", "bad"}]
          /\ auth' \in Runner \cup {NoRunner} /\ intent' \in Runner \cup {NoRunner}
          /\ canonical' \in BOOLEAN /\ projection' \in BOOLEAN /\ leftover' \in BOOLEAN
      BY <1>13 DEF WriteIntent
    <2>6. spool' \in 0..Phases /\ base' \in [Runner -> 0..Phases]
      BY <1>13 DEF WriteIntent
    <2>7. result' \in [Runner -> {"none", "ok", "failed"}]
      BY <1>13 DEF WriteIntent
    <2>8. starts' \in [0..Phases - 1 -> Nat]
      BY <1>13 DEF WriteIntent
    <2>9. QED
      BY <2>1, <2>2, <2>3, <2>4, <2>5, <2>6, <2>7, <2>8
  <1>14. ASSUME NEW q \in Runner, Spawn(q) PROVE TypeOK'
    BY <1>14 DEF Spawn
  <1>15. ASSUME NEW q \in Runner, Collect(q) PROVE TypeOK'
    <2>1. pc' \in [Runner -> Steps]
      <3> HIDE DEF Goto, TypeInv
      <3>1. \E x \in Steps : Goto(q, x)
        BY <1>15 DEF Collect
      <3>2. QED
        BY <3>1, Moved DEF TypeInv
    <2>2. attempt' \in [Runner -> 0..Attempts] /\ entry' \in [Runner -> 0..Attempts]
      BY <1>15 DEF Collect
    <2>3. /\ alive' \in SUBSET Runner
          /\ lock' \in Runner \cup {NoRunner}
          /\ guard' \in Runner \cup {NoRunner} /\ marker' \in Runner \cup {NoRunner}
      BY <1>15 DEF Collect
    <2>4. /\ command' \in [Runner -> {"none", "running", "over"}]
          /\ seen' \in [Runner -> Runner \cup {NoRunner}]
      BY <1>15 DEF Collect
    <2>5. /\ wrapper' \in [Runner -> WrapperSteps]
          /\ outcome' \in [Runner -> {"none", "exit", "bad"}]
          /\ auth' \in Runner \cup {NoRunner} /\ intent' \in Runner \cup {NoRunner}
          /\ canonical' \in BOOLEAN /\ projection' \in BOOLEAN /\ leftover' \in BOOLEAN
      BY <1>15 DEF Collect
    <2>6. spool' \in 0..Phases /\ base' \in [Runner -> 0..Phases]
      BY <1>15 DEF Collect
    <2>7. result' \in [Runner -> {"none", "ok", "failed"}]
      BY <1>15 DEF Collect
    <2>8. starts' \in [0..Phases - 1 -> Nat]
      BY <1>15 DEF Collect
    <2>9. QED
      BY <2>1, <2>2, <2>3, <2>4, <2>5, <2>6, <2>7, <2>8
  <1>16. ASSUME NEW q \in Runner, PublishSpool(q) PROVE TypeOK'
    <2>1. pc' \in [Runner -> Steps]
      <3> HIDE DEF Goto, TypeInv
      <3>1. \E x \in Steps : Goto(q, x)
        BY <1>16 DEF PublishSpool
      <3>2. QED
        BY <3>1, Moved DEF TypeInv
    <2>2. attempt' \in [Runner -> 0..Attempts] /\ entry' \in [Runner -> 0..Attempts]
      BY <1>16 DEF PublishSpool
    <2>3. /\ alive' \in SUBSET Runner
          /\ lock' \in Runner \cup {NoRunner}
          /\ guard' \in Runner \cup {NoRunner} /\ marker' \in Runner \cup {NoRunner}
      BY <1>16 DEF PublishSpool
    <2>4. /\ command' \in [Runner -> {"none", "running", "over"}]
          /\ seen' \in [Runner -> Runner \cup {NoRunner}]
      BY <1>16 DEF PublishSpool
    <2>5. /\ wrapper' \in [Runner -> WrapperSteps]
          /\ outcome' \in [Runner -> {"none", "exit", "bad"}]
          /\ auth' \in Runner \cup {NoRunner} /\ intent' \in Runner \cup {NoRunner}
          /\ canonical' \in BOOLEAN /\ projection' \in BOOLEAN /\ leftover' \in BOOLEAN
      BY <1>16 DEF PublishSpool
    <2>6. spool' \in 0..Phases /\ base' \in [Runner -> 0..Phases]
      BY <1>16 DEF PublishSpool
    <2>7. result' \in [Runner -> {"none", "ok", "failed"}]
      BY <1>16 DEF PublishSpool
    <2>8. starts' \in [0..Phases - 1 -> Nat]
      BY <1>16 DEF PublishSpool
    <2>9. QED
      BY <2>1, <2>2, <2>3, <2>4, <2>5, <2>6, <2>7, <2>8
  <1>17. ASSUME NEW q \in Runner, PublishCanonical(q) PROVE TypeOK'
    <2>1. pc' \in [Runner -> Steps]
      <3> HIDE DEF Goto, TypeInv
      <3>1. \E x \in Steps : Goto(q, x)
        BY <1>17 DEF PublishCanonical
      <3>2. QED
        BY <3>1, Moved DEF TypeInv
    <2>2. attempt' \in [Runner -> 0..Attempts] /\ entry' \in [Runner -> 0..Attempts]
      BY <1>17 DEF PublishCanonical
    <2>3. /\ alive' \in SUBSET Runner
          /\ lock' \in Runner \cup {NoRunner}
          /\ guard' \in Runner \cup {NoRunner} /\ marker' \in Runner \cup {NoRunner}
      BY <1>17 DEF PublishCanonical
    <2>4. /\ command' \in [Runner -> {"none", "running", "over"}]
          /\ seen' \in [Runner -> Runner \cup {NoRunner}]
      BY <1>17 DEF PublishCanonical
    <2>5. /\ wrapper' \in [Runner -> WrapperSteps]
          /\ outcome' \in [Runner -> {"none", "exit", "bad"}]
          /\ auth' \in Runner \cup {NoRunner} /\ intent' \in Runner \cup {NoRunner}
          /\ canonical' \in BOOLEAN /\ projection' \in BOOLEAN /\ leftover' \in BOOLEAN
      BY <1>17 DEF PublishCanonical
    <2>6. spool' \in 0..Phases /\ base' \in [Runner -> 0..Phases]
      BY <1>17 DEF PublishCanonical
    <2>7. result' \in [Runner -> {"none", "ok", "failed"}]
      BY <1>17 DEF PublishCanonical
    <2>8. starts' \in [0..Phases - 1 -> Nat]
      BY <1>17 DEF PublishCanonical
    <2>9. QED
      BY <2>1, <2>2, <2>3, <2>4, <2>5, <2>6, <2>7, <2>8
  <1>18. ASSUME NEW q \in Runner, PublishProjection(q) PROVE TypeOK'
    <2>1. pc' \in [Runner -> Steps]
      <3> HIDE DEF Goto, TypeInv
      <3>1. \E x \in Steps : Goto(q, x)
        BY <1>18 DEF PublishProjection
      <3>2. QED
        BY <3>1, Moved DEF TypeInv
    <2>2. attempt' \in [Runner -> 0..Attempts] /\ entry' \in [Runner -> 0..Attempts]
      BY <1>18 DEF PublishProjection
    <2>3. /\ alive' \in SUBSET Runner
          /\ lock' \in Runner \cup {NoRunner}
          /\ guard' \in Runner \cup {NoRunner} /\ marker' \in Runner \cup {NoRunner}
      BY <1>18 DEF PublishProjection
    <2>4. /\ command' \in [Runner -> {"none", "running", "over"}]
          /\ seen' \in [Runner -> Runner \cup {NoRunner}]
      BY <1>18 DEF PublishProjection
    <2>5. /\ wrapper' \in [Runner -> WrapperSteps]
          /\ outcome' \in [Runner -> {"none", "exit", "bad"}]
          /\ auth' \in Runner \cup {NoRunner} /\ intent' \in Runner \cup {NoRunner}
          /\ canonical' \in BOOLEAN /\ projection' \in BOOLEAN /\ leftover' \in BOOLEAN
      BY <1>18 DEF PublishProjection
    <2>6. spool' \in 0..Phases /\ base' \in [Runner -> 0..Phases]
      BY <1>18 DEF PublishProjection
    <2>7. result' \in [Runner -> {"none", "ok", "failed"}]
      BY <1>18 DEF PublishProjection
    <2>8. starts' \in [0..Phases - 1 -> Nat]
      BY <1>18 DEF PublishProjection
    <2>9. QED
      BY <2>1, <2>2, <2>3, <2>4, <2>5, <2>6, <2>7, <2>8
  <1>19. ASSUME NEW q \in Runner, Settle(q) PROVE TypeOK'
    <2>1. pc' \in [Runner -> Steps]
      <3> HIDE DEF Goto, TypeInv
      <3>1. \E x \in Steps : Goto(q, x)
        BY <1>19 DEF Settle
      <3>2. QED
        BY <3>1, Moved DEF TypeInv
    <2>2. attempt' \in [Runner -> 0..Attempts] /\ entry' \in [Runner -> 0..Attempts]
      BY <1>19 DEF Settle
    <2>3. /\ alive' \in SUBSET Runner
          /\ lock' \in Runner \cup {NoRunner}
          /\ guard' \in Runner \cup {NoRunner} /\ marker' \in Runner \cup {NoRunner}
      BY <1>19 DEF Settle
    <2>4. /\ command' \in [Runner -> {"none", "running", "over"}]
          /\ seen' \in [Runner -> Runner \cup {NoRunner}]
      BY <1>19 DEF Settle
    <2>5. /\ wrapper' \in [Runner -> WrapperSteps]
          /\ outcome' \in [Runner -> {"none", "exit", "bad"}]
          /\ auth' \in Runner \cup {NoRunner} /\ intent' \in Runner \cup {NoRunner}
          /\ canonical' \in BOOLEAN /\ projection' \in BOOLEAN /\ leftover' \in BOOLEAN
      BY <1>19 DEF Settle
    <2>6. spool' \in 0..Phases /\ base' \in [Runner -> 0..Phases]
      BY <1>19 DEF Settle
    <2>7. result' \in [Runner -> {"none", "ok", "failed"}]
      BY <1>19 DEF Settle
    <2>8. starts' \in [0..Phases - 1 -> Nat]
      BY <1>19 DEF Settle
    <2>9. QED
      BY <2>1, <2>2, <2>3, <2>4, <2>5, <2>6, <2>7, <2>8
  <1>20. ASSUME NEW q \in Runner, ClearIntent(q) PROVE TypeOK'
    BY <1>20 DEF ClearIntent
  <1>21. ASSUME NEW q \in Runner, UndoProjection(q) PROVE TypeOK'
    BY <1>21 DEF UndoProjection
  <1>22. ASSUME NEW q \in Runner, UndoCanonical(q) PROVE TypeOK'
    BY <1>22 DEF UndoCanonical
  <1>23. ASSUME NEW q \in Runner, UndoSpool(q) PROVE TypeOK'
    <2>1. spool' \in 0..Phases /\ leftover' \in BOOLEAN
      <3>1. base[q] \in 0..Phases /\ spool \in 0..Phases /\ leftover \in BOOLEAN
        OBVIOUS
      <3>2. spool' \in {spool, base[q]} /\ leftover' \in {leftover, TRUE}
        BY <1>23 DEF UndoSpool
      <3> HIDE DEF TypeInv
      <3>3. QED
        BY <3>1, <3>2
    <2>2. pc' \in [Runner -> Steps] /\ result' \in [Runner -> {"none", "ok", "failed"}]
      BY <1>23 DEF UndoSpool
    <2>3. UNCHANGED <<fileLock, supervised, auth, intent, canonical, projection, base>>
      BY <1>23 DEF UndoSpool
    <2>4. QED
      BY <2>1, <2>2, <2>3
  <1>24. ASSUME NEW q \in Runner, StartCommand(q) PROVE TypeOK'
    <2>1. /\ wrapper' \in [Runner -> WrapperSteps]
          /\ UNCHANGED <<fileLock, pc, auth, intent, result, receipts, marker>>
      <3>1. wrapper' = [wrapper EXCEPT ![q] = "check"] \/ wrapper' = [wrapper EXCEPT ![q] = "ended"]
        BY <1>24 DEF StartCommand
      <3>2. wrapper' \in [Runner -> WrapperSteps]
        <4>1. wrapper \in [Runner -> WrapperSteps]
          BY DEF TypeInv
        <4>2. "check" \in WrapperSteps /\ "ended" \in WrapperSteps
          BY DEF WrapperSteps
        <4> HIDE DEF TypeInv
        <4>3. QED
          BY <3>1, <4>1, <4>2
      <3>3. UNCHANGED <<fileLock, pc, auth, intent, result, receipts, marker>>
        BY <1>24 DEF StartCommand
      <3>4. QED
        BY <3>2, <3>3
    <2>2. command' \in [Runner -> {"none", "running", "over"}]
      <3>1. command' = command \/ command' = [command EXCEPT ![q] = "running"]
        BY <1>24 DEF StartCommand
      <3>2. QED
        <4>1. command \in [Runner -> {"none", "running", "over"}]
          BY DEF TypeInv
        <4> HIDE DEF TypeInv
        <4>2. QED
          BY <3>1, <4>1
    <2>3. outcome' \in [Runner -> {"none", "exit", "bad"}]
      BY <1>24 DEF StartCommand
    <2>4. starts' \in [0..Phases - 1 -> Nat]
      <3>1. wrapper[q] = "start"
        BY <1>24 DEF StartCommand
      <3>2. base[q] \in 0..Phases - 1
        BY <3>1
      <3>3. starts' = starts \/ starts' = [starts EXCEPT ![base[q]] = starts[base[q]] + 1]
        BY <1>24 DEF StartCommand
      <3>4. starts \in [0..Phases - 1 -> Nat] /\ starts[base[q]] + 1 \in Nat
        BY <3>2
      <3>5. QED
        <4> HIDE DEF TypeInv
        <4>1. QED
          BY <3>2, <3>3, <3>4
    <2>5. QED
      BY <2>1, <2>2, <2>3, <2>4
  <1>25. ASSUME NEW q \in Runner, CheckLock(q) PROVE TypeOK'
    BY <1>25 DEF CheckLock
  <1>26. ASSUME NEW q \in Runner, RecordChild(q) PROVE TypeOK'
    BY <1>26 DEF RecordChild
  <1>27. ASSUME NEW q \in Runner, CommandEnds(q) PROVE TypeOK'
    BY <1>27 DEF CommandEnds
  <1>28. ASSUME NEW q \in Runner, EndWrapper(q) PROVE TypeOK'
    BY <1>28 DEF EndWrapper
  <1>29. ASSUME NEW q \in Runner, Crash(q) PROVE TypeOK'
    BY <1>29 DEF Crash
  <1>30. ASSUME NEW q \in Runner, CrashWrapper(q) PROVE TypeOK'
    BY <1>30 DEF CrashWrapper
  <1>31. CASE UNCHANGED vars
    BY <1>31 DEF vars
  <1>32. QED
    BY <1>1, <1>2, <1>3, <1>4, <1>5, <1>6, <1>7, <1>8, <1>9, <1>10, <1>11, <1>12, <1>13, <1>14,
       <1>15, <1>16, <1>17, <1>18, <1>19, <1>20, <1>21, <1>22, <1>23, <1>24, <1>25, <1>26, <1>27,
       <1>28, <1>29, <1>30, <1>31 DEF Next, LockStep, RunStep, WrapperStep

LEMMA TypeStep == TypeInv /\ [Next]_vars => TypeInv'
  <1> SUFFICES ASSUME TypeInv, [Next]_vars, TypeOK' PROVE TypeInv'
    BY TypeOKStep
  <1> USE DEF TypeInv, TypeOK, LockTypeOK, Attempts, BeforeSpawn, AcquireSteps, GuardSteps,
          At, Goto, Leave, Wrapped, Extended, lockVars, runVars, fileLock, supervised, receipts
  <1>1. ASSUME NEW q \in Runner, OpenLock(q), UNCHANGED runVars PROVE TypeInv'
    BY <1>1 DEF OpenLock
  <1>2. ASSUME NEW q \in Runner, EnterGuard(q), UNCHANGED runVars PROVE TypeInv'
    BY <1>2 DEF EnterGuard
  <1>3. ASSUME NEW q \in Runner, DropGuard(q), UNCHANGED runVars PROVE TypeInv'
    BY <1>3 DEF DropGuard
  <1>4. ASSUME NEW q \in Runner, Judge(q), UNCHANGED runVars PROVE TypeInv'
    BY <1>4 DEF Judge
  <1>5. ASSUME NEW q \in Runner, Verify(q), UNCHANGED runVars PROVE TypeInv'
    BY <1>5 DEF Verify
  <1>6. ASSUME NEW q \in Runner, Unlink(q), UNCHANGED runVars PROVE TypeInv'
    BY <1>6 DEF Unlink
  <1>7. ASSUME NEW q \in Runner, LeaveGuard(q), UNCHANGED runVars PROVE TypeInv'
    BY <1>7 DEF LeaveGuard
  <1>8. ASSUME NEW q \in Runner, ClearOrphan(q), UNCHANGED runVars PROVE TypeInv'
    BY <1>8 DEF ClearOrphan
  <1>9. ASSUME NEW q \in Runner, ReadOwnLock(q), UNCHANGED runVars PROVE TypeInv'
    BY <1>9 DEF ReadOwnLock
  <1>10. ASSUME NEW q \in Runner, RemoveLock(q), UNCHANGED runVars PROVE TypeInv'
    BY <1>10 DEF RemoveLock
  <1>11. ASSUME NEW q \in Runner, Inspect(q) PROVE TypeInv'
    BY <1>11 DEF Inspect
  <1>12. ASSUME NEW q \in Runner, Authorize(q) PROVE TypeInv'
    BY <1>12 DEF Authorize
  <1>13. ASSUME NEW q \in Runner, WriteIntent(q) PROVE TypeInv'
    BY <1>13 DEF WriteIntent
  <1>14. ASSUME NEW q \in Runner, Spawn(q) PROVE TypeInv'
    BY <1>14 DEF Spawn
  <1>15. ASSUME NEW q \in Runner, Collect(q) PROVE TypeInv'
    BY <1>15 DEF Collect
  <1>16. ASSUME NEW q \in Runner, PublishSpool(q) PROVE TypeInv'
    BY <1>16 DEF PublishSpool
  <1>17. ASSUME NEW q \in Runner, PublishCanonical(q) PROVE TypeInv'
    BY <1>17 DEF PublishCanonical
  <1>18. ASSUME NEW q \in Runner, PublishProjection(q) PROVE TypeInv'
    BY <1>18 DEF PublishProjection
  <1>19. ASSUME NEW q \in Runner, Settle(q) PROVE TypeInv'
    BY <1>19 DEF Settle
  <1>20. ASSUME NEW q \in Runner, ClearIntent(q) PROVE TypeInv'
    BY <1>20 DEF ClearIntent
  <1>21. ASSUME NEW q \in Runner, UndoProjection(q) PROVE TypeInv'
    BY <1>21 DEF UndoProjection
  <1>22. ASSUME NEW q \in Runner, UndoCanonical(q) PROVE TypeInv'
    BY <1>22 DEF UndoCanonical
  <1>23. ASSUME NEW q \in Runner, UndoSpool(q) PROVE TypeInv'
    BY <1>23 DEF UndoSpool
  <1>24. ASSUME NEW q \in Runner, StartCommand(q) PROVE TypeInv'
    BY <1>24 DEF StartCommand
  <1>25. ASSUME NEW q \in Runner, CheckLock(q) PROVE TypeInv'
    BY <1>25 DEF CheckLock
  <1>26. ASSUME NEW q \in Runner, RecordChild(q) PROVE TypeInv'
    BY <1>26 DEF RecordChild
  <1>27. ASSUME NEW q \in Runner, CommandEnds(q) PROVE TypeInv'
    BY <1>27 DEF CommandEnds
  <1>28. ASSUME NEW q \in Runner, EndWrapper(q) PROVE TypeInv'
    BY <1>28 DEF EndWrapper
  <1>29. ASSUME NEW q \in Runner, Crash(q) PROVE TypeInv'
    BY <1>29 DEF Crash
  <1>30. ASSUME NEW q \in Runner, CrashWrapper(q) PROVE TypeInv'
    BY <1>30 DEF CrashWrapper
  <1>31. CASE UNCHANGED vars
    BY <1>31 DEF vars
  <1>32. QED
    BY <1>1, <1>2, <1>3, <1>4, <1>5, <1>6, <1>7, <1>8, <1>9, <1>10, <1>11, <1>12, <1>13, <1>14,
       <1>15, <1>16, <1>17, <1>18, <1>19, <1>20, <1>21, <1>22, <1>23, <1>24, <1>25, <1>26, <1>27,
       <1>28, <1>29, <1>30, <1>31 DEF Next, LockStep, RunStep, WrapperStep

\* Every reachable state of lock, runners, wrappers and receipts is well typed,
\* whoever dies when: no attempt is counted beyond its bound.
THEOREM TypeCorrect == Spec => []TypeOK
  <1>1. Spec => []TypeInv
    BY TypeInit, TypeStep, PTL DEF Spec
  <1>2. TypeInv => TypeOK
    BY DEF TypeInv
  <1>3. QED
    BY <1>1, <1>2, PTL

(***************************************************************************)
(* The lock.  A runner in the critical section is named by the lock file.  *)
(* A runner in the recovery guard is named by the guard file, unless the   *)
(* one that has died did so in the guard; but then it did not die with the *)
(* lock, and no lock is ever recovered.                                    *)
(***************************************************************************)
GuardBroken == \E m \in Runner \ alive : pc[m] \in GuardSteps

LockInv ==
    /\ Runner \ alive \subseteq Mortal
    /\ \A r \in Runner : lock = r => pc[r] \in CriticalSteps
    /\ \A r \in alive : pc[r] \in CriticalSteps => lock = r
    /\ \A r \in Runner : guard = r => pc[r] \in GuardSteps
    /\ \A r \in alive : pc[r] \in GuardSteps => guard = r \/ GuardBroken
    /\ \A r \in alive : pc[r] = "dropGuard" => GuardBroken
    /\ \A r \in alive : pc[r] \in {"verify", "unlink"} =>
           /\ seen[r] \in Runner \ alive
           /\ pc[seen[r]] \in CriticalSteps
    /\ \A r \in alive : pc[r] = "unlink" => lock = seen[r]

LEMMA LockInit0 == Init => LockInv
  BY RunnerAssumption DEF Init, LockInit, LockInv, GuardBroken, AcquireSteps, GuardSteps,
     CriticalSteps, RunSteps

LEMMA BrokenKept ==
    ASSUME TypeOK, NEW q \in Runner, q \in alive, alive' = alive,
           NEW x \in Steps, pc' = [pc EXCEPT ![q] = x]
    PROVE  /\ GuardBroken' = GuardBroken
           /\ \A r \in Runner : r # q => pc'[r] = pc[r]
           /\ pc'[q] = x
  BY DEF TypeOK, LockTypeOK, GuardBroken

\* A step of a runner inside its critical section.
LEMMA LockKept ==
    ASSUME TypeOK, LockInv, UNCHANGED <<alive, lock, guard, seen>>,
           NEW q \in Runner, q \in alive, pc[q] \in CriticalSteps,
           NEW x \in CriticalSteps, pc' = [pc EXCEPT ![q] = x]
    PROVE  LockInv'
  <1> USE DEF TypeOK, LockTypeOK, LockInv, GuardBroken, GuardSteps, CriticalSteps, RunSteps
  <1>0. GuardBroken' = GuardBroken /\ \A r \in Runner : r # q => pc'[r] = pc[r]
    <2>1. x \in Steps
      BY DEF Steps
    <2> HIDE DEF TypeOK, LockInv, GuardBroken, CriticalSteps, RunSteps
    <2>2. QED
      BY <2>1, BrokenKept
  <1> HIDE DEF GuardBroken
  <1>1. /\ Runner \ alive' \subseteq Mortal
        /\ \A r \in Runner : lock' = r => pc'[r] \in CriticalSteps
        /\ \A r \in alive' : pc'[r] \in CriticalSteps => lock' = r
    OBVIOUS
  <1>2. /\ \A r \in Runner : guard' = r => pc'[r] \in GuardSteps
        /\ \A r \in alive' : pc'[r] = "dropGuard" => GuardBroken'
    BY <1>0
  <1>3. \A r \in alive' : pc'[r] \in GuardSteps => guard' = r \/ GuardBroken'
    BY <1>0
  <1>4. /\ \A r \in alive' : pc'[r] \in {"verify", "unlink"} =>
             seen'[r] \in Runner \ alive' /\ pc'[seen'[r]] \in CriticalSteps
        /\ \A r \in alive' : pc'[r] = "unlink" => lock' = seen'[r]
    BY <1>0
  <1>5. QED
    BY <1>1, <1>2, <1>3, <1>4

LEMMA LockInvStep == OneMortal /\ TypeInv /\ LockInv /\ [Next]_vars => LockInv'
  <1> SUFFICES ASSUME OneMortal, TypeOK, TypeOK', LockInv, [Next]_vars PROVE LockInv'
    BY TypeStep DEF TypeInv
  <1> USE RunnerAssumption DEF OneMortal, TypeOK, LockTypeOK, LockInv, GuardBroken, GuardSteps,
         CriticalSteps, RunSteps, At,
          Goto, Leave, Wrapped, Gone, CanRecover, lockVars, runVars, fileLock, supervised, receipts
  <1>1. ASSUME NEW q \in Runner, OpenLock(q), UNCHANGED runVars PROVE LockInv'
    <2>1. q \in alive /\ alive' = alive /\ \E x \in Steps : pc' = [pc EXCEPT ![q] = x]
      BY <1>1, StepNames DEF OpenLock, Attempts
    <2>2. /\ GuardBroken' = GuardBroken
          /\ \A r \in Runner : r # q => pc'[r] = pc[r]
      <3> HIDE DEF LockInv, TypeOK, GuardBroken
      <3>1. QED
        BY <2>1, BrokenKept
    <2> HIDE DEF GuardBroken
    <2>3. Runner \ alive' \subseteq Mortal
      <3>1. CASE lock = NoRunner
        BY <1>1, <2>1, <2>2, <3>1 DEF OpenLock
      <3>2. CASE lock # NoRunner
        BY <1>1, <2>1, <2>2, <3>2 DEF OpenLock
      <3>3. QED
        BY <1>1, <3>1, <3>2 DEF OpenLock
    <2>4. \A r \in Runner : lock' = r => pc'[r] \in CriticalSteps
      <3>1. CASE lock = NoRunner
        BY <1>1, <2>1, <2>2, <3>1 DEF OpenLock
      <3>2. CASE lock # NoRunner
        BY <1>1, <2>1, <2>2, <3>2 DEF OpenLock
      <3>3. QED
        BY <1>1, <3>1, <3>2 DEF OpenLock
    <2>5. \A r \in alive' : pc'[r] \in CriticalSteps => lock' = r
      <3>1. CASE lock = NoRunner
        BY <1>1, <2>1, <2>2, <3>1 DEF OpenLock
      <3>2. CASE lock # NoRunner
        BY <1>1, <2>1, <2>2, <3>2 DEF OpenLock
      <3>3. QED
        BY <1>1, <3>1, <3>2 DEF OpenLock
    <2>6. \A r \in Runner : guard' = r => pc'[r] \in GuardSteps
      <3>1. CASE lock = NoRunner
        BY <1>1, <2>1, <2>2, <3>1 DEF OpenLock
      <3>2. CASE lock # NoRunner
        BY <1>1, <2>1, <2>2, <3>2 DEF OpenLock
      <3>3. QED
        BY <1>1, <3>1, <3>2 DEF OpenLock
    <2>7. \A r \in alive' : pc'[r] \in GuardSteps => guard' = r \/ GuardBroken'
      <3>1. CASE lock = NoRunner
        BY <1>1, <2>1, <2>2, <3>1 DEF OpenLock
      <3>2. CASE lock # NoRunner
        BY <1>1, <2>1, <2>2, <3>2 DEF OpenLock
      <3>3. QED
        BY <1>1, <3>1, <3>2 DEF OpenLock
    <2>8. \A r \in alive' : pc'[r] = "dropGuard" => GuardBroken'
      <3>1. CASE lock = NoRunner
        BY <1>1, <2>1, <2>2, <3>1 DEF OpenLock
      <3>2. CASE lock # NoRunner
        BY <1>1, <2>1, <2>2, <3>2 DEF OpenLock
      <3>3. QED
        BY <1>1, <3>1, <3>2 DEF OpenLock
    <2>9. \A r \in alive' : pc'[r] \in {"verify", "unlink"} =>
              seen'[r] \in Runner \ alive' /\ pc'[seen'[r]] \in CriticalSteps
      <3> SUFFICES ASSUME NEW r \in alive', pc'[r] \in {"verify", "unlink"}
                   PROVE  seen'[r] \in Runner \ alive' /\ pc'[seen'[r]] \in CriticalSteps
        OBVIOUS
      <3>1. CASE r # q
        <4>1. pc[r] = pc'[r] /\ seen'[r] = seen[r]
          BY <1>1, <2>1, <2>2, <3>1 DEF OpenLock
        <4>2. seen[r] \in Runner \ alive /\ pc[seen[r]] \in CriticalSteps
          BY <2>1, <4>1
        <4>3. QED
          BY <2>1, <2>2, <4>1, <4>2
      <3>2. CASE r = q
        BY <1>1, <2>1, <2>2, <3>2 DEF OpenLock
      <3>3. QED
        BY <3>1, <3>2
    <2>10. \A r \in alive' : pc'[r] = "unlink" => lock' = seen'[r]
      <3> SUFFICES ASSUME NEW r \in alive', pc'[r] = "unlink" PROVE lock' = seen'[r]
        OBVIOUS
      <3>1. CASE r # q
        <4>1. pc[r] = "unlink" /\ seen'[r] = seen[r] /\ lock = seen[r] /\ lock \in Runner
          BY <1>1, <2>1, <2>2, <3>1 DEF OpenLock
        <4>2. QED
          BY <1>1, <4>1 DEF OpenLock
      <3>2. CASE r = q
        BY <1>1, <2>1, <2>2, <3>2 DEF OpenLock
      <3>3. QED
        BY <3>1, <3>2
    <2>11. QED
      BY <2>3, <2>4, <2>5, <2>6, <2>7, <2>8, <2>9, <2>10
  <1>2. ASSUME NEW q \in Runner, EnterGuard(q), UNCHANGED runVars PROVE LockInv'
    <2>1. q \in alive /\ alive' = alive /\ \E x \in Steps : pc' = [pc EXCEPT ![q] = x]
      BY <1>2, StepNames DEF EnterGuard, Attempts
    <2>2. /\ GuardBroken' = GuardBroken
          /\ \A r \in Runner : r # q => pc'[r] = pc[r]
      <3> HIDE DEF LockInv, TypeOK, GuardBroken
      <3>1. QED
        BY <2>1, BrokenKept
    <2>0. /\ pc'[q] \in {"judge", "dropGuard", "over"}
          /\ UNCHANGED <<lock, seen>>
          /\ pc'[q] = "dropGuard" => GuardBroken
      <3>1. \/ pc' = [pc EXCEPT ![q] = "judge"]
            \/ pc' = [pc EXCEPT ![q] = "dropGuard"] /\ guard # NoRunner /\ Gone(guard)
            \/ pc' = [pc EXCEPT ![q] = "over"]
        BY <1>2 DEF EnterGuard
      <3>2. guard # NoRunner /\ Gone(guard) => GuardBroken
        BY DEF Gone
      <3>3. QED
        BY <1>2, <3>1, <3>2 DEF EnterGuard
    <2> HIDE DEF GuardBroken
    <2>3. Runner \ alive' \subseteq Mortal
      <3>1. CASE guard = NoRunner
        BY <1>2, <2>1, <2>2, <3>1 DEF EnterGuard
      <3>2. CASE guard # NoRunner /\ pc'[q] = "dropGuard"
        BY <1>2, <2>0, <2>1, <2>2, <3>2 DEF EnterGuard
      <3>3. CASE guard # NoRunner /\ pc'[q] = "over"
        BY <1>2, <2>1, <2>2, <3>3 DEF EnterGuard
      <3>4. QED
        BY <1>2, <3>1, <3>2, <3>3 DEF EnterGuard
    <2>4. \A r \in Runner : lock' = r => pc'[r] \in CriticalSteps
      <3>1. CASE guard = NoRunner
        BY <1>2, <2>1, <2>2, <3>1 DEF EnterGuard
      <3>2. CASE guard # NoRunner /\ pc'[q] = "dropGuard"
        BY <1>2, <2>0, <2>1, <2>2, <3>2 DEF EnterGuard
      <3>3. CASE guard # NoRunner /\ pc'[q] = "over"
        BY <1>2, <2>1, <2>2, <3>3 DEF EnterGuard
      <3>4. QED
        BY <1>2, <3>1, <3>2, <3>3 DEF EnterGuard
    <2>5. \A r \in alive' : pc'[r] \in CriticalSteps => lock' = r
      <3>1. CASE guard = NoRunner
        BY <1>2, <2>1, <2>2, <3>1 DEF EnterGuard
      <3>2. CASE guard # NoRunner /\ pc'[q] = "dropGuard"
        BY <1>2, <2>0, <2>1, <2>2, <3>2 DEF EnterGuard
      <3>3. CASE guard # NoRunner /\ pc'[q] = "over"
        BY <1>2, <2>1, <2>2, <3>3 DEF EnterGuard
      <3>4. QED
        BY <1>2, <3>1, <3>2, <3>3 DEF EnterGuard
    <2>6. \A r \in Runner : guard' = r => pc'[r] \in GuardSteps
      <3>1. CASE guard = NoRunner
        BY <1>2, <2>1, <2>2, <3>1 DEF EnterGuard
      <3>2. CASE guard # NoRunner /\ pc'[q] = "dropGuard"
        BY <1>2, <2>0, <2>1, <2>2, <3>2 DEF EnterGuard
      <3>3. CASE guard # NoRunner /\ pc'[q] = "over"
        BY <1>2, <2>1, <2>2, <3>3 DEF EnterGuard
      <3>4. QED
        BY <1>2, <3>1, <3>2, <3>3 DEF EnterGuard
    <2>7. \A r \in alive' : pc'[r] \in GuardSteps => guard' = r \/ GuardBroken'
      <3>1. CASE guard = NoRunner
        BY <1>2, <2>1, <2>2, <3>1 DEF EnterGuard
      <3>2. CASE guard # NoRunner /\ pc'[q] = "dropGuard"
        BY <1>2, <2>0, <2>1, <2>2, <3>2 DEF EnterGuard
      <3>3. CASE guard # NoRunner /\ pc'[q] = "over"
        BY <1>2, <2>1, <2>2, <3>3 DEF EnterGuard
      <3>4. QED
        BY <1>2, <3>1, <3>2, <3>3 DEF EnterGuard
    <2>8. \A r \in alive' : pc'[r] = "dropGuard" => GuardBroken'
      <3>1. CASE guard = NoRunner
        BY <1>2, <2>1, <2>2, <3>1 DEF EnterGuard
      <3>2. CASE guard # NoRunner /\ pc'[q] = "dropGuard"
        BY <1>2, <2>0, <2>1, <2>2, <3>2 DEF EnterGuard
      <3>3. CASE guard # NoRunner /\ pc'[q] = "over"
        BY <1>2, <2>1, <2>2, <3>3 DEF EnterGuard
      <3>4. QED
        BY <1>2, <3>1, <3>2, <3>3 DEF EnterGuard
    <2>9. \A r \in alive' : pc'[r] \in {"verify", "unlink"} =>
              seen'[r] \in Runner \ alive' /\ pc'[seen'[r]] \in CriticalSteps
      <3> SUFFICES ASSUME NEW r \in alive', pc'[r] \in {"verify", "unlink"}
                   PROVE  seen'[r] \in Runner \ alive' /\ pc'[seen'[r]] \in CriticalSteps
        OBVIOUS
      <3>1. CASE r # q
        <4>1. pc[r] = pc'[r] /\ seen'[r] = seen[r]
          BY <1>2, <2>1, <2>2, <3>1 DEF EnterGuard
        <4>2. seen[r] \in Runner \ alive /\ pc[seen[r]] \in CriticalSteps
          BY <2>1, <4>1
        <4>3. QED
          BY <2>1, <2>2, <4>1, <4>2
      <3>2. CASE r = q
        BY <2>0, <3>2
      <3>3. QED
        BY <3>1, <3>2
    <2>10. \A r \in alive' : pc'[r] = "unlink" => lock' = seen'[r]
      <3> SUFFICES ASSUME NEW r \in alive', pc'[r] = "unlink" PROVE lock' = seen'[r]
        OBVIOUS
      <3>1. CASE r # q
        <4>1. pc[r] = "unlink" /\ seen'[r] = seen[r] /\ lock = seen[r] /\ lock \in Runner
          BY <1>2, <2>1, <2>2, <3>1 DEF EnterGuard
        <4>2. QED
          BY <1>2, <4>1 DEF EnterGuard
      <3>2. CASE r = q
        BY <2>0, <3>2
      <3>3. QED
        BY <3>1, <3>2
    <2>11. QED
      BY <2>3, <2>4, <2>5, <2>6, <2>7, <2>8, <2>9, <2>10
  <1>3. ASSUME NEW q \in Runner, DropGuard(q), UNCHANGED runVars PROVE LockInv'
    <2>1. q \in alive /\ alive' = alive /\ \E x \in Steps : pc' = [pc EXCEPT ![q] = x]
      BY <1>3, StepNames DEF DropGuard, Attempts
    <2>2. /\ GuardBroken' = GuardBroken
          /\ \A r \in Runner : r # q => pc'[r] = pc[r]
      <3> HIDE DEF LockInv, TypeOK, GuardBroken
      <3>1. QED
        BY <2>1, BrokenKept
    <2> HIDE DEF GuardBroken
    <2>3. Runner \ alive' \subseteq Mortal
      BY <1>3, <2>1, <2>2 DEF DropGuard
    <2>4. \A r \in Runner : lock' = r => pc'[r] \in CriticalSteps
      BY <1>3, <2>1, <2>2 DEF DropGuard
    <2>5. \A r \in alive' : pc'[r] \in CriticalSteps => lock' = r
      BY <1>3, <2>1, <2>2 DEF DropGuard
    <2>6. \A r \in Runner : guard' = r => pc'[r] \in GuardSteps
      BY <1>3, <2>1, <2>2 DEF DropGuard
    <2>7. \A r \in alive' : pc'[r] \in GuardSteps => guard' = r \/ GuardBroken'
      BY <1>3, <2>1, <2>2 DEF DropGuard
    <2>8. \A r \in alive' : pc'[r] = "dropGuard" => GuardBroken'
      BY <1>3, <2>1, <2>2 DEF DropGuard
    <2>9. \A r \in alive' : pc'[r] \in {"verify", "unlink"} =>
              seen'[r] \in Runner \ alive' /\ pc'[seen'[r]] \in CriticalSteps
      <3> SUFFICES ASSUME NEW r \in alive', pc'[r] \in {"verify", "unlink"}
                   PROVE  seen'[r] \in Runner \ alive' /\ pc'[seen'[r]] \in CriticalSteps
        OBVIOUS
      <3>1. CASE r # q
        <4>1. pc[r] = pc'[r] /\ seen'[r] = seen[r]
          BY <1>3, <2>1, <2>2, <3>1 DEF DropGuard
        <4>2. seen[r] \in Runner \ alive /\ pc[seen[r]] \in CriticalSteps
          BY <2>1, <4>1
        <4>3. QED
          BY <2>1, <2>2, <4>1, <4>2
      <3>2. CASE r = q
        BY <1>3, <2>1, <2>2, <3>2 DEF DropGuard
      <3>3. QED
        BY <3>1, <3>2
    <2>10. \A r \in alive' : pc'[r] = "unlink" => lock' = seen'[r]
      <3> SUFFICES ASSUME NEW r \in alive', pc'[r] = "unlink" PROVE lock' = seen'[r]
        OBVIOUS
      <3>1. CASE r # q
        <4>1. pc[r] = "unlink" /\ seen'[r] = seen[r] /\ lock = seen[r] /\ lock \in Runner
          BY <1>3, <2>1, <2>2, <3>1 DEF DropGuard
        <4>2. QED
          BY <1>3, <4>1 DEF DropGuard
      <3>2. CASE r = q
        BY <1>3, <2>1, <2>2, <3>2 DEF DropGuard
      <3>3. QED
        BY <3>1, <3>2
    <2>11. QED
      BY <2>3, <2>4, <2>5, <2>6, <2>7, <2>8, <2>9, <2>10
  <1>4. ASSUME NEW q \in Runner, Judge(q), UNCHANGED runVars PROVE LockInv'
    <2>1. q \in alive /\ alive' = alive /\ \E x \in Steps : pc' = [pc EXCEPT ![q] = x]
      BY <1>4, StepNames DEF Judge, Attempts
    <2>2. /\ GuardBroken' = GuardBroken
          /\ \A r \in Runner : r # q => pc'[r] = pc[r]
      <3> HIDE DEF LockInv, TypeOK, GuardBroken
      <3>1. QED
        BY <2>1, BrokenKept
    <2> HIDE DEF GuardBroken
    <2>3. Runner \ alive' \subseteq Mortal
      <3>1. CASE pc'[q] = "leaveGuard"
        BY <1>4, <2>1, <2>2, <3>1 DEF Judge
      <3>2. CASE pc'[q] = "refuse"
        BY <1>4, <2>1, <2>2, <3>2 DEF Judge
      <3>3. CASE lock # NoRunner /\ CanRecover(lock) /\ pc'[q] = "verify"
        BY <1>4, <2>1, <2>2, <3>3 DEF Judge
      <3>4. QED
        BY <1>4, <3>1, <3>2, <3>3 DEF Judge
    <2>4. \A r \in Runner : lock' = r => pc'[r] \in CriticalSteps
      <3>1. CASE pc'[q] = "leaveGuard"
        BY <1>4, <2>1, <2>2, <3>1 DEF Judge
      <3>2. CASE pc'[q] = "refuse"
        BY <1>4, <2>1, <2>2, <3>2 DEF Judge
      <3>3. CASE lock # NoRunner /\ CanRecover(lock) /\ pc'[q] = "verify"
        BY <1>4, <2>1, <2>2, <3>3 DEF Judge
      <3>4. QED
        BY <1>4, <3>1, <3>2, <3>3 DEF Judge
    <2>5. \A r \in alive' : pc'[r] \in CriticalSteps => lock' = r
      <3>1. CASE pc'[q] = "leaveGuard"
        BY <1>4, <2>1, <2>2, <3>1 DEF Judge
      <3>2. CASE pc'[q] = "refuse"
        BY <1>4, <2>1, <2>2, <3>2 DEF Judge
      <3>3. CASE lock # NoRunner /\ CanRecover(lock) /\ pc'[q] = "verify"
        BY <1>4, <2>1, <2>2, <3>3 DEF Judge
      <3>4. QED
        BY <1>4, <3>1, <3>2, <3>3 DEF Judge
    <2>6. \A r \in Runner : guard' = r => pc'[r] \in GuardSteps
      <3>1. CASE pc'[q] = "leaveGuard"
        BY <1>4, <2>1, <2>2, <3>1 DEF Judge
      <3>2. CASE pc'[q] = "refuse"
        BY <1>4, <2>1, <2>2, <3>2 DEF Judge
      <3>3. CASE lock # NoRunner /\ CanRecover(lock) /\ pc'[q] = "verify"
        BY <1>4, <2>1, <2>2, <3>3 DEF Judge
      <3>4. QED
        BY <1>4, <3>1, <3>2, <3>3 DEF Judge
    <2>7. \A r \in alive' : pc'[r] \in GuardSteps => guard' = r \/ GuardBroken'
      <3>1. CASE pc'[q] = "leaveGuard"
        BY <1>4, <2>1, <2>2, <3>1 DEF Judge
      <3>2. CASE pc'[q] = "refuse"
        BY <1>4, <2>1, <2>2, <3>2 DEF Judge
      <3>3. CASE lock # NoRunner /\ CanRecover(lock) /\ pc'[q] = "verify"
        BY <1>4, <2>1, <2>2, <3>3 DEF Judge
      <3>4. QED
        BY <1>4, <3>1, <3>2, <3>3 DEF Judge
    <2>8. \A r \in alive' : pc'[r] = "dropGuard" => GuardBroken'
      <3>1. CASE pc'[q] = "leaveGuard"
        BY <1>4, <2>1, <2>2, <3>1 DEF Judge
      <3>2. CASE pc'[q] = "refuse"
        BY <1>4, <2>1, <2>2, <3>2 DEF Judge
      <3>3. CASE lock # NoRunner /\ CanRecover(lock) /\ pc'[q] = "verify"
        BY <1>4, <2>1, <2>2, <3>3 DEF Judge
      <3>4. QED
        BY <1>4, <3>1, <3>2, <3>3 DEF Judge
    <2>9. \A r \in alive' : pc'[r] \in {"verify", "unlink"} =>
              seen'[r] \in Runner \ alive' /\ pc'[seen'[r]] \in CriticalSteps
      <3> SUFFICES ASSUME NEW r \in alive', pc'[r] \in {"verify", "unlink"}
                   PROVE  seen'[r] \in Runner \ alive' /\ pc'[seen'[r]] \in CriticalSteps
        OBVIOUS
      <3>1. CASE r # q
        <4>1. pc[r] = pc'[r] /\ seen'[r] = seen[r]
          BY <1>4, <2>1, <2>2, <3>1 DEF Judge
        <4>2. seen[r] \in Runner \ alive /\ pc[seen[r]] \in CriticalSteps
          BY <2>1, <4>1
        <4>3. QED
          BY <2>1, <2>2, <4>1, <4>2
      <3>2. CASE r = q
        BY <1>4, <2>1, <2>2, <3>2 DEF Judge
      <3>3. QED
        BY <3>1, <3>2
    <2>10. \A r \in alive' : pc'[r] = "unlink" => lock' = seen'[r]
      <3> SUFFICES ASSUME NEW r \in alive', pc'[r] = "unlink" PROVE lock' = seen'[r]
        OBVIOUS
      <3>1. CASE r # q
        <4>1. pc[r] = "unlink" /\ seen'[r] = seen[r] /\ lock = seen[r] /\ lock \in Runner
          BY <1>4, <2>1, <2>2, <3>1 DEF Judge
        <4>2. QED
          BY <1>4, <4>1 DEF Judge
      <3>2. CASE r = q
        BY <1>4, <2>1, <2>2, <3>2 DEF Judge
      <3>3. QED
        BY <3>1, <3>2
    <2>11. QED
      BY <2>3, <2>4, <2>5, <2>6, <2>7, <2>8, <2>9, <2>10
  <1>5. ASSUME NEW q \in Runner, Verify(q), UNCHANGED runVars PROVE LockInv'
    <2>1. q \in alive /\ alive' = alive /\ \E x \in Steps : pc' = [pc EXCEPT ![q] = x]
      BY <1>5, StepNames DEF Verify, Attempts
    <2>2. /\ GuardBroken' = GuardBroken
          /\ \A r \in Runner : r # q => pc'[r] = pc[r]
      <3> HIDE DEF LockInv, TypeOK, GuardBroken
      <3>1. QED
        BY <2>1, BrokenKept
    <2> HIDE DEF GuardBroken
    <2>3. Runner \ alive' \subseteq Mortal
      BY <1>5, <2>1, <2>2 DEF Verify
    <2>4. \A r \in Runner : lock' = r => pc'[r] \in CriticalSteps
      BY <1>5, <2>1, <2>2 DEF Verify
    <2>5. \A r \in alive' : pc'[r] \in CriticalSteps => lock' = r
      BY <1>5, <2>1, <2>2 DEF Verify
    <2>6. \A r \in Runner : guard' = r => pc'[r] \in GuardSteps
      BY <1>5, <2>1, <2>2 DEF Verify
    <2>7. \A r \in alive' : pc'[r] \in GuardSteps => guard' = r \/ GuardBroken'
      BY <1>5, <2>1, <2>2 DEF Verify
    <2>8. \A r \in alive' : pc'[r] = "dropGuard" => GuardBroken'
      BY <1>5, <2>1, <2>2 DEF Verify
    <2>9. \A r \in alive' : pc'[r] \in {"verify", "unlink"} =>
              seen'[r] \in Runner \ alive' /\ pc'[seen'[r]] \in CriticalSteps
      <3> SUFFICES ASSUME NEW r \in alive', pc'[r] \in {"verify", "unlink"}
                   PROVE  seen'[r] \in Runner \ alive' /\ pc'[seen'[r]] \in CriticalSteps
        OBVIOUS
      <3>1. CASE r # q
        <4>1. pc[r] = pc'[r] /\ seen'[r] = seen[r]
          BY <1>5, <2>1, <2>2, <3>1 DEF Verify
        <4>2. seen[r] \in Runner \ alive /\ pc[seen[r]] \in CriticalSteps
          BY <2>1, <4>1
        <4>3. QED
          BY <2>1, <2>2, <4>1, <4>2
      <3>2. CASE r = q
        BY <1>5, <2>1, <2>2, <3>2 DEF Verify
      <3>3. QED
        BY <3>1, <3>2
    <2>10. \A r \in alive' : pc'[r] = "unlink" => lock' = seen'[r]
      <3> SUFFICES ASSUME NEW r \in alive', pc'[r] = "unlink" PROVE lock' = seen'[r]
        OBVIOUS
      <3>1. CASE r # q
        <4>1. pc[r] = "unlink" /\ seen'[r] = seen[r] /\ lock = seen[r] /\ lock \in Runner
          BY <1>5, <2>1, <2>2, <3>1 DEF Verify
        <4>2. QED
          BY <1>5, <4>1 DEF Verify
      <3>2. CASE r = q
        BY <1>5, <2>1, <2>2, <3>2 DEF Verify
      <3>3. QED
        BY <3>1, <3>2
    <2>11. QED
      BY <2>3, <2>4, <2>5, <2>6, <2>7, <2>8, <2>9, <2>10
  <1>6. ASSUME NEW q \in Runner, Unlink(q), UNCHANGED runVars PROVE LockInv'
    <2>1. q \in alive /\ alive' = alive /\ \E x \in Steps : pc' = [pc EXCEPT ![q] = x]
      BY <1>6, StepNames DEF Unlink, Attempts
    <2>2. /\ GuardBroken' = GuardBroken
          /\ \A r \in Runner : r # q => pc'[r] = pc[r]
      <3> HIDE DEF LockInv, TypeOK, GuardBroken
      <3>1. QED
        BY <2>1, BrokenKept
    <2> HIDE DEF GuardBroken
    <2>3. Runner \ alive' \subseteq Mortal
      BY <1>6, <2>1, <2>2 DEF Unlink
    <2>4. \A r \in Runner : lock' = r => pc'[r] \in CriticalSteps
      BY <1>6, <2>1, <2>2 DEF Unlink
    <2>5. \A r \in alive' : pc'[r] \in CriticalSteps => lock' = r
      BY <1>6, <2>1, <2>2 DEF Unlink
    <2>6. \A r \in Runner : guard' = r => pc'[r] \in GuardSteps
      BY <1>6, <2>1, <2>2 DEF Unlink
    <2>7. \A r \in alive' : pc'[r] \in GuardSteps => guard' = r \/ GuardBroken'
      BY <1>6, <2>1, <2>2 DEF Unlink
    <2>8. \A r \in alive' : pc'[r] = "dropGuard" => GuardBroken'
      BY <1>6, <2>1, <2>2 DEF Unlink
    <2>9. \A r \in alive' : pc'[r] \in {"verify", "unlink"} =>
              seen'[r] \in Runner \ alive' /\ pc'[seen'[r]] \in CriticalSteps
      <3> SUFFICES ASSUME NEW r \in alive', pc'[r] \in {"verify", "unlink"}
                   PROVE  seen'[r] \in Runner \ alive' /\ pc'[seen'[r]] \in CriticalSteps
        OBVIOUS
      <3>1. CASE r # q
        <4>1. pc[r] = pc'[r] /\ seen'[r] = seen[r]
          BY <1>6, <2>1, <2>2, <3>1 DEF Unlink
        <4>2. seen[r] \in Runner \ alive /\ pc[seen[r]] \in CriticalSteps
          BY <2>1, <4>1
        <4>3. QED
          BY <2>1, <2>2, <4>1, <4>2
      <3>2. CASE r = q
        BY <1>6, <2>1, <2>2, <3>2 DEF Unlink
      <3>3. QED
        BY <3>1, <3>2
    <2>10. \A r \in alive' : pc'[r] = "unlink" => lock' = seen'[r]
      <3> SUFFICES ASSUME NEW r \in alive', pc'[r] = "unlink" PROVE lock' = seen'[r]
        OBVIOUS
      <3>1. CASE r # q
        <4>1. pc[r] = "unlink" /\ seen'[r] = seen[r] /\ lock = seen[r] /\ lock \in Runner
          BY <1>6, <2>1, <2>2, <3>1 DEF Unlink
        <4>2. pc[q] = "unlink" /\ q \in alive
          BY <1>6 DEF Unlink
        <4>3. seen[r] \in Runner \ alive /\ pc[seen[r]] \in CriticalSteps
          BY <2>1, <4>1
        <4>4. CASE GuardBroken
          <5>1. PICK m \in Runner \ alive : pc[m] \in GuardSteps
            BY <4>4 DEF GuardBroken
          <5>2. m = seen[r]
            BY <4>3, <5>1
          <5>3. QED
            BY <4>3, <5>1, <5>2
        <4>5. CASE ~GuardBroken
          BY <2>1, <3>1, <4>1, <4>2, <4>5
        <4>6. QED
          BY <4>4, <4>5
      <3>2. CASE r = q
        BY <1>6, <2>1, <2>2, <3>2 DEF Unlink
      <3>3. QED
        BY <3>1, <3>2
    <2>11. QED
      BY <2>3, <2>4, <2>5, <2>6, <2>7, <2>8, <2>9, <2>10
  <1>7. ASSUME NEW q \in Runner, LeaveGuard(q), UNCHANGED runVars PROVE LockInv'
    <2>1. q \in alive /\ alive' = alive /\ \E x \in Steps : pc' = [pc EXCEPT ![q] = x]
      BY <1>7, StepNames DEF LeaveGuard, Attempts
    <2>2. /\ GuardBroken' = GuardBroken
          /\ \A r \in Runner : r # q => pc'[r] = pc[r]
      <3> HIDE DEF LockInv, TypeOK, GuardBroken
      <3>1. QED
        BY <2>1, BrokenKept
    <2> HIDE DEF GuardBroken
    <2>3. Runner \ alive' \subseteq Mortal
      BY <1>7, <2>1, <2>2 DEF LeaveGuard
    <2>4. \A r \in Runner : lock' = r => pc'[r] \in CriticalSteps
      BY <1>7, <2>1, <2>2 DEF LeaveGuard
    <2>5. \A r \in alive' : pc'[r] \in CriticalSteps => lock' = r
      BY <1>7, <2>1, <2>2 DEF LeaveGuard
    <2>6. \A r \in Runner : guard' = r => pc'[r] \in GuardSteps
      BY <1>7, <2>1, <2>2 DEF LeaveGuard
    <2>7. \A r \in alive' : pc'[r] \in GuardSteps => guard' = r \/ GuardBroken'
      BY <1>7, <2>1, <2>2 DEF LeaveGuard
    <2>8. \A r \in alive' : pc'[r] = "dropGuard" => GuardBroken'
      BY <1>7, <2>1, <2>2 DEF LeaveGuard
    <2>9. \A r \in alive' : pc'[r] \in {"verify", "unlink"} =>
              seen'[r] \in Runner \ alive' /\ pc'[seen'[r]] \in CriticalSteps
      <3> SUFFICES ASSUME NEW r \in alive', pc'[r] \in {"verify", "unlink"}
                   PROVE  seen'[r] \in Runner \ alive' /\ pc'[seen'[r]] \in CriticalSteps
        OBVIOUS
      <3>1. CASE r # q
        <4>1. pc[r] = pc'[r] /\ seen'[r] = seen[r]
          BY <1>7, <2>1, <2>2, <3>1 DEF LeaveGuard
        <4>2. seen[r] \in Runner \ alive /\ pc[seen[r]] \in CriticalSteps
          BY <2>1, <4>1
        <4>3. QED
          BY <2>1, <2>2, <4>1, <4>2
      <3>2. CASE r = q
        BY <1>7, <2>1, <2>2, <3>2 DEF LeaveGuard
      <3>3. QED
        BY <3>1, <3>2
    <2>10. \A r \in alive' : pc'[r] = "unlink" => lock' = seen'[r]
      <3> SUFFICES ASSUME NEW r \in alive', pc'[r] = "unlink" PROVE lock' = seen'[r]
        OBVIOUS
      <3>1. CASE r # q
        <4>1. pc[r] = "unlink" /\ seen'[r] = seen[r] /\ lock = seen[r] /\ lock \in Runner
          BY <1>7, <2>1, <2>2, <3>1 DEF LeaveGuard
        <4>2. QED
          BY <1>7, <4>1 DEF LeaveGuard
      <3>2. CASE r = q
        BY <1>7, <2>1, <2>2, <3>2 DEF LeaveGuard
      <3>3. QED
        BY <3>1, <3>2
    <2>11. QED
      BY <2>3, <2>4, <2>5, <2>6, <2>7, <2>8, <2>9, <2>10
  <1>8. ASSUME NEW q \in Runner, ClearOrphan(q), UNCHANGED runVars PROVE LockInv'
    BY <1>8 DEF ClearOrphan
  <1>9. ASSUME NEW q \in Runner, ReadOwnLock(q), UNCHANGED runVars PROVE LockInv'
    <2>1. q \in alive /\ alive' = alive /\ \E x \in Steps : pc' = [pc EXCEPT ![q] = x]
      BY <1>9, StepNames DEF ReadOwnLock, Attempts
    <2>2. /\ GuardBroken' = GuardBroken
          /\ \A r \in Runner : r # q => pc'[r] = pc[r]
      <3> HIDE DEF LockInv, TypeOK, GuardBroken
      <3>1. QED
        BY <2>1, BrokenKept
    <2> HIDE DEF GuardBroken
    <2>3. Runner \ alive' \subseteq Mortal
      BY <1>9, <2>1, <2>2 DEF ReadOwnLock
    <2>4. \A r \in Runner : lock' = r => pc'[r] \in CriticalSteps
      BY <1>9, <2>1, <2>2 DEF ReadOwnLock
    <2>5. \A r \in alive' : pc'[r] \in CriticalSteps => lock' = r
      BY <1>9, <2>1, <2>2 DEF ReadOwnLock
    <2>6. \A r \in Runner : guard' = r => pc'[r] \in GuardSteps
      BY <1>9, <2>1, <2>2 DEF ReadOwnLock
    <2>7. \A r \in alive' : pc'[r] \in GuardSteps => guard' = r \/ GuardBroken'
      BY <1>9, <2>1, <2>2 DEF ReadOwnLock
    <2>8. \A r \in alive' : pc'[r] = "dropGuard" => GuardBroken'
      BY <1>9, <2>1, <2>2 DEF ReadOwnLock
    <2>9. \A r \in alive' : pc'[r] \in {"verify", "unlink"} =>
              seen'[r] \in Runner \ alive' /\ pc'[seen'[r]] \in CriticalSteps
      <3> SUFFICES ASSUME NEW r \in alive', pc'[r] \in {"verify", "unlink"}
                   PROVE  seen'[r] \in Runner \ alive' /\ pc'[seen'[r]] \in CriticalSteps
        OBVIOUS
      <3>1. CASE r # q
        <4>1. pc[r] = pc'[r] /\ seen'[r] = seen[r]
          BY <1>9, <2>1, <2>2, <3>1 DEF ReadOwnLock
        <4>2. seen[r] \in Runner \ alive /\ pc[seen[r]] \in CriticalSteps
          BY <2>1, <4>1
        <4>3. QED
          BY <2>1, <2>2, <4>1, <4>2
      <3>2. CASE r = q
        BY <1>9, <2>1, <2>2, <3>2 DEF ReadOwnLock
      <3>3. QED
        BY <3>1, <3>2
    <2>10. \A r \in alive' : pc'[r] = "unlink" => lock' = seen'[r]
      <3> SUFFICES ASSUME NEW r \in alive', pc'[r] = "unlink" PROVE lock' = seen'[r]
        OBVIOUS
      <3>1. CASE r # q
        <4>1. pc[r] = "unlink" /\ seen'[r] = seen[r] /\ lock = seen[r] /\ lock \in Runner
          BY <1>9, <2>1, <2>2, <3>1 DEF ReadOwnLock
        <4>2. QED
          BY <1>9, <4>1 DEF ReadOwnLock
      <3>2. CASE r = q
        BY <1>9, <2>1, <2>2, <3>2 DEF ReadOwnLock
      <3>3. QED
        BY <3>1, <3>2
    <2>11. QED
      BY <2>3, <2>4, <2>5, <2>6, <2>7, <2>8, <2>9, <2>10
  <1>10. ASSUME NEW q \in Runner, RemoveLock(q), UNCHANGED runVars PROVE LockInv'
    <2>1. q \in alive /\ alive' = alive /\ \E x \in Steps : pc' = [pc EXCEPT ![q] = x]
      BY <1>10, StepNames DEF RemoveLock, Attempts
    <2>2. /\ GuardBroken' = GuardBroken
          /\ \A r \in Runner : r # q => pc'[r] = pc[r]
      <3> HIDE DEF LockInv, TypeOK, GuardBroken
      <3>1. QED
        BY <2>1, BrokenKept
    <2> HIDE DEF GuardBroken
    <2>3. Runner \ alive' \subseteq Mortal
      BY <1>10, <2>1, <2>2 DEF RemoveLock
    <2>4. \A r \in Runner : lock' = r => pc'[r] \in CriticalSteps
      BY <1>10, <2>1, <2>2 DEF RemoveLock
    <2>5. \A r \in alive' : pc'[r] \in CriticalSteps => lock' = r
      BY <1>10, <2>1, <2>2 DEF RemoveLock
    <2>6. \A r \in Runner : guard' = r => pc'[r] \in GuardSteps
      BY <1>10, <2>1, <2>2 DEF RemoveLock
    <2>7. \A r \in alive' : pc'[r] \in GuardSteps => guard' = r \/ GuardBroken'
      BY <1>10, <2>1, <2>2 DEF RemoveLock
    <2>8. \A r \in alive' : pc'[r] = "dropGuard" => GuardBroken'
      BY <1>10, <2>1, <2>2 DEF RemoveLock
    <2>9. \A r \in alive' : pc'[r] \in {"verify", "unlink"} =>
              seen'[r] \in Runner \ alive' /\ pc'[seen'[r]] \in CriticalSteps
      <3> SUFFICES ASSUME NEW r \in alive', pc'[r] \in {"verify", "unlink"}
                   PROVE  seen'[r] \in Runner \ alive' /\ pc'[seen'[r]] \in CriticalSteps
        OBVIOUS
      <3>1. CASE r # q
        <4>1. pc[r] = pc'[r] /\ seen'[r] = seen[r]
          BY <1>10, <2>1, <2>2, <3>1 DEF RemoveLock
        <4>2. seen[r] \in Runner \ alive /\ pc[seen[r]] \in CriticalSteps
          BY <2>1, <4>1
        <4>3. QED
          BY <2>1, <2>2, <4>1, <4>2
      <3>2. CASE r = q
        BY <1>10, <2>1, <2>2, <3>2 DEF RemoveLock
      <3>3. QED
        BY <3>1, <3>2
    <2>10. \A r \in alive' : pc'[r] = "unlink" => lock' = seen'[r]
      <3> SUFFICES ASSUME NEW r \in alive', pc'[r] = "unlink" PROVE lock' = seen'[r]
        OBVIOUS
      <3>1. CASE r # q
        <4>1. pc[r] = "unlink" /\ seen'[r] = seen[r] /\ lock = seen[r] /\ lock \in Runner
          BY <1>10, <2>1, <2>2, <3>1 DEF RemoveLock
        <4>2. QED
          BY <1>10, <4>1 DEF RemoveLock
      <3>2. CASE r = q
        BY <1>10, <2>1, <2>2, <3>2 DEF RemoveLock
      <3>3. QED
        BY <3>1, <3>2
    <2>11. QED
      BY <2>3, <2>4, <2>5, <2>6, <2>7, <2>8, <2>9, <2>10
  <1>11. ASSUME NEW q \in Runner, Inspect(q) PROVE LockInv'
    <2> HIDE DEF LockInv, TypeOK, GuardSteps, CriticalSteps, RunSteps
    <2>1. UNCHANGED <<alive, lock, guard, seen>> /\ pc[q] \in CriticalSteps /\ q \in alive
      BY <1>11 DEF Inspect, CriticalSteps, RunSteps
    <2>2. \E x \in CriticalSteps : pc' = [pc EXCEPT ![q] = x]
      BY <1>11 DEF Inspect, CriticalSteps, RunSteps
    <2>3. QED
      BY <2>1, <2>2, LockKept
  <1>12. ASSUME NEW q \in Runner, Authorize(q) PROVE LockInv'
    <2> HIDE DEF LockInv, TypeOK, GuardSteps, CriticalSteps, RunSteps
    <2>1. UNCHANGED <<alive, lock, guard, seen>> /\ pc[q] \in CriticalSteps /\ q \in alive
      BY <1>12 DEF Authorize, CriticalSteps, RunSteps
    <2>2. \E x \in CriticalSteps : pc' = [pc EXCEPT ![q] = x]
      BY <1>12 DEF Authorize, CriticalSteps, RunSteps
    <2>3. QED
      BY <2>1, <2>2, LockKept
  <1>13. ASSUME NEW q \in Runner, WriteIntent(q) PROVE LockInv'
    <2> HIDE DEF LockInv, TypeOK, GuardSteps, CriticalSteps, RunSteps
    <2>1. UNCHANGED <<alive, lock, guard, seen>> /\ pc[q] \in CriticalSteps /\ q \in alive
      BY <1>13 DEF WriteIntent, CriticalSteps, RunSteps
    <2>2. \E x \in CriticalSteps : pc' = [pc EXCEPT ![q] = x]
      BY <1>13 DEF WriteIntent, CriticalSteps, RunSteps
    <2>3. QED
      BY <2>1, <2>2, LockKept
  <1>14. ASSUME NEW q \in Runner, Spawn(q) PROVE LockInv'
    BY <1>14 DEF Spawn
  <1>15. ASSUME NEW q \in Runner, Collect(q) PROVE LockInv'
    <2> HIDE DEF LockInv, TypeOK, GuardSteps, CriticalSteps, RunSteps
    <2>1. UNCHANGED <<alive, lock, guard, seen>> /\ pc[q] \in CriticalSteps /\ q \in alive
      BY <1>15 DEF Collect, CriticalSteps, RunSteps
    <2>2. \E x \in CriticalSteps : pc' = [pc EXCEPT ![q] = x]
      BY <1>15 DEF Collect, CriticalSteps, RunSteps
    <2>3. QED
      BY <2>1, <2>2, LockKept
  <1>16. ASSUME NEW q \in Runner, PublishSpool(q) PROVE LockInv'
    <2> HIDE DEF LockInv, TypeOK, GuardSteps, CriticalSteps, RunSteps
    <2>1. UNCHANGED <<alive, lock, guard, seen>> /\ pc[q] \in CriticalSteps /\ q \in alive
      BY <1>16 DEF PublishSpool, CriticalSteps, RunSteps
    <2>2. \E x \in CriticalSteps : pc' = [pc EXCEPT ![q] = x]
      BY <1>16 DEF PublishSpool, CriticalSteps, RunSteps
    <2>3. QED
      BY <2>1, <2>2, LockKept
  <1>17. ASSUME NEW q \in Runner, PublishCanonical(q) PROVE LockInv'
    <2> HIDE DEF LockInv, TypeOK, GuardSteps, CriticalSteps, RunSteps
    <2>1. UNCHANGED <<alive, lock, guard, seen>> /\ pc[q] \in CriticalSteps /\ q \in alive
      BY <1>17 DEF PublishCanonical, CriticalSteps, RunSteps
    <2>2. \E x \in CriticalSteps : pc' = [pc EXCEPT ![q] = x]
      BY <1>17 DEF PublishCanonical, CriticalSteps, RunSteps
    <2>3. QED
      BY <2>1, <2>2, LockKept
  <1>18. ASSUME NEW q \in Runner, PublishProjection(q) PROVE LockInv'
    <2> HIDE DEF LockInv, TypeOK, GuardSteps, CriticalSteps, RunSteps
    <2>1. UNCHANGED <<alive, lock, guard, seen>> /\ pc[q] \in CriticalSteps /\ q \in alive
      BY <1>18 DEF PublishProjection, CriticalSteps, RunSteps
    <2>2. \E x \in CriticalSteps : pc' = [pc EXCEPT ![q] = x]
      BY <1>18 DEF PublishProjection, CriticalSteps, RunSteps
    <2>3. QED
      BY <2>1, <2>2, LockKept
  <1>19. ASSUME NEW q \in Runner, Settle(q) PROVE LockInv'
    <2> HIDE DEF LockInv, TypeOK, GuardSteps, CriticalSteps, RunSteps
    <2>1. UNCHANGED <<alive, lock, guard, seen>> /\ pc[q] \in CriticalSteps /\ q \in alive
      BY <1>19 DEF Settle, CriticalSteps, RunSteps
    <2>2. \E x \in CriticalSteps : pc' = [pc EXCEPT ![q] = x]
      BY <1>19 DEF Settle, CriticalSteps, RunSteps
    <2>3. QED
      BY <2>1, <2>2, LockKept
  <1>20. ASSUME NEW q \in Runner, ClearIntent(q) PROVE LockInv'
    <2> HIDE DEF LockInv, TypeOK, GuardSteps, CriticalSteps, RunSteps
    <2>1. UNCHANGED <<alive, lock, guard, seen>> /\ pc[q] \in CriticalSteps /\ q \in alive
      BY <1>20 DEF ClearIntent, CriticalSteps, RunSteps
    <2>2. \E x \in CriticalSteps : pc' = [pc EXCEPT ![q] = x]
      BY <1>20 DEF ClearIntent, CriticalSteps, RunSteps
    <2>3. QED
      BY <2>1, <2>2, LockKept
  <1>21. ASSUME NEW q \in Runner, UndoProjection(q) PROVE LockInv'
    <2> HIDE DEF LockInv, TypeOK, GuardSteps, CriticalSteps, RunSteps
    <2>1. UNCHANGED <<alive, lock, guard, seen>> /\ pc[q] \in CriticalSteps /\ q \in alive
      BY <1>21 DEF UndoProjection, CriticalSteps, RunSteps
    <2>2. \E x \in CriticalSteps : pc' = [pc EXCEPT ![q] = x]
      BY <1>21 DEF UndoProjection, CriticalSteps, RunSteps
    <2>3. QED
      BY <2>1, <2>2, LockKept
  <1>22. ASSUME NEW q \in Runner, UndoCanonical(q) PROVE LockInv'
    <2> HIDE DEF LockInv, TypeOK, GuardSteps, CriticalSteps, RunSteps
    <2>1. UNCHANGED <<alive, lock, guard, seen>> /\ pc[q] \in CriticalSteps /\ q \in alive
      BY <1>22 DEF UndoCanonical, CriticalSteps, RunSteps
    <2>2. \E x \in CriticalSteps : pc' = [pc EXCEPT ![q] = x]
      BY <1>22 DEF UndoCanonical, CriticalSteps, RunSteps
    <2>3. QED
      BY <2>1, <2>2, LockKept
  <1>23. ASSUME NEW q \in Runner, UndoSpool(q) PROVE LockInv'
    <2> HIDE DEF LockInv, TypeOK, GuardSteps, CriticalSteps, RunSteps
    <2>1. UNCHANGED <<alive, lock, guard, seen>> /\ pc[q] \in CriticalSteps /\ q \in alive
      BY <1>23 DEF UndoSpool, CriticalSteps, RunSteps
    <2>2. \E x \in CriticalSteps : pc' = [pc EXCEPT ![q] = x]
      BY <1>23 DEF UndoSpool, CriticalSteps, RunSteps
    <2>3. QED
      BY <2>1, <2>2, LockKept
  <1>24. ASSUME NEW q \in Runner, StartCommand(q) PROVE LockInv'
    BY <1>24 DEF StartCommand
  <1>25. ASSUME NEW q \in Runner, CheckLock(q) PROVE LockInv'
    BY <1>25 DEF CheckLock
  <1>26. ASSUME NEW q \in Runner, RecordChild(q) PROVE LockInv'
    BY <1>26 DEF RecordChild
  <1>27. ASSUME NEW q \in Runner, CommandEnds(q) PROVE LockInv'
    BY <1>27 DEF CommandEnds
  <1>28. ASSUME NEW q \in Runner, EndWrapper(q) PROVE LockInv'
    BY <1>28 DEF EndWrapper
  <1>29. ASSUME NEW q \in Runner, Crash(q) PROVE LockInv'
    BY <1>29 DEF Crash
  <1>30. ASSUME NEW q \in Runner, CrashWrapper(q) PROVE LockInv'
    BY <1>30 DEF CrashWrapper
  <1>31. CASE UNCHANGED vars
    BY <1>31 DEF vars
  <1>32. QED
    BY <1>1, <1>2, <1>3, <1>4, <1>5, <1>6, <1>7, <1>8, <1>9, <1>10, <1>11, <1>12, <1>13, <1>14,
       <1>15, <1>16, <1>17, <1>18, <1>19, <1>20, <1>21, <1>22, <1>23, <1>24, <1>25, <1>26, <1>27,
       <1>28, <1>29, <1>30, <1>31 DEF Next, LockStep, RunStep, WrapperStep

\* With one runner that can die the lock admits one live runner at a time, for
\* any number of runners that wait, judge, recover and give up.
THEOREM Exclusive == ASSUME OneMortal PROVE Spec => []LockExclusive
  <1>1. Init => TypeInv /\ LockInv
    BY TypeInit, LockInit0
  <1>2. TypeInv /\ LockInv /\ [Next]_vars => (TypeInv /\ LockInv)'
    BY OneMortal, TypeStep, LockInvStep
  <1>3. LockInv => LockExclusive
    BY DEF LockInv, LockExclusive, Critical
  <1>4. QED
    BY <1>1, <1>2, <1>3, PTL DEF Spec

(***************************************************************************)
(* The files of the run.  Without an intent, exactly the recorded phases   *)
(* have been started; with one, the phase of the runner it names may have  *)
(* been started as well, once.                                             *)
(***************************************************************************)
IntentInv ==
    /\ intent = NoRunner =>
         \A i \in 0..Phases - 1 : starts[i] = IF i < spool THEN 1 ELSE 0
    /\ \A r \in Runner : intent = r =>
         /\ base[r] < Phases
         /\ spool \in {base[r], base[r] + 1}
         /\ \A i \in 0..Phases - 1 : i # base[r] => starts[i] = IF i < base[r] THEN 1 ELSE 0
         /\ starts[base[r]] <= 1
         /\ spool = base[r] + 1 => outcome[r] = "exit"
         /\ wrapper[r] \in {"none", "start"} => starts[base[r]] = 0

WrapperInv ==
    /\ \A r \in Runner : wrapper[r] \in {"none", "start", "check", "record", "recorded", "reject"} =>
           outcome[r] = "none"
    /\ \A r \in Runner :
         pc[r] \in AcquireSteps \cup {"orphan", "held", "authorize", "intend"} => intent # r
    /\ \A r \in Runner : wrapper[r] = "start" => intent = r
    /\ \A r \in Runner : command[r] = "running" => intent = r /\ outcome[r] # "exit"
    /\ \A r \in Runner : wrapper[r] \in {"check", "record", "recorded"} \/ outcome[r] = "exit" =>
           base[r] < Phases /\ starts[base[r]] >= 1

RunnerInv ==
    \A r \in alive :
      /\ pc[r] \in {"authorize", "intend"} => base[r] = spool /\ spool < Phases
      /\ pc[r] \in {"spawn", "waiting"} => intent = r /\ spool = base[r]
      /\ pc[r] \in {"publish", "canonical", "projection", "settle", "clearIntent",
                    "undoProjection", "undoCanonical", "undoSpool"} =>
           \/ base[r] = Phases
           \/ intent = r /\ outcome[r] = "exit"
      /\ pc[r] = "publish" => spool = base[r]
      /\ pc[r] \in {"canonical", "projection", "settle", "undoProjection", "undoCanonical"} =>
           spool = Phases /\ Extended(r) = Phases
      /\ pc[r] = "clearIntent" => spool = Extended(r)
      /\ pc[r] = "undoSpool" => spool = Extended(r)
      /\ pc[r] \in {"authorize", "intend", "spawn", "waiting", "publish", "canonical"} => ~canonical
      /\ pc[r] \in {"projection", "settle", "undoProjection"} => canonical
      /\ pc[r] \in {"projection", "undoCanonical"} => ~projection \/ leftover
      /\ pc[r] = "undoSpool" => ~canonical \/ leftover
      /\ pc[r] \in {"spawn", "waiting"} => ~leftover
      /\ pc[r] \in {"publish", "canonical", "projection", "settle", "clearIntent",
                    "undoProjection"} => ~leftover \/ base[r] = Phases

\* What a failed rollback leaves cannot be built upon: all phases are recorded, or
\* the intent of a runner whose command has ended is in the way of every other.
LeftoverInv ==
    leftover => spool = Phases \/ (intent \in Runner /\ outcome[intent] = "exit")

RunInv == IntentInv /\ WrapperInv /\ RunnerInv /\ LeftoverInv /\ PublishedIsComplete

LEMMA RunInit == Init => RunInv
  BY RunnerAssumption, PhasesAssumption DEF Init, LockInit, RunInv, IntentInv, WrapperInv,
     RunnerInv, LeftoverInv, PublishedIsComplete,
     AcquireSteps, GuardSteps

LEMMA Below == ASSUME NEW i \in Int, NEW k \in Int, i # k PROVE i < k + 1 <=> i < k
  OBVIOUS

\* The files tell what was started.
LEMMA EarnedFromInv == TypeInv /\ RunInv => ReceiptIsEarned /\ AtMostOnce
  <1> SUFFICES ASSUME TypeInv, RunInv, NEW i \in 0..Phases - 1
               PROVE  (i < spool => starts[i] = 1) /\ (i > spool => starts[i] = 0) /\ starts[i] <= 1
    BY DEF ReceiptIsEarned, AtMostOnce, TypeInv, TypeOK
  <1> USE PhasesAssumption DEF TypeInv, TypeOK, RunInv, IntentInv
  <1>1. CASE intent = NoRunner
    <2>1. starts[i] = IF i < spool THEN 1 ELSE 0
      BY <1>1
    <2>2. QED
      BY <2>1
  <1>2. CASE intent # NoRunner
    <2>1. PICK r \in Runner : intent = r
      BY <1>2
    <2>2. base[r] \in 0..Phases - 1 /\ starts[base[r]] \in Nat /\ spool \in {base[r], base[r] + 1}
      BY <2>1
    <2>3. CASE i # base[r]
      <3>1. starts[i] = IF i < base[r] THEN 1 ELSE 0
        BY <2>1, <2>3
      <3>2. QED
        BY <2>2, <2>3, <3>1
    <2>4. CASE i = base[r]
      <3>1. starts[i] <= 1
        BY <2>1, <2>4
      <3>2. spool = base[r] + 1 => starts[i] >= 1
        BY <2>1, <2>4 DEF WrapperInv
      <3>3. QED
        BY <2>2, <2>4, <3>1, <3>2
    <2>5. QED
      BY <2>3, <2>4
  <1>3. QED
    BY <1>1, <1>2

\* A step of a runner on its way to the lock, or out of the task.
LEMMA Idle ==
    ASSUME TypeOK, RunInv, UNCHANGED runVars, alive' = alive, command' = command,
           NEW q \in Runner, NEW x \in AcquireSteps \cup {"orphan", "held", "remove", "over"},
           pc' = [pc EXCEPT ![q] = x],
           pc[q] \in AcquireSteps \cup {"orphan"} \/ x \in {"remove", "over"}
    PROVE  RunInv'
  <1> USE DEF TypeOK, LockTypeOK, RunInv, IntentInv, WrapperInv, RunnerInv, LeftoverInv,
         PublishedIsComplete, AcquireSteps, GuardSteps, Extended, runVars
  <1>1. \A r \in Runner : r # q => pc'[r] = pc[r]
    OBVIOUS
  <1>2. pc'[q] = x
    OBVIOUS
  <1>3. IntentInv' /\ PublishedIsComplete' /\ LeftoverInv'
    OBVIOUS
  <1>4. WrapperInv'
    BY <1>1, <1>2
  <1>5. RunnerInv'
    BY <1>1, <1>2
  <1>6. QED
    BY <1>3, <1>4, <1>5

LEMMA RunInvStep == OneMortal /\ TypeInv /\ LockInv /\ RunInv /\ [Next]_vars => RunInv'
  <1> SUFFICES ASSUME TypeInv, TypeOK', LockInv, LockInv', RunInv, [Next]_vars PROVE RunInv'
    BY TypeStep, LockInvStep DEF TypeInv
  <1> USE RunnerAssumption, PhasesAssumption DEF TypeInv, TypeOK, LockTypeOK, LockInv, RunInv,
         IntentInv, WrapperInv, RunnerInv, LeftoverInv, PublishedIsComplete,
          BeforeSpawn, AcquireSteps, GuardSteps, CriticalSteps, RunSteps, At, Goto, Leave, Wrapped, Extended, lockVars, runVars, fileLock, supervised, receipts
  <1>1. ASSUME NEW q \in Runner, OpenLock(q), UNCHANGED runVars PROVE RunInv'
    <2>1. alive' = alive /\ command' = command /\ pc[q] \in AcquireSteps
      BY <1>1 DEF OpenLock
    <2>2. PICK x \in AcquireSteps \cup {"orphan", "over"} : pc' = [pc EXCEPT ![q] = x]
      BY <1>1 DEF OpenLock
    <2> HIDE DEF TypeInv, TypeOK, RunInv, runVars, AcquireSteps
    <2>3. x \in AcquireSteps \cup {"orphan", "held", "remove", "over"}
      BY <2>2
    <2>4. TypeOK
      BY DEF TypeInv
    <2>5. QED
      BY <1>1, <2>1, <2>2, <2>3, <2>4, Idle
  <1>2. ASSUME NEW q \in Runner, EnterGuard(q), UNCHANGED runVars PROVE RunInv'
    <2>1. alive' = alive /\ command' = command /\ pc[q] \in AcquireSteps
      BY <1>2 DEF EnterGuard
    <2>2. PICK x \in AcquireSteps \cup {"orphan", "over"} : pc' = [pc EXCEPT ![q] = x]
      BY <1>2 DEF EnterGuard
    <2> HIDE DEF TypeInv, TypeOK, RunInv, runVars, AcquireSteps
    <2>3. x \in AcquireSteps \cup {"orphan", "held", "remove", "over"}
      BY <2>2
    <2>4. TypeOK
      BY DEF TypeInv
    <2>5. QED
      BY <1>2, <2>1, <2>2, <2>3, <2>4, Idle
  <1>3. ASSUME NEW q \in Runner, DropGuard(q), UNCHANGED runVars PROVE RunInv'
    <2>1. alive' = alive /\ command' = command /\ pc[q] \in AcquireSteps
      BY <1>3 DEF DropGuard
    <2>2. PICK x \in AcquireSteps \cup {"orphan", "over"} : pc' = [pc EXCEPT ![q] = x]
      BY <1>3 DEF DropGuard
    <2> HIDE DEF TypeInv, TypeOK, RunInv, runVars, AcquireSteps
    <2>3. x \in AcquireSteps \cup {"orphan", "held", "remove", "over"}
      BY <2>2
    <2>4. TypeOK
      BY DEF TypeInv
    <2>5. QED
      BY <1>3, <2>1, <2>2, <2>3, <2>4, Idle
  <1>4. ASSUME NEW q \in Runner, Judge(q), UNCHANGED runVars PROVE RunInv'
    <2>1. alive' = alive /\ command' = command /\ pc[q] \in AcquireSteps
      BY <1>4 DEF Judge
    <2>2. PICK x \in AcquireSteps \cup {"orphan", "over"} : pc' = [pc EXCEPT ![q] = x]
      BY <1>4 DEF Judge
    <2> HIDE DEF TypeInv, TypeOK, RunInv, runVars, AcquireSteps
    <2>3. x \in AcquireSteps \cup {"orphan", "held", "remove", "over"}
      BY <2>2
    <2>4. TypeOK
      BY DEF TypeInv
    <2>5. QED
      BY <1>4, <2>1, <2>2, <2>3, <2>4, Idle
  <1>5. ASSUME NEW q \in Runner, Verify(q), UNCHANGED runVars PROVE RunInv'
    <2>1. alive' = alive /\ command' = command /\ pc[q] \in AcquireSteps
      BY <1>5 DEF Verify
    <2>2. PICK x \in AcquireSteps \cup {"orphan", "over"} : pc' = [pc EXCEPT ![q] = x]
      BY <1>5 DEF Verify
    <2> HIDE DEF TypeInv, TypeOK, RunInv, runVars, AcquireSteps
    <2>3. x \in AcquireSteps \cup {"orphan", "held", "remove", "over"}
      BY <2>2
    <2>4. TypeOK
      BY DEF TypeInv
    <2>5. QED
      BY <1>5, <2>1, <2>2, <2>3, <2>4, Idle
  <1>6. ASSUME NEW q \in Runner, Unlink(q), UNCHANGED runVars PROVE RunInv'
    <2>1. alive' = alive /\ command' = command /\ pc[q] \in AcquireSteps
      BY <1>6 DEF Unlink
    <2>2. PICK x \in AcquireSteps \cup {"orphan", "over"} : pc' = [pc EXCEPT ![q] = x]
      BY <1>6 DEF Unlink
    <2> HIDE DEF TypeInv, TypeOK, RunInv, runVars, AcquireSteps
    <2>3. x \in AcquireSteps \cup {"orphan", "held", "remove", "over"}
      BY <2>2
    <2>4. TypeOK
      BY DEF TypeInv
    <2>5. QED
      BY <1>6, <2>1, <2>2, <2>3, <2>4, Idle
  <1>7. ASSUME NEW q \in Runner, LeaveGuard(q), UNCHANGED runVars PROVE RunInv'
    <2>1. alive' = alive /\ command' = command /\ pc[q] \in AcquireSteps
      BY <1>7 DEF LeaveGuard
    <2>2. PICK x \in AcquireSteps \cup {"orphan", "over"} : pc' = [pc EXCEPT ![q] = x]
      BY <1>7 DEF LeaveGuard
    <2> HIDE DEF TypeInv, TypeOK, RunInv, runVars, AcquireSteps
    <2>3. x \in AcquireSteps \cup {"orphan", "held", "remove", "over"}
      BY <2>2
    <2>4. TypeOK
      BY DEF TypeInv
    <2>5. QED
      BY <1>7, <2>1, <2>2, <2>3, <2>4, Idle
  <1>8. ASSUME NEW q \in Runner, ClearOrphan(q), UNCHANGED runVars PROVE RunInv'
    BY <1>8 DEF ClearOrphan
  <1>9. ASSUME NEW q \in Runner, ReadOwnLock(q), UNCHANGED runVars PROVE RunInv'
    BY <1>9, SMTT(30) DEF ReadOwnLock
  <1>10. ASSUME NEW q \in Runner, RemoveLock(q), UNCHANGED runVars PROVE RunInv'
    BY <1>10 DEF RemoveLock
  <1>11. ASSUME NEW q \in Runner, Inspect(q) PROVE RunInv'
    <2>1. IntentInv'
      BY <1>11 DEF Inspect
    <2>2. WrapperInv'
      <3>1. wrapper[q] = "none" /\ outcome[q] = "none" /\ intent # q
        BY <1>11 DEF Inspect
      <3>2. /\ UNCHANGED <<intent, spool, outcome, wrapper, command, starts>>
            /\ \A r \in Runner : r # q => base'[r] = base[r] /\ pc'[r] = pc[r]
        BY <1>11 DEF Inspect
      <3>3. wrapper'[q] = "none" /\ outcome'[q] = "none" /\ intent' # q
        BY <3>1, <3>2
      <3>4. \A r \in Runner : r # q => pc'[r] = pc[r]
        BY <3>2
      <3>5. /\ \A r \in Runner : wrapper'[r] \in {"none", "start", "check", "record", "recorded", "reject"}
                                   => outcome'[r] = "none"
            /\ \A r \in Runner : pc'[r] \in AcquireSteps \cup {"orphan", "held", "authorize", "intend"}
                                   => intent' # r
        BY <3>2, <3>3, <3>4
      <3>6. /\ \A r \in Runner : wrapper'[r] = "start" => intent' = r
            /\ \A r \in Runner : command'[r] = "running" => intent' = r /\ outcome'[r] # "exit"
        BY <3>2
      <3>7. \A r \in Runner : wrapper'[r] \in {"check", "record", "recorded"} \/ outcome'[r] = "exit" =>
                base'[r] < Phases /\ starts'[base'[r]] >= 1
        <4>1. ASSUME NEW r \in Runner, wrapper'[r] \in {"check", "record", "recorded"} \/ outcome'[r] = "exit"
              PROVE  base'[r] < Phases /\ starts'[base'[r]] >= 1
          <5>1. r # q
            BY <3>3, <4>1
          <5>2. base'[r] = base[r] /\ starts' = starts
            BY <3>2, <5>1
          <5>3. base[r] < Phases /\ starts[base[r]] >= 1
            BY <3>2, <4>1
          <5>4. QED
            BY <5>2, <5>3
        <4>2. QED
          BY <4>1
      <3>8. QED
        BY <3>5, <3>6, <3>7
    <2>3. RunnerInv'
      BY <1>11 DEF Inspect
    <2>4. PublishedIsComplete'
      BY <1>11 DEF Inspect
    <2>5. LeftoverInv'
      BY <1>11 DEF Inspect
    <2>6. QED
      BY <2>1, <2>2, <2>3, <2>4, <2>5
  <1>12. ASSUME NEW q \in Runner, Authorize(q) PROVE RunInv'
    <2>1. IntentInv'
      BY <1>12 DEF Authorize
    <2>2. WrapperInv'
      BY <1>12 DEF Authorize
    <2>3. RunnerInv'
      BY <1>12, SMTT(30) DEF Authorize
    <2>4. PublishedIsComplete'
      BY <1>12 DEF Authorize
    <2>5. LeftoverInv'
      BY <1>12 DEF Authorize
    <2>6. QED
      BY <2>1, <2>2, <2>3, <2>4, <2>5
  <1>13. ASSUME NEW q \in Runner, WriteIntent(q) PROVE RunInv'
    <2>1. IntentInv'
      BY <1>13 DEF WriteIntent
    <2>2. WrapperInv'
      BY <1>13 DEF WriteIntent
    <2>3. RunnerInv'
      BY <1>13 DEF WriteIntent
    <2>4. PublishedIsComplete'
      BY <1>13 DEF WriteIntent
    <2>5. LeftoverInv'
      BY <1>13 DEF WriteIntent
    <2>6. QED
      BY <2>1, <2>2, <2>3, <2>4, <2>5
  <1>14. ASSUME NEW q \in Runner, Spawn(q) PROVE RunInv'
    <2>1. IntentInv'
      BY <1>14 DEF Spawn
    <2>2. WrapperInv'
      BY <1>14 DEF Spawn
    <2>3. RunnerInv'
      BY <1>14 DEF Spawn
    <2>4. PublishedIsComplete'
      BY <1>14 DEF Spawn
    <2>5. LeftoverInv'
      BY <1>14 DEF Spawn
    <2>6. QED
      BY <2>1, <2>2, <2>3, <2>4, <2>5
  <1>15. ASSUME NEW q \in Runner, Collect(q) PROVE RunInv'
    <2>1. IntentInv'
      BY <1>15 DEF Collect
    <2>2. WrapperInv'
      BY <1>15 DEF Collect
    <2>3. RunnerInv'
      BY <1>15 DEF Collect
    <2>4. PublishedIsComplete'
      BY <1>15 DEF Collect
    <2>5. LeftoverInv'
      BY <1>15 DEF Collect
    <2>6. QED
      BY <2>1, <2>2, <2>3, <2>4, <2>5
  <1>16. ASSUME NEW q \in Runner, PublishSpool(q) PROVE RunInv'
    <2>1. IntentInv'
      BY <1>16 DEF PublishSpool
    <2>2. WrapperInv'
      BY <1>16 DEF PublishSpool
    <2>3. RunnerInv'
      BY <1>16 DEF PublishSpool
    <2>4. PublishedIsComplete'
      BY <1>16 DEF PublishSpool
    <2>5. LeftoverInv'
      BY <1>16 DEF PublishSpool
    <2>6. QED
      BY <2>1, <2>2, <2>3, <2>4, <2>5
  <1>17. ASSUME NEW q \in Runner, PublishCanonical(q) PROVE RunInv'
    <2>1. IntentInv'
      BY <1>17 DEF PublishCanonical
    <2>2. WrapperInv'
      BY <1>17 DEF PublishCanonical
    <2>3. RunnerInv'
      <3>1. /\ UNCHANGED <<alive, intent, spool, base, outcome, projection>>
            /\ q \in alive /\ pc[q] = "canonical"
            /\ \A r \in Runner : r # q => pc'[r] = pc[r]
            /\ \/ pc'[q] = "projection" /\ canonical' = TRUE /\ leftover' = leftover
               \/ pc'[q] = "undoSpool" /\ canonical' = TRUE /\ leftover' = TRUE
               \/ pc'[q] = "undoSpool" /\ canonical' = canonical /\ leftover' = leftover
        BY <1>17 DEF PublishCanonical
      <3>2. \A r \in alive : r # q => pc[r] \notin CriticalSteps
        BY <3>1
      <3>3. ASSUME NEW r \in alive', r # q PROVE RunnerInv!(r)'
        BY <3>1, <3>2, <3>3
      <3>4. RunnerInv!(q)'
        <4>1. /\ spool = Phases /\ Extended(q) = Phases /\ ~ canonical
              /\ base[q] = Phases \/ (intent = q /\ outcome[q] = "exit")
              /\ ~ leftover \/ base[q] = Phases
              /\ ~ leftover => ~ projection
          BY <3>1
        <4>2. Extended(q)' = Extended(q)
          BY <3>1
        <4> HIDE DEF TypeInv, TypeOK, LockInv, RunInv, IntentInv, WrapperInv, RunnerInv,
                     PublishedIsComplete, LeftoverInv, Extended
        <4>3. QED
          BY <3>1, <4>1, <4>2
      <3>5. QED
        BY <3>1, <3>3, <3>4
    <2>4. PublishedIsComplete'
      <3>1. /\ UNCHANGED <<spool, projection, starts>> /\ spool = Phases /\ ~ canonical
            /\ leftover' = leftover \/ leftover' = TRUE
        BY <1>17 DEF PublishCanonical
      <3>2. \A i \in 0..Phases - 1 : starts[i] = 1
        <4>1. ReceiptIsEarned /\ DOMAIN starts = 0..Phases - 1
          BY EarnedFromInv
        <4> HIDE DEF TypeInv, TypeOK, LockInv, RunInv, IntentInv, WrapperInv, RunnerInv
        <4>2. QED
          BY <3>1, <4>1 DEF ReceiptIsEarned
      <3>3. DOMAIN starts = 0..Phases - 1 /\ (~ leftover => ~ projection)
        BY <3>1
      <3>4. ~ leftover' => ~ projection'
        BY <3>1, <3>3
      <3> HIDE DEF TypeInv, TypeOK, LockInv, RunInv, IntentInv, WrapperInv, RunnerInv
      <3>5. ~ leftover' => (canonical' => spool' = Phases)
        BY <3>1
      <3>6. \A i \in DOMAIN starts' : starts'[i] = 1
        BY <3>1, <3>2, <3>3
      <3>7. QED
        BY <3>4, <3>5, <3>6
    <2>5. LeftoverInv'
      BY <1>17 DEF PublishCanonical
    <2>6. QED
      BY <2>1, <2>2, <2>3, <2>4, <2>5
  <1>18. ASSUME NEW q \in Runner, PublishProjection(q) PROVE RunInv'
    <2>1. IntentInv'
      BY <1>18 DEF PublishProjection
    <2>2. WrapperInv'
      BY <1>18 DEF PublishProjection
    <2>3. RunnerInv'
      BY <1>18, SMTT(30) DEF PublishProjection
    <2>4. PublishedIsComplete'
      BY <1>18 DEF PublishProjection
    <2>5. LeftoverInv'
      BY <1>18 DEF PublishProjection
    <2>6. QED
      BY <2>1, <2>2, <2>3, <2>4, <2>5
  <1>19. ASSUME NEW q \in Runner, Settle(q) PROVE RunInv'
    <2>1. IntentInv'
      BY <1>19 DEF Settle
    <2>2. WrapperInv'
      BY <1>19 DEF Settle
    <2>3. RunnerInv'
      BY <1>19 DEF Settle
    <2>4. PublishedIsComplete'
      BY <1>19 DEF Settle
    <2>5. LeftoverInv'
      BY <1>19 DEF Settle
    <2>6. QED
      BY <2>1, <2>2, <2>3, <2>4, <2>5
  <1>20. ASSUME NEW q \in Runner, ClearIntent(q) PROVE RunInv'
    <2>1. IntentInv'
      <3>1. intent' = NoRunner /\ spool' = spool /\ starts' = starts
        BY <1>20 DEF ClearIntent
      <3>2. \A i \in 0..Phases - 1 : starts[i] = IF i < spool THEN 1 ELSE 0
        <4>1. CASE intent = NoRunner
          BY <4>1
        <4>2. CASE intent # NoRunner
          <5>1. PICK s \in Runner : intent = s
            BY <4>2
          <5>2. spool = base[s] + 1 /\ base[s] < Phases /\ outcome[s] = "exit"
            BY <1>20, <5>1 DEF ClearIntent
          <5>3. base[s] \in 0..Phases - 1 /\ starts[base[s]] \in Nat
            <6>1. base \in [Runner -> 0..Phases] /\ starts \in [0..Phases - 1 -> Nat]
              BY DEF TypeInv
            <6> HIDE DEF TypeInv, LockInv, RunInv
            <6>2. base[s] \in 0..Phases - 1
              BY <5>2, <6>1
            <6>3. QED
              BY <6>1, <6>2
          <5>4. starts[base[s]] = 1
            BY <5>1, <5>2, <5>3
          <5>5. \A i \in 0..Phases - 1 : i # base[s] => starts[i] = IF i < base[s] THEN 1 ELSE 0
            BY <5>1
          <5>6. QED
            <6> HIDE DEF TypeInv, LockInv, RunInv
            <6>1. ASSUME NEW i \in 0..Phases - 1 PROVE starts[i] = IF i < spool THEN 1 ELSE 0
              <7>1. CASE i = base[s]
                BY <5>2, <5>3, <5>4, <7>1
              <7>2. CASE i # base[s]
                <8>1. i < spool <=> i < base[s]
                  <9>1. i \in Int /\ base[s] \in Int
                    BY <5>3
                  <9>2. QED
                    BY <5>2, <7>2, <9>1, Below
                <8>2. starts[i] = IF i < base[s] THEN 1 ELSE 0
                  BY <5>5, <7>2
                <8>3. QED
                  BY <8>1, <8>2
              <7>3. QED
                BY <7>1, <7>2
            <6>2. QED
              BY <6>1
        <4>3. QED
          BY <4>1, <4>2
      <3>3. QED
        BY <3>1, <3>2
    <2>2. WrapperInv'
      BY <1>20 DEF ClearIntent
    <2>3. RunnerInv'
      BY <1>20 DEF ClearIntent
    <2>4. PublishedIsComplete'
      BY <1>20 DEF ClearIntent
    <2>5. LeftoverInv'
      BY <1>20 DEF ClearIntent
    <2>6. QED
      BY <2>1, <2>2, <2>3, <2>4, <2>5
  <1>21. ASSUME NEW q \in Runner, UndoProjection(q) PROVE RunInv'
    BY <1>21 DEF UndoProjection
  <1>22. ASSUME NEW q \in Runner, UndoCanonical(q) PROVE RunInv'
    <2>1. IntentInv'
      BY <1>22 DEF UndoCanonical
    <2>2. WrapperInv'
      BY <1>22 DEF UndoCanonical
    <2>3. RunnerInv'
      BY <1>22 DEF UndoCanonical
    <2>4. PublishedIsComplete'
      BY <1>22 DEF UndoCanonical
    <2>5. LeftoverInv'
      BY <1>22 DEF UndoCanonical
    <2>6. QED
      BY <2>1, <2>2, <2>3, <2>4, <2>5
  <1>23. ASSUME NEW q \in Runner, UndoSpool(q) PROVE RunInv'
    <2>1. IntentInv'
      BY <1>23 DEF UndoSpool
    <2>2. WrapperInv'
      BY <1>23 DEF UndoSpool
    <2>3. RunnerInv'
      BY <1>23 DEF UndoSpool
    <2>4. PublishedIsComplete'
      <3>1. /\ UNCHANGED <<canonical, projection, starts>> /\ pc[q] = "undoSpool" /\ q \in alive
            /\ leftover' = leftover \/ leftover' = TRUE
            /\ spool' = base[q] \/ leftover' = TRUE
        BY <1>23 DEF UndoSpool
      <3>2. ~ canonical \/ leftover
        BY <3>1
      <3>3. QED
        BY <3>1, <3>2
    <2>5. LeftoverInv'
      <3>1. /\ UNCHANGED <<intent, outcome>> /\ pc[q] = "undoSpool" /\ q \in alive
            /\ spool' = base[q] \/ spool' = spool
        BY <1>23 DEF UndoSpool
      <3>2. (base[q] = Phases /\ spool = Phases) \/ (intent = q /\ outcome[q] = "exit")
        BY <3>1
      <3>3. QED
        BY <3>1, <3>2
    <2>6. QED
      BY <2>1, <2>2, <2>3, <2>4, <2>5
  <1>24. ASSUME NEW q \in Runner, StartCommand(q) PROVE RunInv'
    <2>1. IntentInv'
      BY <1>24 DEF StartCommand
    <2>2. WrapperInv'
      <3>1. wrapper[q] = "start" /\ intent = q /\ outcome[q] = "none" /\ base[q] \in 0..Phases - 1
        BY <1>24 DEF StartCommand
      <3>2. CASE wrapper' = [wrapper EXCEPT ![q] = "check"]
        <4>1. /\ UNCHANGED <<pc, intent, base, outcome>>
              /\ command' = [command EXCEPT ![q] = "running"]
              /\ starts' = [starts EXCEPT ![base[q]] = starts[base[q]] + 1]
          BY <1>24, <3>1, <3>2 DEF StartCommand
        <4>2. \A i \in 0..Phases - 1 : starts'[i] >= starts[i] /\ starts'[base[q]] >= 1
          BY <3>1, <4>1
        <4>3. QED
          BY <3>1, <3>2, <4>1, <4>2
      <3>3. CASE wrapper' = [wrapper EXCEPT ![q] = "ended"]
        BY <1>24, <3>1, <3>3 DEF StartCommand
      <3>4. QED
        BY <1>24, <3>2, <3>3 DEF StartCommand
    <2>3. RunnerInv'
      BY <1>24 DEF StartCommand
    <2>4. PublishedIsComplete'
      BY <1>24 DEF StartCommand
    <2>5. LeftoverInv'
      BY <1>24 DEF StartCommand
    <2>6. QED
      BY <2>1, <2>2, <2>3, <2>4, <2>5
  <1>25. ASSUME NEW q \in Runner, CheckLock(q) PROVE RunInv'
    BY <1>25 DEF CheckLock
  <1>26. ASSUME NEW q \in Runner, RecordChild(q) PROVE RunInv'
    BY <1>26 DEF RecordChild
  <1>27. ASSUME NEW q \in Runner, CommandEnds(q) PROVE RunInv'
    <2>1. IntentInv'
      BY <1>27 DEF CommandEnds
    <2>2. WrapperInv'
      BY <1>27 DEF CommandEnds
    <2>3. RunnerInv'
      BY <1>27 DEF CommandEnds
    <2>4. PublishedIsComplete'
      BY <1>27 DEF CommandEnds
    <2>5. LeftoverInv'
      BY <1>27 DEF CommandEnds
    <2>6. QED
      BY <2>1, <2>2, <2>3, <2>4, <2>5
  <1>28. ASSUME NEW q \in Runner, EndWrapper(q) PROVE RunInv'
    <2>1. IntentInv'
      <3>1. UNCHANGED <<intent, spool, base, starts>>
        BY <1>28 DEF EndWrapper
      <3>2. \A r \in Runner : r # q => wrapper'[r] = wrapper[r] /\ outcome'[r] = outcome[r]
        BY <1>28 DEF EndWrapper
      <3>3. wrapper[q] \in {"recorded", "reject"} /\ wrapper'[q] = "ended"
        BY <1>28 DEF EndWrapper
      <3>4. outcome[q] # "exit"
        BY <3>3
      <3>5. QED
        BY <3>1, <3>2, <3>3, <3>4, SMTT(30)
    <2>2. WrapperInv'
      BY <1>28 DEF EndWrapper
    <2>3. RunnerInv'
      <3>1. UNCHANGED <<intent, spool, base, pc, alive, canonical, projection, leftover>>
        BY <1>28 DEF EndWrapper
      <3>2. \A r \in Runner : r # q => outcome'[r] = outcome[r]
        BY <1>28 DEF EndWrapper
      <3>3. outcome[q] # "exit"
        BY <1>28 DEF EndWrapper
      <3>4. \A r \in Runner : outcome[r] = "exit" => outcome'[r] = "exit"
        BY <3>2, <3>3
      <3>5. RunnerInv
        OBVIOUS
      <3> HIDE DEF TypeInv, TypeOK, LockInv, RunInv, IntentInv, WrapperInv, PublishedIsComplete, LeftoverInv
      <3>6. alive \subseteq Runner
        BY DEF TypeInv, TypeOK, LockTypeOK
      <3>7. QED
        BY <3>1, <3>4, <3>5, <3>6
    <2>4. PublishedIsComplete'
      BY <1>28 DEF EndWrapper
    <2>5. LeftoverInv'
      BY <1>28 DEF EndWrapper
    <2>6. QED
      BY <2>1, <2>2, <2>3, <2>4, <2>5
  <1>29. ASSUME NEW q \in Runner, Crash(q) PROVE RunInv'
    BY <1>29 DEF Crash
  <1>30. ASSUME NEW q \in Runner, CrashWrapper(q) PROVE RunInv'
    <2>1. IntentInv'
      BY <1>30 DEF CrashWrapper
    <2>2. WrapperInv'
      BY <1>30 DEF CrashWrapper
    <2>3. RunnerInv'
      BY <1>30 DEF CrashWrapper
    <2>4. PublishedIsComplete'
      BY <1>30 DEF CrashWrapper
    <2>5. LeftoverInv'
      BY <1>30 DEF CrashWrapper
    <2>6. QED
      BY <2>1, <2>2, <2>3, <2>4, <2>5
  <1>31. CASE UNCHANGED vars
    BY <1>31 DEF vars
  <1>32. QED
    BY <1>1, <1>2, <1>3, <1>4, <1>5, <1>6, <1>7, <1>8, <1>9, <1>10, <1>11, <1>12, <1>13, <1>14,
       <1>15, <1>16, <1>17, <1>18, <1>19, <1>20, <1>21, <1>22, <1>23, <1>24, <1>25, <1>26, <1>27,
       <1>28, <1>29, <1>30, <1>31 DEF Next, LockStep, RunStep, WrapperStep

LEMMA RunInvariant == ASSUME OneMortal PROVE Spec => [](TypeInv /\ RunInv)
  <1>1. Init => TypeInv /\ LockInv /\ RunInv
    BY TypeInit, LockInit0, RunInit
  <1>2. TypeInv /\ LockInv /\ RunInv /\ [Next]_vars => (TypeInv /\ LockInv /\ RunInv)'
    BY OneMortal, TypeStep, LockInvStep, RunInvStep
  <1>3. QED
    BY <1>1, <1>2, PTL DEF Spec

\* However runners and wrappers die and are retried, the command of a frozen
\* phase is started at most once.
THEOREM StartedOnce == ASSUME OneMortal PROVE Spec => []AtMostOnce
  BY RunInvariant, EarnedFromInv, PTL

\* Exactly the recorded phases have been run, and at most one more.
THEOREM Earned == ASSUME OneMortal PROVE Spec => []ReceiptIsEarned
  BY RunInvariant, EarnedFromInv, PTL

\* Two commands of one task never run side by side.
THEOREM CommandsExclude == ASSUME OneMortal PROVE Spec => []OneCommand
  <1>1. RunInv => OneCommand
    BY DEF RunInv, WrapperInv, OneCommand
  <1>2. QED
    BY <1>1, RunInvariant, PTL

\* A receipt that is seen stands for phases that were all run, also when a rollback
\* failed; while none has, receipts and spool stay consistent in the middle of a
\* publication, of its rollback, and after a crash in either.
THEOREM PublishedComplete == ASSUME OneMortal PROVE Spec => []PublishedIsComplete
  <1>1. RunInv => PublishedIsComplete
    BY DEF RunInv
  <1>2. QED
    BY <1>1, RunInvariant, PTL

\* A receipt records what was run, and is seen only when all of it was.
THEOREM ReceiptTrue == ASSUME OneMortal PROVE Spec => []ReceiptIsTrue
  <1>1. ReceiptIsEarned /\ PublishedIsComplete => ReceiptIsTrue
    BY DEF ReceiptIsTrue
  <1>2. QED
    BY <1>1, Earned, PublishedComplete, PTL

\* One live runner, and every frozen command once and alone.
THEOREM RunOnce == ASSUME OneMortal PROVE Spec => []CommandsRunOnce
  <1>1. LockExclusive /\ AtMostOnce /\ OneCommand => CommandsRunOnce
    BY DEF CommandsRunOnce
  <1>2. QED
    BY <1>1, Exclusive, StartedOnce, CommandsExclude, PTL

(***************************************************************************)
(* TaskRun implements PhaseLog.  Every operation on the files maps to a    *)
(* step of the log or of its lock, or is not visible there.                *)
(***************************************************************************)
NotStarted == \A r \in Runner : wrapper[r] \in {"none", "start"} => command[r] = "none"

LEMMA NotStartedStep == TypeInv /\ NotStarted /\ [Next]_vars => NotStarted'
  <1> SUFFICES ASSUME TypeInv, NotStarted, [Next]_vars PROVE NotStarted'
    OBVIOUS
  <1>1. /\ wrapper \in [Runner -> WrapperSteps]
        /\ command \in [Runner -> {"none", "running", "over"}]
    BY DEF TypeInv, TypeOK, LockTypeOK
  <1>2. CASE UNCHANGED <<wrapper, command>>
    BY <1>2 DEF NotStarted
  <1>3. ASSUME NEW q \in Runner, Spawn(q) PROVE NotStarted'
    <2>1. wrapper[q] = "none"
      BY <1>3 DEF Spawn, At, TypeInv, BeforeSpawn
    <2>2. QED
      BY <1>1, <1>3, <2>1 DEF Spawn, NotStarted
  <1>4. ASSUME NEW q \in Runner, WrapperStep(q) \/ CrashWrapper(q) PROVE NotStarted'
    <2>1. wrapper'[q] \notin {"none", "start"} \/ (CommandEnds(q) /\ command[q] = "running")
      BY <1>1, <1>4 DEF WrapperStep, CrashWrapper, StartCommand, CheckLock, RecordChild, EndWrapper,
         CommandEnds, Wrapped
    <2>2. \A r \in Runner : r # q => wrapper'[r] = wrapper[r] /\ command'[r] = command[r]
      BY <1>1, <1>4 DEF WrapperStep, CrashWrapper, StartCommand, CheckLock, RecordChild, EndWrapper,
         CommandEnds, Wrapped, lockVars
    <2>3. CommandEnds(q) => wrapper' = wrapper
      BY DEF CommandEnds
    <2>4. QED
      BY <2>1, <2>2, <2>3 DEF NotStarted
  <1>5. QED
    BY <1>2, <1>3, <1>4 DEF Next, RunStep, LockStep, vars, lockVars, runVars, OpenLock, EnterGuard,
       DropGuard, Judge, Verify, Unlink, LeaveGuard, ClearOrphan, ReadOwnLock, RemoveLock, Inspect,
       Authorize, WriteIntent, Collect, PublishSpool, PublishCanonical, PublishProjection, Settle,
       ClearIntent, UndoProjection, UndoCanonical, UndoSpool, Crash, supervised

LogInvisible == UNCHANGED <<lock, alive, starts, command, spool, canonical, projection, leftover>>

LEMMA InvisibleStutters == LogInvisible => UNCHANGED <<Log!mutexVars, Log!logVars>>
  BY DEF LogInvisible, Log!mutexVars, Log!logVars

\* The lock of the task is a mutex whose dead holder may be replaced.
LEMMA LockStepMaps ==
    ASSUME TypeInv, LockInv, NEW q \in Runner, LockStep(q), UNCHANGED runVars
    PROVE  Log!LogNext \/ LogInvisible
  <1>1. UNCHANGED <<alive, command, starts, spool, canonical, projection, leftover>>
    BY DEF LockStep, runVars, OpenLock, EnterGuard, DropGuard, Judge, Verify, Unlink, LeaveGuard,
       ClearOrphan, ReadOwnLock, RemoveLock
  <1>2. UNCHANGED Log!logVars
    BY <1>1 DEF Log!logVars
  <1>3. Log!MutexNext \/ UNCHANGED lock
    <2>1. CASE OpenLock(q)
      BY <2>1, <1>1 DEF OpenLock, At, Log!MutexNext, Log!Take
    <2>2. CASE Unlink(q)
      <3>1. lock \in Runner \ alive
        BY <2>2 DEF Unlink, At, LockInv
      <3>2. QED
        BY <3>1, <2>2, <1>1, RunnerAssumption DEF Unlink, Log!MutexNext, Log!Reclaim
    <2>3. CASE RemoveLock(q)
      <3>1. q \in alive /\ lock = q
        BY <2>3 DEF RemoveLock, At, LockInv, CriticalSteps
      <3>2. QED
        BY <3>1, <2>3, <1>1 DEF RemoveLock, Log!MutexNext, Log!Give
    <2>4. CASE ~ OpenLock(q) /\ ~ Unlink(q) /\ ~ RemoveLock(q)
      BY <2>4 DEF LockStep, EnterGuard, DropGuard, Judge, Verify, LeaveGuard, ClearOrphan, ReadOwnLock
    <2>5. QED
      BY <2>1, <2>2, <2>3, <2>4
  <1>4. QED
    BY <1>1, <1>2, <1>3 DEF Log!LogNext, LogInvisible

\* A command starts when no other runs and all phases before it are recorded.
LEMMA WrapperStepMaps ==
    ASSUME TypeInv, RunInv, NotStarted, NEW q \in Runner, WrapperStep(q)
    PROVE  Log!LogNext \/ LogInvisible
  <1> DEFINE running == {r \in Runner : command[r] = "running"}
  <1>1. UNCHANGED <<lock, alive, spool, canonical, projection, leftover>>
    BY DEF WrapperStep, StartCommand, CheckLock, RecordChild, CommandEnds, EndWrapper, Wrapped,
       fileLock, receipts
  <1>2. UNCHANGED Log!mutexVars
    BY <1>1 DEF Log!mutexVars
  <1>3. command \in [Runner -> {"none", "running", "over"}]
    BY DEF TypeInv, TypeOK, LockTypeOK
  <1>4. CASE StartCommand(q) /\ UNCHANGED <<starts, command>>
    BY <1>1, <1>4 DEF LogInvisible
  <1>5. CASE StartCommand(q) /\ ~ UNCHANGED <<starts, command>>
    <2>1. /\ wrapper[q] = "start"
          /\ command' = [command EXCEPT ![q] = "running"]
          /\ starts' = [starts EXCEPT ![base[q]] = @ + 1]
      BY <1>5 DEF StartCommand, Wrapped
    <2>2. intent = q /\ outcome[q] = "none"
      BY <2>1 DEF RunInv, WrapperInv
    <2>3. base[q] < Phases /\ spool \in {base[q], base[q] + 1} /\ starts[base[q]] = 0
      BY <2>1, <2>2 DEF RunInv, IntentInv
    <2>4. spool = base[q]
      BY <2>2, <2>3 DEF RunInv, IntentInv
    <2>5. running = {}
      <3>1. ASSUME NEW r \in Runner, command[r] = "running" PROVE FALSE
        <4>1. r = q
          BY <3>1, <2>2 DEF RunInv, WrapperInv
        <4>2. QED
          BY <3>1, <4>1, <2>1 DEF NotStarted
      <3>2. QED
        BY <3>1
    <2>6. ~ leftover
      BY <2>2, <2>3, <2>4, PhasesAssumption DEF RunInv, LeftoverInv, TypeInv, TypeOK
    <2>10. {r \in Runner : command'[r] = "running"} = {q}
      BY <2>1, <2>5, <1>3
    <2>7. starts' = [starts EXCEPT ![spool] = 1]
      BY <2>1, <2>3, <2>4
    <2>8. Log!BeginPhase(q)
      BY <2>3, <2>4, <2>5, <2>6, <2>7, <2>10, <1>1 DEF Log!BeginPhase
    <2>9. QED
      BY <2>8, <1>2 DEF Log!LogNext
  <1>6. CASE CheckLock(q) \/ RecordChild(q)
    BY <1>1, <1>6 DEF CheckLock, RecordChild, LogInvisible
  <1>7. CASE CommandEnds(q) \/ EndWrapper(q)
    <2>1. command' = [command EXCEPT ![q] = "over"] /\ starts' = starts
      BY <1>7 DEF CommandEnds, EndWrapper
    <2>2. {r \in Runner : command'[r] = "running"} = running \ {q}
      BY <2>1, <1>3
    <2>3. Log!EndPhase(q)
      BY <2>1, <2>2, <1>1 DEF Log!EndPhase
    <2>4. QED
      BY <2>3, <1>2 DEF Log!LogNext
  <1>8. QED
    BY <1>4, <1>5, <1>6, <1>7 DEF WrapperStep

\* Receipts are extended, shown, hidden and taken back by the holder of the lock.
LEMMA RunStepMaps ==
    ASSUME TypeInv, LockInv, RunInv, NEW q \in Runner, RunStep(q)
    PROVE  Log!LogNext \/ LogInvisible
  <1> DEFINE running == {r \in Runner : command[r] = "running"}
  <1>1. UNCHANGED <<lock, alive, command, starts>>
    BY DEF RunStep, Inspect, Authorize, WriteIntent, Spawn, Collect, PublishSpool, PublishCanonical,
       PublishProjection, Settle, ClearIntent, UndoProjection, UndoCanonical, UndoSpool, fileLock,
       supervised
  <1>2. UNCHANGED Log!mutexVars
    BY <1>1 DEF Log!mutexVars
  <1>3. q \in alive /\ pc[q] \in CriticalSteps
    BY DEF RunStep, Inspect, Authorize, WriteIntent, Spawn, Collect, PublishSpool, PublishCanonical,
       PublishProjection, Settle, ClearIntent, UndoProjection, UndoCanonical, UndoSpool, At,
       CriticalSteps, RunSteps
  <1>4. lock \in alive
    BY <1>3 DEF LockInv
  <1>5. (Log!Record \/ Log!Withdraw) => Log!LogNext
    BY <1>2, <1>4 DEF Log!LogNext, Log!HolderStep
  <1>15. /\ Log!Spoil => Log!LogNext
         /\ \A place \in {"worktree", "checkout"} : Log!Show(place) \/ Log!Hide(place) => Log!LogNext
    BY <1>2, <1>4 DEF Log!LogNext, Log!HolderStep
  <1>6. /\ spool \in 0..Phases /\ base[q] \in 0..Phases /\ Phases \in Nat
        /\ canonical \in BOOLEAN /\ projection \in BOOLEAN /\ leftover \in BOOLEAN
        /\ starts \in [0..Phases - 1 -> Nat]
        /\ ~ leftover => (projection => canonical)
    BY PhasesAssumption DEF TypeInv, TypeOK, RunInv, PublishedIsComplete
  \* The runner of the intent has seen its command end.
  <1>7. ASSUME intent = q, outcome[q] = "exit"
        PROVE  /\ running = {} /\ base[q] < Phases /\ starts[base[q]] = 1
               /\ \A i \in 0..Phases - 1 : i > base[q] => starts[i] = 0
    <2>1. base[q] < Phases /\ starts[base[q]] <= 1 /\ starts[base[q]] >= 1
      BY <1>7 DEF RunInv, IntentInv, WrapperInv
    <2>2. starts[base[q]] \in Nat
      BY <2>1, <1>6
    <2>3. \A i \in 0..Phases - 1 : i > base[q] => starts[i] = 0
      <3>1. \A i \in 0..Phases - 1 : i # base[q] => starts[i] = IF i < base[q] THEN 1 ELSE 0
        BY <1>7 DEF RunInv, IntentInv
      <3>2. QED
        BY <3>1, <1>6
    <2>4. running = {}
      BY <1>7 DEF RunInv, WrapperInv
    <2>5. QED
      BY <2>1, <2>2, <2>3, <2>4
  <1>8. CASE PublishSpool(q)
    <2>1. UNCHANGED <<canonical, projection, leftover>> /\ (spool' = spool \/ spool' = Extended(q))
      BY <1>8 DEF PublishSpool
    <2>2. /\ spool = base[q] /\ ~ canonical
          /\ base[q] = Phases \/ (intent = q /\ outcome[q] = "exit" /\ ~ leftover)
      BY <1>3, <1>8 DEF PublishSpool, At, RunInv, RunnerInv
    <2>3. CASE spool' = spool
      BY <2>1, <2>3, <1>1 DEF LogInvisible
    <2>4. CASE spool' # spool
      <3>1. base[q] # Phases /\ spool' = spool + 1
        BY <2>1, <2>2, <2>4 DEF Extended
      <3>2. ~ leftover /\ ~ projection
        BY <3>1, <2>2, <1>6
      <3>3. Log!Record
        BY <3>1, <3>2, <2>1, <2>2, <1>1, <1>6, <1>7 DEF Log!Record
      <3>4. QED
        BY <3>3, <1>5
    <2>5. QED
      BY <2>3, <2>4
  <1>9. CASE UndoSpool(q)
    <2>1. /\ UNCHANGED <<canonical, projection>>
          /\ (spool' = base[q] /\ leftover' = leftover) \/ (spool' = spool /\ leftover' = TRUE)
      BY <1>9 DEF UndoSpool
    <2>2. /\ base[q] = Phases \/ (intent = q /\ outcome[q] = "exit")
      BY <1>3, <1>9 DEF UndoSpool, At, RunInv, RunnerInv
    <2>3. CASE spool' = spool /\ leftover' = TRUE
      BY <2>1, <2>3, <1>1, <1>15 DEF Log!Spoil
    <2>4. CASE spool' = base[q] /\ leftover' = leftover /\ base[q] = Phases
      BY <2>1, <2>2, <2>4, <1>1, <1>3, <1>9 DEF LogInvisible, Extended, UndoSpool, At, RunInv, RunnerInv
    <2>5. CASE spool' = base[q] /\ leftover' = leftover /\ base[q] # Phases
      <3>1. spool = base[q] + 1
        BY <2>5, <1>3, <1>9 DEF Extended, UndoSpool, At, RunInv, RunnerInv
      <3>2. (~ canonical /\ ~ projection) \/ leftover
        BY <1>6, <1>3, <1>9 DEF UndoSpool, At, RunInv, RunnerInv
      <3>3. Log!Withdraw
        BY <3>1, <3>2, <2>1, <2>2, <2>5, <1>1, <1>6, <1>7 DEF Log!Withdraw
      <3>4. QED
        BY <3>3, <1>5
    <2>6. QED
      BY <2>1, <2>3, <2>4, <2>5
  <1>10. CASE PublishCanonical(q)
    <2>1. /\ UNCHANGED <<spool, projection>>
          /\ UNCHANGED <<canonical, leftover>> \/ (canonical' = TRUE /\ leftover' \in {leftover, TRUE})
      BY <1>10 DEF PublishCanonical
    <2>2. spool = Phases
      BY <1>3, <1>10 DEF PublishCanonical, At, RunInv, RunnerInv
    <2>3. CASE UNCHANGED <<canonical, leftover>>
      BY <2>1, <2>3, <1>1 DEF LogInvisible
    <2>4. CASE canonical' = TRUE /\ leftover' \in {leftover, TRUE}
      BY <2>1, <2>2, <2>4, <1>1, <1>15 DEF Log!Show
    <2>5. QED
      BY <2>1, <2>3, <2>4
  <1>11. CASE PublishProjection(q)
    <2>1. /\ UNCHANGED <<spool, canonical>>
          /\ UNCHANGED <<projection, leftover>> \/ (projection' = TRUE /\ leftover' \in {leftover, TRUE})
      BY <1>11 DEF PublishProjection
    <2>2. spool = Phases /\ canonical
      BY <1>3, <1>11 DEF PublishProjection, At, RunInv, RunnerInv
    <2>3. CASE UNCHANGED <<projection, leftover>>
      BY <2>1, <2>3, <1>1 DEF LogInvisible
    <2>4. CASE projection' = TRUE /\ leftover' \in {leftover, TRUE}
      BY <2>1, <2>2, <2>4, <1>1, <1>15 DEF Log!Show
    <2>5. QED
      BY <2>1, <2>3, <2>4
  <1>12. CASE UndoProjection(q)
    <2>1. /\ UNCHANGED <<spool, canonical>>
          /\ (projection' = FALSE /\ leftover' = leftover) \/ (projection' = projection /\ leftover' = TRUE)
      BY <1>12 DEF UndoProjection
    <2>2. CASE projection' = FALSE /\ leftover' = leftover
      BY <2>1, <2>2, <1>1, <1>15 DEF Log!Hide
    <2>3. CASE projection' = projection /\ leftover' = TRUE
      BY <2>1, <2>3, <1>1, <1>15 DEF Log!Spoil
    <2>4. QED
      BY <2>1, <2>2, <2>3
  <1>13. CASE UndoCanonical(q)
    <2>1. /\ UNCHANGED <<spool, projection>>
          /\ (canonical' = FALSE /\ leftover' = leftover) \/ (canonical' = canonical /\ leftover' = TRUE)
      BY <1>13 DEF UndoCanonical
    <2>2. ~ projection \/ leftover
      BY <1>3, <1>13 DEF UndoCanonical, At, RunInv, RunnerInv
    <2>3. CASE canonical' = FALSE /\ leftover' = leftover
      BY <2>1, <2>2, <2>3, <1>1, <1>15 DEF Log!Hide
    <2>4. CASE canonical' = canonical /\ leftover' = TRUE
      BY <2>1, <2>4, <1>1, <1>15 DEF Log!Spoil
    <2>5. QED
      BY <2>1, <2>3, <2>4
  <1>14. CASE \/ Inspect(q) \/ Authorize(q) \/ WriteIntent(q) \/ Spawn(q) \/ Collect(q)
              \/ Settle(q) \/ ClearIntent(q)
    BY <1>14, <1>1 DEF LogInvisible, Inspect, Authorize, WriteIntent, Spawn, Collect, Settle,
       ClearIntent, receipts
  <1>16. QED
    BY <1>8, <1>9, <1>10, <1>11, <1>12, <1>13, <1>14 DEF RunStep

LEMMA StepMaps ==
    ASSUME TypeInv, LockInv, RunInv, NotStarted, [Next]_vars
    PROVE  [Log!LogNext]_<<Log!mutexVars, Log!logVars>>
  <1>1. Log!LogNext \/ LogInvisible
    <2>1. CASE UNCHANGED vars
      BY <2>1 DEF vars, lockVars, runVars, LogInvisible
    <2>2. ASSUME NEW q \in Runner, LockStep(q), UNCHANGED runVars PROVE Log!LogNext \/ LogInvisible
      BY <2>2, LockStepMaps
    <2>3. ASSUME NEW q \in Runner, RunStep(q) PROVE Log!LogNext \/ LogInvisible
      BY <2>3, RunStepMaps
    <2>4. ASSUME NEW q \in Runner, WrapperStep(q) PROVE Log!LogNext \/ LogInvisible
      BY <2>4, WrapperStepMaps
    <2>5. ASSUME NEW q \in Runner, Crash(q) PROVE Log!LogNext \/ LogInvisible
      <3>1. UNCHANGED Log!logVars /\ Log!Die(q)
        BY <2>5 DEF Crash, runVars, Log!logVars, Log!Die
      <3>2. QED
        BY <3>1 DEF Log!LogNext, Log!MutexNext
    <2>6. ASSUME NEW q \in Runner, CrashWrapper(q) PROVE Log!LogNext \/ LogInvisible
      BY <2>6 DEF CrashWrapper, lockVars, receipts, LogInvisible
    <2>7. QED
      BY <2>1, <2>2, <2>3, <2>4, <2>5, <2>6 DEF Next
  <1>2. QED
    BY <1>1, InvisibleStutters

\* With one runner that can die, all invocations for one execute run together are
\* one phase log: a mutex, commands that start once, alone and in order, and records
\* that only their holder makes, takes back and shows; a rollback that failed ends
\* the starting and the recording.
THEOREM RunRefinement == ASSUME OneMortal PROVE Spec => RunsArePhaseLog
  <1>1. Init => TypeInv /\ LockInv /\ RunInv /\ NotStarted
    BY TypeInit, LockInit0, RunInit DEF Init, LockInit, NotStarted
  <1>2. TypeInv /\ LockInv /\ RunInv /\ NotStarted /\ [Next]_vars
          => (TypeInv /\ LockInv /\ RunInv /\ NotStarted)'
    BY OneMortal, TypeStep, LockInvStep, RunInvStep, NotStartedStep
  <1>3. Init => Log!MutexInit /\ Log!LogInit
    BY DEF Init, LockInit, Log!MutexInit, Log!LogInit
  <1>4. TypeInv /\ LockInv /\ RunInv /\ NotStarted /\ [Next]_vars
          => [Log!LogNext]_<<Log!mutexVars, Log!logVars>>
    BY StepMaps
  <1>5. QED
    BY <1>1, <1>2, <1>3, <1>4, PTL DEF Spec, RunsArePhaseLog, Log!LogSpec
==============================================================================
