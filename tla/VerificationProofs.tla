-------------------------- MODULE VerificationProofs --------------------------
(***************************************************************************)
(* Theorems about the last two stages, whose evidence is made by commands  *)
(* that run and files that are copied: about Verification, for every set   *)
(* of test cases, every number of runs and any commands, workers and       *)
(* finalizers that are killed, and about TaskIntegration, for any tasks    *)
(* and paths and any copies that fail and integrations that are killed.    *)
(***************************************************************************)
EXTENDS Verification, TaskIntegration, TLAPS

(***************************************************************************)
(* The inductive invariant adds to RunsAreWhole what the processes at work *)
(* have already written: a command that comes to its evidence has written  *)
(* its logs; a report names a run with evidence for every test case, so no *)
(* command of it is at work when its result is stored; and a finalizer     *)
(* that writes has a receipt, about the version of validation.md it took,  *)
(* for every test case it is done with.                                    *)
(***************************************************************************)
LogsPrecedeEvidence ==
    \A tc \in TC : command[tc] # NoCommand /\ command[tc].step = "logged"
                      => <<command[tc].run, tc>> \in outputs

EvidencePrecedesReport ==
    /\ \A tc \in TC : command[tc] # NoCommand
          => \A e \in evidence : e.tc = tc => e.run # command[tc].run
    /\ validation.run # 0 => \A tc \in TC : \E e \in evidence : e.run = validation.run /\ e.tc = tc
    /\ finalizer # NoFinalizer => finalizer.run = validation.run

FinalizerProgress ==
    finalizer # NoFinalizer =>
        /\ finalizer.step = "read" => finalizer.todo = TC
        /\ \A tc \in TC \ finalizer.todo :
              \E q \in receipts : /\ q.run = finalizer.run /\ q.tc = tc
                                  /\ q.validation = finalizer.bound

VInv == RunsAreWhole /\ LogsPrecedeEvidence /\ EvidencePrecedesReport /\ FinalizerProgress

LEMMA VInit == Init => VInv
  <1> SUFFICES ASSUME Init PROVE VInv
    OBVIOUS
  <1> USE BoundAssumption, NoneAssumption DEF Init
  <1>1. TypeOK
    BY DEF TypeOK, Validation, Rows, Status
  <1>2. WorkIsOnTheLastRun /\ RecordsAreUnique /\ ResultsAreWhole
    BY DEF WorkIsOnTheLastRun, RecordsAreUnique, ResultsAreWhole
  <1>3. LogsPrecedeEvidence /\ EvidencePrecedesReport /\ FinalizerProgress
    BY DEF LogsPrecedeEvidence, EvidencePrecedesReport, FinalizerProgress
  <1>4. QED
    BY <1>1, <1>2, <1>3 DEF VInv, RunsAreWhole

\* A run that goes on to another step is still one of the runs.
LEMMA RunUpdated ==
    ASSUME TypeOK, NEW r \in DOMAIN run,
           NEW step \in {"working", "gone", "delivered", "reviewed"},
           NEW res \in Validation \union {NoResult}
    PROVE  /\ [run EXCEPT ![r].step = step] \in Seq(ExecuteRun)
           /\ Len([run EXCEPT ![r].step = step]) = Len(run)
           /\ [run EXCEPT ![r].step = step, ![r].result = res] \in Seq(ExecuteRun)
           /\ Len([run EXCEPT ![r].step = step, ![r].result = res]) = Len(run)
  <1> DEFINE h == [run[r] EXCEPT !.step = step]
             g == [h EXCEPT !.result = res]
  <1>1. run \in Seq(ExecuteRun) /\ run[r] \in ExecuteRun
    BY DEF TypeOK
  <1>2. h \in ExecuteRun
    BY <1>1 DEF ExecuteRun
  <1>3. g \in ExecuteRun
    BY <1>2 DEF ExecuteRun
  <1>4. [run EXCEPT ![r].step = step] = [run EXCEPT ![r] = h]
    BY <1>1
  <1>5. [run EXCEPT ![r].step = step, ![r].result = res] = [run EXCEPT ![r] = g]
    BY <1>1
  <1> HIDE DEF h, g
  <1> QED
    BY <1>1, <1>2, <1>3, <1>4, <1>5

\* The steps of a command change its own entry of the lock table only.
LEMMA CommandUpdated ==
    ASSUME TypeOK, NEW tc \in TC, command[tc] # NoCommand,
           NEW step \in {"locked", "ran", "logged"}, NEW pass \in BOOLEAN
    PROVE  /\ [command EXCEPT ![tc].step = step] \in [TC -> CommandLock \union {NoCommand}]
           /\ [command EXCEPT ![tc].step = step, ![tc].pass = pass]
                  \in [TC -> CommandLock \union {NoCommand}]
           /\ [command EXCEPT ![tc] = NoCommand] \in [TC -> CommandLock \union {NoCommand}]
  <1> DEFINE c == [command[tc] EXCEPT !.step = step]
             d == [c EXCEPT !.pass = pass]
  <1>1. command \in [TC -> CommandLock \union {NoCommand}] /\ command[tc] \in CommandLock
    BY DEF TypeOK
  <1>2. c \in CommandLock
    BY <1>1 DEF CommandLock
  <1>3. d \in CommandLock
    BY <1>2 DEF CommandLock
  <1>4. [command EXCEPT ![tc].step = step] = [command EXCEPT ![tc] = c]
    BY <1>1
  <1>5. [command EXCEPT ![tc].step = step, ![tc].pass = pass] = [command EXCEPT ![tc] = d]
    BY <1>1
  <1> HIDE DEF c, d
  <1> QED
    BY <1>1, <1>2, <1>3, <1>4, <1>5

\* The finalizer crosses a test case off.
LEMMA FinalizerTyped ==
    ASSUME TypeOK, finalizer # NoFinalizer
    PROVE  /\ finalizer.run \in 1 .. MaxRuns
           /\ finalizer.rows \in Validation /\ finalizer.bound \in Validation
           /\ \A tc \in TC : [finalizer EXCEPT !.todo = @ \ {tc}] \in FinalizerWork
  BY DEF TypeOK, FinalizerWork

\* The route goes on only from a last run that is there and checks itself.
LEMMA LastRun ==
    ASSUME TypeOK, Route # "produce"
    PROVE  /\ Len(run) \in DOMAIN run /\ SelfChecked(Len(run))
           /\ Route = "review" => run[Len(run)].step = "delivered"
           /\ Route = "transition" => run[Len(run)].step # "delivered"
  BY DEF TypeOK, Route

\* Every step keeps the types.
LEMMA TypeStep == TypeOK /\ WorkIsOnTheLastRun /\ [Next]_vars => TypeOK'
  <1> SUFFICES ASSUME TypeOK /\ WorkIsOnTheLastRun, [Next]_vars PROVE TypeOK'
    OBVIOUS
  <1> USE BoundAssumption, NoneAssumption DEF TypeOK
  <1>1. ASSUME CreateRun PROVE TypeOK'
    BY <1>1 DEF CreateRun, ExecuteRun
  <1>2. ASSUME Review PROVE TypeOK'
    <2>1. run' \in Seq(ExecuteRun) /\ Len(run') = Len(run)
      BY <1>2, LastRun, RunUpdated DEF Review
    <2> QED
      BY <1>2, <2>1 DEF Review
  <1>3. ASSUME Seal PROVE TypeOK'
    BY <1>3 DEF Seal, Route, Open
  <1>4. ASSUME FinalizeCheck PROVE TypeOK'
    BY <1>4 DEF FinalizeCheck, FinalizerWork
  <1>5. ASSUME NEW tc \in TC, WriteReceipt(tc) PROVE TypeOK'
    <2>1. Row(finalizer.rows, tc) \in [status : Status, run : 0 .. MaxRuns]
      BY <1>5, FinalizerTyped DEF WriteReceipt, Row, Validation, Rows
    <2>2. [run |-> finalizer.run, tc |-> tc, row |-> Row(finalizer.rows, tc),
            validation |-> finalizer.bound] \in Receipt
      BY <1>5, <2>1, FinalizerTyped DEF WriteReceipt, Receipt
    <2>3. receipts' \subseteq Receipt
      BY <1>5, <2>2 DEF WriteReceipt, Row
    <2>4. finalizer' \in FinalizerWork \union {NoFinalizer}
      BY <1>5, FinalizerTyped DEF WriteReceipt, Row
    <2> QED
      BY <1>5, <2>1, <2>2, <2>3, <2>4 DEF WriteReceipt, Row
  <1>6. ASSUME Deliver PROVE TypeOK'
    <2>1. finalizer.run \in DOMAIN run /\ validation \in Validation \union {NoResult}
      BY <1>6 DEF Deliver, Working, WorkIsOnTheLastRun, TypeOK
    <2>2. run' \in Seq(ExecuteRun) /\ Len(run') = Len(run)
      BY <1>6, <2>1, RunUpdated DEF Deliver, Working, WorkIsOnTheLastRun, TypeOK
    <2> QED
      BY <1>6, <2>1, <2>2 DEF Deliver
  <1>7. ASSUME NEW tc \in TC, NEW pass \in BOOLEAN, RunCommand(tc, pass) PROVE TypeOK'
    <2>1. [command EXCEPT ![tc].step = "ran",
            ![tc].pass = pass] \in [TC -> CommandLock \union {NoCommand}]
      BY <1>7, CommandUpdated DEF RunCommand, Unlock, GoesWrong
    <2>2. [command EXCEPT ![tc] = NoCommand] \in [TC -> CommandLock \union {NoCommand}]
      BY <1>7 DEF RunCommand, Unlock, GoesWrong
    <2>3. command' \in [TC -> CommandLock \union {NoCommand}]
      BY <1>7, <2>1, <2>2 DEF RunCommand, Unlock, GoesWrong
    <2>4. trouble' \in 0 .. MaxTrouble /\ documents \in 1 .. trouble' + 1
      BY <1>7 DEF RunCommand, Unlock, GoesWrong
    <2> QED
      BY <1>7, <2>1, <2>2, <2>3, <2>4 DEF RunCommand, Unlock, GoesWrong
  <1>8. ASSUME NEW tc \in TC, KillCommand(tc) PROVE TypeOK'
    BY <1>8 DEF KillCommand, Unlock, GoesWrong
  <1>9. ASSUME NEW tc \in TC, NEW status \in Status, EditValidation(tc, status) PROVE TypeOK'
    <2>1. validation.run \in 0 .. MaxRuns /\ [validation.cover EXCEPT ![tc] = status] \in Rows
      BY <1>9 DEF EditValidation, GoesWrong, Open, Validation, Rows
    <2>2. validation' = [run |-> validation.run,
            cover |-> [validation.cover EXCEPT ![tc] = status]]
      BY <1>9 DEF EditValidation, GoesWrong, Open, Validation, Rows
    <2>3. validation' \in Validation
      BY <1>9, <2>1, <2>2 DEF EditValidation, GoesWrong, Open, Validation, Rows
    <2> QED
      BY <1>9, <2>1, <2>2, <2>3 DEF EditValidation, GoesWrong, Open
  <1>10. ASSUME KillFinalizer PROVE TypeOK'
    BY <1>10 DEF KillFinalizer, GoesWrong
  <1>11. ASSUME EditDocuments PROVE TypeOK'
    BY <1>11 DEF EditDocuments, GoesWrong, Open
  <1>12. ASSUME NEW r \in 1 .. MaxRuns, KillWorker(r) PROVE TypeOK'
    <2>1. r \in DOMAIN run
      BY <1>12 DEF KillWorker, GoesWrong, Stop, Working
    <2>2. run' \in Seq(ExecuteRun) /\ Len(run') = Len(run)
      BY <1>12, <2>1, RunUpdated DEF KillWorker, GoesWrong, Stop, Working
    <2>3. command' \in [TC -> CommandLock \union {NoCommand}]
      BY <1>12 DEF KillWorker, GoesWrong, Stop, Working
    <2>4. trouble' \in 0 .. MaxTrouble /\ documents \in 1 .. trouble' + 1
      BY <1>12 DEF KillWorker, GoesWrong, Stop, Working
    <2> QED
      BY <1>12, <2>1, <2>2, <2>3, <2>4 DEF KillWorker, GoesWrong, Stop, Working
  <1>13. ASSUME NEW r \in 1 .. MaxRuns, FinalizeRead(r) PROVE TypeOK'
    BY <1>13 DEF FinalizeRead, Working, FinalizerWork
  <1>14. ASSUME NEW r \in 1 .. MaxRuns, WriteValidation(r) PROVE TypeOK'
    BY <1>14 DEF WriteValidation, Working, Report, Status, Rows, Validation
  <1>15. ASSUME NEW r \in 1 .. MaxRuns, GiveUp(r) PROVE TypeOK'
    <2>1. r \in DOMAIN run
      BY <1>15 DEF GiveUp, Stop, Working
    <2>2. run' \in Seq(ExecuteRun) /\ Len(run') = Len(run)
      BY <1>15, <2>1, RunUpdated DEF GiveUp, Stop, Working
    <2>3. command' \in [TC -> CommandLock \union {NoCommand}]
      BY <1>15 DEF GiveUp, Stop, Working
    <2>4. trouble' \in 0 .. MaxTrouble /\ documents \in 1 .. trouble' + 1
      BY <1>15 DEF GiveUp, Stop, Working
    <2> QED
      BY <1>15, <2>1, <2>2, <2>3, <2>4 DEF GiveUp, Stop, Working
  <1>16. ASSUME NEW r \in 1 .. MaxRuns, NEW tc \in TC, StartCommand(r, tc) PROVE TypeOK'
    BY <1>16 DEF StartCommand, Working, CommandLock
  <1>17. ASSUME NEW tc \in TC, WriteOutputs(tc) PROVE TypeOK'
    <2>1. [command EXCEPT ![tc].step = "logged"] \in [TC -> CommandLock \union {NoCommand}]
      BY <1>17, CommandUpdated DEF WriteOutputs, Unlock
    <2>2. [command EXCEPT ![tc] = NoCommand] \in [TC -> CommandLock \union {NoCommand}]
      BY <1>17 DEF WriteOutputs, Unlock
    <2>3. command' \in [TC -> CommandLock \union {NoCommand}]
      BY <1>17, <2>1, <2>2 DEF WriteOutputs, Unlock
    <2>4. outputs' \subseteq (1 .. MaxRuns) \X TC
      BY <1>17 DEF WriteOutputs, Unlock, CommandLock
    <2> QED
      BY <1>17, <2>1, <2>2, <2>3, <2>4 DEF WriteOutputs, Unlock
  <1>18. ASSUME NEW tc \in TC, WriteEvidence(tc) PROVE TypeOK'
    BY <1>18 DEF WriteEvidence, Unlock, Evidence, CommandLock
  <1>19. CASE UNCHANGED vars
    BY <1>19 DEF vars
  <1>20. QED
    BY <1>1, <1>2, <1>3, <1>4, <1>5, <1>6, <1>7, <1>8, <1>9, <1>10, <1>11, <1>12, <1>13, <1>14,
      <1>15, <1>16, <1>17, <1>18, <1>19 DEF Next, CommandStep, FinalizerStep, Trouble

\* No step leaves a command or a finalizer behind a run that is not worked on.
LEMMA WorkStep == TypeOK /\ WorkIsOnTheLastRun /\ EvidencePrecedesReport /\ [Next]_vars
  => WorkIsOnTheLastRun'
  <1> SUFFICES ASSUME TypeOK /\ WorkIsOnTheLastRun /\ EvidencePrecedesReport, [Next]_vars
    PROVE WorkIsOnTheLastRun'
    OBVIOUS
  <1> USE BoundAssumption, NoneAssumption DEF WorkIsOnTheLastRun, Working, TypeOK, ExecuteRun,
    CommandLock, FinalizerWork
  <1>1. ASSUME CreateRun PROVE WorkIsOnTheLastRun'
    BY <1>1, SMTT(30) DEF CreateRun
  <1>2. ASSUME Review PROVE WorkIsOnTheLastRun'
    BY <1>2 DEF Review, Route, Open
  <1>3. ASSUME Seal PROVE WorkIsOnTheLastRun'
    BY <1>3 DEF Seal, Route, Open
  <1>4. ASSUME FinalizeCheck PROVE WorkIsOnTheLastRun'
    BY <1>4 DEF FinalizeCheck
  <1>5. ASSUME NEW tc \in TC, WriteReceipt(tc) PROVE WorkIsOnTheLastRun'
    BY <1>5 DEF WriteReceipt
  <1>6. ASSUME Deliver PROVE WorkIsOnTheLastRun'
    <2>1. finalizer.run \in DOMAIN run /\ validation \in Validation
      BY <1>6 DEF Deliver
    <2>2. Len(run') = Len(run) /\ DOMAIN run' = DOMAIN run
      BY <1>6, <2>1, RunUpdated DEF Deliver
    <2>3. \A tc \in TC : command[tc] # NoCommand => command[tc].run # finalizer.run
      BY <1>6 DEF Deliver, EvidencePrecedesReport, Judged
    <2>4. \A tc \in TC : command'[tc] # NoCommand
            => command'[tc].run \in DOMAIN run' /\ run'[command'[tc].run].step = "working"
      BY <1>6, <2>2, <2>3 DEF Deliver
    <2>5. \A r \in DOMAIN run' : run'[r].result # NoResult <=> run'[r].step \in {"delivered",
            "reviewed"}
      BY <1>6, <2>1, <2>2 DEF Deliver
    <2>6. \A r \in DOMAIN run' : run'[r].step = "working" => r = Len(run')
      BY <1>6, <2>1, <2>2 DEF Deliver
    <2> QED
      BY <1>6, <2>1, <2>2, <2>3, <2>4, <2>5, <2>6 DEF Deliver
  <1>7. ASSUME NEW tc \in TC, NEW pass \in BOOLEAN, RunCommand(tc, pass)
          PROVE WorkIsOnTheLastRun'
    BY <1>7, SMTT(30) DEF RunCommand, Unlock, GoesWrong
  <1>8. ASSUME NEW tc \in TC, KillCommand(tc) PROVE WorkIsOnTheLastRun'
    BY <1>8 DEF KillCommand, Unlock, GoesWrong
  <1>9. ASSUME NEW tc \in TC, NEW status \in Status, EditValidation(tc, status)
          PROVE WorkIsOnTheLastRun'
    BY <1>9 DEF EditValidation, GoesWrong, Open
  <1>10. ASSUME KillFinalizer PROVE WorkIsOnTheLastRun'
    BY <1>10 DEF KillFinalizer, GoesWrong
  <1>11. ASSUME EditDocuments PROVE WorkIsOnTheLastRun'
    BY <1>11 DEF EditDocuments, GoesWrong, Open
  <1>12. ASSUME NEW r \in 1 .. MaxRuns, KillWorker(r) PROVE WorkIsOnTheLastRun'
    BY <1>12 DEF KillWorker, GoesWrong, Stop, Working
  <1>13. ASSUME NEW r \in 1 .. MaxRuns, FinalizeRead(r) PROVE WorkIsOnTheLastRun'
    BY <1>13 DEF FinalizeRead, Working
  <1>14. ASSUME NEW r \in 1 .. MaxRuns, WriteValidation(r) PROVE WorkIsOnTheLastRun'
    BY <1>14 DEF WriteValidation, Working, Report
  <1>15. ASSUME NEW r \in 1 .. MaxRuns, GiveUp(r) PROVE WorkIsOnTheLastRun'
    BY <1>15 DEF GiveUp, Stop, Working
  <1>16. ASSUME NEW r \in 1 .. MaxRuns, NEW tc \in TC, StartCommand(r, tc)
           PROVE WorkIsOnTheLastRun'
    BY <1>16 DEF StartCommand, Working
  <1>17. ASSUME NEW tc \in TC, WriteOutputs(tc) PROVE WorkIsOnTheLastRun'
    <2>1. \A c \in TC : command'[c] # NoCommand => command[c] # NoCommand
            /\ command'[c].run = command[c].run
      BY <1>17, SMTT(30) DEF WriteOutputs, Unlock
    <2> QED
      BY <1>17, <2>1 DEF WriteOutputs, Unlock
  <1>18. ASSUME NEW tc \in TC, WriteEvidence(tc) PROVE WorkIsOnTheLastRun'
    BY <1>18 DEF WriteEvidence, Unlock
  <1>19. CASE UNCHANGED vars
    BY <1>19 DEF vars
  <1>20. QED
    BY <1>1, <1>2, <1>3, <1>4, <1>5, <1>6, <1>7, <1>8, <1>9, <1>10, <1>11, <1>12, <1>13, <1>14,
      <1>15, <1>16, <1>17, <1>18, <1>19 DEF Next, CommandStep, FinalizerStep, Trouble

\* A report and a finalizer stay those of a run with all its evidence.
LEMMA ReportStep == TypeOK /\ EvidencePrecedesReport /\ [Next]_vars => EvidencePrecedesReport'
  <1> SUFFICES ASSUME TypeOK /\ EvidencePrecedesReport, [Next]_vars
    PROVE EvidencePrecedesReport'
    OBVIOUS
  <1> USE BoundAssumption, NoneAssumption DEF EvidencePrecedesReport, Judged, Report, TypeOK,
    CommandLock, FinalizerWork, Validation
  <1>1. ASSUME CreateRun PROVE EvidencePrecedesReport'
    BY <1>1 DEF CreateRun
  <1>2. ASSUME Review PROVE EvidencePrecedesReport'
    BY <1>2 DEF Review, Route, Open
  <1>3. ASSUME Seal PROVE EvidencePrecedesReport'
    BY <1>3 DEF Seal, Route, Open
  <1>4. ASSUME FinalizeCheck PROVE EvidencePrecedesReport'
    BY <1>4 DEF FinalizeCheck
  <1>5. ASSUME NEW tc \in TC, WriteReceipt(tc) PROVE EvidencePrecedesReport'
    BY <1>5 DEF WriteReceipt
  <1>6. ASSUME Deliver PROVE EvidencePrecedesReport'
    BY <1>6 DEF Deliver
  <1>7. ASSUME NEW tc \in TC, NEW pass \in BOOLEAN, RunCommand(tc, pass)
          PROVE EvidencePrecedesReport'
    BY <1>7 DEF RunCommand, Unlock, GoesWrong
  <1>8. ASSUME NEW tc \in TC, KillCommand(tc) PROVE EvidencePrecedesReport'
    BY <1>8 DEF KillCommand, Unlock, GoesWrong
  <1>9. ASSUME NEW tc \in TC, NEW status \in Status, EditValidation(tc, status)
          PROVE EvidencePrecedesReport'
    BY <1>9 DEF EditValidation, GoesWrong, Open
  <1>10. ASSUME KillFinalizer PROVE EvidencePrecedesReport'
    BY <1>10 DEF KillFinalizer, GoesWrong
  <1>11. ASSUME EditDocuments PROVE EvidencePrecedesReport'
    BY <1>11 DEF EditDocuments, GoesWrong, Open
  <1>12. ASSUME NEW r \in 1 .. MaxRuns, KillWorker(r) PROVE EvidencePrecedesReport'
    BY <1>12 DEF KillWorker, GoesWrong, Stop, Working
  <1>13. ASSUME NEW r \in 1 .. MaxRuns, FinalizeRead(r) PROVE EvidencePrecedesReport'
    BY <1>13 DEF FinalizeRead, Working
  <1>14. ASSUME NEW r \in 1 .. MaxRuns, WriteValidation(r) PROVE EvidencePrecedesReport'
    BY <1>14 DEF WriteValidation, Working, Report
  <1>15. ASSUME NEW r \in 1 .. MaxRuns, GiveUp(r) PROVE EvidencePrecedesReport'
    BY <1>15 DEF GiveUp, Stop, Working
  <1>16. ASSUME NEW r \in 1 .. MaxRuns, NEW tc \in TC, StartCommand(r, tc)
           PROVE EvidencePrecedesReport'
    BY <1>16 DEF StartCommand, Working
  <1>17. ASSUME NEW tc \in TC, WriteOutputs(tc) PROVE EvidencePrecedesReport'
    BY <1>17, SMTT(30) DEF WriteOutputs, Unlock
  <1>18. ASSUME NEW tc \in TC, WriteEvidence(tc) PROVE EvidencePrecedesReport'
    BY <1>18 DEF WriteEvidence, Unlock
  <1>19. CASE UNCHANGED vars
    BY <1>19 DEF vars
  <1>20. QED
    BY <1>1, <1>2, <1>3, <1>4, <1>5, <1>6, <1>7, <1>8, <1>9, <1>10, <1>11, <1>12, <1>13, <1>14,
      <1>15, <1>16, <1>17, <1>18, <1>19 DEF Next, CommandStep, FinalizerStep, Trouble

\* Exclusive creation keeps records unique.
LEMMA UniqueStep == TypeOK /\ RecordsAreUnique /\ LogsPrecedeEvidence /\ [Next]_vars
  => RecordsAreUnique'
  <1> SUFFICES ASSUME TypeOK /\ RecordsAreUnique /\ LogsPrecedeEvidence, [Next]_vars
    PROVE RecordsAreUnique'
    OBVIOUS
  <1> USE BoundAssumption, NoneAssumption DEF RecordsAreUnique, LogsPrecedeEvidence, TypeOK
  <1>1. ASSUME CreateRun PROVE RecordsAreUnique'
    BY <1>1 DEF CreateRun
  <1>2. ASSUME Review PROVE RecordsAreUnique'
    BY <1>2 DEF Review, Route, Open
  <1>3. ASSUME Seal PROVE RecordsAreUnique'
    BY <1>3 DEF Seal, Route, Open
  <1>4. ASSUME FinalizeCheck PROVE RecordsAreUnique'
    BY <1>4 DEF FinalizeCheck
  <1>5. ASSUME NEW tc \in TC, WriteReceipt(tc) PROVE RecordsAreUnique'
    BY <1>5 DEF WriteReceipt
  <1>6. ASSUME Deliver PROVE RecordsAreUnique'
    BY <1>6 DEF Deliver
  <1>7. ASSUME NEW tc \in TC, NEW pass \in BOOLEAN, RunCommand(tc, pass) PROVE RecordsAreUnique'
    BY <1>7 DEF RunCommand, Unlock, GoesWrong
  <1>8. ASSUME NEW tc \in TC, KillCommand(tc) PROVE RecordsAreUnique'
    BY <1>8 DEF KillCommand, Unlock, GoesWrong
  <1>9. ASSUME NEW tc \in TC, NEW status \in Status, EditValidation(tc, status)
          PROVE RecordsAreUnique'
    BY <1>9 DEF EditValidation, GoesWrong, Open
  <1>10. ASSUME KillFinalizer PROVE RecordsAreUnique'
    BY <1>10 DEF KillFinalizer, GoesWrong
  <1>11. ASSUME EditDocuments PROVE RecordsAreUnique'
    BY <1>11 DEF EditDocuments, GoesWrong, Open
  <1>12. ASSUME NEW r \in 1 .. MaxRuns, KillWorker(r) PROVE RecordsAreUnique'
    BY <1>12 DEF KillWorker, GoesWrong, Stop, Working
  <1>13. ASSUME NEW r \in 1 .. MaxRuns, FinalizeRead(r) PROVE RecordsAreUnique'
    BY <1>13 DEF FinalizeRead, Working
  <1>14. ASSUME NEW r \in 1 .. MaxRuns, WriteValidation(r) PROVE RecordsAreUnique'
    BY <1>14 DEF WriteValidation, Working, Report
  <1>15. ASSUME NEW r \in 1 .. MaxRuns, GiveUp(r) PROVE RecordsAreUnique'
    BY <1>15 DEF GiveUp, Stop, Working
  <1>16. ASSUME NEW r \in 1 .. MaxRuns, NEW tc \in TC, StartCommand(r, tc)
           PROVE RecordsAreUnique'
    BY <1>16 DEF StartCommand, Working
  <1>17. ASSUME NEW tc \in TC, WriteOutputs(tc) PROVE RecordsAreUnique'
    BY <1>17 DEF WriteOutputs, Unlock
  <1>18. ASSUME NEW tc \in TC, WriteEvidence(tc) PROVE RecordsAreUnique'
    BY <1>18 DEF WriteEvidence, Unlock
  <1>19. CASE UNCHANGED vars
    BY <1>19 DEF vars
  <1>20. QED
    BY <1>1, <1>2, <1>3, <1>4, <1>5, <1>6, <1>7, <1>8, <1>9, <1>10, <1>11, <1>12, <1>13, <1>14,
      <1>15, <1>16, <1>17, <1>18, <1>19 DEF Next, CommandStep, FinalizerStep, Trouble

LEMMA LogsStep == TypeOK /\ LogsPrecedeEvidence /\ [Next]_vars => LogsPrecedeEvidence'
  <1> SUFFICES ASSUME TypeOK /\ LogsPrecedeEvidence, [Next]_vars PROVE LogsPrecedeEvidence'
    OBVIOUS
  <1> USE BoundAssumption, NoneAssumption DEF LogsPrecedeEvidence, TypeOK, CommandLock
  <1>1. ASSUME CreateRun PROVE LogsPrecedeEvidence'
    BY <1>1 DEF CreateRun
  <1>2. ASSUME Review PROVE LogsPrecedeEvidence'
    BY <1>2 DEF Review, Route, Open
  <1>3. ASSUME Seal PROVE LogsPrecedeEvidence'
    BY <1>3 DEF Seal, Route, Open
  <1>4. ASSUME FinalizeCheck PROVE LogsPrecedeEvidence'
    BY <1>4 DEF FinalizeCheck
  <1>5. ASSUME NEW tc \in TC, WriteReceipt(tc) PROVE LogsPrecedeEvidence'
    BY <1>5 DEF WriteReceipt
  <1>6. ASSUME Deliver PROVE LogsPrecedeEvidence'
    BY <1>6 DEF Deliver
  <1>7. ASSUME NEW tc \in TC, NEW pass \in BOOLEAN, RunCommand(tc, pass)
          PROVE LogsPrecedeEvidence'
    BY <1>7 DEF RunCommand, Unlock, GoesWrong
  <1>8. ASSUME NEW tc \in TC, KillCommand(tc) PROVE LogsPrecedeEvidence'
    BY <1>8 DEF KillCommand, Unlock, GoesWrong
  <1>9. ASSUME NEW tc \in TC, NEW status \in Status, EditValidation(tc, status)
          PROVE LogsPrecedeEvidence'
    BY <1>9 DEF EditValidation, GoesWrong, Open
  <1>10. ASSUME KillFinalizer PROVE LogsPrecedeEvidence'
    BY <1>10 DEF KillFinalizer, GoesWrong
  <1>11. ASSUME EditDocuments PROVE LogsPrecedeEvidence'
    BY <1>11 DEF EditDocuments, GoesWrong, Open
  <1>12. ASSUME NEW r \in 1 .. MaxRuns, KillWorker(r) PROVE LogsPrecedeEvidence'
    BY <1>12 DEF KillWorker, GoesWrong, Stop, Working
  <1>13. ASSUME NEW r \in 1 .. MaxRuns, FinalizeRead(r) PROVE LogsPrecedeEvidence'
    BY <1>13 DEF FinalizeRead, Working
  <1>14. ASSUME NEW r \in 1 .. MaxRuns, WriteValidation(r) PROVE LogsPrecedeEvidence'
    BY <1>14 DEF WriteValidation, Working, Report
  <1>15. ASSUME NEW r \in 1 .. MaxRuns, GiveUp(r) PROVE LogsPrecedeEvidence'
    BY <1>15 DEF GiveUp, Stop, Working
  <1>16. ASSUME NEW r \in 1 .. MaxRuns, NEW tc \in TC, StartCommand(r, tc)
           PROVE LogsPrecedeEvidence'
    BY <1>16 DEF StartCommand, Working
  <1>17. ASSUME NEW tc \in TC, WriteOutputs(tc) PROVE LogsPrecedeEvidence'
    BY <1>17 DEF WriteOutputs, Unlock
  <1>18. ASSUME NEW tc \in TC, WriteEvidence(tc) PROVE LogsPrecedeEvidence'
    BY <1>18 DEF WriteEvidence, Unlock
  <1>19. CASE UNCHANGED vars
    BY <1>19 DEF vars
  <1>20. QED
    BY <1>1, <1>2, <1>3, <1>4, <1>5, <1>6, <1>7, <1>8, <1>9, <1>10, <1>11, <1>12, <1>13, <1>14,
      <1>15, <1>16, <1>17, <1>18, <1>19 DEF Next, CommandStep, FinalizerStep, Trouble

\* A finalizer that goes on has written what it crossed off.
LEMMA ProgressStep == TypeOK /\ FinalizerProgress /\ [Next]_vars => FinalizerProgress'
  <1> SUFFICES ASSUME TypeOK /\ FinalizerProgress, [Next]_vars PROVE FinalizerProgress'
    OBVIOUS
  <1> USE BoundAssumption, NoneAssumption DEF FinalizerProgress, TypeOK, FinalizerWork
  <1>1. ASSUME CreateRun PROVE FinalizerProgress'
    BY <1>1 DEF CreateRun
  <1>2. ASSUME Review PROVE FinalizerProgress'
    BY <1>2 DEF Review, Route, Open
  <1>3. ASSUME Seal PROVE FinalizerProgress'
    BY <1>3 DEF Seal, Route, Open
  <1>4. ASSUME FinalizeCheck PROVE FinalizerProgress'
    BY <1>4 DEF FinalizeCheck
  <1>5. ASSUME NEW tc \in TC, WriteReceipt(tc) PROVE FinalizerProgress'
    <2> DEFINE new == [run |-> finalizer.run, tc |-> tc, row |-> Row(finalizer.rows, tc),
                       validation |-> finalizer.bound]
    <2> SUFFICES ASSUME finalizer' # NoFinalizer PROVE FinalizerProgress'
      BY DEF FinalizerProgress
    <2>1. finalizer # NoFinalizer /\ finalizer.step = "write"
      BY <1>5 DEF WriteReceipt
    <2> HIDE DEF TypeOK, FinalizerProgress, FinalizerWork
    <2>2. /\ receipts' = receipts \union {new}
          /\ finalizer' = [finalizer EXCEPT !.todo = finalizer.todo \ {tc}]
      BY <1>5 DEF WriteReceipt
    <2>3. new.run = finalizer.run /\ new.tc = tc /\ new.validation = finalizer.bound
      OBVIOUS
    <2> HIDE DEF new
    <2>4. /\ finalizer'.run = finalizer.run /\ finalizer'.bound = finalizer.bound
          /\ finalizer'.step = "write" /\ finalizer'.todo = finalizer.todo \ {tc}
      BY <2>1, <2>2 DEF TypeOK, FinalizerWork
    <2> QED
      BY <2>1, <2>2, <2>3, <2>4 DEF FinalizerProgress
  <1>6. ASSUME Deliver PROVE FinalizerProgress'
    BY <1>6 DEF Deliver
  <1>7. ASSUME NEW tc \in TC, NEW pass \in BOOLEAN, RunCommand(tc, pass)
          PROVE FinalizerProgress'
    BY <1>7 DEF RunCommand, Unlock, GoesWrong
  <1>8. ASSUME NEW tc \in TC, KillCommand(tc) PROVE FinalizerProgress'
    BY <1>8 DEF KillCommand, Unlock, GoesWrong
  <1>9. ASSUME NEW tc \in TC, NEW status \in Status, EditValidation(tc, status)
          PROVE FinalizerProgress'
    BY <1>9 DEF EditValidation, GoesWrong, Open
  <1>10. ASSUME KillFinalizer PROVE FinalizerProgress'
    BY <1>10 DEF KillFinalizer, GoesWrong
  <1>11. ASSUME EditDocuments PROVE FinalizerProgress'
    BY <1>11 DEF EditDocuments, GoesWrong, Open
  <1>12. ASSUME NEW r \in 1 .. MaxRuns, KillWorker(r) PROVE FinalizerProgress'
    BY <1>12 DEF KillWorker, GoesWrong, Stop, Working
  <1>13. ASSUME NEW r \in 1 .. MaxRuns, FinalizeRead(r) PROVE FinalizerProgress'
    BY <1>13 DEF FinalizeRead, Working
  <1>14. ASSUME NEW r \in 1 .. MaxRuns, WriteValidation(r) PROVE FinalizerProgress'
    BY <1>14 DEF WriteValidation, Working, Report
  <1>15. ASSUME NEW r \in 1 .. MaxRuns, GiveUp(r) PROVE FinalizerProgress'
    BY <1>15 DEF GiveUp, Stop, Working
  <1>16. ASSUME NEW r \in 1 .. MaxRuns, NEW tc \in TC, StartCommand(r, tc)
           PROVE FinalizerProgress'
    BY <1>16 DEF StartCommand, Working
  <1>17. ASSUME NEW tc \in TC, WriteOutputs(tc) PROVE FinalizerProgress'
    BY <1>17 DEF WriteOutputs, Unlock
  <1>18. ASSUME NEW tc \in TC, WriteEvidence(tc) PROVE FinalizerProgress'
    BY <1>18 DEF WriteEvidence, Unlock
  <1>19. CASE UNCHANGED vars
    BY <1>19 DEF vars
  <1>20. QED
    BY <1>1, <1>2, <1>3, <1>4, <1>5, <1>6, <1>7, <1>8, <1>9, <1>10, <1>11, <1>12, <1>13, <1>14,
      <1>15, <1>16, <1>17, <1>18, <1>19 DEF Next, CommandStep, FinalizerStep, Trouble

\* A result is stored on a full set of receipts, and none is added after it.
LEMMA WholeStep == TypeOK /\ WorkIsOnTheLastRun /\ RecordsAreUnique /\ FinalizerProgress
  /\ ResultsAreWhole /\ [Next]_vars => ResultsAreWhole'
  <1> SUFFICES ASSUME TypeOK /\ WorkIsOnTheLastRun /\ RecordsAreUnique /\ FinalizerProgress
    /\ ResultsAreWhole, [Next]_vars PROVE ResultsAreWhole'
    OBVIOUS
  <1> USE BoundAssumption, NoneAssumption DEF ResultsAreWhole, WorkIsOnTheLastRun,
    RecordsAreUnique, FinalizerProgress, Working, TypeOK
  <1>1. ASSUME CreateRun PROVE ResultsAreWhole'
    <2>1. run'= Append(run, [input |-> documents, step |-> "working", result |-> NoResult])
      BY <1>1 DEF CreateRun
    <2>2. \A r \in DOMAIN run' : run'[r].result # NoResult => r \in DOMAIN run
            /\ run'[r] = run[r]
      BY <1>1, <2>1 DEF CreateRun
    <2> QED
      BY <1>1, <2>1, <2>2, SMTT(30) DEF CreateRun
  <1>2. ASSUME Review PROVE ResultsAreWhole'
    BY <1>2 DEF Review, Route, Open
  <1>3. ASSUME Seal PROVE ResultsAreWhole'
    BY <1>3 DEF Seal, Route, Open
  <1>4. ASSUME FinalizeCheck PROVE ResultsAreWhole'
    BY <1>4 DEF FinalizeCheck
  <1>5. ASSUME NEW tc \in TC, WriteReceipt(tc) PROVE ResultsAreWhole'
    BY <1>5 DEF WriteReceipt
  <1>6. ASSUME Deliver PROVE ResultsAreWhole'
    <2>1. finalizer.run \in DOMAIN run /\ validation \in Validation
      BY <1>6 DEF Deliver
    <2>2. \A r \in DOMAIN run' : r \in DOMAIN run /\ (r # finalizer.run => run'[r] = run[r])
      BY <1>6 DEF Deliver
    <2>3. {q.tc : q \in {p \in receipts : p.run = finalizer.run}} = TC
      BY <1>6 DEF Deliver, Receipt
    <2>4. \A q \in receipts : q.run = finalizer.run => q.validation = finalizer.bound
      BY <1>6 DEF Deliver, Receipt
    <2>5. receipts' = receipts
      BY <1>6 DEF Deliver
    <2> QED
      BY <2>2, <2>3, <2>4, <2>5
  <1>7. ASSUME NEW tc \in TC, NEW pass \in BOOLEAN, RunCommand(tc, pass) PROVE ResultsAreWhole'
    BY <1>7 DEF RunCommand, Unlock, GoesWrong
  <1>8. ASSUME NEW tc \in TC, KillCommand(tc) PROVE ResultsAreWhole'
    BY <1>8 DEF KillCommand, Unlock, GoesWrong
  <1>9. ASSUME NEW tc \in TC, NEW status \in Status, EditValidation(tc, status)
          PROVE ResultsAreWhole'
    BY <1>9 DEF EditValidation, GoesWrong, Open
  <1>10. ASSUME KillFinalizer PROVE ResultsAreWhole'
    BY <1>10 DEF KillFinalizer, GoesWrong
  <1>11. ASSUME EditDocuments PROVE ResultsAreWhole'
    BY <1>11 DEF EditDocuments, GoesWrong, Open
  <1>12. ASSUME NEW r \in 1 .. MaxRuns, KillWorker(r) PROVE ResultsAreWhole'
    BY <1>12 DEF KillWorker, GoesWrong, Stop, Working
  <1>13. ASSUME NEW r \in 1 .. MaxRuns, FinalizeRead(r) PROVE ResultsAreWhole'
    BY <1>13 DEF FinalizeRead, Working
  <1>14. ASSUME NEW r \in 1 .. MaxRuns, WriteValidation(r) PROVE ResultsAreWhole'
    BY <1>14 DEF WriteValidation, Working, Report
  <1>15. ASSUME NEW r \in 1 .. MaxRuns, GiveUp(r) PROVE ResultsAreWhole'
    BY <1>15 DEF GiveUp, Stop, Working
  <1>16. ASSUME NEW r \in 1 .. MaxRuns, NEW tc \in TC, StartCommand(r, tc)
           PROVE ResultsAreWhole'
    BY <1>16 DEF StartCommand, Working
  <1>17. ASSUME NEW tc \in TC, WriteOutputs(tc) PROVE ResultsAreWhole'
    BY <1>17 DEF WriteOutputs, Unlock
  <1>18. ASSUME NEW tc \in TC, WriteEvidence(tc) PROVE ResultsAreWhole'
    BY <1>18 DEF WriteEvidence, Unlock
  <1>19. CASE UNCHANGED vars
    BY <1>19 DEF vars
  <1>20. QED
    BY <1>1, <1>2, <1>3, <1>4, <1>5, <1>6, <1>7, <1>8, <1>9, <1>10, <1>11, <1>12, <1>13, <1>14,
      <1>15, <1>16, <1>17, <1>18, <1>19 DEF Next, CommandStep, FinalizerStep, Trouble

LEMMA VStep == VInv /\ [Next]_vars => VInv'
  BY TypeStep, WorkStep, ReportStep, UniqueStep, LogsStep, ProgressStep, WholeStep
     DEF VInv, RunsAreWhole

LEMMA Invariance == Spec => []VInv
  BY VInit, VStep, PTL DEF Spec

\* A run with a result has all its receipts, about one version of validation.md,
\* whatever was killed between the exclusive writes of verify-run and the finalizer.
THEOREM RunsWhole == Spec => []RunsAreWhole
  <1>1. VInv => RunsAreWhole
    BY DEF VInv
  <1>2. QED
    BY <1>1, Invariance, PTL

\* Only state advance seals, and it compares the receipts of the last run with
\* validation.md and with the evidence as they are at that moment.
LEMMA SealStep ==
    ASSUME VInv, [Next]_vars, sealed' # sealed
    PROVE  /\ sealed' = Len(run) /\ SelfChecked(Len(run))
           /\ UNCHANGED <<documents, validation, run, evidence, receipts>>
  <1> USE DEF VInv, RunsAreWhole
  <1>1. Seal => /\ Route = "transition" /\ sealed' = Len(run)
                /\ UNCHANGED <<documents, validation, run, evidence, receipts>>
    BY DEF Seal
  <1>2. Seal
    BY DEF Next, vars, CreateRun, Review, FinalizerStep, FinalizeCheck, WriteReceipt, Deliver,
           Trouble, RunCommand, KillCommand, EditValidation, KillFinalizer, EditDocuments,
           KillWorker, FinalizeRead, WriteValidation, GiveUp, Stop, CommandStep, StartCommand,
           WriteOutputs, WriteEvidence
  <1>3. QED
    BY <1>1, <1>2, LastRun

\* verify is left only on a receipt per test case about the validation.md that is
\* there, and on commands this very run passed for the executed and the critical ones.
THEOREM SealEarned == Spec => SealIsEarned
  <1> DEFINE Whole == \A tc \in TC : \E q \in receipts :
              /\ q.run = sealed' /\ q.tc = tc /\ q.validation = validation
              /\ tc \in Critical \/ q.row.status = "executed"
                   => \E e \in evidence : e.run = sealed' /\ e.tc = tc /\ e.pass
              /\ run[sealed'].input = documents
  <1>1. VInv /\ [Next]_vars => [(sealed' # sealed) => Whole]_vars
    <2> SUFFICES ASSUME VInv, [Next]_vars, sealed' # sealed, NEW tc \in TC
                 PROVE  \E q \in receipts :
                           /\ q.run = sealed' /\ q.tc = tc /\ q.validation = validation
                           /\ tc \in Critical \/ q.row.status = "executed"
                                => \E e \in evidence : e.run = sealed' /\ e.tc = tc /\ e.pass
                           /\ run[sealed'].input = documents
      OBVIOUS
    <2>1. sealed' = Len(run) /\ SelfChecked(Len(run))
      BY SealStep
    <2>2. run[sealed'].input = documents
      BY <2>1 DEF SelfChecked, InputsFresh
    <2>3. PICK q \in receipts : /\ q.run = Len(run) /\ q.tc = tc /\ q.validation = validation
                               /\ Provenance(Len(run), tc, q.row) /\ RowAccepted(tc, q.row)
      BY <2>1 DEF SelfChecked, ReceiptValid
    <2>4. QED
      BY <2>1, <2>2, <2>3 DEF Provenance, RowAccepted
  <1>2. QED
    BY <1>1, Invariance, PTL DEF Spec, SealIsEarned

-----------------------------------------------------------------------------
(***************************************************************************)
(* The implement stage: TaskIntegration.                                   *)
(*                                                                         *)
(* The inductive invariant adds to IntegrationIsRecoverable that backups   *)
(* are of what the checkout held before the integration, that a path still *)
(* to be copied is as it was then, and that a published proof of implement *)
(* names runs whose receipts the checkout matches, until it is committed.  *)
(***************************************************************************)

\* The actions that leave runs, worktrees and receipts alone
Untouched == UNCHANGED <<runs, tree, receipt>>

\* What a task has on file
TaskOK(t) ==
    /\ runs[t] \in Seq(Execution(t)) /\ tree[t] \in Seq(Tree(t))
    /\ Len(runs[t]) = Len(tree[t]) /\ Len(runs[t]) <= MaxExecutions
    /\ receipt[t] \in {0} \union {e \in DOMAIN runs[t] :
                                    runs[t][e].step \notin {"running", "refused"}}
    /\ \A e \in DOMAIN runs[t] :
          runs[t][e].step \in {"published", "delivered"} => receipt[t] = e
FilesOK ==
    /\ runs = [t \in Task |-> runs[t]] /\ tree = [t \in Task |-> tree[t]]
    /\ receipt = [t \in Task |-> receipt[t]]
    /\ \A t \in Task : TaskOK(t)

\* Everything else of the type invariant, part by part
StateOK ==
    /\ stage \in {"implement", "verify"} /\ current \in Task /\ plan \in Version
    /\ root \in [Path -> Content]
    /\ edits \in 0 .. MaxEdit /\ fails \in 0 .. MaxFail /\ deaths \in 0 .. MaxDeath
ReviewsOK ==
    /\ reviews \subseteq [task : Task, run : 1 .. MaxExecutions, input : Version, pass : BOOLEAN]
    /\ \A c \in reviews : c.run \in Delivered(c.task)
JobOK ==
    /\ job \in Job \union {NoJob}
    /\ job # NoJob => job.run \in Delivered(job.task) /\ job.todo \subseteq Changed[job.task]
AdvanceOK ==
    /\ advance \in {"idle", "published"}
    /\ advance = "published" => job = NoJob /\ stage = "implement"
    /\ proof = NoProof \/ proof \in [Task -> 1 .. MaxExecutions]

LEMMA TypeParts ==
    IntegrationTypeOK <=> FilesOK /\ StateOK /\ ReviewsOK /\ JobOK /\ AdvanceOK
  BY DEF IntegrationTypeOK, FilesOK, TaskOK, StateOK, ReviewsOK, JobOK, AdvanceOK

LEMMA WorkTyped ==
    ASSUME NEW t \in Task, NEW e \in 1 .. MaxExecutions
    PROVE  Work(t, e) \in Tree(t)
  <1>1. MaxExecutions \in Nat
    BY IntegrationBoundAssumption
  <1>2. 2 + e \in Content /\ 0 \in Content
    BY <1>1 DEF Content
  <1>3. QED
    BY <1>2 DEF Work, Tree

\* A record of a run is replaced.
LEMMA RunSet ==
    ASSUME FilesOK, NEW t \in Task, NEW e \in DOMAIN runs[t], NEW x \in Execution(t),
           runs' = [runs EXCEPT ![t] = [@ EXCEPT ![e] = x]]
    PROVE  /\ runs' = [u \in Task |-> runs'[u]]
           /\ \A u \in Task : u # t => runs'[u] = runs[u]
           /\ runs'[t] \in Seq(Execution(t)) /\ Len(runs'[t]) = Len(runs[t])
           /\ DOMAIN runs'[t] = DOMAIN runs[t]
           /\ runs'[t][e] = x
           /\ \A f \in DOMAIN runs[t] : f # e => runs'[t][f] = runs[t][f]
  <1>1. runs = [u \in Task |-> runs[u]] /\ runs[t] \in Seq(Execution(t))
    BY DEF FilesOK, TaskOK
  <1>2. runs'[t] = [runs[t] EXCEPT ![e] = x]
    BY <1>1
  <1>3. /\ runs'[t] \in Seq(Execution(t)) /\ Len(runs'[t]) = Len(runs[t])
        /\ DOMAIN runs'[t] = DOMAIN runs[t]
    BY <1>1, <1>2
  <1>4. QED
    BY <1>1, <1>2, <1>3

LEMMA PublishDoes ==
    ASSUME FilesOK, NEW t \in Task, NEW e, Publish(t, e)
    PROVE  /\ e \in DOMAIN runs[t] /\ runs[t][e].step = "running"
           /\ \E x \in Execution(t) :
                /\ runs' = [runs EXCEPT ![t] = [@ EXCEPT ![e] = x]]
                /\ \/ /\ x.step = "published" /\ receipt[t] = 0
                      /\ receipt' = [receipt EXCEPT ![t] = e]
                   \/ x.step = "refused" /\ receipt[t] # 0 /\ UNCHANGED receipt
  <1>1. e \in DOMAIN runs[t] /\ runs[t][e].step = "running"
    BY DEF Publish
  <1>2. runs[t][e] \in Execution(t) /\ tree[t][e] \in Tree(t)
    BY <1>1 DEF FilesOK, TaskOK
  <1>3. CASE receipt[t] = 0
    <2> DEFINE x == [runs[t][e] EXCEPT !.step = "published", !.after = tree[t][e]]
    <2>1. x \in Execution(t) /\ x.step = "published"
      BY <1>2 DEF Execution
    <2>2. runs' = [runs EXCEPT ![t] = [@ EXCEPT ![e] = x]]
      BY <1>1, <1>2, <1>3 DEF Publish, FilesOK
    <2>3. receipt' = [receipt EXCEPT ![t] = e]
      BY <1>3 DEF Publish
    <2> HIDE DEF x
    <2>4. QED
      BY <1>1, <1>3, <2>1, <2>2, <2>3
  <1>4. CASE receipt[t] # 0
    <2> DEFINE x == [runs[t][e] EXCEPT !.step = "refused"]
    <2>1. x \in Execution(t) /\ x.step = "refused"
      BY <1>2 DEF Execution
    <2>2. runs' = [runs EXCEPT ![t] = [@ EXCEPT ![e] = x]]
      BY <1>1, <1>2, <1>4 DEF Publish, FilesOK
    <2>3. UNCHANGED receipt
      BY <1>4 DEF Publish
    <2> HIDE DEF x
    <2>4. QED
      BY <1>1, <1>4, <2>1, <2>2, <2>3
  <1>5. QED
    BY <1>3, <1>4

\* The step of a run is replaced, nothing else of it.
LEMMA StepSet ==
    ASSUME FilesOK, NEW t \in Task, NEW e \in DOMAIN runs[t],
           NEW s \in {"delivered", "gone"}, runs' = [runs EXCEPT ![t][e].step = s]
    PROVE  \E x \in Execution(t) :
              /\ runs' = [runs EXCEPT ![t] = [@ EXCEPT ![e] = x]]
              /\ x.step = s /\ x.after = runs[t][e].after
  <1> DEFINE x == [runs[t][e] EXCEPT !.step = s]
  <1>1. runs[t][e] \in Execution(t)
    BY DEF FilesOK, TaskOK
  <1>2. x \in Execution(t) /\ x.step = s /\ x.after = runs[t][e].after
    BY <1>1 DEF Execution
  <1>3. runs' = [runs EXCEPT ![t] = [@ EXCEPT ![e] = x]]
    BY <1>1 DEF FilesOK
  <1> HIDE DEF x
  <1>4. QED
    BY <1>2, <1>3

LEMMA CreateDoes ==
    ASSUME FilesOK, NEW t \in Task, plan \in Version, CreateExecution(t)
    PROVE  \E x \in Execution(t), w \in Tree(t) :
              /\ x.step = "running" /\ Len(runs[t]) < MaxExecutions
              /\ runs' = [runs EXCEPT ![t] = Append(@, x)]
              /\ tree' = [tree EXCEPT ![t] = Append(@, w)]
              /\ UNCHANGED receipt
  <1> DEFINE e == Len(runs[t]) + 1
             x == [input |-> plan, step |-> "running", after |-> Work(t, e)]
  <1>1. runs[t] \in Seq(Execution(t)) /\ Len(runs[t]) < MaxExecutions /\ MaxExecutions \in Nat
    BY IntegrationBoundAssumption DEF FilesOK, TaskOK, CreateExecution
  <1>2. Work(t, e) \in Tree(t)
    BY <1>1, WorkTyped
  <1>3. x \in Execution(t)
    BY <1>2 DEF Execution
  <1>4. /\ runs' = [runs EXCEPT ![t] = Append(@, x)]
        /\ tree' = [tree EXCEPT ![t] = Append(@, Work(t, e))]
        /\ UNCHANGED receipt
    BY DEF CreateExecution
  <1>5. QED
    BY <1>1, <1>2, <1>3, <1>4

\* What no step takes from a run: that it is delivered, and what a receipt
\* recorded of it.
Keeps ==
    \A t \in Task :
        /\ receipt[t] # 0 => receipt'[t] = receipt[t]
        /\ \A e \in DOMAIN runs[t] :
              /\ e \in DOMAIN runs'[t]
              /\ runs[t][e].step = "delivered" => runs'[t][e].step = "delivered"
              /\ receipt[t] = e => runs'[t][e].after = runs[t][e].after

LEMMA CreateKeeps ==
    ASSUME FilesOK, NEW t \in Task, plan \in Version, CreateExecution(t)
    PROVE  FilesOK' /\ Keeps
  <1>1. PICK x \in Execution(t), w \in Tree(t) :
              /\ x.step = "running" /\ Len(runs[t]) < MaxExecutions
              /\ runs' = [runs EXCEPT ![t] = Append(@, x)]
              /\ tree' = [tree EXCEPT ![t] = Append(@, w)]
              /\ UNCHANGED receipt
    BY CreateDoes
  <1>2. /\ runs' = [u \in Task |-> runs'[u]] /\ tree' = [u \in Task |-> tree'[u]]
        /\ runs'[t] = Append(runs[t], x) /\ tree'[t] = Append(tree[t], w)
        /\ \A u \in Task : u # t => runs'[u] = runs[u] /\ tree'[u] = tree[u]
    BY <1>1 DEF FilesOK
  <1>3. TaskOK(t) /\ MaxExecutions \in Nat
    BY IntegrationBoundAssumption DEF FilesOK
  <1>4. /\ runs'[t] \in Seq(Execution(t)) /\ tree'[t] \in Seq(Tree(t))
        /\ Len(runs'[t]) = Len(runs[t]) + 1 /\ Len(tree'[t]) = Len(tree[t]) + 1
        /\ \A e \in DOMAIN runs[t] : e \in DOMAIN runs'[t] /\ runs'[t][e] = runs[t][e]
        /\ \A e \in DOMAIN runs'[t] : e \in DOMAIN runs[t] \/ runs'[t][e] = x
    BY <1>2, <1>3, SMTT(30) DEF TaskOK
  <1>5. TaskOK(t)'
    <2>1. Len(runs'[t]) = Len(tree'[t]) /\ Len(runs'[t]) <= MaxExecutions
      BY <1>1, <1>3, <1>4 DEF TaskOK
    <2>2. receipt'[t] \in {0} \union {e \in DOMAIN runs'[t] :
                                        runs'[t][e].step \notin {"running", "refused"}}
      BY <1>1, <1>3, <1>4 DEF TaskOK
    <2>3. \A e \in DOMAIN runs'[t] :
             runs'[t][e].step \in {"published", "delivered"} => receipt'[t] = e
      BY <1>1, <1>3, <1>4 DEF TaskOK
    <2>4. QED
      BY <1>4, <2>1, <2>2, <2>3 DEF TaskOK
  <1>6. \A u \in Task : TaskOK(u)'
    <2>1. \A u \in Task : u # t => TaskOK(u)'
      <3> SUFFICES ASSUME NEW u \in Task, u # t PROVE TaskOK(u)'
        OBVIOUS
      <3>1. runs'[u] = runs[u] /\ tree'[u] = tree[u] /\ receipt'[u] = receipt[u] /\ TaskOK(u)
        BY <1>1, <1>2 DEF FilesOK
      <3>2. QED
        BY <3>1 DEF TaskOK
    <2>2. QED
      BY <1>5, <2>1
  <1>7. Keeps
    BY <1>1, <1>2, <1>4 DEF Keeps
  <1>8. QED
    BY <1>1, <1>2, <1>6, <1>7 DEF FilesOK

\* One run gets another record.
LEMMA SetKeeps ==
    ASSUME FilesOK, NEW t \in Task, NEW e \in DOMAIN runs[t], NEW x \in Execution(t),
           runs' = [runs EXCEPT ![t] = [@ EXCEPT ![e] = x]], UNCHANGED tree,
           receipt' = receipt \/ (receipt[t] = 0 /\ receipt' = [receipt EXCEPT ![t] = e]),
           receipt'[t] = e => x.step \notin {"running", "refused"},
           x.step \in {"published", "delivered"} => receipt'[t] = e,
           runs[t][e].step = "delivered" => x.step = "delivered",
           receipt[t] = e => x.after = runs[t][e].after
    PROVE  FilesOK' /\ Keeps
  <1>1. /\ runs' = [u \in Task |-> runs'[u]]
        /\ \A u \in Task : u # t => runs'[u] = runs[u]
        /\ runs'[t] \in Seq(Execution(t)) /\ Len(runs'[t]) = Len(runs[t])
        /\ DOMAIN runs'[t] = DOMAIN runs[t]
        /\ runs'[t][e] = x
        /\ \A f \in DOMAIN runs[t] : f # e => runs'[t][f] = runs[t][f]
    BY RunSet
  <1>2. /\ receipt' = [u \in Task |-> receipt'[u]]
        /\ \A u \in Task : u # t => receipt'[u] = receipt[u]
        /\ receipt[t] # 0 => receipt'[t] = receipt[t]
        /\ receipt'[t] = receipt[t] \/ receipt'[t] = e
    BY DEF FilesOK
  <1>3. TaskOK(t) /\ e # 0
    <2>1. runs[t] \in Seq(Execution(t))
      BY DEF FilesOK, TaskOK
    <2>2. QED
      BY <2>1 DEF FilesOK
  <1>4. TaskOK(t)'
    <2>1. receipt'[t] \in {0} \union {f \in DOMAIN runs'[t] :
                                        runs'[t][f].step \notin {"running", "refused"}}
      BY <1>1, <1>2, <1>3 DEF TaskOK
    <2>2. \A f \in DOMAIN runs'[t] :
             runs'[t][f].step \in {"published", "delivered"} => receipt'[t] = f
      <3> SUFFICES ASSUME NEW f \in DOMAIN runs'[t],
                          runs'[t][f].step \in {"published", "delivered"}
                   PROVE  receipt'[t] = f
        OBVIOUS
      <3>1. CASE f = e
        BY <1>1, <3>1
      <3>2. CASE f # e
        <4>1. runs[t][f].step \in {"published", "delivered"} /\ f \in DOMAIN runs[t]
          BY <1>1, <3>2
        <4>2. receipt[t] = f /\ f # 0
          BY <1>3, <4>1 DEF TaskOK
        <4>3. QED
          BY <1>2, <4>2
      <3>3. QED
        BY <3>1, <3>2
    <2>3. QED
      BY <1>1, <1>3, <2>1, <2>2 DEF TaskOK
  <1>5. \A u \in Task : TaskOK(u)'
    BY <1>1, <1>2, <1>4 DEF FilesOK, TaskOK
  <1>6. Keeps
    BY <1>1, <1>2 DEF Keeps
  <1>7. QED
    BY <1>1, <1>2, <1>5, <1>6 DEF FilesOK

LEMMA RunKeeps ==
    ASSUME FilesOK, NEW t \in Task, NEW e,
           Publish(t, e) \/ DeliverExecution(t, e) \/ Abandon(t, e)
    PROVE  FilesOK' /\ Keeps
  <1>1. CASE Publish(t, e)
    <2>1. /\ e \in DOMAIN runs[t] /\ runs[t][e].step = "running"
          /\ \E x \in Execution(t) :
                /\ runs' = [runs EXCEPT ![t] = [@ EXCEPT ![e] = x]]
                /\ \/ /\ x.step = "published" /\ receipt[t] = 0
                      /\ receipt' = [receipt EXCEPT ![t] = e]
                   \/ x.step = "refused" /\ receipt[t] # 0 /\ UNCHANGED receipt
      BY <1>1, PublishDoes
    <2>2. PICK x \in Execution(t) :
                /\ runs' = [runs EXCEPT ![t] = [@ EXCEPT ![e] = x]]
                /\ \/ /\ x.step = "published" /\ receipt[t] = 0
                      /\ receipt' = [receipt EXCEPT ![t] = e]
                   \/ x.step = "refused" /\ receipt[t] # 0 /\ UNCHANGED receipt
      BY <2>1
    <2>3. receipt[t] # e /\ e # 0 /\ UNCHANGED tree
      BY <1>1, <2>1 DEF FilesOK, TaskOK, Publish
    <2>4. receipt'[t] = e => x.step = "published"
      BY <2>2, <2>3
    <2>5. x.step \in {"published", "delivered"} => receipt'[t] = e
      BY <2>2 DEF FilesOK
    <2>6. QED
      BY <2>1, <2>2, <2>3, <2>4, <2>5, SetKeeps
  <1>2. CASE DeliverExecution(t, e)
    <2>1. /\ e \in DOMAIN runs[t] /\ runs' = [runs EXCEPT ![t][e].step = "delivered"]
          /\ UNCHANGED <<tree, receipt>> /\ receipt[t] = e
      BY <1>2 DEF DeliverExecution
    <2>2. PICK x \in Execution(t) :
              /\ runs' = [runs EXCEPT ![t] = [@ EXCEPT ![e] = x]]
              /\ x.step = "delivered" /\ x.after = runs[t][e].after
      BY <2>1, StepSet
    <2>3. QED
      BY <2>1, <2>2, SetKeeps
  <1>3. CASE Abandon(t, e)
    <2>1. /\ e \in DOMAIN runs[t] /\ runs' = [runs EXCEPT ![t][e].step = "gone"]
          /\ UNCHANGED <<tree, receipt>> /\ runs[t][e].step # "delivered"
      BY <1>3 DEF Abandon, Active
    <2>2. PICK x \in Execution(t) :
              /\ runs' = [runs EXCEPT ![t] = [@ EXCEPT ![e] = x]]
              /\ x.step = "gone" /\ x.after = runs[t][e].after
      BY <2>1, StepSet
    <2>3. QED
      BY <2>1, <2>2, SetKeeps
  <1>4. QED
    BY <1>1, <1>2, <1>3

\* The candidate of a task is its one delivered run.
LEMMA CandidateIs ==
    ASSUME FilesOK, NEW t \in Task
    PROVE  /\ Candidate(t) # 0 => /\ Candidate(t) \in Delivered(t) /\ Candidate(t) = receipt[t]
                                  /\ Candidate(t) \in 1 .. MaxExecutions
           /\ Delivered(t) \subseteq 1 .. MaxExecutions
           /\ \A e \in Delivered(t) : e = receipt[t]
  <1>1. \A e \in Delivered(t) : e = receipt[t] /\ e \in 1 .. MaxExecutions
    <2>1. TaskOK(t) /\ MaxExecutions \in Nat
      BY IntegrationBoundAssumption DEF FilesOK
    <2>2. QED
      BY <2>1 DEF TaskOK, Delivered
  <1>2. ASSUME Candidate(t) # 0 PROVE Candidate(t) \in Delivered(t)
    <2>1. PICK e \in Delivered(t) : TRUE
      BY <1>2 DEF Candidate
    <2>2. \A f \in Delivered(t) : f <= e
      BY <1>1, <2>1
    <2>3. QED
      BY <1>2, <2>1, <2>2 DEF Candidate
  <1>3. QED
    BY <1>1, <1>2

LEMMA EditTreeKeeps ==
    ASSUME FilesOK, NEW t \in Task, NEW p \in Changed[t], NEW v \in Content, EditTree(t, p, v)
    PROVE  FilesOK' /\ Keeps
  <1> DEFINE e == Candidate(t)
  <1>1. e \in Delivered(t) /\ tree' = [tree EXCEPT ![t][e][p] = v] /\ UNCHANGED <<runs, receipt>>
    BY CandidateIs DEF EditTree
  <1>2. TaskOK(t) /\ e \in DOMAIN tree[t]
    BY <1>1 DEF FilesOK, TaskOK, Delivered
  <1>3. tree[t][e] \in Tree(t)
    BY <1>2 DEF TaskOK
  <1> DEFINE w == [tree[t][e] EXCEPT ![p] = v]
  <1>4. w \in Tree(t)
    BY <1>3 DEF Tree
  <1>5. tree' = [tree EXCEPT ![t] = [@ EXCEPT ![e] = w]]
    BY <1>1, <1>2 DEF FilesOK
  <1> HIDE DEF w, e
  <1>6. /\ tree' = [u \in Task |-> tree'[u]] /\ tree'[t] = [tree[t] EXCEPT ![e] = w]
        /\ \A u \in Task : u # t => tree'[u] = tree[u]
    BY <1>5 DEF FilesOK
  <1>7. tree'[t] \in Seq(Tree(t)) /\ Len(tree'[t]) = Len(tree[t])
    BY <1>2, <1>4, <1>6 DEF TaskOK
  <1>8. \A u \in Task : TaskOK(u)'
    BY <1>1, <1>6, <1>7 DEF FilesOK, TaskOK
  <1>9. QED
    BY <1>1, <1>6, <1>8 DEF FilesOK, Keeps

\* The actions that write a run, a worktree or a receipt, and the others.
LEMMA FilesStep ==
    ASSUME IntegrationTypeOK, [IntegrationNext]_integrationVars
    PROVE  FilesOK' /\ Keeps
  <1>1. FilesOK /\ plan \in Version
    BY TypeParts DEF StateOK
  <1>2. ASSUME NEW t \in Task, CreateExecution(t) PROVE FilesOK' /\ Keeps
    BY <1>1, <1>2, CreateKeeps
  <1>3. ASSUME NEW t \in Task, NEW e,
               Publish(t, e) \/ DeliverExecution(t, e) \/ Abandon(t, e)
        PROVE  FilesOK' /\ Keeps
    BY <1>1, <1>3, RunKeeps
  <1>4. ASSUME NEW t \in Task, NEW p \in Changed[t], NEW v \in Content, EditTree(t, p, v)
        PROVE  FilesOK' /\ Keeps
    BY <1>1, <1>4, EditTreeKeeps
  <1>5. CASE Untouched
    BY <1>1, <1>5 DEF Untouched, FilesOK, TaskOK, Keeps
  <1>6. \/ Untouched \/ \E t \in Task : CreateExecution(t)
        \/ \E t \in Task, e \in 1 .. MaxExecutions :
              Publish(t, e) \/ DeliverExecution(t, e) \/ Abandon(t, e)
        \/ \E t \in Task : \E p \in Changed[t], v \in Content : EditTree(t, p, v)
    <2> USE DEF Untouched
    <2>1. CASE JobStep \/ FailCopy \/ PublishProof \/ Commit \/ Die \/ UNCHANGED integrationVars
      BY <2>1 DEF JobStep, CopyPath, VerifyCopy, Restore, EndRollback, FailCopy, PublishProof,
                  Commit, Die, integrationVars
    <2>2. CASE Edit
      BY <2>2 DEF Edit, EditPlan, EditRoot
    <2>3. CASE \E t \in Task : TaskStep(t)
      <3>1. PICK t \in Task : TaskStep(t)
        BY <2>3
      <3>2. CASE Select(t)
        BY <3>2 DEF Select
      <3>3. ASSUME NEW e \in 1 .. MaxExecutions,
                   ReviewExecution(t, e, TRUE) \/ ReviewExecution(t, e, FALSE) \/ Begin(t, e)
            PROVE  Untouched
        BY <3>3 DEF ReviewExecution, Begin
      <3>4. QED
        BY <3>1, <3>2, <3>3 DEF TaskStep
    <2>4. QED
      BY <2>1, <2>2, <2>3 DEF IntegrationNext
  <1>7. QED
    BY <1>2, <1>3, <1>4, <1>5, <1>6

\* A delivered run stays one.
LEMMA DeliveredStay ==
    ASSUME Keeps, NEW t \in Task
    PROVE  Delivered(t) \subseteq Delivered(t)'
  BY DEF Keeps, Delivered

\* What an integration has at hand: a delivered run, whose worktree holds the
\* paths that are still to be copied.
LEMMA JobIs ==
    ASSUME IntegrationTypeOK, job # NoJob
    PROVE  /\ job \in Job /\ job.task \in Task /\ job.run \in Delivered(job.task)
           /\ job.todo \subseteq Changed[job.task]
           /\ tree[job.task][job.run] \in Tree(job.task)
           /\ job = [task |-> job.task, run |-> job.run, phase |-> job.phase, todo |-> job.todo,
                     backups |-> job.backups, lost |-> job.lost, before |-> job.before]
           /\ job.backups \in Seq(Path \X Content) /\ job.before \in [Path -> Content]
           /\ job.lost \subseteq Path /\ job.run \in 1 .. MaxExecutions
           /\ job.phase \in {"copy", "rollback"} /\ job.todo \subseteq Path
           /\ advance = "idle"
  <1>1. /\ job \in Job /\ job.run \in Delivered(job.task) /\ job.todo \subseteq Changed[job.task]
        /\ advance = "idle"
    BY TypeParts DEF JobOK, AdvanceOK
  <1>2. /\ job.task \in Task /\ job.backups \in Seq(Path \X Content)
        /\ job.before \in [Path -> Content] /\ job.lost \subseteq Path
        /\ job.run \in 1 .. MaxExecutions /\ job.phase \in {"copy", "rollback"}
        /\ job.todo \subseteq Path
    BY <1>1 DEF Job
  <1>3. job = [task |-> job.task, run |-> job.run, phase |-> job.phase, todo |-> job.todo,
               backups |-> job.backups, lost |-> job.lost, before |-> job.before]
    BY <1>1 DEF Job
  <1>4. tree[job.task][job.run] \in Tree(job.task)
    <2>1. TaskOK(job.task)
      BY <1>2, TypeParts DEF FilesOK
    <2>2. job.run \in DOMAIN runs[job.task]
      BY <1>1 DEF Delivered
    <2>3. QED
      BY <2>1, <2>2 DEF TaskOK
  <1>5. QED
    BY <1>1, <1>2, <1>3, <1>4

\* What is restored next, and what remains
LEMMA LastBackup ==
    ASSUME IntegrationTypeOK, job # NoJob, job.backups # <<>>
    PROVE  LET n == Len(job.backups)
               rest == SubSeq(job.backups, 1, n - 1)
           IN  /\ n \in DOMAIN job.backups /\ job.backups[n] \in Path \X Content
               /\ job.backups[n][1] \in Path /\ job.backups[n][2] \in Content
               /\ rest \in Seq(Path \X Content)
               /\ DOMAIN rest = 1 .. (n - 1)
               /\ \A i \in DOMAIN rest : i \in DOMAIN job.backups /\ rest[i] = job.backups[i]
               /\ \A i \in DOMAIN job.backups : i = n \/ i \in DOMAIN rest
  <1>1. job.backups \in Seq(Path \X Content)
    BY JobIs
  <1> DEFINE s == job.backups  S == Path \X Content  n == Len(s)  rest == SubSeq(s, 1, n - 1)
  <1> HIDE DEF s, S
  <1>2. s \in Seq(S) /\ s # <<>>
    BY <1>1 DEF s, S
  <1>3. n \in Nat \ {0} /\ DOMAIN s = 1 .. n
    BY <1>2
  <1>4. /\ rest \in Seq(S) /\ Len(rest) = n - 1 /\ DOMAIN rest = 1 .. (n - 1)
        /\ \A i \in 1 .. (n - 1) : rest[i] = s[i]
    BY <1>2, <1>3
  <1>5. s[n] \in S
    BY <1>2, <1>3
  <1>6. s[n][1] \in Path /\ s[n][2] \in Content
    BY <1>5 DEF S
  <1>7. QED
    BY <1>3, <1>4, <1>5, <1>6 DEF s, S

\* The job an action leaves, field by field
Becomes(phase, todo, backups, lost) ==
    job' = [task |-> job.task, run |-> job.run, phase |-> phase, todo |-> todo,
            backups |-> backups, lost |-> lost, before |-> job.before]

LEMMA CopyDoes ==
    ASSUME IntegrationTypeOK, NEW p, CopyPath(p)
    PROVE  /\ job # NoJob /\ p \in job.todo /\ p \in Path /\ job.phase = "copy"
           /\ root' = [root EXCEPT ![p] = tree[job.task][job.run][p]]
           /\ tree[job.task][job.run][p] \in Content /\ root[p] \in Content
           /\ Becomes("copy", job.todo \ {p}, Append(job.backups, <<p, root[p]>>), job.lost)
           /\ UNCHANGED <<stage, current, plan, advance, proof, counters>>
  <1>1. /\ job # NoJob /\ p \in job.todo /\ job.phase = "copy"
        /\ root' = [root EXCEPT ![p] = tree[job.task][job.run][p]]
        /\ UNCHANGED <<stage, current, plan, advance, proof, counters>>
    BY DEF CopyPath
  <1>2. p \in Changed[job.task] /\ p \in Path /\ tree[job.task][job.run] \in Tree(job.task)
    BY <1>1, JobIs
  <1>3. tree[job.task][job.run][p] \in Content /\ root[p] \in Content
    BY <1>2, TypeParts DEF Tree, StateOK
  <1>4. job' = [job EXCEPT !.todo = job.todo \ {p},
                           !.backups = Append(job.backups, <<p, root[p]>>)]
    BY DEF CopyPath
  <1>5. Becomes("copy", job.todo \ {p}, Append(job.backups, <<p, root[p]>>), job.lost)
    BY <1>1, <1>4, JobIs DEF Becomes
  <1>6. QED
    BY <1>1, <1>2, <1>3, <1>5

LEMMA TurnDoes ==
    ASSUME IntegrationTypeOK, FailCopy \/ (VerifyCopy /\ ~ Complete(job.task))
    PROVE  /\ job # NoJob
           /\ Becomes("rollback", job.todo, job.backups, job.lost)
           /\ fails' = fails \/ (fails < MaxFail /\ fails' = fails + 1)
           /\ UNCHANGED <<root, stage, current, plan, advance, proof, edits, deaths>>
  <1>1. /\ job # NoJob /\ job' = [job EXCEPT !.phase = "rollback"]
        /\ fails' = fails \/ (fails < MaxFail /\ fails' = fails + 1)
        /\ UNCHANGED <<root, stage, current, plan, advance, proof, edits, deaths>>
    BY DEF FailCopy, VerifyCopy, counters
  <1>2. Becomes("rollback", job.todo, job.backups, job.lost)
    BY <1>1, JobIs DEF Becomes
  <1>3. QED
    BY <1>1, <1>2

LEMMA RestoreDoes ==
    ASSUME IntegrationTypeOK, Restore
    PROVE  LET b == job.backups[Len(job.backups)]
               rest == SubSeq(job.backups, 1, Len(job.backups) - 1)
           IN  /\ job # NoJob /\ job.phase = "rollback" /\ job.backups # <<>>
               /\ \/ /\ root' = [root EXCEPT ![b[1]] = b[2]]
                     /\ Becomes("rollback", job.todo, rest, job.lost) /\ UNCHANGED fails
                  \/ /\ fails < MaxFail /\ fails' = fails + 1 /\ UNCHANGED root
                     /\ Becomes("rollback", job.todo, rest, job.lost \union {b[1]})
               /\ UNCHANGED <<stage, current, plan, advance, proof, edits, deaths>>
  <1> DEFINE b == job.backups[Len(job.backups)]
             rest == SubSeq(job.backups, 1, Len(job.backups) - 1)
  <1>1. /\ job # NoJob /\ job.phase = "rollback" /\ job.backups # <<>>
        /\ UNCHANGED <<stage, current, plan, advance, proof, edits, deaths>>
        /\ \/ /\ root' = [root EXCEPT ![b[1]] = b[2]]
              /\ job' = [job EXCEPT !.backups = rest]
              /\ UNCHANGED fails
           \/ /\ fails < MaxFail /\ fails' = fails + 1
              /\ job' = [job EXCEPT !.backups = rest, !.lost = job.lost \union {b[1]}]
              /\ UNCHANGED root
    BY DEF Restore
  <1> HIDE DEF b, rest
  <1>2. job = [task |-> job.task, run |-> job.run, phase |-> "rollback", todo |-> job.todo,
               backups |-> job.backups, lost |-> job.lost, before |-> job.before]
    BY <1>1, JobIs
  <1>3. job' = [job EXCEPT !.backups = rest] => Becomes("rollback", job.todo, rest, job.lost)
    BY <1>2 DEF Becomes
  <1> DEFINE lost == job.lost \union {b[1]}
  <1> HIDE DEF lost
  <1>4. job' = [job EXCEPT !.backups = rest, !.lost = lost]
          => Becomes("rollback", job.todo, rest, lost)
    BY <1>1, JobIs DEF Becomes
  <1>5. QED
    BY <1>1, <1>3, <1>4 DEF b, rest, lost

\* Every step either goes on with the integration that is under way, ends it,
\* begins one, or leaves it alone; only edits write the checkout besides.
JobKeeps == UNCHANGED <<job, root>>
JobEnds == job # NoJob /\ job' = NoJob /\ UNCHANGED root

LEMMA JobClasses ==
    ASSUME IntegrationTypeOK, [IntegrationNext]_integrationVars
    PROVE  \/ JobKeeps
           \/ JobEnds /\ VerifyCopy /\ Complete(job.task)
           \/ JobEnds /\ EndRollback
           \/ JobEnds /\ Die
           \/ \E p \in Path : CopyPath(p)
           \/ FailCopy
           \/ VerifyCopy /\ ~ Complete(job.task)
           \/ Restore
           \/ \E t \in Task, e \in 1 .. MaxExecutions : Begin(t, e)
           \/ \E p \in Path : EditRoot(p)
  <1>1. CASE \E t \in Task : TaskStep(t)
    <2>1. PICK t \in Task : TaskStep(t)
      BY <1>1
    <2>2. \/ JobKeeps \/ \E e \in 1 .. MaxExecutions : Begin(t, e)
      BY <2>1 DEF TaskStep, JobKeeps, CreateExecution, Select, Publish, DeliverExecution, Abandon,
                  ReviewExecution
    <2>3. QED
      BY <2>2
  <1>2. CASE JobStep \/ FailCopy
    BY <1>2 DEF JobStep, JobEnds, VerifyCopy, EndRollback
  <1>3. CASE PublishProof \/ Commit \/ UNCHANGED integrationVars
    BY <1>3 DEF PublishProof, Commit, integrationVars, JobKeeps
  <1>4. CASE Die
    BY <1>4 DEF Die, JobKeeps, JobEnds
  <1>5. CASE Edit
    BY <1>5 DEF Edit, EditPlan, EditTree, JobKeeps
  <1>6. QED
    BY <1>1, <1>2, <1>3, <1>4, <1>5 DEF IntegrationNext

\* An integration writes only what it has backed up: what is still to be copied
\* is as it was, and a backup is what was there before.
BackupsAreOriginals ==
    job # NoJob =>
        /\ \A i \in DOMAIN job.backups :
              job.backups[i][2] = job.before[job.backups[i][1]]
        /\ job.phase = "copy" => \A p \in job.todo : root[p] = job.before[p]

\* The proof that waits for its commit names the runs whose receipts are in the
\* checkout, which holds what they recorded.
PublishedIsExact ==
    advance = "published" =>
        /\ proof \in [Task -> 1 .. MaxExecutions]
        /\ \A t \in Task :
              /\ receipt[t] = proof[t] /\ Checks(t, proof[t]) # {}
              /\ \A p \in Changed[t] : root[p] = runs[t][proof[t]].after[p]

TInv == /\ IntegrationTypeOK /\ ChangesAreBackedUp
        /\ BackupsAreOriginals /\ PublishedIsExact

\* The parts of the invariant that speak of a job and the checkout
JobInv == /\ JobOK /\ root \in [Path -> Content]
          /\ ChangesAreBackedUp /\ BackupsAreOriginals

LEMMA JobKeptStep ==
    ASSUME TInv, Keeps, JobKeeps
    PROVE  JobInv'
  <1>1. JobInv
    BY TypeParts DEF TInv, JobInv, StateOK
  <1>2. JobOK'
    <2>1. CASE job = NoJob
      BY <2>1, <1>1 DEF JobKeeps, JobInv, JobOK
    <2>2. CASE job # NoJob
      BY <2>2, <1>1, JobIs, DeliveredStay DEF JobKeeps, JobInv, JobOK, TInv
    <2>3. QED
      BY <2>1, <2>2
  <1>3. QED
    BY <1>1, <1>2 DEF JobKeeps, JobInv, ChangesAreBackedUp, BackupsAreOriginals

\* A job that goes on is typed if its new fields are.
LEMMA BecomesTyped ==
    ASSUME TInv, Keeps, job # NoJob,
           NEW phase \in {"copy", "rollback"}, NEW todo, todo \subseteq job.todo,
           NEW backups \in Seq(Path \X Content), NEW lost, lost \subseteq Path,
           Becomes(phase, todo, backups, lost)
    PROVE  /\ JobOK' /\ job'.before = job.before /\ job'.backups = backups
           /\ job'.todo = todo /\ job'.lost = lost /\ job'.phase = phase /\ job' # NoJob
  <1>1. /\ job'.before = job.before /\ job'.backups = backups /\ job'.task = job.task
        /\ job'.todo = todo /\ job'.lost = lost /\ job'.phase = phase /\ job'.run = job.run
    BY DEF Becomes
  <1>2. job' \in Job
    BY JobIs DEF TInv, Becomes, Job
  <1>3. (job.run \in Delivered(job.task))' /\ job'.todo \subseteq Changed[job'.task]
    BY <1>1, JobIs, DeliveredStay DEF TInv
  <1>4. QED
    BY <1>1, <1>2, <1>3, JobAssumption DEF JobOK

LEMMA CopyStep ==
    ASSUME TInv, Keeps, NEW p \in Path, CopyPath(p)
    PROVE  JobInv' /\ job' # NoJob
  <1> DEFINE B == Append(job.backups, <<p, root[p]>>)
  <1>1. /\ job # NoJob /\ p \in job.todo /\ job.phase = "copy"
        /\ root' = [root EXCEPT ![p] = tree[job.task][job.run][p]]
        /\ tree[job.task][job.run][p] \in Content /\ root[p] \in Content
        /\ Becomes("copy", job.todo \ {p}, B, job.lost)
    BY CopyDoes DEF TInv
  <1>2. job.backups \in Seq(Path \X Content) /\ job.lost \subseteq Path
    BY <1>1, JobIs DEF TInv
  <1>3. /\ B \in Seq(Path \X Content) /\ DOMAIN B = 1 .. (Len(job.backups) + 1)
        /\ DOMAIN job.backups = 1 .. Len(job.backups) /\ Len(job.backups) \in Nat
        /\ \A i \in DOMAIN job.backups : B[i] = job.backups[i]
        /\ B[Len(job.backups) + 1] = <<p, root[p]>>
    <2>1. <<p, root[p]>> \in Path \X Content
      BY <1>1
    <2>2. QED
      BY <1>2, <2>1
  <1> HIDE DEF B
  <1>4. /\ JobOK' /\ job'.before = job.before /\ job'.backups = B
        /\ job'.todo = job.todo \ {p} /\ job'.lost = job.lost /\ job'.phase = "copy"
        /\ job' # NoJob
    <2>1. job.todo \ {p} \subseteq job.todo
      OBVIOUS
    <2>2. QED
      BY <1>1, <1>2, <1>3, <2>1, BecomesTyped
  <1>5. root \in [Path -> Content] /\ root' \in [Path -> Content]
        /\ \A q \in Path : q # p => root'[q] = root[q]
    BY <1>1, TypeParts DEF TInv, StateOK
  <1>6. root[p] = job.before[p]
    BY <1>1 DEF TInv, BackupsAreOriginals
  <1>7. BackupsAreOriginals'
    <2>1. ASSUME NEW i \in DOMAIN B PROVE B[i][2] = job.before[B[i][1]]
      <3>1. CASE i \in DOMAIN job.backups
        BY <1>1, <1>3, <3>1 DEF TInv, BackupsAreOriginals
      <3>2. CASE i = Len(job.backups) + 1
        BY <1>3, <1>6, <3>2
      <3>3. QED
        BY <1>3, <3>1, <3>2
    <2>2. ASSUME NEW q \in job.todo \ {p} PROVE root'[q] = job.before[q]
      <3>1. q \in Path /\ root[q] = job.before[q]
        BY <1>1, JobIs DEF TInv, BackupsAreOriginals
      <3>2. QED
        BY <1>5, <3>1
    <2>3. QED
      BY <1>4, <2>1, <2>2 DEF BackupsAreOriginals
  <1>8. ChangesAreBackedUp'
    <2>1. ASSUME NEW q \in Path, root'[q] # job.before[q]
          PROVE  q \in job.lost \/ \E i \in DOMAIN B : B[i] = <<q, job.before[q]>>
      <3>1. CASE q = p
        BY <1>3, <1>6, <3>1
      <3>2. CASE q # p
        <4>1. q \in job.lost \/ \E i \in DOMAIN job.backups :
                                   job.backups[i] = <<q, job.before[q]>>
          BY <1>1, <1>5, <2>1, <3>2 DEF TInv, ChangesAreBackedUp
        <4>2. DOMAIN job.backups \subseteq DOMAIN B
          BY <1>3
        <4>3. QED
          BY <1>3, <4>1, <4>2
      <3>3. QED
        BY <3>1, <3>2
    <2>2. QED
      BY <1>4, <2>1 DEF ChangesAreBackedUp
  <1>9. QED
    BY <1>4, <1>5, <1>7, <1>8 DEF JobInv

LEMMA TurnStep ==
    ASSUME TInv, Keeps, FailCopy \/ (VerifyCopy /\ ~ Complete(job.task))
    PROVE  JobInv' /\ job' # NoJob
  <1>1. job # NoJob /\ UNCHANGED root /\ Becomes("rollback", job.todo, job.backups, job.lost)
    BY TurnDoes DEF TInv
  <1>2. job.backups \in Seq(Path \X Content) /\ job.lost \subseteq Path
    BY <1>1, JobIs DEF TInv
  <1>3. /\ JobOK' /\ job'.before = job.before /\ job'.backups = job.backups
        /\ job'.lost = job.lost /\ job'.phase = "rollback" /\ job' # NoJob
    BY <1>1, <1>2, BecomesTyped
  <1>4. QED
    BY <1>1, <1>3, TypeParts
       DEF TInv, JobInv, StateOK, ChangesAreBackedUp, BackupsAreOriginals

LEMMA RestoreStep ==
    ASSUME TInv, Keeps, Restore
    PROVE  JobInv' /\ job' # NoJob
  <1> DEFINE n == Len(job.backups)
             b == job.backups[n]
             rest == SubSeq(job.backups, 1, n - 1)
  <1>1. /\ job # NoJob /\ job.phase = "rollback" /\ job.backups # <<>>
        /\ \/ /\ root' = [root EXCEPT ![b[1]] = b[2]]
              /\ Becomes("rollback", job.todo, rest, job.lost)
           \/ UNCHANGED root /\ Becomes("rollback", job.todo, rest, job.lost \union {b[1]})
    BY RestoreDoes DEF TInv
  <1>2. /\ n \in DOMAIN job.backups /\ b[1] \in Path /\ b[2] \in Content
        /\ rest \in Seq(Path \X Content)
        /\ \A i \in DOMAIN rest : i \in DOMAIN job.backups /\ rest[i] = job.backups[i]
        /\ \A i \in DOMAIN job.backups : i = n \/ i \in DOMAIN rest
    BY <1>1, LastBackup DEF TInv
  <1>3. job.lost \subseteq Path /\ root \in [Path -> Content] /\ b[2] = job.before[b[1]]
    BY <1>1, <1>2, JobIs, TypeParts DEF TInv, StateOK, BackupsAreOriginals
  <1>4. \A q \in Path : root[q] # job.before[q] =>
           q \in job.lost \/ \E i \in DOMAIN job.backups : job.backups[i] = <<q, job.before[q]>>
    BY <1>1 DEF TInv, ChangesAreBackedUp
  <1>5. \A i \in DOMAIN rest : rest[i][2] = job.before[rest[i][1]]
    BY <1>1, <1>2 DEF TInv, BackupsAreOriginals
  <1> HIDE DEF n, b, rest
  <1>6. \A q \in Path : root[q] # job.before[q] /\ q # b[1] =>
           q \in job.lost \/ \E i \in DOMAIN rest : rest[i] = <<q, job.before[q]>>
    <2> SUFFICES ASSUME NEW q \in Path, root[q] # job.before[q], q # b[1], q \notin job.lost
                 PROVE  \E i \in DOMAIN rest : rest[i] = <<q, job.before[q]>>
      OBVIOUS
    <2>1. PICK i \in DOMAIN job.backups : job.backups[i] = <<q, job.before[q]>>
      BY <1>4
    <2>2. i # n
      BY <2>1 DEF b
    <2>3. QED
      BY <1>2, <2>1, <2>2
  <1>7. CASE /\ root' = [root EXCEPT ![b[1]] = b[2]]
             /\ Becomes("rollback", job.todo, rest, job.lost)
    <2>1. /\ JobOK' /\ job'.before = job.before /\ job'.backups = rest
          /\ job'.lost = job.lost /\ job'.phase = "rollback" /\ job' # NoJob
      BY <1>1, <1>2, <1>3, <1>7, BecomesTyped
    <2>2. /\ root' \in [Path -> Content] /\ root'[b[1]] = job.before[b[1]]
          /\ \A q \in Path : q # b[1] => root'[q] = root[q]
      BY <1>2, <1>3, <1>7
    <2>3. ChangesAreBackedUp'
      BY <1>6, <2>1, <2>2 DEF ChangesAreBackedUp
    <2>4. QED
      BY <1>5, <2>1, <2>2, <2>3 DEF JobInv, BackupsAreOriginals
  <1>8. CASE UNCHANGED root /\ Becomes("rollback", job.todo, rest, job.lost \union {b[1]})
    <2>1. job.lost \union {b[1]} \subseteq Path
      BY <1>2, <1>3
    <2>2. /\ JobOK' /\ job'.before = job.before /\ job'.backups = rest
          /\ job'.lost = job.lost \union {b[1]} /\ job'.phase = "rollback" /\ job' # NoJob
      BY <1>1, <1>2, <2>1, <1>8, BecomesTyped
    <2>3. ChangesAreBackedUp'
      BY <1>6, <1>8, <2>2 DEF ChangesAreBackedUp
    <2>4. QED
      BY <1>3, <1>5, <1>8, <2>2, <2>3 DEF JobInv, BackupsAreOriginals
  <1>9. QED
    BY <1>1, <1>7, <1>8 DEF b, rest, n

LEMMA BeginStep ==
    ASSUME TInv, Keeps, NEW t \in Task, NEW e, Begin(t, e)
    PROVE  JobInv'
  <1>1. /\ e = Candidate(t) /\ e # 0 /\ UNCHANGED <<root, advance>> /\ Quiet
        /\ job' = [task |-> t, run |-> e, phase |-> "copy", todo |-> Changed[t],
                   backups |-> <<>>, lost |-> {}, before |-> root]
    BY DEF Begin
  <1>2. e \in Delivered(t) /\ e \in 1 .. MaxExecutions /\ root \in [Path -> Content]
    BY <1>1, CandidateIs, TypeParts DEF TInv, StateOK
  <1>3. /\ job'.task = t /\ job'.run = e /\ job'.todo = Changed[t] /\ job'.backups = <<>>
        /\ job'.before = root /\ job'.phase = "copy"
    BY <1>1
  <1>4. job' \in Job
    <2>1. Changed[t] \subseteq Path
      BY ChangedAssumption
    <2>2. QED
      BY <1>1, <1>2, <2>1 DEF Job
  <1>5. JobOK'
    BY <1>2, <1>3, <1>4, DeliveredStay DEF JobOK
  <1>6. QED
    BY <1>1, <1>2, <1>3, <1>5, ChangedAssumption
       DEF JobInv, ChangesAreBackedUp, BackupsAreOriginals

LEMMA JobStepKeeps ==
    ASSUME TInv, [IntegrationNext]_integrationVars
    PROVE  JobInv'
  <1>1. Keeps /\ root \in [Path -> Content]
    BY FilesStep, TypeParts DEF TInv, StateOK
  <1>2. CASE JobEnds
    BY <1>1, <1>2 DEF JobEnds, JobInv, JobOK, ChangesAreBackedUp, BackupsAreOriginals
  <1>3. ASSUME NEW p \in Path, EditRoot(p) PROVE JobInv'
    <2>1. job = NoJob /\ job' = NoJob /\ root' = [root EXCEPT ![p] = Foreign]
      BY <1>3 DEF EditRoot, Quiet
    <2>2. Foreign \in Content
      BY IntegrationBoundAssumption DEF Foreign, Content
    <2>3. QED
      BY <1>1, <2>1, <2>2 DEF JobInv, JobOK, ChangesAreBackedUp, BackupsAreOriginals
  <1>4. QED
    BY <1>1, <1>2, <1>3, JobClasses, JobKeptStep, CopyStep, TurnStep, RestoreStep, BeginStep
       DEF TInv

LEMMA StateStep ==
    ASSUME TInv, [IntegrationNext]_integrationVars
    PROVE  StateOK'
  <1>1. root' \in [Path -> Content]
    BY JobStepKeeps DEF JobInv
  <1>2. StateOK /\ {MaxEdit, MaxFail, MaxDeath} \subseteq Nat
    BY TypeParts, IntegrationBoundAssumption DEF TInv
  <1> DEFINE Rest == /\ stage' \in {"implement", "verify"} /\ current' \in Task
                     /\ plan' \in Version /\ edits' \in 0 .. MaxEdit
                     /\ fails' \in 0 .. MaxFail /\ deaths' \in 0 .. MaxDeath
  <1> SUFFICES Rest
    BY <1>1 DEF StateOK
  <1>3. CASE \E t \in Task : TaskStep(t)
    <2>1. PICK t \in Task : TaskStep(t)
      BY <1>3
    <2>2. CASE Select(t)
      BY <1>2, <2>2 DEF Select, StateOK
    <2>3. CASE \E e : Abandon(t, e)
      BY <1>2, <2>3 DEF Abandon, StateOK
    <2>4. Select(t) \/ (\E e : Abandon(t, e)) \/ UNCHANGED <<stage, current, plan, counters>>
      BY <2>1 DEF TaskStep, CreateExecution, Publish, DeliverExecution, ReviewExecution, Begin
    <2>5. QED
      BY <1>2, <2>2, <2>3, <2>4 DEF StateOK, counters
  <1>4. CASE JobStep \/ FailCopy
    <2>1. /\ UNCHANGED <<stage, current, plan, edits, deaths>>
          /\ fails' = fails \/ (fails < MaxFail /\ fails' = fails + 1)
      BY <1>4 DEF JobStep, CopyPath, VerifyCopy, Restore, EndRollback, FailCopy, counters
    <2>2. QED
      BY <1>2, <2>1 DEF StateOK
  <1>5. CASE PublishProof \/ Commit \/ Die \/ UNCHANGED integrationVars
    BY <1>2, <1>5 DEF PublishProof, Commit, Die, integrationVars, counters, StateOK
  <1>6. CASE Edit
    <2>1. /\ UNCHANGED <<stage, current, fails, deaths>> /\ edits < MaxEdit /\ edits' = edits + 1
          /\ plan' = plan \/ plan' \in Version
      BY <1>6 DEF Edit, EditPlan, EditRoot, EditTree, Edits
    <2>2. QED
      BY <1>2, <2>1 DEF StateOK
  <1>7. QED
    BY <1>3, <1>4, <1>5, <1>6 DEF IntegrationNext

LEMMA ReviewsGrow ==
    ASSUME TInv, [IntegrationNext]_integrationVars
    PROVE  /\ reviews \subseteq reviews'
           /\ ReviewsOK'
  <1>1. Keeps /\ ReviewsOK /\ FilesOK /\ plan \in Version
    BY FilesStep, TypeParts DEF TInv, StateOK
  <1>2. \A c \in reviews : c.task \in Task /\ c.run \in Delivered(c.task)'
    BY <1>1, DeliveredStay DEF ReviewsOK
  <1>3. ASSUME NEW t \in Task, NEW e \in 1 .. MaxExecutions, NEW pass \in BOOLEAN,
               ReviewExecution(t, e, pass)
        PROVE  ReviewsOK' /\ reviews \subseteq reviews'
    <2> DEFINE new == [task |-> t, run |-> e, input |-> plan, pass |-> pass]
    <2>1. reviews' = reviews \union {new} /\ e \in Delivered(t)
      BY <1>3 DEF ReviewExecution
    <2>2. new \in [task : Task, run : 1 .. MaxExecutions, input : Version, pass : BOOLEAN]
      BY <1>1
    <2>3. new.task = t /\ new.run = e /\ e \in Delivered(t)'
      BY <1>1, <2>1, DeliveredStay
    <2> HIDE DEF new
    <2>4. QED
      BY <1>1, <1>2, <2>1, <2>2, <2>3 DEF ReviewsOK
  <1>4. CASE UNCHANGED reviews
    BY <1>1, <1>2, <1>4 DEF ReviewsOK
  <1>5. \/ UNCHANGED reviews
        \/ \E t \in Task, e \in 1 .. MaxExecutions, pass \in BOOLEAN : ReviewExecution(t, e, pass)
    <2>1. CASE \E t \in Task : TaskStep(t)
      <3>1. PICK t \in Task : TaskStep(t)
        BY <2>1
      <3>2. ASSUME NEW e \in 1 .. MaxExecutions,
                   ReviewExecution(t, e, TRUE) \/ ReviewExecution(t, e, FALSE)
            PROVE  \E pass \in BOOLEAN : ReviewExecution(t, e, pass)
        BY <3>2
      <3>3. \/ UNCHANGED reviews
            \/ \E e \in 1 .. MaxExecutions :
                  ReviewExecution(t, e, TRUE) \/ ReviewExecution(t, e, FALSE)
        BY <3>1 DEF TaskStep, CreateExecution, Select, Publish, DeliverExecution, Abandon, Begin
      <3>4. QED
        BY <3>2, <3>3
    <2>2. CASE JobStep \/ FailCopy \/ PublishProof \/ Commit \/ Die \/ UNCHANGED integrationVars
      BY <2>2 DEF JobStep, CopyPath, VerifyCopy, Restore, EndRollback, FailCopy, PublishProof,
                  Commit, Die, integrationVars
    <2>3. CASE Edit
      BY <2>3 DEF Edit, EditPlan, EditRoot, EditTree
    <2>4. QED
      BY <2>1, <2>2, <2>3 DEF IntegrationNext
  <1>6. QED
    BY <1>3, <1>4, <1>5

\* The proof is written in one step and committed in another; between them no
\* transaction begins, and none was there.
LEMMA AdvanceClasses ==
    ASSUME IntegrationTypeOK, [IntegrationNext]_integrationVars
    PROVE  \/ PublishProof
           \/ /\ UNCHANGED <<stage, advance, proof>>
              /\ advance = "published" => UNCHANGED <<job, root>>
           \/ UNCHANGED proof /\ advance' = "idle"
  <1>1. AdvanceOK
    BY TypeParts
  <1>2. CASE \E t \in Task : TaskStep(t)
    <2>1. PICK t \in Task : TaskStep(t)
      BY <1>2
    <2>2. CASE \E e \in 1 .. MaxExecutions : Begin(t, e)
      BY <2>2 DEF Begin, Quiet
    <2>3. CASE ~ \E e \in 1 .. MaxExecutions : Begin(t, e)
      <3>1. UNCHANGED <<stage, advance, proof, job, root>>
        BY <2>1, <2>3 DEF TaskStep, CreateExecution, Select, Publish, DeliverExecution, Abandon,
                          ReviewExecution
      <3>2. QED
        BY <3>1
    <2>4. QED
      BY <2>2, <2>3
  <1>3. CASE JobStep \/ FailCopy
    BY <1>1, <1>3 DEF JobStep, CopyPath, VerifyCopy, Restore, EndRollback, FailCopy, AdvanceOK
  <1>4. CASE Commit \/ Die \/ UNCHANGED integrationVars
    BY <1>4 DEF Commit, Die, integrationVars
  <1>5. CASE Edit
    BY <1>5 DEF Edit, EditPlan, EditRoot, EditTree, Quiet
  <1>6. QED
    BY <1>2, <1>3, <1>4, <1>5 DEF IntegrationNext

LEMMA PublishProofDoes ==
    ASSUME TInv, PublishProof
    PROVE  /\ job = NoJob /\ job' = NoJob /\ advance' = "published" /\ stage' = "implement"
           /\ proof' \in [Task -> 1 .. MaxExecutions]
           /\ \A t \in Task : Completed(t, proof'[t])
           /\ UNCHANGED <<runs, receipt, reviews, root, tree>>
  <1>1. /\ job = NoJob /\ job' = NoJob /\ advance' = "published" /\ stage' = "implement"
        /\ ProofExists /\ UNCHANGED <<runs, receipt, reviews, root, tree>>
        /\ proof' = [t \in Task |-> CHOOSE e \in Delivered(t) : Completed(t, e)]
    BY DEF PublishProof, Quiet
  <1>2. ASSUME NEW t \in Task
        PROVE  Completed(t, proof'[t]) /\ proof'[t] \in 1 .. MaxExecutions
    <2>1. \E e \in Delivered(t) : Completed(t, e)
      BY <1>1 DEF ProofExists
    <2>2. Completed(t, proof'[t]) /\ proof'[t] \in Delivered(t)
      BY <1>1, <2>1
    <2>3. QED
      BY <2>2, CandidateIs, TypeParts DEF TInv
  <1>3. QED
    BY <1>1, <1>2

LEMMA AdvanceStep ==
    ASSUME TInv, [IntegrationNext]_integrationVars
    PROVE  AdvanceOK'
  <1>1. AdvanceOK
    BY TypeParts DEF TInv
  <1>2. CASE PublishProof
    BY <1>2, PublishProofDoes DEF AdvanceOK
  <1>3. CASE /\ UNCHANGED <<stage, advance, proof>>
             /\ advance = "published" => UNCHANGED <<job, root>>
    BY <1>1, <1>3 DEF AdvanceOK
  <1>4. CASE UNCHANGED proof /\ advance' = "idle"
    BY <1>1, <1>4 DEF AdvanceOK
  <1>5. QED
    BY <1>2, <1>3, <1>4, AdvanceClasses DEF TInv

LEMMA ExactStep ==
    ASSUME TInv, [IntegrationNext]_integrationVars
    PROVE  PublishedIsExact'
  <1>1. Keeps /\ reviews \subseteq reviews' /\ FilesOK
    BY FilesStep, ReviewsGrow, TypeParts DEF TInv
  <1>2. CASE PublishProof
    <2>1. ASSUME NEW t \in Task
          PROVE  /\ receipt'[t] = proof'[t]
                 /\ \E c \in reviews' : c.task = t /\ c.run = proof'[t] /\ c.pass
                 /\ \A p \in Changed[t] : root'[p] = runs'[t][proof'[t]].after[p]
      BY <1>2, PublishProofDoes DEF Completed, Executed, Integrated, Intact, Matches, Checks
    <2>2. QED
      BY <1>2, <2>1, PublishProofDoes DEF PublishedIsExact, Checks
  <1>3. CASE advance = "published" /\ UNCHANGED <<proof, root>>
    <2>1. ASSUME NEW t \in Task
          PROVE  /\ receipt'[t] = proof[t]
                 /\ \E c \in reviews' : c.task = t /\ c.run = proof[t] /\ c.pass
                 /\ \A p \in Changed[t] : root[p] = runs'[t][proof[t]].after[p]
      <3>1. /\ proof[t] \in 1 .. MaxExecutions
            /\ receipt[t] = proof[t] /\ Checks(t, proof[t]) # {}
            /\ \A p \in Changed[t] : root[p] = runs[t][proof[t]].after[p]
        BY <1>3 DEF TInv, PublishedIsExact
      <3>2. proof[t] # 0 /\ proof[t] \in DOMAIN runs[t]
        BY <1>1, <3>1 DEF FilesOK, TaskOK
      <3>3. receipt'[t] = proof[t] /\ runs'[t][proof[t]].after = runs[t][proof[t]].after
        BY <1>1, <3>1, <3>2 DEF Keeps
      <3>4. \E c \in reviews' : c.task = t /\ c.run = proof[t] /\ c.pass
        BY <1>1, <3>1 DEF Checks
      <3>5. QED
        BY <3>1, <3>3, <3>4
    <2>2. QED
      BY <1>3, <2>1 DEF PublishedIsExact, TInv, Checks
  <1>4. CASE advance' # "published"
    BY <1>4 DEF PublishedIsExact
  <1>5. QED
    BY <1>2, <1>3, <1>4, AdvanceClasses DEF TInv

LEMMA IntegrationInitially == IntegrationInit => TInv
  <1> SUFFICES ASSUME IntegrationInit PROVE TInv
    OBVIOUS
  <1>1. /\ {MaxExecutions, MaxEdit, MaxFail, MaxDeath} \subseteq Nat /\ 1 \in Version
    BY IntegrationBoundAssumption, VersionAssumption
  <1>2. FilesOK
    BY <1>1 DEF IntegrationInit, FilesOK, TaskOK
  <1>3. StateOK
    BY <1>1 DEF IntegrationInit, StateOK, Content
  <1>4. ReviewsOK /\ JobOK /\ AdvanceOK
    BY DEF IntegrationInit, ReviewsOK, JobOK, AdvanceOK
  <1>5. ChangesAreBackedUp /\ BackupsAreOriginals /\ PublishedIsExact
    BY DEF IntegrationInit, ChangesAreBackedUp, BackupsAreOriginals, PublishedIsExact
  <1>6. QED
    BY <1>2, <1>3, <1>4, <1>5, TypeParts DEF TInv

LEMMA IntegrationInvariance == IntegrationSpec => []TInv
  <1>1. TInv /\ [IntegrationNext]_integrationVars => TInv'
    <2> SUFFICES ASSUME TInv, [IntegrationNext]_integrationVars PROVE TInv'
      OBVIOUS
    <2>1. FilesOK' /\ StateOK' /\ ReviewsOK' /\ JobInv' /\ AdvanceOK' /\ PublishedIsExact'
      BY FilesStep, StateStep, ReviewsGrow, JobStepKeeps, AdvanceStep, ExactStep DEF TInv
    <2>2. IntegrationTypeOK' <=> FilesOK' /\ StateOK' /\ ReviewsOK' /\ JobOK' /\ AdvanceOK'
      BY TypeParts, PTL
    <2>3. QED
      BY <2>1, <2>2 DEF TInv, JobInv
  <1>2. QED
    BY <1>1, IntegrationInitially, PTL DEF IntegrationSpec

\* The reader of readiness and the writer of the proof agree where it matters.
LEMMA ReadyHasProof == TInv => ReadyIsAccepted
  <1> SUFFICES ASSUME TInv, StageRoute = "transition", NEW t \in Task
               PROVE  \E e \in Delivered(t) : Completed(t, e)
    BY DEF ReadyIsAccepted, ProofExists
  <1>1. Complete(current)
    <2>1. TaskRoute(current) # "transition"
      BY DEF TaskRoute
    <2>2. QED
      BY <2>1 DEF StageRoute
  <1>2. Complete(t)
    BY <1>1 DEF StageRoute
  <1> DEFINE e == Candidate(t)
  <1>3. e # 0 /\ Executed(t, e) /\ Checks(t, e) # {} /\ Integrated(t, e)
    BY <1>2 DEF Complete, TaskRoute
  <1>4. e \in Delivered(t)
    BY <1>3, CandidateIs, TypeParts DEF TInv
  <1>5. QED
    BY <1>3, <1>4 DEF Completed

\* Whatever an integration has changed in the checkout can be restored from its
\* backups or is reported as lost, also while it rolls back; and when readiness
\* says to leave the stage, state advance finds its proof.
THEOREM IntegrationStaysRecoverable == IntegrationSpec => []IntegrationIsRecoverable
  <1>1. TInv => IntegrationIsRecoverable
    BY ReadyHasProof DEF TInv, IntegrationIsRecoverable
  <1>2. QED
    BY <1>1, IntegrationInvariance, PTL

\* An integration that returns has completed its task or has left the checkout as
\* it found it, apart from the paths it reports, whichever of its copies failed.
THEOREM IntegrationIsAllOrNothing == IntegrationSpec => AllOrNothing
  <1>1. TInv /\ [IntegrationNext]_integrationVars =>
          [(job # NoJob /\ job' = NoJob /\ deaths' = deaths)
             => \/ Complete(job.task)
                \/ \A p \in Path : root[p] # job.before[p] => p \in job.lost]_integrationVars
    <2> SUFFICES ASSUME TInv, [IntegrationNext]_integrationVars,
                        job # NoJob, job' = NoJob, deaths' = deaths, ~ Complete(job.task)
                 PROVE  \A p \in Path : root[p] # job.before[p] => p \in job.lost
      OBVIOUS
    <2>1. deaths \in Nat
      BY IntegrationBoundAssumption, TypeParts DEF TInv, StateOK
    <2>2. ~ Die
      BY <2>1 DEF Die
    <2>3. EndRollback
      <3>1. ~ JobKeeps
        BY DEF JobKeeps
      <3>2. ~ (\E p \in Path : CopyPath(p)) /\ ~ Restore
            /\ ~ (FailCopy \/ (VerifyCopy /\ ~ Complete(job.task)))
        BY FilesStep, CopyStep, TurnStep, RestoreStep DEF TInv
      <3>3. ~ (\E t \in Task, e \in 1 .. MaxExecutions : Begin(t, e))
        BY DEF Begin, Quiet
      <3>4. ~ (\E p \in Path : EditRoot(p))
        BY DEF EditRoot, Quiet
      <3>5. QED
        BY <2>2, <3>1, <3>2, <3>3, <3>4, JobClasses DEF TInv
    <2>4. DOMAIN job.backups = {}
      BY <2>3 DEF EndRollback
    <2>5. QED
      BY <2>4 DEF TInv, ChangesAreBackedUp
  <1>2. QED
    BY <1>1, IntegrationInvariance, PTL DEF IntegrationSpec, AllOrNothing

\* The stage is left with every changed path of every task as its receipt recorded
\* it and with a passing review of that run, whatever deaths, failures and edits
\* of worktrees there were.
THEOREM SealStaysExact == IntegrationSpec => SealIsExact
  <1>1. TInv /\ [IntegrationNext]_integrationVars =>
          [(stage' # stage)
             => \A t \in Task :
                   LET e == proof[t]
                   IN  /\ receipt[t] = e /\ Checks(t, e) # {}
                       /\ \A p \in Changed[t] : root[p] = runs[t][e].after[p]]_integrationVars
    <2> SUFFICES ASSUME TInv, [IntegrationNext]_integrationVars, stage' # stage
                 PROVE  advance = "published"
      BY DEF TInv, PublishedIsExact
    <2>1. CASE \E t \in Task : TaskStep(t)
      <3>1. PICK t \in Task : TaskStep(t)
        BY <2>1
      <3>2. UNCHANGED stage
        BY <3>1 DEF TaskStep, CreateExecution, Select, Publish, DeliverExecution, Abandon,
                    ReviewExecution, Begin
      <3>3. QED
        BY <3>2
    <2>2. CASE JobStep \/ FailCopy \/ PublishProof \/ Die \/ UNCHANGED integrationVars
      BY <2>2 DEF JobStep, CopyPath, VerifyCopy, Restore, EndRollback, FailCopy, PublishProof,
                  Die, integrationVars
    <2>3. CASE Edit
      BY <2>3 DEF Edit, EditPlan, EditRoot, EditTree
    <2>4. CASE Commit
      BY <2>4 DEF Commit
    <2>5. QED
      BY <2>1, <2>2, <2>3, <2>4 DEF IntegrationNext
  <1>2. QED
    BY <1>1, IntegrationInvariance, PTL DEF IntegrationSpec, SealIsExact
===============================================================================
