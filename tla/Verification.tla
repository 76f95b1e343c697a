----------------------------- MODULE Verification -----------------------------
(***************************************************************************)
(* The verify stage: verify-run executes the frozen commands of a test     *)
(* case and records them as evidence, the finalizer of the verify skill    *)
(* turns validation.md and the evidence into one receipt per test case and *)
(* then into the result (lib/verification-receipts.mjs,                    *)
(* lib/verify-command-evidence.mjs), and the stage gate reads all of it    *)
(* again (lib/stage-results.mjs).                                          *)
(*                                                                         *)
(* Every file of a run is created exclusively, and no step is undone when  *)
(* a later one fails: what a killed command has left behind makes the same *)
(* run fail for good, and the way out is a new run.                        *)
(***************************************************************************)
EXTENDS Naturals, Sequences

CONSTANTS TC,         \* the accepted test cases
          Critical,   \* those that are E2E and critical
          NoCommand, NoFinalizer, NoResult,
          MaxRuns,    \* bound: execute runs of verify
          MaxTrouble  \* bound: commands that fail, processes that are killed, and
                      \* edits of validation.md and of the frozen documents

ASSUME CriticalAssumption == Critical \subseteq TC
ASSUME BoundAssumption == MaxRuns \in Nat /\ MaxTrouble \in Nat

\* "unsupported" also stands for a row that is missing or gives no reason.
Status == {"executed", "skipped", "unsupported"}
Rows   == [TC -> Status]

\* validation.md, and the state of a command and of a finalizer
Validation    == [run : 0 .. MaxRuns, cover : Rows]
CommandLock   == [run : 1 .. MaxRuns, step : {"locked", "ran", "logged"}, pass : BOOLEAN]
FinalizerWork == [run : 1 .. MaxRuns, step : {"read", "write"}, rows : Validation,
                  bound : Validation, todo : SUBSET TC]

ASSUME NoneAssumption ==
    NoCommand \notin CommandLock /\ NoFinalizer \notin FinalizerWork /\ NoResult \notin Validation

VARIABLES
    documents,   \* version of the documents a verify handoff digest-binds
    validation,  \* validation.md: the run its evidence references name, and the rows
    run,         \* the execute runs of verify in the order of createdAt
    outputs,     \* the <<run, test case>> whose output logs are there
    evidence,    \* the command evidence
    command,     \* per test case the verify-run that holds its lock
    finalizer,   \* the finalizer at work
    receipts,    \* the verification receipts
    sealed,      \* the run the completion proof of verify names, or 0
    trouble      \* how much has gone wrong

vars == <<documents, validation, run, outputs, evidence, command, finalizer, receipts,
                sealed, trouble>>

-----------------------------------------------------------------------------
(* What is valid *)

InputsFresh(r) == run[r].input = documents

\* Mutant: any evidence of the test case will do.
ProvenanceAny(r, tc, row) ==
    row.status = "executed" =>
        row.run = r /\ \E e \in evidence : e.run = r /\ e.tc = tc

\* receiptProvenance: an executed row names the evidence of this very run, whose
\* commands passed.
Provenance(r, tc, row) ==
    row.status = "executed" =>
        row.run = r /\ \E e \in evidence : e.run = r /\ e.tc = tc /\ e.pass

\* Mutant: a critical test case may be skipped with a reason.
RowAcceptedAll(tc, row) == row.status # "unsupported"

RowAccepted(tc, row) ==
    /\ row.status # "unsupported"
    /\ tc \in Critical => row.status = "executed"

Row(v, tc) == [status |-> v.cover[tc], run |-> v.run]

\* Mutant: a receipt is not compared with the present validation.md.
ReceiptOfRun(r, tc) ==
    \E q \in receipts : /\ q.run = r /\ q.tc = tc
                        /\ Provenance(r, tc, q.row) /\ RowAccepted(tc, q.row)

\* validateVerificationReceiptsForStageResult for one test case
ReceiptValid(r, tc) ==
    \E q \in receipts : /\ q.run = r /\ q.tc = tc /\ q.validation = validation
                        /\ Provenance(r, tc, q.row) /\ RowAccepted(tc, q.row)

\* The self-check layer of the gate: a result whose artifacts are unchanged
SelfChecked(r) ==
    /\ run[r].step \in {"delivered", "reviewed"} /\ InputsFresh(r)
    /\ run[r].result = validation
    /\ \A tc \in TC : ReceiptValid(r, tc)

Route ==
    IF run = <<>> \/ ~ SelfChecked(Len(run)) THEN "produce"
    ELSE IF run[Len(run)].step = "delivered" THEN "review" ELSE "transition"

-----------------------------------------------------------------------------
Init ==
    /\ documents = 1
    /\ validation = [run |-> 0, cover |-> [tc \in TC |-> "unsupported"]]
    /\ run = <<>> /\ outputs = {} /\ evidence = {} /\ receipts = {}
    /\ command = [tc \in TC |-> NoCommand]
    /\ finalizer = NoFinalizer /\ sealed = 0
    /\ trouble = 0

Open == sealed = 0
GoesWrong == trouble < MaxTrouble /\ trouble' = trouble + 1
Working(r) == r \in DOMAIN run /\ run[r].step = "working"
Judged(r) == {e \in evidence : e.run = r}

\* Main creates a handoff and dispatches a worker when the route asks for it.
CreateRun ==
    /\ Open /\ Route = "produce" /\ Len(run) < MaxRuns
    /\ \A r \in DOMAIN run : run[r].step # "working"
    /\ run' = Append(run, [input |-> documents, step |-> "working", result |-> NoResult])
    /\ UNCHANGED <<documents, validation, outputs, evidence, command, finalizer,
                   receipts, sealed, trouble>>

(***************************************************************************)
(* verify-run <change> <run> <test case>, under a lock of its own.         *)
(***************************************************************************)

\* The handoff is valid, the lock is taken, and there is no evidence yet.
StartCommand(r, tc) ==
    /\ Working(r) /\ command[tc] = NoCommand /\ InputsFresh(r)
    /\ \A e \in Judged(r) : e.tc # tc
    /\ command' = [command EXCEPT ![tc] = [run |-> r, step |-> "locked", pass |-> FALSE]]
    /\ UNCHANGED <<documents, validation, run, outputs, evidence, finalizer, receipts,
                   sealed, trouble>>

Unlock(tc) == command' = [command EXCEPT ![tc] = NoCommand]

\* The handoff is read again before the command is started.
RunCommand(tc, pass) ==
    /\ command[tc] # NoCommand /\ command[tc].step = "locked"
    /\ IF InputsFresh(command[tc].run)
         THEN command' = [command EXCEPT ![tc].step = "ran", ![tc].pass = pass]
         ELSE Unlock(tc)
    /\ \/ pass /\ UNCHANGED trouble
       \/ ~ pass /\ InputsFresh(command[tc].run) /\ GoesWrong
    /\ UNCHANGED <<documents, validation, run, outputs, evidence, finalizer, receipts,
                   sealed>>

\* Mutant: the logs of a test case are not kept apart by run.
WriteOutputsShared(tc) ==
    /\ command[tc] # NoCommand /\ command[tc].step = "ran"
    /\ IF \E r \in DOMAIN run : <<r, tc>> \in outputs
         THEN Unlock(tc) /\ UNCHANGED outputs
         ELSE /\ outputs' = outputs \union {<<command[tc].run, tc>>}
              /\ command' = [command EXCEPT ![tc].step = "logged"]
    /\ UNCHANGED <<documents, validation, run, evidence, finalizer, receipts, sealed,
                   trouble>>

\* Logs that exist already make the command fail.
WriteOutputs(tc) ==
    /\ command[tc] # NoCommand /\ command[tc].step = "ran"
    /\ IF <<command[tc].run, tc>> \in outputs
         THEN Unlock(tc) /\ UNCHANGED outputs
         ELSE /\ outputs' = outputs \union {<<command[tc].run, tc>>}
              /\ command' = [command EXCEPT ![tc].step = "logged"]
    /\ UNCHANGED <<documents, validation, run, evidence, finalizer, receipts, sealed,
                   trouble>>

\* validateVerifyCommandEvidence compares the inputs once more.
WriteEvidence(tc) ==
    /\ command[tc] # NoCommand /\ command[tc].step = "logged"
    /\ evidence' = IF InputsFresh(command[tc].run)
                   THEN evidence \union {[run |-> command[tc].run, tc |-> tc,
                                          pass |-> command[tc].pass]}
                   ELSE evidence
    /\ Unlock(tc)
    /\ UNCHANGED <<documents, validation, run, outputs, finalizer, receipts, sealed,
                   trouble>>

(***************************************************************************)
(* validation.md and the finalizer.                                        *)
(***************************************************************************)

\* What a run has shown: the test cases that passed are executed, the others
\* skipped with a reason where that is allowed.
Report(r) ==
    [run |-> r,
     cover |-> [tc \in TC |-> IF \E e \in Judged(r) : e.tc = tc /\ e.pass THEN "executed"
                              ELSE IF tc \in Critical THEN "unsupported" ELSE "skipped"]]

WriteValidation(r) ==
    /\ Working(r) /\ validation # Report(r)
    /\ finalizer = NoFinalizer /\ \A tc \in TC : \E e \in Judged(r) : e.tc = tc
    /\ validation' = Report(r)
    /\ UNCHANGED <<documents, run, outputs, evidence, command, finalizer, receipts,
                   sealed, trouble>>

\* The finalizer finds its inputs fresh and reads the rows.  A report that names the
\* evidence of another run would be refused without a trace.
FinalizeRead(r) ==
    /\ Working(r) /\ finalizer = NoFinalizer /\ InputsFresh(r) /\ validation.run = r
    /\ finalizer' = [run |-> r, step |-> "read", rows |-> validation, bound |-> validation,
                     todo |-> TC]
    /\ UNCHANGED <<documents, validation, run, outputs, evidence, command, receipts,
                   sealed, trouble>>

\* persistVerificationReceipts: the digest of validation.md is taken in a second
\* read; every receipt is built and validated before the first is written.
FinalizeCheck ==
    /\ finalizer # NoFinalizer /\ finalizer.step = "read"
    /\ LET r == finalizer.run
           row(tc) == Row(finalizer.rows, tc)
       IN  finalizer' =
             IF InputsFresh(r) /\ \A tc \in TC : Provenance(r, tc, row(tc)) /\ RowAccepted(tc, row(tc))
             THEN [finalizer EXCEPT !.step = "write", !.bound = validation]
             ELSE NoFinalizer
    /\ UNCHANGED <<documents, validation, run, outputs, evidence, command, receipts,
                   sealed, trouble>>

\* Mutant: receipts that are there already are kept and counted.
WriteReceiptKeep(tc) ==
    /\ finalizer # NoFinalizer /\ finalizer.step = "write" /\ tc \in finalizer.todo
    /\ receipts' = IF \E q \in receipts : q.run = finalizer.run /\ q.tc = tc THEN receipts
                   ELSE receipts \union
                          {[run |-> finalizer.run, tc |-> tc, row |-> Row(finalizer.rows, tc),
                            validation |-> finalizer.bound]}
    /\ finalizer' = [finalizer EXCEPT !.todo = @ \ {tc}]
    /\ UNCHANGED <<documents, validation, run, outputs, evidence, command, sealed, trouble>>

\* One receipt after the other; one that is there already ends the finalizer.
WriteReceipt(tc) ==
    /\ finalizer # NoFinalizer /\ finalizer.step = "write" /\ tc \in finalizer.todo
    /\ IF \E q \in receipts : q.run = finalizer.run /\ q.tc = tc
         THEN finalizer' = NoFinalizer /\ UNCHANGED receipts
         ELSE /\ receipts' = receipts \union
                    {[run |-> finalizer.run, tc |-> tc, row |-> Row(finalizer.rows, tc),
                      validation |-> finalizer.bound]}
              /\ finalizer' = [finalizer EXCEPT !.todo = @ \ {tc}]
    /\ UNCHANGED <<documents, validation, run, outputs, evidence, command, sealed,
                   trouble>>

\* The result takes the digest validation.md has now, and is stored once.
Deliver ==
    /\ finalizer # NoFinalizer /\ finalizer.step = "write" /\ finalizer.todo = {}
    /\ run' = [run EXCEPT ![finalizer.run].step = "delivered",
                          ![finalizer.run].result = validation]
    /\ finalizer' = NoFinalizer
    /\ UNCHANGED <<documents, validation, outputs, evidence, command, receipts, sealed,
                   trouble>>

(***************************************************************************)
(* The gate, and what goes wrong.                                          *)
(***************************************************************************)

Review ==
    /\ Open /\ Route = "review"
    /\ run' = [run EXCEPT ![Len(run)].step = "reviewed"]
    /\ UNCHANGED <<documents, validation, outputs, evidence, command, finalizer,
                   receipts, sealed, trouble>>

\* state advance, a change transaction (StageEvidence has its steps)
Seal ==
    /\ Open /\ Route = "transition"
    /\ sealed' = Len(run)
    /\ UNCHANGED <<documents, validation, run, outputs, evidence, command, finalizer,
                   receipts, trouble>>

\* The worker of a run ends without a result, with whatever it has started.
Stop(r) ==
    /\ Working(r)
    /\ run' = [run EXCEPT ![r].step = "gone"]
    /\ command' = [tc \in TC |-> NoCommand]
    /\ finalizer' = NoFinalizer
    /\ UNCHANGED <<documents, validation, outputs, evidence, receipts, sealed>>

\* This run cannot get its result any more: a command or a finalizer that was
\* killed or refused has left files, an input has changed, or a critical test
\* case has failed.
Wedged(r) ==
    \/ ~ InputsFresh(r)
    \/ /\ finalizer # NoFinalizer => finalizer.step = "read"
       /\ \E q \in receipts : q.run = r
    \/ \E tc \in TC : /\ <<r, tc>> \in outputs /\ \A e \in Judged(r) : e.tc # tc
                      /\ command[tc] # NoCommand => command[tc].step # "logged"
    \/ \E e \in Judged(r) : e.tc \in Critical /\ ~ e.pass

GiveUp(r) == Working(r) /\ Wedged(r) /\ Stop(r) /\ UNCHANGED trouble

KillWorker(r) == GoesWrong /\ Stop(r)

KillCommand(tc) ==
    /\ GoesWrong /\ command[tc] # NoCommand /\ Unlock(tc)
    /\ UNCHANGED <<documents, validation, run, outputs, evidence, finalizer, receipts,
                   sealed>>

KillFinalizer ==
    /\ GoesWrong /\ finalizer # NoFinalizer /\ finalizer' = NoFinalizer
    /\ UNCHANGED <<documents, validation, run, outputs, evidence, command, receipts,
                   sealed>>

EditValidation(tc, status) ==
    /\ Open /\ GoesWrong
    /\ validation.run # 0 /\ status # validation.cover[tc]
    /\ validation' = [validation EXCEPT !.cover[tc] = status]
    /\ UNCHANGED <<documents, run, outputs, evidence, command, finalizer, receipts,
                   sealed>>

EditDocuments ==
    /\ Open /\ GoesWrong
    /\ documents' = documents + 1
    /\ UNCHANGED <<validation, run, outputs, evidence, command, finalizer, receipts,
                   sealed>>

CommandStep(r, tc) ==
    \/ StartCommand(r, tc) \/ RunCommand(tc, TRUE) \/ WriteOutputs(tc) \/ WriteEvidence(tc)

FinalizerStep ==
    \/ FinalizeCheck \/ (\E tc \in TC : WriteReceipt(tc)) \/ Deliver

Trouble ==
    \/ \E tc \in TC : RunCommand(tc, FALSE) \/ KillCommand(tc)
    \/ \E tc \in TC, s \in Status : EditValidation(tc, s)
    \/ KillFinalizer \/ EditDocuments
    \/ \E r \in 1 .. MaxRuns : KillWorker(r)

Next ==
    \/ CreateRun \/ Review \/ Seal \/ FinalizerStep \/ Trouble
    \/ \E r \in 1 .. MaxRuns :
          FinalizeRead(r) \/ WriteValidation(r) \/ GiveUp(r) \/ \E tc \in TC : CommandStep(r, tc)

Spec == Init /\ [][Next]_vars

\* Main follows the route; the worker executes the test cases of its run, reports
\* them and finalizes, and gives up when the run is lost.  A finalizer that is
\* refused is run again any number of times, but not instead of correcting the
\* report or of giving up: these are strongly fair.
Fairness ==
    /\ WF_vars(CreateRun) /\ WF_vars(Review) /\ WF_vars(Seal)
    /\ WF_vars(FinalizerStep)
    /\ \A r \in 1 .. MaxRuns :
          /\ \A tc \in TC : WF_vars(CommandStep(r, tc))
          /\ SF_vars(WriteValidation(r)) /\ SF_vars(GiveUp(r))
          /\ WF_vars(validation = Report(r) /\ ~ Wedged(r) /\ FinalizeRead(r))

FairSpec == Spec /\ Fairness

-----------------------------------------------------------------------------
(* Properties *)

ExecuteRun == [input : 1 .. MaxTrouble + 1, step : {"working", "gone", "delivered", "reviewed"},
               result : Validation \union {NoResult}]
Evidence   == [run : 1 .. MaxRuns, tc : TC, pass : BOOLEAN]
Receipt    == [run : 1 .. MaxRuns, tc : TC, row : [status : Status, run : 0 .. MaxRuns],
               validation : Validation]

TypeOK ==
    /\ documents \in 1 .. trouble + 1 /\ validation \in Validation
    /\ run \in Seq(ExecuteRun) /\ Len(run) <= MaxRuns
    /\ outputs \subseteq (1 .. MaxRuns) \X TC /\ evidence \subseteq Evidence
    /\ command \in [TC -> CommandLock \union {NoCommand}]
    /\ finalizer \in FinalizerWork \union {NoFinalizer}
    /\ receipts \subseteq Receipt
    /\ sealed \in 0 .. Len(run) /\ trouble \in 0 .. MaxTrouble

\* Only the last run is worked on, and only runs that are worked on have commands
\* and a finalizer: no process outlives its run.
WorkIsOnTheLastRun ==
    /\ \A r \in DOMAIN run :
          /\ (run[r].result # NoResult) <=> (run[r].step \in {"delivered", "reviewed"})
          /\ run[r].step = "working" => r = Len(run)
    /\ \A tc \in TC : command[tc] # NoCommand => Working(command[tc].run)
    /\ finalizer # NoFinalizer => Working(finalizer.run)

\* What was recorded belongs together: evidence has its logs, and a run and a
\* test case have one receipt.
RecordsAreUnique ==
    /\ \A e \in evidence : <<e.run, e.tc>> \in outputs
    /\ \A q, p \in receipts : q.run = p.run /\ q.tc = p.tc => q = p

\* The stage is left only with a receipt per test case, all about the same
\* validation.md, which is the one that is there; every executed one, and every
\* critical one is executed, from passing commands this very run executed with
\* the frozen documents as they are: whatever was killed, retried in another run
\* or edited between.
SealIsEarned ==
    [][(sealed' # sealed)
        => \A tc \in TC : \E q \in receipts :
              /\ q.run = sealed' /\ q.tc = tc /\ q.validation = validation
              /\ tc \in Critical \/ q.row.status = "executed"
                   => \E e \in evidence : e.run = sealed' /\ e.tc = tc /\ e.pass
              /\ run[sealed'].input = documents]_vars

\* A run with a result has all its receipts, about one validation.md: no result
\* is stored for what a killed finalizer had left half written.
ResultsAreWhole ==
    \A r \in DOMAIN run : run[r].result # NoResult =>
        /\ {q.tc : q \in {p \in receipts : p.run = r}} = TC
        /\ \A q, p \in receipts : q.run = r /\ p.run = r => q.validation = p.validation

\* Runs, their files and their receipts fit together at any time.
RunsAreWhole == TypeOK /\ WorkIsOnTheLastRun /\ RecordsAreUnique /\ ResultsAreWhole

\* Whatever is left behind by killed commands and finalizers, following the route
\* ends the stage: a new run is never in the way of the files of an old one.
VerifyFinishes == <>(sealed # 0)
=============================================================================
