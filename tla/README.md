# Enterprise Harness: a TLA+ verification project

Enterprise Harness (`runtime/`, `hooks/`, `bin/`) governs how AI agents change a
repository. A *change* goes through clarify, design, plan, implement, verify and
archive; at each border the runtime demands evidence, and hooks of the host
(Claude Code) admit or refuse every tool call. There is no server: each command
and each hook is a Node process that reads files, decides, writes files and
exits. Several run at once (parallel agents, several sessions, a hook registered
twice), and any of them may be killed between two file operations. What can go
wrong is therefore in the interleaving of file operations, and that is what this
project models: it follows the code one file-system operation (or one critical
section already shown to be atomic) at a time.

## 1. Inventory

| Part | State | Operations | Interacts with | Hard part | What makes it correct |
|---|---|---|---|---|---|
| File lock (`lib/state-store.mjs`) | `<file>.lock`, acquisition gate (git ref or directory) | acquire, recover a dead owner's lock, release | used by everything below | recovery by several processes while others die | one live holder; a live owner is never replaced; dead owners are recovered |
| Change transactions and write leases (`lib/state-store.mjs`, `pre-write`, `post-write`) | coordinator and transaction lock, one lease file per tool call | begin a transaction, take, drop and expire a lease | lifecycle commands against write tools | the write happens in the host, between two hooks | no transaction beside an unexpired lease; the stage does not move under a writer |
| Change state (`core/change-state.mjs`, `lifecycle.mjs`) | `state.json`, event log, place of the directory | compare-and-swap, validate, mark stale, archive, finalize, abandon, roll back | hooks, sessions, archive | every reader works on a copy; the directory is renamed under others | no lost update; every revision has an event; archive and abandoned are not confused |
| Task lock (`lib/task-lock.mjs`) | lock, recovery guard, child marker | acquire, judge and recover, release | task execution | the command outlives the process that started it | one live runner; no recovery while the command runs |
| Task execution (`task-run.mjs`, `task-child.mjs`, `lib/task-receipt-publication.mjs`) | authorization, intent, spool, two receipts | inspect, authorize, spawn, record, publish, roll back | task lock, host processes | death at every step, retry | a frozen command runs at most once; a receipt is earned; it is shown complete, unless a rollback fails |
| Stage evidence (`lib/stage-results.mjs`, `core/completion-proof.mjs`, `core/design-proof.mjs`, `design.mjs`) | results, reviews and proofs bound by digests | resolve the completion candidate of a stage, seal the architecture, publish a proof | handoffs, transactions | inputs change between execution, review, proof and commit | a stage is left only on reviewed evidence of the present documents |
| Handoffs (`core/handoff-v2.mjs`) | run directories: input, result, check | create with frozen digests, deliver once, check a parent | workers, stage evidence | two deliveries, stale inputs | a review is of what its parent delivered |
| Agent evidence (`lib/agent-evidence.mjs`, hooks of agents) | append-only receipts: dispatch, start, binding, stop, failure | before and after the tool call of an agent, at its start and stop | host, handoffs, stage evidence, which asks it whom to trust | the stop hook is told no run; parallel, dead and failing workers; late bindings, double delivery | a trusted run is finished work, of its own worker unless one was launched without a receipt; a worker that delivered is receipted |
| Workflow runner (`workflow.mjs`, `lib/workflow.mjs`, `lib/workflow-audit.mjs`) | none of its own | audit, infer the gap, recommend | stage evidence | a document is edited after its stage was completed | it sends nobody on who cannot go on or must go back |
| Task integration (`task-integrate.mjs`) | files of the integration checkout, backups | copy, verify, roll back | transactions, stage evidence | error or kill in mid-copy, edits between receipt and seal | all reviewed paths or none; sealed is what was reviewed |
| Verification (`verify-run.mjs`, `lib/verification-receipts.mjs`) | output logs, evidence, receipts, `validation.md` | run, record, finalize | handoffs, stage evidence | everything is created exclusively, nothing is undone | sealed only on complete evidence of one run; a new run is always a way out |
| Sessions (`lib/sessions.mjs`, `lib/hook-change.mjs`) | binding with lease | bind, heartbeat, unbind, clear | every hook resolves its change through them | expiry, removal and archiving between two looks | an expired or removed lease does not return |
| Hook delivery (`lib/hook-dedup.mjs`, `lib/hook-snapshots.mjs`, `pre-explore`) | markers, snapshots, budgets | claim an event once, gate and attribute a write, charge a read | all hooks | the same event twice, hooks that die | writes are decided or reported, budgets hold |
| Decision ledger (`core/decision-ledger.mjs`) | ledger, snapshot and its history | append, seal | both sides of Clarify | a seal is two writes | one decision per target; nothing is overwritten |
| Clarify questions (`core/clarify-question.mjs`) | candidate, pending question | prepare, authorize, resolve, recover | host, user, ledger | late, lost or repeated answers | decisions are what the user answered |
| Clarify evidence (`core/clarify-governance.mjs`, `core/classification-artifact.mjs`, `core/clarify-assessments.mjs`) | requirements, lanes, packets, assessments, classification | decide lanes, close, synthesize, classify | ledger, state | inputs move under every command, two files per classification | what passes was researched and decided about these inputs |
| Project contract (`core/project-contract.mjs`) | instruction file, proposal, receipt, assessment | propose, apply | ledger, user, editor | three writes, foreign edits | only the approved proposal is written; an application can be finished |
| Clarify completion (`lib/clarify-readiness.mjs`, finalizer) | readiness items, result, review, proof | ask the final scope, finalize, review, advance | all of Clarify | everything is bound to the digest of a document that is still written | complete requirements can be finalized (they cannot: see 5) |
| Receipts' contents, archive manifest, markdown analysis | JSON documents | validate field by field | stage evidence | staleness of digests | covered where their verdict is used |
| Status, doctor, validation, installation, release | none, or files of an operator | read and print, copy | | | not protocol code |

`PROJECT.json` lists all parts with their sources and why a part is not
modelled. Its `hazards` list, with lines, what in this code is hard to test.

## 2. Modules

```
MutexLock  <=refines=  FileLock              state-store.mjs, withFileLock
   ^
   | INSTANCE (coordinator, transaction)
ChangeTransaction                            transactions, leases, stage advance, hooks
ChangeLifecycle                              state.json, events, archive, abandon
TaskLock  <=EXTENDS=  TaskRun  =refines=>  PhaseLog  (EXTENDS MutexLock)
                                             task-lock.mjs; task-run, task-child, publication
AgentEvidence                                agent-evidence.mjs, hooks of agents, delivery of results
StageEvidence                                handoffs, chains, proofs and gates of design and plan; the runner
TaskIntegration                              the implement stage
Verification                                 the verify stage
SessionLeases  <=EXTENDS=  HookDelivery      bindings; one tool call and its doubled hooks
DecisionLedger <=EXTENDS=  ClarifyQuestions
               <=EXTENDS=  ProjectContract  <=EXTENDS=  ClarifyEvidence
               <=EXTENDS=  ClarifyCompletion the clarify stage
```

`MC<module>` instantiates a module for TLC; `<module>Proofs` holds its theorems. Three
hold those of several modules: WriteLeaseProofs of ChangeTransaction and HookDelivery,
VerificationProofs of Verification and TaskIntegration, ClarifyProofs of the clarify
modules.

**MutexLock** is what callers of `withFileLock` rely on: a holder, taken only
when nobody live holds, given up only by the holder, reclaimed from a dead one.

**FileLock** is the code: `lock` is the owner record in `<file>.lock`, `gate`
that of the acquisition gate, and per process a program counter with the records
it has read (`seen`) and renamed away (`moved`). `FastCreate` is the hard link
of an uncontended lock; `Check` decides that recovery is needed; the git gate is
`ObserveGate`, `ClaimGate` (the compare-and-swap of the ref), `ReobserveGate`;
the directory gate `MakeGate` to `SettleGate`; inside the gate `Create`,
`Observe`, `Judge`, `Move`, `Settle` are the loop of `acquireOwnedLock` and
`quarantineStaleLock`. A killed process never returns; a restarted command is
another process. Process ids are taken not to be reused.

**ChangeTransaction** uses two abstract locks (their implementation is proved in
FileLockProofs). A command enters the coordinator, lists the leases (`CheckLeases`),
takes the transaction, reads the state, computes its completion proof
(`Validate`) and commits. A tool's pre-hook evaluates the gates (`CheckGates`),
then writes a lease under the coordinator; the host writes; the post-hook marks
the validation stale and drops the lease. `Tick` lets leases run out, `LosePost`
loses the PostToolUse event, `Crash` kills commands and hooks. A killed hook does not
stop its tool: the host writes all the same (`UnhookedWrite`) and runs the post-hook
(`StartPostHook`), which finds no lease. `content` counts
writes, so that a proof names the files it was computed from; `exposed` has the tools
that were at work without a live lease, `slipped` the commands between whose validation
and commit such a tool wrote.

**ChangeLifecycle** has the `state.json` of one change, in the three places it
can be (`home`), with revision, lifecycle, the stage as far as archiving tells
it apart, and validation with what it has seen (`sealed`, the number of the last
write: the digest). All commands share the path of the code: read without a
lock, work, `Compare` (lock and revision), `AppendEvent`, `Commit`; these are
separate actions because the event is appended before the state is replaced and
the directory can be renamed in between. `Move`, `Verify`, `UndoMove`,
`UndoState` are `moveArchivedChange` and the end of `cmdAbandon`, and `HookRead`
is `markValidationStaleForWrite` with its early return. A late commit writes by path: it recreates
`harness/changes/<id>` beside the moved change, and so does the model.

**TaskLock** and **TaskRun**: one action per file created, linked or removed.
`Inspect` is the long decision at the head of `task-run.mjs`; `Authorize`,
`WriteIntent`, `Spawn` the way to the command; `StartCommand`, `CheckLock`,
`RecordChild`, `CommandEnds`, `EndWrapper` the wrapper process; `Collect` and the
Publish and Undo actions the receipt. Each removal of a rollback can fail, and the
rollback goes on with the next (`leftover`), as the code does, which collects the
failures: a receipt may then stay over a spool that was taken back. A receipt is the number of phases it
records; every check of contents that may refuse is one nondeterministic refusal.

**PhaseLog** is what all invocations for one execute run promise together: the lock is
a MutexLock; `BeginPhase` starts the next command when none runs and all before it are
recorded; the holder makes (`Record`) and takes back (`Withdraw`) the last record and
shows or hides the receipt at either place (`Show`, `Hide`); only the failed step of a
rollback (`Spoil`) allows it to withdraw a record under a receipt that is shown. A command may begin and end without the
holder, because its wrapper outlives the runner.

**AgentEvidence** has the receipts of v6 handoffs. A tool invocation and the agent
it starts are one element of `Use`; `PreToolUse` is pre-agent with all its
registered copies (`Copies`), `LaunchUnseen` the launch past a pre-agent hook that was
killed, `Start`, `Bind` and `Fail` are subagent-start,
post-agent and agent-failure. A worker may persist the result of any run that `Fits` it
(`Persist`): the binding asks for its type and session only; past a killed gate
`FinalizeUngated` writes it without either. The stop hook has a step for each time it reads or
appends: `StopRead` finds the run (`Open` are its candidates), `StopJudge` looks
for the result or persists it, `StopRecord` and `StopRefuse` answer, and
`StopEnd` is the host, which goes on with a blocked agent. Because readers
only ask for receipts that exist, the log is a set for each kind, with a count of
dispatches and the latest dispatch of each run where the code counts or takes
the latest. `TrustedRun` is `trustedHandoffAgentBindings`. Other events
(violations, tool budgets) have no reader here.

**StageEvidence.** A document is a version, its digest; a run is a handoff with
the versions it froze, its agent and its result, and runs are numbered in the
order of their creation, so that "freshest" is the greatest. `ExecutionPasses`,
`ReviewPasses`, `HasChain` are `completionChainForBehavior`,
`ArchitectureCandidate`, `ArchitectureValid`, `DesignCandidate`, `ProofHolds` the
builders and validators of the three proofs, `DesignRoute`, `PlanRoute` and
`NextAction` (with `StageAudit`) the readers. `SealResolve`/`SealWrite`,
`Publish`/`Verify`/`Commit` are separate because the code resolves before its
transaction, or writes before it checks; `Abort` kills in between. `Edit` may fall anywhere, also
between these steps; `meanwhile` has what was written since the advance last looked. A worker or
reviewer is `NewRun` and `Deliver`; which worker the stop hook takes it for is
AgentEvidence's question.

**TaskIntegration** follows each task of a plan from its execute run
(`CreateExecution`, `Publish`, `DeliverExecution`) over `ReviewExecution` to the copy:
`Begin`, `CopyPath` with its backup, `FailCopy`, `VerifyCopy`, `Restore`, `EndRollback`.
`TaskRoute` and `StageRoute` are the projections of readiness, `Completed` and `PublishProof`
the writer of the proof, which reads the same files by other rules. The commands
of a run are TaskRun's.

**Verification** has a step for each group of exclusive creations: `RunCommand`,
`WriteOutputs`, `WriteEvidence` of verify-run; `FinalizeRead`, `FinalizeCheck`,
`WriteReceipt` (one test case at a time), `Deliver` of the finalizer; `Seal` is the
gate. `Wedged` is when a worker can only stop: its own files are in its way.

**SessionLeases** and **HookDelivery.** A binding lives `Lease` units; `Load` and
`Beat` are the two looks at it that `loadHookChange` takes, and any command or the
clock falls in between. In HookDelivery a tool call (`Event`) runs one hook per
`Channel` before and after the tool; `Claim` lets one act. The write path is
`DecideWrite`, `Gate`, `TakeLease`, then the tool, then `LookAtWrite`, `Enter`,
`Attribute`, `Mark`, `Release` (or `Fail`); the read path `DecideRead`, `Charge`. A
hook that dies or fails otherwise than with exit code 2 does not stop its tool.

**DecisionLedger** is the ledger as a sequence; a snapshot is the length of the
prefix it seals, written in two steps (`SealBegin`, `SealEnd`).
**ClarifyQuestions** has candidate files that are rewritten and bind the version
of their inputs; `Prepare` loads before it locks (`preparing`), `Give` is the
user, whose answers stay (`given`) and may be delivered again, and `Resolve` and
`Mark` are the two writes of a resolution, after either of which the hook may die;
`Recover` closes the window.
**ProjectContract** has `ApplyCheck`, `ApplyWrite`, `ApplyReceipt`, `ApplyAssess` for
the one command that writes three files, and `Touch` for the editor.
**ClarifyEvidence** composes ledger and contract with requirements.md (its fact
section and its body), the lanes, the packets and the classification, whose file
and reference in the state are written by `PersistWrite` and `PersistCommit`. Lanes are
decided together (`RecordLanes`, which completes what is missing) or by hand, one at a
time (`RecordLane`); `Deciding` are the decisions the gate looks at. An assessment of
debt is the set of the requirements it names, which may be none.
**ClarifyCompletion** has the readiness items over the same ledger, the question
for the final scope in two steps, the finalizer, the review and the transition.

## 3. Runs

| Run | Instance | Shows |
|---|---|---|
| `file_locks` | three parts side by side: git gate with 3 processes on one host and 1 on another, one dies; git gate with two deaths among 3; directory gate with 3 and two deaths; fair | `OneHolder`: one live holder whose token the file carries, one process in the gate. `LiveOwnersKept`: no live process loses lock or gate. `AbstractWithOneDeath`: FileLock implements MutexLock. `DeadOwnerRecovered` (liveness), but for a gate abandoned between mkdir and signature |
| `task_runs` | 4 runners, 2 phases, one may die | `CommandsRunOnce`: one runner, at most one start per phase, no two commands at once. `ReceiptIsTrue`: receipts are earned and, unless a step of a rollback failed, shown complete; where one is shown, every phase has been run. `RunsArePhaseLog`: TaskRun implements PhaseLog |
| `tx_leases` | 2 commands, 2 tools, one of each may die, fair | transactions exclude leases, the stage is frozen under a writer, a proof is of the files committed, both but for tools without a live lease; commands complete (liveness) |
| `agent_runs` | 2 workers, 3 runs of 2 types, one session, one worker and its hooks may be killed, so that it is launched without a dispatch, writes past its gate or for another run; fair | a stop receipt names its own worker's run and trust is kept, unless a worker like it was launched without a receipt; a trusted run is finished work; delivered work is receipted (liveness) |
| `change_states` | 1 archiving session, 2 other processes, any killed anywhere | `DurableStateIsRecorded`: events complete, places not confused. `FreshUnlessUnmarked`: indexed writes invalidate. `StateNeverForks`: no lost update, reported places final |
| `stage_proofs` | 6 handoffs, an edit of design.md or test-cases.md at any time, 2 sealers, 2 publications, an advance killed anywhere | `ProofChainHolds`: every proof stands for an execution that passed and an independent review of it, on the proof below it. `ProofsAreCurrent`: what leaves a stage is of the present documents, but for one edited after the advance looked at it; what is sealed stays. `AdvanceIsNotInVain`: what `state advance` has published passes when it is resolved again, and the runner says to go on |
| `clarify_questions` | 5 drafts of 3 questions, 2 preparing processes, 2 edits, 2 answers, fair | `AnswersAreKept`, `NormalizedOnce`; `CrashWindowCloses`: an event whose question is still pending gets it closed (liveness) |
| `clarify_evidence` | four parts: proposals; lanes with decisions by hand and degraded packets; edits with one persisting process; two persisting processes; fair application | `RecordsAreWhole`, `EvidenceIsEarned`, `SettledByReceipt`, `NothingIsOverwritten`; `ApplicationFinishes` (liveness) |
| `task_integration` | 2 tasks with a new, a changed and a deleted path, 3 runs each, one edit, one failing copy, one kill, fair | `IntegrationIsRecoverable`, `AllOrNothing`, `SealIsExact`; `LeavesImplement` (liveness) |
| `verification` | a critical and an ordinary test case, 3 runs, 2 troubles of any kind, fair | `RunsAreWhole`, `SealIsEarned`; `VerifyFinishes` (liveness) |
| `hook_delivery` | 7 scenarios of up to 3 calls, 2 channels whose hooks may die, one session whose binding expires, is renewed, removed or archived | `WritesAreDecided`: gated or reported, attributed or reported. `LeasesFitCalls`, `ReadsAreBudgeted`, `BindingsLapse` |
| `scope_never_final` | one change in clarify, 2 writes of requirements.md, 2 reviews, fair | *violation* of `ConfirmedScopeIsFinalized` |

A property that is a conjunction names one promise; its parts are defined, with a
comment of their own, just above it. The type invariants of the modules without
proofs are conjuncts of the first property of their run.

### Bounds

* `Tokens` = 2: tokens are unique in the code; two per process let a process
  come back with another token while an old record is still being looked at.
  `Tries` is 2 where nothing depends on the third attempt and 3 (the value of the
  code) where the interleaving needs it.
* Three processes are the least for a recovery race (a dead owner and two
  recoverers); the fourth adds another host.
* `TTL` = 1 lets a lease expire at any point of the work it covers; `MaxStage` = 1
  is one advance, for which all writes, expiries and deaths are tried.
* `Phases` = 2 has a first and a last phase; four runners are the dead one, two
  that compete for its lock and one that comes later.
* `MaxRevision` = 4 (ChangeLifecycle): the shortest way to an archived change commits revisions
  2 (validated), 3 (archive stage), 4 (archived); the bound forbids only to *begin*
  a command at revision 4, so that one commit of another process and a rollback
  still fit. `MaxWrites` = 1: the properties relate one write to one validation.
* `Use` = 2: the stop hook confuses two workers or none; `Run` = 3 gives them the
  same type or different ones, and a run nobody dispatches. `Reuse` is FALSE: each
  retry gets a run of its own (harness/specs/hooks.md:137), which no code enforces;
  with Reuse = TRUE `TrustKept` fails, because a binding that arrives after a second
  dispatch replaces the evidence of the first.
* StageEvidence: six handoffs are the two of each of three chains; `MaxTries` = 2
  lets any one of them be repeated, which is what "freshest" needs, and `MaxPublish`
  = 2 the republication after a kill. A document is as it was or edited
  (`MaxEdit` = 1). All workers of an execution are agent a (agents are compared only within a
  chain), and a sealer that has not written when design is left is not followed.
* TaskIntegration: the tasks have paths of their own, one new, one changed, one
  deleted. Two tasks that change the same path overwrite each other and then ask for
  integration in turn for ever; the plan is expected to exclude that.
* Verification: `MaxRuns` = 3 is one more than `MaxTrouble` = 2 can spoil.
* ClarifyQuestions: two of the drafts make the same answer precise and are both valid, so
  that a second normalization is tried and must be refused; the others are the question
  they normalize, one with a new axis and one about another target.
* ClarifyEvidence: the parts keep the contract, the lanes, the edits and the second persist
  apart, each with all its own interleavings; outside of the first part the
  controller seals all it has. Two decisions by hand are one for each lane or two for
  one; debt is assessed anew only when the last assessment is stale, and in the part of
  the edits the tier is fixed and debt is assessed with or without requirements.md.
* HookDelivery: `Lease` = 2 and `Within` = 1 have a renewable and an expired lease;
  a third call of another agent shows that budgets are per agent; one hook of a call may die.

### Fairness

Safety is checked without any. `FileLock!FairSpec` has weak fairness of the
steps of live processes: their code is synchronous, and callers of the lock
retry (`withFileLockWait`, a repeated command). `ChangeTransaction!FairSpec`
adds that time passes and that a dead owner is found by the next contender,
which is what `file_locks` shows of the lock. `AgentEvidence!FairSpec` has weak
fairness of the steps of a stop hook, which the host waits for, and of the end of
a worker's turn; not of dispatch, binding or failure. `QuestionsFairSpec` of ClarifyQuestions
has it of what the controller goes on with (`Mark`, a preparation and its repetition)
and strong fairness of `Recover`, the action the diagnostics ask for; `ContractFairness` of
an application that was begun and of the repetition the status asks for.
`IntegrationFairSpec` and `Verification!FairSpec` assume that main follows the
projected route, commands go on unless killed, and workers deliver or give up;
strong fairness is used for a worker that writes validation.md or gives up, which
edits can disable again and again. `ClarifyCompletion` has weak fairness of the
steps main is told to do, and none of the user, the author of requirements.md or
the reviewer. Deaths, edits and failures are never fair and never
required. Deadlock is checked for the lock; in the other runs processes end.

## 4. Proofs

All are for arbitrary sets of processes and values of the constants.

* **FileLockProofs.** `TypeCorrect`. With the git gate, for any number of deaths,
  `GitGateExclusion`: the invariant `GateInv` says that whoever is in the gate is
  named by the ref, because a claim replaces only an owner that was read and is
  dead. With either gate and one process that can die (`SingleFault`):
  `OneHolderAdmitted`, `LiveOwnersStay` (the properties of the run), `HolderStaysRecorded` and
  `LockRefinement` (FileLock implements MutexLock). `HoldInv` says that what a recoverer
  moves is what it judged; `DirectoryInv`, that a gate directory is of a live process,
  because nobody recovers before the one death there is. With a second death this breaks
  (section 5), so the assumption is not an artefact of the proof.
* **WriteLeaseProofs**, of transactions: `TypeCorrect`, `LeasesExcluded`, `StageFrozen`,
  `AdvanceStaysFresh`, with any deaths. `TxInv`: a process between entering and leaving the coordinator
  holds it, so no lease is written after a command found none; a tool at work has
  a live lease or is in `exposed`: it outlived its lease, or its hook was killed before
  there was one. The steps of the two locks enter
  only through MutexLock. `FreshInv`: the proof a command holds inside its transaction is
  of the present files, unless a tool without a live lease wrote since (`slipped`).
* **WriteLeaseProofs**, of hooks: `WritesStayDecided`, `LeasesStayWithCalls`,
  `ReadsStayBudgeted`, `BindingsStayLapsed`, for any calls, channels, sessions, changes,
  budgets and leases, and any deaths of hooks. `HookInv` speaks of one call at a
  time (`CallInv`), because a hook changes its own call only: where its hooks can be in each
  round (`SitesFit`), that what they have seen is the active change until something disturbs
  the binding (`ViewFits`), that the one hook that won the marker decides (`DeciderFits`,
  `DecisionFits`), that after the write the work is not given up before the validation is
  stale (`WorkFits`), and what is left when the call ends (`EndFits`). Calls meet in the
  lock of the post-write hooks (`LockFits`) and in the spool of the reads. Assumed: there is
  a channel (a hook that is not registered gates nothing), and refusals are not changes.
* **TaskRunProofs.** `TypeCorrect` with any deaths; with one runner that can die
  (`OneMortal`) `Exclusive`, `StartedOnce`, `CommandsExclude` and their conjunction
  `RunOnce`, `Earned`, `PublishedComplete` and `ReceiptTrue`, with rollbacks any step of which may
  fail. `LockInv` relates the lock and the guard
  to program counters, with the case of a death inside the guard (`GuardBroken`);
  `IntentInv` says what the intent stands for: without one exactly the recorded
  phases were started, with one the next phase may have been, once; `WrapperInv` and
  `RunnerInv` carry this through the wrapper and the publication. None of the
  properties is inductive: `AtMostOnce` needs to know of whom the intent is and
  that no second runner can be past its check. `RunRefinement`: lock, wrappers and files
  together implement PhaseLog. Removing a judged lock is Reclaim, since what was judged dead
  is still there; a wrapper that starts a command finds its phase the next one and
  unstarted; and what a publication or its rollback writes is one Record, Withdraw, Show,
  Hide or, where a removal fails, Spoil of the holder, or nothing.
* **AgentEvidenceProofs.** `TypeCorrect`, `StopsNameTheirRuns`, `TrustedIsDone`,
  `TrustIsKept`, for any number of workers, runs, types and sessions and any kills,
  with `Copies = 1` and `Reuse = FALSE`. A stop hook looks for the one open
  dispatch of its type; the invariant says why that one is its own: its own
  dispatch, if it has one, is always among the candidates, because a run becomes terminal
  only when its worker is past its stop hook (`TerminalIsSettled`), and a run belongs
  to one worker (`OneUsePerRun`). So a hook that finds exactly one candidate has
  found its own, unless a worker of its type and session was launched without a
  dispatch (`Astray`), which the theorems except and nothing in the code excludes.
* **StageEvidenceProofs.** `ProofChain` and `ProofsStayCurrent`, for any agents, sealers,
  documents edited, careless controllers and numbers of runs. `ProofChainHolds` is not
  inductive: `SealingIsEarned` says the same of what a sealer has resolved and not
  written, `ChecksFollow` relates a check to its parent, `PlanComesLater` keeps the design
  proof from being published anew under a plan, and `VerifiedIsCurrent` says that what
  was verified is still of the documents that are there, or of those `meanwhile` names. That reviewed work stays
  reviewed (`ReviewedKept`) comes from `RunsKept`: runs are added and results come once.
  Edits may fall into an advance; those after its last look are excepted by name.
* **VerificationProofs.** `RunsWhole` and `SealEarned`, for any test cases, runs and
  troubles. A stored result has all its receipts because a finalizer that goes on has
  written what it crossed off (`FinalizerProgress`) and its run leaves "working" with it;
  no command outlives its run because a report names a run that has evidence for every test
  case (`EvidencePrecedesReport`), and a command with evidence has ended.
  Of the integration: `IntegrationStaysRecoverable`, `IntegrationIsAllOrNothing`,
  `SealStaysExact`, for any tasks, paths, contents, edits, failing copies and kills. In `TInv`,
  `BackupsAreOriginals` says that an integration writes only what it has backed up and that
  what it still has to copy is untouched, so a rollback that ends has put back all of
  it; `PublishedIsExact` says that a proof that waits for its commit names the runs whose
  receipts and contents the checkout has.
* **ClarifyProofs.** For any decisions, lanes, contents, proposals and processes and any
  edits and kills, `RecordsStayWhole`, `EvidenceStaysEarned`, `SettlementHasReceipt`,
  `DecisionsAreNotOverwritten` from `IInv`: a seal under way extends the one it replaces
  (`LedgerInv`), a section of which `RecordLanes` decided a lane has both lanes decided as it says, and
  closed facts have the packets their lanes require, clean and decided before (`LaneInv`), a
  classification that is written or referenced was routed on a sealed
  ledger (`RouteInv`, `FileInv`), and an application knows what it replaces as long as nobody
  edits the file (`ContractInv`). `AnswersStayKept` and `OtherIsNormalizedOnce` of the questions
  from `QInv`: a pending question is the only one whose answer can be recorded, so what the
  preparation found about the answer it makes precise still holds when its own is appended
  (`PendingNormalizes`).
* **ChangeLifecycleProofs.** `StateIsRecorded`, `FreshIsSeen`, `NeverForks`, for any tools,
  hooks, writes and revisions beside one process that archives (`MainAssumption`; two are
  discussed in section 5). At the centre is `CriticalIsCurrent`: a command that has
  compared the revision holds the lock of the directory and the state it read is the one that is there, or
  the directory has moved under it, and then its commit makes a directory of its own
  beside the moved one. `ReadersAreBelow` (what others have read is older, or the same)
  keeps this when the directory comes back. `PlacesAreFinal` follows main through
  finalize, move and report: whatever may still be written has the lifecycle of the new
  place. `EventsPrecede` and `MaterialIsSeen` say of commits under way what the
  properties say of the state.

Every safety property of the passing runs but `AdvanceIsNotInVain` is stated by one of
these theorems. Only model-checked are that one; the liveness properties (`DeadOwnerRecovered`, `AdvanceCompletes`,
`WorkIsReceipted`, `CrashWindowCloses`, `ApplicationFinishes`, `LeavesImplement`,
`VerifyFinishes`), which need ENABLED and are out of reach of the installed provers; the
lock with two deaths, within the bounds of its run; and ClarifyCompletion, whose run
shows a violation. The theorems that name one mortal process (`SingleFault`, `OneMortal`) or
one copy of a hook (`Copies = 1`) leave the rest to the bounds of the runs and to section 5.

## 5. Where code and documents disagree

The run `scope_never_final` shows one: readiness looks for a confirmation of the
scope whose target carries the digest of the approved requirements.md, and the only
command that records such a confirmation asks for it before the document is
approved and with a target without digest. Each of the two alone blocks the finalizer.

Others the models reach, none of which a passing property rules out or a run
is spent on; the exceptions in the properties name them:

* **Lock put back late** (`state-store.mjs:280`): with four processes, two of which
  die, a lock that was moved because its record changed between two reads
  (`:293`, `:294`) is put back over the lock of a live process; `hooks.md:166` says a live
  owner is never replaced. The directory gate has the same weakness at `:200`, and the
  guard of the task lock is removed by path, so a second death inside it lets two
  runners in.
* **Authorization before the lease** (`pre-write.mjs:168`, `:204`): a stage
  advance in between lets a write run in a stage it was not authorized for;
  `hooks.md:112` says it cannot.
* **Lost projection** (`task-run.mjs:261`): after a death between the two receipts the
  retry reports success and the checkout never gets one.
* **Stale validation archived** (`lifecycle.mjs:545`, `:554`): two reads, one check.
  With two sessions that finalize at once, the rollback of the second moves the
  archived change of the first back (`:440`).
* **Doubled dispatch receipts** (`subagent-stop.mjs:113`): with hooks registered twice a
  worker finds two candidates and is let go without a receipt.
* **Agents without a dispatch** (`subagent-start.mjs` appends a start whether or not there
  is one): an agent launched past a killed pre-agent hook has its stop recorded for the
  one open run of its type and session, which is another worker's; and a result may be
  written by any worker of the type and session (`agent-evidence.mjs:154`), or without
  one past a killed gate.
* **Writes without a lease** (`lifecycle.mjs:169`): after a killed pre-write hook, or by
  hand, a file may change between the validation of a stage advance and its commit. Design
  and plan likewise verify their proofs before the commit, not in it.
* **Receipt left by a rollback** (`task-receipt-publication.mjs:129`): when the removal of a
  receipt fails, the rollback goes on and restores the spool under it. The phases it
  records were all run, but the files it names may be gone.
* **Lanes decided by hand** (`clarify-governance.mjs:670`): a decision of one lane leaves the
  other open until the batch completes it, and may contradict the fact section; the gate
  then refuses. **Debt without requirements** (`clarify-assessments.mjs:283`): an assessment
  that does not name requirements.md stays valid when it changes.
* **Evidence that can no longer be replaced**: a sealed architecture after a rework
  (`design.mjs:56`), a pending question after an edit of its inputs
  (`clarify-question.mjs:731`), a classification after an edit or a kill
  (`clarify-governance.mjs:699`), the receipt of a task whose run was lost
  (`task-receipt-publication.mjs:67`), a proposal half applied to a file that was then
  edited. In each case `docs/user/troubleshooting.md` or the specifications tell the user
  to repeat the command that refuses.
* **A duplicate that blocks** (`post-write.mjs:70`): the second channel looks for the
  lease before it waits for the first, which releases it.
* `implementCompletionProof` accepts any run and any passing review of it, without
  comparing the inputs of the review; a later blocking review does not undo an earlier
  passing one. `ReadyIsAccepted` shows that the reader, which is stricter, is never the
  one that is surprised.
* A new execute handoff of design right after the commit that left it makes the audit
  block, because `createHandoffV2` takes no change transaction.

## 6. What is left out

Contents of artifacts and receipts (a check that may refuse is a
nondeterministic refusal, a document its digest); wording and formatting; what the
markdown analysis of Clarify scores; the TECPC envelope of results, whose fields are
free text; v4 and v5 states; the replacement of files by unlink and rename on
Windows; reuse of process ids; the age of 30 seconds after which a lock file without
a record counts as abandoned (the model lets it count at once, if its creator is
dead); the hour after which markers of hooks are pruned; archive as a stage of
StageEvidence, which resolves its result as the others do; a prompt receipt that
attests the raw request. `change-locks.mjs`, `renewSessionLease` and the branches of
`workflow decide` for v6 states have no caller that reaches them. Each part that is
not modelled is named in `PROJECT.json` with the reason: files that are read and
printed, one-shot scripts of an operator, field-by-field validation, or containment of
paths, none of which has state that two steps could disagree about.

## 7. What would come next

1. Abstract specifications, as PhaseLog is for TaskRun, of the stage evidence (what a
   sealed stage stands for) and of the integration (a copy that happens at once or not).
2. The clarify modules as one composition, once a confirmed scope can be finalized.
3. Two archiving sessions in ChangeLifecycle (what section 5 says of them), and archive-manifest as steps of its own.
4. Tasks with overlapping paths, with the check of the plan that would exclude them.
