--------------------------- MODULE TaskIntegration ---------------------------
(***************************************************************************)
(* The implement stage (lib/stage-results.mjs, task-integrate.mjs): every  *)
(* task of the plan is executed in a worktree of its own, its receipt is   *)
(* published in the integration checkout, the result is reviewed, the      *)
(* reviewed paths are copied into the integration checkout one by one, and *)
(* state advance seals what was integrated.                                *)
(*                                                                         *)
(* A content of a path is a number, 0 for a path that does not exist.  The *)
(* commands a run executes and the files of its receipt are in TaskRun,    *)
(* the agents and their identities in AgentEvidence and StageEvidence.     *)
(***************************************************************************)
EXTENDS Naturals, Sequences

CONSTANTS Task, Path,
          Changed,      \* Changed[t]: changedPaths of the receipt of t
          Created,      \* paths that do not exist before the work
          Deletes,      \* the paths whose work is to delete them
          Version,      \* contents of the frozen inputs of the plan
          MaxExecutions, \* bound: execute runs of a task
          MaxEdit,      \* bound: edits of inputs, checkout and worktrees
          MaxFail,      \* bound: copies that fail
          MaxDeath,     \* bound: workers and commands that are killed
          NoJob, NoProof

ASSUME ChangedAssumption ==
    Changed \in [Task -> SUBSET Path] /\ Created \subseteq Path /\ Deletes \subseteq Path
ASSUME VersionAssumption == Version \subseteq Nat /\ 1 \in Version
ASSUME IntegrationBoundAssumption == {MaxExecutions, MaxEdit, MaxFail, MaxDeath} \subseteq Nat

Foreign == 2
Content  == 0 .. (2 + MaxExecutions)
Tree(t)  == [Changed[t] -> Content]

\* What run number e of a task leaves in its worktree
Work(t, e) == [p \in Changed[t] |-> IF p \in Deletes THEN 0 ELSE 2 + e]

\* An execute run, and a task-integrate that is under way
Execution(t) == [input : Version, after : Tree(t),
                 step : {"running", "published", "delivered", "refused", "gone"}]
Job == [task : Task, run : 1 .. MaxExecutions, phase : {"copy", "rollback"}, todo : SUBSET Path,
        backups : Seq(Path \X Content), lost : SUBSET Path, before : [Path -> Content]]

ASSUME JobAssumption == NoJob \notin Job

VARIABLES
    stage,     \* stage of state.json
    current,   \* currentTask of state.json
    plan,      \* the frozen inputs: tasks.md, task-commands.json, plan proof
    root,      \* the integration checkout
    runs,      \* runs[t]: the execute runs of a task in the order of createdAt
    tree,      \* tree[t][e]: the worktree of a run
    receipt,   \* receipt[t]: the run whose receipt is in the checkout, or 0
    reviews,   \* results of the check runs
    job,       \* the task-integrate in its change transaction
    advance,   \* the state advance in its change transaction
    proof,     \* the completion proof of implement: the run it names per task
    edits, fails, deaths

integrationVars == <<stage, current, plan, root, runs, tree, receipt, reviews, job, advance,
                     proof, edits, fails, deaths>>
counters == <<edits, fails, deaths>>

-----------------------------------------------------------------------------
(* What the files say of a task *)

Delivered(t) == {e \in DOMAIN runs[t] : runs[t][e].step = "delivered"}

\* The execution with the latest createdAt that has a result
Candidate(t) == IF Delivered(t) = {} THEN 0
                ELSE CHOOSE e \in Delivered(t) : \A f \in Delivered(t) : f <= e

\* freshInputDigests of the run, and a result and receipt that belong together
Executed(t, e) == runs[t][e].input = plan /\ receipt[t] = e

Checks(t, e) == {c \in reviews : c.task = t /\ c.run = e /\ c.pass}

\* The worktree is as the receipt recorded it (treeDigestAfter).
Intact(t, e) == tree[t][e] = runs[t][e].after

\* Mutant: a path that is not there never matches.
MatchesExisting(t, e) == \A p \in Changed[t] : root[p] = tree[t][e][p] /\ root[p] # 0

\* filesMatch for every changed path: both missing, or the same bytes
Matches(t, e) == \A p \in Changed[t] : root[p] = tree[t][e][p]

\* Mutant: the worktree is compared with the checkout but not with the receipt.
IntegratedLoosely(t, e) == Matches(t, e)

Integrated(t, e) == Intact(t, e) /\ Matches(t, e)

\* inspectImplementTask: a check counts while its own inputs are fresh.
TaskRoute(t) ==
    LET e == Candidate(t)
    IN  IF e = 0 \/ ~ Executed(t, e) THEN "execute-task"
        ELSE IF ~ \E c \in Checks(t, e) : c.input = plan THEN "review-task"
        ELSE IF ~ Integrated(t, e) THEN "integrate-task" ELSE "task-complete"

Complete(t) == TaskRoute(t) = "task-complete"

\* buildStageReadiness for implement
StageRoute ==
    IF ~ Complete(current) THEN TaskRoute(current)
    ELSE IF \E t \in Task : ~ Complete(t) THEN "select-task" ELSE "transition"

\* implementCompletionProof takes any run of the task with a fresh execution and
\* a passing check; the inputs of the check are not compared.
Completed(t, e) ==
    /\ e \in Delivered(t) /\ Executed(t, e) /\ Integrated(t, e)
    /\ Checks(t, e) # {}

ProofExists == \A t \in Task : \E e \in Delivered(t) : Completed(t, e)

-----------------------------------------------------------------------------
IntegrationInit ==
    /\ stage = "implement"
    /\ current \in Task
    /\ plan = 1
    /\ root = [p \in Path |-> IF p \in Created THEN 0 ELSE 1]
    /\ runs = [t \in Task |-> <<>>]
    /\ tree = [t \in Task |-> <<>>]
    /\ receipt = [t \in Task |-> 0]
    /\ reviews = {}
    /\ job = NoJob /\ advance = "idle" /\ proof = NoProof
    /\ edits = 0 /\ fails = 0 /\ deaths = 0

\* No change transaction is under way.
Quiet == job = NoJob /\ advance = "idle"

(***************************************************************************)
(* Execution and review of a task.                                         *)
(***************************************************************************)

Active(t) == {e \in DOMAIN runs[t] : runs[t][e].step \in {"running", "published"}}

\* Main creates a handoff and dispatches an implementer when the route asks for it.
CreateExecution(t) ==
    /\ stage = "implement" /\ current = t /\ TaskRoute(t) = "execute-task"
    /\ Active(t) = {} /\ Len(runs[t]) < MaxExecutions
    /\ LET e == Len(runs[t]) + 1
       IN  /\ runs' = [runs EXCEPT ![t] =
                          Append(@, [input |-> plan, step |-> "running", after |-> Work(t, e)])]
           /\ tree' = [tree EXCEPT ![t] = Append(@, Work(t, e))]
    /\ UNCHANGED <<stage, current, plan, root, receipt, reviews, job, advance, proof, counters>>

\* task-run publishes the receipt in the checkout exclusively, with the digest
\* of the worktree.  It refuses when a receipt of the task is there (TaskRun).
Publish(t, e) ==
    /\ e \in DOMAIN runs[t] /\ runs[t][e].step = "running" /\ runs[t][e].input = plan
    /\ IF receipt[t] = 0
         THEN /\ receipt' = [receipt EXCEPT ![t] = e]
              /\ runs' = [runs EXCEPT ![t][e].step = "published", ![t][e].after = tree[t][e]]
         ELSE /\ runs' = [runs EXCEPT ![t][e].step = "refused"]
              /\ UNCHANGED receipt
    /\ UNCHANGED <<stage, current, plan, root, tree, reviews, job, advance, proof, counters>>

\* The finalizer of implement: a result for the receipt of this run, while the
\* inputs are fresh and the task is current.
DeliverExecution(t, e) ==
    /\ Quiet
    /\ e \in DOMAIN runs[t] /\ runs[t][e].step = "published"
    /\ receipt[t] = e /\ runs[t][e].input = plan /\ current = t
    /\ runs' = [runs EXCEPT ![t][e].step = "delivered"]
    /\ UNCHANGED <<stage, current, plan, root, tree, receipt, reviews, job, advance, proof,
                   counters>>

\* The worker ends without a result: its inputs are stale and whatever it
\* wants is refused, or it is killed.
Abandon(t, e) ==
    /\ e \in Active(t)
    /\ runs' = [runs EXCEPT ![t][e].step = "gone"]
    /\ \/ runs[t][e].input # plan /\ UNCHANGED deaths
       \/ deaths < MaxDeath /\ deaths' = deaths + 1
    /\ UNCHANGED <<stage, current, plan, root, tree, receipt, reviews, job, advance, proof,
                   edits, fails>>

\* A check run of a delivered result, by another agent.
ReviewExecution(t, e, pass) ==
    /\ Quiet /\ stage = "implement"
    /\ e \in Delivered(t) /\ receipt[t] = e
    /\ reviews' = reviews \union {[task |-> t, run |-> e, input |-> plan, pass |-> pass]}
    /\ UNCHANGED <<stage, current, plan, root, runs, tree, receipt, job, advance, proof,
                   counters>>

\* state current-task; a selection that no route asks for counts as an edit.
Select(t) ==
    /\ Quiet /\ stage = "implement" /\ t # current
    /\ current' = t
    /\ \/ StageRoute = "select-task" /\ ~ Complete(t) /\ UNCHANGED edits
       \/ edits < MaxEdit /\ edits' = edits + 1
    /\ UNCHANGED <<stage, plan, root, runs, tree, receipt, reviews, job, advance, proof,
                   fails, deaths>>

(***************************************************************************)
(* task-integrate, in one change transaction.                              *)
(***************************************************************************)

\* The run that is named must be the candidate.  job.before is history: what
\* the checkout held when the command began.
Begin(t, e) ==
    /\ Quiet /\ e = Candidate(t) /\ e # 0 /\ TaskRoute(t) = "integrate-task"
    /\ job' = [task |-> t, run |-> e, phase |-> "copy", todo |-> Changed[t],
               backups |-> <<>>, lost |-> {}, before |-> root]
    /\ UNCHANGED <<stage, current, plan, root, runs, tree, receipt, reviews, advance, proof,
                   counters>>

\* Mutant: the path is remembered only when there was something to back up.
CopyPathExisting(p) ==
    /\ job # NoJob /\ job.phase = "copy" /\ p \in job.todo
    /\ root' = [root EXCEPT ![p] = tree[job.task][job.run][p]]
    /\ job' = [job EXCEPT !.todo = @ \ {p},
                          !.backups = IF root[p] = 0 THEN @ ELSE Append(@, <<p, root[p]>>)]
    /\ UNCHANGED <<stage, current, plan, runs, tree, receipt, reviews, advance, proof,
                   counters>>

\* Back up, remember, copy or delete what the worktree holds now.
CopyPath(p) ==
    /\ job # NoJob /\ job.phase = "copy" /\ p \in job.todo
    /\ root' = [root EXCEPT ![p] = tree[job.task][job.run][p]]
    /\ job' = [job EXCEPT !.todo = @ \ {p}, !.backups = Append(@, <<p, root[p]>>)]
    /\ UNCHANGED <<stage, current, plan, runs, tree, receipt, reviews, advance, proof,
                   counters>>

\* The backup or the copy of a path fails; each copy goes through a rename.
FailCopy ==
    /\ job # NoJob /\ job.phase = "copy" /\ job.todo # {} /\ fails < MaxFail
    /\ fails' = fails + 1
    /\ job' = [job EXCEPT !.phase = "rollback"]
    /\ UNCHANGED <<stage, current, plan, root, runs, tree, receipt, reviews, advance, proof,
                   edits, deaths>>

\* Mutant: what has been copied is taken for complete.
VerifyCopyNot ==
    /\ job # NoJob /\ job.phase = "copy" /\ job.todo = {}
    /\ job' = NoJob
    /\ UNCHANGED <<stage, current, plan, root, runs, tree, receipt, reviews, advance, proof,
                   counters>>

\* The task is inspected again after the last copy.
VerifyCopy ==
    /\ job # NoJob /\ job.phase = "copy" /\ job.todo = {}
    /\ job' = IF Complete(job.task) THEN NoJob ELSE [job EXCEPT !.phase = "rollback"]
    /\ UNCHANGED <<stage, current, plan, root, runs, tree, receipt, reviews, advance, proof,
                   counters>>

\* Rollback in the reverse order.  A path that cannot be restored is reported.
Restore ==
    /\ job # NoJob /\ job.phase = "rollback" /\ job.backups # <<>>
    /\ LET b == job.backups[Len(job.backups)]
           rest == SubSeq(job.backups, 1, Len(job.backups) - 1)
       IN  \/ /\ root' = [root EXCEPT ![b[1]] = b[2]]
              /\ job' = [job EXCEPT !.backups = rest]
              /\ UNCHANGED fails
           \/ /\ fails < MaxFail /\ fails' = fails + 1
              /\ job' = [job EXCEPT !.backups = rest, !.lost = @ \union {b[1]}]
              /\ UNCHANGED root
    /\ UNCHANGED <<stage, current, plan, runs, tree, receipt, reviews, advance, proof, edits,
                   deaths>>

EndRollback ==
    /\ job # NoJob /\ job.phase = "rollback" /\ job.backups = <<>>
    /\ job' = NoJob
    /\ UNCHANGED <<stage, current, plan, root, runs, tree, receipt, reviews, advance, proof,
                   counters>>

(***************************************************************************)
(* state advance, deaths and edits.                                        *)
(***************************************************************************)

\* The proof is resolved and written; for implement it is not verified again.
PublishProof ==
    /\ Quiet /\ stage = "implement" /\ ProofExists
    /\ proof' = [t \in Task |-> CHOOSE e \in Delivered(t) : Completed(t, e)]
    /\ advance' = "published"
    /\ UNCHANGED <<stage, current, plan, root, runs, tree, receipt, reviews, job, counters>>

Commit ==
    /\ advance = "published"
    /\ stage' = "verify" /\ advance' = "idle"
    /\ UNCHANGED <<current, plan, root, runs, tree, receipt, reviews, job, proof, counters>>

\* The command that holds the transaction is killed.  Its lock is recovered
\* (FileLock), its backups stay in a temporary directory nobody looks at.
Die ==
    /\ ~ Quiet /\ deaths < MaxDeath
    /\ job' = NoJob /\ advance' = "idle" /\ deaths' = deaths + 1
    /\ UNCHANGED <<stage, current, plan, root, runs, tree, receipt, reviews, proof, edits,
                   fails>>

Edits == edits < MaxEdit /\ stage = "implement" /\ edits' = edits + 1

\* Tools that write in the checkout hold a lease, which excludes the transaction
\* (ChangeTransaction).
EditPlan(v) ==
    /\ Edits /\ Quiet /\ v # plan
    /\ plan' = v
    /\ UNCHANGED <<stage, current, root, runs, tree, receipt, reviews, job, advance, proof,
                   fails, deaths>>

EditRoot(p) ==
    /\ Edits /\ Quiet /\ root[p] # Foreign
    /\ root' = [root EXCEPT ![p] = Foreign]
    /\ UNCHANGED <<stage, current, plan, runs, tree, receipt, reviews, job, advance, proof,
                   fails, deaths>>

\* A process a command has left behind writes in a worktree at any time.
EditTree(t, p, v) ==
    /\ Edits /\ Candidate(t) # 0 /\ v \in {Foreign, Work(t, Candidate(t))[p]}
    /\ v # tree[t][Candidate(t)][p]
    /\ tree' = [tree EXCEPT ![t][Candidate(t)][p] = v]
    /\ UNCHANGED <<stage, current, plan, root, runs, receipt, reviews, job, advance, proof,
                   fails, deaths>>

JobStep == (\E p \in Path : CopyPath(p)) \/ VerifyCopy \/ Restore \/ EndRollback

TaskStep(t) ==
    \/ CreateExecution(t) \/ Select(t)
    \/ \E e \in 1 .. MaxExecutions :
          \/ Publish(t, e) \/ DeliverExecution(t, e) \/ Abandon(t, e)
          \/ ReviewExecution(t, e, TRUE) \/ ReviewExecution(t, e, FALSE)
          \/ Begin(t, e)

Edit ==
    \/ \E v \in Version : EditPlan(v)
    \/ \E p \in Path : EditRoot(p)
    \/ \E t \in Task : \E p \in Changed[t], v \in Content : EditTree(t, p, v)

IntegrationNext == \/ \E t \in Task : TaskStep(t)
        \/ JobStep \/ FailCopy \/ PublishProof \/ Commit \/ Die \/ Edit

IntegrationSpec == IntegrationInit /\ [][IntegrationNext]_integrationVars

-----------------------------------------------------------------------------
(* Main acts on the route that workflow status projects: the workers it      *)
(* dispatches and the commands it starts go on unless they are killed.       *)

Follow(t) ==
    \/ CreateExecution(t)
    \/ \E e \in 1 .. MaxExecutions :
          \/ Publish(t, e) \/ DeliverExecution(t, e)
          \/ e \in Active(t) /\ runs[t][e].input # plan /\ Abandon(t, e)
          \/ /\ StageRoute = "review-task" /\ current = t /\ e = Candidate(t)
             /\ ReviewExecution(t, e, TRUE)
          \/ StageRoute = "integrate-task" /\ current = t /\ Begin(t, e)
    \/ StageRoute = "select-task" /\ ~ Complete(t) /\ Select(t)

IntegrationFairness ==
    /\ \A t \in Task : WF_integrationVars(Follow(t))
    /\ WF_integrationVars(JobStep)
    /\ WF_integrationVars(StageRoute = "transition" /\ PublishProof)
    /\ WF_integrationVars(Commit)

IntegrationFairSpec == IntegrationSpec /\ IntegrationFairness

-----------------------------------------------------------------------------
(* Properties *)

\* A task has one receipt for good, so one delivered run at most, and reviews
\* are of that run.
IntegrationTypeOK ==
    /\ stage \in {"implement", "verify"} /\ current \in Task /\ plan \in Version
    /\ root \in [Path -> Content]
    /\ runs = [t \in Task |-> runs[t]] /\ tree = [t \in Task |-> tree[t]]
    /\ \A t \in Task :
          /\ runs[t] \in Seq(Execution(t)) /\ tree[t] \in Seq(Tree(t))
          /\ Len(runs[t]) = Len(tree[t]) /\ Len(runs[t]) <= MaxExecutions
          /\ receipt[t] \in {0} \union {e \in DOMAIN runs[t] :
                                          runs[t][e].step \notin {"running", "refused"}}
          /\ \A e \in DOMAIN runs[t] :
                runs[t][e].step \in {"published", "delivered"} => receipt[t] = e
    /\ receipt = [t \in Task |-> receipt[t]]
    /\ reviews \subseteq
          [task : Task, run : 1 .. MaxExecutions, input : Version, pass : BOOLEAN]
    /\ \A c \in reviews : c.run \in Delivered(c.task)
    /\ job \in Job \union {NoJob}
    /\ job # NoJob => job.run \in Delivered(job.task) /\ job.todo \subseteq Changed[job.task]
    /\ advance \in {"idle", "published"}
    /\ advance = "published" => job = NoJob /\ stage = "implement"
    /\ proof = NoProof \/ proof \in [Task -> 1 .. MaxExecutions]
    /\ edits \in 0 .. MaxEdit /\ fails \in 0 .. MaxFail /\ deaths \in 0 .. MaxDeath

\* Until an integration has ended, whatever it has changed in the checkout can
\* be restored from its backups or is reported as lost, also while it rolls back.
ChangesAreBackedUp ==
    job # NoJob =>
        \A p \in Path : root[p] # job.before[p] =>
            \/ p \in job.lost
            \/ \E i \in DOMAIN job.backups : job.backups[i] = <<p, job.before[p]>>

\* An integration that returns has either completed the task or left the
\* checkout as it found it, apart from the paths it reports.
AllOrNothing ==
    [][(job # NoJob /\ job' = NoJob /\ deaths' = deaths)
         => \/ Complete(job.task)
            \/ \A p \in Path : root[p] # job.before[p] => p \in job.lost]_integrationVars

\* The stage is left with every changed path of every task as its receipt
\* recorded it, and with a passing review of that run, whatever integrations of
\* other tasks, deaths and edits of worktrees there were between.
SealIsExact ==
    [][(stage' # stage)
         => \A t \in Task :
               LET e == proof[t]
               IN  /\ receipt[t] = e /\ Checks(t, e) # {}
                   /\ \A p \in Changed[t] : root[p] = runs[t][e].after[p]]_integrationVars

\* When readiness projects implement.transition, state advance finds its proof:
\* the reader picks the latest run of a task and the writer any.
ReadyIsAccepted == Quiet /\ StageRoute = "transition" => ProofExists

\* An integration that is under way can be undone, and one that is over counts the
\* same for the reader and the writer.
IntegrationIsRecoverable == IntegrationTypeOK /\ ChangesAreBackedUp /\ ReadyIsAccepted

\* Following the route leads out of the stage after any number of killed and
\* failed integrations, if the receipts that were published stay good: their
\* result is delivered, and inputs and worktree are as they were.
Good(t) ==
    receipt[t] # 0 => /\ runs[t][receipt[t]].step \in {"published", "delivered"}
                      /\ runs[t][receipt[t]].input = plan
                      /\ Intact(t, receipt[t])
LeavesImplement == <>[](\A t \in Task : Good(t)) => <>(stage = "verify")

=============================================================================
