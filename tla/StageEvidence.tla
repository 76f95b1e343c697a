---------------------------- MODULE StageEvidence ----------------------------
(***************************************************************************)
(* The evidence that completes a stage (lib/stage-results.mjs) and the     *)
(* handoffs (core/handoff-v2.mjs), the architecture proof and the          *)
(* completion proofs (core/design-proof.mjs, core/completion-proof.mjs,    *)
(* design.mjs, lifecycle.mjs) it is made of, for the design stage with its *)
(* two chains and for plan, whose evidence builds on that of design.       *)
(*                                                                         *)
(* A document is a version number, its digest: equal digests are equal     *)
(* contents, and an edit may bring an old content back.  A run is a        *)
(* handoff; runs are numbered in the order of their createdAt.             *)
(***************************************************************************)
EXTENDS Naturals, FiniteSets

CONSTANTS Version,      \* contents of a document
          Agent,        \* agent identities of workers and reviewers
          Sealer,       \* processes of the command design seal-architecture
          Edited,       \* bound: the documents that are edited
          Careless,     \* behaviors whose controller may leave out sealed evidence
          MaxRun,       \* bound: handoffs ever created
          MaxPending,   \* bound: handoffs without a result at a time
          MaxTries,     \* bound: executions of a behavior, and checks of a run
          MaxEdit,      \* bound: edits of documents
          MaxPublish,   \* bound: publications of the design proof
          NoRun, NoResult, NoAgent, NoProof

ASSUME VersionAssumption == Version \subseteq Nat /\ 1 \in Version
ASSUME EditedAssumption == Edited \subseteq {"requirements", "design", "cases", "tasks"}
ASSUME BoundAssumption == MaxRun \in Nat /\ MaxPending \in Nat /\ MaxTries \in Nat
                          /\ MaxEdit \in Nat /\ MaxPublish \in Nat
Document == {"requirements", "design", "cases", "tasks"}
Behavior == {"design.produce", "design.test-cases", "plan.produce"}
Run      == 1 .. MaxRun

ArtifactOf == [b \in Behavior |-> CASE b = "design.produce"    -> "design"
                                    [] b = "design.test-cases" -> "cases"
                                    [] b = "plan.produce"      -> "tasks"]

\* The references a controller freezes for a worker.  "architecture" and
\* "designProof" are evidence/completion/design-architecture.json and design.json.
InputsOf == [b \in Behavior |->
               CASE b = "design.produce"    -> {"requirements"}
                 [] b = "design.test-cases" -> {"requirements", "design", "architecture"}
                 [] b = "plan.produce"      -> {"cases", "designProof"}]

\* What a worker or a reviewer delivers: the digest of the artifact and the
\* verdict, pass only if every assertion and the self check pass.  A result with
\* a waiver is refused, so there are none.
Result  == [artifact : Version, pass : BOOLEAN]
Chain   == [execution : Run, review : Run, artifact : Version]
ArchitectureProof == [chain : Chain, input : [{"requirements"} -> Version]]
DesignProof       == [chains : Chain \X Chain, stamp : 1 .. MaxPublish]

ASSUME NoneAssumption ==
    /\ NoAgent \notin Agent
    /\ NoResult \notin Result
    /\ NoProof \notin Version
    /\ NoProof \notin Chain
    /\ NoProof \notin ArchitectureProof
    /\ NoProof \notin DesignProof

VARIABLES
    stage,         \* stage of state.json
    content,       \* the documents in the change directory
    architecture,  \* the sealed architecture proof
    designProof,   \* the completion proof of design
    planProof,     \* the completion proof of plan
    run,           \* the run directories
    created,       \* how many runs there are
    sealing,       \* per sealer, the proof it resolved before its transaction
    advance,       \* the command state advance, which is a change transaction
    meanwhile,     \* what others did since its last step: documents they wrote, and
                   \* "handoff" if they created one
    edits          \* how many edits there were

proofs == <<architecture, designProof, planProof>>
vars == <<stage, content, architecture, designProof, planProof, run, created,
          sealing, advance, meanwhile, edits>>

-----------------------------------------------------------------------------
(* Runs *)

Runs          == 1 .. created
Executions(b) == {r \in Runs : run[r].parent = 0 /\ run[r].behavior = b}
Checks(e)     == {r \in Runs : run[r].parent = e}
Latest(S)     == IF S = {} THEN 0 ELSE CHOOSE r \in S : \A q \in S : q <= r

FreshestExecution(b) == Latest(Executions(b))
FreshestCheck(e)     == Latest(Checks(e))

\* sha256Artifact of a reference
Digest(f) == CASE f = "architecture" -> architecture
               [] f = "designProof"  -> designProof
               [] OTHER              -> content[f]

Readable(f)    == Digest(f) # NoProof
\* Mutant: the digests of the inputs are recorded and never compared.
InputsAssumed(r) == r \in Runs

InputsFresh(r) == \A f \in DOMAIN run[r].input : Digest(f) = run[r].input[f]

\* validateArtifacts: a digest is that of the file as it is now.
ArtifactBound(b, v) == v = content[ArtifactOf[b]]

\* validateStageResult and validateReviewResult
ResultValid(r) ==
    /\ run[r].result # NoResult
    /\ ArtifactBound(run[r].behavior, run[r].result.artifact)

-----------------------------------------------------------------------------
(* Chains of an execution and its review *)

ExecutionPasses(e) ==
    /\ InputsFresh(e)
    /\ ResultValid(e)
    /\ run[e].result.pass
    /\ run[e].agent # NoAgent

ReviewPasses(e, c) ==
    /\ InputsFresh(c)
    /\ ResultValid(c)
    /\ run[c].result.artifact = run[e].result.artifact
    /\ run[c].result.pass
    /\ run[c].agent # NoAgent
    /\ run[c].agent # run[e].agent

HasStageResult(b) ==
    LET e == FreshestExecution(b) IN e \in Executions(b) /\ ExecutionPasses(e)

HasChain(b) ==
    LET e == FreshestExecution(b)
        c == FreshestCheck(e)
    IN  HasStageResult(b) /\ c \in Checks(e) /\ ReviewPasses(e, c)

\* The pair of runs a proof names
ChainOf(b) == LET e == FreshestExecution(b)
              IN  [execution |-> e, review |-> FreshestCheck(e),
                   artifact |-> run[e].result.artifact]

\* validateCompletionProof of the chain a proof on file names
ProofHolds(chain, b) ==
    chain.execution # chain.review /\ ArtifactBound(b, chain.artifact)

-----------------------------------------------------------------------------
(* Design: the architecture proof and the compound proof *)

ArchitectureCandidate ==
    [chain |-> ChainOf("design.produce"),
     input |-> run[FreshestExecution("design.produce")].input]

ArchitectureValid ==
    /\ architecture # NoProof
    /\ architecture.chain.artifact = content["design"]
    /\ \A f \in DOMAIN architecture.input : Digest(f) = architecture.input[f]

ArchitectureCurrent ==
    ArchitectureValid /\ architecture = ArchitectureCandidate

\* buildCompoundDesignProof: the test design was made from the sealed design.
TestDesignBindsArchitecture ==
    LET input == run[FreshestExecution("design.test-cases")].input
    IN  /\ "design" \in DOMAIN input /\ input["design"] = architecture.chain.artifact
        /\ "architecture" \in DOMAIN input /\ input["architecture"] = architecture

HasDesignCandidate ==
    /\ HasChain("design.produce")
    /\ ArchitectureCurrent
    /\ HasChain("design.test-cases")
    /\ TestDesignBindsArchitecture

DesignCandidate == <<architecture.chain, ChainOf("design.test-cases")>>

DesignGate ==
    /\ HasDesignCandidate
    /\ designProof # NoProof
    /\ ProofHolds(designProof.chains[1], "design.produce")
    /\ ProofHolds(designProof.chains[2], "design.test-cases")
    /\ designProof.chains = DesignCandidate

\* buildDesignReadiness: the first step that is missing
DesignRoute ==
    IF ~ HasStageResult("design.produce") THEN "design.produce"
    ELSE IF ~ HasChain("design.produce") THEN "design.review"
    ELSE IF ~ ArchitectureCurrent THEN "design.seal-architecture"
    ELSE IF ~ HasStageResult("design.test-cases") THEN "design.test-cases"
    ELSE IF ~ HasChain("design.test-cases") THEN "design.test-cases.review"
    ELSE IF ~ TestDesignBindsArchitecture THEN "design.test-cases"
    ELSE "design.transition"

-----------------------------------------------------------------------------
(* Plan: its input binds the test cases and the canonical design proof *)

HasPlanCandidate ==
    /\ HasChain("plan.produce")
    /\ {"cases", "designProof"} \subseteq DOMAIN run[FreshestExecution("plan.produce")].input
    /\ DesignGate

PlanCandidate == ChainOf("plan.produce")

PlanGate ==
    /\ HasPlanCandidate
    /\ planProof # NoProof
    /\ ProofHolds(planProof, "plan.produce")
    /\ planProof = PlanCandidate

Gate(s) == IF s = "design" THEN DesignGate ELSE PlanGate

\* buildStageReadiness of plan
PlanRoute ==
    IF ~ HasStageResult("plan.produce") THEN "plan.produce"
    ELSE IF ~ HasChain("plan.produce") THEN "plan.review"
    ELSE IF ~ HasPlanCandidate THEN "plan.produce"
    ELSE "plan.transition"

-----------------------------------------------------------------------------
(* What the workflow runner says of the change (lib/workflow-audit.mjs,     *)
(* lib/workflow.mjs)                                                         *)

CompletedStages == CASE stage = "design" -> {}
                     [] stage = "plan"   -> {"design"}
                     [] OTHER            -> {"design", "plan"}

\* One completed stage of the audit: its gate, and for design both its chains
StageAudit(s) ==
    /\ Gate(s)
    /\ s = "design" => HasChain("design.produce") /\ HasChain("design.test-cases")

AuditBlocks == \E s \in CompletedStages : ~ StageAudit(s)

\* buildWorkflowResult: a blocked audit comes before everything else.
NextAction ==
    IF AuditBlocks THEN "audit"
    ELSE CASE stage = "design" -> DesignRoute
           [] stage = "plan"   -> PlanRoute
           [] OTHER            -> "implement"

-----------------------------------------------------------------------------
Init ==
    /\ stage = "design"
    /\ content = [d \in Document |-> 1]
    /\ architecture = NoProof /\ designProof = NoProof /\ planProof = NoProof
    /\ run = [r \in Run |-> NoRun]
    /\ created = 0
    /\ sealing = [s \in Sealer |-> NoProof]
    /\ advance = "idle" /\ meanwhile = {}
    /\ edits = 0

Meanwhile(x) == meanwhile' = IF advance = "idle" THEN meanwhile ELSE meanwhile \union {x}

\* A person writes a document, or a tool whose pre-write hook was killed, at any time.  A
\* tool with a lease is kept out of the transaction of state advance (ChangeTransaction).
Edit(d, v) ==
    /\ edits < MaxEdit
    /\ v # content[d]
    /\ content' = [content EXCEPT ![d] = v]
    /\ edits' = edits + 1
    /\ Meanwhile(d)
    /\ UNCHANGED <<stage, proofs, run, created, sealing, advance>>

\* A handoff: execute has no parent, check has one, and every reference it
\* names has the digest it was frozen with.
Handoff(b, e, refs) ==
    [behavior |-> b, parent |-> e, input |-> [f \in refs |-> Digest(f)],
     result |-> NoResult, agent |-> NoAgent]

NewRun(b, e, refs) ==
    /\ created < MaxRun
    /\ Cardinality({r \in Runs : run[r].result = NoResult}) < MaxPending
    /\ \A f \in refs : Readable(f)
    /\ created' = created + 1
    /\ run' = [run EXCEPT ![created + 1] = Handoff(b, e, refs)]
    /\ Meanwhile("handoff")
    /\ UNCHANGED <<stage, content, proofs, sealing, advance, edits>>

\* createHandoffV2 takes no transaction.  It freezes the references it is
\* given; a controller that leaves out the sealed evidence is not refused here.
CreateExecution(b) ==
    /\ Cardinality(Executions(b)) < MaxTries
    /\ \/ NewRun(b, 0, InputsOf[b])
       \/ b \in Careless /\ NewRun(b, 0, InputsOf[b] \ {"architecture", "designProof"})

\* A check is given what the worker was given, and its artifact.  It can be
\* created before the run has a result.
CreateCheck(e) ==
    /\ e \in Runs /\ run[e].parent = 0 /\ Cardinality(Checks(e)) < MaxTries
    /\ NewRun(run[e].behavior, e,
              DOMAIN run[e].input \union {ArtifactOf[run[e].behavior]})

\* validateHandoffV2Result for a check
ParentDelivered(r) == run[r].parent # 0 => ResultValid(run[r].parent)

\* persistHandoffV2Result, a change transaction: the result binds the present
\* artifact, is created once and never replaced.  The agent is that of the
\* trusted binding its stop hook then leaves (AgentEvidence); it may leave none.
Deliver(r, pass, a) ==
    /\ r \in Runs /\ advance = "idle"
    /\ run[r].result = NoResult
    /\ ParentDelivered(r)
    /\ run' = [run EXCEPT ![r].result =
                             [artifact |-> content[ArtifactOf[run[r].behavior]], pass |-> pass],
                          ![r].agent = a]
    /\ UNCHANGED <<stage, content, proofs, created, sealing, advance, meanwhile, edits>>

\* design seal-architecture resolves the chain before it enters its transaction.
SealResolve(s) ==
    /\ sealing[s] = NoProof /\ HasChain("design.produce")
    /\ sealing' = [sealing EXCEPT ![s] = ArchitectureCandidate]
    /\ UNCHANGED <<stage, content, proofs, run, created, advance, meanwhile, edits>>

\* In the transaction an existing proof is kept: the command returns it when it
\* is valid and binds the same chain and fails otherwise.  A new proof stays
\* even if its immediate validation fails.
SealWrite(s) ==
    /\ sealing[s] # NoProof /\ advance = "idle"
    /\ architecture' = IF architecture = NoProof THEN sealing[s] ELSE architecture
    /\ sealing' = [sealing EXCEPT ![s] = NoProof]
    /\ UNCHANGED <<stage, content, designProof, planProof, run, created, advance, meanwhile,
                   edits>>

PublishDesign ==
    LET stamp == IF designProof = NoProof THEN 0 ELSE designProof.stamp
    IN  /\ stamp < MaxPublish
        /\ designProof' = [chains |-> DesignCandidate, stamp |-> stamp + 1]

\* Mutant: state advance of plan publishes the proof of design once more.
PublishAnew ==
    /\ advance = "idle"
    /\ \/ stage = "design" /\ HasDesignCandidate /\ PublishDesign /\ UNCHANGED planProof
       \/ stage = "plan" /\ HasPlanCandidate /\ PublishDesign /\ planProof' = PlanCandidate
    /\ advance' = "published" /\ meanwhile' = {}
    /\ UNCHANGED <<stage, content, architecture, run, created, sealing, edits>>

\* persistStageCompletionProof: publish the candidate ...
Publish ==
    /\ advance = "idle"
    /\ \/ stage = "design" /\ HasDesignCandidate /\ PublishDesign /\ UNCHANGED planProof
       \/ /\ stage = "plan" /\ HasPlanCandidate /\ planProof' = PlanCandidate
          /\ UNCHANGED designProof
    /\ advance' = "published" /\ meanwhile' = {}
    /\ UNCHANGED <<stage, content, architecture, run, created, sealing, edits>>

\* ... and resolve it again with the published file.
Verify ==
    /\ advance = "published"
    /\ advance' = IF Gate(stage) THEN "verified" ELSE "idle"
    /\ meanwhile' = {}
    /\ UNCHANGED <<stage, content, proofs, run, created, sealing, edits>>

\* Mutant: state advance trusts a proof that is on file.
CommitOnFile ==
    /\ (IF stage = "design" THEN designProof ELSE planProof) # NoProof
    /\ stage # "implement"
    /\ stage' = IF stage = "design" THEN "plan" ELSE "implement"
    /\ advance' = "idle" /\ meanwhile' = {}
    /\ UNCHANGED <<content, proofs, run, created, sealing, edits>>

Commit ==
    /\ advance = "verified"
    /\ stage' = IF stage = "design" THEN "plan" ELSE "implement"
    /\ advance' = "idle" /\ meanwhile' = {}
    /\ UNCHANGED <<content, proofs, run, created, sealing, edits>>

\* The command is killed; its transaction lock is recovered (FileLock).
Abort ==
    /\ advance # "idle"
    /\ advance' = "idle" /\ meanwhile' = {}
    /\ UNCHANGED <<stage, content, proofs, run, created, sealing, edits>>

Next ==
    \/ \E d \in Edited, v \in Version : Edit(d, v)
    \/ \E b \in Behavior : CreateExecution(b)
    \/ \E e \in Run : CreateCheck(e)
    \/ \E r \in Run : \/ \E a \in Agent : Deliver(r, TRUE, a)
                      \/ Deliver(r, FALSE, NoAgent)
    \/ \E s \in Sealer : SealResolve(s) \/ SealWrite(s)
    \/ Publish \/ Verify \/ Commit \/ Abort

Spec == Init /\ [][Next]_vars

-----------------------------------------------------------------------------
(* Properties *)

IsHandoff(h) ==
    /\ h = [behavior |-> h.behavior, parent |-> h.parent, input |-> h.input,
            result |-> h.result, agent |-> h.agent]
    /\ h.behavior \in Behavior
    /\ h.result \in Result \union {NoResult}
    /\ h.agent \in Agent \union {NoAgent}
    /\ h.behavior = "design.produce" /\ h.parent = 0
          => h.input \in [{"requirements"} -> Version]

TypeOK ==
    /\ stage \in {"design", "plan", "implement"}
    /\ content \in [Document -> Version]
    /\ architecture \in ArchitectureProof \union {NoProof}
    /\ designProof \in DesignProof \union {NoProof}
    /\ planProof \in Chain \union {NoProof}
    /\ created \in 0 .. MaxRun
    /\ run = [r \in Run |-> run[r]]
    /\ \A r \in Run \ Runs : run[r] = NoRun
    /\ \A r \in Runs : IsHandoff(run[r]) /\ run[r].parent \in 0 .. (r - 1)
    /\ sealing \in [Sealer -> ArchitectureProof \union {NoProof}]
    /\ advance \in {"idle", "published", "verified"}
    /\ meanwhile \subseteq Document \union {"handoff"}
    /\ edits \in 0 .. MaxEdit

\* A result a reviewer delivered is about exactly what its parent run
\* delivered, although documents are edited between the two deliveries and a
\* check may be older than the result it reviews.
ReviewMatchesResult ==
    \A r \in Runs :
        run[r].parent # 0 /\ run[r].result # NoResult
            => /\ run[run[r].parent].result # NoResult
               /\ run[r].result.artifact = run[run[r].parent].result.artifact

\* The chain of a proof: a passing result and a passing review of it by
\* another agent.
Reviewed(chain, b) ==
    /\ chain.execution \in Executions(b) /\ chain.review \in Checks(chain.execution)
    /\ \A r \in {chain.execution, chain.review} :
          /\ run[r].result # NoResult
          /\ run[r].result.pass
          /\ run[r].result.artifact = chain.artifact
          /\ run[r].agent # NoAgent
    /\ run[chain.execution].agent # run[chain.review].agent

\* Whatever runs and edits follow, the proofs that were published stand for
\* work that was done and independently reviewed, in the order of the stages:
\* the test design worked from the sealed design.
ProofsAreEarned ==
    /\ architecture # NoProof => Reviewed(architecture.chain, "design.produce")
    /\ designProof # NoProof =>
          LET t == designProof.chains[2]
          IN  /\ architecture # NoProof
              /\ designProof.chains[1] = architecture.chain
              /\ Reviewed(t, "design.test-cases")
              /\ run[t.execution].input["architecture"] = architecture
    /\ planProof # NoProof => Reviewed(planProof, "plan.produce")

\* The plan that completes its stage was made from the design proof that is on
\* file, not from one that state advance has published anew since.
PlanRestsOnDesign ==
    planProof # NoProof => run[planProof.execution].input["designProof"] = designProof

\* Every published proof stands for done and reviewed work on the proofs before it.
ProofChainHolds == TypeOK /\ ReviewMatchesResult /\ ProofsAreEarned /\ PlanRestsOnDesign

\* The artifact of a proof is the document d as it is, or d was written meanwhile.
Binds(d, artifact) == d \in meanwhile \/ artifact = content[d]

\* A stage is left only with proofs of the documents as they are at that moment, those
\* excepted that somebody wrote after state advance had verified them: publication,
\* verification and commit are three steps, and nobody is told to wait for them.
AdvanceIsCurrent ==
    [][(stage' # stage)
         => /\ Binds("design", designProof.chains[1].artifact)
            /\ Binds("cases", designProof.chains[2].artifact)
            /\ stage = "plan" => Binds("tasks", planProof.artifact)]_vars

\* The architecture proof is never replaced, by whichever of several sealers
\* and for whatever later chain.
SealIsImmutable == [][(architecture # NoProof) => (architecture' = architecture)]_vars

\* What leaves a stage is what was reviewed, and what was sealed stays sealed.
ProofsAreCurrent == AdvanceIsCurrent /\ SealIsImmutable

\* What state advance has published passes when it is resolved again, and the runner,
\* which computes readiness with functions of its own, says to go on, unless a document
\* was written or a handoff created in between: a publication changes a digest that later
\* runs are bound to, and must not turn against the stage it completes.
AdvanceIsNotInVain ==
    advance = "published" /\ meanwhile = {} =>
        Gate(stage) /\ NextAction = IF stage = "design" THEN "design.transition"
                                                        ELSE "plan.transition"
=============================================================================
