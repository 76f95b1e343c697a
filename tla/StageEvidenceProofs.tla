------------------------- MODULE StageEvidenceProofs -------------------------
(***************************************************************************)
(* Theorems about StageEvidence, for every set of agents, sealers and      *)
(* versions, any number of runs, edits and publications, and any kills of  *)
(* the command that leaves a stage.                                        *)
(***************************************************************************)
EXTENDS StageEvidence, TLAPS

(***************************************************************************)
(* The inductive invariant.  A proof that a sealer has resolved but not    *)
(* written is already earned; a check is of the behavior of its parent;    *)
(* and what state advance has verified stays current until it commits,     *)
(* but for the documents that somebody writes in between: the proofs       *)
(* change in transactions only.                                            *)
(***************************************************************************)
ChecksFollow ==
    \A r \in Runs : run[r].parent # 0 => run[r].behavior = run[run[r].parent].behavior

SealingIsEarned ==
    \A s \in Sealer : sealing[s] # NoProof => Reviewed(sealing[s].chain, "design.produce")

PlanComesLater ==
    /\ stage = "design" => planProof = NoProof
    /\ advance # "idle" => stage # "implement"

VerifiedIsCurrent ==
    advance = "verified" =>
        /\ designProof # NoProof
        /\ Binds("design", designProof.chains[1].artifact)
        /\ Binds("cases", designProof.chains[2].artifact)
        /\ stage = "plan" => planProof # NoProof /\ Binds("tasks", planProof.artifact)

SInv == ProofChainHolds /\ ChecksFollow /\ SealingIsEarned /\ PlanComesLater /\ VerifiedIsCurrent

LEMMA SInit == Init => SInv
  <1> SUFFICES ASSUME Init PROVE SInv
    OBVIOUS
  <1> USE VersionAssumption, BoundAssumption DEF Init, Runs
  <1>1. TypeOK
    BY DEF TypeOK
  <1>2. ReviewMatchesResult /\ ProofsAreEarned /\ PlanRestsOnDesign
    BY DEF ReviewMatchesResult, ProofsAreEarned, PlanRestsOnDesign
  <1>3. ChecksFollow /\ SealingIsEarned /\ PlanComesLater /\ VerifiedIsCurrent
    BY DEF ChecksFollow, SealingIsEarned, PlanComesLater, VerifiedIsCurrent
  <1>4. QED
    BY <1>1, <1>2, <1>3 DEF SInv, ProofChainHolds

LEMMA RunsAreNumbered ==
    ASSUME TypeOK
    PROVE  created \in Nat /\ created <= MaxRun /\ Runs \subseteq Run /\ 0 \notin Runs
  BY BoundAssumption DEF TypeOK, Runs, Run

\* What a chain that readiness accepts consists of.
LEMMA ChainIsReviewed ==
    ASSUME TypeOK, NEW b \in Behavior, HasChain(b)
    PROVE  /\ ChainOf(b) \in Chain /\ Reviewed(ChainOf(b), b)
           /\ ChainOf(b).execution = FreshestExecution(b)
           /\ InputsFresh(ChainOf(b).execution)
           /\ ChainOf(b).artifact = content[ArtifactOf[b]]
  <1> DEFINE e == FreshestExecution(b)
             c == FreshestCheck(e)
  <1>1. e \in Executions(b) /\ ExecutionPasses(e) /\ c \in Checks(e) /\ ReviewPasses(e, c)
    BY DEF HasChain, HasStageResult
  <1> HIDE DEF e, c
  <1>2. /\ e \in Runs /\ c \in Runs /\ e \in Run /\ c \in Run
        /\ run[e].behavior = b
    BY <1>1, RunsAreNumbered DEF Executions, Checks
  <1>3. IsHandoff(run[e]) /\ run[e].result \in Result
    BY <1>1, <1>2 DEF TypeOK, IsHandoff, ExecutionPasses, ResultValid
  <1>4. run[e].result.artifact \in Version
    BY <1>3 DEF Result
  <1>5. ChainOf(b) = [execution |-> e, review |-> c, artifact |-> run[e].result.artifact]
    BY DEF ChainOf, e, c
  <1>6. ChainOf(b) \in Chain
    BY <1>2, <1>4, <1>5 DEF Chain
  <1>7. Reviewed(ChainOf(b), b)
    BY <1>1, <1>5 DEF Reviewed, ExecutionPasses, ReviewPasses, ResultValid
  <1>8. ChainOf(b).artifact = content[ArtifactOf[b]]
    BY <1>1, <1>2, <1>5 DEF ExecutionPasses, ResultValid, ArtifactBound
  <1>9. QED
    BY <1>1, <1>5, <1>6, <1>7, <1>8 DEF ExecutionPasses, e

\* What a sealer resolves is a proof of a reviewed chain.
LEMMA CandidateIsEarned ==
    ASSUME TypeOK, HasChain("design.produce")
    PROVE  /\ ArchitectureCandidate \in ArchitectureProof
           /\ ArchitectureCandidate.chain = ChainOf("design.produce")
           /\ Reviewed(ArchitectureCandidate.chain, "design.produce")
  <1>1. "design.produce" \in Behavior
    BY DEF Behavior
  <1> DEFINE e == FreshestExecution("design.produce")
  <1>2. /\ ChainOf("design.produce") \in Chain
        /\ Reviewed(ChainOf("design.produce"), "design.produce")
    BY <1>1, ChainIsReviewed
  <1>3. e \in Runs /\ run[e].parent = 0 /\ run[e].behavior = "design.produce"
    BY DEF HasChain, HasStageResult, Executions
  <1>4. run[e].input \in [{"requirements"} -> Version]
    BY <1>3 DEF TypeOK, IsHandoff
  <1>5. QED
    BY <1>2, <1>4 DEF ArchitectureCandidate, ArchitectureProof

\* What state advance publishes for design.
LEMMA DesignIsEarned ==
    ASSUME TypeOK, HasDesignCandidate
    PROVE  /\ architecture # NoProof /\ DesignCandidate \in Chain \X Chain
           /\ DesignCandidate[1] = architecture.chain
           /\ Reviewed(DesignCandidate[2], "design.test-cases")
           /\ run[DesignCandidate[2].execution].input["architecture"] = architecture
  <1>1. architecture \in ArchitectureProof /\ architecture # NoProof
    BY DEF HasDesignCandidate, ArchitectureCurrent, ArchitectureValid, TypeOK
  <1>2. architecture.chain \in Chain
    BY <1>1 DEF ArchitectureProof
  <1>3. "design.test-cases" \in Behavior /\ HasChain("design.test-cases")
    BY DEF Behavior, HasDesignCandidate
  <1>4. /\ ChainOf("design.test-cases") \in Chain
        /\ Reviewed(ChainOf("design.test-cases"), "design.test-cases")
        /\ ChainOf("design.test-cases").execution = FreshestExecution("design.test-cases")
    BY <1>3, ChainIsReviewed
  <1>5. run[FreshestExecution("design.test-cases")].input["architecture"] = architecture
    BY DEF HasDesignCandidate, TestDesignBindsArchitecture
  <1>6. QED
    BY <1>1, <1>2, <1>4, <1>5 DEF DesignCandidate

\* What state advance publishes for plan.
LEMMA PlanIsEarned ==
    ASSUME TypeOK, HasPlanCandidate
    PROVE  /\ PlanCandidate \in Chain /\ Reviewed(PlanCandidate, "plan.produce")
           /\ run[PlanCandidate.execution].input["designProof"] = designProof
           /\ DesignGate
  <1>1. "plan.produce" \in Behavior /\ HasChain("plan.produce")
    BY DEF Behavior, HasPlanCandidate
  <1>2. /\ ChainOf("plan.produce") \in Chain /\ Reviewed(ChainOf("plan.produce"), "plan.produce")
        /\ ChainOf("plan.produce").execution = FreshestExecution("plan.produce")
        /\ InputsFresh(ChainOf("plan.produce").execution)
    BY <1>1, ChainIsReviewed
  <1>3. "designProof" \in DOMAIN run[FreshestExecution("plan.produce")].input /\ DesignGate
    BY DEF HasPlanCandidate
  <1>4. Digest("designProof") = designProof
    BY DEF Digest
  <1>5. QED
    BY <1>2, <1>3, <1>4 DEF PlanCandidate, InputsFresh

\* A new handoff is added behind the others.
LEMMA NewRunAdds ==
    ASSUME TypeOK, NEW b \in Behavior, NEW e \in 0 .. created, NEW refs, NewRun(b, e, refs),
           b = "design.produce" /\ e = 0 => refs = {"requirements"}
    PROVE  /\ created' = created + 1 /\ created + 1 \in Run
           /\ run' = [r \in Run |-> run'[r]]
           /\ \A r \in Run : r # created + 1 => run'[r] = run[r]
           /\ run'[created + 1] = Handoff(b, e, refs)
           /\ run'[created + 1].behavior = b /\ run'[created + 1].parent = e
           /\ run'[created + 1].input = [f \in refs |-> Digest(f)]
           /\ run'[created + 1].result = NoResult
           /\ IsHandoff(run'[created + 1])
  <1>1. created \in Nat /\ created < MaxRun /\ created' = created + 1
    BY RunsAreNumbered, BoundAssumption DEF NewRun
  <1>2. created + 1 \in Run /\ run = [r \in Run |-> run[r]]
    BY <1>1, BoundAssumption DEF TypeOK, Run
  <1>3. run' = [run EXCEPT ![created + 1] = Handoff(b, e, refs)]
    BY DEF NewRun
  <1>4. /\ run' = [r \in Run |-> run'[r]]
        /\ \A r \in Run : r # created + 1 => run'[r] = run[r]
        /\ run'[created + 1] = Handoff(b, e, refs)
    BY <1>2, <1>3
  <1>5. IsHandoff(Handoff(b, e, refs))
    <2>1. content["requirements"] \in Version
      BY DEF TypeOK, Document
    <2>2. [f \in {"requirements"} |-> Digest(f)] \in [{"requirements"} -> Version]
      BY <2>1 DEF Digest
    <2>3. QED
      BY <2>2 DEF Handoff, IsHandoff
  <1>6. /\ Handoff(b, e, refs).behavior = b /\ Handoff(b, e, refs).parent = e
        /\ Handoff(b, e, refs).input = [f \in refs |-> Digest(f)]
        /\ Handoff(b, e, refs).result = NoResult
    BY DEF Handoff
  <1>7. QED
    BY <1>1, <1>2, <1>4, <1>5, <1>6

LEMMA ExecutionIsNew ==
    ASSUME TypeOK, NEW b \in Behavior, CreateExecution(b)
    PROVE  \E refs : NewRun(b, 0, refs) /\ (b = "design.produce" => refs = {"requirements"})
  BY DEF CreateExecution, InputsOf, Behavior

LEMMA CheckIsNew ==
    ASSUME TypeOK, NEW e \in Run, CreateCheck(e)
    PROVE  /\ e \in Runs /\ run[e].parent = 0 /\ run[e].behavior \in Behavior
           /\ \E refs : NewRun(run[e].behavior, e, refs)
  BY DEF CreateCheck, TypeOK, IsHandoff

\* A delivery sets the result and the agent of its run.
LEMMA DeliverySets ==
    ASSUME TypeOK, NEW r \in Run, NEW pass \in BOOLEAN, NEW a, Deliver(r, pass, a)
    PROVE  /\ r \in Runs
           /\ run' = [q \in Run |-> run'[q]]
           /\ \A q \in Run : q # r => run'[q] = run[q]
           /\ run'[r] = [behavior |-> run[r].behavior, parent |-> run[r].parent,
                         input |-> run[r].input,
                         result |-> [artifact |-> content[ArtifactOf[run[r].behavior]],
                                     pass |-> pass],
                         agent |-> a]
           /\ run'[r].behavior = run[r].behavior /\ run'[r].parent = run[r].parent
           /\ run'[r].input = run[r].input /\ run'[r].agent = a
           /\ run'[r].result = [artifact |-> content[ArtifactOf[run[r].behavior]], pass |-> pass]
  <1> DEFINE res == [artifact |-> content[ArtifactOf[run[r].behavior]], pass |-> pass]
  <1>1. r \in Runs /\ run' = [run EXCEPT ![r].result = res, ![r].agent = a]
    BY DEF Deliver
  <1> DEFINE b == run[r].behavior  p == run[r].parent  i == run[r].input
             x == run[r].result  y == run[r].agent
  <1>2. run[r] = [behavior |-> b, parent |-> p, input |-> i, result |-> x, agent |-> y]
    BY <1>1 DEF TypeOK, IsHandoff
  <1>3. run = [q \in Run |-> run[q]]
    BY DEF TypeOK
  <1> HIDE DEF b, p, i, x, y, res
  <1>4. run[r] \in [behavior : {b}, parent : {p}, input : {i}, result : {x}, agent : {y}]
    BY <1>2
  <1>5. run'[r] = [behavior |-> b, parent |-> p, input |-> i, result |-> res, agent |-> a]
    BY <1>1, <1>3, <1>4
  <1>6. run' = [q \in Run |-> run'[q]] /\ \A q \in Run : q # r => run'[q] = run[q]
    BY <1>1, <1>3
  <1>7. /\ run'[r].behavior = b /\ run'[r].parent = p /\ run'[r].input = i
        /\ run'[r].agent = a /\ run'[r].result = res
    BY <1>5
  <1>8. QED
    BY <1>1, <1>5, <1>6, <1>7 DEF b, p, i, res

\* What the steps do to the runs: runs are added, and a result comes once.
LEMMA RunsKept ==
    ASSUME TypeOK, [Next]_vars
    PROVE  \A r \in Runs :
              /\ r \in Runs'
              /\ run'[r].behavior = run[r].behavior /\ run'[r].parent = run[r].parent
              /\ run'[r].input = run[r].input
              /\ run[r].result # NoResult =>
                    run'[r].result = run[r].result /\ run'[r].agent = run[r].agent
  <1> DEFINE Kept == \A r \in Runs :
              /\ r \in Runs'
              /\ run'[r].behavior = run[r].behavior /\ run'[r].parent = run[r].parent
              /\ run'[r].input = run[r].input
              /\ run[r].result # NoResult =>
                    run'[r].result = run[r].result /\ run'[r].agent = run[r].agent
  <1>1. CASE UNCHANGED <<run, created>>
    BY <1>1 DEF Runs
  <1>2. ASSUME NEW b \in Behavior, NEW e \in 0 .. created, NEW refs, NewRun(b, e, refs),
               b = "design.produce" /\ e = 0 => refs = {"requirements"}
        PROVE  Kept
    <2>1. created \in Nat /\ created' = created + 1 /\ Runs \subseteq Run
      BY <1>2, NewRunAdds, RunsAreNumbered
    <2>2. \A r \in Runs : r \in Runs' /\ r # created + 1
      BY <2>1 DEF Runs
    <2>3. \A r \in Run : r # created + 1 => run'[r] = run[r]
      BY <1>2, NewRunAdds
    <2>4. QED
      BY <2>1, <2>2, <2>3
  <1>3. ASSUME NEW b \in Behavior, CreateExecution(b) PROVE Kept
    <2>1. 0 \in 0 .. created
      BY RunsAreNumbered
    <2>2. QED
      BY <1>2, <1>3, <2>1, ExecutionIsNew
  <1>4. ASSUME NEW e \in Run, CreateCheck(e) PROVE Kept
    <2>1. e \in 0 .. created /\ e # 0
      BY <1>4, CheckIsNew, RunsAreNumbered DEF Runs
    <2>2. QED
      BY <1>2, <1>4, <2>1, CheckIsNew
  <1>5. ASSUME NEW r \in Run, NEW pass \in BOOLEAN, NEW a, Deliver(r, pass, a) PROVE Kept
    <2>1. run[r].result = NoResult /\ UNCHANGED created
      BY <1>5 DEF Deliver
    <2>2. Runs' = Runs /\ r \in Runs /\ Runs \subseteq Run
      BY <1>5, <2>1, DeliverySets, RunsAreNumbered DEF Runs
    <2>3. /\ run'[r].behavior = run[r].behavior /\ run'[r].parent = run[r].parent
          /\ run'[r].input = run[r].input
          /\ \A q \in Run : q # r => run'[q] = run[q]
      BY <1>5, DeliverySets, ZenonT(60)
    <2>4. QED
      BY <2>1, <2>2, <2>3
  <1>6. QED
    BY <1>1, <1>3, <1>4, <1>5
       DEF Next, vars, Edit, SealResolve, SealWrite, Publish, Verify, Commit, Abort

\* The runs stay typed.
RunsTyped ==
    /\ created \in 0 .. MaxRun
    /\ run = [r \in Run |-> run[r]]
    /\ \A r \in Run \ Runs : run[r] = NoRun
    /\ \A r \in Runs : IsHandoff(run[r]) /\ run[r].parent \in 0 .. (r - 1)

LEMMA RunsTypedStep == TypeOK /\ [Next]_vars => RunsTyped'
  <1> SUFFICES ASSUME TypeOK, [Next]_vars PROVE RunsTyped'
    OBVIOUS
  <1>0. RunsTyped
    BY DEF TypeOK, RunsTyped
  <1>1. CASE UNCHANGED <<run, created>>
    BY <1>0, <1>1 DEF RunsTyped, Runs, IsHandoff
  <1>2. ASSUME NEW b \in Behavior, NEW e \in 0 .. created, NEW refs, NewRun(b, e, refs),
               b = "design.produce" /\ e = 0 => refs = {"requirements"}
        PROVE  RunsTyped'
    <2>1. /\ created' = created + 1 /\ created + 1 \in Run
          /\ run' = [r \in Run |-> run'[r]]
          /\ \A r \in Run : r # created + 1 => run'[r] = run[r]
          /\ run'[created + 1].parent = e
          /\ IsHandoff(run'[created + 1])
      BY <1>2, NewRunAdds
    <2>2. created \in Nat /\ Runs \subseteq Run
      BY RunsAreNumbered
    <2>3. Runs' = Runs \union {created + 1} /\ created' \in 0 .. MaxRun
      BY <2>1, <2>2, BoundAssumption DEF Runs, Run
    <2>4. \A r \in Run \ Runs' : run'[r] = NoRun
      BY <1>0, <2>1, <2>3 DEF RunsTyped
    <2>5. \A r \in Runs' : IsHandoff(run'[r]) /\ run'[r].parent \in 0 .. (r - 1)
      <3>1. \A r \in Runs : r # created + 1
        BY <2>2 DEF Runs
      <3>2. \A r \in Runs : IsHandoff(run'[r]) /\ run'[r].parent \in 0 .. (r - 1)
        BY <1>0, <2>1, <2>2, <3>1 DEF RunsTyped
      <3>3. QED
        BY <2>1, <2>2, <2>3, <3>2
    <2>6. (\A r \in Runs : IsHandoff(run[r]))' <=> \A r \in Runs' : IsHandoff(run'[r])
      BY DEF IsHandoff
    <2>7. QED
      BY <2>1, <2>3, <2>4, <2>5, <2>6 DEF RunsTyped
  <1>3. ASSUME NEW b \in Behavior, CreateExecution(b) PROVE RunsTyped'
    <2>1. 0 \in 0 .. created
      BY RunsAreNumbered
    <2>2. QED
      BY <1>2, <1>3, <2>1, ExecutionIsNew
  <1>4. ASSUME NEW e \in Run, CreateCheck(e) PROVE RunsTyped'
    <2>1. e \in 0 .. created /\ e # 0
      BY <1>4, CheckIsNew, RunsAreNumbered DEF Runs
    <2>2. QED
      BY <1>2, <1>4, <2>1, CheckIsNew
  <1>5. ASSUME NEW r \in Run, NEW pass \in BOOLEAN, NEW a \in Agent \union {NoAgent},
               Deliver(r, pass, a)
        PROVE  RunsTyped'
    <2> DEFINE res == [artifact |-> content[ArtifactOf[run[r].behavior]], pass |-> pass]
    <2>1. UNCHANGED created /\ Runs' = Runs
      BY <1>5 DEF Deliver, Runs
    <2>2. /\ r \in Runs
          /\ run' = [q \in Run |-> run'[q]]
          /\ \A q \in Run : q # r => run'[q] = run[q]
          /\ run'[r] = [behavior |-> run[r].behavior, parent |-> run[r].parent,
                        input |-> run[r].input, result |-> res, agent |-> a]
          /\ run'[r].behavior = run[r].behavior /\ run'[r].parent = run[r].parent
          /\ run'[r].input = run[r].input /\ run'[r].agent = a /\ run'[r].result = res
      BY <1>5, DeliverySets
    <2>3. IsHandoff(run[r]) /\ run[r].parent \in 0 .. (r - 1)
      BY <1>0, <2>2 DEF RunsTyped
    <2>4. res \in Result
      <3>1. ArtifactOf[run[r].behavior] \in Document
        BY <2>3 DEF IsHandoff, ArtifactOf, Behavior, Document
      <3>2. QED
        BY <3>1 DEF Result, TypeOK
    <2> HIDE DEF res
    <2>5. IsHandoff(run'[r])
      BY <2>2, <2>3, <2>4 DEF IsHandoff
    <2>6. \A q \in Runs : IsHandoff(run'[q]) /\ run'[q].parent \in 0 .. (q - 1)
      BY <1>0, <2>2, <2>3, <2>5, RunsAreNumbered DEF RunsTyped
    <2>7. (\A q \in Runs : IsHandoff(run[q]))' <=> \A q \in Runs' : IsHandoff(run'[q])
      BY DEF IsHandoff
    <2>8. QED
      BY <1>0, <2>1, <2>2, <2>6, <2>7 DEF RunsTyped
  <1>6. QED
    BY <1>1, <1>3, <1>4, <1>5
       DEF Next, vars, Edit, SealResolve, SealWrite, Publish, Verify, Commit, Abort

\* Every step keeps the types.
LEMMA TypeStep ==
    ASSUME TypeOK, [Next]_vars
    PROVE  TypeOK'
  <1>0. RunsTyped'
    BY RunsTypedStep
  <1> DEFINE Rest == /\ stage' \in {"design", "plan", "implement"}
                     /\ content' \in [Document -> Version]
                     /\ architecture' \in ArchitectureProof \union {NoProof}
                     /\ designProof' \in DesignProof \union {NoProof}
                     /\ planProof' \in Chain \union {NoProof}
                     /\ sealing' \in [Sealer -> ArchitectureProof \union {NoProof}]
                     /\ advance' \in {"idle", "published", "verified"}
                     /\ meanwhile' \subseteq Document \union {"handoff"}
                     /\ edits' \in 0 .. MaxEdit
  <1> USE DEF TypeOK
  <1>1. ASSUME NEW d \in Edited, NEW v \in Version, Edit(d, v) PROVE Rest
    BY <1>1, BoundAssumption, EditedAssumption DEF Edit, Meanwhile, proofs, Document
  <1>2. ASSUME NEW b \in Behavior, CreateExecution(b) PROVE Rest
    BY <1>2 DEF CreateExecution, NewRun, Meanwhile, proofs
  <1>3. ASSUME NEW e \in Run, CreateCheck(e) PROVE Rest
    BY <1>3 DEF CreateCheck, NewRun, Meanwhile, proofs
  <1>4. ASSUME NEW r \in Run, NEW pass \in BOOLEAN, NEW a, Deliver(r, pass, a) PROVE Rest
    BY <1>4 DEF Deliver, proofs
  <1>5. ASSUME NEW s \in Sealer, SealResolve(s) PROVE Rest
    BY <1>5, CandidateIsEarned DEF SealResolve, proofs
  <1>6. ASSUME NEW s \in Sealer, SealWrite(s) PROVE Rest
    BY <1>6 DEF SealWrite
  <1>7. ASSUME Publish PROVE Rest
    <2>1. CASE HasDesignCandidate /\ UNCHANGED planProof
               /\ (IF designProof = NoProof THEN 0 ELSE designProof.stamp) < MaxPublish
               /\ designProof' = [chains |-> DesignCandidate,
                     stamp |-> (IF designProof = NoProof THEN 0 ELSE designProof.stamp) + 1]
      <3> DEFINE n == IF designProof = NoProof THEN 0 ELSE designProof.stamp
      <3>1. n \in 0 .. MaxPublish
        BY BoundAssumption DEF DesignProof
      <3>2. n + 1 \in 1 .. MaxPublish
        BY <2>1, <3>1, BoundAssumption
      <3>3. DesignCandidate \in Chain \X Chain
        BY <2>1, DesignIsEarned
      <3>4. designProof' \in DesignProof
        BY <2>1, <3>2, <3>3 DEF DesignProof
      <3>5. QED
        BY <1>7, <2>1, <3>4 DEF Publish
    <2>2. CASE HasPlanCandidate /\ planProof' = PlanCandidate /\ UNCHANGED designProof
      <3>1. planProof' \in Chain
        BY <2>2, PlanIsEarned
      <3>2. QED
        BY <1>7, <2>2, <3>1 DEF Publish
    <2>3. QED
      BY <1>7, <2>1, <2>2 DEF Publish, PublishDesign
  <1>8. ASSUME Verify PROVE Rest
    BY <1>8 DEF Verify, proofs
  <1>9. ASSUME Commit PROVE Rest
    BY <1>9 DEF Commit, proofs
  <1>10. ASSUME Abort PROVE Rest
    BY <1>10 DEF Abort, proofs
  <1>11. ASSUME UNCHANGED vars PROVE Rest
    BY <1>11 DEF vars, proofs
  <1>12. Rest
    BY <1>1, <1>2, <1>3, <1>4, <1>5, <1>6, <1>7, <1>8, <1>9, <1>10, <1>11 DEF Next
  <1>13. QED
    BY <1>0, <1>12 DEF RunsTyped

\* Reviewed in the next state, of a chain of either state.
ReviewedNext(chain, b) ==
    /\ chain.execution \in Runs' /\ run'[chain.execution].parent = 0
    /\ run'[chain.execution].behavior = b
    /\ chain.review \in Runs' /\ run'[chain.review].parent = chain.execution
    /\ \A r \in {chain.execution, chain.review} :
          /\ run'[r].result # NoResult
          /\ run'[r].result.pass
          /\ run'[r].result.artifact = chain.artifact
          /\ run'[r].agent # NoAgent
    /\ run'[chain.execution].agent # run'[chain.review].agent

\* Work that was done and reviewed stays done and reviewed.
LEMMA ReviewedKept ==
    TypeOK /\ [Next]_vars => \A chain, b : Reviewed(chain, b) => ReviewedNext(chain, b)
  <1> SUFFICES ASSUME TypeOK, [Next]_vars, NEW chain, NEW b, Reviewed(chain, b)
               PROVE  ReviewedNext(chain, b)
    OBVIOUS
  <1>1. /\ chain.execution \in Runs /\ chain.review \in Runs
        /\ run[chain.execution].parent = 0 /\ run[chain.execution].behavior = b
        /\ run[chain.review].parent = chain.execution
        /\ run[chain.execution].result # NoResult /\ run[chain.review].result # NoResult
    BY DEF Reviewed, Executions, Checks
  <1>2. /\ chain.execution \in Runs' /\ chain.review \in Runs'
        /\ run'[chain.execution].parent = 0 /\ run'[chain.execution].behavior = b
        /\ run'[chain.review].parent = chain.execution
        /\ \A r \in {chain.execution, chain.review} :
              run'[r].result = run[r].result /\ run'[r].agent = run[r].agent
    BY <1>1, RunsKept
  <1>3. QED
    BY <1>1, <1>2 DEF Reviewed, ReviewedNext

\* A result that was not there came with a delivery.
LEMMA ResultsAreDelivered ==
    ASSUME TypeOK, [Next]_vars, NEW r \in Runs', run'[r].result # NoResult
    PROVE  \/ r \in Runs /\ run[r].result # NoResult
           \/ \E pass \in BOOLEAN, a \in Agent \union {NoAgent} : r \in Run /\ Deliver(r, pass, a)
  <1> DEFINE Goal == \/ r \in Runs /\ run[r].result # NoResult
                     \/ \E pass \in BOOLEAN, a \in Agent \union {NoAgent} :
                            r \in Run /\ Deliver(r, pass, a)
  <1>1. CASE UNCHANGED <<run, created>>
    BY <1>1 DEF Runs
  <1>2. ASSUME NEW b \in Behavior, NEW e \in 0 .. created, NEW refs, NewRun(b, e, refs),
               b = "design.produce" /\ e = 0 => refs = {"requirements"}
        PROVE  Goal
    <2>1. /\ created \in Nat /\ created' = created + 1 /\ Runs \subseteq Run
          /\ run'[created + 1].result = NoResult
          /\ \A q \in Run : q # created + 1 => run'[q] = run[q]
      BY <1>2, NewRunAdds, RunsAreNumbered
    <2>2. r \in Runs
      BY <2>1 DEF Runs
    <2>3. QED
      BY <2>1, <2>2
  <1>3. ASSUME NEW b \in Behavior, CreateExecution(b) PROVE Goal
    <2>1. 0 \in 0 .. created
      BY RunsAreNumbered
    <2>2. QED
      BY <1>2, <1>3, <2>1, ExecutionIsNew
  <1>4. ASSUME NEW e \in Run, CreateCheck(e) PROVE Goal
    <2>1. e \in 0 .. created /\ e # 0
      BY <1>4, CheckIsNew, RunsAreNumbered DEF Runs
    <2>2. QED
      BY <1>2, <1>4, <2>1, CheckIsNew
  <1>5. ASSUME NEW q \in Run, NEW pass \in BOOLEAN, NEW a \in Agent \union {NoAgent},
               Deliver(q, pass, a)
        PROVE  Goal
    <2>1. Runs' = Runs /\ \A p \in Run : p # q => run'[p] = run[p]
      BY <1>5, DeliverySets DEF Deliver, Runs
    <2>2. QED
      BY <1>5, <2>1, RunsAreNumbered
  <1>6. QED
    BY <1>1, <1>3, <1>4, <1>5
       DEF Next, vars, Edit, SealResolve, SealWrite, Publish, Verify, Commit, Abort

LEMMA ParentsAreEarlier ==
    ASSUME TypeOK, NEW r \in Runs, run[r].parent # 0
    PROVE  run[r].parent \in Runs /\ run[r].parent # r
  <1>1. run[r].parent \in 0 .. (r - 1) /\ created \in Nat /\ r \in 1 .. created
    BY RunsAreNumbered DEF TypeOK, Runs
  <1>2. QED
    BY <1>1 DEF Runs

\* The parent of a result that is delivered has its own, about the same document.
LEMMA MatchStep ==
    TypeOK /\ ReviewMatchesResult /\ ChecksFollow /\ [Next]_vars => ReviewMatchesResult'
  <1> SUFFICES ASSUME TypeOK, ReviewMatchesResult, ChecksFollow, [Next]_vars,
                      NEW r \in Runs', run'[r].parent # 0, run'[r].result # NoResult
               PROVE  /\ run'[run'[r].parent].result # NoResult
                      /\ run'[r].result.artifact = run'[run'[r].parent].result.artifact
    BY DEF ReviewMatchesResult
  <1>1. CASE r \in Runs /\ run[r].result # NoResult
    <2>1. /\ run'[r].parent = run[r].parent /\ run'[r].result = run[r].result
          /\ run[run[r].parent].result # NoResult
          /\ run[r].result.artifact = run[run[r].parent].result.artifact
      BY <1>1, RunsKept DEF ReviewMatchesResult
    <2>2. run[r].parent \in Runs
      BY <1>1, <2>1, ParentsAreEarlier
    <2>3. QED
      BY <2>1, <2>2, RunsKept
  <1>2. ASSUME NEW pass \in BOOLEAN, NEW a \in Agent \union {NoAgent}, r \in Run,
               Deliver(r, pass, a)
        PROVE  /\ run'[run'[r].parent].result # NoResult
               /\ run'[r].result.artifact = run'[run'[r].parent].result.artifact
    <2> DEFINE p == run[r].parent
    <2>1. /\ r \in Runs /\ run'[r].parent = p
          /\ run'[r].result = [artifact |-> content[ArtifactOf[run[r].behavior]], pass |-> pass]
          /\ \A q \in Run : q # r => run'[q] = run[q]
      BY <1>2, DeliverySets, ZenonT(60)
    <2>2. p # 0 /\ p \in Runs /\ p # r
      BY <2>1, ParentsAreEarlier, RunsKept
    <2>3. run[p].result # NoResult /\ run[p].result.artifact = content[ArtifactOf[run[p].behavior]]
      BY <1>2, <2>2 DEF Deliver, ParentDelivered, ResultValid, ArtifactBound
    <2>4. run[r].behavior = run[p].behavior
      BY <2>1, <2>2 DEF ChecksFollow
    <2>5. run'[p] = run[p]
      BY <2>1, <2>2, RunsAreNumbered
    <2>6. run'[r].result.artifact = content[ArtifactOf[run[p].behavior]]
      BY <2>1, <2>4
    <2>7. QED
      BY <2>1, <2>3, <2>5, <2>6
  <1>3. QED
    BY <1>1, <1>2, ResultsAreDelivered

\* A check is created for the behavior of its parent.
LEMMA FollowStep == TypeOK /\ ChecksFollow /\ [Next]_vars => ChecksFollow'
  <1> SUFFICES ASSUME TypeOK, ChecksFollow, [Next]_vars PROVE ChecksFollow'
    OBVIOUS
  <1> DEFINE Follows(r) ==
        run'[r].parent # 0 => run'[r].behavior = run'[run'[r].parent].behavior
  <1>1. ASSUME NEW r \in Runs PROVE Follows(r)
    <2>1. CASE run[r].parent = 0
      BY <2>1, RunsKept
    <2>2. CASE run[r].parent # 0
      BY <2>2, RunsKept, ParentsAreEarlier DEF ChecksFollow
    <2>3. QED
      BY <2>1, <2>2
  <1>2. ASSUME NEW b \in Behavior, NEW e \in 0 .. created, NEW refs, NewRun(b, e, refs),
               b = "design.produce" /\ e = 0 => refs = {"requirements"},
               e # 0 => e \in Runs /\ b = run[e].behavior
        PROVE  ChecksFollow'
    <2>1. /\ created \in Nat /\ created' = created + 1 /\ Runs \subseteq Run
          /\ run'[created + 1].behavior = b /\ run'[created + 1].parent = e
      BY <1>2, NewRunAdds, RunsAreNumbered
    <2>2. Runs' = Runs \union {created + 1}
      BY <2>1 DEF Runs
    <2>3. Follows(created + 1)
      BY <1>2, <2>1, RunsKept
    <2>4. QED
      BY <1>1, <2>2, <2>3 DEF ChecksFollow
  <1>3. ASSUME NEW b \in Behavior, CreateExecution(b) PROVE ChecksFollow'
    <2>1. 0 \in 0 .. created
      BY RunsAreNumbered
    <2>2. QED
      BY <1>2, <1>3, <2>1, ExecutionIsNew
  <1>4. ASSUME NEW e \in Run, CreateCheck(e) PROVE ChecksFollow'
    <2>1. e \in 0 .. created /\ e # 0
      BY <1>4, CheckIsNew, RunsAreNumbered DEF Runs
    <2>2. QED
      BY <1>2, <1>4, <2>1, CheckIsNew
  <1>5. CASE UNCHANGED created
    BY <1>1, <1>5 DEF ChecksFollow, Runs
  <1>6. QED
    BY <1>3, <1>4, <1>5
       DEF Next, vars, Edit, Deliver, SealResolve, SealWrite, Publish, Verify, Commit, Abort

\* The proofs change with the steps that write them only.
LEMMA ProofsChange ==
    ASSUME TypeOK, PlanComesLater, [Next]_vars
    PROVE  /\ \/ UNCHANGED architecture
              \/ \E s \in Sealer : /\ sealing[s] # NoProof /\ architecture = NoProof
                                   /\ architecture' = sealing[s]
           /\ \/ UNCHANGED designProof
              \/ /\ HasDesignCandidate /\ planProof = NoProof
                 /\ designProof' # NoProof /\ designProof'.chains = DesignCandidate
                 /\ UNCHANGED <<architecture, run, planProof>>
           /\ \/ UNCHANGED planProof
              \/ /\ HasPlanCandidate /\ planProof' = PlanCandidate
                 /\ UNCHANGED <<architecture, run, designProof>>
  <1>1. CASE Publish
    <2>1. CASE UNCHANGED planProof /\ stage = "design" /\ HasDesignCandidate
               /\ (IF designProof = NoProof THEN 0 ELSE designProof.stamp) < MaxPublish
               /\ designProof' =
                     [chains |-> DesignCandidate,
                      stamp |-> (IF designProof = NoProof THEN 0 ELSE designProof.stamp) + 1]
      <3>1. designProof'.chains = DesignCandidate
        BY <2>1
      <3>2. designProof' # NoProof
        <4>1. DesignCandidate \in Chain \X Chain
          BY <2>1, DesignIsEarned
        <4>2. (IF designProof = NoProof THEN 0 ELSE designProof.stamp) + 1 \in 1 .. MaxPublish
          <5>1. (IF designProof = NoProof THEN 0 ELSE designProof.stamp) \in 0 .. MaxPublish
            BY BoundAssumption DEF TypeOK, DesignProof
          <5>2. (IF designProof = NoProof THEN 0 ELSE designProof.stamp) < MaxPublish
            BY <2>1
          <5>3. QED
            BY <5>1, <5>2, BoundAssumption
        <4>3. QED
          BY <2>1, <4>1, <4>2, NoneAssumption DEF DesignProof
      <3>3. QED
        BY <1>1, <2>1, <3>1, <3>2 DEF Publish, PlanComesLater
    <2>2. CASE HasPlanCandidate /\ planProof' = PlanCandidate /\ UNCHANGED designProof
      BY <1>1, <2>2 DEF Publish
    <2>3. QED
      BY <1>1, <2>1, <2>2 DEF Publish, PublishDesign
  <1>2. ASSUME NEW s \in Sealer, SealWrite(s)
        PROVE  /\ \/ UNCHANGED architecture
                  \/ /\ sealing[s] # NoProof /\ architecture = NoProof
                     /\ architecture' = sealing[s]
               /\ UNCHANGED <<designProof, planProof>>
    BY <1>2 DEF SealWrite
  <1>3. CASE UNCHANGED proofs
    BY <1>3 DEF proofs
  <1>4. QED
    BY <1>1, <1>2, <1>3
       DEF Next, vars, Edit, CreateExecution, CreateCheck, NewRun, Deliver, SealResolve, Verify,
           Commit, Abort

\* A sealer resolves nothing that was not reviewed.
LEMMA SealingStep == TypeOK /\ SealingIsEarned /\ [Next]_vars => SealingIsEarned'
  <1> SUFFICES ASSUME TypeOK, SealingIsEarned, [Next]_vars, NEW s \in Sealer,
                      sealing'[s] # NoProof
               PROVE  ReviewedNext(sealing'[s].chain, "design.produce")
    BY DEF SealingIsEarned, Reviewed, Executions, Checks, ReviewedNext
  <1>1. CASE sealing'[s] = sealing[s]
    BY <1>1, ReviewedKept DEF SealingIsEarned
  <1>2. CASE HasChain("design.produce") /\ sealing'[s] = ArchitectureCandidate
    BY <1>2, CandidateIsEarned, ReviewedKept
  <1>3. sealing' = sealing \/ \E q \in Sealer : SealResolve(q) \/ SealWrite(q)
    BY DEF Next, vars, Edit, CreateExecution, CreateCheck, NewRun, Deliver, Publish, Verify,
           Commit, Abort
  <1>4. ASSUME NEW q \in Sealer, SealResolve(q) \/ SealWrite(q)
        PROVE  \/ sealing'[s] = sealing[s]
               \/ sealing'[s] = NoProof
               \/ HasChain("design.produce") /\ sealing'[s] = ArchitectureCandidate
    BY <1>4 DEF SealResolve, SealWrite, TypeOK
  <1>5. QED
    BY <1>1, <1>2, <1>3, <1>4

\* Publication is earned, and nothing published before is shaken by it.
LEMMA EarnedStep ==
    TypeOK /\ ProofsAreEarned /\ SealingIsEarned /\ PlanComesLater /\ [Next]_vars
        => ProofsAreEarned'
  <1> SUFFICES ASSUME TypeOK, ProofsAreEarned, SealingIsEarned, PlanComesLater, [Next]_vars
               PROVE  ProofsAreEarned'
    OBVIOUS
  <1>1. ASSUME architecture' # NoProof
        PROVE  ReviewedNext(architecture'.chain, "design.produce")
    BY <1>1, ProofsChange, ReviewedKept DEF ProofsAreEarned, SealingIsEarned
  <1>2. ASSUME designProof' # NoProof
        PROVE  /\ architecture' # NoProof
               /\ designProof'.chains[1] = architecture'.chain
               /\ ReviewedNext(designProof'.chains[2], "design.test-cases")
               /\ run'[designProof'.chains[2].execution].input["architecture"] = architecture'
    <2>1. CASE UNCHANGED designProof
      <3> DEFINE t == designProof.chains[2]
      <3>1. /\ architecture # NoProof /\ designProof.chains[1] = architecture.chain
            /\ Reviewed(t, "design.test-cases")
            /\ run[t.execution].input["architecture"] = architecture
        BY <1>2, <2>1 DEF ProofsAreEarned
      <3>2. t.execution \in Runs
        BY <3>1 DEF Reviewed, Executions
      <3>3. UNCHANGED architecture
        BY <3>1, ProofsChange
      <3>4. run'[t.execution].input = run[t.execution].input
        BY <3>2, RunsKept
      <3>5. ReviewedNext(t, "design.test-cases")
        BY <2>1, <3>1, ReviewedKept
      <3>6. QED
        BY <2>1, <3>1, <3>3, <3>4, <3>5
    <2>2. CASE /\ HasDesignCandidate /\ designProof'.chains = DesignCandidate
               /\ UNCHANGED <<architecture, run>>
      <3>1. /\ architecture # NoProof /\ DesignCandidate[1] = architecture.chain
            /\ Reviewed(DesignCandidate[2], "design.test-cases")
            /\ run[DesignCandidate[2].execution].input["architecture"] = architecture
        BY <2>2, DesignIsEarned
      <3>2. ReviewedNext(designProof'.chains[2], "design.test-cases")
        BY <2>2, <3>1, ReviewedKept
      <3>3. QED
        BY <2>2, <3>1, <3>2
    <2>3. QED
      BY <2>1, <2>2, ProofsChange
  <1>3. ASSUME planProof' # NoProof PROVE ReviewedNext(planProof', "plan.produce")
    <2>1. CASE UNCHANGED planProof
      BY <1>3, <2>1, ReviewedKept DEF ProofsAreEarned
    <2>2. CASE HasPlanCandidate /\ planProof' = PlanCandidate
      BY <2>2, PlanIsEarned, ReviewedKept
    <2>3. QED
      BY <2>1, <2>2, ProofsChange
  <1>4. QED
    BY <1>1, <1>2, <1>3
       DEF ProofsAreEarned, Reviewed, Executions, Checks, ReviewedNext

\* The design proof is not published anew once a plan rests on it.
LEMMA RestStep ==
    TypeOK /\ ProofsAreEarned /\ PlanRestsOnDesign /\ PlanComesLater /\ [Next]_vars
        => PlanRestsOnDesign'
  <1> SUFFICES ASSUME TypeOK, ProofsAreEarned, PlanRestsOnDesign, PlanComesLater, [Next]_vars,
                      planProof' # NoProof
               PROVE  run'[planProof'.execution].input["designProof"] = designProof'
    BY DEF PlanRestsOnDesign
  <1>1. CASE UNCHANGED planProof
    <2>1. /\ planProof.execution \in Runs
          /\ run[planProof.execution].input["designProof"] = designProof
      BY <1>1 DEF ProofsAreEarned, PlanRestsOnDesign, Reviewed, Executions
    <2>2. UNCHANGED designProof
      BY <1>1, ProofsChange
    <2>3. QED
      BY <1>1, <2>1, <2>2, RunsKept
  <1>2. CASE HasPlanCandidate /\ planProof' = PlanCandidate /\ UNCHANGED <<run, designProof>>
    BY <1>2, PlanIsEarned
  <1>3. QED
    BY <1>1, <1>2, ProofsChange

LEMMA LaterStep == PlanComesLater /\ [Next]_vars => PlanComesLater'
  <1> USE DEF PlanComesLater
  <1>1. QED
    BY DEF Next, vars, proofs, Edit, CreateExecution, CreateCheck, NewRun, Deliver, SealResolve,
           SealWrite, Publish, Verify, Commit, Abort

\* What passes the gate of its stage is of the documents that are there.
LEMMA GateIsCurrent ==
    ASSUME TypeOK, stage \in {"design", "plan"}, Gate(stage)
    PROVE  /\ designProof # NoProof
           /\ designProof.chains[1].artifact = content["design"]
           /\ designProof.chains[2].artifact = content["cases"]
           /\ stage = "plan" => planProof # NoProof /\ planProof.artifact = content["tasks"]
  <1>1. DesignGate
    BY PlanIsEarned DEF Gate, PlanGate
  <1>2. /\ ArtifactOf["design.produce"] = "design" /\ ArtifactOf["plan.produce"] = "tasks"
        /\ ArtifactOf["design.test-cases"] = "cases"
    BY DEF ArtifactOf, Behavior
  <1>3. QED
    BY <1>1, <1>2 DEF Gate, PlanGate, DesignGate, ProofHolds, ArtifactBound

\* Between verification and commit no transaction comes in, and who writes a document
\* without one leaves it among those written meanwhile.
LEMMA VerifiedStep ==
    TypeOK /\ PlanComesLater /\ VerifiedIsCurrent /\ [Next]_vars => VerifiedIsCurrent'
  <1> SUFFICES ASSUME TypeOK, PlanComesLater, VerifiedIsCurrent, [Next]_vars,
                      advance' = "verified"
               PROVE  VerifiedIsCurrent'
    BY DEF VerifiedIsCurrent
  <1>1. CASE Verify
    <2>1. Gate(stage) /\ stage \in {"design", "plan"}
      BY <1>1 DEF Verify, PlanComesLater, TypeOK
    <2>2. QED
      BY <1>1, <2>1, GateIsCurrent DEF Verify, proofs, VerifiedIsCurrent, Binds
  <1>2. CASE /\ advance = "verified" /\ UNCHANGED <<stage, designProof, planProof>>
             /\ meanwhile \subseteq meanwhile'
             /\ \A d \in Document : content'[d] = content[d] \/ d \in meanwhile'
    BY <1>2 DEF VerifiedIsCurrent, Binds, Document
  <1>3. ASSUME NEW d \in Edited, NEW v \in Version, Edit(d, v) PROVE VerifiedIsCurrent'
    BY <1>2, <1>3 DEF Edit, Meanwhile, proofs, TypeOK
  <1>4. ASSUME NEW b \in Behavior, NEW e, NEW refs, NewRun(b, e, refs)
        PROVE  VerifiedIsCurrent'
    BY <1>2, <1>4 DEF NewRun, Meanwhile, proofs
  <1>5. CASE UNCHANGED <<stage, content, designProof, planProof, advance, meanwhile>>
    BY <1>2, <1>5
  <1>6. ASSUME NEW e \in Run, CreateCheck(e) PROVE VerifiedIsCurrent'
    BY <1>4, <1>6, CheckIsNew
  <1>7. ASSUME NEW b \in Behavior, CreateExecution(b) PROVE VerifiedIsCurrent'
    BY <1>4, <1>7, ExecutionIsNew
  <1>8. QED
    BY <1>1, <1>3, <1>5, <1>6, <1>7
       DEF Next, vars, proofs, Deliver, SealResolve, SealWrite, Publish, Commit, Abort

LEMMA SInvariance == Spec => []SInv
  <1>1. SInv /\ [Next]_vars => SInv'
    BY TypeStep, MatchStep, FollowStep, SealingStep, EarnedStep, RestStep, LaterStep, VerifiedStep
       DEF SInv, ProofChainHolds
  <1>2. QED
    BY <1>1, SInit, PTL DEF Spec

\* Every published proof of design and plan stands for work that was done and
\* reviewed by another agent, on the proofs below it, whatever runs, edits,
\* republications and kills follow.
THEOREM ProofChain == Spec => []ProofChainHolds
  <1>1. SInv => ProofChainHolds
    BY DEF SInv
  <1>2. QED
    BY <1>1, SInvariance, PTL

\* A stage is left only with proofs of the documents as they are, those excepted that
\* somebody wrote after state advance had verified them, and a sealed architecture is
\* never replaced, by however many sealers.
THEOREM ProofsStayCurrent == Spec => ProofsAreCurrent
  <1> DEFINE Current == /\ Binds("design", designProof.chains[1].artifact)
                        /\ Binds("cases", designProof.chains[2].artifact)
                        /\ stage = "plan" => Binds("tasks", planProof.artifact)
  <1>1. SInv /\ [Next]_vars => [(stage' # stage) => Current]_vars
    <2> SUFFICES ASSUME SInv, [Next]_vars, stage' # stage PROVE Current
      OBVIOUS
    <2>1. Commit
      BY DEF Next, vars, Edit, CreateExecution, CreateCheck, NewRun, Deliver, SealResolve,
             SealWrite, Publish, Verify, Abort
    <2>2. QED
      BY <2>1 DEF Commit, SInv, VerifiedIsCurrent
  <1>2. SInv /\ [Next]_vars => [(architecture # NoProof) => (architecture' = architecture)]_vars
    BY ProofsChange DEF SInv, ProofChainHolds
  <1>3. QED
    BY <1>1, <1>2, SInvariance, PTL DEF Spec, ProofsAreCurrent, AdvanceIsCurrent, SealIsImmutable
=============================================================================
