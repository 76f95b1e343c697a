--------------------------- MODULE ClarifyCompletion ---------------------------
(***************************************************************************)
(* How Clarify is left: the final scope confirmation, the readiness of the *)
(* five artifacts (lib/clarify-readiness.mjs), the result the finalizer    *)
(* derives from it (skills/harness/scripts/finalize-clarify-result.mjs),   *)
(* its review, and state advance.  The questions themselves are            *)
(* ClarifyQuestions, research and classification ClarifyEvidence: here a   *)
(* question is asked and answered in two steps, and an assessment is the   *)
(* text and snapshot it was made from.                                     *)
(*                                                                         *)
(* requirements.md is what analyzeClarifyRequirements finds in it; its     *)
(* digest is the text.                                                     *)
(***************************************************************************)
EXTENDS DecisionLedger, FiniteSets

CONSTANTS Agent,      \* agents of the reviewers; the worker is main
          MaxLine,    \* bound: line locators a targetRef can carry
          MaxWrite,   \* bound: writes of requirements.md
          MaxRun,     \* bound: check handoffs
          None

VARIABLES
    stage,
    text,            \* requirements.md
    researched,      \* the research lanes are decided, fresh and disposed
    pending,         \* the pending-decisions file
    debt,            \* of debt-assessment.json: the texts it names as input
    contract,        \* project-contract-assessment.json is disposed
    classification,  \* the text and the snapshot classification.json is bound to
    execution,       \* the freshest execute handoff of main, and its result
    review,          \* the freshest check of it, and its result
    proof,           \* evidence/completion/clarify.json
    writes, runs

completionVars == <<stage, text, researched, pending, debt, contract, classification,
                    execution, review, proof, writes, runs>>
vars == <<ledgerVars, completionVars>>

Text == [topology : BOOLEAN, covered : BOOLEAN, open : BOOLEAN, approved : BOOLEAN]

-----------------------------------------------------------------------------
(* Readiness *)

\* analyzeClarifyRequirements: the topology and the scope lines, whether the
\* evidence covers every dimension of every component, and whether a
\* frontier of high risk is left.
Analysis(t) == [topology |-> t.topology, ambiguity |-> t.covered /\ ~ t.open,
                approved |-> t.approved, frontiers |-> t.open]

\* assertRequirements of the finalizer: the whole document, scope line included
WellFormed(t) == t.topology /\ t.covered /\ ~ t.open /\ t.approved

\* What readiness takes for the confirmation of the present text: the target is
\* the file and its digest.
ScopeTarget == <<"requirements.md", "sha256", text>>

ScopeFresh ==
    Cardinality({e \in {ledger[i] : i \in 1 .. snapshot} :
                    /\ e.type = "scope-confirmation" /\ e.target = ScopeTarget
                    /\ e.selected = "confirm" /\ e.input = text}) = 1

\* debtValidation: what the assessment names is fresh.
DebtValid == debt # None /\ debt \subseteq {text}

Classified == classification = [text |-> text, snapshot |-> snapshot]

\* The items of buildClarifyArtifactReadiness
Item == [research       |-> researched,
         topology       |-> Analysis(text).topology,
         ambiguity      |-> Analysis(text).ambiguity,
         question       |-> (pending # None => pending.status = "resolved"),
         decisions      |-> ReadableSnapshot,
         debt           |-> DebtValid,
         contract       |-> contract,
         requirements   |-> Analysis(text).approved /\ ScopeFresh,
         classification |-> Classified]

ArtifactsReady == \A i \in DOMAIN Item : Item[i]

\* clarifyStageResultProjection: the seven assertions of a result
Projection ==
    LET i == Item
    IN  [researchComplete |-> i.research, decisionsDurable |-> i.decisions,
         debtDisposed     |-> i.debt,     contractDisposed |-> i.contract,
         requirementsReady |-> i.topology /\ i.ambiguity /\ i.question /\ i.requirements,
         classificationReady |-> i.classification, scopeConfirmed |-> i.requirements]

\* The five artifacts of Clarify and their digests
Artifacts == [text |-> text, snapshot |-> snapshot, debt |-> debt, contract |-> contract,
              classification |-> classification]

\* validateClarifyStageResult: exactly the five artifacts, as they are now and as
\* they were frozen.
ResultBinds(r) == r.artifacts = Artifacts /\ r.input = r.artifacts

SelfChecked ==
    /\ execution # None /\ execution.result # None
    /\ execution.input = Artifacts
    /\ ResultBinds(execution.result)
    /\ ArtifactsReady
    /\ execution.result.assertions = Projection

\* Clarify wants no reviewer at all who is the producer.
ReviewPassed ==
    /\ SelfChecked
    /\ review # None /\ review.result # None
    /\ review.result.artifacts = execution.result.artifacts
    /\ review.result.pass
    /\ review.agent \notin {None, "main"}

Candidate == [artifacts |-> execution.result.artifacts,
              reviewed  |-> review.result.artifacts,
              snapshot  |-> execution.result.artifacts.snapshot,
              assertions |-> execution.result.assertions,
              agents    |-> <<"main", review.agent>>]

\* validateClarifyCompletionProof
ProofHolds(p) ==
    /\ p.artifacts = Artifacts
    /\ p.reviewed = p.artifacts
    /\ p.snapshot = snapshot
    /\ \A a \in DOMAIN p.assertions : p.assertions[a]

\* buildClarifyReadiness with selectClarifyControllerRoute
ControllerRoute ==
    LET i == Item
    IN  IF ~ i.research THEN "research"
        ELSE IF ~ (i.topology /\ i.ambiguity /\ i.question) THEN "decisions"
        ELSE IF ArtifactsReady /\ ReviewPassed THEN "transition"
        ELSE "completion"

-----------------------------------------------------------------------------
Init ==
    /\ LedgerInit
    /\ stage = "clarify"
    /\ text = [topology |-> FALSE, covered |-> FALSE, open |-> FALSE, approved |-> FALSE]
    /\ researched = FALSE
    /\ pending = None
    /\ debt = None /\ contract = FALSE /\ classification = None
    /\ execution = None /\ review = None /\ proof = None
    /\ writes = 0 /\ runs = 0

InClarify == stage = "clarify"

Research ==
    /\ InClarify /\ ~ researched
    /\ researched' = TRUE
    /\ UNCHANGED <<ledgerVars, stage, text, pending, debt, contract, classification,
                   execution, review, proof, writes, runs>>

\* Main writes requirements.md.
Write(t) ==
    /\ InClarify /\ writes < MaxWrite /\ t # text
    /\ text' = t /\ writes' = writes + 1
    /\ UNCHANGED <<ledgerVars, stage, researched, pending, debt, contract, classification,
                   execution, review, proof, runs>>

\* prepare-question of a scope confirmation: the reference must be that of the
\* file itself, with a line at most, and the text complete and not yet approved.
\* The candidate binds the digest of the text as its input.
AskScope(line) ==
    LET a == Analysis(text)
        target == <<"requirements.md", line>>
    IN  /\ InClarify /\ researched
        /\ pending # None => pending.status = "resolved"
        /\ a.topology /\ a.ambiguity /\ ~ a.approved /\ ~ a.frontiers
        /\ \A e \in Events : e.type = "scope-confirmation" => e.target # target
        /\ pending' = [status |-> "pending", target |-> target, input |-> text,
                       id |-> <<"D", Len(ledger) + 1>>]
        /\ UNCHANGED <<ledgerVars, stage, text, researched, debt, contract, classification,
                       execution, review, proof, writes, runs>>

\* The user answers; the event takes over type, target and inputs of the question.
AnswerScope(o) ==
    /\ InClarify /\ pending # None
    /\ pending.status = "pending" /\ pending.input = text
    /\ Append1([id |-> pending.id, type |-> "scope-confirmation", target |-> pending.target,
                input |-> pending.input, selected |-> o])
    /\ pending' = [pending EXCEPT !.status = "resolved"]
    /\ UNCHANGED <<stage, text, researched, debt, contract, classification,
                   execution, review, proof, writes, runs>>

\* seal-decisions of all there is
Seal ==
    /\ InClarify
    /\ SealBegin(Len(ledger)) \/ SealEnd
    /\ UNCHANGED completionVars

\* The two assessments, of debt in the text or only in other files, and the
\* classification of the present text, which is made once (ClarifyEvidence has the
\* steps of it)
Assess ==
    /\ InClarify /\ researched /\ sealing = 0 /\ ReadableSnapshot
    /\ classification = None
    /\ debt' \in {{}, {text}} /\ contract' = TRUE
    /\ classification' = [text |-> text, snapshot |-> snapshot]
    /\ UNCHANGED <<ledgerVars, stage, text, researched, pending, execution, review, proof,
                   writes, runs>>

\* handoff create clarify.confirmed for main: freezes the five artifacts.
CreateExecution ==
    /\ InClarify
    /\ ReadableSnapshot /\ debt # None /\ contract /\ classification # None
    /\ execution # None => execution.input # Artifacts
    /\ execution' = [input |-> Artifacts, result |-> None]
    /\ review' = None
    /\ UNCHANGED <<ledgerVars, stage, text, researched, pending, debt, contract,
                   classification, proof, writes, runs>>

\* The finalizer
Finalize ==
    /\ InClarify /\ execution # None /\ execution.result = None
    /\ execution.input = Artifacts
    /\ WellFormed(text)
    /\ ArtifactsReady
    /\ execution' = [execution EXCEPT !.result =
                        [artifacts |-> Artifacts, input |-> execution.input,
                         assertions |-> Projection]]
    /\ UNCHANGED <<ledgerVars, stage, text, researched, pending, debt, contract,
                   classification, review, proof, writes, runs>>

CreateCheck ==
    /\ InClarify /\ execution # None /\ execution.result # None
    /\ runs < MaxRun
    /\ review # None => review.result # None
    /\ review # None => ~ review.result.pass
    /\ review' = [result |-> None, agent |-> None]
    /\ runs' = runs + 1
    /\ UNCHANGED <<ledgerVars, stage, text, researched, pending, debt, contract,
                   classification, execution, proof, writes>>

Review(pass, a) ==
    /\ InClarify /\ review # None /\ review.result = None
    /\ ResultBinds(execution.result)
    /\ review' = [result |-> [artifacts |-> execution.result.artifacts, pass |-> pass],
                  agent |-> a]
    /\ UNCHANGED <<ledgerVars, stage, text, researched, pending, debt, contract,
                   classification, execution, proof, writes, runs>>

\* state advance, which holds the change transaction from the publication of the
\* proof to the commit (StageEvidence has the steps of it)
Advance ==
    /\ InClarify /\ ControllerRoute = "transition"
    /\ ProofHolds(Candidate)
    /\ proof' = Candidate
    /\ stage' = "design"
    /\ UNCHANGED <<ledgerVars, text, researched, pending, debt, contract, classification,
                   execution, review, writes, runs>>

Next ==
    \/ Research \/ Seal \/ Assess \/ CreateExecution \/ Finalize \/ CreateCheck \/ Advance
    \/ \E t \in Text : Write(t)
    \/ \E line \in 0 .. MaxLine : AskScope(line)
    \/ \E o \in {"confirm", "revise"} : AnswerScope(o)
    \/ \E a \in Agent : Review(TRUE, a) \/ Review(FALSE, a)

\* Main does the next step it is told as long as there is one, and reviewers
\* deliver.  A passing review is not promised and not needed for the property.
Fairness ==
    /\ WF_vars(Research) /\ WF_vars(Seal) /\ WF_vars(Assess)
    /\ WF_vars(CreateExecution) /\ WF_vars(Finalize) /\ WF_vars(CreateCheck)
    /\ WF_vars(Advance)

Spec == Init /\ [][Next]_vars /\ Fairness

-----------------------------------------------------------------------------
(* Properties *)

\* The user confirmed the scope of a complete text, main then recorded exactly
\* that in it, and all of it is sealed, assessed and classified.
ScopeSettled ==
    /\ InClarify /\ text.approved /\ Classified /\ DebtValid /\ contract
    /\ \E i \in 1 .. snapshot : /\ ledger[i].type = "scope-confirmation"
                                /\ ledger[i].selected = "confirm"
                                /\ text = [ledger[i].input EXCEPT !.approved = TRUE]

\* skills/harness/references/clarify-completion.md:45 to :61: after the final scope
\* confirmation main seals, classifies, creates the execute handoff and runs the
\* finalizer, which delivers the result the reviewer is given.
ConfirmedScopeIsFinalized ==
    ScopeSettled ~> (~ ScopeSettled \/ (execution # None /\ execution.result # None))
=============================================================================
