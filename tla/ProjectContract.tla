---------------------------- MODULE ProjectContract ----------------------------
(***************************************************************************)
(* Proposals to change a project instruction file (core/project-contract   *)
(* .mjs) and the assessment they belong to (core/clarify-assessments.mjs). *)
(* A proposal is immutable, approved by one decision of the user that      *)
(* binds its digest, and applied by writing three files one after the      *)
(* other: the instruction file, a receipt and the assessment.  Applying    *)
(* holds locks on all three, but the editor of the project does not know   *)
(* the lock of the instruction file.                                       *)
(*                                                                         *)
(* The content of the instruction file is 0, the number of an edit, or a   *)
(* proposal for its resultContent; a file is its own digest.               *)
(***************************************************************************)
EXTENDS DecisionLedger, FiniteSets

CONSTANTS Proposal,    \* proposal ids
          Gap,         \* sections an assessment can find missing
          Resolves,    \* [Proposal -> non-empty set of gaps]
          MaxTouch,    \* bound: edits of the instruction file by others
          MaxEvents,   \* bound: events in the ledger
          MaxDeaths,   \* bound: commands that are killed
          Nothing

ASSUME ResolvesAssumption == Resolves \in [Proposal -> (SUBSET Gap) \ {{}}]

\* The content of the file tells what wrote it.
ASSUME ContentAssumption == Proposal \intersect Nat = {}

ASSUME BoundsAssumption == {MaxTouch, MaxEvents, MaxDeaths} \subseteq Nat

VARIABLES
    instruction, \* content of the instruction file
    proposed,    \* per proposal the immutable file, which binds target and assessment
    receipt,     \* per proposal the immutable application receipt: its afterDigest
    assessment,  \* project-contract-assessment.json
    applying,    \* the proposal a process is applying, how far it is, what it read
    touches,     \* how often others edited the instruction file
    deaths       \* how often a command was killed

contractVars == <<instruction, proposed, receipt, assessment, applying, touches, deaths>>

Content == 0 .. MaxTouch \union Proposal

Assessment == [gaps : SUBSET Gap, file : Content, by : Proposal \union {Nothing},
               status : {"use-existing", "proposal-required"}, decision : BOOLEAN]

\* An assessment written by hand names its decision event before the event exists.
HandWritten(gaps) ==
    [gaps |-> gaps, file |-> instruction, by |-> Nothing,
     status |-> IF gaps = {} THEN "use-existing" ELSE "proposal-required",
     decision |-> gaps # {}]

Disposition(a) ==
    [id |-> <<"contract">>, type |-> "project-contract-disposition", target |-> <<"contract">>,
     selected |-> a.status, input |-> a]

Approval(p, selected) ==
    [id |-> <<"approval", p, selected>>, type |-> "project-contract-proposal-approval",
     target |-> <<"proposal", p>>, selected |-> selected, input |-> proposed[p]]

-----------------------------------------------------------------------------
\* validateProjectContractAssessment: the instruction file is as it was assessed,
\* and the decision the assessment names was made about this very file.
Valid(a) ==
    /\ a.file = instruction
    /\ a.by # Nothing => receipt[a.by] # Nothing
    /\ a.decision => Disposition(assessment) \in Events

AssessmentValid == assessment # Nothing /\ Valid(assessment)

Required == assessment # Nothing /\ assessment.status = "proposal-required"

\* operationProblems and readProjectContractProposal: the target already has the
\* result of the proposal, after a crash or by a coincidence.
Matches(p) == instruction = p

\* validateProjectContractProposal for a proposal that is not applied yet
ProposalValid(p) ==
    /\ AssessmentValid /\ Required
    /\ Resolves[p] \subseteq assessment.gaps
    /\ proposed[p].assessment = assessment
    /\ proposed[p].target = instruction

\* Mutant: any answer of the user to the proposal counts.
ApprovedAnyhow(p) == \E e \in Events : e.target = <<"proposal", p>>

\* approvalFor
Approved(p) == proposed[p] # Nothing /\ Approval(p, "approve") \in Events

-----------------------------------------------------------------------------
ContractInit ==
    /\ instruction = 0
    /\ proposed = [p \in Proposal |-> Nothing]
    /\ receipt = [p \in Proposal |-> Nothing]
    /\ assessment = Nothing
    /\ applying = Nothing
    /\ touches = 0
    /\ deaths = 0

\* Someone edits the instruction file.
Touch ==
    /\ touches < MaxTouch
    /\ instruction' = touches + 1
    /\ touches' = touches + 1
    /\ UNCHANGED <<ledgerVars, proposed, receipt, assessment, applying, deaths>>

\* The assessor replaces an assessment that no longer holds.
Assess(gaps) ==
    /\ applying = Nothing
    /\ ~ AssessmentValid
    /\ assessment' = HandWritten(gaps)
    /\ UNCHANGED <<ledgerVars, instruction, proposed, receipt, applying, touches, deaths>>

\* The user disposes of it, through a question that binds the assessment.
Dispose ==
    /\ assessment # Nothing /\ assessment.decision /\ Len(ledger) < MaxEvents
    /\ Append1(Disposition(assessment))
    /\ UNCHANGED contractVars

\* persistProjectContractProposal
Propose(p) ==
    /\ applying = Nothing
    /\ proposed[p] = Nothing
    /\ AssessmentValid /\ Required
    /\ Resolves[p] \subseteq assessment.gaps
    /\ proposed' = [proposed EXCEPT ![p] = [target |-> instruction, assessment |-> assessment]]
    /\ UNCHANGED <<ledgerVars, instruction, receipt, assessment, applying, touches, deaths>>

Answer(p, selected) ==
    /\ proposed[p] # Nothing /\ Len(ledger) < MaxEvents
    /\ Append1(Approval(p, selected))
    /\ UNCHANGED contractVars

\* Mutant: a proposal is applied although the file was edited since.
ApplyCheckLax(p) ==
    /\ applying = Nothing
    /\ Approved(p) /\ receipt[p] = Nothing
    /\ Required
    /\ applying' = [proposal |-> p, step |-> "checked", read |-> instruction]
    /\ UNCHANGED <<ledgerVars, instruction, proposed, receipt, assessment, touches, deaths>>

\* Mutant: an application that died after its write is not recognized.
ApplyCheckOnce(p) ==
    /\ applying = Nothing
    /\ Approved(p) /\ receipt[p] = Nothing
    /\ Required
    /\ ProposalValid(p)
    /\ applying' = [proposal |-> p, step |-> "checked", read |-> instruction]
    /\ UNCHANGED <<ledgerVars, instruction, proposed, receipt, assessment, touches, deaths>>

\* applyProjectContractProposal: the proposal is still valid, or the file was
\* written by an application that died; then the assessment is taken as it is on
\* file, valid or not.
ApplyCheck(p) ==
    /\ applying = Nothing
    /\ Approved(p)
    /\ receipt[p] # Nothing => receipt[p] = p /\ Matches(p)
    /\ Required
    /\ Matches(p) \/ ProposalValid(p)
    /\ applying' = [proposal |-> p, step |-> "checked", read |-> instruction]
    /\ UNCHANGED <<ledgerVars, instruction, proposed, receipt, assessment, touches, deaths>>

ApplyWrite ==
    /\ applying # Nothing /\ applying.step = "checked"
    /\ instruction' = IF applying.read = applying.proposal THEN instruction
                                                            ELSE applying.proposal
    /\ applying' = [applying EXCEPT !.step = "written"]
    /\ UNCHANGED <<ledgerVars, proposed, receipt, assessment, touches, deaths>>

\* The receipt names the content that is in the file by then.
ApplyReceipt ==
    /\ applying # Nothing /\ applying.step = "written"
    /\ receipt' = [receipt EXCEPT ![applying.proposal] = IF @ = Nothing THEN instruction ELSE @]
    /\ applying' = [applying EXCEPT !.step = "receipt", !.read = instruction]
    /\ UNCHANGED <<ledgerVars, instruction, proposed, assessment, touches, deaths>>

NextAssessment(p) ==
    LET remaining == assessment.gaps \ Resolves[p]
    IN  [gaps |-> remaining, file |-> applying.read,
         status |-> IF remaining = {} THEN "use-existing" ELSE "proposal-required",
         decision |-> assessment.decision /\ remaining # {},
         by |-> IF remaining = {} THEN p ELSE Nothing]

\* The next assessment is written if it is valid; the decision it may still need
\* is the one about the assessment it replaces.
ApplyAssess ==
    /\ applying # Nothing /\ applying.step = "receipt"
    /\ LET next == NextAssessment(applying.proposal)
       IN  assessment' = IF Valid(next) THEN next ELSE assessment
    /\ applying' = Nothing
    /\ UNCHANGED <<ledgerVars, instruction, proposed, receipt, touches, deaths>>

\* The command is killed; its locks are recovered.
ApplyDie ==
    /\ applying # Nothing /\ deaths < MaxDeaths
    /\ applying' = Nothing
    /\ deaths' = deaths + 1
    /\ UNCHANGED <<ledgerVars, instruction, proposed, receipt, assessment, touches>>

ContractNext ==
    \/ Touch \/ Dispose
    \/ \E gaps \in SUBSET Gap : Assess(gaps)
    \/ \E p \in Proposal : \/ Propose(p) \/ ApplyCheck(p)
                           \/ \E s \in {"approve", "reject"} : Answer(p, s)
    \/ ApplyWrite \/ ApplyReceipt \/ ApplyAssess \/ ApplyDie

\* An operator who started to apply a proposal runs the command until it ends.
ContractFairness ==
    /\ \A p \in Proposal : WF_<<ledgerVars, contractVars>>(ApplyCheck(p))
    /\ WF_<<ledgerVars, contractVars>>(ApplyWrite)
    /\ WF_<<ledgerVars, contractVars>>(ApplyReceipt)
    /\ WF_<<ledgerVars, contractVars>>(ApplyAssess)

-----------------------------------------------------------------------------
(* Properties *)

ContractTypeOK ==
    /\ instruction \in Content
    /\ assessment \in Assessment \union {Nothing}
    /\ proposed \in [Proposal -> [target : Content, assessment : Assessment] \union {Nothing}]
    /\ receipt \in [Proposal -> Content \union {Nothing}]
    /\ applying \in {Nothing} \union
         [proposal : Proposal, step : {"checked", "written", "receipt"}, read : Content]
    /\ touches \in 0 .. MaxTouch /\ deaths \in 0 .. MaxDeaths

\* The command writes the instruction file only with the result of a proposal the
\* user approved, after it saw in the file what the proposal was made for.
OnlyApprovedIsWritten ==
    [][\A p \in Proposal :
         instruction' = p /\ instruction # p
            => /\ Approval(p, "approve") \in Events
               /\ applying.read = proposed[p].target]_instruction

\* An assessment that a proposal settled has its receipt, and the user approved
\* what was applied, wherever an application died and whoever finished it; and if
\* nobody edits the file meanwhile, all three name the proposal's result.
SettledByReceipt ==
    assessment # Nothing /\ assessment.by # Nothing
        => /\ receipt[assessment.by] # Nothing
           /\ Approval(assessment.by, "approve") \in Events
           /\ touches = 0 => assessment.file = assessment.by /\ receipt[assessment.by] = assessment.by

\* An application that died after its write gets its receipt, unless the file or
\* the assessment is replaced before.
ApplicationFinishes ==
    \A p \in Proposal :
        (Approved(p) /\ Matches(p) /\ Required)
            ~> (receipt[p] # Nothing \/ ~ Matches(p) \/ ~ Required)
=============================================================================
