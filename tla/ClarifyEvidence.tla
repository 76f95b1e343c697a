---------------------------- MODULE ClarifyEvidence ----------------------------
(***************************************************************************)
(* The evidence of Clarify: the research lanes decided from requirements.md,*)
(* the packets that close them, the synthesis (core/clarify-governance.mjs,*)
(* lib/clarify-research-evidence.mjs) and the classification that is bound *)
(* to all of it (core/classification-artifact.mjs), composed with the      *)
(* ledger and the project contract.                                        *)
(*                                                                         *)
(* requirements.md is its fact section, which is what lane decisions are   *)
(* about, and the rest of it, the body; a digest is the value itself.      *)
(***************************************************************************)
EXTENDS ProjectContract

CONSTANTS Proc,        \* processes that persist a classification
          Tier,        \* tiers a classification can derive
          MaxEdits,    \* bound: edits of requirements.md by hand
          MaxRevision  \* bound: revisions of the state

ASSUME RevisionsAssumption == MaxRevision \in Nat

VARIABLES
    req,            \* requirements.md
    laneInput,      \* the requirements lane-applicability-input.json was made from
    packet,         \* per lane the outcomes of its research runs
    debt,           \* of debt-assessment.json: the requirements it names as input, if any
    classification, \* classification.json
    reference,      \* the classification the digest in the state stands for
    revision,       \* revision of the state
    job,            \* per process the classification it is persisting, and how far it is
    edits           \* how often requirements.md was edited

evidenceVars == <<req, laneInput, packet, debt, classification, reference, revision, job, edits>>
vars == <<ledgerVars, contractVars, evidenceVars>>

Lane == {"code", "docs"}

\* validateResearchPacket: what a packet says of itself.  Only a clean one closes
\* a lane.
Packet == {"clean", "degraded"}

Requirements ==
    [docs : BOOLEAN, closed : BOOLEAN, body : {"seed", "template", "synthesis", "edited"}]

FactSection == [docs : BOOLEAN, closed : BOOLEAN]

\* clarifyResearchAuthorityDigest
Facts == [docs |-> req.docs, closed |-> req.closed]

\* What a fact section says of a lane; code research is mandatory.
Selection(lane, facts) ==
    IF lane = "code" \/ facts.docs THEN "required" ELSE "not-required"

RequiredLanes == {lane \in Lane : Selection(lane, Facts) = "required"}

LaneEvent(lane) ==
    [id |-> <<"lane", lane, Facts>>, type |-> "lane-applicability",
     target |-> <<"lane", lane, Facts>>, input |-> req, selected |-> Selection(lane, Facts)]

\* An event of a lane that somebody wrote by hand: about any fact section, or about the
\* whole of requirements.md, and not always naming it as evidence.
HandWrittenLane(lane, of, selected, input) ==
    [id |-> <<"hand", lane, of>>, type |-> "lane-applicability",
     target |-> <<"lane", lane, of>>, input |-> input, selected |-> selected]

\* existingLaneEvent
LaneTarget(lane) ==
    {e \in Events : e.type = "lane-applicability" /\ e.target = <<"lane", lane, Facts>>}

\* assertCurrentLaneApplicability, which a handoff of a research run needs: what the
\* event names is fresh.
Dispatchable(lane) ==
    \E e \in LaneTarget(lane) : e.selected = "required" /\ e.input \in {req, Nothing}

\* The events readClarifyResearchEvidence looks at: those of the fact section, and if
\* there is none those of the whole file.
Deciding(lane) ==
    IF LaneTarget(lane) # {} THEN LaneTarget(lane)
    ELSE {e \in Events : e.type = "lane-applicability" /\ e.target = <<"lane", lane, req>>}

\* readClarifyResearchEvidence: the lanes are decided as the fact section says, on
\* evidence that requirements.md is part of, and the packets that it names close them.
FactGate ==
    /\ \A lane \in Lane : \E e \in Deciding(lane) :
          e.selected = Selection(lane, Facts) /\ e.input # Nothing
    /\ req.closed

\* debtValidation: what the assessment names is fresh, and requirements.md need not be
\* among it.
DebtValid == debt # Nothing /\ debt \subseteq {req}

Inputs == [req |-> req, snapshot |-> snapshot, debt |-> debt, contract |-> assessment]

Route(tier) ==
    [id |-> <<"route", tier, Inputs>>, type |-> "classification-route",
     target |-> <<"classification">>, selected |-> tier, input |-> Inputs]

\* Mutant: a route of any inputs supports a classification.
ArtifactValidAnyRoute(c) ==
    /\ c.inputs = Inputs
    /\ ReadableSnapshot /\ DebtValid /\ AssessmentValid /\ FactGate
    /\ \E e \in Events : e.type = "classification-route" /\ e.selected = c.tier

\* validateClassificationArtifact
ArtifactValid(c) ==
    /\ c.inputs = Inputs
    /\ ReadableSnapshot /\ DebtValid /\ AssessmentValid /\ FactGate
    /\ \E e \in Events : /\ e.type = "classification-route"
                         /\ e.selected = c.tier /\ e.input = c.inputs

\* readClassificationArtifact of the reference in the state
Readable == /\ reference # Nothing
            /\ classification = reference
            /\ ArtifactValid(classification)

-----------------------------------------------------------------------------
Idle == [pc |-> "idle"]

EvidenceInit ==
    /\ req = [docs |-> FALSE, closed |-> FALSE, body |-> "seed"]
    /\ laneInput = Nothing
    /\ packet = [lane \in Lane |-> {}]
    /\ debt = Nothing
    /\ classification = Nothing
    /\ reference = Nothing
    /\ revision = 0
    /\ job = [p \in Proc |-> Idle]
    /\ edits = 0

Others == UNCHANGED <<ledgerVars, contractVars>>

\* The fact section is rewritten by hand: another choice of lanes, still open.
EditFacts ==
    /\ edits < MaxEdits
    /\ req' = [req EXCEPT !.docs = ~ @, !.closed = FALSE]
    /\ edits' = edits + 1
    /\ Others /\ UNCHANGED <<laneInput, packet, debt, classification, reference, revision, job>>

EditBody ==
    /\ edits < MaxEdits /\ req.body # "edited"
    /\ req' = [req EXCEPT !.body = "edited"]
    /\ edits' = edits + 1
    /\ Others /\ UNCHANGED <<laneInput, packet, debt, classification, reference, revision, job>>

\* syncClarifyLanes writes the input of recordClarifyLanes ...
SyncLanes ==
    /\ laneInput # req
    /\ laneInput' = req
    /\ Others /\ UNCHANGED <<req, packet, debt, classification, reference, revision, job, edits>>

\* ... which records in one append the decisions of the lanes that have none for this
\* fact section yet, if those that have one were decided as the input says.
RecordLanes ==
    /\ laneInput = req /\ Len(ledger) + 1 < MaxEvents
    /\ \A lane \in Lane : \A e \in LaneTarget(lane) :
          e.selected = Selection(lane, Facts) /\ e.input # Nothing
    /\ \/ /\ sealing = 0 /\ \A lane \in Lane : LaneTarget(lane) = {}
          /\ ledger' = ledger \o <<LaneEvent("code"), LaneEvent("docs")>>
          /\ UNCHANGED <<snapshot, history, sealing>>
       \/ \E lane, other \in Lane : LaneTarget(other) # {} /\ Append1(LaneEvent(lane))
    /\ UNCHANGED <<contractVars, evidenceVars>>

\* recordClarifyDecision for one lane
RecordLane(lane, of, selected, input) ==
    /\ Len(ledger) < MaxEvents
    /\ Append1(HandWrittenLane(lane, of, selected, input))
    /\ UNCHANGED <<contractVars, evidenceVars>>

\* A research run is dispatched and delivers a packet.
Research(lane, outcome) ==
    /\ Dispatchable(lane)
    /\ outcome \notin packet[lane]
    /\ packet' = [packet EXCEPT ![lane] = @ \union {outcome}]
    /\ Others /\ UNCHANGED <<req, laneInput, debt, classification, reference, revision, job, edits>>

\* closeClarifyResearch: clean packets of exactly the required lanes; the body is
\* started again from the template.  syncClarifyLanes follows as its own command.
CloseResearch ==
    /\ ~ req.closed
    /\ \A lane \in RequiredLanes : "clean" \in packet[lane]
    /\ req' = [req EXCEPT !.closed = TRUE, !.body = "template"]
    /\ laneInput' = req'
    /\ Others /\ UNCHANGED <<packet, debt, classification, reference, revision, job, edits>>

\* persistClarifySynthesis
Synthesize ==
    /\ FactGate /\ req.body # "synthesis"
    /\ req' = [req EXCEPT !.body = "synthesis"]
    /\ Others /\ UNCHANGED <<laneInput, packet, debt, classification, reference, revision, job, edits>>

\* debt-assessment.json is written by hand: debt is observed in requirements.md, or in
\* other files, which do not change here.
AssessDebt(named) ==
    /\ debt # named
    /\ debt' = named
    /\ Others /\ UNCHANGED <<req, laneInput, packet, classification, reference, revision, job, edits>>

\* recordClarifyDecision for a route, whose inputs are fresh
RecordRoute(tier) ==
    /\ debt # Nothing /\ assessment # Nothing /\ ReadableSnapshot /\ Len(ledger) < MaxEvents
    /\ Append1(Route(tier))
    /\ UNCHANGED <<contractVars, evidenceVars>>

-----------------------------------------------------------------------------
(* persistClarifyClassification *)

Locked == \E p \in Proc : job[p].pc = "written"

\* The input is classified, the revision of the state is read, and a
\* classification the state already refers to must be readable.
PersistBegin(p, tier) ==
    LET c == [tier |-> tier, inputs |-> Inputs]
    IN  /\ job[p].pc = "idle" /\ revision < MaxRevision
        /\ ArtifactValid(c)
        /\ reference # Nothing => Readable /\ reference # c
        /\ job' = [job EXCEPT ![p] = [pc |-> "begun", new |-> c, rev |-> revision,
                                      previous |-> Nothing]]
        /\ Others /\ UNCHANGED <<req, laneInput, packet, debt, classification, reference, revision, edits>>

\* The artifact is no longer valid under the lock, and nothing was written.
PersistRefused(p) ==
    /\ job[p].pc = "begun" /\ ~ Locked
    /\ ~ ArtifactValid(job[p].new)
    /\ job' = [job EXCEPT ![p] = Idle]
    /\ Others /\ UNCHANGED <<req, laneInput, packet, debt, classification, reference, revision, edits>>

\* Mutant: the process does not remember what it replaces.
PersistWriteBlind(p) ==
    /\ job[p].pc = "begun" /\ ~ Locked
    /\ ArtifactValid(job[p].new)
    /\ classification' = job[p].new
    /\ job' = [job EXCEPT ![p].pc = "written"]
    /\ Others /\ UNCHANGED <<req, laneInput, packet, debt, reference, revision, edits>>

\* replaceClassificationArtifact
PersistWrite(p) ==
    /\ job[p].pc = "begun" /\ ~ Locked
    /\ ArtifactValid(job[p].new)
    /\ classification' = job[p].new
    /\ job' = [job EXCEPT ![p].pc = "written", ![p].previous = classification]
    /\ Others /\ UNCHANGED <<req, laneInput, packet, debt, reference, revision, edits>>

\* updateChangeState with the expected revision ...
PersistCommit(p) ==
    /\ job[p].pc = "written" /\ job[p].rev = revision
    /\ reference' = job[p].new
    /\ revision' = revision + 1
    /\ job' = [job EXCEPT ![p] = Idle]
    /\ Others /\ UNCHANGED <<req, laneInput, packet, debt, classification, edits>>

\* ... or the file is put back.
PersistRollback(p) ==
    /\ job[p].pc = "written" /\ job[p].rev # revision
    /\ classification' = job[p].previous
    /\ job' = [job EXCEPT ![p] = Idle]
    /\ Others /\ UNCHANGED <<req, laneInput, packet, debt, reference, revision, edits>>

PersistDie(p) ==
    /\ job[p].pc = "written" /\ deaths < MaxDeaths
    /\ job' = [job EXCEPT ![p] = Idle]
    /\ deaths' = deaths + 1
    /\ UNCHANGED <<ledgerVars, instruction, proposed, receipt, assessment, applying, touches>>
    /\ UNCHANGED <<req, laneInput, packet, debt, classification, reference, revision, edits>>

\* Another command commits a revision of the state, which keeps the reference; it
\* takes the change transaction that a process between its two writes holds.
OtherCommit ==
    /\ revision < MaxRevision /\ ~ Locked
    /\ revision' = revision + 1
    /\ Others /\ UNCHANGED <<req, laneInput, packet, debt, classification, reference, job, edits>>

EvidenceNext ==
    \/ EditFacts \/ EditBody \/ SyncLanes \/ RecordLanes \/ CloseResearch
    \/ Synthesize \/ OtherCommit
    \/ \E named \in {{}, {req}} : AssessDebt(named)
    \/ \E lane \in Lane, of \in FactSection \union {req}, input \in {req, Nothing},
          selected \in {"required", "not-required"} : RecordLane(lane, of, selected, input)
    \/ \E lane \in Lane, o \in Packet : Research(lane, o)
    \/ \E t \in Tier : RecordRoute(t)
    \/ \E p \in Proc :
         \/ \E t \in Tier : PersistBegin(p, t)
         \/ PersistRefused(p) \/ PersistWrite(p) \/ PersistCommit(p)
         \/ PersistRollback(p) \/ PersistDie(p)

SealNext(n) ==
    /\ UNCHANGED <<contractVars, evidenceVars>>
    /\ SealBegin(n) \/ SealEnd \/ SealDie

\* sealClarifyDecisions of all that is recorded, when more than routes is new
SealAll ==
    /\ \E i \in snapshot + 1 .. Len(ledger) : ledger[i].type # "classification-route"
    /\ SealBegin(Len(ledger))
    /\ UNCHANGED <<contractVars, evidenceVars>>

Init == LedgerInit /\ ContractInit /\ EvidenceInit
Next == EvidenceNext \/ (\E n \in 0 .. Len(ledger) : SealNext(n)) \/ (ContractNext /\ UNCHANGED evidenceVars)
Spec == Init /\ [][Next]_vars

-----------------------------------------------------------------------------
(* Properties *)

Classification ==
    [tier : Tier, inputs : [req : Requirements, snapshot : Nat \ {0},
                            debt : SUBSET Requirements, contract : Assessment]]

Job == [pc : {"begun", "written"}, new : Classification, rev : 0 .. MaxRevision - 1,
        previous : Classification \union {Nothing}]

TypeOK ==
    /\ ContractTypeOK
    /\ snapshot \in 0 .. Len(ledger) /\ sealing \in 0 .. Len(ledger)
    /\ history \subseteq 1 .. snapshot
    /\ req \in Requirements /\ laneInput \in Requirements \union {Nothing}
    /\ debt \in (SUBSET Requirements) \union {Nothing}
    /\ packet \in [Lane -> SUBSET Packet]
    /\ {classification, reference} \subseteq Classification \union {Nothing}
    /\ revision \in 0 .. MaxRevision
    /\ job \in [Proc -> Job \union {Idle}]

\* The facts of a change are established only by research that was decided on
\* and delivered clean, for exactly the lanes the requirements name now, however
\* the requirements were edited in between.
GateMeansResearched ==
    FactGate => \A lane \in RequiredLanes :
        /\ "clean" \in packet[lane]
        /\ \E e \in Events : /\ e.type = "lane-applicability"
                             /\ e.target[2] = lane /\ e.selected = "required"
                             /\ e.target # LaneEvent(lane).target

\* The classification of the state was routed by a decision on the very inputs it
\* names, which were closed by decided lanes and by a sealed snapshot; debt that was
\* observed in the requirements was observed in those that were classified.
ReferenceIsRouted ==
    reference # Nothing =>
        /\ \E e \in Events : /\ e.type = "classification-route"
                             /\ e.selected = reference.tier /\ e.input = reference.inputs
        /\ reference.inputs.snapshot \in history \union {snapshot}
        /\ reference.inputs.req.closed
        /\ reference.inputs.debt \subseteq {reference.inputs.req}

\* Nothing of Clarify passes that was not worked for.
EvidenceIsEarned == GateMeansResearched /\ ReferenceIsRouted

\* Whatever fails, classification.json is what the state refers to, unless a
\* process is between its two writes or was killed there.
FileIsReferenced ==
    classification # reference => deaths > 0 \/ Locked

\* A fact section of which recordClarifyLanes decided a lane has both lanes decided, and
\* as it says, although one of them may have been decided by hand before.
LanesAgree ==
    \A e \in Events : e.type = "lane-applicability" /\ e.id[1] = "lane"
        => \A lane \in Lane : \E f \in Events :
              /\ f.type = e.type /\ f.target = <<"lane", lane, e.target[3]>>
              /\ f.selected = Selection(lane, e.target[3])

\* The records that consist of two parts have both, but for a death between the two
\* writes of a classification.
RecordsAreWhole == TypeOK /\ OneDecisionPerTarget /\ LanesAgree /\ FileIsReferenced

\* What somebody decided is never overwritten, in the ledger by a later decision, in
\* the instruction file by a proposal that was not approved for what it replaces.
NothingIsOverwritten == LedgerOnlyGrows /\ OnlyApprovedIsWritten
=============================================================================
