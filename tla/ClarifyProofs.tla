----------------------------- MODULE ClarifyProofs -----------------------------
(***************************************************************************)
(* Proofs about the evidence of Clarify: the decision ledger, the          *)
(* application of proposals, the lanes and the classification, as they     *)
(* are composed in ClarifyEvidence.                                        *)
(***************************************************************************)
EXTENDS ClarifyEvidence, ClarifyQuestions, SequenceTheorems, TLAPS

-----------------------------------------------------------------------------
(* The inductive invariant *)

\* What a seal is about to publish extends what it replaces, which is kept.
LedgerInv ==
    /\ ledger \in Seq(Events)
    /\ sealing # 0 => /\ sealing \in snapshot + 1 .. Len(ledger)
                      /\ snapshot # 0 => snapshot \in history
    /\ OneDecisionPerTarget

ClosedIsClean == req.closed => \A lane \in RequiredLanes : "clean" \in packet[lane]

\* A lane that has a clean packet was required by a decision on facts that were still
\* open, or that did not require the lane themselves.
CleanWasRequired ==
    \A lane \in Lane : "clean" \in packet[lane]
        => \E e \in Events, f \in FactSection :
              /\ e.type = "lane-applicability" /\ e.selected = "required"
              /\ e.target = <<"lane", lane, f>>
              /\ ~ (f.closed /\ Selection(lane, f) = "required")

LaneInv == LanesAgree /\ ClosedIsClean /\ CleanWasRequired

Sealed == (history \union {snapshot}) \ {0}

Routed(c) ==
    /\ \E e \in Events : /\ e.type = "classification-route"
                         /\ e.selected = c.tier /\ e.input = c.inputs
    /\ c.inputs.snapshot \in Sealed
    /\ c.inputs.req.closed
    /\ c.inputs.debt \subseteq {c.inputs.req}

RouteInv ==
    /\ reference # Nothing => Routed(reference)
    /\ \A p \in Proc : job[p].pc # "idle" => Routed(job[p].new)

\* A process between its two writes knows the file and what it replaced.
FileInv ==
    /\ \A p, q \in Proc : job[p].pc = "written" /\ job[q].pc = "written" => p = q
    /\ \A p \in Proc : job[p].pc = "written"
         => /\ classification = job[p].new
            /\ deaths = 0 => job[p].previous = reference
    /\ FileIsReferenced

ApplyingIsApproved ==
    applying # Nothing =>
        /\ Approved(applying.proposal) /\ Required
        /\ applying.step = "checked" /\ applying.read # applying.proposal
             => proposed[applying.proposal].target = applying.read

\* While nobody else edits the file, it has what the application last read or wrote.
UntouchedIsExact ==
    touches = 0 =>
        /\ applying # Nothing =>
             /\ applying.step = "checked" => instruction = applying.read
             /\ applying.step = "written" => instruction = applying.proposal
             /\ applying.step = "receipt" => applying.read = applying.proposal
        /\ \A p \in Proposal : receipt[p] # Nothing => receipt[p] = p

SettledIsApproved ==
    assessment # Nothing /\ assessment.by # Nothing => Approved(assessment.by)

ContractInv == ApplyingIsApproved /\ UntouchedIsExact /\ SettledIsApproved /\ SettledByReceipt

IInv == TypeOK /\ LedgerInv /\ LaneInv /\ RouteInv /\ FileInv /\ ContractInv

-----------------------------------------------------------------------------
(* Sequences of events *)

\* What an append of one record does to the set of records.
LEMMA AppendRecord ==
    ASSUME NEW S, NEW s \in Seq(S), NEW e
    PROVE  LET t == Append(s, e)
           IN  /\ t \in Seq(Range(t))
               /\ Len(t) = Len(s) + 1
               /\ Range(t) = Range(s) \union {e}
               /\ \A i \in DOMAIN s : t[i] = s[i]
               /\ DOMAIN s = 1 .. Len(s) /\ DOMAIN t = 1 .. Len(s) + 1
               /\ t[Len(s) + 1] = e
               /\ IsPrefix(s, t)
  <1> DEFINE t == Append(s, e)
             E == Range(t)
  <1>1. /\ s \in Seq(S \union {e}) /\ e \in S \union {e}
        /\ Len(s) \in Nat /\ DOMAIN s = 1 .. Len(s)
    BY SeqMonotonic, LenProperties
  <1>2. /\ t \in Seq(S \union {e}) /\ Len(t) = Len(s) + 1
        /\ \A i \in 1 .. Len(s) : t[i] = s[i]
        /\ t[Len(s) + 1] = e
    BY <1>1, AppendProperties
  <1>3. DOMAIN t = 1 .. Len(s) + 1 /\ t \in [1 .. Len(s) + 1 -> S \union {e}]
    BY <1>1, <1>2, LenProperties
  <1>4. E = Range(s) \union {e}
    BY <1>1, <1>2, <1>3 DEF Range
  <1>5. t \in Seq(E)
    <2> DEFINE n == Len(s) + 1
    <2>1. t \in [1 .. n -> E]
      BY <1>3 DEF Range
    <2>2. n \in Nat
      BY <1>1
    <2> HIDE DEF t, E, n
    <2>3. QED
      BY <2>1, <2>2, IsASeq
  <1>6. IsPrefix(s, t)
    BY <1>1, <1>2, AppendIsConcat DEF IsPrefix
  <1>7. QED
    BY <1>1, <1>2, <1>3, <1>4, <1>5, <1>6

\* The same for the append of two records.
LEMMA AppendTwoRecords ==
    ASSUME NEW S, NEW s \in Seq(S), NEW a, NEW b
    PROVE  LET t == s \o <<a, b>>
           IN  /\ t \in Seq(Range(t))
               /\ Len(t) = Len(s) + 2
               /\ Range(t) = Range(s) \union {a, b}
               /\ \A i \in DOMAIN s : t[i] = s[i]
               /\ DOMAIN s = 1 .. Len(s) /\ DOMAIN t = 1 .. Len(s) + 2
               /\ t[Len(s) + 1] = a /\ t[Len(s) + 2] = b
               /\ IsPrefix(s, t)
  <1> DEFINE t == s \o <<a, b>>
             E == Range(t)
             U == S \union {a, b}
  <1>1. /\ s \in Seq(U) /\ <<a, b>> \in Seq(U)
        /\ Len(s) \in Nat /\ DOMAIN s = 1 .. Len(s)
    BY SeqMonotonic, LenProperties
  <1>2. /\ t \in Seq(U) /\ Len(t) = Len(s) + 2
        /\ \A i \in 1 .. Len(s) : t[i] = s[i]
        /\ t[Len(s) + 1] = a /\ t[Len(s) + 2] = b
    BY <1>1, ConcatProperties
  <1>3. DOMAIN t = 1 .. Len(s) + 2 /\ t \in [1 .. Len(s) + 2 -> U]
    BY <1>1, <1>2, LenProperties
  <1>4. E = Range(s) \union {a, b}
    BY <1>1, <1>2, <1>3 DEF Range
  <1>5. t \in Seq(E)
    <2> DEFINE n == Len(s) + 2
    <2>1. t \in [1 .. n -> E]
      BY <1>3 DEF Range
    <2>2. n \in Nat
      BY <1>1
    <2> HIDE DEF t, E, n
    <2>3. QED
      BY <2>1, <2>2, IsASeq
  <1>6. IsPrefix(s, t)
    BY <1>1, <1>2 DEF IsPrefix
  <1>7. QED
    BY <1>1, <1>2, <1>3, <1>4, <1>5, <1>6

-----------------------------------------------------------------------------
(* The kinds of steps *)

\* A decision on one lane that somebody wrote by hand
HandStep ==
    \E lane \in Lane, of \in FactSection \union {req}, input \in {req, Nothing},
       selected \in {"required", "not-required"} :
          Append1(HandWrittenLane(lane, of, selected, input))

\* One decision, or the decisions on both lanes, are recorded, or a seal goes on.
LedgerStep ==
    /\ UNCHANGED <<contractVars, evidenceVars>>
    /\ \/ \E e : Append1(e) /\ e.type # "lane-applicability"
       \/ RecordLanes \/ HandStep
       \/ \E n \in 0 .. Len(ledger) : SealBegin(n)
       \/ SealEnd \/ SealDie

ContractStep ==
    /\ UNCHANGED <<ledgerVars, evidenceVars>>
    /\ \/ Touch
       \/ \E gaps \in SUBSET Gap : Assess(gaps)
       \/ \E p \in Proposal : Propose(p) \/ ApplyCheck(p)
       \/ ApplyWrite \/ ApplyReceipt \/ ApplyAssess \/ ApplyDie

PersistStep(p) ==
    \/ \E t \in Tier : PersistBegin(p, t)
    \/ PersistRefused(p) \/ PersistWrite(p) \/ PersistCommit(p)
    \/ PersistRollback(p) \/ PersistDie(p)

EvidenceStep ==
    /\ UNCHANGED <<ledgerVars, instruction, proposed, receipt, assessment, applying, touches>>
    /\ \/ EditFacts \/ EditBody \/ SyncLanes \/ CloseResearch
       \/ Synthesize \/ OtherCommit
       \/ \E named \in {{}, {req}} : AssessDebt(named)
       \/ \E lane \in Lane, o \in Packet : Research(lane, o)
       \/ \E p \in Proc : PersistStep(p)

LEMMA StepKinds ==
    ASSUME [Next]_vars
    PROVE  LedgerStep \/ ContractStep \/ EvidenceStep \/ UNCHANGED vars
  <1>1. CASE UNCHANGED vars
    BY <1>1
  <1>2. CASE EvidenceNext
    <2>1. CASE RecordLanes
      BY <2>1 DEF RecordLanes, LedgerStep
    <2>2. ASSUME NEW t \in Tier, RecordRoute(t) PROVE LedgerStep
      BY <2>2 DEF RecordRoute, LedgerStep, Route
    <2>3. CASE \/ EditFacts \/ EditBody \/ SyncLanes \/ CloseResearch
               \/ Synthesize \/ OtherCommit \/ \E named \in {{}, {req}} : AssessDebt(named)
      BY <2>3 DEF EvidenceStep, EditFacts, EditBody, SyncLanes, CloseResearch,
                  Synthesize, AssessDebt, OtherCommit, Others, ledgerVars, contractVars
    <2>4. ASSUME NEW lane \in Lane, NEW o \in Packet, Research(lane, o) PROVE EvidenceStep
      BY <2>4 DEF EvidenceStep, Research, Others, ledgerVars, contractVars
    <2>5. ASSUME NEW p \in Proc, PersistStep(p) PROVE EvidenceStep
      <3>1. UNCHANGED <<ledgerVars, instruction, proposed, receipt, assessment, applying, touches>>
        BY <2>5 DEF PersistStep, PersistBegin, PersistRefused, PersistWrite, PersistCommit,
                    PersistRollback, PersistDie, Others, ledgerVars, contractVars
      <3>2. QED
        BY <2>5, <3>1 DEF EvidenceStep
    <2>6. ASSUME NEW lane \in Lane, NEW of \in FactSection \union {req},
                 NEW input \in {req, Nothing}, NEW selected \in {"required", "not-required"},
                 RecordLane(lane, of, selected, input)
          PROVE  LedgerStep
      BY <2>6 DEF RecordLane, LedgerStep, HandStep
    <2>7. QED
      BY <1>2, <2>1, <2>2, <2>3, <2>4, <2>5, <2>6 DEF EvidenceNext, PersistStep
  <1>3. ASSUME NEW n \in 0 .. Len(ledger), SealNext(n) PROVE LedgerStep
    BY <1>3 DEF SealNext, LedgerStep
  <1>4. CASE ContractNext /\ UNCHANGED evidenceVars
    <2>1. CASE Dispose
      BY <1>4, <2>1 DEF Dispose, LedgerStep, Disposition
    <2>2. ASSUME NEW p \in Proposal, NEW s \in {"approve", "reject"}, Answer(p, s)
          PROVE  LedgerStep
      BY <1>4, <2>2 DEF Answer, LedgerStep, Approval
    <2>3. CASE Touch \/ ApplyWrite \/ ApplyReceipt \/ ApplyAssess \/ ApplyDie
      BY <1>4, <2>3 DEF ContractStep, Touch, ApplyWrite, ApplyReceipt, ApplyAssess, ApplyDie
    <2>4. ASSUME NEW gaps \in SUBSET Gap, Assess(gaps) PROVE ContractStep
      BY <1>4, <2>4 DEF ContractStep, Assess
    <2>5. ASSUME NEW p \in Proposal, Propose(p) \/ ApplyCheck(p) PROVE ContractStep
      BY <1>4, <2>5 DEF ContractStep, Propose, ApplyCheck
    <2>6. QED
      BY <1>4, <2>1, <2>2, <2>3, <2>4, <2>5 DEF ContractNext
  <1>5. QED
    BY <1>1, <1>2, <1>3, <1>4 DEF Next

-----------------------------------------------------------------------------
(* The ledger *)

\* The same for the ledger
LEMMA AppendEvent ==
    ASSUME ledger \in Seq(Events), NEW e, Append1(e)
    PROVE  /\ ledger' \in Seq(Events') /\ Len(ledger') = Len(ledger) + 1 /\ Len(ledger) \in Nat
           /\ Events' = Events \union {e}
           /\ \A i \in DOMAIN ledger : ledger'[i] = ledger[i]
           /\ DOMAIN ledger = 1 .. Len(ledger) /\ DOMAIN ledger' = 1 .. Len(ledger) + 1
           /\ ledger'[Len(ledger) + 1] = e
           /\ IsPrefix(ledger, ledger')
  <1> DEFINE S == Events
  <1>1. ledger \in Seq(S) /\ Len(ledger) \in Nat
    BY LenProperties
  <1>2. ledger' = Append(ledger, e)
    BY DEF Append1
  <1> HIDE DEF S
  <1>3. QED
    BY <1>1, <1>2, AppendRecord, SMTT(30) DEF Events

\* What every step keeps of the ledger and its snapshots
Grows ==
    /\ IsPrefix(ledger, ledger')
    /\ Events \subseteq Events'
    /\ Sealed \subseteq Sealed'
    /\ snapshot' \in 0 .. Len(ledger') /\ sealing' \in 0 .. Len(ledger')
    /\ history' \subseteq 1 .. snapshot'
    /\ snapshot' # snapshot =>
         /\ snapshot' > snapshot /\ snapshot' <= Len(ledger)
         /\ snapshot # 0 => snapshot \in history

LEMMA LedgerKept ==
    ASSUME TypeOK, LedgerInv, UNCHANGED ledgerVars
    PROVE  LedgerInv' /\ Grows /\ Events' = Events /\ Sealed' = Sealed
  <1>1. Events' = Events /\ Sealed' = Sealed
    BY DEF ledgerVars, Events, Sealed
  <1>2. IsPrefix(ledger, ledger')
    <2>1. Len(ledger) \in Nat
      BY LenProperties DEF LedgerInv
    <2>2. QED
      BY <2>1 DEF ledgerVars, IsPrefix
  <1>3. QED
    BY <1>1, <1>2 DEF LedgerInv, Grows, ledgerVars, OneDecisionPerTarget, TypeOK

\* One record that decides something new
LEMMA AppendKept ==
    ASSUME TypeOK, LedgerInv, NEW e, Append1(e)
    PROVE  LedgerInv' /\ Grows /\ Events' = Events \union {e} /\ Sealed' = Sealed
  <1>1. /\ ledger' = Append(ledger, e) /\ sealing = 0
        /\ UNCHANGED <<snapshot, history, sealing>>
        /\ e.type # "classification-route" =>
              \A f \in Events : ~ (f.type = e.type /\ f.target = e.target)
    BY DEF Append1, Appendable, Unresolved
  <1>2. ledger \in Seq(Events) /\ Len(ledger) \in Nat
    BY LenProperties DEF LedgerInv
  <1>3. /\ ledger' \in Seq(Events') /\ Len(ledger') = Len(ledger) + 1
        /\ Events' = Events \union {e}
        /\ \A i \in DOMAIN ledger : ledger'[i] = ledger[i]
        /\ DOMAIN ledger = 1 .. Len(ledger) /\ DOMAIN ledger' = 1 .. Len(ledger) + 1
        /\ ledger'[Len(ledger) + 1] = e
        /\ IsPrefix(ledger, ledger')
    BY <1>2, AppendEvent
  <1>4. Sealed' = Sealed
    BY <1>1 DEF Sealed
  <1>5. Grows
    BY <1>1, <1>2, <1>3, <1>4 DEF Grows, TypeOK
  <1>6. OneDecisionPerTarget'
    <2> SUFFICES ASSUME NEW i \in DOMAIN ledger', NEW j \in DOMAIN ledger',
                        ledger'[i].type = ledger'[j].type,
                        ledger'[i].target = ledger'[j].target,
                        ledger'[i].type # "classification-route"
                 PROVE  i = j
      BY DEF OneDecisionPerTarget
    <2>1. CASE i \in DOMAIN ledger /\ j \in DOMAIN ledger
      BY <2>1, <1>3 DEF LedgerInv, OneDecisionPerTarget
    <2>2. CASE i \in DOMAIN ledger /\ j = Len(ledger) + 1
      <3>1. ledger[i] \in Events
        BY <2>2 DEF Events, Range
      <3>2. QED
        BY <3>1, <2>2, <1>1, <1>3
    <2>3. CASE j \in DOMAIN ledger /\ i = Len(ledger) + 1
      <3>1. ledger[j] \in Events
        BY <2>3 DEF Events, Range
      <3>2. QED
        BY <3>1, <2>3, <1>1, <1>3
    <2>4. QED
      BY <2>1, <2>2, <2>3, <1>2, <1>3
  <1>7. QED
    BY <1>1, <1>3, <1>4, <1>5, <1>6 DEF LedgerInv

\* Both lanes are decided together.
BothLanes ==
    /\ \A lane \in Lane : LaneTarget(lane) = {}
    /\ ledger' = ledger \o <<LaneEvent("code"), LaneEvent("docs")>>
    /\ sealing = 0 /\ UNCHANGED <<snapshot, history, sealing>>

\* The lane that has no decision yet is decided.
OneLane ==
    /\ \A lane \in Lane : \A e \in LaneTarget(lane) : e.selected = Selection(lane, Facts)
    /\ \E lane, other \in Lane : LaneTarget(other) # {} /\ Append1(LaneEvent(lane))

\* Nothing was decided on either lane before.
LEMMA LanesKept ==
    ASSUME TypeOK, LedgerInv, BothLanes
    PROVE  /\ LedgerInv' /\ Grows /\ Sealed' = Sealed
           /\ Events' = Events \union {LaneEvent("code"), LaneEvent("docs")}
  <1> DEFINE a == LaneEvent("code")
             b == LaneEvent("docs")
  <1>1. /\ ledger' = ledger \o <<a, b>> /\ sealing = 0
        /\ UNCHANGED <<snapshot, history, sealing>>
    BY DEF BothLanes
  <1>2. /\ a.type = "lane-applicability" /\ b.type = "lane-applicability"
        /\ a.target = <<"lane", "code", Facts>> /\ b.target = <<"lane", "docs", Facts>>
        /\ a.target # b.target
    BY DEF LaneEvent
  <1>3. \A f \in Events : f.type = "lane-applicability"
                             => f.target # a.target /\ f.target # b.target
    BY <1>2 DEF BothLanes, LaneTarget, Lane
  <1> HIDE DEF a, b
  <1>4. ledger \in Seq(Events) /\ Len(ledger) \in Nat
    BY LenProperties DEF LedgerInv
  <1>5. /\ ledger' \in Seq(Events') /\ Len(ledger') = Len(ledger) + 2
        /\ Events' = Events \union {a, b}
        /\ \A i \in DOMAIN ledger : ledger'[i] = ledger[i]
        /\ DOMAIN ledger = 1 .. Len(ledger) /\ DOMAIN ledger' = 1 .. Len(ledger) + 2
        /\ ledger'[Len(ledger) + 1] = a /\ ledger'[Len(ledger) + 2] = b
        /\ IsPrefix(ledger, ledger')
    <2> DEFINE S == Events
    <2>1. ledger \in Seq(S)
      BY <1>4
    <2> HIDE DEF S
    <2>2. QED
      BY <2>1, <1>1, AppendTwoRecords, SMTT(30) DEF Events
  <1>6. Sealed' = Sealed
    BY <1>1 DEF Sealed
  <1>7. Grows
    BY <1>1, <1>4, <1>5, <1>6 DEF Grows, TypeOK
  <1>8. OneDecisionPerTarget'
    <2> SUFFICES ASSUME NEW i \in DOMAIN ledger', NEW j \in DOMAIN ledger',
                        ledger'[i].type = ledger'[j].type,
                        ledger'[i].target = ledger'[j].target,
                        ledger'[i].type # "classification-route"
                 PROVE  i = j
      BY DEF OneDecisionPerTarget
    <2>1. \A k \in DOMAIN ledger : ledger[k] \in Events
      BY DEF Events, Range
    <2>2. CASE i \in DOMAIN ledger /\ j \in DOMAIN ledger
      BY <2>2, <1>5 DEF LedgerInv, OneDecisionPerTarget
    <2>3. CASE i \in DOMAIN ledger /\ j \notin DOMAIN ledger
      <3>1. ledger'[j] = a \/ ledger'[j] = b
        BY <2>3, <1>4, <1>5
      <3>2. QED
        BY <2>1, <2>3, <3>1, <1>2, <1>3, <1>5
    <2>4. CASE i \notin DOMAIN ledger /\ j \in DOMAIN ledger
      <3>1. ledger'[i] = a \/ ledger'[i] = b
        BY <2>4, <1>4, <1>5
      <3>2. QED
        BY <2>1, <2>4, <3>1, <1>2, <1>3, <1>5
    <2>5. CASE i \notin DOMAIN ledger /\ j \notin DOMAIN ledger
      BY <2>5, <1>2, <1>4, <1>5
    <2>6. QED
      BY <2>2, <2>3, <2>4, <2>5
  <1>9. QED
    BY <1>1, <1>5, <1>6, <1>7, <1>8 DEF LedgerInv, a, b

\* A seal that begins puts the snapshot it replaces into the history.
LEMMA SealKept ==
    ASSUME TypeOK, LedgerInv,
           (\E n \in 0 .. Len(ledger) : SealBegin(n)) \/ SealEnd \/ SealDie
    PROVE  LedgerInv' /\ Grows /\ Events' = Events
  <1>1. ledger' = ledger /\ Events' = Events
    BY DEF SealBegin, SealEnd, SealDie, Events
  <1>2. Len(ledger) \in Nat /\ ledger \in Seq(Events)
    BY LenProperties DEF LedgerInv
  <1>3. IsPrefix(ledger, ledger')
    BY <1>1, <1>2 DEF IsPrefix
  <1>4. OneDecisionPerTarget'
    BY <1>1 DEF LedgerInv, OneDecisionPerTarget
  <1>5. /\ snapshot \in 0 .. Len(ledger) /\ sealing \in 0 .. Len(ledger)
        /\ history \subseteq 1 .. snapshot
        /\ sealing # 0 => /\ sealing \in snapshot + 1 .. Len(ledger)
                          /\ snapshot # 0 => snapshot \in history
    BY DEF TypeOK, LedgerInv
  <1>6. ASSUME NEW n \in 0 .. Len(ledger), SealBegin(n)
        PROVE  LedgerInv' /\ Grows
    <2>1. /\ n \in snapshot + 1 .. Len(ledger) /\ snapshot' = snapshot /\ sealing' = n
          /\ history' = IF snapshot = 0 THEN history ELSE history \union {snapshot}
      BY <1>6 DEF SealBegin
    <2>2. Sealed \subseteq Sealed'
      BY <2>1 DEF Sealed
    <2>3. history' \subseteq 1 .. snapshot'
      BY <2>1, <1>2, <1>5
    <2>4. QED
      BY <2>1, <2>2, <2>3, <1>1, <1>2, <1>3, <1>4, <1>5 DEF LedgerInv, Grows
  <1>7. CASE SealEnd
    <2>1. sealing # 0 /\ snapshot' = sealing /\ sealing' = 0 /\ history' = history
      BY <1>7 DEF SealEnd
    <2>2. Sealed \subseteq Sealed'
      BY <2>1, <1>5 DEF Sealed
    <2>3. history' \subseteq 1 .. snapshot'
      BY <2>1, <1>2, <1>5
    <2>4. QED
      BY <2>1, <2>2, <2>3, <1>1, <1>2, <1>3, <1>4, <1>5 DEF LedgerInv, Grows
  <1>8. CASE SealDie
    <2>1. snapshot' = snapshot /\ sealing' = 0 /\ history' = history
      BY <1>8 DEF SealDie
    <2>2. Sealed \subseteq Sealed'
      BY <2>1 DEF Sealed
    <2>3. QED
      BY <2>1, <2>2, <1>1, <1>2, <1>3, <1>4, <1>5 DEF LedgerInv, Grows
  <1>9. QED
    BY <1>1, <1>6, <1>7, <1>8

LEMMA LedgerStays ==
    ASSUME TypeOK, LedgerInv, [Next]_vars
    PROVE  LedgerInv' /\ Grows
  <1>1. CASE LedgerStep
    <2>1. CASE RecordLanes
      BY <2>1, AppendKept, LanesKept DEF RecordLanes, BothLanes
    <2>2. CASE HandStep
      BY <2>2, AppendKept DEF HandStep
    <2>3. QED
      BY <1>1, <2>1, <2>2, AppendKept, SealKept DEF LedgerStep
  <1>2. CASE ~ LedgerStep
    <2>1. UNCHANGED ledgerVars
      BY <1>2, StepKinds DEF ContractStep, EvidenceStep, vars, ledgerVars
    <2>2. QED
      BY <2>1, LedgerKept
  <1>3. QED
    BY <1>1, <1>2

-----------------------------------------------------------------------------
(* The lanes *)

\* The parts about the events hold in a step that records no decision on a lane, but
\* by hand.
LEMMA LaneEventsStay ==
    ASSUME LaneInv, Events \subseteq Events',
           \A e \in Events' \ Events : e.type # "lane-applicability" \/ e.id[1] # "lane"
    PROVE  LanesAgree' /\ (packet' = packet => CleanWasRequired')
  <1>1. LanesAgree'
    BY DEF LaneInv, LanesAgree
  <1>2. packet' = packet => CleanWasRequired'
    BY DEF LaneInv, CleanWasRequired
  <1>3. QED
    BY <1>1, <1>2

\* Whatever recordClarifyLanes found decided, both lanes are decided as the facts say
\* when it is done.
LEMMA LanesDecided ==
    ASSUME TypeOK, LedgerInv, RecordLanes
    PROVE  /\ Events \subseteq Events'
           /\ \A e \in Events' \ Events : e.target[3] = Facts
           /\ \A lane \in Lane : \E f \in Events' :
                 /\ f.type = "lane-applicability" /\ f.target = <<"lane", lane, Facts>>
                 /\ f.selected = Selection(lane, Facts)
  <1>1. \A lane \in Lane : /\ LaneEvent(lane).type = "lane-applicability"
                           /\ LaneEvent(lane).target = <<"lane", lane, Facts>>
                           /\ LaneEvent(lane).selected = Selection(lane, Facts)
                           /\ LaneEvent(lane).target[3] = Facts
    BY DEF LaneEvent
  <1>2. CASE BothLanes
    <2>1. Events' = Events \union {LaneEvent("code"), LaneEvent("docs")}
      BY <1>2, LanesKept
    <2>2. QED
      BY <1>1, <2>1 DEF Lane
  <1>3. CASE OneLane
    <2>1. PICK lane \in Lane, other \in Lane : LaneTarget(other) # {} /\ Append1(LaneEvent(lane))
      BY <1>3 DEF OneLane
    <2>2. Events' = Events \union {LaneEvent(lane)}
      BY <2>1, AppendKept
    <2>3. PICK g \in Events : /\ g.type = "lane-applicability"
                              /\ g.target = <<"lane", other, Facts>>
                              /\ g.selected = Selection(other, Facts)
      BY <1>3, <2>1 DEF OneLane, LaneTarget
    <2>4. other # lane
      BY <1>1, <2>1, <2>3 DEF Append1, Appendable, Unresolved
    <2>5. Lane = {lane, other}
      BY <2>4 DEF Lane
    <2>6. QED
      BY <1>1, <2>2, <2>3, <2>5
  <1>4. QED
    BY <1>2, <1>3 DEF RecordLanes, BothLanes, OneLane

LEMMA LaneStepLedger ==
    ASSUME TypeOK, LedgerInv, LaneInv, LedgerStep
    PROVE  LaneInv'
  <1>1. req' = req /\ packet' = packet
    BY DEF LedgerStep, evidenceVars
  <1>2. ClosedIsClean'
    BY <1>1 DEF LaneInv, ClosedIsClean, RequiredLanes, Facts
  <1>3. ASSUME NEW e, Append1(e), e.type # "lane-applicability"
        PROVE  LanesAgree' /\ CleanWasRequired'
    BY <1>1, <1>3, AppendKept, LaneEventsStay
  <1>4. CASE HandStep
    <2>1. PICK lane \in Lane, of \in FactSection \union {req}, input \in {req, Nothing},
               selected \in {"required", "not-required"} :
                  Append1(HandWrittenLane(lane, of, selected, input))
      BY <1>4 DEF HandStep
    <2>2. HandWrittenLane(lane, of, selected, input).id[1] # "lane"
      BY DEF HandWrittenLane
    <2>3. Events' = Events \union {HandWrittenLane(lane, of, selected, input)}
      BY <2>1, AppendKept
    <2>4. QED
      BY <1>1, <1>2, <2>2, <2>3, LaneEventsStay DEF LaneInv
  <1>5. CASE RecordLanes
    <2>1. /\ Events \subseteq Events'
          /\ \A e \in Events' \ Events : e.target[3] = Facts
          /\ \A lane \in Lane : \E f \in Events' :
                /\ f.type = "lane-applicability" /\ f.target = <<"lane", lane, Facts>>
                /\ f.selected = Selection(lane, Facts)
      BY <1>5, LanesDecided
    <2>2. LanesAgree'
      <3> SUFFICES ASSUME NEW e \in Events', e.type = "lane-applicability", e.id[1] = "lane",
                          NEW lane \in Lane
                   PROVE  \E f \in Events' :
                             /\ f.type = e.type /\ f.target = <<"lane", lane, e.target[3]>>
                             /\ f.selected = Selection(lane, e.target[3])
        BY DEF LanesAgree
      <3>1. CASE e \in Events
        BY <2>1, <3>1 DEF LaneInv, LanesAgree
      <3>2. CASE e \notin Events
        BY <2>1, <3>2
      <3>3. QED
        BY <3>1, <3>2
    <2>3. CleanWasRequired'
      BY <1>1, <2>1 DEF LaneInv, CleanWasRequired
    <2>4. QED
      BY <1>2, <2>2, <2>3 DEF LaneInv
  <1>6. CASE (\E n \in 0 .. Len(ledger) : SealBegin(n)) \/ SealEnd \/ SealDie
    BY <1>1, <1>2, <1>6, SealKept, LaneEventsStay DEF LaneInv
  <1>7. QED
    BY <1>2, <1>3, <1>4, <1>5, <1>6 DEF LaneInv, LedgerStep

\* Research is done in an open lane, or in a closed one that was researched before.
LEMMA LaneStepResearch ==
    ASSUME TypeOK, LaneInv, Events' = Events,
           NEW lane \in Lane, NEW o \in Packet, Research(lane, o)
    PROVE  LaneInv'
  <1>1. /\ req' = req
        /\ packet' = [packet EXCEPT ![lane] = @ \union {o}]
    BY DEF Research
  <1>2. packet \in [Lane -> SUBSET Packet]
    BY DEF TypeOK
  <1>3. \A l \in Lane : packet[l] \subseteq packet'[l] /\ (l # lane => packet'[l] = packet[l])
    BY <1>1, <1>2
  <1>4. LanesAgree'
    BY DEF LaneInv, LanesAgree
  <1>5. ClosedIsClean'
    BY <1>1, <1>3 DEF LaneInv, ClosedIsClean, RequiredLanes, Facts, Lane
  <1>6. PICK e \in Events : /\ e.type = "lane-applicability"
                            /\ e.target = <<"lane", lane, Facts>>
                            /\ e.selected = "required"
    BY DEF Research, Dispatchable, LaneTarget
  <1>7. Facts \in FactSection /\ Facts.closed = req.closed
    BY DEF TypeOK, Requirements, FactSection, Facts
  <1>8. CleanWasRequired'
    <2> SUFFICES ASSUME NEW k \in Lane, "clean" \in packet'[k]
                 PROVE  \E g \in Events, f \in FactSection :
                           /\ g.type = "lane-applicability" /\ g.selected = "required"
                           /\ g.target = <<"lane", k, f>>
                           /\ ~ (f.closed /\ Selection(k, f) = "required")
      BY DEF CleanWasRequired
    <2>1. CASE "clean" \in packet[k]
      BY <2>1 DEF LaneInv, CleanWasRequired
    <2>2. CASE "clean" \notin packet[k]
      <3>1. k = lane
        BY <2>2, <1>3
      <3>2. ~ (Facts.closed /\ Selection(k, Facts) = "required")
        BY <2>2, <1>7 DEF LaneInv, ClosedIsClean, RequiredLanes
      <3>3. QED
        BY <3>1, <3>2, <1>6, <1>7
    <2>3. QED
      BY <2>1, <2>2
  <1>9. QED
    BY <1>4, <1>5, <1>8 DEF LaneInv

LEMMA LaneStays ==
    ASSUME TypeOK, LedgerInv, LaneInv, [Next]_vars
    PROVE  LaneInv'
  <1>1. CASE LedgerStep
    BY <1>1, LaneStepLedger
  <1>2. CASE ~ LedgerStep
    <2>1. Events' = Events
      BY <1>2, StepKinds DEF ContractStep, EvidenceStep, vars, ledgerVars, Events
    <2>2. LanesAgree' /\ (packet' = packet => CleanWasRequired')
      BY <2>1, LaneEventsStay
    <2>3. ASSUME packet' = packet, req'.docs = req.docs, req'.closed => req.closed
          PROVE  LaneInv'
      BY <2>2, <2>3 DEF LaneInv, ClosedIsClean, RequiredLanes, Facts, Selection
    <2>4. ASSUME packet' = packet, req' = req PROVE LaneInv'
      BY <2>3, <2>4
    <2>5. CASE ContractStep \/ UNCHANGED vars
      BY <2>4, <2>5 DEF ContractStep, vars, evidenceVars
    <2>6. CASE EditFacts
      <3>1. packet' = packet /\ req' = [req EXCEPT !.docs = ~ req.docs, !.closed = FALSE]
        BY <2>6 DEF EditFacts
      <3>2. ~ req'.closed
        BY <3>1 DEF TypeOK, Requirements
      <3>3. QED
        BY <2>2, <3>1, <3>2 DEF LaneInv, ClosedIsClean
    <2>7. CASE EditBody \/ Synthesize
      <3>1. packet' = packet /\ req'.docs = req.docs /\ req'.closed = req.closed
        BY <2>7 DEF EditBody, Synthesize, TypeOK, Requirements
      <3>2. QED
        BY <2>3, <3>1
    <2>8. CASE SyncLanes \/ OtherCommit \/ \E named \in {{}, {req}} : AssessDebt(named)
      BY <2>4, <2>8 DEF SyncLanes, AssessDebt, OtherCommit
    <2>9. CASE CloseResearch
      <3>1. /\ packet' = packet /\ req'.docs = req.docs
            /\ \A lane \in RequiredLanes : "clean" \in packet[lane]
        BY <2>9 DEF CloseResearch, TypeOK, Requirements
      <3>2. QED
        BY <2>2, <3>1 DEF LaneInv, ClosedIsClean, RequiredLanes, Facts, Selection
    <2>10. ASSUME NEW lane \in Lane, NEW o \in Packet, Research(lane, o) PROVE LaneInv'
      BY <2>1, <2>10, LaneStepResearch
    <2>11. ASSUME NEW p \in Proc, PersistStep(p) PROVE LaneInv'
      <3>1. packet' = packet /\ req' = req
        BY <2>11 DEF PersistStep, PersistBegin, PersistRefused, PersistWrite, PersistCommit,
                     PersistRollback, PersistDie
      <3>2. QED
        BY <2>4, <3>1
    <2>12. QED
      BY <1>2, <2>5, <2>6, <2>7, <2>8, <2>9, <2>10, <2>11, StepKinds DEF EvidenceStep
  <1>3. QED
    BY <1>1, <1>2

-----------------------------------------------------------------------------
(* The classification: what it was routed by, and its file *)

Begins(p) ==
    /\ job[p].pc = "idle" /\ job'[p].pc = "begun" /\ Routed(job'[p].new)
    /\ UNCHANGED <<classification, reference, deaths>>

Refused(p) ==
    /\ job[p].pc = "begun" /\ job'[p].pc = "idle"
    /\ UNCHANGED <<classification, reference, deaths>>

Writes(p) ==
    /\ job[p].pc = "begun" /\ ~ Locked
    /\ job'[p].pc = "written"
    /\ job'[p].new = job[p].new /\ job'[p].previous = classification
    /\ classification' = job[p].new
    /\ UNCHANGED <<reference, deaths>>

Commits(p) ==
    /\ job[p].pc = "written" /\ job'[p].pc = "idle"
    /\ reference' = job[p].new
    /\ UNCHANGED <<classification, deaths>>

RollsBack(p) ==
    /\ job[p].pc = "written" /\ job'[p].pc = "idle"
    /\ classification' = job[p].previous
    /\ UNCHANGED <<reference, deaths>>

Dies(p) ==
    /\ job[p].pc = "written" /\ job'[p].pc = "idle"
    /\ deaths' = deaths + 1
    /\ UNCHANGED <<classification, reference>>

\* The steps of a process, without how its entry of job is updated
LEMMA PersistDoes ==
    ASSUME TypeOK, NEW p \in Proc, PersistStep(p)
    PROVE  /\ \A q \in Proc \ {p} : job'[q] = job[q]
           /\ Begins(p) \/ Refused(p) \/ Writes(p) \/ Commits(p) \/ RollsBack(p) \/ Dies(p)
  <1>1. job \in [Proc -> Job \union {Idle}]
    BY DEF TypeOK
  <1>2. ASSUME NEW x, job' = [job EXCEPT ![p] = x]
        PROVE  job'[p] = x /\ \A q \in Proc \ {p} : job'[q] = job[q]
    BY <1>1, <1>2
  <1>3. Idle.pc = "idle"
    BY DEF Idle
  <1>4. ASSUME NEW t \in Tier, PersistBegin(p, t)
        PROVE  Begins(p) /\ \A q \in Proc \ {p} : job'[q] = job[q]
    <2> DEFINE c == [tier |-> t, inputs |-> Inputs]
               x == [pc |-> "begun", new |-> c, rev |-> revision, previous |-> Nothing]
    <2>1. job[p].pc = "idle" /\ ArtifactValid(c) /\ job' = [job EXCEPT ![p] = x]
          /\ UNCHANGED <<classification, reference, deaths>>
      BY <1>4 DEF PersistBegin, Others, contractVars
    <2>2. x.pc = "begun" /\ x.new = c
      OBVIOUS
    <2>3. Routed(c)
      <3>1. /\ c.inputs = Inputs /\ c.tier = t
            /\ Inputs.snapshot = snapshot /\ Inputs.req = req /\ Inputs.debt = debt
        BY DEF Inputs
      <3>2. /\ snapshot # 0 /\ debt \subseteq {req} /\ req.closed
            /\ \E e \in Events : /\ e.type = "classification-route"
                                 /\ e.selected = c.tier /\ e.input = c.inputs
        BY <2>1 DEF ArtifactValid, ReadableSnapshot, IsSnapshot, DebtValid, FactGate
      <3> HIDE DEF c
      <3>3. QED
        BY <3>1, <3>2 DEF Routed, Sealed
    <2> HIDE DEF x, c
    <2>4. QED
      BY <1>2, <2>1, <2>2, <2>3 DEF Begins
  <1>5. CASE PersistRefused(p)
    <2>1. /\ job[p].pc = "begun" /\ job' = [job EXCEPT ![p] = Idle]
          /\ UNCHANGED <<classification, reference, deaths>>
      BY <1>5 DEF PersistRefused, Others, contractVars
    <2>2. QED
      BY <1>2, <1>3, <2>1 DEF Refused
  <1>6. CASE PersistWrite(p)
    <2> DEFINE x == [job[p] EXCEPT !.pc = "written", !.previous = classification]
    <2>1. /\ job[p].pc = "begun" /\ ~ Locked /\ classification' = job[p].new
          /\ job' = [job EXCEPT ![p].pc = "written", ![p].previous = classification]
          /\ UNCHANGED <<reference, deaths>>
      BY <1>6 DEF PersistWrite, Others, contractVars
    <2>2. job' = [job EXCEPT ![p] = x]
      BY <1>1, <2>1
    <2>3. job[p] \in Job
      BY <1>1, <1>3, <2>1
    <2>4. x.pc = "written" /\ x.new = job[p].new /\ x.previous = classification
      BY <2>3 DEF Job
    <2> HIDE DEF x
    <2>5. QED
      BY <1>2, <2>1, <2>2, <2>4 DEF Writes
  <1>7. CASE PersistCommit(p)
    <2>1. /\ job[p].pc = "written" /\ job' = [job EXCEPT ![p] = Idle]
          /\ reference' = job[p].new
          /\ UNCHANGED <<classification, deaths>>
      BY <1>7 DEF PersistCommit, Others, contractVars
    <2>2. QED
      BY <1>2, <1>3, <2>1 DEF Commits
  <1>8. CASE PersistRollback(p)
    <2>1. /\ job[p].pc = "written" /\ job' = [job EXCEPT ![p] = Idle]
          /\ classification' = job[p].previous
          /\ UNCHANGED <<reference, deaths>>
      BY <1>8 DEF PersistRollback, Others, contractVars
    <2>2. QED
      BY <1>2, <1>3, <2>1 DEF RollsBack
  <1>9. CASE PersistDie(p)
    <2>1. /\ job[p].pc = "written" /\ job' = [job EXCEPT ![p] = Idle]
          /\ deaths' = deaths + 1
          /\ UNCHANGED <<classification, reference>>
      BY <1>9 DEF PersistDie
    <2>2. QED
      BY <1>2, <1>3, <2>1 DEF Dies
  <1>10. QED
    BY <1>4, <1>5, <1>6, <1>7, <1>8, <1>9 DEF PersistStep

\* All other steps leave the classification to the processes that persist it.
LEMMA OthersPersistNothing ==
    ASSUME TypeOK, [Next]_vars, \A p \in Proc : ~ PersistStep(p)
    PROVE  UNCHANGED <<classification, reference, job>> /\ deaths' \in {deaths, deaths + 1}
  <1>2. CASE LedgerStep \/ UNCHANGED vars
    BY <1>2 DEF LedgerStep, vars, contractVars, evidenceVars
  <1>3. CASE ContractStep
    BY <1>3 DEF ContractStep, evidenceVars, Touch, Assess, Propose, ApplyCheck, ApplyWrite,
                      ApplyReceipt, ApplyAssess, ApplyDie
  <1>4. CASE EvidenceStep
    <2>1. CASE \/ EditFacts \/ EditBody \/ SyncLanes \/ CloseResearch
               \/ Synthesize \/ OtherCommit \/ \E named \in {{}, {req}} : AssessDebt(named)
      BY <2>1 DEF EditFacts, EditBody, SyncLanes, CloseResearch, Synthesize, AssessDebt,
                  OtherCommit, Others, contractVars
    <2>2. ASSUME NEW lane \in Lane, NEW o \in Packet, Research(lane, o)
          PROVE  UNCHANGED <<classification, reference, job, deaths>>
      BY <2>2 DEF Research, Others, contractVars
    <2>3. QED
      BY <1>4, <2>1, <2>2 DEF EvidenceStep
  <1>5. QED
    BY <1>2, <1>3, <1>4, StepKinds

\* A route that was taken remains, however the ledger and the snapshots grow.
RoutedNext(c) ==
    /\ \E e \in Events' : /\ e.type = "classification-route"
                          /\ e.selected = c.tier /\ e.input = c.inputs
    /\ c.inputs.snapshot \in Sealed'
    /\ c.inputs.req.closed
    /\ c.inputs.debt \subseteq {c.inputs.req}

LEMMA RoutedStays ==
    ASSUME Grows
    PROVE  \A c : Routed(c) => RoutedNext(c)
  BY DEF Grows, Routed, RoutedNext

LEMMA RouteStays ==
    ASSUME TypeOK, RouteInv, Grows, [Next]_vars
    PROVE  RouteInv'
  <1> SUFFICES /\ reference' # Nothing => Routed(reference')
               /\ \A p \in Proc : job'[p].pc # "idle" => Routed(job'[p].new)
    BY RoutedStays DEF RouteInv, Routed, RoutedNext
  <1>1. CASE \A p \in Proc : ~ PersistStep(p)
    BY <1>1, OthersPersistNothing DEF RouteInv
  <1>2. ASSUME NEW p \in Proc, PersistStep(p)
        PROVE  /\ reference' # Nothing => Routed(reference')
               /\ \A q \in Proc : job'[q].pc # "idle" => Routed(job'[q].new)
    <2>1. \A q \in Proc \ {p} : job'[q] = job[q]
      BY <1>2, PersistDoes
    <2>2. CASE Begins(p)
      BY <2>1, <2>2 DEF Begins, RouteInv
    <2>3. CASE Refused(p) \/ RollsBack(p) \/ Dies(p)
      BY <2>1, <2>3 DEF Refused, RollsBack, Dies, RouteInv
    <2>4. CASE Writes(p)
      BY <2>1, <2>4 DEF Writes, RouteInv
    <2>5. CASE Commits(p)
      BY <2>1, <2>5 DEF Commits, RouteInv
    <2>6. QED
      BY <1>2, <2>2, <2>3, <2>4, <2>5, PersistDoes
  <1>3. QED
    BY <1>1, <1>2

LEMMA FileStays ==
    ASSUME TypeOK, FileInv, [Next]_vars
    PROVE  FileInv'
  <1>1. deaths \in Nat
    BY DEF TypeOK, ContractTypeOK
  <1>2. CASE \A p \in Proc : ~ PersistStep(p)
    <2>1. UNCHANGED <<classification, reference, job>> /\ deaths' \in {deaths, deaths + 1}
      BY <1>2, OthersPersistNothing
    <2>2. QED
      BY <1>1, <2>1 DEF FileInv, FileIsReferenced, Locked
  <1>3. ASSUME NEW p \in Proc, PersistStep(p) PROVE FileInv'
    <2>1. \A q \in Proc \ {p} : job'[q] = job[q]
      BY <1>3, PersistDoes
    <2>2. CASE Begins(p) \/ Refused(p)
      BY <2>1, <2>2 DEF Begins, Refused, FileInv, FileIsReferenced, Locked
    <2>3. CASE Writes(p)
      <3>1. \A q \in Proc : job'[q].pc = "written" => q = p
        BY <2>1, <2>3 DEF Writes, Locked
      <3>2. deaths' = 0 => job'[p].previous = reference'
        BY <1>1, <2>3 DEF Writes, FileInv, FileIsReferenced
      <3>3. QED
        BY <2>3, <3>1, <3>2 DEF Writes, FileInv, FileIsReferenced, Locked
    <2>4. CASE Commits(p) \/ RollsBack(p) \/ Dies(p)
      <3>1. \A q \in Proc : job'[q].pc # "written"
        BY <2>1, <2>4 DEF Commits, RollsBack, Dies, FileInv
      <3>2. classification' # reference' => deaths' > 0
        BY <1>1, <2>4 DEF Commits, RollsBack, Dies, FileInv
      <3>3. QED
        BY <3>1, <3>2 DEF FileInv, FileIsReferenced
    <2>5. QED
      BY <1>3, <2>2, <2>3, <2>4, PersistDoes
  <1>4. QED
    BY <1>2, <1>3

-----------------------------------------------------------------------------
(* The application of proposals *)

\* A proposal that was approved remains so.
ApprovedNext(p) ==
    /\ proposed'[p] # Nothing
    /\ [id |-> <<"approval", p, "approve">>, type |-> "project-contract-proposal-approval",
        target |-> <<"proposal", p>>, selected |-> "approve", input |-> proposed'[p]] \in Events'

LEMMA ApprovedStays ==
    ASSUME Grows, NEW p, Approved(p), proposed'[p] = proposed[p]
    PROVE  ApprovedNext(p)
  BY DEF Grows, Approved, Approval, ApprovedNext

LEMMA ApprovedRecorded ==
    ASSUME NEW p, Approved(p)
    PROVE  Approval(p, "approve") \in Events
  BY DEF Approved

\* Steps of others do not disturb it, nor does one more proposal.
LEMMA ContractKept ==
    ASSUME TypeOK, ContractInv, Grows,
           UNCHANGED <<instruction, receipt, assessment, applying, touches>>,
           \A p \in Proposal : proposed'[p] = proposed[p] \/ proposed[p] = Nothing
    PROVE  ContractInv'
  <1>1. \A p \in Proposal : Approved(p) => ApprovedNext(p) /\ proposed'[p] = proposed[p]
    BY ApprovedStays DEF Approved
  <1>2. applying # Nothing => applying.proposal \in Proposal
    BY DEF TypeOK, ContractTypeOK
  <1>3. assessment # Nothing /\ assessment.by # Nothing => assessment.by \in Proposal
    BY DEF TypeOK, ContractTypeOK, Assessment
  <1>4. ApplyingIsApproved'
    BY <1>1, <1>2 DEF ContractInv, ApplyingIsApproved, Approved, ApprovedNext, Approval, Required
  <1>5. UntouchedIsExact'
    BY DEF ContractInv, UntouchedIsExact
  <1>6. SettledIsApproved'
    BY <1>1, <1>3 DEF ContractInv, SettledIsApproved, Approved, ApprovedNext, Approval
  <1>7. SettledByReceipt'
    BY <1>6 DEF ContractInv, SettledIsApproved, SettledByReceipt, Approved, Approval
  <1>8. QED
    BY <1>4, <1>5, <1>6, <1>7 DEF ContractInv

\* The application: what it is at, and where it goes
LEMMA ApplyingRecord ==
    ASSUME TypeOK, applying # Nothing, NEW s
    PROVE  /\ applying.proposal \in Proposal /\ applying.read \in Content
           /\ applying.step \in {"checked", "written", "receipt"}
           /\ [applying EXCEPT !.step = s].step = s
           /\ [applying EXCEPT !.step = s].proposal = applying.proposal
           /\ [applying EXCEPT !.step = s].read = applying.read
           /\ \A r : /\ [applying EXCEPT !.step = s, !.read = r].step = s
                     /\ [applying EXCEPT !.step = s, !.read = r].proposal = applying.proposal
                     /\ [applying EXCEPT !.step = s, !.read = r].read = r
  BY DEF TypeOK, ContractTypeOK

LEMMA ContractStepKept ==
    ASSUME TypeOK, ContractInv, Grows, ContractStep
    PROVE  ContractInv'
  <1>1. touches \in Nat
    BY DEF TypeOK, ContractTypeOK
  <1>2. \A p \in Proposal : Approved(p) /\ proposed'[p] = proposed[p] => ApprovedNext(p)
    BY ApprovedStays
  <1>3. assessment # Nothing /\ assessment.by # Nothing => assessment.by \in Proposal
    BY DEF TypeOK, ContractTypeOK, Assessment
  <1>4. ASSUME proposed' = proposed, assessment' = assessment
        PROVE  SettledIsApproved'
    BY <1>2, <1>3, <1>4 DEF ContractInv, SettledIsApproved, Approved, ApprovedNext, Approval
  <1>5. ASSUME proposed' = proposed, assessment' = assessment, SettledIsApproved',
               \A p \in Proposal : receipt[p] # Nothing => receipt'[p] = receipt[p],
               touches' = touches \/ touches' # 0
        PROVE  SettledByReceipt'
    BY <1>3, <1>5 DEF ContractInv, SettledIsApproved, SettledByReceipt, Approved, Approval
  <1>6. ASSUME applying' = Nothing PROVE ApplyingIsApproved'
    BY <1>6 DEF ApplyingIsApproved
  <1>7. CASE Touch
    <2>1. /\ touches' = touches + 1
          /\ UNCHANGED <<proposed, receipt, assessment, applying>>
      BY <1>7 DEF Touch
    <2>2. applying # Nothing => applying.proposal \in Proposal
      BY DEF TypeOK, ContractTypeOK
    <2>3. ApplyingIsApproved'
      BY <1>2, <2>1, <2>2 DEF ContractInv, ApplyingIsApproved, Approved, ApprovedNext, Approval,
                              Required
    <2>4. UntouchedIsExact'
      BY <1>1, <2>1 DEF UntouchedIsExact
    <2>5. QED
      BY <1>1, <1>4, <1>5, <2>1, <2>3, <2>4 DEF ContractInv
  <1>8. ASSUME NEW gaps \in SUBSET Gap, Assess(gaps) PROVE ContractInv'
    <2>1. /\ applying = Nothing /\ assessment' = HandWritten(gaps)
          /\ HandWritten(gaps).by = Nothing
          /\ UNCHANGED <<instruction, proposed, receipt, applying, touches>>
      BY <1>8 DEF Assess, HandWritten
    <2>2. assessment'.by = Nothing
      BY <2>1
    <2>3. SettledIsApproved' /\ SettledByReceipt'
      BY <2>2 DEF SettledIsApproved, SettledByReceipt
    <2>4. UntouchedIsExact'
      BY <2>1 DEF ContractInv, UntouchedIsExact
    <2>5. QED
      BY <1>6, <2>1, <2>3, <2>4 DEF ContractInv
  <1>9. ASSUME NEW p \in Proposal, Propose(p) PROVE ContractInv'
    <2>1. /\ proposed[p] = Nothing
          /\ \A q \in Proposal \ {p} : proposed'[q] = proposed[q]
          /\ UNCHANGED <<instruction, receipt, assessment, applying, touches>>
      BY <1>9 DEF Propose, TypeOK, ContractTypeOK
    <2>2. QED
      BY <2>1, ContractKept
  <1>10. ASSUME NEW p \in Proposal, ApplyCheck(p) PROVE ContractInv'
    <2>1. /\ Approved(p) /\ Required
          /\ instruction = p \/ proposed[p].target = instruction
          /\ applying' = [proposal |-> p, step |-> "checked", read |-> instruction]
          /\ UNCHANGED <<instruction, proposed, receipt, assessment, touches>>
      BY <1>10 DEF ApplyCheck, Matches, ProposalValid
    <2>2. ApprovedNext(p)
      BY <1>2, <2>1
    <2>3. ApplyingIsApproved'
      BY <2>1, <2>2 DEF ApplyingIsApproved, Approved, ApprovedNext, Approval, Required
    <2>4. UntouchedIsExact'
      BY <2>1 DEF ContractInv, UntouchedIsExact
    <2>5. QED
      BY <1>4, <1>5, <2>1, <2>3, <2>4 DEF ContractInv
  <1>11. CASE ApplyWrite
    <2>1. /\ applying # Nothing /\ applying.step = "checked"
          /\ instruction' = IF applying.read = applying.proposal THEN instruction
                                                                ELSE applying.proposal
          /\ applying' = [applying EXCEPT !.step = "written"]
          /\ UNCHANGED <<proposed, receipt, assessment, touches>>
      BY <1>11 DEF ApplyWrite
    <2>2. /\ applying'.step = "written" /\ applying'.proposal = applying.proposal
          /\ applying.proposal \in Proposal
      BY <2>1, ApplyingRecord
    <2>3. ApplyingIsApproved'
      BY <1>2, <2>1, <2>2 DEF ContractInv, ApplyingIsApproved, Approved, ApprovedNext, Approval,
                              Required
    <2>4. UntouchedIsExact'
      BY <2>1, <2>2 DEF ContractInv, UntouchedIsExact
    <2>5. QED
      BY <1>4, <1>5, <2>1, <2>3, <2>4 DEF ContractInv
  <1>12. CASE ApplyReceipt
    <2> DEFINE p == applying.proposal
    <2>1. /\ applying # Nothing /\ applying.step = "written"
          /\ receipt' = [receipt EXCEPT ![p] = IF @ = Nothing THEN instruction ELSE @]
          /\ applying' = [applying EXCEPT !.step = "receipt", !.read = instruction]
          /\ UNCHANGED <<instruction, proposed, assessment, touches>>
      BY <1>12 DEF ApplyReceipt
    <2>2. /\ applying'.step = "receipt" /\ applying'.proposal = p
          /\ applying'.read = instruction /\ p \in Proposal
      BY <2>1, ApplyingRecord
    <2>3. /\ receipt'[p] = IF receipt[p] = Nothing THEN instruction ELSE receipt[p]
          /\ \A q \in Proposal \ {p} : receipt'[q] = receipt[q]
      BY <2>1, <2>2 DEF TypeOK, ContractTypeOK
    <2> HIDE DEF p
    <2>4. ApplyingIsApproved'
      BY <1>2, <2>1, <2>2 DEF ContractInv, ApplyingIsApproved, Approved, ApprovedNext, Approval,
                              Required, p
    <2>5. UntouchedIsExact'
      <3>1. touches' = touches /\ (touches = 0 => instruction = p)
        BY <2>1 DEF ContractInv, UntouchedIsExact, p
      <3>2. touches = 0 => \A q \in Proposal : receipt'[q] # Nothing => receipt'[q] = q
        BY <2>2, <2>3, <3>1 DEF ContractInv, UntouchedIsExact
      <3>3. QED
        BY <2>1, <2>2, <3>1, <3>2 DEF UntouchedIsExact
    <2>6. \A q \in Proposal : receipt[q] # Nothing => receipt'[q] = receipt[q]
      BY <2>3
    <2>7. QED
      BY <1>4, <1>5, <2>1, <2>4, <2>5, <2>6 DEF ContractInv
  <1>13. CASE ApplyAssess
    <2> DEFINE p == applying.proposal
               next == NextAssessment(p)
    <2>1. /\ applying # Nothing /\ applying.step = "receipt" /\ applying' = Nothing
          /\ assessment' = IF Valid(next) THEN next ELSE assessment
          /\ UNCHANGED <<instruction, proposed, receipt, touches>>
      BY <1>13 DEF ApplyAssess
    <2>2. p \in Proposal
      BY <2>1, ApplyingRecord
    <2>3. UntouchedIsExact'
      BY <2>1 DEF ContractInv, UntouchedIsExact
    <2>4. CASE ~ Valid(next)
      BY <1>4, <1>5, <1>6, <2>1, <2>3, <2>4 DEF ContractInv
    <2>5. CASE Valid(next)
      <3>1. /\ next.file = applying.read /\ next.by \in {p, Nothing}
        BY DEF NextAssessment
      <3>2. next.by # Nothing => receipt[next.by] # Nothing
        BY <2>5 DEF Valid
      <3>3. Approved(p) /\ (touches = 0 => applying.read = p)
        BY <2>1 DEF ContractInv, ApplyingIsApproved, UntouchedIsExact
      <3> HIDE DEF next, p
      <3>4. assessment' = next
        BY <2>1, <2>5
      <3>5. ApprovedNext(p)
        BY <1>2, <2>1, <2>2, <3>3
      <3>6. SettledIsApproved'
        BY <2>1, <3>1, <3>4, <3>5 DEF SettledIsApproved, Approved, ApprovedNext, Approval
      <3>7. touches = 0 => \A q \in Proposal : receipt[q] # Nothing => receipt[q] = q
        BY DEF ContractInv, UntouchedIsExact
      <3>8. SettledByReceipt'
        BY <2>1, <2>2, <3>1, <3>2, <3>3, <3>4, <3>6, <3>7
           DEF SettledIsApproved, SettledByReceipt, Approved, Approval
      <3>9. QED
        BY <1>6, <2>1, <2>3, <3>6, <3>8 DEF ContractInv
    <2>6. QED
      BY <2>4, <2>5
  <1>14. CASE ApplyDie
    <2>1. applying' = Nothing /\ UNCHANGED <<instruction, proposed, receipt, assessment, touches>>
      BY <1>14 DEF ApplyDie
    <2>2. UntouchedIsExact'
      BY <2>1 DEF ContractInv, UntouchedIsExact
    <2>3. QED
      BY <1>4, <1>5, <1>6, <2>1, <2>2 DEF ContractInv
  <1>15. QED
    BY <1>7, <1>8, <1>9, <1>10, <1>11, <1>12, <1>13, <1>14 DEF ContractStep

LEMMA ContractStays ==
    ASSUME TypeOK, ContractInv, Grows, [Next]_vars
    PROVE  ContractInv'
  <1>1. CASE ContractStep
    BY <1>1, ContractStepKept
  <1>2. CASE LedgerStep \/ EvidenceStep \/ UNCHANGED vars
    <2>1. UNCHANGED <<instruction, proposed, receipt, assessment, applying, touches>>
      BY <1>2 DEF LedgerStep, EvidenceStep, vars, contractVars
    <2>2. QED
      BY <2>1, ContractKept
  <1>3. QED
    BY <1>1, <1>2, StepKinds

-----------------------------------------------------------------------------
(* Types *)

EvidenceTypeOK ==
    /\ req \in Requirements /\ laneInput \in Requirements \union {Nothing}
    /\ debt \in (SUBSET Requirements) \union {Nothing}
    /\ packet \in [Lane -> SUBSET Packet]
    /\ {classification, reference} \subseteq Classification \union {Nothing}
    /\ revision \in 0 .. MaxRevision
    /\ job \in [Proc -> Job \union {Idle}]

LEMMA ContractTypes ==
    ASSUME TypeOK, ContractInv, ContractStep
    PROVE  ContractTypeOK'
  <1> USE BoundsAssumption
  <1>1. /\ instruction \in Content
        /\ assessment \in Assessment \union {Nothing}
        /\ proposed \in [Proposal -> [target : Content, assessment : Assessment] \union {Nothing}]
        /\ receipt \in [Proposal -> Content \union {Nothing}]
        /\ applying \in {Nothing} \union
             [proposal : Proposal, step : {"checked", "written", "receipt"}, read : Content]
        /\ touches \in 0 .. MaxTouch /\ deaths \in 0 .. MaxDeaths
    BY DEF TypeOK, ContractTypeOK
  <1>2. CASE Touch
    BY <1>1, <1>2 DEF Touch, ContractTypeOK, Content
  <1>3. ASSUME NEW gaps \in SUBSET Gap, Assess(gaps) PROVE ContractTypeOK'
    <2>1. HandWritten(gaps) \in Assessment
      BY <1>1 DEF HandWritten, Assessment
    <2>2. QED
      BY <1>1, <1>3, <2>1 DEF Assess, ContractTypeOK
  <1>4. ASSUME NEW p \in Proposal, Propose(p) PROVE ContractTypeOK'
    <2>1. assessment \in Assessment
      BY <1>1, <1>4 DEF Propose, Required
    <2>2. [target |-> instruction, assessment |-> assessment] \in
          [target : Content, assessment : Assessment]
      BY <1>1, <2>1
    <2>3. proposed' \in [Proposal -> [target : Content, assessment : Assessment] \union {Nothing}]
      BY <1>1, <1>4, <2>2 DEF Propose
    <2>4. QED
      BY <1>1, <1>4, <2>3 DEF Propose, ContractTypeOK
  <1>5. ASSUME NEW p \in Proposal, ApplyCheck(p) PROVE ContractTypeOK'
    BY <1>1, <1>5 DEF ApplyCheck, ContractTypeOK
  <1>6. CASE ApplyWrite
    <2>1. applying.proposal \in Content
      BY <1>1, <1>6 DEF ApplyWrite, Content
    <2>2. QED
      BY <1>1, <1>6, <2>1 DEF ApplyWrite, ContractTypeOK
  <1>7. CASE ApplyReceipt
    <2>1. receipt' \in [Proposal -> Content \union {Nothing}]
      BY <1>1, <1>7 DEF ApplyReceipt
    <2>2. applying' \in
          [proposal : Proposal, step : {"checked", "written", "receipt"}, read : Content]
      BY <1>1, <1>7 DEF ApplyReceipt
    <2>3. QED
      BY <1>1, <1>7, <2>1, <2>2 DEF ApplyReceipt, ContractTypeOK
  <1>8. CASE ApplyAssess
    <2>1. applying # Nothing /\ assessment \in Assessment
      BY <1>1, <1>8 DEF ApplyAssess, ContractInv, ApplyingIsApproved, Required
    <2>2. NextAssessment(applying.proposal) \in Assessment
      BY <1>1, <2>1 DEF NextAssessment, Assessment
    <2>3. assessment' \in Assessment
      BY <1>8, <2>1, <2>2 DEF ApplyAssess
    <2>4. QED
      BY <1>1, <1>8, <2>3 DEF ApplyAssess, ContractTypeOK
  <1>9. CASE ApplyDie
    BY <1>1, <1>9 DEF ApplyDie, ContractTypeOK
  <1>10. QED
    BY <1>2, <1>3, <1>4, <1>5, <1>6, <1>7, <1>8, <1>9 DEF ContractStep

LEMMA PersistTypes ==
    ASSUME TypeOK, NEW p \in Proc, PersistStep(p)
    PROVE  EvidenceTypeOK' /\ deaths' \in 0 .. MaxDeaths
  <1> USE BoundsAssumption, RevisionsAssumption
  <1>1. /\ EvidenceTypeOK /\ deaths \in 0 .. MaxDeaths
        /\ assessment \in Assessment \union {Nothing}
    BY DEF TypeOK, ContractTypeOK, EvidenceTypeOK
  <1>2. job[p].pc # "idle" => job[p] \in Job
    BY <1>1 DEF EvidenceTypeOK, Idle
  <1>3. UNCHANGED <<req, laneInput, packet, debt>>
    BY DEF PersistStep, PersistBegin, PersistRefused, PersistWrite, PersistCommit,
           PersistRollback, PersistDie
  <1>4. ASSUME NEW x \in Job \union {Idle}, job' = [job EXCEPT ![p] = x]
        PROVE  job' \in [Proc -> Job \union {Idle}]
    BY <1>1, <1>4 DEF EvidenceTypeOK
  <1>5. ASSUME NEW t \in Tier, PersistBegin(p, t)
        PROVE  EvidenceTypeOK' /\ deaths' \in 0 .. MaxDeaths
    <2> DEFINE c == [tier |-> t, inputs |-> Inputs]
               x == [pc |-> "begun", new |-> c, rev |-> revision, previous |-> Nothing]
    <2>1. /\ ArtifactValid(c) /\ revision < MaxRevision
          /\ job' = [job EXCEPT ![p] = x]
          /\ UNCHANGED <<classification, reference, revision, deaths>>
      BY <1>5 DEF PersistBegin, Others, contractVars
    <2>2. /\ snapshot \in Nat \ {0} /\ debt \in SUBSET Requirements
          /\ assessment \in Assessment
      BY <1>1, <2>1 DEF ArtifactValid, ReadableSnapshot, IsSnapshot, AssessmentValid, DebtValid,
                        EvidenceTypeOK
    <2>3. c \in Classification
      BY <1>1, <2>2 DEF Classification, Inputs, EvidenceTypeOK
    <2>4. x \in Job
      <3> HIDE DEF c
      <3> QED
        BY <1>1, <2>1, <2>3 DEF Job, EvidenceTypeOK
    <2> HIDE DEF x, c
    <2>5. QED
      BY <1>1, <1>3, <1>4, <2>1, <2>4 DEF EvidenceTypeOK
  <1>6. CASE PersistRefused(p)
    BY <1>1, <1>3, <1>4, <1>6 DEF PersistRefused, Others, contractVars, EvidenceTypeOK
  <1>7. CASE PersistWrite(p)
    <2> DEFINE x == [job[p] EXCEPT !.pc = "written", !.previous = classification]
    <2>1. /\ job[p].pc = "begun" /\ classification' = job[p].new
          /\ job' = [job EXCEPT ![p].pc = "written", ![p].previous = classification]
          /\ UNCHANGED <<reference, revision, deaths>>
      BY <1>7 DEF PersistWrite, Others, contractVars
    <2>2. job' = [job EXCEPT ![p] = x]
      BY <1>1, <2>1 DEF EvidenceTypeOK
    <2>3. job[p] \in Job
      BY <1>2, <2>1
    <2>4. x \in Job /\ job[p].new \in Classification
      BY <1>1, <2>3 DEF Job, EvidenceTypeOK
    <2> HIDE DEF x
    <2>5. QED
      BY <1>1, <1>3, <1>4, <2>1, <2>2, <2>4 DEF EvidenceTypeOK
  <1>8. CASE PersistCommit(p)
    <2>1. /\ job[p].pc = "written" /\ job[p].rev = revision /\ revision' = revision + 1
          /\ job' = [job EXCEPT ![p] = Idle] /\ reference' = job[p].new
          /\ UNCHANGED <<classification, deaths>>
      BY <1>8 DEF PersistCommit, Others, contractVars
    <2>2. job[p].new \in Classification /\ revision \in 0 .. MaxRevision - 1
      BY <1>2, <2>1 DEF Job
    <2>3. QED
      BY <1>1, <1>3, <1>4, <2>1, <2>2 DEF EvidenceTypeOK
  <1>9. CASE PersistRollback(p)
    <2>1. /\ job[p].pc = "written" /\ classification' = job[p].previous
          /\ job' = [job EXCEPT ![p] = Idle]
          /\ UNCHANGED <<reference, revision, deaths>>
      BY <1>9 DEF PersistRollback, Others, contractVars
    <2>2. job[p].previous \in Classification \union {Nothing}
      BY <1>2, <2>1 DEF Job
    <2>3. QED
      BY <1>1, <1>3, <1>4, <2>1, <2>2 DEF EvidenceTypeOK
  <1>10. CASE PersistDie(p)
    <2>1. /\ deaths < MaxDeaths /\ deaths' = deaths + 1 /\ job' = [job EXCEPT ![p] = Idle]
          /\ UNCHANGED <<classification, reference, revision>>
      BY <1>10 DEF PersistDie
    <2>2. QED
      BY <1>1, <1>3, <1>4, <2>1 DEF EvidenceTypeOK
  <1>11. QED
    BY <1>5, <1>6, <1>7, <1>8, <1>9, <1>10 DEF PersistStep

LEMMA EvidenceTypes ==
    ASSUME TypeOK, EvidenceStep
    PROVE  EvidenceTypeOK' /\ deaths' \in 0 .. MaxDeaths
  <1> USE RevisionsAssumption
  <1>1. EvidenceTypeOK /\ deaths \in 0 .. MaxDeaths
    BY DEF TypeOK, ContractTypeOK, EvidenceTypeOK
  <1>2. CASE EditFacts \/ EditBody \/ Synthesize
    <2>1. req' \in Requirements
      BY <1>1, <1>2 DEF EditFacts, EditBody, Synthesize, EvidenceTypeOK, Requirements
    <2>2. UNCHANGED <<laneInput, packet, debt, classification, reference, revision, job, deaths>>
      BY <1>2 DEF EditFacts, EditBody, Synthesize, Others, contractVars
    <2>3. QED
      BY <1>1, <2>1, <2>2 DEF EvidenceTypeOK
  <1>3. CASE CloseResearch
    <2>1. req' \in Requirements /\ laneInput' = req'
      BY <1>1, <1>3 DEF CloseResearch, EvidenceTypeOK, Requirements
    <2>2. UNCHANGED <<packet, debt, classification, reference, revision, job, deaths>>
      BY <1>3 DEF CloseResearch, Others, contractVars
    <2>3. QED
      BY <1>1, <2>1, <2>2 DEF EvidenceTypeOK
  <1>4. CASE SyncLanes \/ OtherCommit \/ \E named \in {{}, {req}} : AssessDebt(named)
    BY <1>1, <1>4 DEF SyncLanes, AssessDebt, OtherCommit, Others, contractVars, EvidenceTypeOK
  <1>5. ASSUME NEW lane \in Lane, NEW o \in Packet, Research(lane, o)
        PROVE  EvidenceTypeOK' /\ deaths' \in 0 .. MaxDeaths
    <2>1. packet' \in [Lane -> SUBSET Packet]
      BY <1>1, <1>5 DEF Research, EvidenceTypeOK
    <2>2. UNCHANGED <<req, laneInput, debt, classification, reference, revision, job, deaths>>
      BY <1>5 DEF Research, Others, contractVars
    <2>3. QED
      BY <1>1, <2>1, <2>2 DEF EvidenceTypeOK
  <1>6. QED
    BY <1>2, <1>3, <1>4, <1>5, PersistTypes DEF EvidenceStep

LEMMA TypesStay ==
    ASSUME TypeOK, ContractInv, Grows, [Next]_vars
    PROVE  TypeOK'
  <1>1. TypeOK' <=> /\ ContractTypeOK' /\ EvidenceTypeOK'
                    /\ snapshot' \in 0 .. Len(ledger') /\ sealing' \in 0 .. Len(ledger')
                    /\ history' \subseteq 1 .. snapshot'
    BY DEF TypeOK, EvidenceTypeOK
  <1>2. ContractTypeOK /\ EvidenceTypeOK
    BY DEF TypeOK, EvidenceTypeOK
  <1>3. ASSUME UNCHANGED evidenceVars PROVE EvidenceTypeOK'
    BY <1>2, <1>3 DEF EvidenceTypeOK, evidenceVars
  <1>4. CASE LedgerStep \/ UNCHANGED vars
    BY <1>1, <1>2, <1>3, <1>4 DEF LedgerStep, vars, contractVars, ContractTypeOK, Grows
  <1>5. CASE ContractStep
    BY <1>1, <1>3, <1>5, ContractTypes DEF ContractStep, Grows
  <1>6. CASE EvidenceStep
    <2>1. EvidenceTypeOK' /\ deaths' \in 0 .. MaxDeaths
      BY <1>6, EvidenceTypes
    <2>2. ContractTypeOK'
      BY <1>2, <1>6, <2>1 DEF EvidenceStep, ContractTypeOK
    <2>3. QED
      BY <1>1, <2>1, <2>2 DEF Grows
  <1>7. QED
    BY <1>4, <1>5, <1>6, StepKinds

-----------------------------------------------------------------------------
(* Theorems *)

LEMMA EvidenceInitially == Init => IInv
  <1> SUFFICES ASSUME Init PROVE IInv
    OBVIOUS
  <1> USE BoundsAssumption, RevisionsAssumption DEF Init, LedgerInit, ContractInit, EvidenceInit
  <1>1. /\ ledger = << >> /\ Len(ledger) = 0 /\ DOMAIN ledger = {}
        /\ Events = {}
    BY DEF Events, Range
  <1>2. TypeOK
    BY <1>1 DEF TypeOK, ContractTypeOK, Content, Requirements, Idle
  <1>3. LedgerInv
    BY <1>1 DEF LedgerInv, OneDecisionPerTarget
  <1>4. LaneInv
    BY <1>1 DEF LaneInv, LanesAgree, ClosedIsClean, CleanWasRequired
  <1>5. RouteInv
    BY DEF RouteInv, Idle
  <1>6. FileInv
    BY DEF FileInv, FileIsReferenced, Idle
  <1>7. ContractInv
    BY DEF ContractInv, ApplyingIsApproved, UntouchedIsExact, SettledIsApproved, SettledByReceipt
  <1>8. QED
    BY <1>2, <1>3, <1>4, <1>5, <1>6, <1>7 DEF IInv

LEMMA EvidenceInvariant == Spec => []IInv
  <1>1. IInv /\ [Next]_vars => IInv'
    <2> SUFFICES ASSUME IInv, [Next]_vars PROVE IInv'
      OBVIOUS
    <2>1. LedgerInv' /\ Grows
      BY LedgerStays DEF IInv
    <2>2. TypeOK'
      BY <2>1, TypesStay DEF IInv
    <2>3. LaneInv' /\ FileInv'
      BY LaneStays, FileStays DEF IInv
    <2>4. RouteInv' /\ ContractInv'
      BY <2>1, RouteStays, ContractStays DEF IInv
    <2>5. QED
      BY <2>1, <2>2, <2>3, <2>4 DEF IInv
  <1>2. QED
    BY <1>1, EvidenceInitially, PTL DEF Spec

\* A fact section of which recordClarifyLanes decided one lane has both decided as it
\* says, although the other may have been decided by hand, no target is decided twice, and classification.json is what the state refers to,
\* or a process is between its two writes or was killed there.
THEOREM RecordsStayWhole == Spec => []RecordsAreWhole
  <1>1. IInv => RecordsAreWhole
    BY DEF IInv, LedgerInv, LaneInv, FileInv, RecordsAreWhole
  <1>2. QED
    BY <1>1, EvidenceInvariant, PTL

\* The facts were researched for the lanes the requirements name now, and the
\* classification was routed on its very inputs, sealed and closed before.
THEOREM EvidenceStaysEarned == Spec => []EvidenceIsEarned
  <1>1. IInv => GateMeansResearched
    <2> SUFFICES ASSUME IInv, FactGate, NEW lane \in RequiredLanes
                 PROVE  /\ "clean" \in packet[lane]
                        /\ \E e \in Events : /\ e.type = "lane-applicability"
                                             /\ e.target[2] = lane /\ e.selected = "required"
                                             /\ e.target # LaneEvent(lane).target
      BY DEF GateMeansResearched
    <2>1. req.closed /\ lane \in Lane /\ "clean" \in packet[lane]
      BY DEF FactGate, RequiredLanes, Lane, IInv, LaneInv, ClosedIsClean
    <2>2. PICK e \in Events, f \in FactSection :
             /\ e.type = "lane-applicability" /\ e.selected = "required"
             /\ e.target = <<"lane", lane, f>>
             /\ ~ (f.closed /\ Selection(lane, f) = "required")
      BY <2>1 DEF IInv, LaneInv, CleanWasRequired
    <2>3. /\ LaneEvent(lane).target = <<"lane", lane, Facts>>
          /\ Facts.closed /\ Selection(lane, Facts) = "required"
      BY <2>1 DEF LaneEvent, Facts, RequiredLanes
    <2>4. QED
      BY <2>1, <2>2, <2>3
  <1>2. IInv => ReferenceIsRouted
    BY DEF IInv, RouteInv, Routed, Sealed, ReferenceIsRouted
  <1>3. QED
    BY <1>1, <1>2, EvidenceInvariant, PTL DEF EvidenceIsEarned

\* An assessment that a proposal settled has its receipt and the approval of the
\* user, wherever an application died.
THEOREM SettlementHasReceipt == Spec => []SettledByReceipt
  <1>1. IInv => SettledByReceipt
    BY DEF IInv, ContractInv
  <1>2. QED
    BY <1>1, EvidenceInvariant, PTL

\* The ledger only grows, a snapshot that is replaced is kept, and the instruction
\* file is overwritten only with what the user approved for what was in it.
THEOREM DecisionsAreNotOverwritten == Spec => NothingIsOverwritten
  <1>1. IInv /\ [Next]_vars =>
          [/\ IsPrefix(ledger, ledger')
           /\ snapshot' # snapshot =>
                /\ snapshot' > snapshot /\ snapshot' <= Len(ledger)
                /\ snapshot # 0 => snapshot \in history]_ledgerVars
    <2> SUFFICES ASSUME IInv, [Next]_vars
                 PROVE  /\ IsPrefix(ledger, ledger')
                        /\ snapshot' # snapshot =>
                             /\ snapshot' > snapshot /\ snapshot' <= Len(ledger)
                             /\ snapshot # 0 => snapshot \in history
      OBVIOUS
    <2>1. Grows
      BY LedgerStays DEF IInv
    <2>2. QED
      BY <2>1 DEF Grows
  <1>2. IInv /\ [Next]_vars =>
          [\A p \in Proposal :
             instruction' = p /\ instruction # p
                => /\ Approval(p, "approve") \in Events
                   /\ applying.read = proposed[p].target]_instruction
    <2> SUFFICES ASSUME IInv, [Next]_vars, NEW p \in Proposal,
                        instruction' = p, instruction # p
                 PROVE  Approval(p, "approve") \in Events /\ applying.read = proposed[p].target
      OBVIOUS
    <2>1. CASE Touch
      <3>1. instruction' \in Nat
        BY <2>1 DEF Touch, IInv, TypeOK, ContractTypeOK
      <3>2. QED
        BY <3>1, ContentAssumption
    <2>2. CASE ApplyWrite
      <3>1. /\ applying # Nothing /\ applying.step = "checked"
            /\ applying.proposal = p /\ applying.read # p
        BY <2>2 DEF ApplyWrite
      <3>2. Approved(p) /\ proposed[p].target = applying.read
        BY <3>1 DEF IInv, ContractInv, ApplyingIsApproved
      <3>3. QED
        BY <3>2, ApprovedRecorded
    <2>3. CASE ~ Touch /\ ~ ApplyWrite
      <3>1. instruction' = instruction
        BY <2>3, StepKinds DEF LedgerStep, ContractStep, EvidenceStep, vars, contractVars,
           Assess, Propose, ApplyCheck, ApplyReceipt, ApplyAssess, ApplyDie
      <3>2. QED
        BY <3>1
    <2>4. QED
      BY <2>1, <2>2, <2>3
  <1>3. QED
    BY <1>1, <1>2, EvidenceInvariant, PTL
       DEF Spec, NothingIsOverwritten, LedgerOnlyGrows, OnlyApprovedIsWritten

-----------------------------------------------------------------------------
(***************************************************************************)
(* The questions: a pending question is the only one that can be recorded  *)
(* until it is resolved, so what prepare found about the answer it makes   *)
(* precise still holds when its own answer is appended.                    *)
(***************************************************************************)

IdsAreUnique == \A i, j \in DOMAIN ledger : ledger[i].id = ledger[j].id => i = j

\* What an event makes precise was recorded.
NormsAreRecorded == \A e \in Events : e.candidate.norm # None => HasEvent(e.candidate.norm)

PreparedIsValid == \A p \in Process : preparing[p] # None => ValidCandidate(preparing[p])

ResolvingIsRecorded ==
    resolving # None =>
        /\ pending # None /\ pending.status = "pending" /\ pending.candidate = resolving
        /\ Recorded(resolving) # {}

\* Only the question itself made the answer precise, if any did.
PendingNormalizes ==
    pending # None /\ pending.status = "pending" =>
        LET c == pending.candidate
        IN  c.norm # None =>
              \E e \in Events : /\ e.id = c.norm /\ e.selected = "other"
                                /\ SameRevision(e.candidate, c)
                                /\ c.axes \subseteq e.candidate.axes
                                /\ \A f \in Events : f.candidate.norm = c.norm => f.id = c.q

QInv == /\ AnswersAreKept /\ NormalizedOnce
        /\ ledger \in Seq(Events) /\ IdsAreUnique
        /\ NormsAreRecorded /\ PreparedIsValid /\ ResolvingIsRecorded /\ PendingNormalizes

LEMMA BoundIsCandidate ==
    ASSUME NEW d \in Draft, NEW v \in Version
    PROVE  /\ Bound(d, v) \in Candidate
           /\ Bound(d, v).q = d.q /\ d.q \in Questions
           /\ ValidCandidate(d) => ValidCandidate(Bound(d, v))
  BY DEF Bound, Candidate, Questions, ValidCandidate

LEMMA CandidateFields ==
    ASSUME NEW c \in Candidate
    PROVE  c.q \in Questions /\ c.q # None /\ c.text \in {d.text : d \in Draft}
  BY NoneAssumption DEF Candidate, Bound, Questions

LEMMA EventFields ==
    ASSUME NEW c, NEW o
    PROVE  /\ EventOf(c, o).id = c.q /\ EventOf(c, o).selected = o
           /\ EventOf(c, o).candidate = c
           /\ EventOf(c, o).target = IF o = "other" THEN c.q ELSE c.target
           /\ EventOf(c, o) = EventOf(EventOf(c, o).candidate, EventOf(c, o).selected)
  BY DEF EventOf

LEMMA QuestionsInitially == QuestionsInit => QInv
  <1> SUFFICES ASSUME QuestionsInit PROVE QInv
    OBVIOUS
  <1> USE EditAssumption DEF QuestionsInit, LedgerInit
  <1>1. ledger = << >> /\ DOMAIN ledger = {} /\ Events = {}
    BY DEF Events, Range
  <1>2. QuestionsTypeOK
    BY <1>1 DEF QuestionsTypeOK
  <1>3. DecisionWasGiven /\ ResolvedIsRecorded /\ NormalizedOnce
    BY <1>1 DEF DecisionWasGiven, ResolvedIsRecorded, NormalizedOnce
  <1>4. QED
    BY <1>1, <1>2, <1>3 DEF QInv, AnswersAreKept, IdsAreUnique, NormsAreRecorded,
       PreparedIsValid, ResolvingIsRecorded, PendingNormalizes

\* A step that leaves the ledger, the pending question and its resolution alone
LEMMA LedgerUntouched ==
    ASSUME QInv, UNCHANGED <<ledger, pending, resolving>>, given \subseteq given'
    PROVE  /\ DecisionWasGiven' /\ ResolvedIsRecorded' /\ NormalizedOnce'
           /\ ledger' \in Seq(Events') /\ IdsAreUnique'
           /\ NormsAreRecorded' /\ ResolvingIsRecorded' /\ PendingNormalizes'
  <1>1. Events' = Events
    BY DEF Events
  <1>2. \A c : Recorded(c)' = Recorded(c)
    BY <1>1 DEF Recorded
  <1>3. DecisionWasGiven' /\ NormalizedOnce'
    BY <1>1 DEF QInv, AnswersAreKept, DecisionWasGiven, NormalizedOnce
  <1>4. ResolvedIsRecorded' /\ ResolvingIsRecorded'
    BY <1>1 DEF QInv, AnswersAreKept, ResolvedIsRecorded, ResolvingIsRecorded, Recorded
  <1>5. NormsAreRecorded' /\ IdsAreUnique'
    BY <1>1 DEF QInv, NormsAreRecorded, IdsAreUnique, HasEvent
  <1>6. PendingNormalizes'
    BY <1>1 DEF QInv, PendingNormalizes
  <1>7. QED
    BY <1>1, <1>3, <1>4, <1>5, <1>6 DEF QInv

\* What the host reports is appended: the event of the pending question.
LEMMA AnswerAppended ==
    ASSUME QInv, NEW g \in given, ExactToolInput(g), pending.status = "pending",
           Append1(EventOf(pending.candidate, g.selected)),
           given' = given, pending' = pending, resolving' = pending.candidate,
           preparing' = preparing
    PROVE  /\ DecisionWasGiven' /\ ResolvedIsRecorded' /\ NormalizedOnce'
           /\ ledger' \in Seq(Events') /\ IdsAreUnique'
           /\ NormsAreRecorded' /\ ResolvingIsRecorded' /\ PendingNormalizes'
           /\ \A e \in Events' : e.candidate \in Candidate /\ e = EventOf(e.candidate, e.selected)
  <1> DEFINE c == pending.candidate
             e == EventOf(c, g.selected)
             n == Len(ledger) + 1
  <1>1. /\ ledger' \in Seq(Events') /\ Len(ledger) \in Nat
        /\ Events' = Events \union {e}
        /\ \A i \in DOMAIN ledger : ledger'[i] = ledger[i]
        /\ DOMAIN ledger = 1 .. Len(ledger) /\ DOMAIN ledger' = 1 .. n
        /\ ledger'[n] = e
    BY AppendEvent DEF QInv
  <1>2. /\ pending # None /\ c \in Candidate /\ g.text = c.text
        /\ g = [text |-> g.text, selected |-> g.selected]
    BY DEF ExactToolInput, QInv, AnswersAreKept, QuestionsTypeOK, GivenAnswer
  <1>3. /\ e.id = c.q /\ e.selected = g.selected /\ e.candidate = c
        /\ e.target = IF g.selected = "other" THEN c.q ELSE c.target
        /\ e = EventOf(e.candidate, e.selected)
    BY EventFields
  <1>4. c.q # None
    BY <1>2, CandidateFields
  <1>5. \A f \in Events : f.id # c.q
    BY <1>3 DEF Append1, Appendable, HasEvent
  <1>6. c.norm # None =>
          \E f \in Events : /\ f.id = c.norm /\ f.selected = "other"
                            /\ SameRevision(f.candidate, c)
                            /\ c.axes \subseteq f.candidate.axes
                            /\ \A k \in Events : k.candidate.norm = c.norm => k.id = c.q
    BY <1>2 DEF QInv, PendingNormalizes
  <1>7. \A i \in DOMAIN ledger : ledger[i] \in Events
    BY DEF Events, Range
  <1>8. \A i \in DOMAIN ledger' : i \in DOMAIN ledger \/ i = n
    BY <1>1
  <1> HIDE DEF e, n
  <1>9. \A f \in Events' : f.candidate \in Candidate /\ f = EventOf(f.candidate, f.selected)
    BY <1>1, <1>2, <1>3 DEF QInv, AnswersAreKept, QuestionsTypeOK
  <1>10. DecisionWasGiven'
    BY <1>1, <1>2, <1>3 DEF QInv, AnswersAreKept, DecisionWasGiven
  <1>11. ResolvedIsRecorded'
    BY DEF ResolvedIsRecorded
  <1>12. IdsAreUnique'
    <2> SUFFICES ASSUME NEW i \in DOMAIN ledger', NEW j \in DOMAIN ledger',
                        ledger'[i].id = ledger'[j].id
                 PROVE  i = j
      BY DEF IdsAreUnique
    <2>1. CASE i \in DOMAIN ledger /\ j \in DOMAIN ledger
      BY <1>1, <2>1 DEF QInv, IdsAreUnique
    <2>2. CASE i = n /\ j \in DOMAIN ledger
      BY <1>1, <1>3, <1>5, <1>7, <2>2
    <2>3. CASE i \in DOMAIN ledger /\ j = n
      BY <1>1, <1>3, <1>5, <1>7, <2>3
    <2>4. QED
      BY <1>8, <2>1, <2>2, <2>3
  <1>13. NormsAreRecorded'
    BY <1>1, <1>3, <1>6 DEF QInv, NormsAreRecorded, HasEvent
  <1>14. ResolvingIsRecorded'
    <2>1. e \in Recorded(c)'
      BY <1>1, <1>3 DEF Recorded
    <2>2. QED
      BY <1>2, <2>1 DEF ResolvingIsRecorded
  <1>15. PendingNormalizes'
    BY <1>1, <1>3, <1>6 DEF PendingNormalizes
  <1>16. NormalizedOnce'
    <2> SUFFICES ASSUME NEW i \in DOMAIN ledger', NEW j \in DOMAIN ledger',
                        ledger'[i].candidate.norm = ledger'[j].id
                 PROVE  /\ j < i
                        /\ ledger'[j].selected = "other"
                        /\ SameRevision(ledger'[i].candidate, ledger'[j].candidate)
                        /\ ledger'[i].candidate.axes \subseteq ledger'[j].candidate.axes
                        /\ \A k \in DOMAIN ledger' :
                              ledger'[k].candidate.norm = ledger'[j].id => k = i
      BY DEF NormalizedOnce, SameRevision
    <2>1. j \in DOMAIN ledger
      <3>1. CASE j = n /\ i \in DOMAIN ledger
        <4>1. ledger[i] \in Events /\ ledger[i].candidate.norm = c.q
          BY <1>1, <1>3, <1>7, <3>1
        <4>2. QED
          BY <4>1, <1>4, <1>5 DEF QInv, NormsAreRecorded, HasEvent
      <3>2. CASE j = n /\ i = n
        BY <1>1, <1>3, <1>4, <1>5, <1>6, <3>2
      <3>3. QED
        BY <1>8, <3>1, <3>2
    <2>2. ledger[j].id # None
      <3>1. /\ ledger[j].candidate \in Candidate
            /\ ledger[j] = EventOf(ledger[j].candidate, ledger[j].selected)
        BY <2>1, <1>7 DEF QInv, AnswersAreKept, QuestionsTypeOK
      <3>2. QED
        BY <3>1, CandidateFields, EventFields
    <2>3. CASE i \in DOMAIN ledger
      <3>1. /\ j < i
            /\ ledger[j].selected = "other"
            /\ SameRevision(ledger[i].candidate, ledger[j].candidate)
            /\ ledger[i].candidate.axes \subseteq ledger[j].candidate.axes
            /\ \A k \in DOMAIN ledger : ledger[k].candidate.norm = ledger[j].id => k = i
        BY <1>1, <2>1, <2>3 DEF QInv, NormalizedOnce
      <3>2. c.norm # ledger[j].id
        <4>1. ledger[i] \in Events /\ ledger[i].candidate.norm = ledger[j].id
          BY <1>1, <1>7, <2>1, <2>3
        <4>2. QED
          BY <4>1, <1>5, <1>6, <2>2
      <3>3. QED
        BY <1>1, <1>3, <1>8, <2>1, <2>3, <3>1, <3>2
    <2>4. CASE i = n
      <3>1. c.norm = ledger[j].id /\ c.norm # None
        BY <1>1, <1>3, <2>1, <2>2, <2>4
      <3>2. PICK f \in Events : /\ f.id = c.norm /\ f.selected = "other"
                                /\ SameRevision(f.candidate, c)
                                /\ c.axes \subseteq f.candidate.axes
                                /\ \A k \in Events : k.candidate.norm = c.norm => k.id = c.q
        BY <1>6, <3>1
      <3>3. f = ledger[j]
        <4>1. PICK k \in DOMAIN ledger : f = ledger[k]
          BY DEF Events, Range
        <4>2. QED
          BY <2>1, <3>1, <3>2, <4>1 DEF QInv, IdsAreUnique
      <3>4. \A k \in DOMAIN ledger : ledger[k].candidate.norm # c.norm
        BY <1>5, <1>7, <3>2
      <3>5. j < n
        BY <1>1, <2>1 DEF n
      <3>6. SameRevision(c, ledger[j].candidate)
        BY <3>2, <3>3 DEF SameRevision
      <3>7. QED
        BY <1>1, <1>3, <1>8, <2>1, <2>4, <3>1, <3>2, <3>3, <3>4, <3>5, <3>6
    <2>5. QED
      BY <1>8, <2>3, <2>4
  <1>17. QED
    BY <1>1, <1>9, <1>10, <1>11, <1>12, <1>13, <1>14, <1>15, <1>16

\* What is pending counts as resolved once its event is recorded.
LEMMA PendingMarked ==
    ASSUME QInv, pending # None, pending.status = "pending",
           Recorded(pending.candidate) # {},
           pending' = [pending EXCEPT !.status = "resolved"],
           resolving' = None, UNCHANGED <<ledger, given, preparing>>
    PROVE  /\ DecisionWasGiven' /\ ResolvedIsRecorded' /\ NormalizedOnce'
           /\ ledger' \in Seq(Events') /\ IdsAreUnique'
           /\ NormsAreRecorded' /\ ResolvingIsRecorded' /\ PendingNormalizes'
           /\ pending' \in [candidate : Candidate, status : {"pending", "resolved"}]
           /\ pending'.candidate = pending.candidate
  <1>1. Events' = Events
    BY DEF Events
  <1>2. pending \in [candidate : Candidate, status : {"pending", "resolved"}]
    BY DEF QInv, AnswersAreKept, QuestionsTypeOK
  <1>3. /\ pending' \in [candidate : Candidate, status : {"pending", "resolved"}]
        /\ pending'.candidate = pending.candidate /\ pending'.status = "resolved"
    BY <1>2
  <1>4. DecisionWasGiven' /\ NormalizedOnce' /\ NormsAreRecorded' /\ IdsAreUnique'
    BY <1>1 DEF QInv, AnswersAreKept, DecisionWasGiven, NormalizedOnce, NormsAreRecorded,
                IdsAreUnique, HasEvent
  <1>5. ResolvedIsRecorded'
    <2>1. PICK e \in Events : e \in Recorded(pending.candidate)
      BY DEF Recorded
    <2>2. /\ e \in Events' /\ e.id = pending'.candidate.q
          /\ e.candidate.input = pending'.candidate.input
          /\ e.candidate.norm = pending'.candidate.norm
          /\ e.selected = "other" \/ e.target = pending'.candidate.target
      BY <1>1, <1>3, <2>1 DEF Recorded
    <2>3. QED
      BY <2>2 DEF ResolvedIsRecorded, Recorded
  <1>6. ResolvingIsRecorded' /\ PendingNormalizes'
    BY <1>3 DEF ResolvingIsRecorded, PendingNormalizes
  <1>7. QED
    BY <1>1, <1>3, <1>4, <1>5, <1>6 DEF QInv

LEMMA QuestionsStep ==
    ASSUME QInv, [QuestionsNext]_ledgerAndQuestions
    PROVE  QInv'
  <1> USE EditAssumption
  <1> DEFINE Rest == /\ DecisionWasGiven' /\ ResolvedIsRecorded' /\ NormalizedOnce'
                     /\ ledger' \in Seq(Events') /\ IdsAreUnique'
                     /\ NormsAreRecorded' /\ ResolvingIsRecorded' /\ PendingNormalizes'
             Typed == /\ content' \in Version
                      /\ file' \in [Questions -> Candidate \union {None}]
                      /\ \A q \in Questions : file'[q] # None => file'[q].q = q
                      /\ edited' \in 0 .. MaxEdit
             PendingTyped == /\ pending' = None \/ pending' \in [candidate : Candidate,
                                                                status : {"pending", "resolved"}]
                             /\ pending' # None => ValidCandidate(pending'.candidate)
             Prepared == /\ preparing' \in [Process -> Candidate \union {None}]
                         /\ PreparedIsValid'
             Told == asked' \subseteq {d.text : d \in Draft} /\ given' \subseteq GivenAnswer
             EventsTyped == \A e \in Events' : /\ e.candidate \in Candidate
                                               /\ e = EventOf(e.candidate, e.selected)
  <1>1. /\ content \in Version
        /\ file \in [Questions -> Candidate \union {None}]
        /\ \A q \in Questions : file[q] # None => file[q].q = q
        /\ pending = None \/ pending \in [candidate : Candidate, status : {"pending", "resolved"}]
        /\ pending # None => ValidCandidate(pending.candidate)
        /\ preparing \in [Process -> Candidate \union {None}]
        /\ asked \subseteq {d.text : d \in Draft}
        /\ given \subseteq GivenAnswer
        /\ resolving \in Candidate \union {None}
        /\ \A e \in Events : e.candidate \in Candidate /\ e = EventOf(e.candidate, e.selected)
        /\ edited \in 0 .. MaxEdit
    BY DEF QInv, AnswersAreKept, QuestionsTypeOK
  <1>2. PreparedIsValid /\ ResolvingIsRecorded
    BY DEF QInv
  <1>3. ASSUME Rest, Typed, PendingTyped, Prepared, Told, EventsTyped,
               resolving' \in Candidate \union {None}
        PROVE  QInv'
    BY <1>3 DEF QInv, AnswersAreKept, QuestionsTypeOK, ValidCandidate
  <1>4. ASSUME UNCHANGED <<ledger, pending, resolving>>, given \subseteq given'
        PROVE  Rest /\ PendingTyped /\ EventsTyped /\ resolving' \in Candidate \union {None}
    BY <1>1, <1>4, LedgerUntouched DEF Events
  <1>5. ASSUME preparing' = preparing PROVE Prepared
    BY <1>1, <1>2, <1>5 DEF PreparedIsValid
  <1>6. ASSUME UNCHANGED <<content, file, edited>> PROVE Typed
    BY <1>1, <1>6
  <1>7. ASSUME UNCHANGED <<asked, given>> PROVE Told
    BY <1>1, <1>7
  <1> HIDE DEF Rest, Typed, PendingTyped, Prepared, Told, EventsTyped
  <1>8. CASE UNCHANGED ledgerAndQuestions
    BY <1>3, <1>4, <1>5, <1>6, <1>7, <1>8 DEF ledgerAndQuestions, ledgerVars, questionVars
  <1>9. ASSUME NEW v \in Version, Edit(v) PROVE QInv'
    <2>1. /\ content' = v /\ edited < MaxEdit /\ edited' = edited + 1
          /\ UNCHANGED <<ledger, file, pending, preparing, asked, given, resolving>>
      BY <1>9 DEF Edit, ledgerVars
    <2>2. Typed
      BY <1>1, <2>1 DEF Typed
    <2>3. QED
      BY <1>3, <1>4, <1>5, <1>7, <2>1, <2>2
  <1>10. ASSUME NEW d \in Draft, file' = [file EXCEPT ![d.q] = Bound(d, content)],
                content' = content, edited' \in 0 .. MaxEdit
         PROVE  Typed
    BY <1>1, <1>10, BoundIsCandidate DEF Typed
  <1>11. ASSUME NEW d \in Draft, Rewrite(d) PROVE QInv'
    <2>1. /\ file' = [file EXCEPT ![d.q] = Bound(d, content)]
          /\ content' = content /\ edited < MaxEdit /\ edited' = edited + 1
          /\ UNCHANGED <<ledger, pending, preparing, asked, given, resolving>>
      BY <1>11 DEF Rewrite, ledgerVars
    <2>2. edited' \in 0 .. MaxEdit
      BY <1>1, <2>1
    <2>3. Typed
      BY <1>10, <2>1, <2>2
    <2>4. QED
      BY <1>3, <1>4, <1>5, <1>7, <2>1, <2>3
  <1>12. ASSUME NEW p \in Process, NEW d \in Draft, Canonicalize(p, d) PROVE QInv'
    <2>1. /\ file' = [file EXCEPT ![d.q] = Bound(d, content)] /\ ValidCandidate(d)
          /\ preparing' = [preparing EXCEPT ![p] = Bound(d, content)]
          /\ content' = content /\ edited' = edited
          /\ UNCHANGED <<ledger, pending, asked, given, resolving>>
      BY <1>12 DEF Canonicalize, ledgerVars
    <2>2. Typed
      BY <1>1, <1>10, <2>1
    <2>3. Bound(d, content) \in Candidate /\ ValidCandidate(Bound(d, content))
      BY <1>1, <2>1, BoundIsCandidate
    <2>4. Prepared
      BY <1>1, <1>2, <2>1, <2>3 DEF Prepared, PreparedIsValid, ValidCandidate
    <2>5. QED
      BY <1>3, <1>4, <1>7, <2>1, <2>2, <2>4
  <1>13. ASSUME NEW p \in Process, Prepare(p) PROVE QInv'
    <2> DEFINE c == preparing[p]
    <2>1. /\ c # None /\ resolving = None
          /\ pending' = IF (pending = None \/ pending.status = "resolved") /\ Acceptable(c)
                          THEN [candidate |-> c, status |-> "pending"] ELSE pending
          /\ preparing' = [preparing EXCEPT ![p] = None]
          /\ UNCHANGED <<ledger, content, file, asked, given, resolving, edited>>
      BY <1>13 DEF Prepare, ledgerVars
    <2>2. c \in Candidate /\ ValidCandidate(c)
      BY <1>1, <1>2, <2>1 DEF PreparedIsValid
    <2>3. Prepared
      BY <1>1, <1>2, <2>1 DEF Prepared, PreparedIsValid, ValidCandidate
    <2>4. CASE pending' = pending
      BY <1>3, <1>4, <1>6, <1>7, <2>1, <2>3, <2>4
    <2>5. CASE pending' # pending
      <3>1. Acceptable(c) /\ pending' = [candidate |-> c, status |-> "pending"]
        BY <2>1, <2>5
      <3>2. PendingTyped
        BY <2>2, <3>1 DEF PendingTyped
      <3>3. Events' = Events
        BY <2>1 DEF Events
      <3>4. EventsTyped
        BY <1>1, <3>3 DEF EventsTyped
      <3>5. PendingNormalizes'
        <4>1. c.norm # None =>
                \E e \in Events : /\ e.id = c.norm /\ e.selected = "other"
                                  /\ \A f \in Events : f.candidate.norm # c.norm
                                  /\ SameRevision(e.candidate, c)
                                  /\ c.axes \subseteq e.candidate.axes
          BY <3>1 DEF Acceptable, Normalizes
        <4>2. pending'.candidate = c
          BY <3>1
        <4> HIDE DEF c
        <4>3. QED
          BY <3>3, <4>1, <4>2 DEF PendingNormalizes, SameRevision
      <3>6. ResolvedIsRecorded' /\ ResolvingIsRecorded'
        BY <2>1, <3>1 DEF ResolvedIsRecorded, ResolvingIsRecorded
      <3>7. DecisionWasGiven' /\ NormalizedOnce' /\ NormsAreRecorded' /\ IdsAreUnique'
        BY <2>1, <3>3 DEF QInv, AnswersAreKept, DecisionWasGiven, NormalizedOnce,
                          NormsAreRecorded, IdsAreUnique, HasEvent
      <3>8. Rest
        BY <2>1, <3>3, <3>5, <3>6, <3>7 DEF Rest, QInv
      <3>9. QED
        BY <1>1, <1>3, <1>6, <1>7, <2>1, <2>3, <3>2, <3>4, <3>8
    <2>6. QED
      BY <2>4, <2>5
  <1>14. CASE Authorize
    <2>1. /\ pending # None /\ asked' = asked \union {pending.candidate.text}
          /\ UNCHANGED <<ledger, content, file, pending, preparing, given, resolving, edited>>
      BY <1>14 DEF Authorize, ledgerVars
    <2>2. pending.candidate.text \in {d.text : d \in Draft}
      BY <1>1, <2>1, CandidateFields
    <2>3. Told
      BY <1>1, <2>1, <2>2 DEF Told
    <2>4. QED
      BY <1>3, <1>4, <1>5, <1>6, <2>1, <2>3
  <1>15. ASSUME NEW d \in Draft, NEW o \in Choice \union {"other"}, Give(d.text, o) PROVE QInv'
    <2>1. /\ given' = given \union {[text |-> d.text, selected |-> o]}
          /\ UNCHANGED <<ledger, content, file, pending, preparing, asked, resolving, edited>>
      BY <1>15 DEF Give, ledgerVars
    <2>2. Told
      BY <1>1, <2>1 DEF Told, GivenAnswer
    <2>3. QED
      BY <1>3, <1>4, <1>5, <1>6, <2>1, <2>2
  <1>16. ASSUME NEW g \in given, Resolve(g) PROVE QInv'
    <2>1. /\ resolving = None /\ ExactToolInput(g)
          /\ pending # None /\ pending.status = "pending"
          /\ resolving' = pending.candidate
          /\ UNCHANGED <<content, file, pending, preparing, asked, given, edited>>
      BY <1>16 DEF Resolve, PendingLoads
    <2>2. PendingTyped /\ pending.candidate \in Candidate
      BY <1>1, <2>1 DEF PendingTyped
    <2>3. CASE Append1(EventOf(pending.candidate, g.selected))
      <3>1. Rest /\ EventsTyped
        BY <2>1, <2>3, AnswerAppended DEF Rest, EventsTyped
      <3>2. QED
        BY <1>3, <1>5, <1>6, <1>7, <2>1, <2>2, <3>1
    <2>4. CASE /\ (\E e \in Recorded(pending.candidate) : e.selected = g.selected)
               /\ UNCHANGED ledgerVars
      <3>1. UNCHANGED ledger /\ Events' = Events
        BY <2>4 DEF ledgerVars, Events
      <3>2. ResolvingIsRecorded'
        BY <2>1, <2>4, <3>1 DEF ResolvingIsRecorded, Recorded
      <3>3. /\ DecisionWasGiven' /\ NormalizedOnce' /\ NormsAreRecorded' /\ IdsAreUnique'
            /\ PendingNormalizes' /\ ResolvedIsRecorded'
        BY <2>1, <3>1 DEF QInv, AnswersAreKept, DecisionWasGiven, NormalizedOnce, NormsAreRecorded,
                          IdsAreUnique, HasEvent, PendingNormalizes, ResolvedIsRecorded
      <3>4. Rest /\ EventsTyped
        BY <1>1, <3>1, <3>2, <3>3 DEF Rest, EventsTyped, QInv
      <3>5. QED
        BY <1>3, <1>5, <1>6, <1>7, <2>1, <2>2, <3>4
    <2>5. QED
      BY <1>16, <2>3, <2>4 DEF Resolve
  <1>17. CASE Mark
    <2>1. /\ resolving # None /\ pending' = [pending EXCEPT !.status = "resolved"]
          /\ resolving' = None
          /\ UNCHANGED <<ledger, content, file, preparing, asked, given, edited>>
      BY <1>17 DEF Mark, ledgerVars
    <2>2. /\ pending # None /\ pending.status = "pending"
          /\ Recorded(pending.candidate) # {}
      BY <1>2, <2>1 DEF ResolvingIsRecorded
    <2>3. /\ Rest
          /\ pending' \in [candidate : Candidate, status : {"pending", "resolved"}]
          /\ pending'.candidate = pending.candidate
      BY <2>1, <2>2, PendingMarked DEF Rest
    <2>4. PendingTyped /\ EventsTyped
      BY <1>1, <2>1, <2>2, <2>3 DEF PendingTyped, EventsTyped, Events
    <2>5. QED
      BY <1>3, <1>5, <1>6, <1>7, <2>1, <2>3, <2>4
  <1>18. CASE Recover
    <2>1. /\ resolving = None /\ pending # None /\ pending.status = "pending"
          /\ Recorded(pending.candidate) # {}
          /\ pending' = [pending EXCEPT !.status = "resolved"]
          /\ UNCHANGED <<ledger, content, file, preparing, asked, given, resolving, edited>>
      BY <1>18 DEF Recover, PendingLoads, ledgerVars
    <2>2. /\ Rest
          /\ pending' \in [candidate : Candidate, status : {"pending", "resolved"}]
          /\ pending'.candidate = pending.candidate
      BY <2>1, PendingMarked DEF Rest
    <2>3. PendingTyped /\ EventsTyped
      BY <1>1, <2>1, <2>2 DEF PendingTyped, EventsTyped, Events
    <2>4. QED
      BY <1>3, <1>5, <1>6, <1>7, <2>1, <2>2, <2>3
  <1>19. CASE Die
    <2>1. /\ resolving' = None
          /\ UNCHANGED <<ledger, content, file, pending, preparing, asked, given, edited>>
      BY <1>19 DEF Die, ledgerVars
    <2>2. Events' = Events
      BY <2>1 DEF Events
    <2>3. ResolvingIsRecorded'
      BY <2>1 DEF ResolvingIsRecorded
    <2>4. /\ DecisionWasGiven' /\ NormalizedOnce' /\ NormsAreRecorded' /\ IdsAreUnique'
          /\ PendingNormalizes' /\ ResolvedIsRecorded'
      BY <2>1, <2>2 DEF QInv, AnswersAreKept, DecisionWasGiven, NormalizedOnce, NormsAreRecorded,
                        IdsAreUnique, HasEvent, PendingNormalizes, ResolvedIsRecorded, Recorded
    <2>5. Rest /\ EventsTyped /\ PendingTyped
      BY <1>1, <2>1, <2>2, <2>3, <2>4 DEF Rest, EventsTyped, PendingTyped, QInv
    <2>6. QED
      BY <1>3, <1>5, <1>6, <1>7, <2>1, <2>5
  <1>20. QED
    BY <1>8, <1>9, <1>11, <1>12, <1>13, <1>14, <1>15, <1>16, <1>17, <1>18, <1>19
       DEF QuestionsNext, PrepareDraft, PrepareAgain

LEMMA QuestionsInvariant == QuestionsSpec => []QInv
  BY QuestionsInitially, QuestionsStep, PTL DEF QuestionsSpec

\* Every recorded answer is what the user selected when exactly that question was
\* shown, and every question that counts as resolved has its event.
THEOREM AnswersStayKept == QuestionsSpec => []AnswersAreKept
  <1>1. QInv => AnswersAreKept
    BY DEF QInv
  <1>2. QED
    BY <1>1, QuestionsInvariant, PTL

\* An Other answer is made precise at most once, by a later answer about the same
\* cell and target.
THEOREM OtherIsNormalizedOnce == QuestionsSpec => []NormalizedOnce
  <1>1. QInv => NormalizedOnce
    BY DEF QInv
  <1>2. QED
    BY <1>1, QuestionsInvariant, PTL
=============================================================================
