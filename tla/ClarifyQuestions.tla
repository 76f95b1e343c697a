--------------------------- MODULE ClarifyQuestions ---------------------------
(***************************************************************************)
(* The questions of clarify (core/clarify-question.mjs, the hooks          *)
(* pre-question and post-question, lib/clarify-question-gate.mjs): a       *)
(* candidate file is prepared, authorized when the host is about to ask,   *)
(* and resolved by the answer the host reports, which is appended to the   *)
(* decision ledger.                                                        *)
(*                                                                         *)
(* "content" is the version of requirements.md and the research packets, of *)
(* which every candidate records the digests.  The digest of a candidate    *)
(* file is the candidate.                                                   *)
(***************************************************************************)
EXTENDS DecisionLedger, FiniteSets

CONSTANTS Version,     \* contents of requirements.md and the packets
          Draft,       \* candidates a controller writes, without input digests
          Frontier,    \* [Version -> cells with a high-risk frontier], see QuestionFactGate
          Choice,      \* the options of a question
          Process,     \* processes that prepare a question
          MaxEdit,     \* bound: edits of the inputs
          MaxGiven,    \* bound: answers of the user
          MaxLedger,   \* bound: events in the ledger
          None

\* A draft: the question id, the cell (component and dimension) and target it is
\* about, what the user is shown, its policy axes, and the question whose Other
\* answer it normalizes, if any.
ASSUME DraftAssumption ==
    \A d \in Draft : d = [q |-> d.q, cell |-> d.cell, target |-> d.target, text |-> d.text,
                          axes |-> d.axes, norm |-> d.norm]

ASSUME NoneAssumption == \A d \in Draft : d.q # None

ASSUME OtherAssumption == "other" \notin Choice

ASSUME EditAssumption == MaxEdit \in Nat

VARIABLES
    content,    \* version of the inputs
    file,       \* the candidate at the canonical path of each question
    pending,    \* the pending-decisions file of the change
    preparing,  \* per process, the candidate it loaded before it took the lock
    asked,      \* texts the host was authorized to show
    given,      \* the answers of the user: what was shown, what was selected
    resolving,  \* event appended by the holder of the pending lock, not marked yet
    edited

questionVars == <<content, file, pending, preparing, asked, given, resolving, edited>>
ledgerAndQuestions == <<ledgerVars, questionVars>>

Questions == {d.q : d \in Draft}

Bound(d, v)  == [q |-> d.q, cell |-> d.cell, target |-> d.target, text |-> d.text,
                 axes |-> d.axes, norm |-> d.norm, input |-> v]
Candidate    == {Bound(d, v) : d \in Draft, v \in Version}
GivenAnswer       == [text : {d.text : d \in Draft}, selected : Choice \union {"other"}]

\* eventIdFor: an event has the id of its question
EventOf(c, selected) ==
    [id |-> c.q, type |-> "clarify-answer",
     target   |-> IF selected = "other" THEN c.q ELSE c.target,
     selected |-> selected, candidate |-> c]

-----------------------------------------------------------------------------
(* Validation of candidates *)

\* validateQuestionCandidate: one policy axis, unless it normalizes
ValidCandidate(d) == d.norm = None => Cardinality(d.axes) <= 1

\* assertClarifyQuestionFactGate: the lanes are decided and the packets fresh.
\* Versions that do not pass it have no frontier.
QuestionFactGate == Frontier[content] # {}

\* assertQuestionSynthesis for clarify-answer
SynthesisReady(d) == d.cell \in Frontier[content]

\* loadCandidate with assertFreshInputs
Loads(c) == c # None /\ c.input = content

\* loadPendingCandidate
PendingLoads ==
    /\ pending # None
    /\ Loads(file[pending.candidate.q])
    /\ file[pending.candidate.q] = pending.candidate

SameRevision(c, d) ==
    c.target = d.target /\ c.cell = d.cell /\ c.input = d.input

\* Mutant: an Other answer is normalized although it was normalized before.
NormalizesAgain(c) ==
    c.norm = None \/
    \E e \in Events :
        LET s == file[c.norm]
        IN  /\ e.id = c.norm /\ e.selected = "other"
            /\ s # None /\ s = e.candidate
            /\ SameRevision(s, c)
            /\ c.axes \subseteq s.axes
            /\ c.text # s.text

\* normalizationSource
Normalizes(c) ==
    c.norm = None \/
    \E e \in Events :
        LET s == file[c.norm]
        IN  /\ e.id = c.norm /\ e.selected = "other"
            /\ \A f \in Events : f.candidate.norm # c.norm
            /\ s # None /\ s = e.candidate
            /\ SameRevision(s, c)
            /\ c.axes \subseteq s.axes
            /\ c.text # s.text

\* resolvedQuestionConflicts compares with the candidate files as they are now.
Conflicts(c) ==
    {e \in Events : /\ e.id # c.q /\ e.id # c.norm
                    /\ file[e.id] # None /\ ValidCandidate(file[e.id])
                    /\ SameRevision(file[e.id], c) \/ file[e.id].text = c.text}

\* findRecordedEvent: the event of the pending question, when it fits the candidate
Recorded(c) ==
    {e \in Events : /\ e.id = c.q
                    /\ e.candidate.input = c.input /\ e.candidate.norm = c.norm
                    /\ e.selected = "other" \/ e.target = c.target}
Conflicting(c) == {e \in Events : e.id = c.q} \ Recorded(c)

-----------------------------------------------------------------------------
QuestionsInit ==
    /\ LedgerInit
    /\ content \in Version
    /\ file = [q \in Questions |-> None]
    /\ pending = None
    /\ preparing = [p \in Process |-> None]
    /\ asked = {} /\ given = {}
    /\ resolving = None
    /\ edited = 0

\* requirements.md is edited or a packet is created.
Edit(v) ==
    /\ edited < MaxEdit /\ v # content
    /\ content' = v
    /\ edited' = edited + 1
    /\ UNCHANGED <<ledgerVars, file, pending, preparing, asked, given, resolving>>

\* The controller writes another candidate at a canonical path.
Rewrite(d) ==
    /\ edited < MaxEdit
    /\ file[d.q] # None /\ file[d.q] # Bound(d, content)
    /\ file' = [file EXCEPT ![d.q] = Bound(d, content)]
    /\ edited' = edited + 1
    /\ UNCHANGED <<ledgerVars, content, pending, preparing, asked, given, resolving>>

\* prepareClarifyQuestion up to its lock: canonicalizeCandidateBindings writes
\* the canonical file with fresh digests, from a draft or, if its own digests are
\* fresh, from itself, before it is known whether a question is pending.
Canonicalize(p, d) ==
    /\ preparing[p] = None
    /\ QuestionFactGate /\ ValidCandidate(d) /\ SynthesisReady(d)
    /\ file' = [file EXCEPT ![d.q] = Bound(d, content)]
    /\ preparing' = [preparing EXCEPT ![p] = Bound(d, content)]
    /\ UNCHANGED <<ledgerVars, content, pending, asked, given, resolving, edited>>

PrepareDraft(p, d) == file[d.q] = None /\ Canonicalize(p, d)

PrepareAgain(p, q) ==
    /\ Loads(file[q])
    /\ \E d \in Draft : Bound(d, content) = file[q] /\ Canonicalize(p, d)

\* What prepareClarifyQuestion requires under the lock
Acceptable(c) ==
    /\ file[c.q] = c /\ Loads(c) /\ QuestionFactGate
    /\ Normalizes(c)
    /\ \A e \in Events : e.target # c.target
    /\ Conflicts(c) = {}

Prepare(p) ==
    /\ preparing[p] # None /\ resolving = None
    /\ pending' = IF (pending = None \/ pending.status = "resolved") /\ Acceptable(preparing[p])
                    THEN [candidate |-> preparing[p], status |-> "pending"] ELSE pending
    /\ preparing' = [preparing EXCEPT ![p] = None]
    /\ UNCHANGED <<ledgerVars, content, file, asked, given, resolving, edited>>

\* Hook pre-question: authorizeClarifyQuestion takes no lock.
Authorize ==
    /\ pending # None /\ pending.status = "pending"
    /\ QuestionFactGate /\ PendingLoads
    /\ asked' = asked \union {pending.candidate.text}
    /\ UNCHANGED <<ledgerVars, content, file, pending, preparing, given, resolving, edited>>

\* The user answers what was shown, now or much later.
Give(t, o) ==
    /\ t \in asked /\ Cardinality(given) < MaxGiven
    /\ given' = given \union {[text |-> t, selected |-> o]}
    /\ UNCHANGED <<ledgerVars, content, file, pending, preparing, asked, resolving, edited>>

\* Mutant: the tool input is not compared with the pending candidate.
AnyToolInput(g) == g \in given /\ pending # None

\* assertExactToolInput
ExactToolInput(g) == g \in given /\ pending # None /\ g.text = pending.candidate.text

\* Hook post-question: resolveClarifyQuestion, under the lock, first half.  An
\* answer may be delivered again; for a resolved question that is a duplicate
\* or an error and changes nothing.
Resolve(g) ==
    /\ resolving = None
    /\ ExactToolInput(g) /\ PendingLoads /\ pending.status = "pending"
    /\ Conflicting(pending.candidate) = {}
    /\ \/ /\ Recorded(pending.candidate) = {}
          /\ Len(ledger) < MaxLedger
          /\ Append1(EventOf(pending.candidate, g.selected))
       \/ /\ \E e \in Recorded(pending.candidate) : e.selected = g.selected
          /\ UNCHANGED ledgerVars
    /\ resolving' = pending.candidate
    /\ UNCHANGED <<content, file, pending, preparing, asked, given, edited>>

\* ... second half
Mark ==
    /\ resolving # None
    /\ pending' = [pending EXCEPT !.status = "resolved"]
    /\ resolving' = None
    /\ UNCHANGED <<ledgerVars, content, file, preparing, asked, given, edited>>

\* The process is killed between its two writes; its lock is recovered.
Die ==
    /\ resolving # None /\ resolving' = None
    /\ UNCHANGED <<ledgerVars, content, file, pending, preparing, asked, given, edited>>

\* Mutant: the recorded event is reported and nothing repaired.
RecoverReports ==
    /\ resolving = None /\ PendingLoads
    /\ UNCHANGED ledgerAndQuestions

\* recoverClarifyQuestion with repair
Recover ==
    /\ resolving = None
    /\ PendingLoads /\ pending.status = "pending"
    /\ Conflicting(pending.candidate) = {} /\ Recorded(pending.candidate) # {}
    /\ pending' = [pending EXCEPT !.status = "resolved"]
    /\ UNCHANGED <<ledgerVars, content, file, preparing, asked, given, resolving, edited>>

QuestionsNext ==
    \/ \E v \in Version : Edit(v)
    \/ \E d \in Draft : Rewrite(d)
    \/ \E p \in Process : \/ \E d \in Draft : PrepareDraft(p, d)
                          \/ \E q \in Questions : PrepareAgain(p, q)
                          \/ Prepare(p)
    \/ Authorize
    \/ \E d \in Draft, o \in Choice \union {"other"} : Give(d.text, o)
    \/ \E g \in given : Resolve(g)
    \/ Mark \/ Die \/ Recover

QuestionsSpec == QuestionsInit /\ [][QuestionsNext]_ledgerAndQuestions

\* A session begins with clarify recover while a question is pending, runs the
\* commands to their end, and prepares what it is told to prepare again.  The
\* host reports an answer a finite number of times, so the lock that recovery
\* waits for is free again and again.
QuestionsFairness ==
    /\ SF_ledgerAndQuestions(Recover) /\ WF_ledgerAndQuestions(Mark)
    /\ \A p \in Process : WF_ledgerAndQuestions(Prepare(p))
    /\ \A p \in Process, q \in Questions : WF_ledgerAndQuestions(PrepareAgain(p, q))

QuestionsFairSpec == QuestionsSpec /\ QuestionsFairness

-----------------------------------------------------------------------------
(* Properties *)

QuestionsTypeOK ==
    /\ content \in Version
    /\ file \in [Questions -> Candidate \union {None}]
    /\ \A q \in Questions : file[q] # None => file[q].q = q
    /\ pending = None \/ pending \in [candidate : Candidate, status : {"pending", "resolved"}]
    /\ pending # None => ValidCandidate(pending.candidate)
    /\ preparing \in [Process -> Candidate \union {None}]
    /\ asked \subseteq {d.text : d \in Draft}
    /\ given \subseteq GivenAnswer
    /\ resolving \in Candidate \union {None}
    /\ \A e \in Events : e.candidate \in Candidate /\ e = EventOf(e.candidate, e.selected)
    /\ edited \in 0 .. MaxEdit

\* Every decision in the ledger is what the user selected when exactly that
\* question was shown: lost, late and repeated deliveries, candidates that are
\* rewritten and questions of two processes never attribute an answer wrongly.
DecisionWasGiven ==
    \A e \in Events : [text |-> e.candidate.text, selected |-> e.selected] \in given

\* A question that counts as resolved has its event, whatever process died in
\* between.
ResolvedIsRecorded ==
    pending # None /\ pending.status = "resolved"
        => \E e \in Events : e.candidate = pending.candidate \/ e \in Recorded(pending.candidate)

\* The ledger has the answers the user gave, and all that count as given.
AnswersAreKept == QuestionsTypeOK /\ DecisionWasGiven /\ ResolvedIsRecorded

\* An Other answer is made precise at most once, about the same cell and
\* target, without a policy the user was not asked about.
NormalizedOnce ==
    \A i, j \in DOMAIN ledger :
        ledger[i].candidate.norm = ledger[j].id
            => /\ j < i
               /\ ledger[j].selected = "other"
               /\ SameRevision(ledger[i].candidate, ledger[j].candidate)
               /\ ledger[i].candidate.axes \subseteq ledger[j].candidate.axes
               /\ \A k \in DOMAIN ledger : ledger[k].candidate.norm = ledger[j].id => k = i

\* A recorded answer whose process died becomes a resolved question, unless the
\* inputs of the question are replaced first.
CrashWindowCloses ==
    (pending # None /\ pending.status = "pending" /\ Recorded(pending.candidate) # {})
        ~> (pending # None /\ (pending.status = "resolved" \/ ~ PendingLoads))

=============================================================================
