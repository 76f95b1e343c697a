---------------------------- MODULE DecisionLedger ----------------------------
(***************************************************************************)
(* The decision ledger of a change and the snapshots sealed over it        *)
(* (core/decision-ledger.mjs).  An append replaces the file by a rename    *)
(* under the change transaction and the lock of the ledger, so it is one   *)
(* step; a seal holds the same locks and writes two files.                 *)
(*                                                                         *)
(* An event has at least the fields id, type and target.  The digest of a  *)
(* prefix is the prefix, and a snapshot the length of the prefix it seals. *)
(***************************************************************************)
EXTENDS Naturals, Sequences, SequencesExt

VARIABLES
    ledger,    \* the events of decision-ledger.jsonl
    snapshot,  \* length of the prefix in clarify-decision-snapshot.json, or 0
    history,   \* lengths of the snapshots under snapshots/
    sealing    \* length a seal is about to publish, or 0 when nobody seals

ledgerVars == <<ledger, snapshot, history, sealing>>

LedgerInit ==
    /\ ledger = << >>
    /\ snapshot = 0
    /\ history = {}
    /\ sealing = 0

Events == Range(ledger)

HasEvent(id) == \E e \in Events : e.id = id

DecisionType == {"classification-route", "clarify-answer", "debt-disposition", "lane-applicability",
                 "project-contract-disposition", "project-contract-proposal-approval",
                 "scope-confirmation"}

\* validateDecisionEvent; that ids, options and references are well formed is left
\* out.
IsEvent(e) ==
    /\ {"id", "type", "target", "selected"} \subseteq DOMAIN e
    /\ e.type \in DecisionType

\* validateClarifyDecisionSnapshot: a snapshot names at least one event ...
IsSnapshot(n) == n \in Nat \ {0}

\* ... and readClarifyDecisionSnapshot: they are a prefix of the ledger.
ReadableSnapshot == IsSnapshot(snapshot) /\ snapshot <= Len(ledger)

\* A target has one decision of a type, except for classification routes.
Unresolved(e) ==
    e.type # "classification-route" =>
        \A f \in Events : ~ (f.type = e.type /\ f.target = e.target)

\* appendDecisionEvents for one event: an event that is there is a duplicate,
\* its id with other contents a conflict; both leave the ledger alone.
Appendable(e) ==
    /\ sealing = 0
    /\ IsEvent(e)
    /\ ~ HasEvent(e.id)
    /\ Unresolved(e)

Append1(e) ==
    /\ Appendable(e)
    /\ ledger' = Append(ledger, e)
    /\ UNCHANGED <<snapshot, history, sealing>>

\* sealClarifyDecisionSnapshot: the prefix must extend the one sealed before,
\* whose snapshot is first kept in the history ...
SealBegin(n) ==
    /\ sealing = 0
    /\ n \in (snapshot + 1) .. Len(ledger)
    /\ history' = IF snapshot = 0 THEN history ELSE history \union {snapshot}
    /\ sealing' = n
    /\ UNCHANGED <<ledger, snapshot>>

\* ... and is then replaced.
SealEnd ==
    /\ sealing # 0
    /\ snapshot' = sealing
    /\ sealing' = 0
    /\ UNCHANGED <<ledger, history>>

\* The sealer dies between its two writes; its locks are recovered.
SealDie ==
    /\ sealing # 0
    /\ sealing' = 0
    /\ UNCHANGED <<ledger, snapshot, history>>

-----------------------------------------------------------------------------
\* No two decisions of one type about one target
OneDecisionPerTarget ==
    \A i, j \in DOMAIN ledger :
        /\ ledger[i].type = ledger[j].type
        /\ ledger[i].target = ledger[j].target
        /\ ledger[i].type # "classification-route"
        => i = j

\* What was recorded stays, in its place, and a snapshot that is replaced is in
\* the history and a prefix of the new one, wherever a sealer dies.
LedgerOnlyGrows ==
    [][/\ IsPrefix(ledger, ledger')
       /\ snapshot' # snapshot =>
            /\ snapshot' > snapshot /\ snapshot' <= Len(ledger)
            /\ snapshot # 0 => snapshot \in history]_ledgerVars
=============================================================================
