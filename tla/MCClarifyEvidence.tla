--------------------------- MODULE MCClarifyEvidence ---------------------------
(* Four parts are explored side by side: the application of proposals, which    *)
(* the classification depends on only through the assessment and the file; the  *)
(* lanes, with decisions on them that are written by hand and degraded packets; *)
(* the way from the lanes to a classification with edits and one process that   *)
(* persists; and two such processes while nobody edits.                         *)
EXTENDS ClarifyEvidence
CONSTANTS p1, p2, g1, g2, c1

MCResolves == (p1 :> {g1}) @@ (p2 :> {g1, g2})

VARIABLE part

MCInit == Init /\ part \in {"contract", "lanes", "edits", "persists"}

\* Two decisions on lanes are written by hand, about the fact section or the
\* requirements as they are.
ByHand(e) ==
    /\ part = "lanes" /\ e.target[3] \in {Facts, req}
    /\ Cardinality({f \in Events : f.id[1] = "hand"}) < 2

\* The controller seals all it has, debt is assessed after the synthesis, the
\* instruction file is edited when there is a classification, and other commits fall
\* into a persist.
Ordered ==
    /\ \A e \in Range(ledger') \ Events :
          CASE e.id[1] = "hand"  -> ByHand(e)
            [] e.id[1] = "route" -> part = "edits" => e.selected = "L1"
            [] OTHER -> TRUE
    /\ packet'["docs"] \subseteq {"clean"}
    /\ packet' # packet => part = "lanes" \/ ~ req.closed
    /\ debt' # debt => /\ FactGate /\ req.body = "synthesis" /\ ~ DebtValid
                       /\ debt' \in (CASE part = "lanes" -> {}
                                      [] part = "edits" -> {{}, {req}}
                                      [] part = "persists" -> {{req}})
    /\ OtherCommit => \E p \in Proc : job[p].pc = "begun"
    /\ part = "edits" => \A p \in Proc \ {c1} : job'[p].pc = "idle"
    /\ part = "persists" => edits' = edits
    /\ part # "lanes" => packet'["code"] \subseteq {"clean"}

MCNext ==
    /\ UNCHANGED part
    /\ \/ /\ part = "contract"
          /\ \/ ContractNext /\ UNCHANGED evidenceVars
             \/ \E n \in 0 .. Len(ledger) : SealNext(n)
       \/ /\ part # "contract"
          /\ EvidenceNext /\ Ordered
       \/ /\ part \in {"edits", "persists"}
          /\ \/ SealAll \/ (SealEnd /\ UNCHANGED <<contractVars, evidenceVars>>)
             \/ ((Touch /\ reference # Nothing) \/ Assess({})) /\ UNCHANGED evidenceVars

MCSpec == MCInit /\ [][MCNext]_<<vars, part>> /\ ContractFairness
=============================================================================
