--------------------------- MODULE MCStageEvidence ---------------------------
EXTENDS StageEvidence, TLC
CONSTANTS a, b, s1, s2

Sealers == Permutations(Sealer)

\* A sealer that resolved the chain during design and has not written when the
\* stage is left is not followed any further.
SealersSettled == stage # "design" => \A s \in Sealer : sealing[s] = NoProof

\* Agents are only compared within a chain: without loss every worker is a.
WorkersAreA == \A r \in Runs : run[r].parent = 0 => run[r].agent \in {a, NoAgent}

Explored == SealersSettled /\ WorkersAreA
=============================================================================
