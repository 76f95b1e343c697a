--------------------------- MODULE MCAgentEvidence ---------------------------
EXTENDS AgentEvidence
CONSTANTS u1, u2, w1, w2, s1

OneSession == [u \in Use |-> 1]
\* Two runs of one type of worker, one of research.
Types == [r \in Run |-> IF r \in Research THEN "code-explore" ELSE "artifact-worker"]
==============================================================================
