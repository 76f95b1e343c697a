------------------------------ MODULE MCTaskRun ------------------------------
EXTENDS TaskRun, TLC
CONSTANTS r1, r2, r3, r4

\* Runners that cannot be killed are interchangeable.
Alike == Permutations(Runner \ Mortal)
==============================================================================
