------------------------- MODULE MCChangeTransaction -------------------------
EXTENDS ChangeTransaction
CONSTANTS c1, c2, t1, t2
==============================================================================
