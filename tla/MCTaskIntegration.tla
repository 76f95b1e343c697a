-------------------------- MODULE MCTaskIntegration --------------------------
EXTENDS TaskIntegration, TLC
CONSTANTS t1, t2, x1, x2, x3

\* The tasks change paths of their own; x1 is a new file, x3 is deleted.
MCChanged == (t1 :> {x1, x3}) @@ (t2 :> {x2})
=============================================================================
