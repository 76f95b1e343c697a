------------------------------ MODULE MCFileLock ------------------------------
(* Three parts are explored side by side: the git gate with one death and a     *)
(* process of another host; the git gate with two deaths; and the directory     *)
(* gate with two deaths, both on one host.                                      *)
EXTENDS FileLock, TLC
CONSTANTS a, b, c, d, here, there

\* The last process runs on a machine of its own.
TwoHosts == [p \in {a, b, c, d} |-> IF p = d THEN there ELSE here]

Fs == INSTANCE FileLock WITH GateKind <- "fs"

VARIABLE part

MCInit == Init /\ part \in {"hosts", "deaths", "directory"}

MCNext ==
    /\ UNCHANGED part
    /\ \/ part = "hosts" /\ Next /\ b \in alive'
       \/ part = "deaths" /\ Next /\ pc'[d] = "idle"
       \/ part = "directory" /\ Fs!Next /\ pc'[d] = "idle"

MCStep(p) ==
    IF part = "directory" THEN Fs!Step(p) ELSE Step(p)

MCSpec == /\ MCInit /\ [][MCNext]_<<vars, part>>
          /\ \A p \in {a, b, c} : WF_<<vars, part>>(MCStep(p) /\ UNCHANGED part)

\* withFileLock implements the abstract lock where one process can die.  With two
\* deaths a dead lock that was moved too late is put back, and the file is free in
\* between.
OneDeath == INSTANCE MutexLock WITH
    NoHolder <- NoOwner,
    holder <- IF part = "hosts" THEN Holder ELSE NoOwner,
    live <- IF part = "hosts" THEN alive ELSE Proc
AbstractWithOneDeath == OneDeath!MutexSpec
==============================================================================
