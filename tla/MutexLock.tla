------------------------------ MODULE MutexLock ------------------------------
(***************************************************************************)
(* What withFileLock of runtime/lib/state-store.mjs promises its callers:  *)
(* one lock, one holder, and a lock that outlives its owner only until     *)
(* somebody notices that the owner is dead.  FileLock, which models the    *)
(* file operations, implements this specification.                         *)
(***************************************************************************)
CONSTANTS Proc,     \* processes that contend for one lock
          NoHolder  \* "nobody holds the lock"

VARIABLES holder,   \* the process the lock belongs to, or NoHolder
          live      \* the processes that have not died

mutexVars == <<holder, live>>

MutexInit == holder = NoHolder /\ live = Proc

\* A free lock is taken by a live process.
Take(p) ==
    /\ p \in live
    /\ holder = NoHolder
    /\ holder' = p
    /\ UNCHANGED live

\* The holder gives the lock back.
Give(p) ==
    /\ p \in live
    /\ holder = p
    /\ holder' = NoHolder
    /\ UNCHANGED live

\* A live process takes the lock away from a dead holder.
Reclaim ==
    /\ holder # NoHolder
    /\ holder \notin live
    /\ holder' = NoHolder
    /\ UNCHANGED live

Die(p) ==
    /\ p \in live
    /\ live' = live \ {p}
    /\ UNCHANGED holder

MutexNext ==
    \/ Reclaim
    \/ \E p \in Proc : Take(p) \/ Give(p) \/ Die(p)

MutexSpec == MutexInit /\ [][MutexNext]_mutexVars
==============================================================================
