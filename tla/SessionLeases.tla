----------------------------- MODULE SessionLeases -----------------------------
(***************************************************************************)
(* The binding of a session to a change (runtime/lib/sessions.mjs), its    *)
(* lease, the commands that write it (start-change, sessions bind and      *)
(* unbind, the clean-up of an archived change) and the two steps by which  *)
(* every hook resolves it: loadActiveChange of runtime/lib/gates.mjs and   *)
(* the heartbeat of runtime/lib/hook-change.mjs.                           *)
(*                                                                         *)
(* A binding is written under a lock of its own, so every critical section *)
(* is one step; a hook reads the file outside the lock and renews it       *)
(* inside, and a command or the clock may come in between.  The paths of   *)
(* worktree and subject are left out: a binding has one of each.           *)
(***************************************************************************)
EXTENDS Integers

CONSTANTS Session, Change,
          Lease,      \* lease lifetime, in units of the clock (15 minutes)
          Within,     \* a heartbeat renews a lease with at most this left (10 minutes)
          NoBinding,  \* a session without a binding file
          Bound0, Place0, \* the bindings and places at the start
          MaxBinds    \* bound: binding commands

ASSUME LeaseAssumption ==
    Lease \in Nat /\ Within \in 1..Lease - 1 /\ MaxBinds \in Nat

VARIABLES bound,    \* bound[s]: the binding of session s
          place,    \* place[c]: where the state of change c is
          clearing, \* sessions an archive command listed for the change it archived
          binds     \* binding commands so far

sessionVars == <<bound, place, clearing, binds>>

Binding == [change : Change, left : 0..Lease]
Fresh(c) == [change |-> c, left |-> Lease]

ASSUME StartAssumption ==
    /\ NoBinding \notin Binding
    /\ Bound0 \in [Session -> Binding \cup {NoBinding}]
    /\ Place0 \in [Change -> {"none", "changes", "archive"}]

SessionTypeOK ==
    /\ bound \in [Session -> Binding \cup {NoBinding}]
    /\ place \in [Change -> {"none", "changes", "archive"}]
    /\ clearing \in SUBSET Session
    /\ binds \in 0..MaxBinds

SessionInit ==
    /\ bound = Bound0 /\ place = Place0
    /\ clearing = {} /\ binds = 0

(***************************************************************************)
(* What a hook sees.                                                       *)
(***************************************************************************)

\* Refusals of loadActiveChange: the first one leaves the hook unengaged, the
\* others fail closed.
Refusals == {"unbound", "expired", "stateless"}

ASSUME RefusalAssumption == Change \intersect Refusals = {}

ActiveChange(s) ==
    IF bound[s] = NoBinding THEN "unbound"
    ELSE IF bound[s].left = 0 THEN "expired"
    ELSE IF place[bound[s].change] = "changes" THEN bound[s].change
    ELSE "stateless"

\* Mutant: a heartbeat renews whatever binding it finds.
AnyDue(b) == b.left <= Within

\* A heartbeat renews a lease that is running out and has not run out.
Due(b) == b.left \in 1..Within

\* heartbeatSessionLease as it runs inside the lock of the binding.
Renew(s) ==
    bound' = IF bound[s] # NoBinding /\ Due(bound[s])
             THEN [bound EXCEPT ![s].left = Lease]
             ELSE bound

\* What loadHookChange makes of the heartbeat after it has read the change c: a
\* binding that is gone keeps the answer, or fails the hook when it went between
\* the look and the lock; an expired one is looked up again.
AfterHeartbeat(s, c) ==
    IF bound[s] = NoBinding THEN {c, "failed"}
    ELSE IF bound[s].left = 0 THEN {ActiveChange(s)}
    ELSE {c}

(***************************************************************************)
(* Commands.                                                               *)
(***************************************************************************)

\* bindSession: a new binding, or the renewal of the same one, expired or not;
\* another change is EH-SESSION-CONFLICT-001.
Bind(s, c) ==
    /\ binds < MaxBinds
    /\ bound[s] # NoBinding => bound[s].change = c
    /\ bound' = [bound EXCEPT ![s] = Fresh(c)]
    /\ binds' = binds + 1
    /\ UNCHANGED <<place, clearing>>

Unbind(s) ==
    /\ bound[s] # NoBinding
    /\ bound' = [bound EXCEPT ![s] = NoBinding]
    /\ UNCHANGED <<place, clearing, binds>>

\* start-change binds its session, then scaffolds the change.
Scaffold(c) ==
    /\ place[c] = "none"
    /\ \E s \in Session : bound[s] # NoBinding /\ bound[s].change = c
    /\ place' = [place EXCEPT ![c] = "changes"]
    /\ UNCHANGED <<bound, clearing, binds>>

\* An archive or an abandon moves the change and lists the sessions bound to it.
Archive(c) ==
    /\ place[c] = "changes" /\ clearing = {}
    /\ place' = [place EXCEPT ![c] = "archive"]
    /\ clearing' = {s \in Session : bound[s] # NoBinding /\ bound[s].change = c}
    /\ UNCHANGED <<bound, binds>>

\* It then unbinds what it listed, without another look at the binding.
ClearBinding(s) ==
    /\ s \in clearing
    /\ bound' = [bound EXCEPT ![s] = NoBinding]
    /\ clearing' = clearing \ {s}
    /\ UNCHANGED <<place, binds>>

SessionCommand ==
    \/ \E s \in Session : Unbind(s) \/ ClearBinding(s) \/ \E c \in Change : Bind(s, c)
    \/ \E c \in Change : Scaffold(c) \/ Archive(c)

\* One unit of time passes for every lease.
SessionTick ==
    /\ \E s \in Session : bound[s] # NoBinding /\ bound[s].left > 0
    /\ bound' = [s \in Session |->
                   IF bound[s] # NoBinding /\ bound[s].left > 0
                   THEN [bound[s] EXCEPT !.left = @ - 1] ELSE bound[s]]
    /\ UNCHANGED <<place, clearing, binds>>

(***************************************************************************)
(* Properties.                                                             *)
(***************************************************************************)

\* Only an explicit command gives an expired binding a new lease: no heartbeat,
\* however late, revives it (heartbeatSessionLease, harness/specs/hooks.md).
ExpiredStaysExpired ==
    [][\A s \in Session :
         bound[s] # NoBinding /\ bound[s].left = 0 /\ bound'[s] # NoBinding /\ bound'[s].left > 0 =>
             binds' # binds]_sessionVars
================================================================================
