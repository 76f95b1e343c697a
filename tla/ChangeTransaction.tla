-------------------------- MODULE ChangeTransaction --------------------------
(***************************************************************************)
(* One change shared by runtime commands and by the write tools of the     *)
(* host (withChangeTransaction, acquireChangeWriteLease and                *)
(* releaseChangeWriteLease of runtime/lib/state-store.mjs, and their       *)
(* callers: the stage advance of runtime/lifecycle.mjs, the pre-write and  *)
(* post-write hooks).                                                      *)
(*                                                                         *)
(* A command takes the coordinator lock, refuses while an unexpired write  *)
(* lease exists, takes the transaction lock and, inside, reads the state,  *)
(* revalidates the artifacts and commits by compare-and-swap.  A tool's    *)
(* pre-write hook checks the stage gates, then takes a lease under the     *)
(* coordinator; the host writes; the post-write hook invalidates the       *)
(* validation and drops the lease.  Only a hook that answers stops a tool: *)
(* if the pre-write hook is killed the host writes all the same, with the  *)
(* lease or without.  Both locks are the abstract lock that FileLock       *)
(* implements.                                                             *)
(***************************************************************************)
EXTENDS Integers

CONSTANTS Command,    \* runtime commands that advance the change
          Tool,       \* write tool calls of the host, with their hooks
          Mortal,     \* the processes (commands, hooks) that may be killed
          TTL,        \* lease lifetime (60 minutes in the code)
          MaxStage,   \* bound: stage advances
          NoOne       \* a lock that nobody holds

Proc == Command \cup Tool

ASSUME ActorAssumption == Command \cap Tool = {} /\ NoOne \notin Proc /\ Mortal \subseteq Proc
ASSUME ClockAssumption == TTL \in Nat \ {0} /\ MaxStage \in Nat

VARIABLES alive,       \* processes that have not been killed
          coordinator, \* holder of <change>.transaction-coordinator.lock
          transaction, \* holder of <change>.transaction.lock
          lease,       \* lease[t]: time until t's lease expires, 0 once it has
          pc,          \* what each command or tool does next
          stage,       \* stage of the change in state.json
          revision,    \* revision of state.json
          content,     \* version of the governed files
          read,        \* revision a command read
          proof,       \* content its completion proof was computed from
          grant,       \* stage a tool's gates were evaluated against
          exposed,     \* tools that were at work without a live lease: it expired, or
                       \* their pre-write hook was killed before there was one
          slipped      \* commands whose proof was overtaken by the write of such a tool

state == <<stage, revision>>
notes == <<read, proof, grant>>
history == <<exposed, slipped>>
vars == <<alive, coordinator, transaction, lease, pc, state, content, notes, history>>

Coordinator == INSTANCE MutexLock WITH holder <- coordinator, live <- alive, NoHolder <- NoOne
Transaction == INSTANCE MutexLock WITH holder <- transaction, live <- alive, NoHolder <- NoOne

NoLease == -1

CommandSteps == {"idle", "entered", "inside", "validate", "commit", "leaveInside", "leave", "done"}
PreHookSteps == {"start", "checked", "leasing", "leased", "refused"}
ToolSteps == PreHookSteps \cup
             {"writing", "unhooked", "written", "posted", "dropping", "dropped", "over"}
InsideSteps == {"inside", "validate", "commit", "leaveInside"}
CoordinatedSteps == InsideSteps \cup
                    {"entered", "leave", "leasing", "leased", "refused", "dropping", "dropped"}
AtWorkSteps == {"leased", "writing", "unhooked", "written", "posted", "dropping"}

TypeOK ==
    /\ alive \in SUBSET Proc
    /\ coordinator \in Proc \cup {NoOne}
    /\ transaction \in Command \cup {NoOne}
    /\ lease \in [Tool -> 0..TTL \cup {NoLease}]
    /\ pc \in [Proc -> CommandSteps \cup ToolSteps]
    /\ stage \in Nat /\ revision \in Nat /\ content \in Nat
    /\ read \in [Command -> Nat] /\ proof \in [Command -> Nat]
    /\ grant \in [Tool -> Nat]
    /\ exposed \in SUBSET Tool /\ slipped \in SUBSET Command

Init ==
    /\ alive = Proc
    /\ coordinator = NoOne /\ transaction = NoOne
    /\ lease = [t \in Tool |-> NoLease]
    /\ pc = [p \in Proc |-> IF p \in Command THEN "idle" ELSE "start"]
    /\ stage = 0 /\ revision = 1 /\ content = 0
    /\ read = [c \in Command |-> 0] /\ proof = [c \in Command |-> 0]
    /\ grant = [t \in Tool |-> 0]
    /\ exposed = {} /\ slipped = {}

At(p, step) == p \in alive /\ pc[p] = step
Goto(p, step) == pc' = [pc EXCEPT ![p] = step]

IsLive(t) == lease[t] > 0

\* Mutants: expired leases are kept; live leases are purged with them.
AllLeases == lease
NoLeases == [t \in Tool |-> NoLease]

\* The lease files that removeExpiredWriteLeases leaves.
Unexpired == [t \in Tool |-> IF IsLive(t) THEN lease[t] ELSE NoLease]

CoordinatorBusy == coordinator \in alive

(***************************************************************************)
(* A runtime command: withChangeTransaction around a stage advance.        *)
(***************************************************************************)

Begin(c) ==
    /\ At(c, "idle") /\ stage < MaxStage
    /\ Coordinator!Take(c)
    /\ Goto(c, "entered")
    /\ UNCHANGED <<transaction, lease, state, content, notes, history>>

\* Mutant: write leases are not looked at.
CheckNoLeases(c) ==
    /\ At(c, "entered")
    /\ Transaction!Take(c)
    /\ Goto(c, "inside")
    /\ UNCHANGED <<coordinator, lease, state, content, notes, history>>

\* Purge expired leases; refuse while others remain (EH-151), else take the
\* transaction lock.
CheckLeases(c) ==
    /\ At(c, "entered")
    /\ lease' = Unexpired
    /\ IF \E t \in Tool : Unexpired[t] # NoLease
         THEN UNCHANGED <<alive, transaction>> /\ Goto(c, "leave")
         ELSE Transaction!Take(c) /\ Goto(c, "inside")
    /\ UNCHANGED <<coordinator, state, content, notes, history>>

ReadState(c) ==
    /\ At(c, "inside")
    /\ read' = [read EXCEPT ![c] = revision]
    /\ Goto(c, "validate")
    /\ UNCHANGED <<alive, coordinator, transaction, lease, state, content, proof, grant, history>>

\* persistStageCompletionProof: digests of the artifacts as they are now.
Validate(c) ==
    /\ At(c, "validate")
    /\ proof' = [proof EXCEPT ![c] = content]
    /\ slipped' = slipped \ {c}
    /\ Goto(c, "commit")
    /\ UNCHANGED <<alive, coordinator, transaction, lease, state, content, read, grant, exposed>>

\* updateChangeState with expectedRevision.
Commit(c) ==
    /\ At(c, "commit")
    /\ IF revision = read[c]
         THEN stage' = stage + 1 /\ revision' = revision + 1
         ELSE UNCHANGED state
    /\ Goto(c, "leaveInside")
    /\ UNCHANGED <<alive, coordinator, transaction, lease, content, notes, history>>

LeaveTransaction(c) ==
    /\ At(c, "leaveInside")
    /\ Transaction!Give(c)
    /\ Goto(c, "leave")
    /\ UNCHANGED <<coordinator, lease, state, content, notes, history>>

LeaveCommand(c) ==
    /\ At(c, "leave")
    /\ Coordinator!Give(c)
    /\ Goto(c, "idle")
    /\ UNCHANGED <<transaction, lease, state, content, notes, history>>

(***************************************************************************)
(* A write tool call: pre-write hook, the host's write, post-write hook.   *)
(***************************************************************************)

\* preWrite evaluates the dynamic and the stage gates, without any lock.
CheckGates(t) ==
    /\ At(t, "start")
    /\ grant' = [grant EXCEPT ![t] = stage]
    /\ Goto(t, "checked")
    /\ UNCHANGED <<alive, coordinator, transaction, lease, state, content, read, proof, history>>

\* acquireChangeWriteLease: the coordinator is not waited for (EH-012).
EnterLease(t) ==
    /\ At(t, "checked")
    /\ IF CoordinatorBusy
         THEN UNCHANGED <<alive, coordinator>> /\ Goto(t, "over")
         ELSE Coordinator!Take(t) /\ Goto(t, "leasing")
    /\ UNCHANGED <<transaction, lease, state, content, notes, history>>

\* Purge expired leases, refuse during a live transaction (EH-150), quarantine
\* the transaction lock of a dead owner, write the lease.
WriteLease(t) ==
    /\ At(t, "leasing")
    /\ IF transaction \in alive
         THEN /\ lease' = Unexpired
              /\ UNCHANGED transaction
              /\ Goto(t, "refused")
         ELSE /\ lease' = [Unexpired EXCEPT ![t] = TTL]
              /\ transaction' = NoOne
              /\ Goto(t, "leased")
    /\ UNCHANGED <<alive, coordinator, state, content, notes, history>>

\* The pre-write hook exits and the host runs the tool.
LeaveLease(t) ==
    /\ At(t, "leased")
    /\ Coordinator!Give(t)
    /\ Goto(t, "writing")
    /\ UNCHANGED <<transaction, lease, state, content, notes, history>>

\* The host writes a governed file.
Write(t) ==
    /\ content' = content + 1
    /\ IF IsLive(t)
         THEN UNCHANGED history
         ELSE /\ exposed' = exposed \cup {t}
              /\ slipped' = slipped \cup {c \in Command : At(c, "commit")}
    /\ UNCHANGED <<alive, coordinator, transaction, lease, state, notes>>

HostWrite(t) ==
    /\ At(t, "writing")
    /\ Write(t)
    /\ Goto(t, "written")

\* A hook that was killed does not block: only exit code 2 does.
UnhookedWrite(t) ==
    /\ t \notin alive /\ pc[t] \in PreHookSteps
    /\ Write(t)
    /\ Goto(t, "unhooked")

\* The post-write hook of such a call is a process of its own.
StartPostHook(t) ==
    /\ t \notin alive /\ pc[t] = "unhooked" /\ coordinator # t
    /\ alive' = alive \cup {t}
    /\ Goto(t, "written")
    /\ UNCHANGED <<coordinator, transaction, lease, state, content, notes, history>>

\* PostToolUse: markValidationStaleForWrite commits a new revision.
PostWrite(t) ==
    /\ At(t, "written")
    /\ revision' = revision + 1
    /\ Goto(t, "posted")
    /\ UNCHANGED <<alive, coordinator, transaction, lease, stage, content, notes, history>>

\* releaseChangeWriteLease: a busy coordinator ends the hook (EH-153) and the
\* lease stays until it expires.
EnterRelease(t) ==
    /\ At(t, "posted")
    /\ IF CoordinatorBusy
         THEN UNCHANGED <<alive, coordinator>> /\ Goto(t, "over")
         ELSE Coordinator!Take(t) /\ Goto(t, "dropping")
    /\ UNCHANGED <<transaction, lease, state, content, notes, history>>

DropLease(t) ==
    /\ At(t, "dropping")
    /\ lease' = [lease EXCEPT ![t] = NoLease]
    /\ Goto(t, "dropped")
    /\ UNCHANGED <<alive, coordinator, transaction, state, content, notes, history>>

\* The end of the post-write hook, or of a pre-write hook that refuses.
LeaveRelease(t) ==
    /\ At(t, "dropped") \/ At(t, "refused")
    /\ Coordinator!Give(t)
    /\ Goto(t, "over")
    /\ UNCHANGED <<transaction, lease, state, content, notes, history>>

\* The session ends and PostToolUse never runs.
LosePost(t) ==
    /\ At(t, "written")
    /\ Goto(t, "over")
    /\ UNCHANGED <<alive, coordinator, transaction, lease, state, content, notes, history>>

(***************************************************************************)
(* Environment: recovery of the locks of dead owners, deaths, time.        *)
(***************************************************************************)

ReclaimCoordinator ==
    /\ Coordinator!Reclaim
    /\ UNCHANGED <<transaction, lease, pc, state, content, notes, history>>

\* Only inside the coordinator does anybody contend for the transaction lock.
ReclaimTransaction ==
    /\ \E c \in Command : At(c, "entered")
    /\ Transaction!Reclaim
    /\ UNCHANGED <<coordinator, lease, pc, state, content, notes, history>>

\* A command or a hook is killed.
Crash(p) ==
    /\ p \in Mortal
    /\ Coordinator!Die(p)
    /\ UNCHANGED <<transaction, lease, pc, state, content, notes, history>>

\* Every live lease comes one unit closer to its expiry.
Tick ==
    /\ \E t \in Tool : IsLive(t)
    /\ lease' = [t \in Tool |-> IF IsLive(t) THEN lease[t] - 1 ELSE lease[t]]
    /\ exposed' = exposed \cup {t \in Tool : pc[t] \in AtWorkSteps /\ lease[t] = 1}
    /\ UNCHANGED <<alive, coordinator, transaction, pc, state, content, notes, slipped>>

CommandStep(c) ==
    \/ Begin(c) \/ CheckLeases(c) \/ ReadState(c) \/ Validate(c) \/ Commit(c)
    \/ LeaveTransaction(c) \/ LeaveCommand(c)

ToolStep(t) ==
    \/ CheckGates(t) \/ EnterLease(t) \/ WriteLease(t) \/ LeaveLease(t) \/ HostWrite(t)
    \/ PostWrite(t) \/ EnterRelease(t) \/ DropLease(t) \/ LeaveRelease(t)

Next ==
    \/ \E c \in Command : CommandStep(c)
    \/ \E t \in Tool : ToolStep(t) \/ LosePost(t) \/ UnhookedWrite(t) \/ StartPostHook(t)
    \/ ReclaimCoordinator \/ ReclaimTransaction
    \/ \E p \in Proc : Crash(p)
    \/ Tick

Spec == Init /\ [][Next]_vars

\* Live processes run on, dead owners are found out by the next contender,
\* time passes, and a command that was refused is retried.
FairSpec ==
    /\ Spec
    /\ \A c \in Command : WF_vars(CommandStep(c))
    /\ \A t \in Tool : WF_vars(ToolStep(t))
    /\ WF_vars(ReclaimCoordinator) /\ WF_vars(ReclaimTransaction) /\ WF_vars(Tick)

(***************************************************************************)
(* Properties.                                                             *)
(***************************************************************************)

Inside(c) == c \in alive /\ pc[c] \in InsideSteps

\* The exclusive side and the shared side never overlap: while a command is
\* inside its transaction no unexpired write lease exists.
TransactionExcludesLeases ==
    \A c \in Command, t \in Tool : Inside(c) => ~IsLive(t)

\* The stage does not move under a tool between the grant of its lease and the
\* end of its post-write work, unless the tool worked without a live lease: it
\* outlived its lease, or its pre-write hook was killed before there was one.
StageFrozenWhileLeased ==
    [][stage' # stage => \A t \in Tool : pc[t] \in AtWorkSteps => t \in exposed]_vars

\* A stage advance commits a proof of the files as they are at the commit: no write
\* falls between revalidation and compare-and-swap, except one of a tool that has no
\* live lease at that moment.
AdvanceIsFresh ==
    [][\A c \in Command :
         At(c, "commit") /\ stage' # stage /\ pc'[c] # "commit" =>
             proof[c] = content \/ c \in slipped]_vars

\* Killed commands, killed hooks and lost PostToolUse events do not block a
\* change for good: a surviving command completes the remaining advances.
AdvanceCompletes ==
    \A c \in Command \ Mortal : <>(stage = MaxStage)
==============================================================================
