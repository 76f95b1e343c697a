----------------------------- MODULE AgentEvidence -----------------------------
(***************************************************************************)
(* The receipts that tie a handoff run to the worker that did it           *)
(* (runtime/lib/agent-evidence.mjs and the hooks pre-agent, subagent-start,*)
(* subagent-stop, post-agent and agent-failure).                           *)
(*                                                                         *)
(* The host runs every hook as a process of its own.  None of them is told *)
(* which run a worker belongs to except PreToolUse, which reads the marker *)
(* of the prompt; the stop hook has to infer the run from the log: the one *)
(* open dispatch of the worker's type in its session.  A worker that is    *)
(* refused may go on and try once more; the second refusal lets it go.     *)
(*                                                                         *)
(* The host stops a tool call only for a hook that exits with code 2.  A   *)
(* pre-agent hook that is killed lets the agent start without a dispatch   *)
(* receipt, and its stop hook looks for a run like that of any other.      *)
(*                                                                         *)
(* The log is append-only and its readers look for receipts that exist, so *)
(* it is kept as sets, with a count of dispatches (every duplicate counts) *)
(* and the latest dispatch of each run.  A tool invocation gets an agent   *)
(* of its own, so an invocation stands for its agent too.                  *)
(***************************************************************************)
EXTENDS Naturals, FiniteSets

CONSTANTS Use,       \* tool invocations that dispatch a worker
          Run,       \* handoff runs, each created before it is dispatched
          NoUse, NoRun,
          SessionOf, \* session of each invocation
          TypeOf,    \* agent type of each run
          Research,  \* runs whose result the stop hook itself persists
          Fragile,   \* invocations whose agent or hooks may be killed
          Copies,    \* times every hook is registered
          Reuse      \* whether a dispatched run may be dispatched again

ASSUME UseAssumption == NoUse \notin Use /\ NoRun \notin Run
ASSUME CopiesAssumption == Copies \in Nat \ {0}

VARIABLES phase,      \* what the host is doing with each invocation
          run,        \* run named by its marker
          dispatches, \* dispatch receipts of each invocation
          latest,     \* invocation of the latest dispatch receipt of each run
          started,    \* agents with a start receipt
          bound,      \* dispatch-binding receipts: agent and run
          stops,      \* stop receipts: agent and run
          failures,   \* runs with a failure receipt
          writer,     \* agent that persisted the result of each run
          retry,      \* agents whose next stop has stop_hook_active
          hook        \* progress of each copy of the stop hook of each agent

vars == <<phase, run, dispatches, latest, started, bound, stops, failures, writer, retry, hook>>

Copy == 1..Copies
Idle == [at |-> "idle", run |-> NoRun]
HookState == [at : {"idle", "found", "earned", "refused", "pass", "block"}, run : Run \cup {NoRun}]

TypeOK ==
    /\ phase \in [Use -> {"none", "launched", "working", "stopping", "ended", "failed", "dead"}]
    /\ run \in [Use -> Run \cup {NoRun}]
    /\ dispatches \in [Use -> {0, Copies}]
    /\ latest \in [Run -> Use \cup {NoUse}]
    /\ started \subseteq Use
    /\ bound \subseteq Use \X Run
    /\ stops \subseteq Use \X Run
    /\ failures \subseteq Run
    /\ writer \in [Run -> Use \cup {NoUse}]
    /\ retry \subseteq Use
    /\ hook \in [Use -> [Copy -> HookState]]

Init ==
    /\ phase = [u \in Use |-> "none"]
    /\ run = [u \in Use |-> NoRun]
    /\ dispatches = [u \in Use |-> 0]
    /\ latest = [r \in Run |-> NoUse]
    /\ started = {} /\ bound = {} /\ stops = {} /\ failures = {} /\ retry = {}
    /\ writer = [r \in Run |-> NoUse]
    /\ hook = [u \in Use |-> [c \in Copy |-> Idle]]

-----------------------------------------------------------------------------
\* Dispatch, start, failure.

\* The agents of u and v are of one type and in one session, which is all that the
\* start and the stop hook know of them.
Alike(u, v) ==
    /\ NoRun \notin {run[u], run[v]}
    /\ SessionOf[u] = SessionOf[v] /\ TypeOf[run[u]] = TypeOf[run[v]]

\* activeHandoffAgentBinding: the agent of u is of the type of r, in a session into
\* which r was dispatched.  Nothing says that it was u that was dispatched for r.
Fits(u, r) ==
    /\ run[u] \in Run /\ TypeOf[run[u]] = TypeOf[r]
    /\ \E v \in Use : dispatches[v] > 0 /\ run[v] = r /\ SessionOf[v] = SessionOf[u]

\* PreToolUse of an invocation whose prompt is the marker of r; the handoff is found
\* valid and its inputs fresh.  Each copy of pre-agent appends a receipt with an event
\* id of its own, and the tool call goes on once every copy has answered.
PreToolUse(u, r) ==
    /\ phase[u] = "none"
    /\ \A v \in Use : run[v] = r /\ dispatches[v] > 0 => Reuse
    /\ phase' = [phase EXCEPT ![u] = "launched"]
    /\ run' = [run EXCEPT ![u] = r]
    /\ dispatches' = [dispatches EXCEPT ![u] = Copies]
    /\ latest' = [latest EXCEPT ![r] = u]
    /\ UNCHANGED <<started, bound, stops, failures, writer, retry, hook>>

\* The pre-agent hook of the invocation is killed before it appends: the host goes on
\* with an agent that has no dispatch receipt, whatever run its prompt names.
LaunchUnseen(u, r) ==
    /\ u \in Fragile
    /\ phase[u] = "none"
    /\ phase' = [phase EXCEPT ![u] = "launched"]
    /\ run' = [run EXCEPT ![u] = r]
    /\ UNCHANGED <<dispatches, latest, started, bound, stops, failures, writer, retry, hook>>

\* The agent begins; its start receipt is lost when the hook is killed.
Start(u) ==
    /\ phase[u] = "launched"
    /\ phase' = [phase EXCEPT ![u] = "working"]
    /\ \/ started' = started \cup {u}
       \/ u \in Fragile /\ started' = started
    /\ UNCHANGED <<run, dispatches, latest, bound, stops, failures, writer, retry, hook>>

\* PostToolUseFailure: the dispatch is found by its tool use id; the failure receipt of
\* an agent without one names no run.
Fail(u) ==
    /\ phase[u] \in {"launched", "working"}
    /\ phase' = [phase EXCEPT ![u] = "failed"]
    /\ failures' = IF dispatches[u] > 0 THEN failures \cup {run[u]} ELSE failures
    /\ UNCHANGED <<run, dispatches, latest, started, bound, stops, writer, retry, hook>>

\* Mutant: the dispatch is looked for by agent type only.
BindByType(u) ==
    /\ phase[u] \in {"launched", "working", "stopping", "ended"}
    /\ \E v \in Use : /\ dispatches[v] > 0 /\ TypeOf[run[v]] = TypeOf[run[u]]
                      /\ bound' = bound \cup {<<u, run[v]>>}
    /\ UNCHANGED <<phase, run, dispatches, latest, started, stops, failures, writer, retry, hook>>

\* PostToolUse: an asynchronous launch returns before the agent stops.  It binds the
\* agent to the dispatch with its tool use id.
Bind(u) ==
    /\ phase[u] \in {"launched", "working", "stopping", "ended"}
    /\ dispatches[u] > 0
    /\ bound' = bound \cup {<<u, run[u]>>}
    /\ UNCHANGED <<phase, run, dispatches, latest, started, stops, failures, writer, retry, hook>>

\* The process tree of the agent is killed: no hook runs.
Die(u) ==
    /\ u \in Fragile
    /\ phase[u] \in {"launched", "working", "stopping"}
    /\ phase' = [phase EXCEPT ![u] = "dead"]
    /\ hook' = [hook EXCEPT ![u] = [c \in Copy |-> Idle]]
    /\ UNCHANGED <<run, dispatches, latest, started, bound, stops, failures, writer, retry>>

\* A worker that has started and not stopped persists the result of a run it fits, with
\* handoff persist or the finalizer of its skill: not only of the run of its own marker.
\* The result is linked into place exclusively.
Persist(u, r) ==
    /\ phase[u] = "working"
    /\ u \in started /\ \A q \in Run : <<u, q>> \notin stops
    /\ Fits(u, r)
    /\ writer[r] = NoUse
    /\ writer' = [writer EXCEPT ![r] = u]
    /\ UNCHANGED <<phase, run, dispatches, latest, started, bound, stops, failures, retry, hook>>

\* A finalizer checks no agent: its gate is the pre-write hook of the command.  When that
\* is killed, the finalizer writes the result of whatever run it is given.
FinalizeUngated(u, r) ==
    /\ u \in Fragile
    /\ phase[u] = "working"
    /\ r \notin Research
    /\ writer[r] = NoUse
    /\ writer' = [writer EXCEPT ![r] = u]
    /\ UNCHANGED <<phase, run, dispatches, latest, started, bound, stops, failures, retry, hook>>

-----------------------------------------------------------------------------
\* The stop hook.

Terminal(r) == r \in failures \/ \E v \in Use : <<v, r>> \in stops

\* Mutant: finished runs stay candidates.
OpenForever(u) ==
    {v \in Use : dispatches[v] > 0 /\ Alike(v, u)}

\* Dispatched invocations among which the stop hook of u looks for its run.
Open(u) ==
    {v \in Use : dispatches[v] > 0 /\ Alike(v, u) /\ ~Terminal(run[v])}

StopBegin(u) ==
    /\ phase[u] = "working"
    /\ phase' = [phase EXCEPT ![u] = "stopping"]
    /\ UNCHANGED <<run, dispatches, latest, started, bound, stops, failures, writer, retry, hook>>

Goto(u, c, at, r) == hook' = [hook EXCEPT ![u][c] = [at |-> at, run |-> r]]

\* Mutant: any open dispatch of the type will do.
StopReadAny(u, c) ==
    /\ phase[u] = "stopping" /\ hook[u][c].at = "idle"
    /\ IF u \in started /\ Open(u) # {}
       THEN \E v \in Open(u) : Goto(u, c, "found", run[v])
       ELSE Goto(u, c, "refused", NoRun)
    /\ UNCHANGED <<phase, run, dispatches, latest, started, bound, stops, failures, writer, retry>>

\* A copy reads the log: exactly one dispatch receipt must be open.
StopRead(u, c) ==
    /\ phase[u] = "stopping" /\ hook[u][c].at = "idle"
    /\ IF u \in started /\ \E v \in Open(u) : Open(u) = {v} /\ dispatches[v] = 1
       THEN \E v \in Open(u) : Goto(u, c, "found", run[v])
       ELSE Goto(u, c, "refused", NoRun)
    /\ UNCHANGED <<phase, run, dispatches, latest, started, bound, stops, failures, writer, retry>>

\* Mutant: the stop receipt does not wait for a result.
StopJudgeEmpty(u, c) ==
    /\ phase[u] = "stopping" /\ hook[u][c].at = "found"
    /\ Goto(u, c, "earned", hook[u][c].run)
    /\ UNCHANGED <<phase, run, dispatches, latest, started, bound, stops, failures, writer, retry>>

\* The copy looks for the result.  A research result must not be there yet and is
\* persisted here, unless the last message is no valid packet.
StopJudge(u, c) ==
    LET r == hook[u][c].run IN
    /\ phase[u] = "stopping" /\ hook[u][c].at = "found"
    /\ \/ /\ r \in Research /\ writer[r] = NoUse
          /\ writer' = [writer EXCEPT ![r] = u]
          /\ Goto(u, c, "earned", r)
       \/ /\ r \in Research
          /\ Goto(u, c, "refused", r) /\ UNCHANGED writer
       \/ /\ r \notin Research
          /\ Goto(u, c, IF writer[r] = NoUse THEN "refused" ELSE "earned", r)
          /\ UNCHANGED writer
    /\ UNCHANGED <<phase, run, dispatches, latest, started, bound, stops, failures, retry>>

StopRecord(u, c) ==
    /\ phase[u] = "stopping" /\ hook[u][c].at = "earned"
    /\ stops' = stops \cup {<<u, hook[u][c].run>>}
    /\ Goto(u, c, "pass", NoRun)
    /\ UNCHANGED <<phase, run, dispatches, latest, started, bound, failures, writer, retry>>

\* The first refusal keeps the agent going; the second ends a known run as failed.
StopRefuse(u, c) ==
    LET r == hook[u][c].run IN
    /\ phase[u] = "stopping" /\ hook[u][c].at = "refused"
    /\ failures' = IF u \in retry /\ r # NoRun THEN failures \cup {r} ELSE failures
    /\ Goto(u, c, IF u \in retry THEN "pass" ELSE "block", NoRun)
    /\ UNCHANGED <<phase, run, dispatches, latest, started, bound, stops, writer, retry>>

\* A hook that is killed, or runs out of its time, does not block.
StopKilled(u, c) ==
    /\ u \in Fragile
    /\ phase[u] = "stopping" /\ hook[u][c].at \in {"idle", "found", "earned", "refused"}
    /\ Goto(u, c, "pass", NoRun)
    /\ UNCHANGED <<phase, run, dispatches, latest, started, bound, stops, failures, writer, retry>>

\* The host has the answers of all copies.
StopEnd(u) ==
    LET blocked == \E c \in Copy : hook[u][c].at = "block" IN
    /\ phase[u] = "stopping"
    /\ \A c \in Copy : hook[u][c].at \in {"pass", "block"}
    /\ phase' = [phase EXCEPT ![u] = IF blocked THEN "working" ELSE "ended"]
    /\ retry' = IF blocked THEN retry \cup {u} ELSE retry
    /\ hook' = [hook EXCEPT ![u] = [c \in Copy |-> Idle]]
    /\ UNCHANGED <<run, dispatches, latest, started, bound, stops, failures, writer>>

-----------------------------------------------------------------------------
StopStep(u) ==
    \/ \E c \in Copy : \/ StopRead(u, c) \/ StopJudge(u, c) \/ StopRecord(u, c)
                       \/ StopRefuse(u, c)
    \/ StopEnd(u)

Next ==
    \E u \in Use :
        \/ \E r \in Run : \/ PreToolUse(u, r) \/ LaunchUnseen(u, r)
                          \/ Persist(u, r) \/ FinalizeUngated(u, r)
        \/ Start(u) \/ Fail(u) \/ Bind(u) \/ Die(u)
        \/ StopBegin(u) \/ StopStep(u)
        \/ \E c \in Copy : StopKilled(u, c)

Spec == Init /\ [][Next]_vars

\* The host runs the hooks it has begun, and the turn of an agent ends.
Fairness == \A u \in Use : WF_vars(StopStep(u)) /\ WF_vars(StopBegin(u))
FairSpec == Spec /\ Fairness

-----------------------------------------------------------------------------
\* trustedHandoffAgentBindings: with a binding receipt the dispatch, start and stop
\* of that agent; without one the latest dispatch of the run, and any start and stop
\* of its type in that session.
TrustedRun(r) ==
    LET B == {u \in Use : <<u, r>> \in bound}
        d == latest[r]
    IN \/ \E u \in B : run[u] = r /\ dispatches[u] > 0 /\ u \in started /\ <<u, r>> \in stops
       \/ /\ B = {} /\ d # NoUse
          /\ \E v \in started : SessionOf[v] = SessionOf[d] /\ TypeOf[run[v]] = TypeOf[r]
          /\ \E v \in Use : SessionOf[v] = SessionOf[d] /\ <<v, r>> \in stops

\* An agent without a dispatch receipt runs, or ran, beside u: the log has a worker more
\* than it has dispatches, and their stop hooks share what there is.
Astray(u) == \E v \in Use : phase[v] # "none" /\ dispatches[v] = 0 /\ Alike(v, u)

\* A stop receipt names the run its agent was dispatched for, although the stop hook
\* is told neither the run nor the invocation and other workers come and go meanwhile,
\* unless a worker like it was launched without a receipt.
StopNamesItsRun == \A u \in Use, r \in Run : <<u, r>> \in stops => run[u] = r \/ Astray(u)

\* What trustedHandoffAgentBindings accepts has a result for good, written by a worker
\* that started and fits the run (or past a gate that was killed), and an agent with a
\* stop receipt for it that never works again: the one dispatched for the run, unless a
\* worker like it was launched without a receipt.
TrustedMeansDone ==
    \A r \in Run : TrustedRun(r) =>
        /\ writer[r] \in Fragile \/ (writer[r] \in started /\ Fits(writer[r], r))
        /\ \E u \in Use : /\ <<u, r>> \in stops /\ Fits(u, r)
                          /\ phase[u] \in {"stopping", "ended", "dead"}
                          /\ run[u] = r \/ Astray(u)

\* Trust in a run is never lost, whichever receipts arrive later, such as the binding
\* that PostToolUse appends after the stop, unless a worker without a receipt of its own
\* may have left the stop that made it trusted.
TrustKept ==
    [][\A r \in Run : TrustedRun(r) => TrustedRun(r)' \/ Astray(latest[r])]_vars

\* Another dispatch that keeps the stop hook of u from telling which run is u's.
Crowded(u) == \E v \in Use \ {u} : dispatches[v] > 0 /\ Alike(v, u) /\ ~Terminal(run[v])

\* A worker whose run has its result, and that is not killed, gets its stop receipt,
\* unless the tool call fails, another worker of its type is open in its session, or
\* one was launched there without a receipt.
WorkIsReceipted ==
    \A u \in Use \ Fragile : \A r \in Run \ Research :
        (phase[u] = "working" /\ run[u] = r /\ writer[r] # NoUse)
            ~> (<<u, r>> \in stops \/ phase[u] = "failed" \/ Crowded(u) \/ Astray(u))

================================================================================
