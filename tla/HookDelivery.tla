----------------------------- MODULE HookDelivery -----------------------------
(***************************************************************************)
(* One tool call, several hooks.  A repository that is both a plugin and a *)
(* standalone checkout registers every hook twice, so each tool call runs  *)
(* one hook process per channel: the marker of runtime/lib/hook-dedup.mjs  *)
(* lets one of them act.  The acting hook resolves the change of its       *)
(* session (SessionLeases) each time it needs it; in between, commands and *)
(* the clock move the binding.                                             *)
(*                                                                         *)
(* A write tool passes pre-write.mjs (gates, snapshot of a Bash command,   *)
(* write lease), runs, and passes post-write.mjs (attribution of the       *)
(* snapshot, invalidation of the validation, release of the lease) or, if  *)
(* it failed, post-write-release.mjs.  A read tool passes pre-explore.mjs, *)
(* which charges it to the budget of its agent.  A hook that crashes or    *)
(* times out does not stop its tool call: only exit code 2 does.           *)
(***************************************************************************)
EXTENDS SessionLeases, Sequences, FiniteSets

CONSTANTS Event, Channel,
          SessionOf,   \* SessionOf[e]: the session of the tool call e
          AgentOf,     \* AgentOf[e]: the agent that makes it
          Scenario,    \* the tool calls under consideration: functions Event -> Tool
          Limit,       \* Limit[t]: budget of a read tool, per agent
          Fragile,     \* channels whose hooks may be killed
          NoHook       \* a lock that no hook holds

\* Tools by what the hooks tell apart: writes, the tools of a code-explore agent
\* ("grep" has a budget, "listing", a read command of Bash, has none), a Context7
\* call of a doc-research agent, a read that implementers and reviewers may do
\* ("scoped": its write scope, the paths of the reviewed receipt), and any other.
WriteTool == {"edit", "bash"}
Fallback == {"grep", "listing"}
ReadTool == {"codegraph", "context7", "scoped", "other"} \cup Fallback
Budgeted == {"codegraph", "grep", "context7"}

Hook == Event \X Channel
HooksOf(e) == {e} \X Channel

ASSUME DeliveryAssumption ==
    /\ SessionOf \in [Event -> Session] /\ NoHook \notin Hook
    /\ Channel # {} /\ Fragile \subseteq Channel
    /\ Scenario \subseteq [Event -> WriteTool \cup ReadTool \cup {"none"}]
    /\ Limit \in [Budgeted -> Nat]

VARIABLES tool,      \* tool[e]
          phase,     \* phase[e]: the round of hooks the tool call is in
          at, step,  \* at[h], step[h]: what a hook does next
          seen,      \* seen[h]: what it last took for the change of its session
          runner,    \* runner[h]: what the decision it is carrying out was made for
          hadLease,  \* hadLease[h]: it saw the lease of its tool call
          verdict,   \* verdict[h]: exit of the post-write work proper
          claimed,   \* marker files
          snapshot,  \* snapshot[e]: files of hook-snapshots
          leases,    \* write leases: pairs of a change and a tool call
          stale,     \* pairs of a change and a tool call that invalidated its validation
          postLock,  \* postLock[c]: the hook in the post-write work of change c
          spool,     \* admitted reads, in order
          ran,       \* tool calls that the host carried out
          gated,     \* pairs of an answer and a write call let through the gates for it
          troubled,  \* tool calls some hook of which died, failed or found a lock busy
          disturbed  \* tool calls during which the binding was lost or expired

hookVars == <<at, step, seen, runner, hadLease, verdict>>
evidence == <<claimed, snapshot, leases, stale, postLock, spool, gated>>
host == <<tool, phase, ran>>
deliveryVars == <<sessionVars, host, hookVars, evidence, troubled, disturbed>>

LoadSites == {"decide", "gate", "look", "mark", "release"}
Results == {"allow", "block", "alarm", "died"}
Sites == LoadSites \cup {"claim", "charge", "lease", "wait", "work", "fail"} \cup Results
Answers == Change \cup Refusals

DeliveryTypeOK ==
    /\ tool \in [Event -> WriteTool \cup ReadTool \cup {"none"}]
    /\ phase \in [Event -> {"pre", "post", "failed", "over"}]
    /\ at \in [Hook -> Sites] /\ step \in [Hook -> {"load", "beat", "ready"}]
    /\ seen \in [Hook -> Answers] /\ runner \in [Hook -> Answers]
    /\ hadLease \in [Hook -> BOOLEAN] /\ verdict \in [Hook -> {"allow", "block"}]
    /\ claimed \subseteq {"pre", "post", "failed"} \X Event
    /\ snapshot \in [Event -> {"none", "taken", "consumed"}]
    /\ leases \subseteq Change \X Event /\ stale \subseteq Change \X Event
    /\ postLock \in [Change -> Hook \cup {NoHook}]
    /\ spool \in Seq(Event)
    /\ gated \subseteq Answers \X Event
    /\ ran \cup troubled \cup disturbed \subseteq Event
HooksTypeOK == SessionTypeOK /\ DeliveryTypeOK

DeliveryInit ==
    /\ SessionInit
    /\ tool \in Scenario
    /\ phase = [e \in Event |-> IF tool[e] = "none" THEN "over" ELSE "pre"]
    /\ at = [h \in Hook |-> "claim"] /\ step = [h \in Hook |-> "ready"]
    /\ seen = [h \in Hook |-> "unbound"] /\ runner = [h \in Hook |-> "unbound"]
    /\ hadLease = [h \in Hook |-> FALSE] /\ verdict = [h \in Hook |-> "allow"]
    /\ claimed = {} /\ snapshot = [e \in Event |-> "none"]
    /\ leases = {} /\ stale = {} /\ postLock = [c \in Change |-> NoHook]
    /\ spool = <<>> /\ ran = {} /\ gated = {} /\ troubled = {} /\ disturbed = {}

(***************************************************************************)
(* Steps every hook takes.                                                 *)
(***************************************************************************)

AtSite(h, site) == phase[h[1]] # "over" /\ at[h] = site /\ step[h] = "ready"
IsWrite(e) == tool[e] \in WriteTool

GoTo(h, site) ==
    /\ at' = [at EXCEPT ![h] = site]
    /\ step' = [step EXCEPT ![h] = IF site \in LoadSites THEN "load" ELSE "ready"]

Trouble(h) == troubled' = troubled \cup {h[1]}

\* A hook that ends lets go of the post-write lock it holds.
Unlock(h) == postLock' = [c \in Change |-> IF postLock[c] = h THEN NoHook ELSE postLock[c]]

\* claimOnce: exactly one creation of the marker succeeds.  (Markers are pruned
\* after an hour, when the time-outs of the hooks have ended every round.)
First(kind, e) == <<kind, e>> \notin claimed

\* loadActiveChange: the answer, and a heartbeat if it is a change.
Load(h) ==
    LET answer == ActiveChange(SessionOf[h[1]]) IN
    /\ phase[h[1]] # "over" /\ step[h] = "load"
    /\ seen' = [seen EXCEPT ![h] = answer]
    /\ step' = [step EXCEPT ![h] = IF answer \in Change THEN "beat" ELSE "ready"]
    /\ UNCHANGED <<sessionVars, host, at, runner, hadLease, verdict, evidence, troubled, disturbed>>

\* An error of the heartbeat is uncaught before the decision of a hook, and
\* caught in the work after a write.
Beat(h) ==
    /\ phase[h[1]] # "over" /\ step[h] = "beat"
    /\ Renew(SessionOf[h[1]])
    /\ \E answer \in AfterHeartbeat(SessionOf[h[1]], seen[h]) :
         IF answer # "failed"
         THEN /\ seen' = [seen EXCEPT ![h] = answer]
              /\ step' = [step EXCEPT ![h] = "ready"]
              /\ UNCHANGED <<at, verdict, troubled, postLock>>
         ELSE /\ Trouble(h)
              /\ CASE at[h] = "mark" -> /\ GoTo(h, "release")
                                        /\ verdict' = [verdict EXCEPT ![h] = "block"]
                                        /\ UNCHANGED postLock
                   [] at[h] = "release" -> GoTo(h, "block") /\ Unlock(h) /\ UNCHANGED verdict
                   [] OTHER -> GoTo(h, "died") /\ UNCHANGED <<verdict, postLock>>
              /\ UNCHANGED seen
    /\ UNCHANGED <<place, clearing, binds, host, runner, hadLease, claimed, snapshot, leases, stale,
                   spool, gated, disturbed>>

\* The hook process is killed, or runs into the time-out of its registration.
\* Bound: once per tool call.
Die(h) ==
    /\ h[2] \in Fragile /\ phase[h[1]] # "over" /\ at[h] \notin Results
    /\ h[1] \notin troubled
    /\ GoTo(h, "died") /\ Trouble(h)
    /\ UNCHANGED <<sessionVars, host, seen, runner, hadLease, verdict, evidence, disturbed>>

(***************************************************************************)
(* Before a write: preWrite of pre-write.mjs.                              *)
(***************************************************************************)

\* preWrite and preExplore: a duplicate lets the call pass, the other one is
\* going to decide it.
Claim(h) ==
    /\ AtSite(h, "claim")
    /\ IF First("pre", h[1])
       THEN claimed' = claimed \cup {<<"pre", h[1]>>} /\ GoTo(h, "decide")
       ELSE GoTo(h, "allow") /\ UNCHANGED claimed
    /\ UNCHANGED <<sessionVars, host, seen, runner, hadLease, verdict, snapshot, leases, stale,
                   postLock, spool, gated, troubled, disturbed>>

Pass(h, answer) == GoTo(h, "lease") /\ gated' = gated \cup {<<answer, h[1]>>}
Refuse(h) == GoTo(h, "block") /\ UNCHANGED gated

\* A Bash command of the implementer must launch task-run on a fresh stage, one
\* outside any change only leaves a snapshot; editing is decided by its targets.
DecideWrite(h) ==
    /\ AtSite(h, "decide") /\ IsWrite(h[1])
    /\ runner' = [runner EXCEPT ![h] = seen[h]]
    /\ \/ /\ tool[h[1]] = "edit"
          /\ GoTo(h, "gate") /\ UNCHANGED <<snapshot, gated>>
       \/ /\ tool[h[1]] = "bash" /\ seen[h] \in Change \cup {"unbound"}
          /\ snapshot' = [snapshot EXCEPT ![h[1]] = "taken"]
          /\ IF seen[h] \in Change THEN Pass(h, seen[h]) ELSE GoTo(h, "gate") /\ UNCHANGED gated
       \/ /\ tool[h[1]] = "bash" /\ seen[h] # "unbound"
          /\ Refuse(h) /\ UNCHANGED snapshot
    /\ UNCHANGED <<sessionVars, host, seen, hadLease, verdict, claimed, leases, stale, postLock,
                   spool, troubled, disturbed>>

\* Mutant: an expired lease counts as no binding.
GateLeniently(h) ==
    /\ AtSite(h, "gate")
    /\ \/ seen[h] \in Change \cup {"unbound"} /\ Pass(h, seen[h])
       \/ seen[h] = "expired" /\ GoTo(h, "lease") /\ UNCHANGED gated
       \/ seen[h] # "unbound" /\ Refuse(h)
    /\ UNCHANGED <<sessionVars, host, seen, runner, hadLease, verdict, claimed, snapshot, leases,
                   stale, postLock, spool, troubled, disturbed>>

\* For each governed target the change is resolved once more and its dynamic and
\* stage gates are evaluated; without a binding there is nothing to evaluate.
Gate(h) ==
    /\ AtSite(h, "gate")
    /\ \/ seen[h] \in Change \cup {"unbound"} /\ Pass(h, seen[h])
       \/ seen[h] # "unbound" /\ Refuse(h)
    /\ UNCHANGED <<sessionVars, host, seen, runner, hadLease, verdict, claimed, snapshot, leases,
                   stale, postLock, spool, troubled, disturbed>>

\* allowWithLease, for the change of the first look; a transition in progress
\* refuses the lease and the write.
TakeLease(h) ==
    /\ AtSite(h, "lease")
    /\ \/ /\ runner[h] \in Change
          /\ leases' = leases \cup {<<runner[h], h[1]>>} /\ GoTo(h, "allow")
       \/ runner[h] \in Change /\ GoTo(h, "block") /\ UNCHANGED leases
       \/ runner[h] \notin Change /\ GoTo(h, "allow") /\ UNCHANGED leases
    /\ UNCHANGED <<sessionVars, host, seen, runner, hadLease, verdict, claimed, snapshot, stale,
                   postLock, spool, gated, troubled, disturbed>>

(***************************************************************************)
(* Before a read: preExplore of pre-explore.mjs.                           *)
(***************************************************************************)

Charged(t, a) == {i \in DOMAIN spool : tool[spool[i]] = t /\ AgentOf[spool[i]] = a}

Attempted(a) == Charged("codegraph", a) # {}

\* Governed code is for a bound code-explore agent, which has to have tried
\* CodeGraph before anything else; Context7 is for a bound doc-research agent.
DecideRead(h) ==
    LET t == tool[h[1]]
        fallback == t \in Fallback /\ Attempted(AgentOf[h[1]])
        admitted == seen[h] \in Change /\ (t \in {"codegraph", "context7", "scoped"} \/ fallback)
    IN
    /\ AtSite(h, "decide") /\ ~IsWrite(h[1])
    /\ GoTo(h, IF ~admitted THEN "block" ELSE IF t \in Budgeted THEN "charge" ELSE "allow")
    /\ UNCHANGED <<sessionVars, host, seen, runner, hadLease, verdict, evidence, troubled, disturbed>>

\* Mutant: the limit itself is still admitted.
ChargeLate(h) ==
    LET t == tool[h[1]] IN
    /\ AtSite(h, "charge")
    /\ IF Cardinality(Charged(t, AgentOf[h[1]])) <= Limit[t]
       THEN spool' = Append(spool, h[1]) /\ GoTo(h, "allow")
       ELSE GoTo(h, "block") /\ UNCHANGED spool
    /\ UNCHANGED <<sessionVars, host, seen, runner, hadLease, verdict, claimed, snapshot, leases,
                   stale, postLock, gated, troubled, disturbed>>

\* claimAgentEventBudget counts and appends under the lock of the spool.
Charge(h) ==
    LET t == tool[h[1]] IN
    /\ AtSite(h, "charge")
    /\ IF Cardinality(Charged(t, AgentOf[h[1]])) < Limit[t]
       THEN spool' = Append(spool, h[1]) /\ GoTo(h, "allow")
       ELSE GoTo(h, "block") /\ UNCHANGED spool
    /\ UNCHANGED <<sessionVars, host, seen, runner, hadLease, verdict, claimed, snapshot, leases,
                   stale, postLock, gated, troubled, disturbed>>

(***************************************************************************)
(* The host: one block stops the call; a failed hook does not.             *)
(***************************************************************************)

Ended(e) == \A h \in HooksOf(e) : at[h] \in Results

\* The processes of a round are gone when it is over.
Forget(e) ==
    /\ seen' = [h \in Hook |-> IF h[1] = e THEN "unbound" ELSE seen[h]]
    /\ runner' = [h \in Hook |-> IF h[1] = e THEN "unbound" ELSE runner[h]]
    /\ hadLease' = [h \in Hook |-> IF h[1] = e THEN FALSE ELSE hadLease[h]]
    /\ verdict' = [h \in Hook |-> IF h[1] = e THEN "allow" ELSE verdict[h]]

\* The next round of hooks starts, each at the step its script starts with.
NextRound(e, round, site) ==
    /\ phase' = [phase EXCEPT ![e] = round]
    /\ at' = [h \in Hook |-> IF h[1] = e THEN site ELSE at[h]]
    /\ step' = [h \in Hook |-> IF h[1] = e THEN (IF site = "look" THEN "load" ELSE "ready") ELSE step[h]]

LastRound(e) == phase' = [phase EXCEPT ![e] = "over"] /\ UNCHANGED <<at, step>>

RunTool(e) ==
    /\ phase[e] = "pre" /\ Ended(e) /\ Forget(e)
    /\ \/ /\ \E h \in HooksOf(e) : at[h] = "block"
          /\ LastRound(e) /\ UNCHANGED ran
       \/ /\ \A h \in HooksOf(e) : at[h] # "block"
          /\ ran' = ran \cup {e}
          /\ IF IsWrite(e) THEN NextRound(e, "post", "look") ELSE LastRound(e)
       \/ /\ IsWrite(e) /\ \A h \in HooksOf(e) : at[h] # "block"
          /\ NextRound(e, "failed", "fail") /\ UNCHANGED ran
    /\ UNCHANGED <<sessionVars, tool, evidence, troubled, disturbed>>

EndCall(e) ==
    /\ phase[e] \in {"post", "failed"} /\ Ended(e) /\ Forget(e) /\ LastRound(e)
    /\ UNCHANGED <<sessionVars, tool, ran, evidence, troubled, disturbed>>

(***************************************************************************)
(* After a write: postWrite of post-write.mjs, post-write-release.mjs.     *)
(***************************************************************************)

\* postWrite: whether the lease is there is looked up before the lock is taken.
LookAtWrite(h) ==
    /\ AtSite(h, "look")
    /\ runner' = [runner EXCEPT ![h] = seen[h]]
    /\ hadLease' = [hadLease EXCEPT ![h] = seen[h] \in Change /\ <<seen[h], h[1]>> \in leases]
    /\ verdict' = [verdict EXCEPT ![h] = "allow"]
    /\ GoTo(h, IF seen[h] \in Change THEN "wait" ELSE "work")
    /\ UNCHANGED <<sessionVars, host, seen, evidence, troubled, disturbed>>

\* Mutant: the post-write work of two channels is not serialized.
EnterAnyway(h) ==
    /\ AtSite(h, "wait") /\ GoTo(h, "work")
    /\ UNCHANGED <<sessionVars, host, seen, runner, hadLease, verdict, evidence, troubled, disturbed>>

\* withFileLockWait: the lock of a dead hook is recovered.
Enter(h) ==
    LET holder == postLock[runner[h]] IN
    /\ AtSite(h, "wait")
    /\ holder # NoHook => at[holder] = "died"
    /\ postLock' = [postLock EXCEPT ![runner[h]] = h]
    /\ GoTo(h, "work")
    /\ UNCHANGED <<sessionVars, host, seen, runner, hadLease, verdict, claimed, snapshot, leases,
                   stale, spool, gated, troubled, disturbed>>

\* Five seconds pass while another hook works.
WaitTimesOut(h) ==
    LET holder == postLock[runner[h]] IN
    /\ AtSite(h, "wait")
    /\ holder # NoHook /\ at[holder] # "died"
    /\ GoTo(h, "block") /\ Trouble(h)
    /\ UNCHANGED <<sessionVars, host, seen, runner, hadLease, verdict, evidence, disturbed>>

\* postWriteCore: a duplicate has nothing to do; a Bash write is attributed to
\* the snapshot taken before it, which it needs.
Attribute(h) ==
    LET e == h[1]
        unattributed == tool[e] = "bash" /\ snapshot[e] = "none"
    IN
    /\ AtSite(h, "work")
    /\ IF First("post", e)
       THEN /\ claimed' = claimed \cup {<<"post", e>>}
            /\ snapshot' = IF tool[e] = "bash" /\ ~unattributed
                           THEN [snapshot EXCEPT ![e] = "consumed"] ELSE snapshot
            /\ verdict' = [verdict EXCEPT ![h] = IF unattributed THEN "block" ELSE @]
            /\ GoTo(h, IF unattributed THEN "release" ELSE "mark")
       ELSE GoTo(h, "release") /\ UNCHANGED <<claimed, snapshot, verdict>>
    /\ UNCHANGED <<sessionVars, host, seen, runner, hadLease, leases, stale, postLock, spool, gated,
                   troubled, disturbed>>

\* invalidateAffectedValidations for a governed target: the validation of the
\* active change becomes stale, unless the state moved under the update.
Mark(h) ==
    /\ AtSite(h, "mark") /\ GoTo(h, "release")
    /\ \/ /\ seen[h] \in Change
          /\ stale' = stale \cup {<<seen[h], h[1]>>}
          /\ UNCHANGED <<verdict, troubled>>
       \/ /\ seen[h] \in Change /\ Trouble(h)
          /\ verdict' = [verdict EXCEPT ![h] = "block"]
          /\ UNCHANGED stale
       \/ seen[h] \notin Change /\ UNCHANGED <<stale, verdict, troubled>>
    /\ UNCHANGED <<sessionVars, host, seen, runner, hadLease, claimed, snapshot, leases, postLock,
                   spool, gated, disturbed>>

\* releaseHookWriteLease resolves the change once more: without one nothing is
\* released; a lease that was seen and is gone is reported (EH-153), and so is a
\* coordinator that is busy.
Release(h) ==
    LET mine == <<seen[h], h[1]>> IN
    /\ AtSite(h, "release") /\ Unlock(h)
    /\ \/ /\ seen[h] \in Change
          /\ leases' = leases \ {mine}
          /\ GoTo(h, IF hadLease[h] /\ mine \notin leases THEN "alarm" ELSE verdict[h])
          /\ UNCHANGED troubled
       \/ seen[h] \in Change /\ GoTo(h, "block") /\ Trouble(h) /\ UNCHANGED leases
       \/ seen[h] \notin Change /\ GoTo(h, verdict[h]) /\ UNCHANGED <<leases, troubled>>
    /\ UNCHANGED <<sessionVars, host, seen, runner, hadLease, verdict, claimed, snapshot, stale,
                   spool, gated, disturbed>>

\* PostToolUseFailure: one channel releases, and misses a lease that is not there.
Fail(h) ==
    /\ AtSite(h, "fail")
    /\ hadLease' = [hadLease EXCEPT ![h] = TRUE]
    /\ verdict' = [verdict EXCEPT ![h] = "allow"]
    /\ claimed' = claimed \cup {<<"failed", h[1]>>}
    /\ GoTo(h, IF First("failed", h[1]) THEN "release" ELSE "allow")
    /\ UNCHANGED <<sessionVars, host, seen, runner, snapshot, leases, stale, postLock, spool, gated,
                   troubled, disturbed>>

(***************************************************************************)
(* The rest of the repository moves the binding.                           *)
(***************************************************************************)

Begun(e) == phase[e] # "pre" \/ \E h \in HooksOf(e) : at[h] # "claim"

\* The calls in progress whose session is now active for another change or none.
Disturbance ==
    disturbed' = disturbed \cup
        {e \in Event : /\ phase[e] # "over" /\ Begun(e)
                      /\ ActiveChange(SessionOf[e])' # ActiveChange(SessionOf[e])}

\* An archive holds the transaction of the change, which excludes write leases.
BindingCommand ==
    /\ SessionCommand
    /\ \A c \in Change, e \in Event : place'[c] # place[c] => <<c, e>> \notin leases
    /\ Disturbance
    /\ UNCHANGED <<host, hookVars, evidence, troubled>>

ClockTick == SessionTick /\ Disturbance /\ UNCHANGED <<host, hookVars, evidence, troubled>>

HookStep(h) ==
    \/ Load(h) \/ Beat(h) \/ Claim(h) \/ DecideWrite(h) \/ Gate(h) \/ TakeLease(h)
    \/ DecideRead(h) \/ Charge(h) \/ LookAtWrite(h) \/ Enter(h) \/ WaitTimesOut(h)
    \/ Attribute(h) \/ Mark(h) \/ Release(h) \/ Fail(h)

DeliveryNext ==
    \/ \E h \in Hook : HookStep(h) \/ Die(h)
    \/ \E e \in Event : RunTool(e) \/ EndCall(e)
    \/ BindingCommand \/ ClockTick

DeliverySpec == DeliveryInit /\ [][DeliveryNext]_deliveryVars

(***************************************************************************)
(* Properties.                                                             *)
(***************************************************************************)

Smooth(e) == e \notin troubled \cup disturbed

\* Every registration may be silent but the one that won the marker, so a write
\* runs only after that one let it through its gates (unless it failed: a hook
\* that dies holding the marker leaves the call undecided), and a write lease is
\* for a change whose gates it passed, although the two are looked up apart.
WriteIsGated ==
    /\ \A e \in ran : IsWrite(e) => e \in troubled \/ \E answer \in Answers : <<answer, e>> \in gated
    /\ \A c \in Change, e \in Event : <<c, e>> \in leases => <<c, e>> \in gated \/ e \in disturbed

\* The shared lease stays until the matching post-write work has run: while the
\* hooks of a finished write are at work and its validation is not yet stale, no
\* other channel has dropped the lease (harness/specs/hooks.md:108-110).
LeaseUntilSeen ==
    \A c \in Change, e \in ran :
        phase[e] = "post" /\ Smooth(e) /\ <<c, e>> \in gated => <<c, e>> \in leases \cup stale

\* A Bash write that passed without the snapshot of any hook, because the one
\* that had the marker died, is reported when it is done.
UndecidedIsReported ==
    \A e \in ran :
        phase[e] = "over" /\ tool[e] = "bash" /\ snapshot[e] = "none" =>
            \E h \in HooksOf(e) : at[h] \in {"block", "alarm", "died"}

\* Every write was let through by the gates or is reported.
WritesAreDecided == HooksTypeOK /\ WriteIsGated /\ UndecidedIsReported

\* A call that is over has left no write lease behind that would block the
\* transitions of its change for an hour.
LeaseEndsWithCall ==
    \A c \in Change, e \in Event : phase[e] = "over" /\ Smooth(e) => <<c, e>> \notin leases

\* A write lease lasts exactly as long as its call.
LeasesFitCalls == LeaseUntilSeen /\ LeaseEndsWithCall

\* Two calls, or two channels of one call, never get an agent past its budget, and
\* one call is charged once.
BudgetKept ==
    /\ \A i, j \in DOMAIN spool : spool[i] = spool[j] => i = j
    /\ \A i \in DOMAIN spool :
         LET t == tool[spool[i]] IN Cardinality(Charged(t, AgentOf[spool[i]])) <= Limit[t]

\* A budgeted read runs only if it was charged, unless its hook failed.
ReadIsCharged ==
    \A e \in ran : tool[e] \in Budgeted /\ e \notin troubled => \E i \in DOMAIN spool : spool[i] = e

\* CodeGraph first: a fallback runs after an attempt of the same agent.
FallbackAfterAttempt ==
    \A e \in ran : tool[e] \in Fallback /\ e \notin troubled => Charged("codegraph", AgentOf[e]) # {}

\* A read that runs was paid for, once, and in the prescribed order.
ReadsAreBudgeted == BudgetKept /\ ReadIsCharged /\ FallbackAfterAttempt

\* A heartbeat leaves a lease with more than the renewal window, so the work it
\* authorized does not run out of its lease at once.
HeartbeatLeavesTime ==
    [][\A h \in Hook :
         LET s == SessionOf[h[1]] IN
         step[h] = "beat" /\ step'[h] = "ready" /\ at'[h] = at[h] /\ seen'[h] \in Change /\ bound'[s] # NoBinding
             => bound'[s].left > Within]_deliveryVars

\* A binding lives on heartbeats in time and on nothing else.
BindingsLapse == ExpiredStaysExpired /\ HeartbeatLeavesTime
===============================================================================
