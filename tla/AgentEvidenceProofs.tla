-------------------------- MODULE AgentEvidenceProofs --------------------------
(***************************************************************************)
(* With every hook registered once and every run dispatched once, a stop   *)
(* hook takes another worker's run for its own only where a worker was     *)
(* launched without a dispatch receipt, for any number of workers of any   *)
(* types in any sessions, and what trustedHandoffAgentBindings accepts has *)
(* a result and a worker that is done.                                     *)
(***************************************************************************)
EXTENDS AgentEvidence, TLAPS

At(u) == hook[u][1].at
For(u) == hook[u][1].run

\* A dispatched run belongs to the one invocation that was given its marker.
OneUsePerRun ==
    /\ \A u \in Use : phase[u] = "none" <=> run[u] = NoRun
    /\ \A u \in started : run[u] # NoRun
    /\ \A u, v \in Use : dispatches[u] > 0 /\ dispatches[v] > 0 /\ run[u] = run[v] => u = v
    /\ \A u \in Use : dispatches[u] > 0 => run[u] # NoRun /\ latest[run[u]] = u
    /\ \A r \in Run : latest[r] # NoUse => run[latest[r]] = r /\ dispatches[latest[r]] > 0
    /\ \A u \in Use, r \in Run : <<u, r>> \in bound => run[u] = r /\ dispatches[u] > 0

\* A run the stop hook of u may hold: u's own, or one of a worker like u when one of
\* them has no receipt.
Owns(u, r) == Fits(u, r) /\ (run[u] = r \/ Astray(u))

\* What the stop hook of u holds is such a run.
Holds(u) ==
    /\ At(u) # "idle" => phase[u] = "stopping"
    /\ At(u) \in {"found", "earned"} => u \in started /\ For(u) # NoRun
    /\ At(u) \in {"found", "earned", "refused"} /\ For(u) # NoRun => Owns(u, For(u))
    /\ At(u) = "earned" => writer[For(u)] # NoUse

HooksHoldTheirRuns == \A u \in Use : Holds(u)

\* A worker that is past its stop hook, or never will reach it.
Settled(u) ==
    \/ phase[u] \in {"ended", "failed", "dead"}
    \/ phase[u] = "stopping" /\ At(u) = "pass"

\* A run is terminal only when a worker that may hold it is settled.
Done(u, r) ==
    /\ u \in started /\ Settled(u) /\ phase[u] # "failed"
    /\ writer[r] # NoUse /\ Owns(u, r)
Failed(r) == \E u \in Use : Settled(u) /\ Owns(u, r)

TerminalIsSettled ==
    /\ \A u \in Use, r \in Run : <<u, r>> \in stops => Done(u, r)
    /\ \A r \in failures : Failed(r)

\* A result is the work of a started agent that fits the run, or went past a dead gate.
Written(r) ==
    writer[r] # NoUse => \/ writer[r] \in Fragile
                         \/ writer[r] \in started /\ Fits(writer[r], r)

ResultsFit == \A r \in Run : Written(r)

Inv == TypeOK /\ OneUsePerRun /\ HooksHoldTheirRuns /\ TerminalIsSettled /\ ResultsFit

-----------------------------------------------------------------------------
\* The initial states satisfy the invariant.
LEMMA InitInv == ASSUME Copies = 1 PROVE Init => Inv
  <1> SUFFICES ASSUME Init PROVE Inv OBVIOUS
  <1>1. TypeOK
    BY CopiesAssumption DEF Init, TypeOK, Copy, Idle, HookState
  <1>2. OneUsePerRun
    BY UseAssumption DEF Init, OneUsePerRun
  <1>3. HooksHoldTheirRuns
    BY DEF Init, HooksHoldTheirRuns, Holds, At, For, Copy, Idle
  <1>4. TerminalIsSettled /\ ResultsFit
    BY DEF Init, TerminalIsSettled, ResultsFit, Written
  <1>. QED BY <1>1, <1>2, <1>3, <1>4 DEF Inv

-----------------------------------------------------------------------------
\* An agent that runs beside none without a receipt has a receipt itself.
LEMMA NotAstray ==
    ASSUME TypeOK, OneUsePerRun, Copies = 1, NEW u \in Use, phase[u] # "none", ~Astray(u)
    PROVE  run[u] \in Run /\ dispatches[u] = 1
  <1>1. run[u] \in Run
    BY DEF TypeOK, OneUsePerRun
  <1>2. dispatches[u] # 0
    BY <1>1, UseAssumption DEF Astray, Alike
  <1>. QED BY <1>1, <1>2 DEF TypeOK

\* A worker that may hold the run of an agent without such company is that agent.
LEMMA OwnerIsOwn ==
    ASSUME TypeOK, OneUsePerRun, Copies = 1, NEW u \in Use, dispatches[u] > 0, ~Astray(u),
           NEW v \in Use, Owns(v, run[u])
    PROVE  v = u
  <1>1. run[u] \in Run /\ run[v] \in Run /\ TypeOf[run[v]] = TypeOf[run[u]]
    BY DEF Owns, Fits, TypeOK, OneUsePerRun
  <1>2. PICK x \in Use : dispatches[x] > 0 /\ run[x] = run[u] /\ SessionOf[x] = SessionOf[v]
    BY DEF Owns, Fits
  <1>3. x = u
    BY <1>2 DEF OneUsePerRun
  <1>4. Alike(v, u) /\ \A w : Alike(w, v) => Alike(w, u)
    BY <1>1, <1>2, <1>3, UseAssumption DEF Alike
  <1>5. ~Astray(v)
    BY <1>4 DEF Astray
  <1>6. run[v] = run[u]
    BY <1>5 DEF Owns
  <1>7. dispatches[v] = 1
    <2>1. phase[v] # "none"
      BY <1>1, UseAssumption DEF OneUsePerRun
    <2>. QED BY <1>5, <2>1, NotAstray
  <1>. QED BY <1>6, <1>7 DEF OneUsePerRun

\* An agent whose stop hook has not read the log finds no terminal receipt of its run.
LEMMA WorkingIsOpen ==
    ASSUME Copies = 1, Inv, NEW u \in Use, phase[u] = "stopping", At(u) = "idle", ~Astray(u)
    PROVE  ~Terminal(run[u])
  <1>1. run[u] \in Run /\ dispatches[u] > 0 /\ ~Settled(u)
    BY NotAstray DEF Inv, Settled
  <1>2. \A v \in Use : Owns(v, run[u]) => v = u
    BY <1>1, OwnerIsOwn DEF Inv
  <1>3. run[u] \notin failures
    BY <1>1, <1>2 DEF Inv, TerminalIsSettled, Failed
  <1>4. \A v \in Use : <<v, run[u]>> \notin stops
    BY <1>1, <1>2 DEF Inv, TerminalIsSettled, Done
  <1>. QED BY <1>3, <1>4 DEF Terminal

\* The one open dispatch that a stop hook finds is one its agent may hold.
LEMMA FoundIsOwned ==
    ASSUME Copies = 1, Inv, NEW u \in Use, phase[u] = "stopping", At(u) = "idle",
           NEW v \in Use, Open(u) = {v}
    PROVE  run[v] \in Run /\ Owns(u, run[v])
  <1>1. /\ dispatches[v] > 0 /\ Alike(v, u)
        /\ run[v] \in Run /\ run[u] \in Run
    BY DEF Open, Alike, Inv, TypeOK
  <1>2. Fits(u, run[v])
    BY <1>1 DEF Fits, Alike
  <1>3. ASSUME ~Astray(u) PROVE v = u
    <2>1. dispatches[u] > 0 /\ ~Terminal(run[u])
      BY <1>3, NotAstray, WorkingIsOpen DEF Inv
    <2>2. u \in Open(u)
      BY <1>1, <2>1 DEF Open, Alike
    <2>. QED BY <2>2
  <1>. QED BY <1>1, <1>2, <1>3 DEF Owns

-----------------------------------------------------------------------------

\* Every step keeps the types.
LEMMA TypeStep ==
    ASSUME Copies = 1, TypeOK, OneUsePerRun, HooksHoldTheirRuns, [Next]_vars PROVE TypeOK'
  <1>. USE DEF Copy, Idle, HookState, Goto
  <1>0. Copy = {1} /\ 1 \in Copy
    BY CopiesAssumption
  <1>1. CASE UNCHANGED vars
    BY <1>1 DEF vars, TypeOK
  <1>2. ASSUME NEW u \in Use, NEW r \in Run, PreToolUse(u, r) \/ LaunchUnseen(u, r)
        PROVE  TypeOK'
    <2>1. CASE PreToolUse(u, r)
      BY <2>1 DEF PreToolUse, TypeOK
    <2>2. CASE LaunchUnseen(u, r)
      BY <2>2 DEF LaunchUnseen, TypeOK
    <2>. QED BY <1>2, <2>1, <2>2
  <1>3. ASSUME NEW u \in Use, Start(u) PROVE TypeOK'
    BY <1>3 DEF Start, TypeOK
  <1>4. ASSUME NEW u \in Use, Fail(u) PROVE TypeOK'
    <2>1. run[u] \in Run
      BY <1>4 DEF Fail, TypeOK, OneUsePerRun
    <2>. QED BY <1>4, <2>1 DEF Fail, TypeOK
  <1>5. ASSUME NEW u \in Use, Bind(u) PROVE TypeOK'
    <2>1. run[u] \in Run
      BY <1>5 DEF Bind, TypeOK, OneUsePerRun
    <2>. QED BY <1>5, <2>1 DEF Bind, TypeOK
  <1>6. ASSUME NEW u \in Use, Die(u) PROVE TypeOK'
    BY <1>6 DEF Die, TypeOK
  <1>7. ASSUME NEW u \in Use, NEW r \in Run, Persist(u, r) \/ FinalizeUngated(u, r)
        PROVE  TypeOK'
    BY <1>7 DEF Persist, FinalizeUngated, TypeOK
  <1>8. ASSUME NEW u \in Use, StopBegin(u) PROVE TypeOK'
    BY <1>8 DEF StopBegin, TypeOK
  <1>9. ASSUME NEW u \in Use, NEW c \in Copy, StopRead(u, c) PROVE TypeOK'
    <2>1. \E at \in {"found", "refused"}, r \in Run \cup {NoRun} : Goto(u, c, at, r)
      <3>1. \A v \in Use : run[v] \in Run \cup {NoRun}
        BY DEF TypeOK
      <3>. QED BY <1>9, <3>1 DEF StopRead, Open
    <2>. QED BY <1>9, <2>1 DEF StopRead, TypeOK
  <1>10. ASSUME NEW u \in Use, NEW c \in Copy, StopJudge(u, c) PROVE TypeOK'
    <2>1. hook[u][c].run \in Run \cup {NoRun}
      BY DEF TypeOK
    <2>2. \E at \in {"earned", "refused"} : Goto(u, c, at, hook[u][c].run)
      BY <1>10 DEF StopJudge
    <2>3. writer' \in [Run -> Use \cup {NoUse}]
      BY <1>10 DEF StopJudge, TypeOK
    <2>. QED BY <1>10, <2>1, <2>2, <2>3 DEF StopJudge, TypeOK
  <1>11. ASSUME NEW u \in Use, NEW c \in Copy, StopRecord(u, c) PROVE TypeOK'
    <2>1. hook[u][c].run \in Run
      BY <1>0, <1>11 DEF StopRecord, TypeOK, HooksHoldTheirRuns, Holds, At, For
    <2>. QED BY <1>11, <2>1 DEF StopRecord, TypeOK
  <1>12. ASSUME NEW u \in Use, NEW c \in Copy, StopRefuse(u, c) PROVE TypeOK'
    BY <1>12 DEF StopRefuse, TypeOK
  <1>13. ASSUME NEW u \in Use, NEW c \in Copy, StopKilled(u, c) PROVE TypeOK'
    BY <1>13 DEF StopKilled, TypeOK
  <1>14. ASSUME NEW u \in Use, StopEnd(u) PROVE TypeOK'
    BY <1>14 DEF StopEnd, TypeOK
  <1>. QED BY <1>1, <1>2, <1>3, <1>4, <1>5, <1>6, <1>7, <1>8, <1>9, <1>10, <1>11,
              <1>12, <1>13, <1>14 DEF Next, StopStep

-----------------------------------------------------------------------------
\* What a step of the stop hook changes.
LEMMA GotoEffect ==
    ASSUME Copies = 1, TypeOK, NEW u \in Use, NEW c \in Copy, NEW at, NEW r, Goto(u, c, at, r)
    PROVE  /\ At(u)' = at /\ For(u)' = r
           /\ \A v \in Use \ {u} : At(v)' = At(v) /\ For(v)' = For(v)
  <1>1. c = 1 /\ Copy = {1}
    BY CopiesAssumption DEF Copy
  <1>. QED BY <1>1 DEF Goto, At, For, TypeOK

\* What a step may do to the log, in the three ways a step can: launch an agent, link a
\* result, or append other receipts.
Launches(u, r) ==
    /\ phase[u] = "none" /\ run[u] = NoRun /\ phase'[u] = "launched"
    /\ run' = [run EXCEPT ![u] = r]
    /\ \A v \in Use \ {u} : phase'[v] = phase[v] /\ dispatches'[v] = dispatches[v]
    /\ \/ /\ \A v \in Use : dispatches[v] > 0 => run[v] # r
          /\ dispatches'[u] = 1 /\ latest' = [latest EXCEPT ![r] = u]
       \/ dispatches'[u] = 0 /\ dispatches[u] = 0 /\ latest' = latest
    /\ UNCHANGED <<started, bound, stops, failures, writer, hook>>

Logs ==
    /\ UNCHANGED <<run, dispatches, latest>>
    /\ started \subseteq started' /\ bound \subseteq bound' /\ stops \subseteq stops'
    /\ \A v \in Use : phase[v] = "none" <=> phase'[v] = "none"
    /\ \A v \in started' \ started : v \in Use /\ phase[v] # "none"
    /\ \A r \in Run : writer[r] # NoUse => writer'[r] = writer[r]
    /\ \A v \in Use, r \in Run : <<v, r>> \in bound' \ bound =>
          run[v] = r /\ dispatches[v] > 0

LEMMA StepDoes ==
    ASSUME Copies = 1, Reuse = FALSE, TypeOK, OneUsePerRun, Next
    PROVE  Logs \/ \E u \in Use, r \in Run : Launches(u, r)
  <1>a. \A u \in Use : phase[u] = "none" <=> run[u] = NoRun
    BY DEF OneUsePerRun
  <1>b. \A u \in Use : phase[u] = "none" => dispatches[u] = 0
    BY DEF OneUsePerRun, TypeOK
  <1>1. ASSUME NEW u \in Use, NEW r \in Run, PreToolUse(u, r) PROVE Launches(u, r)
    BY <1>1, <1>a DEF PreToolUse, Launches, TypeOK
  <1>2. ASSUME NEW u \in Use, NEW r \in Run, LaunchUnseen(u, r) PROVE Launches(u, r)
    BY <1>2, <1>a, <1>b DEF LaunchUnseen, Launches, TypeOK
  <1>. USE DEF Logs, TypeOK
  <1>3. ASSUME NEW u \in Use, NEW r \in Run, Persist(u, r) \/ FinalizeUngated(u, r) PROVE Logs
    BY <1>3 DEF Persist, FinalizeUngated
  <1>4. ASSUME NEW u \in Use, Start(u) PROVE Logs
    BY <1>4 DEF Start
  <1>5. ASSUME NEW u \in Use, Bind(u) PROVE Logs
    BY <1>5 DEF Bind
  <1>6. ASSUME NEW u \in Use, Fail(u) \/ Die(u) \/ StopBegin(u) \/ StopEnd(u) PROVE Logs
    BY <1>6 DEF Fail, Die, StopBegin, StopEnd
  <1>7. ASSUME NEW u \in Use, NEW c \in Copy,
               StopRead(u, c) \/ StopRecord(u, c) \/ StopRefuse(u, c) \/ StopKilled(u, c)
        PROVE  Logs
    BY <1>7 DEF StopRead, StopRecord, StopRefuse, StopKilled
  <1>8. ASSUME NEW u \in Use, NEW c \in Copy, StopJudge(u, c) PROVE Logs
    BY <1>8 DEF StopJudge
  <1>. HIDE DEF Logs, TypeOK
  <1>. QED BY <1>1, <1>2, <1>3, <1>4, <1>5, <1>6, <1>7, <1>8 DEF Next, StopStep

\* A dispatched run stays with the invocation that was given its marker.
LEMMA OneUseStep ==
    ASSUME Copies = 1, Reuse = FALSE, TypeOK, OneUsePerRun, [Next]_vars PROVE OneUsePerRun'
  <1>1. CASE UNCHANGED vars
    BY <1>1 DEF vars, OneUsePerRun
  <1>2. CASE Logs
    BY <1>2 DEF Logs, OneUsePerRun, TypeOK
  <1>3. ASSUME NEW u \in Use, NEW r \in Run, Launches(u, r) PROVE OneUsePerRun'
    <2>1. /\ \A v \in Use : run'[v] = IF v = u THEN r ELSE run[v]
          /\ r # NoRun /\ started' = started /\ bound' = bound
      BY <1>3, UseAssumption DEF Launches, TypeOK
    <2>2. \A v \in Use : phase'[v] = "none" <=> run'[v] = NoRun
      BY <1>3, <2>1 DEF Launches, OneUsePerRun
    <2>3. \A v \in started' : run'[v] # NoRun
      BY <2>1 DEF OneUsePerRun, TypeOK
    <2>4. \A v \in Use, q \in Run : <<v, q>> \in bound' => run'[v] = q /\ dispatches'[v] > 0
      BY <1>3, <2>1, UseAssumption DEF Launches, OneUsePerRun
    <2>5. \A v, w \in Use : dispatches'[v] > 0 /\ dispatches'[w] > 0 /\ run'[v] = run'[w] => v = w
      BY <1>3, <2>1 DEF Launches, OneUsePerRun
    <2>6. /\ \A v \in Use : dispatches'[v] > 0 => run'[v] # NoRun /\ latest'[run'[v]] = v
          /\ \A q \in Run : latest'[q] # NoUse =>
                run'[latest'[q]] = q /\ dispatches'[latest'[q]] > 0
      <3>1. CASE /\ \A v \in Use : dispatches[v] > 0 => run[v] # r
                 /\ dispatches'[u] = 1 /\ latest' = [latest EXCEPT ![r] = u]
        <4>1. \A q \in Run : latest'[q] = IF q = r THEN u ELSE latest[q]
          BY <3>1 DEF TypeOK
        <4>2. \A v \in Use \ {u} : dispatches'[v] = dispatches[v] /\ run'[v] = run[v]
          BY <1>3, <2>1 DEF Launches
        <4>3. ASSUME NEW q \in Run, q # r, latest[q] # NoUse PROVE latest[q] \in Use \ {u}
          BY <1>3, <4>3, UseAssumption DEF Launches, OneUsePerRun, TypeOK
        <4>4. \A v \in Use : run[v] \in Run \cup {NoRun}
          BY DEF TypeOK
        <4>. QED BY <2>1, <3>1, <4>1, <4>2, <4>3, <4>4 DEF OneUsePerRun
      <3>2. CASE dispatches'[u] = 0 /\ dispatches[u] = 0 /\ latest' = latest
        <4>1. \A v \in Use : dispatches'[v] = dispatches[v]
          BY <1>3, <3>2 DEF Launches
        <4>2. \A v \in Use : dispatches[v] > 0 => run'[v] = run[v]
          BY <2>1, <3>2
        <4>. QED BY <3>2, <4>1, <4>2 DEF OneUsePerRun, TypeOK
      <3>. QED BY <1>3, <3>1, <3>2 DEF Launches
    <2>. QED BY <2>2, <2>3, <2>4, <2>5, <2>6 DEF OneUsePerRun
  <1>. QED BY <1>1, <1>2, <1>3, StepDoes

\* Receipts, results and markers that are there stay, and so does what a hook may hold.
LEMMA Grows ==
    ASSUME Copies = 1, Reuse = FALSE, TypeOK, OneUsePerRun, Next
    PROVE  /\ started \subseteq started' /\ stops \subseteq stops'
           /\ \A r \in Run : writer[r] # NoUse => writer'[r] = writer[r]
           /\ \A v \in Use : run[v] # NoRun => run'[v] = run[v] /\ dispatches'[v] = dispatches[v]
           /\ \A v \in Use, r \in Run : Fits(v, r) => Fits(v, r)'
           /\ \A v \in Use, r \in Run : Owns(v, r) => Owns(v, r)'
  <1>1. /\ started \subseteq started' /\ stops \subseteq stops'
        /\ \A r \in Run : writer[r] # NoUse => writer'[r] = writer[r]
        /\ \A v \in Use : run[v] # NoRun => run'[v] = run[v] /\ dispatches'[v] = dispatches[v]
        /\ \A v \in Use : phase[v] # "none" => phase'[v] # "none"
    <2>1. CASE Logs
      BY <2>1 DEF Logs, OneUsePerRun
    <2>2. ASSUME NEW u \in Use, NEW r \in Run, Launches(u, r)
          PROVE  /\ started \subseteq started' /\ stops \subseteq stops' /\ writer' = writer
                 /\ \A v \in Use : run[v] # NoRun =>
                       run'[v] = run[v] /\ dispatches'[v] = dispatches[v]
                 /\ \A v \in Use : phase[v] # "none" => phase'[v] # "none"
      BY <2>2 DEF Launches, TypeOK
    <2>. QED BY <2>1, <2>2, StepDoes
  <1>2. \A v, w \in Use : Alike(v, w) => Alike(v, w)'
    BY <1>1 DEF Alike
  <1>3. ASSUME NEW v \in Use, NEW r \in Run, Fits(v, r) PROVE Fits(v, r)'
    <2>1. run'[v] = run[v]
      BY <1>1, <1>3, UseAssumption DEF Fits
    <2>2. PICK w \in Use : dispatches[w] > 0 /\ run[w] = r /\ SessionOf[w] = SessionOf[v]
      BY <1>3 DEF Fits
    <2>3. run'[w] = r /\ dispatches'[w] > 0
      BY <1>1, <2>2, UseAssumption
    <2>. QED BY <1>3, <2>1, <2>2, <2>3 DEF Fits
  <1>4. \A v \in Use : Astray(v) => Astray(v)'
    BY <1>1, <1>2 DEF Astray, Alike
  <1>5. ASSUME NEW v \in Use, NEW r \in Run, Owns(v, r) PROVE Owns(v, r)'
    <2>1. run[v] # NoRun
      BY <1>5, UseAssumption DEF Owns, Fits
    <2>. QED BY <1>1, <1>3, <1>4, <1>5, <2>1 DEF Owns
  <1>. QED BY <1>1, <1>3, <1>5

-----------------------------------------------------------------------------
\* A stop hook that does not move keeps what it holds.
LEMMA HoldsStays ==
    ASSUME Copies = 1, Reuse = FALSE, Inv, Next, NEW u \in Use,
           hook'[u] = hook[u], phase'[u] = phase[u] \/ At(u) = "idle"
    PROVE  Holds(u)'
  <1>1. Holds(u) /\ At(u)' = At(u) /\ For(u)' = For(u) /\ For(u) \in Run \cup {NoRun}
    BY CopiesAssumption DEF Inv, HooksHoldTheirRuns, At, For, TypeOK, HookState, Copy
  <1>2. /\ started \subseteq started'
        /\ \A r \in Run : writer[r] # NoUse => writer'[r] = writer[r]
        /\ \A r \in Run : Owns(u, r) => Owns(u, r)'
    BY Grows DEF Inv
  <1>3. For(u) # NoRun /\ Owns(u, For(u)) => Owns(u, For(u))'
    BY <1>1, <1>2
  <1>. QED BY <1>1, <1>2, <1>3 DEF Holds

\* What a worker may hold is a run.
LEMMA HookStep ==
    ASSUME Copies = 1, Reuse = FALSE, Inv, [Next]_vars PROVE HooksHoldTheirRuns'
  <1>a. Copy = {1} /\ TypeOK /\ HooksHoldTheirRuns
    BY CopiesAssumption DEF Copy, Inv
  <1>1. CASE UNCHANGED vars
    BY <1>1, <1>a DEF vars, HooksHoldTheirRuns, Holds, At, For, Owns, Fits, Astray, Alike
  <1>2. ASSUME Next PROVE \A v \in Use : Holds(v)'
    <2>0. /\ started \subseteq started'
          /\ \A r \in Run : writer[r] # NoUse => writer'[r] = writer[r]
          /\ \A v \in Use, r \in Run : Owns(v, r) => Owns(v, r)'
      BY <1>2, Grows DEF Inv
    <2>1. ASSUME hook' = hook, \A v \in Use : phase'[v] = phase[v] \/ At(v) = "idle"
          PROVE  \A v \in Use : Holds(v)'
      BY <1>2, <2>1, HoldsStays
    <2>2. ASSUME NEW u \in Use, NEW r \in Run,
                 \/ PreToolUse(u, r) \/ LaunchUnseen(u, r)
                 \/ Persist(u, r) \/ FinalizeUngated(u, r)
          PROVE  \A v \in Use : Holds(v)'
      <3>1. phase[u] # "stopping" => At(u) = "idle"
        BY <1>a DEF HooksHoldTheirRuns, Holds
      <3>2. hook' = hook /\ \A v \in Use : phase'[v] = phase[v] \/ At(v) = "idle"
        BY <1>a, <2>2, <3>1 DEF PreToolUse, LaunchUnseen, Persist, FinalizeUngated, TypeOK
      <3>. QED BY <2>1, <3>2
    <2>3. ASSUME NEW u \in Use, Start(u) \/ Fail(u) \/ Bind(u) \/ StopBegin(u)
          PROVE  \A v \in Use : Holds(v)'
      <3>1. phase[u] # "stopping" => At(u) = "idle"
        BY <1>a DEF HooksHoldTheirRuns, Holds
      <3>2. hook' = hook /\ \A v \in Use : phase'[v] = phase[v] \/ At(v) = "idle"
        BY <1>a, <2>3, <3>1 DEF Start, Fail, Bind, StopBegin, TypeOK
      <3>. QED BY <2>1, <3>2
    <2>4. ASSUME NEW u \in Use, Die(u) \/ StopEnd(u) PROVE \A v \in Use : Holds(v)'
      <3>1. At(u)' = "idle"
        BY <1>a, <2>4 DEF Die, StopEnd, TypeOK, At, Idle
      <3>2. \A v \in Use \ {u} : hook'[v] = hook[v] /\ phase'[v] = phase[v]
        BY <1>a, <2>4 DEF Die, StopEnd, TypeOK
      <3>3. \A v \in Use \ {u} : Holds(v)'
        BY <1>2, <3>2, HoldsStays
      <3>. QED BY <3>1, <3>3 DEF Holds
    <2>5. ASSUME NEW u \in Use, NEW c \in Copy, NEW at, NEW r, Goto(u, c, at, r),
                 phase' = phase, Holds(u)'
          PROVE  \A v \in Use : Holds(v)'
      <3>1. \A v \in Use \ {u} : hook'[v] = hook[v]
        BY <1>a, <2>5 DEF Goto, TypeOK
      <3>. QED BY <1>2, <2>5, <3>1, HoldsStays
    <2>6. ASSUME NEW u \in Use, NEW c \in Copy, StopRead(u, c) PROVE \A v \in Use : Holds(v)'
      <3>1. c = 1 /\ At(u) = "idle" /\ phase[u] = "stopping" /\ phase' = phase
        BY <1>a, <2>6 DEF StopRead, At
      <3>2. CASE u \in started /\ \E v \in Open(u) : Open(u) = {v} /\ dispatches[v] = 1
        <4>1. PICK v \in Open(u) : Goto(u, c, "found", run[v]) /\ Open(u) = {v}
          BY <2>6, <3>2 DEF StopRead
        <4>2. run[v] \in Run /\ Owns(u, run[v]) /\ u \in started
          BY <3>1, <3>2, <4>1, FoundIsOwned DEF Open
        <4>3. At(u)' = "found" /\ For(u)' = run[v]
          BY <1>a, <4>1, GotoEffect
        <4>4. Owns(u, run[v])' /\ run'[v] = run[v]
          BY <2>0, <2>6, <4>2 DEF StopRead
        <4>. HIDE DEF Owns
        <4>5. Owns(u, For(u))'
          BY <4>3, <4>4
        <4>6. Holds(u)'
          BY <2>0, <3>1, <4>2, <4>3, <4>5, UseAssumption DEF Holds
        <4>. QED BY <2>5, <3>1, <4>1, <4>6
      <3>3. CASE ~(u \in started /\ \E v \in Open(u) : Open(u) = {v} /\ dispatches[v] = 1)
        <4>1. Goto(u, c, "refused", NoRun)
          BY <2>6, <3>3 DEF StopRead
        <4>2. At(u)' = "refused" /\ For(u)' = NoRun
          BY <1>a, <4>1, GotoEffect
        <4>. QED BY <2>5, <3>1, <4>1, <4>2 DEF Holds
      <3>. QED BY <3>2, <3>3
    <2>7. ASSUME NEW u \in Use, NEW c \in Copy, StopJudge(u, c) PROVE \A v \in Use : Holds(v)'
      <3>1. /\ c = 1 /\ At(u) = "found" /\ phase[u] = "stopping" /\ phase' = phase
            /\ hook[u][c].run = For(u) /\ u \in started /\ For(u) \in Run /\ Owns(u, For(u))
        BY <1>a, <2>7 DEF StopJudge, At, For, HooksHoldTheirRuns, Holds, TypeOK, HookState
      <3>2. PICK at \in {"refused", "earned"} :
               Goto(u, c, at, For(u)) /\ (at = "earned" => writer'[For(u)] # NoUse)
        BY <2>7, <3>1, <1>a, UseAssumption DEF StopJudge, TypeOK
      <3>3. At(u)' = at /\ For(u)' = For(u)
        BY <1>a, <3>2, GotoEffect
      <3>4. Owns(u, For(u))'
        <4>1. \A r \in Run : Owns(u, r) => Owns(u, r)'
          BY <2>0
        <4>. QED BY <3>1, <3>3, <4>1
      <3>5. Holds(u)'
        BY <2>0, <3>1, <3>2, <3>3, <3>4, UseAssumption DEF Holds
      <3>. QED BY <2>5, <3>1, <3>2, <3>5
    <2>8. ASSUME NEW u \in Use, NEW c \in Copy,
                 StopRecord(u, c) \/ StopRefuse(u, c) \/ StopKilled(u, c)
          PROVE  \A v \in Use : Holds(v)'
      <3>1. phase' = phase /\ phase[u] = "stopping"
        BY <2>8 DEF StopRecord, StopRefuse, StopKilled
      <3>2. PICK at \in {"pass", "block"} : Goto(u, c, at, NoRun)
        BY <2>8 DEF StopRecord, StopRefuse, StopKilled
      <3>3. At(u)' = at
        BY <1>a, <3>2, GotoEffect
      <3>. QED BY <2>5, <3>1, <3>2, <3>3 DEF Holds
    <2>. QED BY <1>2, <2>2, <2>3, <2>4, <2>6, <2>7, <2>8 DEF Next, StopStep
  <1>. QED BY <1>1, <1>2 DEF HooksHoldTheirRuns

-----------------------------------------------------------------------------
\* A worker that is past its stop hook stays so, and its tool call can fail no more.
LEMMA SettledStays ==
    ASSUME Copies = 1, TypeOK, Next, NEW w \in Use, Settled(w)
    PROVE  Settled(w)' /\ (phase[w] # "failed" => phase'[w] # "failed")
  <1>. USE DEF Settled
  <1>a. Copy = {1} /\ TypeOK
    BY CopiesAssumption DEF Copy
  <1>b. phase[w] \notin {"none", "launched", "working"}
    OBVIOUS
  <1>. DEFINE G == Settled(w)' /\ (phase[w] # "failed" => phase'[w] # "failed")
  <1>2. ASSUME NEW u \in Use, NEW r \in Run, PreToolUse(u, r) \/ LaunchUnseen(u, r) PROVE G
    BY <1>2, <1>a, <1>b DEF PreToolUse, LaunchUnseen, TypeOK, At
  <1>3. ASSUME NEW u \in Use, Start(u) PROVE G
    BY <1>3, <1>a, <1>b DEF Start, TypeOK, At
  <1>4. ASSUME NEW u \in Use, Fail(u) PROVE G
    BY <1>4, <1>a, <1>b DEF Fail, TypeOK, At
  <1>5. ASSUME NEW u \in Use, Bind(u) PROVE G
    BY <1>5 DEF Bind, At
  <1>6. ASSUME NEW u \in Use, Die(u) PROVE G
    BY <1>6, <1>a, <1>b DEF Die, TypeOK, At
  <1>7. ASSUME NEW u \in Use, NEW r \in Run, Persist(u, r) \/ FinalizeUngated(u, r) PROVE G
    BY <1>7 DEF Persist, FinalizeUngated, At
  <1>8. ASSUME NEW u \in Use, StopBegin(u) PROVE G
    BY <1>8, <1>a, <1>b DEF StopBegin, TypeOK, At
  <1>9. ASSUME NEW u \in Use, NEW c \in Copy, NEW at, NEW r,
               hook[u][c].at \in {"idle", "found", "earned", "refused"},
               Goto(u, c, at, r), phase' = phase
        PROVE  G
    <2>1. \A v \in Use \ {u} : At(v)' = At(v)
      BY <1>9, <1>a, GotoEffect
    <2>2. At(u) # "pass" /\ (u = w => phase[w] # "stopping")
      BY <1>9, <1>a DEF At
    <2>. QED BY <1>9, <2>1, <2>2
  <1>10. ASSUME NEW u \in Use, NEW c \in Copy,
                \/ StopRead(u, c) \/ StopJudge(u, c) \/ StopRecord(u, c)
                \/ StopRefuse(u, c) \/ StopKilled(u, c)
         PROVE  G
    <2>1. \E at, r : Goto(u, c, at, r)
      BY <1>10 DEF StopRead, StopJudge, StopRecord, StopRefuse, StopKilled
    <2>2. hook[u][c].at \in {"idle", "found", "earned", "refused"} /\ phase' = phase
      BY <1>10 DEF StopRead, StopJudge, StopRecord, StopRefuse, StopKilled
    <2>. QED BY <1>9, <2>1, <2>2
  <1>15. ASSUME NEW u \in Use, StopEnd(u) PROVE G
    <2>1. u = w => phase'[w] = "ended"
      BY <1>15, <1>a DEF StopEnd, TypeOK, At
    <2>2. u # w => phase'[w] = phase[w] /\ hook'[w] = hook[w]
      BY <1>15, <1>a DEF StopEnd, TypeOK
    <2>. QED BY <2>1, <2>2 DEF At
  <1>. QED BY <1>2, <1>3, <1>4, <1>5, <1>6, <1>7, <1>8, <1>10, <1>15 DEF Next, StopStep

\* Only a settled worker that may hold a run leaves a terminal receipt for it.
LEMMA TerminalStep ==
    ASSUME Copies = 1, Reuse = FALSE, Inv, [Next]_vars PROVE TerminalIsSettled'
  <1>a. Copy = {1} /\ TypeOK /\ TypeOK' /\ OneUsePerRun
    BY CopiesAssumption, TypeStep DEF Copy, Inv
  <1>1. CASE UNCHANGED vars
    BY <1>1 DEF vars, Inv, TerminalIsSettled, Done, Failed, Settled, At, Owns, Fits, Astray, Alike
  <1>2. ASSUME Next PROVE TerminalIsSettled'
    <2>1. \A u \in Use : Settled(u) => Settled(u)' /\ (phase[u] # "failed" => phase'[u] # "failed")
      BY <1>2, <1>a, SettledStays
    <2>2. /\ started \subseteq started'
          /\ \A r \in Run : writer[r] # NoUse => writer'[r] = writer[r]
          /\ \A u \in Use, r \in Run : Owns(u, r) => Owns(u, r)'
      BY <1>2, Grows DEF Inv
    <2>3. \A u \in Use, r \in Run : Done(u, r) => Done(u, r)'
      BY <2>1, <2>2 DEF Done
    <2>4. \A r \in Run : Failed(r) => Failed(r)'
      BY <2>1, <2>2 DEF Failed
    <2>6. ASSUME NEW u \in Use, NEW c \in Copy, StopRecord(u, c)
          PROVE  \E r \in Run : /\ stops' = stops \cup {<<u, r>>} /\ failures' = failures
                                /\ Done(u, r)'
      <3>1. /\ c = 1 /\ At(u) = "earned" /\ For(u) \in Run /\ hook[u][c].run = For(u)
            /\ u \in started /\ writer[For(u)] # NoUse /\ Owns(u, For(u))
        BY <1>a, <2>6 DEF StopRecord, At, For, Inv, HooksHoldTheirRuns, Holds, TypeOK, HookState
      <3>2. PICK r \in Run : r = For(u)
        BY <3>1
      <3>3. /\ stops' = stops \cup {<<u, r>>} /\ failures' = failures
            /\ phase'[u] = "stopping" /\ Goto(u, c, "pass", NoRun)
        BY <2>6, <3>1, <3>2 DEF StopRecord
      <3>4. At(u)' = "pass"
        BY <1>a, <3>3, GotoEffect
      <3>5. Owns(u, r)' /\ writer'[r] # NoUse /\ u \in started'
        BY <2>2, <3>1, <3>2
      <3>. QED BY <3>3, <3>4, <3>5 DEF Done, Settled
    <2>7. ASSUME NEW u \in Use, Fail(u), failures' # failures
          PROVE  \E r \in Run : stops' = stops /\ failures' = failures \cup {r} /\ Failed(r)'
      <3>1. /\ dispatches[u] > 0 /\ run[u] \in Run /\ stops' = stops
            /\ failures' = failures \cup {run[u]} /\ phase'[u] = "failed"
        BY <1>a, <2>7 DEF Fail, OneUsePerRun, TypeOK
      <3>2. PICK r \in Run : r = run[u]
        BY <3>1
      <3>3. Owns(u, r)
        BY <3>1, <3>2 DEF Owns, Fits
      <3>4. Settled(u)' /\ Owns(u, r)'
        BY <2>2, <3>1, <3>3 DEF Settled
      <3>. QED BY <3>1, <3>2, <3>4 DEF Failed
    <2>8. ASSUME NEW u \in Use, NEW c \in Copy, StopRefuse(u, c), failures' # failures
          PROVE  \E r \in Run : stops' = stops /\ failures' = failures \cup {r} /\ Failed(r)'
      <3>1. /\ c = 1 /\ At(u) = "refused" /\ hook[u][c].run = For(u)
            /\ For(u) \in Run \cup {NoRun}
        BY <1>a, <2>8 DEF StopRefuse, At, For, TypeOK, HookState
      <3>2. u \in retry /\ For(u) # NoRun /\ failures' = failures \cup {For(u)} /\ stops' = stops
        BY <2>8, <3>1 DEF StopRefuse
      <3>3. PICK r \in Run : r = For(u)
        BY <3>1, <3>2
      <3>4. Goto(u, c, "pass", NoRun) /\ phase'[u] = "stopping"
        BY <2>8, <3>2 DEF StopRefuse
      <3>5. At(u)' = "pass"
        BY <1>a, <3>4, GotoEffect
      <3>6. Owns(u, r)'
        BY <2>2, <3>1, <3>2, <3>3 DEF Inv, HooksHoldTheirRuns, Holds
      <3>7. Settled(u)'
        BY <3>4, <3>5 DEF Settled
      <3>. QED BY <3>2, <3>3, <3>6, <3>7 DEF Failed
    <2>9. \/ stops' = stops /\ failures' = failures
          \/ \E u \in Use, r \in Run :
                /\ stops' = stops \cup {<<u, r>>} /\ failures' = failures /\ Done(u, r)'
          \/ \E r \in Run : stops' = stops /\ failures' = failures \cup {r} /\ Failed(r)'
      <3>1. ASSUME NEW u \in Use, NEW r \in Run,
                   \/ PreToolUse(u, r) \/ LaunchUnseen(u, r)
                   \/ Persist(u, r) \/ FinalizeUngated(u, r)
            PROVE  stops' = stops /\ failures' = failures
        BY <3>1 DEF PreToolUse, LaunchUnseen, Persist, FinalizeUngated
      <3>2. ASSUME NEW u \in Use, Start(u) \/ Bind(u) \/ Die(u) \/ StopBegin(u) \/ StopEnd(u)
            PROVE  stops' = stops /\ failures' = failures
        BY <3>2 DEF Start, Bind, Die, StopBegin, StopEnd
      <3>3. ASSUME NEW u \in Use, NEW c \in Copy,
                   StopRead(u, c) \/ StopJudge(u, c) \/ StopKilled(u, c)
            PROVE  stops' = stops /\ failures' = failures
        BY <3>3 DEF StopRead, StopJudge, StopKilled
      <3>4. ASSUME NEW u \in Use, Fail(u) PROVE stops' = stops
        BY <3>4 DEF Fail
      <3>5. ASSUME NEW u \in Use, NEW c \in Copy, StopRefuse(u, c) PROVE stops' = stops
        BY <3>5 DEF StopRefuse
      <3>. HIDE DEF Done, Failed
      <3>. QED BY <1>2, <2>6, <2>7, <2>8, <3>1, <3>2, <3>3, <3>4, <3>5 DEF Next, StopStep
    <2>10. /\ \A u \in Use, r \in Run : <<u, r>> \in stops => Done(u, r)
           /\ \A r \in failures : Failed(r)
           /\ failures \subseteq Run
      BY <1>a DEF Inv, TerminalIsSettled, TypeOK
    <2>11. /\ \A u \in Use, r \in Run : <<u, r>> \in stops' => Done(u, r)'
           /\ \A r \in failures' : Failed(r)'
      BY <2>3, <2>4, <2>9, <2>10
    <2>. QED BY <2>11 DEF TerminalIsSettled
  <1>. QED BY <1>1, <1>2

\* Results are written by agents that fit, or past a dead gate.
LEMMA ResultStep ==
    ASSUME Copies = 1, Reuse = FALSE, Inv, [Next]_vars PROVE ResultsFit'
  <1>a. Copy = {1} /\ TypeOK
    BY CopiesAssumption DEF Copy, Inv
  <1>1. CASE UNCHANGED vars
    BY <1>1 DEF vars, Inv, ResultsFit, Written, Fits
  <1>2. ASSUME Next PROVE ResultsFit'
    <2>1. /\ started \subseteq started'
          /\ \A u \in Use, r \in Run : Fits(u, r) => Fits(u, r)'
      BY <1>2, Grows DEF Inv
    <2>2. ASSUME NEW r \in Run, writer'[r] = writer[r] PROVE Written(r)'
      <3>1. CASE writer[r] \in Use
        <4>1. PICK w \in Use : w = writer[r] /\ w = writer'[r]
          BY <2>2, <3>1
        <4>2. w \in Fragile \/ (w \in started' /\ Fits(w, r)')
          BY <2>1, <3>1, <4>1, UseAssumption DEF Inv, ResultsFit, Written
        <4>. QED BY <4>1, <4>2 DEF Written, Fits
      <3>2. CASE writer[r] = NoUse
        BY <2>2, <3>2 DEF Written
      <3>. QED BY <1>a, <3>1, <3>2 DEF TypeOK
    <2>3. ASSUME NEW u \in Use, NEW r \in Run, writer' = [writer EXCEPT ![r] = u],
                 u \in Fragile \/ (u \in started /\ Fits(u, r))
          PROVE  ResultsFit'
      <3>1. writer'[r] = u /\ \A q \in Run \ {r} : writer'[q] = writer[q]
        BY <1>a, <2>3 DEF TypeOK
      <3>2. u \in Fragile \/ (u \in started' /\ Fits(u, r)')
        BY <2>1, <2>3
      <3>3. Written(r)'
        BY <3>1, <3>2 DEF Written, Fits
      <3>. QED BY <2>2, <3>1, <3>3 DEF ResultsFit
    <2>4. ASSUME NEW u \in Use, NEW r \in Run, Persist(u, r) \/ FinalizeUngated(u, r)
          PROVE  ResultsFit'
      BY <2>3, <2>4 DEF Persist, FinalizeUngated
    <2>5. ASSUME NEW u \in Use, NEW c \in Copy, StopJudge(u, c), writer' # writer
          PROVE  ResultsFit'
      <3>1. /\ u \in started /\ For(u) \in Run /\ Fits(u, For(u))
            /\ writer' = [writer EXCEPT ![For(u)] = u]
        BY <1>a, <2>5 DEF StopJudge, At, For, Inv, HooksHoldTheirRuns, Holds, Owns, TypeOK, HookState
      <3>. QED BY <2>3, <3>1
    <2>6. ASSUME writer' = writer PROVE ResultsFit'
      BY <2>2, <2>6 DEF ResultsFit
    <2>7. ASSUME NEW u \in Use, NEW r \in Run, PreToolUse(u, r) \/ LaunchUnseen(u, r)
          PROVE  writer' = writer
      BY <2>7 DEF PreToolUse, LaunchUnseen
    <2>8. ASSUME NEW u \in Use,
                 Start(u) \/ Fail(u) \/ Bind(u) \/ Die(u) \/ StopBegin(u) \/ StopEnd(u)
          PROVE  writer' = writer
      BY <2>8 DEF Start, Fail, Bind, Die, StopBegin, StopEnd
    <2>9. ASSUME NEW u \in Use, NEW c \in Copy,
                 StopRead(u, c) \/ StopRecord(u, c) \/ StopRefuse(u, c) \/ StopKilled(u, c)
          PROVE  writer' = writer
      BY <2>9 DEF StopRead, StopRecord, StopRefuse, StopKilled
    <2>. QED BY <1>2, <2>4, <2>5, <2>6, <2>7, <2>8, <2>9 DEF Next, StopStep
  <1>. QED BY <1>1, <1>2

-----------------------------------------------------------------------------
\* The invariant holds in every state, when no hook is registered twice and no run is
\* dispatched twice.
LEMMA Invariance == ASSUME Copies = 1, Reuse = FALSE PROVE Spec => []Inv
  <1>1. Init => Inv
    BY InitInv
  <1>2. Inv /\ [Next]_vars => Inv'
    BY TypeStep, OneUseStep, HookStep, TerminalStep, ResultStep DEF Inv
  <1>. QED BY <1>1, <1>2, PTL DEF Spec

\* The log, the results and the stop hooks stay well formed: no dispatch is ever
\* counted twice and a stop receipt always carries a run.
THEOREM TypeCorrect == ASSUME Copies = 1, Reuse = FALSE PROVE Spec => []TypeOK
  <1>1. Inv => TypeOK
    BY DEF Inv
  <1>. QED BY <1>1, Invariance, PTL

\* However many workers of however many types run in a session, no worker's stop is ever
\* recorded for a run it was not dispatched for, unless a worker like it was launched
\* there without a dispatch receipt.
THEOREM StopsNameTheirRuns ==
    ASSUME Copies = 1, Reuse = FALSE PROVE Spec => []StopNamesItsRun
  <1>1. Inv => StopNamesItsRun
    BY DEF Inv, TerminalIsSettled, Done, Owns, StopNamesItsRun
  <1>. QED BY <1>1, Invariance, PTL

\* A run that status and the gates trust has a result for good, of an agent that started
\* and fits the run or went past a dead gate, and a worker that is done with it: its own,
\* unless a worker like it was launched without a dispatch receipt.
THEOREM TrustedIsDone ==
    ASSUME Copies = 1, Reuse = FALSE PROVE Spec => []TrustedMeansDone
  <1>1. Inv => TrustedMeansDone
    <2>. SUFFICES ASSUME Inv, NEW r \in Run, TrustedRun(r)
                  PROVE  /\ writer[r] \in Fragile \/ (writer[r] \in started /\ Fits(writer[r], r))
                         /\ \E u \in Use : /\ <<u, r>> \in stops /\ Fits(u, r)
                                           /\ phase[u] \in {"stopping", "ended", "dead"}
                                           /\ run[u] = r \/ Astray(u)
      BY DEF TrustedMeansDone
    <2>1. PICK u \in Use : <<u, r>> \in stops
      BY DEF TrustedRun
    <2>2. Done(u, r)
      BY <2>1 DEF Inv, TerminalIsSettled
    <2>3. Written(r)
      BY DEF Inv, ResultsFit
    <2>4. phase[u] \in {"stopping", "ended", "dead"} /\ Fits(u, r) /\ (run[u] = r \/ Astray(u))
      BY <2>2 DEF Done, Settled, Owns
    <2>. QED BY <2>1, <2>2, <2>3, <2>4 DEF Done, Written
  <1>. QED BY <1>1, Invariance, PTL

-----------------------------------------------------------------------------
\* The worker dispatched for r has its stop receipt.
OwnStop(r) == \E d \in Use : <<d, r>> \in stops /\ run[d] = r /\ dispatches[d] > 0

\* A run whose own worker has its receipt is trusted.
LEMMA OwnStopIsTrusted == ASSUME Copies = 1, Inv, NEW r \in Run, OwnStop(r) PROVE TrustedRun(r)
  <1>1. PICK d \in Use : <<d, r>> \in stops /\ run[d] = r /\ dispatches[d] > 0
    BY DEF OwnStop
  <1>2. d \in started /\ latest[r] = d /\ d # NoUse
    BY <1>1, UseAssumption DEF Inv, TerminalIsSettled, Done, OneUsePerRun
  <1>3. \A v \in Use : <<v, r>> \in bound => v = d
    BY <1>1 DEF Inv, OneUsePerRun
  <1>4. CASE <<d, r>> \in bound
    BY <1>1, <1>2, <1>4 DEF TrustedRun
  <1>5. CASE {v \in Use : <<v, r>> \in bound} = {}
    BY <1>1, <1>2, <1>5 DEF TrustedRun
  <1>. QED BY <1>3, <1>4, <1>5

\* A trusted run whose worker was alone with its receipt was stopped by that worker.
LEMMA TrustedIsOwnStop ==
    ASSUME Copies = 1, Inv, NEW r \in Run, TrustedRun(r), ~Astray(latest[r])
    PROVE  OwnStop(r)
  <1>1. CASE \E u \in Use : run[u] = r /\ dispatches[u] > 0 /\ <<u, r>> \in stops
    BY <1>1 DEF OwnStop
  <1>2. ASSUME NEW v \in Use, <<v, r>> \in stops, latest[r] # NoUse PROVE OwnStop(r)
    <2>1. PICK d \in Use : d = latest[r] /\ run[d] = r /\ dispatches[d] > 0
      BY <1>2 DEF Inv, TypeOK, OneUsePerRun
    <2>2. Owns(v, run[d])
      BY <1>2, <2>1 DEF Inv, TerminalIsSettled, Done
    <2>3. v = d
      BY <2>1, <2>2, OwnerIsOwn DEF Inv
    <2>. QED BY <1>2, <2>1, <2>3 DEF OwnStop
  <1>. QED BY <1>1, <1>2 DEF TrustedRun

\* No receipt that arrives later takes trust in a run away, unless a worker of its type
\* was launched into its session without a dispatch receipt.
THEOREM TrustIsKept == ASSUME Copies = 1, Reuse = FALSE PROVE Spec => TrustKept
  <1>. DEFINE Own == \A r \in Run : OwnStop(r) => TrustedRun(r)
              Alone == \A r \in Run : TrustedRun(r) /\ ~Astray(latest[r]) => OwnStop(r)
  <1>1. Inv => Own /\ Alone
    BY OwnStopIsTrusted, TrustedIsOwnStop
  <1>2. ASSUME Inv, Alone, Own', [Next]_vars
        PROVE  [\A r \in Run : TrustedRun(r) => TrustedRun(r)' \/ Astray(latest[r])]_vars
    <2>1. CASE UNCHANGED vars
      BY <2>1
    <2>2. CASE Next
      <3>1. ASSUME NEW r \in Run, OwnStop(r) PROVE OwnStop(r)'
        <4>1. PICK d \in Use : <<d, r>> \in stops /\ run[d] = r /\ dispatches[d] > 0
          BY <3>1 DEF OwnStop
        <4>2. stops \subseteq stops' /\ run'[d] = run[d] /\ dispatches'[d] = dispatches[d]
          BY <1>2, <2>2, <4>1, Grows, UseAssumption DEF Inv
        <4>. QED BY <4>1, <4>2 DEF OwnStop
      <3>. HIDE DEF OwnStop
      <3>. QED BY <1>2, <3>1
    <2>. QED BY <1>2, <2>1, <2>2
  <1>. HIDE DEF Own, Alone
  <1>. QED BY <1>1, <1>2, Invariance, PTL DEF TrustKept, Spec
================================================================================
