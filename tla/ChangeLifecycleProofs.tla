------------------------- MODULE ChangeLifecycleProofs -------------------------
(***************************************************************************)
(* For any number of tools, hooks and other commands, of writes and of     *)
(* revisions: no update of the state of a change is lost, what is reported *)
(* as archived or abandoned stays, and every state has its events.         *)
(***************************************************************************)
EXTENDS ChangeLifecycle, TLAPS

(***************************************************************************)
(* The inductive invariant.  A command that has compared the revision is   *)
(* at "event" or "commit"; the state it read is Current, or the directory  *)
(* has moved under it and its commit will make another one.                *)
(***************************************************************************)
Critical(p) == pc[p] \in {"event", "commit"}

\* A command that keeps the state it has read.
Reading(p) == pc[p] \in {"seal", "prove", "compare"} \/ Critical(p)

Below(s, t) == s.revision < t.revision \/ s = t

\* Main can still move the directory back.
Withdrawable == ~present /\ \E m \in Main : pc[m] \in {"verify", "undoMove"}

\* The steps of each command.
Role(p) ==
    /\ pc[p] = "idle" => Command(p) = "none"
    /\ pc[p] \in {"write", "hook"} => p \in Side /\ Command(p) = "write"
    /\ pc[p] = "read" => Command(p) \in CommandsOf(p) \ {"write"}
    /\ pc[p] = "seal" => p \in Main /\ Command(p) = "validate"
    /\ pc[p] = "prove" => p \in Main /\ Command(p) \in {"archive", "finalize"}
    /\ pc[p] \in {"reread", "move", "report"} =>
         p \in Main /\ Command(p) \in {"finalize", "abandon"}
    /\ pc[p] = "undoState" => p \in Main /\ Command(p) \in {"finalize", "abandon"}
    /\ pc[p] \in {"verify", "undoMove"} => p \in Main /\ Command(p) = "finalize"
    /\ pc[p] = "compare" \/ Critical(p) =>
          Command(p) \in CommandsOf(p) \cup (IF p \in Main THEN {"rollback"} ELSE {})
Roles == \A p \in Process : Role(p)

Exists == Current # NoState => present

OneCritical == \A p, q \in Process : Critical(p) /\ Critical(q) => p = q

InPlace(p) == lock["changes"] = p /\ Current = op[p].own
Late(p) ==
    /\ Current = NoState
    /\ home["archive"] # NoState \/ home["abandoned"] # NoState
    /\ Withdrawable => home["archive"] = op[p].own /\ lock["archive"] = p
    /\ \A q \in Process : Reading(q) => Below(op[q].own, op[p].own)
CriticalIsCurrent == \A p \in Process : Critical(p) => InPlace(p) \/ Late(p)

ReadersAreBelow ==
    /\ Current # NoState => \A q \in Process : Reading(q) => Below(op[q].own, Current)
    /\ Withdrawable => \A q \in Process : Reading(q) => Below(op[q].own, home["archive"])

\* Only main takes the directory away, so it finds it where it left it.
MainFinds ==
    \A m \in Main :
        /\ Reading(m) \/ pc[m] \in {"reread", "move"} => Current # NoState
        /\ pc[m] = "verify" => home["archive"] # NoState
        /\ pc[m] = "undoMove" => Current # NoState \/ home["archive"] # NoState

UpdateInv == TypeOK /\ Roles /\ Exists /\ OneCritical /\ CriticalIsCurrent /\
  ReadersAreBelow /\ MainFinds

\* What is or may come back into the old place has the lifecycle of directory d.
Final(d) == IF d = "archive" THEN "archived" ELSE "abandoned"
Settled(d) ==
    /\ home[d] # NoState
    /\ Current # NoState => Current.lifecycle = Final(d)
    /\ \A p \in Process : Critical(p) => op[p].own.lifecycle = Final(d)

\* Main is at a command that cannot move the directory.
Harmless(m) == Command(m) \in {"none", "validate", "archive"} \/ pc[m] = "read"

AbandonedIsFinal ==
    home["abandoned"] # NoState =>
        /\ Settled("abandoned")
        /\ \A m \in Main : Harmless(m) \/
             (Command(m) = "abandon" /\ pc[m] \in {"reread", "report"})
MainLeavesFinal ==
    \A m \in Main :
        /\ pc[m] = "move" => Current.lifecycle = Final(Destination(Command(m)))
        /\ pc[m] = "verify" => Settled("archive")
        /\ pc[m] = "report" => Settled(Destination(Command(m)))
ReportedIsSettled ==
    /\ reported = "archive" => Settled("archive") /\ \A m \in Main : Harmless(m)
    /\ reported = "abandoned" => home["abandoned"] # NoState
PlacesAreFinal == AbandonedIsFinal /\ MainLeavesFinal /\ ReportedIsSettled

\* A change is finalized in the archive stage only.
MainKeepsStage ==
    \A m \in Main : Command(m) = "finalize" =>
        /\ pc[m] \in {"prove", "reread", "move"} => Current.stage = "archive"
        /\ pc[m] = "compare" \/ Critical(m) => op[m].own.stage = "archive"

\* The event precedes the state.
EventsPrecede ==
    \A p \in Process : pc[p] = "commit" =>
        /\ Current # NoState /\ ~Recreated("changes") =>
             op[p].own.revision + 1 \in log["changes"]
        /\ Withdrawable => op[p].own.revision + 1 \in log["archive"]

\* A state that was validated with this seal may be fresh: the writes it has not
\* seen are unmarked.
Sees(seal) == \A w \in indexed : w > seal => w \in unmarked
StatesSee ==
    /\ Withdrawable /\ home["archive"].validation = "fresh" => Sees(home["archive"].sealed)
    /\ \A p \in Process : Critical(p) /\ op[p].own.validation = "fresh" =>
         Sees(op[p].own.sealed)
ValidationSees ==
    \A m \in Main :
        Command(m) = "validate" /\ (pc[m] = "compare" \/ Critical(m)) /\ op[m].own = Current
            => Sees(op[m].mark)
MaterialIsSeen == FreshUnlessUnmarked /\ StatesSee /\ ValidationSees

LifecycleInv ==
    /\ UpdateInv /\ PlacesAreFinal
    /\ PlaceIsRecorded /\ MainKeepsStage
    /\ EveryRevisionHasEvent /\ EventsPrecede
    /\ MaterialIsSeen

-----------------------------------------------------------------------------
(***************************************************************************)
(* Types and roles.                                                        *)
(***************************************************************************)

LEMMA NothingTyped == InitialState \in State /\ Nothing \in Op /\ Nothing.command = "none"
  BY BoundsAssumption DEF InitialState, State, Nothing, Op, Lifecycle

LEMMA StateTyped ==
    ASSUME NEW s \in State
    PROVE  /\ s # NoState /\ s.revision \in Nat /\ s.lifecycle \in Lifecycle
           /\ s.stage \in {"verify", "archive"} /\
                s.validation \in {"missing", "stale", "fresh"}
           /\ s.sealed \in 0..MaxWrites
  BY NoStateAssumption DEF State

LEMMA OpTyped ==
    ASSUME TypeOK, NEW p \in Process
    PROVE  /\ op[p] \in Op /\ op[p].own \in State /\ op[p].mark \in 0..MaxWrites
           /\ op[p].restore \in Lifecycle
           /\ Current # NoState => Current \in State
  BY DEF TypeOK, Op, Current, Directory

\* What a commit writes, field by field.
LEMMA SuccessorFields ==
    ASSUME TypeOK, NEW p \in Process, Role(p), pc[p] = "commit"
    PROVE  /\ Successor(p) \in State
           /\ Successor(p).revision = op[p].own.revision + 1
           /\ Successor(p).lifecycle = IF Command(p) = "finalize" THEN "archived"
                 ELSE IF Command(p) = "abandon" THEN "abandoned"
                 ELSE IF Command(p) = "rollback" THEN op[p].restore ELSE op[p].own.lifecycle
           /\ Successor(p).stage = IF Command(p) = "archive" THEN "archive" ELSE op[p].own.stage
           /\ Successor(p).validation = IF Command(p) = "validate" THEN "fresh"
                 ELSE IF Command(p) \in {"stale", "write"} THEN "stale" ELSE op[p].own.validation
           /\ Successor(p).sealed = IF Command(p) = "validate" THEN op[p].mark
                 ELSE IF Command(p) \in {"stale", "write"} THEN 0 ELSE op[p].own.sealed
  <1> DEFINE o == op[p].own
             s == [o EXCEPT !.revision = @ + 1]
  <1>1. o \in State /\ op[p].mark \in 0..MaxWrites /\ op[p].restore \in Lifecycle
    BY OpTyped
  <1>2. Command(p) \in {"validate", "archive", "finalize", "abandon", "rollback", "stale", "task", "write"}
    BY DEF Role, Critical, CommandsOf
  <1>3. /\ s \in State /\ s.revision = o.revision + 1 /\ s.lifecycle = o.lifecycle
        /\ s.stage = o.stage /\ s.validation = o.validation /\ s.sealed = o.sealed
    BY <1>1 DEF State
  <1>4. Successor(p) =
          CASE Command(p) = "validate" -> [s EXCEPT !.validation = "fresh", !.sealed = op[p].mark]
            [] Command(p) \in {"stale", "write"} -> [s EXCEPT !.validation = "stale", !.sealed = 0]
            [] Command(p) = "task" -> s
            [] Command(p) = "archive" -> [s EXCEPT !.stage = "archive"]
            [] Command(p) = "finalize" -> [s EXCEPT !.lifecycle = "archived"]
            [] Command(p) = "abandon" -> [s EXCEPT !.lifecycle = "abandoned"]
            [] Command(p) = "rollback" -> [s EXCEPT !.lifecycle = op[p].restore]
    BY DEF Successor
  <1> HIDE DEF s, o
  <1>5. CASE Command(p) = "validate"
    BY <1>1, <1>3, <1>4, <1>5, BoundsAssumption DEF o, State
  <1>6. CASE Command(p) \in {"stale", "write"}
    <2> DEFINE t == [s EXCEPT !.validation = "stale"]
    <2>1. /\ t \in State /\ t.revision = s.revision /\ t.lifecycle = s.lifecycle
          /\ t.stage = s.stage /\ t.validation = "stale"
      BY <1>3 DEF State
    <2>2. Successor(p) = [t EXCEPT !.sealed = 0]
      BY <1>4, <1>6
    <2> HIDE DEF t
    <2>3. /\ Successor(p) \in State /\ Successor(p).revision = t.revision
          /\ Successor(p).lifecycle = t.lifecycle /\ Successor(p).stage = t.stage
          /\ Successor(p).validation = "stale" /\ Successor(p).sealed = 0
      BY <2>1, <2>2, BoundsAssumption DEF State
    <2> QED
      BY <1>3, <1>6, <2>1, <2>3 DEF o
  <1>7. CASE Command(p) \in {"task", "archive"}
    BY <1>1, <1>3, <1>4, <1>7, BoundsAssumption DEF o, State
  <1>8. CASE Command(p) \in {"finalize", "abandon", "rollback"}
    BY <1>1, <1>3, <1>4, <1>8, BoundsAssumption DEF o, State, Lifecycle
  <1> QED
    BY <1>2, <1>5, <1>6, <1>7, <1>8

LEMMA OneMain == (\A m \in Main : m \in Process) /\ \A m, n \in Main : m = n
  BY MainAssumption DEF Process

(***************************************************************************)
(* What each step does to the places and to its command, place by place.   *)
(***************************************************************************)
Ends(p) == pc'[p] = "idle" /\ op'[p].command = "none"
OthersStay(p) == \A q \in Process \ {p} : pc'[q] = pc[q] /\ op'[q] = op[q]

LEMMA BeginDoes ==
    ASSUME TypeOK, Roles, NEW p \in Process, Begin(p)
    PROVE  /\ OthersStay(p)
           /\ pc[p] = "idle" /\ Current # NoState
           /\ Command(p)' \in CommandsOf(p)
           /\ pc'[p] = IF Command(p)' = "write" THEN "write" ELSE "read"
           /\ home' = home /\ present' = present /\ log' = log /\ lock' = lock
           /\ writes' = writes /\ indexed' = indexed /\ unmarked' = unmarked
           /\ reported' = reported
  <1>1. OthersStay(p)
    BY DEF OthersStay, Begin, Goto, Stop, TypeOK
  <1> QED
    BY <1>1, OpTyped, NothingTyped
    DEF Ends, Begin, Goto, CommandsOf, TypeOK, Op, At, Command, Directory, Current, files,
        material

LEMMA ReadDoes ==
    ASSUME TypeOK, Roles, NEW p \in Process, Read(p)
    PROVE  /\ OthersStay(p)
           /\ pc[p] = "read"
           /\ \/ /\ Current # NoState /\ Accepts(Command(p), Current)
                 /\ Command(p)' = Command(p) /\ op'[p].own = Current /\
                      pc'[p] = AfterRead(Command(p))
              \/ Ends(p)
           /\ home' = home /\ present' = present /\ log' = log /\ lock' = lock
           /\ writes' = writes /\ indexed' = indexed /\ unmarked' = unmarked
           /\ reported' = reported
  <1>1. OthersStay(p)
    BY DEF OthersStay, Read, Goto, Stop, TypeOK
  <1> QED
    BY <1>1, OpTyped, NothingTyped
    DEF Ends, Read, Goto, Stop, TypeOK, Op, At, Command, Directory, Current, files, material

LEMMA SealDoes ==
    ASSUME TypeOK, Roles, NEW p \in Process, Seal(p)
    PROVE  /\ OthersStay(p)
           /\ pc[p] = "seal"
           /\ \/ /\ Command(p)' = Command(p) /\ op'[p].own = op[p].own /\ op'[p].mark = writes
                 /\ pc'[p] = "compare"
              \/ Ends(p)
           /\ home' = home /\ present' = present /\ log' = log /\ lock' = lock
           /\ writes' = writes /\ indexed' = indexed /\ unmarked' = unmarked
           /\ reported' = reported
  <1>1. OthersStay(p)
    BY DEF OthersStay, Seal, Goto, Stop, TypeOK
  <1> QED
    BY <1>1, OpTyped, NothingTyped
    DEF Ends, Seal, Goto, Stop, TypeOK, Op, At, Command, Directory, Current, files, material

LEMMA ProveDoes ==
    ASSUME TypeOK, Roles, NEW p \in Process, Prove(p)
    PROVE  /\ OthersStay(p)
           /\ pc[p] = "prove"
           /\ \/ op'[p] = op[p] /\
                   pc'[p] = IF Command(p) = "archive" THEN "compare" ELSE "reread"
              \/ Ends(p)
           /\ home' = home
           /\ lock' = lock
           /\ log' = log
           /\ present' \in {present, TRUE}
           /\ writes' = writes /\ indexed' = indexed /\ unmarked' = unmarked
           /\ reported' = reported
  <1>1. OthersStay(p)
    BY DEF OthersStay, Prove, Goto, Stop, TypeOK
  <1> QED
    BY <1>1, OpTyped, NothingTyped
    DEF Ends, Prove, Goto, Stop, TypeOK, Op, At, Command, Directory, Current, files, material

LEMMA RereadDoes ==
    ASSUME TypeOK, Roles, NEW p \in Process, Reread(p)
    PROVE  /\ OthersStay(p)
           /\ pc[p] = "reread"
           /\ \/ /\ MayMove(p) /\ Command(p)' = Command(p) /\ op'[p].own = Current /\
                      pc'[p] = "compare"
              \/ Ends(p)
           /\ home' = home /\ present' = present /\ log' = log /\ lock' = lock
           /\ writes' = writes /\ indexed' = indexed /\ unmarked' = unmarked
           /\ reported' = reported
  <1>1. OthersStay(p)
    BY DEF OthersStay, Reread, Goto, Stop, TypeOK
  <1> QED
    BY <1>1, OpTyped, NothingTyped
    DEF Ends, Reread, Goto, Stop, MayMove, TypeOK, Op, At, Command, Directory, Current, files,
        material

LEMMA WriteDoes ==
    ASSUME TypeOK, Roles, NEW p \in Process, Write(p)
    PROVE  /\ OthersStay(p)
           /\ pc[p] = "write"
           /\ \/ /\ Current # NoState /\ Command(p)' = Command(p) /\ pc'[p] = "hook"
                 /\ writes' = writes + 1 /\ indexed' \in {indexed, indexed \cup {writes + 1}}
                 /\ unmarked' = unmarked \cup {writes + 1}
              \/ Ends(p) /\ writes' = writes /\ indexed' = indexed /\ unmarked' = unmarked
           /\ home' = home /\ present' = present /\ log' = log /\ lock' = lock
           /\ reported' = reported
  <1>1. OthersStay(p)
    BY DEF OthersStay, Write, Goto, Stop, TypeOK
  <1> QED
    BY <1>1, OpTyped, NothingTyped
    DEF Ends, Write, Goto, Stop, TypeOK, Op, At, Command, Directory, Current, files, material

LEMMA HookReadDoes ==
    ASSUME TypeOK, Roles, NEW p \in Process, HookRead(p)
    PROVE  /\ OthersStay(p)
           /\ pc[p] = "hook"
           /\ \/ /\ Current # NoState /\ Command(p)' = Command(p) /\ op'[p].own = Current
                 /\ pc'[p] = "compare" /\ unmarked' = unmarked
              \/ Ends(p) /\
                   (unmarked' = unmarked \/ (op[p].mark \notin indexed /\
                     unmarked' = unmarked \ {op[p].mark}))
           /\ home' = home /\ present' = present /\ log' = log /\ lock' = lock
           /\ writes' = writes /\ indexed' = indexed
           /\ reported' = reported
  <1>1. OthersStay(p)
    BY DEF OthersStay, HookRead, Goto, Stop, TypeOK
  <1> QED
    BY <1>1, OpTyped, NothingTyped
    DEF Ends, HookRead, Goto, Stop, TypeOK, Op, At, Command, Directory, Current, files, material

LEMMA CompareDoes ==
    ASSUME TypeOK, Roles, NEW p \in Process, Compare(p)
    PROVE  /\ OthersStay(p)
           /\ pc[p] = "compare"
           /\ \/ /\ LockIsFree /\ Current # NoState /\ Current.revision = op[p].own.revision
                 /\ lock'["changes"] = p /\ lock'["archive"] = lock["archive"]
                 /\ pc'[p] = "event" /\ present' = present /\ op'[p] = op[p]
              \/ present' \in {present, TRUE} /\ Ends(p) /\ lock' = lock
           /\ home' = home
           /\ log' = log
           /\ writes' = writes /\ indexed' = indexed /\ unmarked' = unmarked
           /\ reported' = reported
  <1>1. OthersStay(p)
    BY DEF OthersStay, Compare, Goto, Stop, TypeOK
  <1> QED
    BY <1>1, OpTyped, NothingTyped
    DEF Ends, Compare, Goto, Stop, TypeOK, Op, At, Command, Directory, Current, files, material

LEMMA AppendEventDoes ==
    ASSUME TypeOK, Roles, NEW p \in Process, AppendEvent(p)
    PROVE  /\ OthersStay(p)
           /\ pc[p] = "event"
           /\ log'["changes"] = log["changes"] \cup {op[p].own.revision + 1}
           /\ log'["archive"] = log["archive"] /\ log'["abandoned"] = log["abandoned"]
           /\ present' = TRUE
           /\ pc'[p] = "commit" /\ op'[p] = op[p]
           /\ home' = home
           /\ lock' = lock
           /\ writes' = writes /\ indexed' = indexed /\ unmarked' = unmarked
           /\ reported' = reported
  <1>1. OthersStay(p)
    BY DEF OthersStay, AppendEvent, Goto, Stop, TypeOK
  <1> QED
    BY <1>1, OpTyped, NothingTyped
    DEF Ends, AppendEvent, Goto, TypeOK, Op, At, Command, Directory, Current, files, material

LEMMA CommitDoes ==
    ASSUME TypeOK, Roles, NEW p \in Process, Commit(p)
    PROVE  /\ OthersStay(p)
           /\ pc[p] = "commit"
           /\ Current' = Successor(p)
           /\ home'["archive"] = home["archive"] /\ home'["abandoned"] = home["abandoned"]
           /\ present' = TRUE
           /\ \A q \in Process \ {p} : lock["changes"] = q => lock'["changes"] = q
           /\ lock'["archive"] = lock["archive"]
           /\ IF Command(p) \in {"finalize", "abandon"} THEN pc'[p] = "move" /\
                op'[p] = op[p] ELSE Ends(p)
           /\ IF Command(p) = "write" THEN unmarked' = unmarked \ {op[p].mark} ELSE unmarked' = unmarked
           /\ log' = log
           /\ writes' = writes /\ indexed' = indexed
           /\ reported' = reported
  <1>1. OthersStay(p)
    BY DEF OthersStay, Commit, Goto, Stop, TypeOK
  <1> QED
    BY <1>1, OpTyped, NothingTyped
    DEF Ends, Commit, Goto, Stop, TypeOK, Op, At, Command, Directory, Current, files, material,
        Roles, Role

LEMMA MoveDoes ==
    ASSUME TypeOK, Roles, NEW p \in Process, Move(p)
    PROVE  /\ OthersStay(p)
           /\ pc[p] = "move"
           /\ \/ /\ Command(p) = "finalize" /\ pc'[p] = "verify" /\ present
                 /\ home["archive"] = NoState /\ home'["archive"] = Current /\
                      log'["archive"] = log["changes"]
                 /\ lock'["archive"] = lock["changes"]
                 /\ home'["abandoned"] = home["abandoned"] /\
                      log'["abandoned"] = log["abandoned"]
                 /\ Current' = NoState /\ present' = FALSE
              \/ /\ Command(p) = "abandon" /\ pc'[p] = "report" /\ present
                 /\ home["abandoned"] = NoState /\ home'["abandoned"] = Current
                 /\ log'["abandoned"] = log["changes"]
                 /\ home'["archive"] = home["archive"] /\ log'["archive"] = log["archive"]
                 /\ lock'["archive"] = lock["archive"]
                 /\ Current' = NoState /\ present' = FALSE
              \/ /\ pc'[p] = IF Command(p) = "finalize" THEN "undoMove" ELSE "undoState"
                 /\ home' = home /\ present' = present /\ log' = log /\ lock' = lock
           /\ writes' = writes /\ indexed' = indexed /\ unmarked' = unmarked
           /\ reported' = reported
           /\ op'[p] = op[p]
  <1>1. OthersStay(p)
    BY DEF OthersStay, Move, Goto, Stop, TypeOK
  <1> QED
    BY ZenonT(60), <1>1, OpTyped, NothingTyped, NoStateAssumption
    DEF Ends, Move, Goto, Rename, Destination, TypeOK, Op, At, Command, Directory, Current,
        files, material, Roles, Role

LEMMA VerifyDoes ==
    ASSUME TypeOK, Roles, NEW p \in Process, Verify(p)
    PROVE  /\ OthersStay(p)
           /\ pc[p] = "verify"
           /\ pc'[p] \in {"report", "undoMove"}
           /\ home' = home /\ present' = present /\ log' = log /\ lock' = lock
           /\ writes' = writes /\ indexed' = indexed /\ unmarked' = unmarked
           /\ reported' = reported
           /\ op'[p] = op[p]
  <1>1. OthersStay(p)
    BY DEF OthersStay, Verify, Goto, Stop, TypeOK
  <1> QED
    BY <1>1, OpTyped, NothingTyped
    DEF Ends, Verify, Goto, TypeOK, Op, At, Command, Directory, Current, files, material,
        Roles, Role

LEMMA ReportDoes ==
    ASSUME TypeOK, Roles, NEW p \in Process, Report(p)
    PROVE  /\ OthersStay(p)
           /\ pc[p] = "report"
           /\ reported' = Destination(Command(p))
           /\ Ends(p)
           /\ home' = home /\ present' = present /\ log' = log /\ lock' = lock
           /\ writes' = writes /\ indexed' = indexed /\ unmarked' = unmarked
  <1>1. OthersStay(p)
    BY DEF OthersStay, Report, Goto, Stop, TypeOK
  <1> QED
    BY <1>1, OpTyped, NothingTyped
    DEF Ends, Report, Goto, Stop, TypeOK, Op, At, Command, Directory, Current, files, material

LEMMA UndoMoveDoes ==
    ASSUME TypeOK, Roles, NEW p \in Process, UndoMove(p)
    PROVE  /\ OthersStay(p)
           /\ pc[p] = "undoMove"
           /\ \/ /\ ~present /\ home["archive"] # NoState /\ pc'[p] = "undoState" /\
                      op'[p] = op[p]
                 /\ Current' = home["archive"] /\ home'["archive"] = NoState
                 /\ home'["abandoned"] = home["abandoned"] /\
                      log'["abandoned"] = log["abandoned"]
                 /\ log'["changes"] = log["archive"] /\
                      lock'["changes"] = lock["archive"] /\ present' = TRUE
              \/ /\ (pc'[p] = "undoState" /\ op'[p] = op[p]) \/ Ends(p)
                 /\ home' = home /\ present' = present /\ log' = log /\ lock' = lock
           /\ writes' = writes /\ indexed' = indexed /\ unmarked' = unmarked
           /\ reported' = reported
  <1>1. OthersStay(p)
    BY DEF OthersStay, UndoMove, Goto, Stop, TypeOK
  <1> QED
    BY ZenonT(60), <1>1, OpTyped, NothingTyped
    DEF Ends, UndoMove, Goto, Stop, Rename, TypeOK, Op, At, Command, Directory, Current, files,
        material

LEMMA UndoStateDoes ==
    ASSUME TypeOK, Roles, NEW p \in Process, UndoState(p)
    PROVE  /\ OthersStay(p)
           /\ pc[p] = "undoState"
           /\ \/ /\ Current # NoState /\ Command(p)' = "rollback" /\ op'[p].own = Current
                 /\ pc'[p] = "compare"
              \/ Ends(p)
           /\ home' = home /\ present' = present /\ log' = log /\ lock' = lock
           /\ writes' = writes /\ indexed' = indexed /\ unmarked' = unmarked
           /\ reported' = reported
  <1>1. OthersStay(p)
    BY DEF OthersStay, UndoState, Goto, Stop, TypeOK
  <1> QED
    BY <1>1, OpTyped, NothingTyped
    DEF Ends, UndoState, Goto, Stop, TypeOK, Op, At, Command, Directory, Current, files,
        material

LEMMA CrashDoes ==
    ASSUME TypeOK, Roles, NEW p \in Process, Crash(p)
    PROVE  /\ OthersStay(p)
           /\ Ends(p)
           /\ home' = home /\ present' = present /\ log' = log /\ lock' = lock
           /\ writes' = writes /\ indexed' = indexed /\ unmarked' = unmarked
           /\ reported' = reported
  <1>1. OthersStay(p)
    BY DEF OthersStay, Crash, Goto, Stop, TypeOK
  <1> QED
    BY <1>1, OpTyped, NothingTyped
    DEF Ends, Crash, Goto, Stop, TypeOK, Op, At, Command, Directory, Current, files, material

\* The commands stay well typed.
LEMMA OpStays ==
    ASSUME TypeOK, NEW p \in Process,
           op' = op \/ (op' = [op EXCEPT ![p].own = Current] /\ Current # NoState) \/ Stop(p)
    PROVE  op' \in [Process -> Op]
  <1>1. ASSUME op' = [op EXCEPT ![p].own = Current], Current # NoState
        PROVE  op' \in [Process -> Op]
    BY <1>1, OpTyped DEF TypeOK, Op
  <1>2. ASSUME Stop(p) PROVE op' \in [Process -> Op]
    BY <1>2, NothingTyped DEF Stop, TypeOK
  <1> QED
    BY <1>1, <1>2 DEF TypeOK

LEMMA TypeStep == TypeOK /\ Roles /\ [Next]_vars => TypeOK'
  <1> SUFFICES ASSUME TypeOK /\ Roles, [Next]_vars PROVE TypeOK'
    OBVIOUS
  <1>1. ASSUME NEW p \in Process, Begin(p) PROVE TypeOK'
    <2>1. op' \in [Process -> Op]
      BY <1>1, OpTyped, StateTyped, NothingTyped DEF Begin, Op, Stop, TypeOK, CommandsOf
    <2>2. pc' \in [Process -> Steps]
      BY <1>1 DEF Begin, Goto, Stop, TypeOK, Steps
    <2>3. /\ home' \in [Directory -> State \cup {NoState}] /\ present' \in BOOLEAN
          /\ log' \in [Directory -> SUBSET Nat] /\
               lock' \in [Directory -> Process \cup {NoProcess}]
      BY <1>1 DEF Begin, files, TypeOK, Directory
    <2>4. /\ writes' \in 0..MaxWrites /\ indexed' \in SUBSET (1..writes') /\
               unmarked' \in SUBSET (1..writes')
          /\ reported' \in {"none", "archive", "abandoned"}
      BY <1>1, BoundsAssumption DEF Begin, material, TypeOK
    <2> QED
      BY <2>1, <2>2, <2>3, <2>4 DEF TypeOK
  <1>2. ASSUME NEW p \in Process, Read(p) PROVE TypeOK'
    <2>1. op' \in [Process -> Op]
      <3>1. CASE Current # NoState /\ op' = [op EXCEPT ![p].own = Current]
        BY <3>1, OpTyped DEF Op, TypeOK
      <3>2. CASE Stop(p)
        BY <3>2, NothingTyped DEF Stop, TypeOK
      <3> QED
        BY <1>2, <3>1, <3>2 DEF Read
    <2>2. pc' \in [Process -> Steps]
      BY <1>2 DEF Read, Goto, Stop, TypeOK, Steps, AfterRead, At, Roles, Role, CommandsOf
    <2>3. /\ home' \in [Directory -> State \cup {NoState}] /\ present' \in BOOLEAN
          /\ log' \in [Directory -> SUBSET Nat] /\
               lock' \in [Directory -> Process \cup {NoProcess}]
      BY <1>2 DEF Read, files, TypeOK, Directory
    <2>4. /\ writes' \in 0..MaxWrites /\ indexed' \in SUBSET (1..writes') /\
               unmarked' \in SUBSET (1..writes')
          /\ reported' \in {"none", "archive", "abandoned"}
      BY <1>2, BoundsAssumption DEF Read, material, TypeOK
    <2> QED
      BY <2>1, <2>2, <2>3, <2>4 DEF TypeOK
  <1>3. ASSUME NEW p \in Process, Seal(p) PROVE TypeOK'
    <2>1. op' \in [Process -> Op]
      BY <1>3, OpTyped, StateTyped, NothingTyped DEF Seal, Op, Stop, TypeOK
    <2>2. pc' \in [Process -> Steps]
      BY <1>3 DEF Seal, Goto, Stop, TypeOK, Steps
    <2>3. /\ home' \in [Directory -> State \cup {NoState}] /\ present' \in BOOLEAN
          /\ log' \in [Directory -> SUBSET Nat] /\
               lock' \in [Directory -> Process \cup {NoProcess}]
      BY <1>3 DEF Seal, files, TypeOK, Directory
    <2>4. /\ writes' \in 0..MaxWrites /\ indexed' \in SUBSET (1..writes') /\
               unmarked' \in SUBSET (1..writes')
          /\ reported' \in {"none", "archive", "abandoned"}
      BY <1>3, BoundsAssumption DEF Seal, material, TypeOK
    <2> QED
      BY <2>1, <2>2, <2>3, <2>4 DEF TypeOK
  <1>4. ASSUME NEW p \in Process, Prove(p) PROVE TypeOK'
    <2>1. op' \in [Process -> Op]
      BY <1>4, OpTyped, StateTyped, NothingTyped DEF Prove, Op, Stop, TypeOK
    <2>2. pc' \in [Process -> Steps]
      BY <1>4 DEF Prove, Goto, Stop, TypeOK, Steps
    <2>3. /\ home' \in [Directory -> State \cup {NoState}] /\ present' \in BOOLEAN
          /\ log' \in [Directory -> SUBSET Nat] /\
               lock' \in [Directory -> Process \cup {NoProcess}]
      BY <1>4 DEF Prove, files, TypeOK, Directory
    <2>4. /\ writes' \in 0..MaxWrites /\ indexed' \in SUBSET (1..writes') /\
               unmarked' \in SUBSET (1..writes')
          /\ reported' \in {"none", "archive", "abandoned"}
      BY <1>4, BoundsAssumption DEF Prove, material, TypeOK
    <2> QED
      BY <2>1, <2>2, <2>3, <2>4 DEF TypeOK
  <1>5. ASSUME NEW p \in Process, Reread(p) PROVE TypeOK'
    <2>1. op' \in [Process -> Op]
      <3>1. MayMove(p) => Current \in State /\ Current.lifecycle \in Lifecycle
        BY OpTyped, StateTyped DEF MayMove
      <3> QED
        BY SMTT(30), <1>5, <3>1, OpTyped, NothingTyped DEF Reread, Op, Stop, TypeOK, Lifecycle
    <2>2. pc' \in [Process -> Steps]
      BY <1>5 DEF Reread, Goto, Stop, TypeOK, Steps
    <2>3. /\ home' \in [Directory -> State \cup {NoState}] /\ present' \in BOOLEAN
          /\ log' \in [Directory -> SUBSET Nat] /\
               lock' \in [Directory -> Process \cup {NoProcess}]
      BY <1>5 DEF Reread, files, TypeOK, Directory
    <2>4. /\ writes' \in 0..MaxWrites /\ indexed' \in SUBSET (1..writes') /\
               unmarked' \in SUBSET (1..writes')
          /\ reported' \in {"none", "archive", "abandoned"}
      BY <1>5, BoundsAssumption DEF Reread, material, TypeOK
    <2> QED
      BY <2>1, <2>2, <2>3, <2>4 DEF TypeOK
  <1>6. ASSUME NEW p \in Process, Write(p) PROVE TypeOK'
    <2>1. op' \in [Process -> Op]
      <3>1. CASE op' = [op EXCEPT ![p].mark = writes + 1] /\ writes < MaxWrites
        BY SMTT(30), <3>1, OpTyped, BoundsAssumption DEF Op, TypeOK
      <3>2. CASE Stop(p)
        BY <3>2, NothingTyped DEF Stop, TypeOK
      <3> QED
        BY <1>6, <3>1, <3>2 DEF Write
    <2>2. pc' \in [Process -> Steps]
      BY <1>6 DEF Write, Goto, Stop, TypeOK, Steps
    <2>3. /\ home' \in [Directory -> State \cup {NoState}] /\ present' \in BOOLEAN
          /\ log' \in [Directory -> SUBSET Nat] /\
               lock' \in [Directory -> Process \cup {NoProcess}]
      BY <1>6 DEF Write, files, TypeOK, Directory
    <2>4. /\ writes' \in 0..MaxWrites /\ indexed' \in SUBSET (1..writes') /\
               unmarked' \in SUBSET (1..writes')
          /\ reported' \in {"none", "archive", "abandoned"}
      BY <1>6, BoundsAssumption DEF Write, material, TypeOK
    <2> QED
      BY <2>1, <2>2, <2>3, <2>4 DEF TypeOK
  <1>7. ASSUME NEW p \in Process, HookRead(p) PROVE TypeOK'
    <2>1. op' \in [Process -> Op]
      <3>1. op' = op \/ (op' = [op EXCEPT ![p].own = Current] /\ Current # NoState) \/ Stop(p)
        BY <1>7 DEF HookRead
      <3> QED
        BY <3>1, OpStays
    <2>2. pc' \in [Process -> Steps]
      BY <1>7 DEF HookRead, Goto, Stop, TypeOK, Steps
    <2>3. /\ home' \in [Directory -> State \cup {NoState}] /\ present' \in BOOLEAN
          /\ log' \in [Directory -> SUBSET Nat] /\
               lock' \in [Directory -> Process \cup {NoProcess}]
      BY <1>7 DEF HookRead, files, TypeOK, Directory
    <2>4. /\ writes' \in 0..MaxWrites /\ indexed' \in SUBSET (1..writes') /\
               unmarked' \in SUBSET (1..writes')
          /\ reported' \in {"none", "archive", "abandoned"}
      BY <1>7, BoundsAssumption DEF HookRead, material, TypeOK
    <2> QED
      BY <2>1, <2>2, <2>3, <2>4 DEF TypeOK
  <1>8. ASSUME NEW p \in Process, Compare(p) PROVE TypeOK'
    <2>1. op' \in [Process -> Op]
      BY <1>8, OpTyped, StateTyped, NothingTyped DEF Compare, Op, Stop, TypeOK
    <2>2. pc' \in [Process -> Steps]
      BY <1>8 DEF Compare, Goto, Stop, TypeOK, Steps
    <2>3. /\ home' \in [Directory -> State \cup {NoState}] /\ present' \in BOOLEAN
          /\ log' \in [Directory -> SUBSET Nat] /\
               lock' \in [Directory -> Process \cup {NoProcess}]
      BY <1>8 DEF Compare, files, TypeOK, Directory
    <2>4. /\ writes' \in 0..MaxWrites /\ indexed' \in SUBSET (1..writes') /\
               unmarked' \in SUBSET (1..writes')
          /\ reported' \in {"none", "archive", "abandoned"}
      BY <1>8, BoundsAssumption DEF Compare, material, TypeOK
    <2> QED
      BY <2>1, <2>2, <2>3, <2>4 DEF TypeOK
  <1>9. ASSUME NEW p \in Process, AppendEvent(p) PROVE TypeOK'
    <2>1. op' \in [Process -> Op]
      BY <1>9, OpTyped, StateTyped, NothingTyped DEF AppendEvent, Op, Stop, TypeOK
    <2>2. pc' \in [Process -> Steps]
      BY <1>9 DEF AppendEvent, Goto, Stop, TypeOK, Steps
    <2>3. /\ home' \in [Directory -> State \cup {NoState}] /\ present' \in BOOLEAN
          /\ log' \in [Directory -> SUBSET Nat] /\
               lock' \in [Directory -> Process \cup {NoProcess}]
      BY <1>9, OpTyped, StateTyped DEF AppendEvent, files, TypeOK, Directory, Roles, At
    <2>4. /\ writes' \in 0..MaxWrites /\ indexed' \in SUBSET (1..writes') /\
               unmarked' \in SUBSET (1..writes')
          /\ reported' \in {"none", "archive", "abandoned"}
      BY <1>9, BoundsAssumption DEF AppendEvent, material, TypeOK
    <2> QED
      BY <2>1, <2>2, <2>3, <2>4 DEF TypeOK
  <1>10. ASSUME NEW p \in Process, Commit(p) PROVE TypeOK'
    <2>1. op' \in [Process -> Op]
      BY <1>10, OpTyped, StateTyped, NothingTyped DEF Commit, Op, Stop, TypeOK
    <2>2. pc' \in [Process -> Steps]
      BY <1>10 DEF Commit, Goto, Stop, TypeOK, Steps
    <2>3. /\ home' \in [Directory -> State \cup {NoState}] /\ present' \in BOOLEAN
          /\ log' \in [Directory -> SUBSET Nat] /\
               lock' \in [Directory -> Process \cup {NoProcess}]
      BY <1>10, SuccessorFields DEF Commit, files, TypeOK, Directory, Roles, At
    <2>4. /\ writes' \in 0..MaxWrites /\ indexed' \in SUBSET (1..writes') /\
               unmarked' \in SUBSET (1..writes')
          /\ reported' \in {"none", "archive", "abandoned"}
      BY <1>10, BoundsAssumption DEF Commit, material, TypeOK
    <2> QED
      BY <2>1, <2>2, <2>3, <2>4 DEF TypeOK
  <1>11. ASSUME NEW p \in Process, Move(p) PROVE TypeOK'
    <2>1. op' \in [Process -> Op]
      BY <1>11, OpTyped, StateTyped, NothingTyped DEF Move, Op, Stop, TypeOK
    <2>2. pc' \in [Process -> Steps]
      BY <1>11 DEF Move, Goto, Stop, TypeOK, Steps
    <2>3. /\ home' \in [Directory -> State \cup {NoState}] /\ present' \in BOOLEAN
          /\ log' \in [Directory -> SUBSET Nat] /\
               lock' \in [Directory -> Process \cup {NoProcess}]
      BY ZenonT(60), <1>11 DEF Move, files, TypeOK, Directory, Rename, Current, Destination
    <2>4. /\ writes' \in 0..MaxWrites /\ indexed' \in SUBSET (1..writes') /\
               unmarked' \in SUBSET (1..writes')
          /\ reported' \in {"none", "archive", "abandoned"}
      BY <1>11, BoundsAssumption DEF Move, material, TypeOK
    <2> QED
      BY <2>1, <2>2, <2>3, <2>4 DEF TypeOK
  <1>12. ASSUME NEW p \in Process, Verify(p) PROVE TypeOK'
    <2>1. op' \in [Process -> Op]
      BY <1>12, OpTyped, StateTyped, NothingTyped DEF Verify, Op, Stop, TypeOK
    <2>2. pc' \in [Process -> Steps]
      BY <1>12 DEF Verify, Goto, Stop, TypeOK, Steps
    <2>3. /\ home' \in [Directory -> State \cup {NoState}] /\ present' \in BOOLEAN
          /\ log' \in [Directory -> SUBSET Nat] /\
               lock' \in [Directory -> Process \cup {NoProcess}]
      BY <1>12 DEF Verify, files, TypeOK, Directory
    <2>4. /\ writes' \in 0..MaxWrites /\ indexed' \in SUBSET (1..writes') /\
               unmarked' \in SUBSET (1..writes')
          /\ reported' \in {"none", "archive", "abandoned"}
      BY <1>12, BoundsAssumption DEF Verify, material, TypeOK
    <2> QED
      BY <2>1, <2>2, <2>3, <2>4 DEF TypeOK
  <1>13. ASSUME NEW p \in Process, Report(p) PROVE TypeOK'
    <2>1. op' \in [Process -> Op]
      BY <1>13, OpTyped, StateTyped, NothingTyped DEF Report, Op, Stop, TypeOK
    <2>2. pc' \in [Process -> Steps]
      BY <1>13 DEF Report, Goto, Stop, TypeOK, Steps
    <2>3. /\ home' \in [Directory -> State \cup {NoState}] /\ present' \in BOOLEAN
          /\ log' \in [Directory -> SUBSET Nat] /\
               lock' \in [Directory -> Process \cup {NoProcess}]
      BY <1>13 DEF Report, files, TypeOK, Directory
    <2>4. /\ writes' \in 0..MaxWrites /\ indexed' \in SUBSET (1..writes') /\
               unmarked' \in SUBSET (1..writes')
          /\ reported' \in {"none", "archive", "abandoned"}
      BY <1>13, BoundsAssumption DEF Report, material, TypeOK, Destination
    <2> QED
      BY <2>1, <2>2, <2>3, <2>4 DEF TypeOK
  <1>14. ASSUME NEW p \in Process, UndoMove(p) PROVE TypeOK'
    <2>1. op' \in [Process -> Op]
      BY <1>14, OpTyped, StateTyped, NothingTyped DEF UndoMove, Op, Stop, TypeOK
    <2>2. pc' \in [Process -> Steps]
      BY <1>14 DEF UndoMove, Goto, Stop, TypeOK, Steps
    <2>3. /\ home' \in [Directory -> State \cup {NoState}] /\ present' \in BOOLEAN
          /\ log' \in [Directory -> SUBSET Nat] /\
               lock' \in [Directory -> Process \cup {NoProcess}]
      <3>1. CASE Rename("archive", "changes")
        BY <3>1 DEF Rename, TypeOK, Directory
      <3>2. CASE UNCHANGED files
        BY <3>2 DEF files, TypeOK
      <3> QED
        BY <1>14, <3>1, <3>2 DEF UndoMove
    <2>4. /\ writes' \in 0..MaxWrites /\ indexed' \in SUBSET (1..writes') /\
               unmarked' \in SUBSET (1..writes')
          /\ reported' \in {"none", "archive", "abandoned"}
      BY <1>14, BoundsAssumption DEF UndoMove, material, TypeOK
    <2> QED
      BY <2>1, <2>2, <2>3, <2>4 DEF TypeOK
  <1>15. ASSUME NEW p \in Process, UndoState(p) PROVE TypeOK'
    <2>1. op' \in [Process -> Op]
      BY <1>15, OpTyped, StateTyped, NothingTyped DEF UndoState, Op, Stop, TypeOK
    <2>2. pc' \in [Process -> Steps]
      BY <1>15 DEF UndoState, Goto, Stop, TypeOK, Steps
    <2>3. /\ home' \in [Directory -> State \cup {NoState}] /\ present' \in BOOLEAN
          /\ log' \in [Directory -> SUBSET Nat] /\
               lock' \in [Directory -> Process \cup {NoProcess}]
      BY <1>15 DEF UndoState, files, TypeOK, Directory
    <2>4. /\ writes' \in 0..MaxWrites /\ indexed' \in SUBSET (1..writes') /\
               unmarked' \in SUBSET (1..writes')
          /\ reported' \in {"none", "archive", "abandoned"}
      BY <1>15, BoundsAssumption DEF UndoState, material, TypeOK
    <2> QED
      BY <2>1, <2>2, <2>3, <2>4 DEF TypeOK
  <1>16. ASSUME NEW p \in Process, Crash(p) PROVE TypeOK'
    <2>1. op' \in [Process -> Op]
      BY <1>16, OpTyped, StateTyped, NothingTyped DEF Crash, Op, Stop, TypeOK
    <2>2. pc' \in [Process -> Steps]
      BY <1>16 DEF Crash, Goto, Stop, TypeOK, Steps
    <2>3. /\ home' \in [Directory -> State \cup {NoState}] /\ present' \in BOOLEAN
          /\ log' \in [Directory -> SUBSET Nat] /\
               lock' \in [Directory -> Process \cup {NoProcess}]
      BY <1>16 DEF Crash, files, TypeOK, Directory
    <2>4. /\ writes' \in 0..MaxWrites /\ indexed' \in SUBSET (1..writes') /\
               unmarked' \in SUBSET (1..writes')
          /\ reported' \in {"none", "archive", "abandoned"}
      BY <1>16, BoundsAssumption DEF Crash, material, TypeOK
    <2> QED
      BY <2>1, <2>2, <2>3, <2>4 DEF TypeOK
  <1>17. CASE UNCHANGED vars
    BY <1>17 DEF vars, files, material, TypeOK
  <1>18. QED
    BY <1>1, <1>2, <1>3, <1>4, <1>5, <1>6, <1>7, <1>8, <1>9, <1>10, <1>11, <1>12, <1>13, <1>14,
       <1>15, <1>16, <1>17
    DEF Next

LEMMA RoleStep == TypeOK /\ Roles /\ [Next]_vars => Roles'
  <1> SUFFICES ASSUME TypeOK /\ Roles, [Next]_vars PROVE Roles'
    OBVIOUS
  <1>1. ASSUME NEW p \in Process, Begin(p) PROVE Roles'
    <2>1. \A q \in Process \ {p} : pc'[q] = pc[q] /\ op'[q] = op[q]
      BY <1>1 DEF Begin, Goto, Stop, TypeOK
    <2>2. Role(p)'
      <3>1. PICK c \in CommandsOf(p) : op' = [op EXCEPT ![p].command = c]
                                    /\ Goto(p, IF c = "write" THEN "write" ELSE "read")
        BY <1>1 DEF Begin
      <3>2. Command(p)' = c /\ pc'[p] = IF c = "write" THEN "write" ELSE "read"
        BY <3>1, OpTyped DEF Goto, TypeOK, Op, Command
      <3> QED
        BY <3>2, NamesAssumption DEF Role, Critical, CommandsOf, Process
    <2> QED
      BY <2>1, <2>2 DEF Roles, Role, Critical, Command
  <1>2. ASSUME NEW p \in Process, Read(p) PROVE Roles'
    <2>1. \A q \in Process \ {p} : pc'[q] = pc[q] /\ op'[q] = op[q]
      BY <1>2 DEF Read, Goto, Stop, TypeOK
    <2>2. Role(p)'
      BY <1>2, NamesAssumption, NothingTyped, OpTyped
      DEF Read, Goto, Stop, TypeOK, Op, Roles, Role, Critical, At, Command, CommandsOf,
          AfterRead
    <2> QED
      BY <2>1, <2>2 DEF Roles, Role, Critical, Command
  <1>3. ASSUME NEW p \in Process, Seal(p) PROVE Roles'
    <2>1. \A q \in Process \ {p} : pc'[q] = pc[q] /\ op'[q] = op[q]
      BY <1>3 DEF Seal, Goto, Stop, TypeOK
    <2>2. Role(p)'
      BY <1>3, NamesAssumption, NothingTyped, OpTyped
      DEF Seal, Goto, Stop, TypeOK, Op, Roles, Role, Critical, At, Command, CommandsOf
    <2> QED
      BY <2>1, <2>2 DEF Roles, Role, Critical, Command
  <1>4. ASSUME NEW p \in Process, Prove(p) PROVE Roles'
    <2>1. \A q \in Process \ {p} : pc'[q] = pc[q] /\ op'[q] = op[q]
      BY <1>4 DEF Prove, Goto, Stop, TypeOK
    <2>2. Role(p)'
      BY ZenonT(60), <1>4, NamesAssumption, NothingTyped, OpTyped
      DEF Prove, Goto, Stop, TypeOK, Op, Roles, Role, Critical, At, Command, CommandsOf
    <2> QED
      BY <2>1, <2>2 DEF Roles, Role, Critical, Command
  <1>5. ASSUME NEW p \in Process, Reread(p) PROVE Roles'
    <2>1. \A q \in Process \ {p} : pc'[q] = pc[q] /\ op'[q] = op[q]
      BY <1>5 DEF Reread, Goto, Stop, TypeOK
    <2>2. Role(p)'
      BY <1>5, NamesAssumption, NothingTyped, OpTyped
      DEF Reread, Goto, Stop, TypeOK, Op, Roles, Role, Critical, At, Command, CommandsOf
    <2> QED
      BY <2>1, <2>2 DEF Roles, Role, Critical, Command
  <1>6. ASSUME NEW p \in Process, Write(p) PROVE Roles'
    <2>1. \A q \in Process \ {p} : pc'[q] = pc[q] /\ op'[q] = op[q]
      BY <1>6 DEF Write, Goto, Stop, TypeOK
    <2>2. Role(p)'
      BY <1>6, NamesAssumption, NothingTyped, OpTyped
      DEF Write, Goto, Stop, TypeOK, Op, Roles, Role, Critical, At, Command, CommandsOf
    <2> QED
      BY <2>1, <2>2 DEF Roles, Role, Critical, Command
  <1>7. ASSUME NEW p \in Process, HookRead(p) PROVE Roles'
    <2>1. \A q \in Process \ {p} : pc'[q] = pc[q] /\ op'[q] = op[q]
      BY <1>7 DEF HookRead, Goto, Stop, TypeOK
    <2>2. Role(p)'
      BY <1>7, NamesAssumption, NothingTyped, OpTyped
      DEF HookRead, Goto, Stop, TypeOK, Op, Roles, Role, Critical, At, Command, CommandsOf
    <2> QED
      BY <2>1, <2>2 DEF Roles, Role, Critical, Command
  <1>8. ASSUME NEW p \in Process, Compare(p) PROVE Roles'
    <2>1. \A q \in Process \ {p} : pc'[q] = pc[q] /\ op'[q] = op[q]
      BY <1>8 DEF Compare, Goto, Stop, TypeOK
    <2>2. Role(p)'
      <3>1. CASE Goto(p, "event") /\ UNCHANGED op
        BY <1>8, <3>1 DEF Compare, Goto, TypeOK, Roles, Role, Critical, At, Command, CommandsOf
      <3>2. CASE Stop(p)
        BY <3>2, NothingTyped DEF Stop, Goto, TypeOK, Role, Critical, Command
      <3> QED
        BY <1>8, <3>1, <3>2 DEF Compare
    <2> QED
      BY <2>1, <2>2 DEF Roles, Role, Critical, Command
  <1>9. ASSUME NEW p \in Process, AppendEvent(p) PROVE Roles'
    <2>1. \A q \in Process \ {p} : pc'[q] = pc[q] /\ op'[q] = op[q]
      BY <1>9 DEF AppendEvent, Goto, Stop, TypeOK
    <2>2. Role(p)'
      BY <1>9, NamesAssumption, NothingTyped, OpTyped
      DEF AppendEvent, Goto, Stop, TypeOK, Op, Roles, Role, Critical, At, Command, CommandsOf
    <2> QED
      BY <2>1, <2>2 DEF Roles, Role, Critical, Command
  <1>10. ASSUME NEW p \in Process, Commit(p) PROVE Roles'
    <2>1. \A q \in Process \ {p} : pc'[q] = pc[q] /\ op'[q] = op[q]
      BY <1>10 DEF Commit, Goto, Stop, TypeOK
    <2>2. Role(p)'
      BY <1>10, NamesAssumption, NothingTyped, OpTyped
      DEF Commit, Goto, Stop, TypeOK, Op, Roles, Role, Critical, At, Command, CommandsOf
    <2> QED
      BY <2>1, <2>2 DEF Roles, Role, Critical, Command
  <1>11. ASSUME NEW p \in Process, Move(p) PROVE Roles'
    <2>1. \A q \in Process \ {p} : pc'[q] = pc[q] /\ op'[q] = op[q]
      BY <1>11 DEF Move, Goto, Stop, TypeOK
    <2>2. Role(p)'
      BY <1>11, NamesAssumption, NothingTyped, OpTyped
      DEF Move, Goto, Stop, TypeOK, Op, Roles, Role, Critical, At, Command, CommandsOf
    <2> QED
      BY <2>1, <2>2 DEF Roles, Role, Critical, Command
  <1>12. ASSUME NEW p \in Process, Verify(p) PROVE Roles'
    <2>1. \A q \in Process \ {p} : pc'[q] = pc[q] /\ op'[q] = op[q]
      BY <1>12 DEF Verify, Goto, Stop, TypeOK
    <2>2. Role(p)'
      BY <1>12, NamesAssumption, NothingTyped, OpTyped
      DEF Verify, Goto, Stop, TypeOK, Op, Roles, Role, Critical, At, Command, CommandsOf
    <2> QED
      BY <2>1, <2>2 DEF Roles, Role, Critical, Command
  <1>13. ASSUME NEW p \in Process, Report(p) PROVE Roles'
    <2>1. \A q \in Process \ {p} : pc'[q] = pc[q] /\ op'[q] = op[q]
      BY <1>13 DEF Report, Goto, Stop, TypeOK
    <2>2. Role(p)'
      BY <1>13, NamesAssumption, NothingTyped, OpTyped
      DEF Report, Goto, Stop, TypeOK, Op, Roles, Role, Critical, At, Command, CommandsOf
    <2> QED
      BY <2>1, <2>2 DEF Roles, Role, Critical, Command
  <1>14. ASSUME NEW p \in Process, UndoMove(p) PROVE Roles'
    <2>1. \A q \in Process \ {p} : pc'[q] = pc[q] /\ op'[q] = op[q]
      BY <1>14 DEF UndoMove, Goto, Stop, TypeOK
    <2>2. Role(p)'
      BY <1>14, NamesAssumption, NothingTyped, OpTyped
      DEF UndoMove, Goto, Stop, TypeOK, Op, Roles, Role, Critical, At, Command, CommandsOf
    <2> QED
      BY <2>1, <2>2 DEF Roles, Role, Critical, Command
  <1>15. ASSUME NEW p \in Process, UndoState(p) PROVE Roles'
    <2>1. \A q \in Process \ {p} : pc'[q] = pc[q] /\ op'[q] = op[q]
      BY <1>15 DEF UndoState, Goto, Stop, TypeOK
    <2>2. Role(p)'
      BY <1>15, NamesAssumption, NothingTyped, OpTyped
      DEF UndoState, Goto, Stop, TypeOK, Op, Roles, Role, Critical, At, Command, CommandsOf
    <2> QED
      BY <2>1, <2>2 DEF Roles, Role, Critical, Command
  <1>16. ASSUME NEW p \in Process, Crash(p) PROVE Roles'
    <2>1. \A q \in Process \ {p} : pc'[q] = pc[q] /\ op'[q] = op[q]
      BY <1>16 DEF Crash, Goto, Stop, TypeOK
    <2>2. Role(p)'
      BY <1>16, NamesAssumption, NothingTyped, OpTyped
      DEF Crash, Goto, Stop, TypeOK, Op, Roles, Role, Critical, At, Command, CommandsOf
    <2> QED
      BY <2>1, <2>2 DEF Roles, Role, Critical, Command
  <1>17. CASE UNCHANGED vars
    BY <1>17 DEF vars, files, material, Roles, Role, Critical, Command
  <1>18. QED
    BY <1>1, <1>2, <1>3, <1>4, <1>5, <1>6, <1>7, <1>8, <1>9, <1>10, <1>11, <1>12, <1>13, <1>14,
       <1>15, <1>16, <1>17
    DEF Next

(***************************************************************************)
(* No update is lost.                                                      *)
(***************************************************************************)

\* The four steps that decide what the readers have in hand.
LEMMA CompareLeads ==
    ASSUME UpdateInv, NEW p \in Process, Compare(p)
    PROVE  /\ Withdrawable' => Withdrawable
           /\ \A q \in Process : Reading(q)' => Reading(q) /\ op'[q] = op[q]
           /\ \A q \in Process \ {p} : (Critical(q)' <=> Critical(q))
           /\ Critical(p)' => /\ Current # NoState /\ op[p].own = Current
                              /\ lock'["changes"] = p /\ \A q \in Process : ~Critical(q)
           /\ ~Critical(p)' => lock' = lock
  <1> USE DEF UpdateInv
  <1>1. /\ Withdrawable' => Withdrawable
        /\ \A q \in Process : Reading(q)' => Reading(q) /\ op'[q] = op[q]
        /\ \A q \in Process \ {p} : (Critical(q)' <=> Critical(q))
    BY CompareDoes, OneMain DEF OthersStay, Ends, Withdrawable, Reading, Critical, Roles, Role
  <1>2. ASSUME Critical(p)'
        PROVE  /\ Current # NoState /\ op[p].own = Current /\ lock'["changes"] = p
               /\ \A q \in Process : ~Critical(q)
    <2>1. /\ pc[p] = "compare" /\ LockIsFree /\ Current # NoState
          /\ Current.revision = op[p].own.revision /\ lock'["changes"] = p
      BY <1>2, CompareDoes DEF Ends, Critical
    <2>2. op[p].own = Current
      BY <2>1, OpTyped, StateTyped DEF ReadersAreBelow, Reading, Below
    <2>3. \A q \in Process : ~Critical(q)
      BY <2>1, NamesAssumption DEF CriticalIsCurrent, InPlace, Late, LockIsFree, Critical
    <2> QED
      BY <2>1, <2>2, <2>3
  <1>3. ~Critical(p)' => lock' = lock
    BY CompareDoes DEF Critical
  <1> QED
    BY <1>1, <1>2, <1>3

LEMMA CommitLeads ==
    ASSUME UpdateInv, NEW p \in Process, Commit(p)
    PROVE  /\ Current' = Successor(p) /\ Current' \in State /\ Current' # NoState
           /\ ~Withdrawable'
           /\ \A q \in Process : Critical(q) => q = p
           /\ \A q \in Process : ~Critical(q)'
           /\ \A q \in Process : Reading(q)' => /\ q # p /\ Reading(q) /\ op'[q] = op[q]
                                                /\ op[q].own.revision < Current'.revision
           /\ Current # NoState => Current = op[p].own
  <1> USE DEF UpdateInv
  <1>1. Critical(p) /\ Role(p) /\ present' = TRUE
    BY CommitDoes DEF Critical, Roles
  <1>2. /\ Current' = Successor(p) /\ Current' \in State /\ Current' # NoState
        /\ Current'.revision = op[p].own.revision + 1
    BY <1>1, CommitDoes, SuccessorFields, StateTyped
  <1>3. \A q \in Process : Critical(q) => q = p
    BY <1>1 DEF OneCritical
  <1>4. \A q \in Process : Reading(q)' => q # p /\ Reading(q) /\ op'[q] = op[q]
    BY CommitDoes DEF OthersStay, Ends, Reading, Critical
  <1>5. \A q \in Process : ~Critical(q)'
    BY <1>3, CommitDoes DEF OthersStay, Ends, Critical
  <1>6. Current # NoState => Current = op[p].own
    BY <1>1 DEF CriticalIsCurrent, InPlace, Late
  <1>7. ASSUME NEW q \in Process, Reading(q) PROVE op[q].own.revision < Current'.revision
    <2>1. Below(op[q].own, op[p].own)
      BY <1>1, <1>6, <1>7, OpTyped, StateTyped
      DEF ReadersAreBelow, CriticalIsCurrent, InPlace, Late
    <2>2. op[q].own.revision \in Nat /\ op[p].own.revision \in Nat
      BY OpTyped, StateTyped
    <2> QED
      BY <1>2, <2>1, <2>2 DEF Below
  <1> QED
    BY <1>1, <1>2, <1>3, <1>4, <1>5, <1>6, <1>7 DEF Withdrawable

LEMMA MoveLeads ==
    ASSUME UpdateInv, NEW p \in Process, Move(p)
    PROVE  /\ p \in Main /\ Current # NoState /\ present
           /\ \A m \in Main : m = p
           /\ \A q \in Process : op'[q] = op[q] /\ (Reading(q)' <=> Reading(q)) /\
                (Critical(q)' <=> Critical(q))
           /\ \A q \in Process : Critical(q) => InPlace(q)
           /\ Withdrawable' => home'["archive"] = Current /\ lock'["archive"] = lock["changes"]
           /\ Current' = NoState =>
                /\ home'["archive"] = Current \/ home'["abandoned"] = Current
           /\ Current' # NoState => home' = home /\ lock' = lock
  <1> USE DEF UpdateInv
  <1>1. p \in Main /\ \A m \in Main : m = p
    BY MoveDoes, OneMain DEF Roles, Role
  <1>2. Current # NoState /\ present
    BY <1>1, MoveDoes DEF MainFinds, Exists
  <1>3. \A q \in Process : op'[q] = op[q] /\ (Reading(q)' <=> Reading(q)) /\
          (Critical(q)' <=> Critical(q))
    BY MoveDoes DEF OthersStay, Reading, Critical
  <1>4. \A q \in Process : Critical(q) => InPlace(q)
    BY <1>2 DEF CriticalIsCurrent, Late
  <1>5. Withdrawable' => home'["archive"] = Current /\ lock'["archive"] = lock["changes"]
    BY <1>1, <1>2, MoveDoes DEF Withdrawable
  <1>6. /\ Current' = NoState => /\ home'["archive"] = Current \/ home'["abandoned"] = Current
        /\ Current' # NoState => home' = home /\ lock' = lock
    BY <1>2, MoveDoes DEF Current
  <1> QED
    BY <1>1, <1>2, <1>3, <1>4, <1>5, <1>6

LEMMA UndoMoveLeads ==
    ASSUME UpdateInv, NEW p \in Process, UndoMove(p)
    PROVE  /\ p \in Main /\ ~Withdrawable'
           /\ \A m \in Main : m = p
           /\ \A q \in Process : Reading(q)' => Reading(q) /\ op'[q] = op[q]
           /\ \A q \in Process : (Critical(q)' <=> Critical(q)) /\
                (Critical(q) => op'[q] = op[q])
           /\ \/ home' = home /\ present' = present /\ lock' = lock
              \/ /\ Withdrawable /\ Current = NoState /\ home["archive"] # NoState
                 /\ Current' = home["archive"] /\ lock'["changes"] = lock["archive"]
  <1> USE DEF UpdateInv
  <1>1. p \in Main /\ \A m \in Main : m = p
    BY UndoMoveDoes, OneMain DEF Roles, Role
  <1>2. ~Withdrawable'
    BY <1>1, UndoMoveDoes DEF Ends, Withdrawable
  <1>3. /\ \A q \in Process : Reading(q)' => Reading(q) /\ op'[q] = op[q]
        /\ \A q \in Process : (Critical(q)' <=> Critical(q)) /\ (Critical(q) => op'[q] = op[q])
    BY UndoMoveDoes DEF OthersStay, Ends, Reading, Critical
  <1>4. \/ home' = home /\ present' = present /\ lock' = lock
        \/ /\ Withdrawable /\ Current = NoState /\ home["archive"] # NoState
           /\ Current' = home["archive"] /\ lock'["changes"] = lock["archive"]
    BY <1>1, UndoMoveDoes DEF Withdrawable, Exists
  <1> QED
    BY <1>1, <1>2, <1>3, <1>4

LEMMA OneStep == UpdateInv /\ [Next]_vars => OneCritical'
  <1> SUFFICES ASSUME UpdateInv, [Next]_vars PROVE OneCritical'
    OBVIOUS
  <1>1. ASSUME NEW p \in Process, Begin(p) PROVE OneCritical'
    BY <1>1, BeginDoes, OpTyped DEF OthersStay, Ends, UpdateInv, OneCritical, Critical
  <1>2. ASSUME NEW p \in Process, Read(p) PROVE OneCritical'
    BY <1>2, ReadDoes, OpTyped DEF OthersStay, Ends, UpdateInv, OneCritical, Critical, AfterRead
  <1>3. ASSUME NEW p \in Process, Seal(p) PROVE OneCritical'
    BY <1>3, SealDoes, OpTyped DEF OthersStay, Ends, UpdateInv, OneCritical, Critical
  <1>4. ASSUME NEW p \in Process, Prove(p) PROVE OneCritical'
    BY <1>4, ProveDoes, OpTyped DEF OthersStay, Ends, UpdateInv, OneCritical, Critical
  <1>5. ASSUME NEW p \in Process, Reread(p) PROVE OneCritical'
    BY <1>5, RereadDoes, OpTyped DEF OthersStay, Ends, UpdateInv, OneCritical, Critical
  <1>6. ASSUME NEW p \in Process, Write(p) PROVE OneCritical'
    BY <1>6, WriteDoes, OpTyped DEF OthersStay, Ends, UpdateInv, OneCritical, Critical
  <1>7. ASSUME NEW p \in Process, HookRead(p) PROVE OneCritical'
    BY <1>7, HookReadDoes, OpTyped DEF OthersStay, Ends, UpdateInv, OneCritical, Critical
  <1>8. ASSUME NEW p \in Process, Compare(p) PROVE OneCritical'
    BY <1>8, CompareDoes, OpTyped, CompareLeads
    DEF OthersStay, Ends, UpdateInv, OneCritical, Critical
  <1>9. ASSUME NEW p \in Process, AppendEvent(p) PROVE OneCritical'
    <2>1. \A q \in Process : Critical(q)' <=> Critical(q)
      BY <1>9, AppendEventDoes DEF UpdateInv, OthersStay, Critical
    <2> QED
      BY <2>1 DEF UpdateInv, OneCritical
  <1>10. ASSUME NEW p \in Process, Commit(p) PROVE OneCritical'
    BY <1>10, CommitDoes, OpTyped, StateTyped, CommitLeads
    DEF OthersStay, Ends, UpdateInv, OneCritical, Critical
  <1>11. ASSUME NEW p \in Process, Move(p) PROVE OneCritical'
    BY <1>11, MoveDoes, OpTyped, MoveLeads
    DEF OthersStay, Ends, UpdateInv, OneCritical, Critical
  <1>12. ASSUME NEW p \in Process, Verify(p) PROVE OneCritical'
    BY <1>12, VerifyDoes, OpTyped DEF OthersStay, Ends, UpdateInv, OneCritical, Critical
  <1>13. ASSUME NEW p \in Process, Report(p) PROVE OneCritical'
    BY <1>13, ReportDoes, OpTyped DEF OthersStay, Ends, UpdateInv, OneCritical, Critical
  <1>14. ASSUME NEW p \in Process, UndoMove(p) PROVE OneCritical'
    BY <1>14, UndoMoveDoes, OpTyped, UndoMoveLeads
    DEF OthersStay, Ends, UpdateInv, OneCritical, Critical
  <1>15. ASSUME NEW p \in Process, UndoState(p) PROVE OneCritical'
    BY <1>15, UndoStateDoes, OpTyped DEF OthersStay, Ends, UpdateInv, OneCritical, Critical
  <1>16. ASSUME NEW p \in Process, Crash(p) PROVE OneCritical'
    BY <1>16, CrashDoes, OpTyped DEF OthersStay, Ends, UpdateInv, OneCritical, Critical
  <1>17. CASE UNCHANGED vars
    BY <1>17 DEF vars, files, material, UpdateInv, OneCritical, Critical
  <1>18. QED
    BY <1>1, <1>2, <1>3, <1>4, <1>5, <1>6, <1>7, <1>8, <1>9, <1>10, <1>11, <1>12, <1>13, <1>14,
       <1>15, <1>16, <1>17
    DEF Next

LEMMA CriticalStep == UpdateInv /\ [Next]_vars => CriticalIsCurrent'
  <1> SUFFICES ASSUME UpdateInv, [Next]_vars PROVE CriticalIsCurrent'
    OBVIOUS
  <1>1. ASSUME NEW p \in Process, Begin(p) PROVE CriticalIsCurrent'
    BY <1>1, BeginDoes, OpTyped, StateTyped, OneMain
    DEF OthersStay, Ends, UpdateInv, CriticalIsCurrent, ReadersAreBelow, OneCritical,
        Withdrawable, InPlace, Late, Below, Reading, Critical, Exists, MainFinds, Roles, Role,
        Current
  <1>2. ASSUME NEW p \in Process, Read(p) PROVE CriticalIsCurrent'
    BY <1>2, ReadDoes, OpTyped, StateTyped, OneMain
    DEF OthersStay, Ends, UpdateInv, CriticalIsCurrent, ReadersAreBelow, OneCritical,
        Withdrawable, InPlace, Late, Below, Reading, Critical, Exists, MainFinds, Roles, Role,
        Current, AfterRead
  <1>3. ASSUME NEW p \in Process, Seal(p) PROVE CriticalIsCurrent'
    BY <1>3, SealDoes, OpTyped, StateTyped, OneMain
    DEF OthersStay, Ends, UpdateInv, CriticalIsCurrent, ReadersAreBelow, OneCritical,
        Withdrawable, InPlace, Late, Below, Reading, Critical, Exists, MainFinds, Roles, Role,
        Current
  <1>4. ASSUME NEW p \in Process, Prove(p) PROVE CriticalIsCurrent'
    <2>1. Withdrawable' => Withdrawable
      BY <1>4, ProveDoes, OneMain DEF OthersStay, Ends, UpdateInv, Withdrawable, Roles, Role
    <2>2. \A q \in Process : /\ Reading(q)' => Reading(q) /\ op'[q] = op[q]
                             /\ Critical(q)' <=> Critical(q)
      BY <1>4, ProveDoes DEF OthersStay, Ends, UpdateInv, Reading, Critical
    <2>3. home' = home /\ lock' = lock /\ TypeOK /\ Roles
      BY <1>4, ProveDoes DEF UpdateInv
    <2>4. \A q \in Process : Critical(q) => Reading(q)
      BY DEF Reading
    <2>5. \A q \in Process : Critical(q)' => Reading(q)'
      BY DEF Reading
    <2> QED
      BY <2>1, <2>2, <2>3, <2>4, <2>5
      DEF UpdateInv, Below, CriticalIsCurrent, InPlace, Late, Current
  <1>5. ASSUME NEW p \in Process, Reread(p) PROVE CriticalIsCurrent'
    BY <1>5, RereadDoes, OpTyped, StateTyped, OneMain
    DEF OthersStay, Ends, UpdateInv, CriticalIsCurrent, ReadersAreBelow, OneCritical,
        Withdrawable, InPlace, Late, Below, Reading, Critical, Exists, MainFinds, Roles, Role,
        Current
  <1>6. ASSUME NEW p \in Process, Write(p) PROVE CriticalIsCurrent'
    BY <1>6, WriteDoes, OpTyped, StateTyped, OneMain
    DEF OthersStay, Ends, UpdateInv, CriticalIsCurrent, ReadersAreBelow, OneCritical,
        Withdrawable, InPlace, Late, Below, Reading, Critical, Exists, MainFinds, Roles, Role,
        Current
  <1>7. ASSUME NEW p \in Process, HookRead(p) PROVE CriticalIsCurrent'
    BY <1>7, HookReadDoes, OpTyped, StateTyped, OneMain
    DEF OthersStay, Ends, UpdateInv, CriticalIsCurrent, ReadersAreBelow, OneCritical,
        Withdrawable, InPlace, Late, Below, Reading, Critical, Exists, MainFinds, Roles, Role,
        Current
  <1>8. ASSUME NEW p \in Process, Compare(p) PROVE CriticalIsCurrent'
    <2>1. CASE Critical(p)'
      BY ZenonT(60), <1>8, <2>1, CompareDoes, CompareLeads
      DEF OthersStay, UpdateInv, CriticalIsCurrent, InPlace, Current, Reading
    <2>2. CASE ~Critical(p)'
      <3>1. \A q \in Process : Critical(q)' => Critical(q) /\ op'[q] = op[q]
        BY <1>8, <2>2, CompareLeads DEF Reading
      <3>2. home' = home /\ lock' = lock
        BY <1>8, <2>2, CompareDoes, CompareLeads DEF UpdateInv
      <3> QED
        BY <1>8, <3>1, <3>2, CompareLeads
        DEF UpdateInv, CriticalIsCurrent, InPlace, Late, Current
    <2> QED
      BY <2>1, <2>2
  <1>9. ASSUME NEW p \in Process, AppendEvent(p) PROVE CriticalIsCurrent'
    <2>1. Withdrawable' => Withdrawable
      BY <1>9, AppendEventDoes, OneMain
      DEF OthersStay, Ends, UpdateInv, Withdrawable, Roles, Role
    <2>2. \A q \in Process : /\ Reading(q)' => Reading(q) /\ op'[q] = op[q]
                             /\ Critical(q)' <=> Critical(q)
      BY <1>9, AppendEventDoes DEF OthersStay, Ends, UpdateInv, Reading, Critical
    <2>3. home' = home /\ lock' = lock /\ TypeOK /\ Roles
      BY <1>9, AppendEventDoes DEF UpdateInv
    <2>4. \A q \in Process : Critical(q) => Reading(q)
      BY DEF Reading
    <2>5. \A q \in Process : Critical(q)' => Reading(q)'
      BY DEF Reading
    <2> QED
      BY <2>1, <2>2, <2>3, <2>4, <2>5
      DEF UpdateInv, Below, CriticalIsCurrent, InPlace, Late, Current
  <1>10. ASSUME NEW p \in Process, Commit(p) PROVE CriticalIsCurrent'
    BY <1>10, CommitLeads DEF CriticalIsCurrent
  <1>11. ASSUME NEW p \in Process, Move(p) PROVE CriticalIsCurrent'
    <2> SUFFICES ASSUME NEW q \in Process, Critical(q) PROVE (InPlace(q) \/ Late(q))'
      BY <1>11, MoveLeads DEF CriticalIsCurrent
    <2>1. op'[q] = op[q] /\ lock["changes"] = q /\ Current = op[q].own /\ Current # NoState
      BY <1>11, MoveLeads DEF InPlace
    <2>2. CASE Current' # NoState
      BY <1>11, <2>1, <2>2, MoveLeads DEF InPlace, Current
    <2>3. CASE Current' = NoState
      <3>1. \A r \in Process : Reading(r)' => Below(op'[r].own, op'[q].own)
        BY <1>11, <2>1, MoveLeads DEF UpdateInv, ReadersAreBelow
      <3> QED
        BY <1>11, <2>1, <2>3, <3>1, MoveLeads DEF Late, Below, Current
    <2> QED
      BY <2>2, <2>3
  <1>12. ASSUME NEW p \in Process, Verify(p) PROVE CriticalIsCurrent'
    BY <1>12, VerifyDoes, OpTyped, StateTyped, OneMain
    DEF OthersStay, Ends, UpdateInv, CriticalIsCurrent, ReadersAreBelow, OneCritical,
        Withdrawable, InPlace, Late, Below, Reading, Critical, Exists, MainFinds, Roles, Role,
        Current
  <1>13. ASSUME NEW p \in Process, Report(p) PROVE CriticalIsCurrent'
    BY <1>13, ReportDoes, OpTyped, StateTyped, OneMain
    DEF OthersStay, Ends, UpdateInv, CriticalIsCurrent, ReadersAreBelow, OneCritical,
        Withdrawable, InPlace, Late, Below, Reading, Critical, Exists, MainFinds, Roles, Role,
        Current
  <1>14. ASSUME NEW p \in Process, UndoMove(p) PROVE CriticalIsCurrent'
    <2>1. CASE home' = home /\ present' = present /\ lock' = lock
      BY <1>14, <2>1, UndoMoveLeads DEF UpdateInv, CriticalIsCurrent, InPlace, Late, Current
    <2>2. CASE /\ Withdrawable /\ Current = NoState /\ home["archive"] # NoState
               /\ Current' = home["archive"] /\ lock'["changes"] = lock["archive"]
      BY <1>14, <2>2, UndoMoveLeads, OpTyped, StateTyped
      DEF UpdateInv, CriticalIsCurrent, InPlace, Late
    <2> QED
      BY <1>14, <2>1, <2>2, UndoMoveLeads
  <1>15. ASSUME NEW p \in Process, UndoState(p) PROVE CriticalIsCurrent'
    BY <1>15, UndoStateDoes, OpTyped, StateTyped, OneMain
    DEF OthersStay, Ends, UpdateInv, CriticalIsCurrent, ReadersAreBelow, OneCritical,
        Withdrawable, InPlace, Late, Below, Reading, Critical, Exists, MainFinds, Roles, Role,
        Current
  <1>16. ASSUME NEW p \in Process, Crash(p) PROVE CriticalIsCurrent'
    BY <1>16, CrashDoes, OpTyped, StateTyped, OneMain
    DEF OthersStay, Ends, UpdateInv, CriticalIsCurrent, ReadersAreBelow, OneCritical,
        Withdrawable, InPlace, Late, Below, Reading, Critical, Exists, MainFinds, Roles, Role,
        Current
  <1>17. CASE UNCHANGED vars
    BY <1>17
    DEF vars, files, material, UpdateInv, CriticalIsCurrent, ReadersAreBelow, OneCritical,
        Withdrawable, InPlace, Late, Below, Reading, Critical, Exists, MainFinds, Roles, Role,
        Current
  <1>18. QED
    BY <1>1, <1>2, <1>3, <1>4, <1>5, <1>6, <1>7, <1>8, <1>9, <1>10, <1>11, <1>12, <1>13, <1>14,
       <1>15, <1>16, <1>17
    DEF Next

LEMMA BelowStep == UpdateInv /\ [Next]_vars => ReadersAreBelow'
  <1> SUFFICES ASSUME UpdateInv, [Next]_vars PROVE ReadersAreBelow'
    OBVIOUS
  <1>1. ASSUME NEW p \in Process, Begin(p) PROVE ReadersAreBelow'
    BY <1>1, BeginDoes, OpTyped, StateTyped, OneMain
    DEF OthersStay, Ends, UpdateInv, ReadersAreBelow, Withdrawable, CriticalIsCurrent, InPlace,
        Late, Below, Reading, Critical, Exists, MainFinds, Roles, Role, Current
  <1>2. ASSUME NEW p \in Process, Read(p) PROVE ReadersAreBelow'
    BY <1>2, ReadDoes, OpTyped, StateTyped, OneMain
    DEF OthersStay, Ends, UpdateInv, ReadersAreBelow, Withdrawable, CriticalIsCurrent, InPlace,
        Late, Below, Reading, Critical, Exists, MainFinds, Roles, Role, Current, AfterRead
  <1>3. ASSUME NEW p \in Process, Seal(p) PROVE ReadersAreBelow'
    BY <1>3, SealDoes, OpTyped, StateTyped, OneMain
    DEF OthersStay, Ends, UpdateInv, ReadersAreBelow, Withdrawable, CriticalIsCurrent, InPlace,
        Late, Below, Reading, Critical, Exists, MainFinds, Roles, Role, Current
  <1>4. ASSUME NEW p \in Process, Prove(p) PROVE ReadersAreBelow'
    <2>1. Withdrawable' => Withdrawable
      BY <1>4, ProveDoes, OneMain DEF OthersStay, Ends, UpdateInv, Withdrawable, Roles, Role
    <2>2. \A q \in Process : /\ Reading(q)' => Reading(q) /\ op'[q] = op[q]
                             /\ Critical(q)' <=> Critical(q)
      BY <1>4, ProveDoes DEF OthersStay, Ends, UpdateInv, Reading, Critical
    <2>3. home' = home /\ lock' = lock /\ TypeOK /\ Roles
      BY <1>4, ProveDoes DEF UpdateInv
    <2>4. \A q \in Process : Critical(q) => Reading(q)
      BY DEF Reading
    <2>5. \A q \in Process : Critical(q)' => Reading(q)'
      BY DEF Reading
    <2> QED
      BY <2>1, <2>2, <2>3, <2>4, <2>5 DEF UpdateInv, Below, ReadersAreBelow, Current
  <1>5. ASSUME NEW p \in Process, Reread(p) PROVE ReadersAreBelow'
    BY <1>5, RereadDoes, OpTyped, StateTyped, OneMain
    DEF OthersStay, Ends, UpdateInv, ReadersAreBelow, Withdrawable, CriticalIsCurrent, InPlace,
        Late, Below, Reading, Critical, Exists, MainFinds, Roles, Role, Current
  <1>6. ASSUME NEW p \in Process, Write(p) PROVE ReadersAreBelow'
    BY <1>6, WriteDoes, OpTyped, StateTyped, OneMain
    DEF OthersStay, Ends, UpdateInv, ReadersAreBelow, Withdrawable, CriticalIsCurrent, InPlace,
        Late, Below, Reading, Critical, Exists, MainFinds, Roles, Role, Current
  <1>7. ASSUME NEW p \in Process, HookRead(p) PROVE ReadersAreBelow'
    BY <1>7, HookReadDoes, OpTyped, StateTyped, OneMain
    DEF OthersStay, Ends, UpdateInv, ReadersAreBelow, Withdrawable, CriticalIsCurrent, InPlace,
        Late, Below, Reading, Critical, Exists, MainFinds, Roles, Role, Current
  <1>8. ASSUME NEW p \in Process, Compare(p) PROVE ReadersAreBelow'
    BY <1>8, CompareDoes, CompareLeads DEF UpdateInv, ReadersAreBelow, Current
  <1>9. ASSUME NEW p \in Process, AppendEvent(p) PROVE ReadersAreBelow'
    <2>1. Withdrawable' => Withdrawable
      BY <1>9, AppendEventDoes, OneMain
      DEF OthersStay, Ends, UpdateInv, Withdrawable, Roles, Role
    <2>2. \A q \in Process : /\ Reading(q)' => Reading(q) /\ op'[q] = op[q]
                             /\ Critical(q)' <=> Critical(q)
      BY <1>9, AppendEventDoes DEF OthersStay, Ends, UpdateInv, Reading, Critical
    <2>3. home' = home /\ lock' = lock /\ TypeOK /\ Roles
      BY <1>9, AppendEventDoes DEF UpdateInv
    <2>4. \A q \in Process : Critical(q) => Reading(q)
      BY DEF Reading
    <2>5. \A q \in Process : Critical(q)' => Reading(q)'
      BY DEF Reading
    <2> QED
      BY <2>1, <2>2, <2>3, <2>4, <2>5 DEF UpdateInv, Below, ReadersAreBelow, Current
  <1>10. ASSUME NEW p \in Process, Commit(p) PROVE ReadersAreBelow'
    BY <1>10, CommitLeads DEF ReadersAreBelow, Below
  <1>11. ASSUME NEW p \in Process, Move(p) PROVE ReadersAreBelow'
    BY <1>11, MoveLeads DEF UpdateInv, ReadersAreBelow, Current
  <1>12. ASSUME NEW p \in Process, Verify(p) PROVE ReadersAreBelow'
    BY <1>12, VerifyDoes, OpTyped, StateTyped, OneMain
    DEF OthersStay, Ends, UpdateInv, ReadersAreBelow, Withdrawable, CriticalIsCurrent, InPlace,
        Late, Below, Reading, Critical, Exists, MainFinds, Roles, Role, Current
  <1>13. ASSUME NEW p \in Process, Report(p) PROVE ReadersAreBelow'
    BY <1>13, ReportDoes, OpTyped, StateTyped, OneMain
    DEF OthersStay, Ends, UpdateInv, ReadersAreBelow, Withdrawable, CriticalIsCurrent, InPlace,
        Late, Below, Reading, Critical, Exists, MainFinds, Roles, Role, Current
  <1>14. ASSUME NEW p \in Process, UndoMove(p) PROVE ReadersAreBelow'
    BY <1>14, UndoMoveLeads DEF UpdateInv, ReadersAreBelow, Current
  <1>15. ASSUME NEW p \in Process, UndoState(p) PROVE ReadersAreBelow'
    BY <1>15, UndoStateDoes, OpTyped, StateTyped, OneMain
    DEF OthersStay, Ends, UpdateInv, ReadersAreBelow, Withdrawable, CriticalIsCurrent, InPlace,
        Late, Below, Reading, Critical, Exists, MainFinds, Roles, Role, Current
  <1>16. ASSUME NEW p \in Process, Crash(p) PROVE ReadersAreBelow'
    BY <1>16, CrashDoes, OpTyped, StateTyped, OneMain
    DEF OthersStay, Ends, UpdateInv, ReadersAreBelow, Withdrawable, CriticalIsCurrent, InPlace,
        Late, Below, Reading, Critical, Exists, MainFinds, Roles, Role, Current
  <1>17. CASE UNCHANGED vars
    BY <1>17
    DEF vars, files, material, UpdateInv, ReadersAreBelow, Withdrawable, CriticalIsCurrent,
        InPlace, Late, Below, Reading, Critical, Exists, MainFinds, Roles, Role, Current
  <1>18. QED
    BY <1>1, <1>2, <1>3, <1>4, <1>5, <1>6, <1>7, <1>8, <1>9, <1>10, <1>11, <1>12, <1>13, <1>14,
       <1>15, <1>16, <1>17
    DEF Next

LEMMA FindsStep == UpdateInv /\ [Next]_vars => MainFinds'
  <1> SUFFICES ASSUME UpdateInv, [Next]_vars PROVE MainFinds'
    OBVIOUS
  <1>1. ASSUME NEW p \in Process, Begin(p) PROVE MainFinds'
    BY <1>1, BeginDoes, OpTyped, OneMain
    DEF OthersStay, Ends, UpdateInv, MainFinds, Reading, Critical, Roles, Role, Exists, Current
  <1>2. ASSUME NEW p \in Process, Read(p) PROVE MainFinds'
    BY <1>2, ReadDoes, OpTyped, OneMain
    DEF OthersStay, Ends, UpdateInv, MainFinds, Reading, Critical, Roles, Role, Exists,
        Current, AfterRead
  <1>3. ASSUME NEW p \in Process, Seal(p) PROVE MainFinds'
    BY <1>3, SealDoes, OpTyped, OneMain
    DEF OthersStay, Ends, UpdateInv, MainFinds, Reading, Critical, Roles, Role, Exists,
        Current, Command
  <1>4. ASSUME NEW p \in Process, Prove(p) PROVE MainFinds'
    BY <1>4, ProveDoes, OpTyped, OneMain
    DEF OthersStay, Ends, UpdateInv, MainFinds, Reading, Critical, Roles, Role, Exists,
        Current, Command
  <1>5. ASSUME NEW p \in Process, Reread(p) PROVE MainFinds'
    BY <1>5, RereadDoes, OpTyped, OneMain
    DEF OthersStay, Ends, UpdateInv, MainFinds, Reading, Critical, Roles, Role, Exists,
        Current, MayMove
  <1>6. ASSUME NEW p \in Process, Write(p) PROVE MainFinds'
    BY <1>6, WriteDoes, OpTyped, OneMain
    DEF OthersStay, Ends, UpdateInv, MainFinds, Reading, Critical, Roles, Role, Exists, Current
  <1>7. ASSUME NEW p \in Process, HookRead(p) PROVE MainFinds'
    BY <1>7, HookReadDoes, OpTyped, OneMain
    DEF OthersStay, Ends, UpdateInv, MainFinds, Reading, Critical, Roles, Role, Exists, Current
  <1>8. ASSUME NEW p \in Process, Compare(p) PROVE MainFinds'
    BY <1>8, CompareDoes, OneMain
    DEF OthersStay, Ends, UpdateInv, MainFinds, Reading, Critical, Current
  <1>9. ASSUME NEW p \in Process, AppendEvent(p) PROVE MainFinds'
    BY <1>9, AppendEventDoes, OpTyped, OneMain
    DEF OthersStay, Ends, UpdateInv, MainFinds, Reading, Critical, Roles, Role, Exists, Current
  <1>10. ASSUME NEW p \in Process, Commit(p) PROVE MainFinds'
    <2>1. Current' # NoState
      BY <1>10, CommitLeads
    <2> QED
      BY <1>10, <2>1, CommitDoes, CommitLeads, OneMain
      DEF OthersStay, Ends, UpdateInv, MainFinds, Roles, Role
  <1>11. ASSUME NEW p \in Process, Move(p) PROVE MainFinds'
    <2>1. pc'[p] \in {"verify", "report", "undoMove", "undoState"} /\ Current # NoState
      BY <1>11, MoveDoes, MoveLeads DEF UpdateInv
    <2>2. /\ pc'[p] = "verify" => home'["archive"] # NoState
          /\ pc'[p] = "undoMove" => Current' # NoState
      <3>1. /\ pc'[p] = "verify" => home'["archive"] = Current
            /\ pc'[p] = "undoMove" => home' = home
        BY <1>11, MoveDoes DEF UpdateInv
      <3> QED
        BY <2>1, <3>1 DEF Current
    <2> QED
      BY <1>11, <2>1, <2>2, MoveLeads DEF MainFinds, Reading, Critical
  <1>12. ASSUME NEW p \in Process, Verify(p) PROVE MainFinds'
    BY <1>12, VerifyDoes, OpTyped, OneMain
    DEF OthersStay, Ends, UpdateInv, MainFinds, Reading, Critical, Roles, Role, Exists, Current
  <1>13. ASSUME NEW p \in Process, Report(p) PROVE MainFinds'
    BY <1>13, ReportDoes, OpTyped, OneMain
    DEF OthersStay, Ends, UpdateInv, MainFinds, Reading, Critical, Roles, Role, Exists, Current
  <1>14. ASSUME NEW p \in Process, UndoMove(p) PROVE MainFinds'
    <2>1. pc'[p] \in {"undoState", "idle"} /\ \A m \in Main : m = p
      BY <1>14, UndoMoveDoes, UndoMoveLeads DEF UpdateInv, Ends
    <2> QED
      BY <2>1 DEF MainFinds, Reading, Critical
  <1>15. ASSUME NEW p \in Process, UndoState(p) PROVE MainFinds'
    BY <1>15, UndoStateDoes, OpTyped, OneMain
    DEF OthersStay, Ends, UpdateInv, MainFinds, Reading, Critical, Roles, Role, Exists,
        Current, Command
  <1>16. ASSUME NEW p \in Process, Crash(p) PROVE MainFinds'
    BY <1>16, CrashDoes, OpTyped, OneMain
    DEF OthersStay, Ends, UpdateInv, MainFinds, Reading, Critical, Roles, Role, Exists, Current
  <1>17. CASE UNCHANGED vars
    BY <1>17
    DEF vars, files, material, UpdateInv, MainFinds, Reading, Critical, Roles, Role, Exists,
        Current
  <1>18. QED
    BY <1>1, <1>2, <1>3, <1>4, <1>5, <1>6, <1>7, <1>8, <1>9, <1>10, <1>11, <1>12, <1>13, <1>14,
       <1>15, <1>16, <1>17
    DEF Next

LEMMA ExistsStep == TypeOK /\ Roles /\ Exists /\ [Next]_vars => Exists'
  <1> SUFFICES ASSUME TypeOK /\ Roles /\ Exists, [Next]_vars PROVE Exists'
    OBVIOUS
  <1>1. ASSUME NEW p \in Process, Begin(p) PROVE Exists'
    BY <1>1, BeginDoes, OpTyped DEF OthersStay, Ends, Exists, Current
  <1>2. ASSUME NEW p \in Process, Read(p) PROVE Exists'
    BY <1>2, ReadDoes, OpTyped DEF OthersStay, Ends, Exists, Current
  <1>3. ASSUME NEW p \in Process, Seal(p) PROVE Exists'
    BY <1>3, SealDoes, OpTyped DEF OthersStay, Ends, Exists, Current
  <1>4. ASSUME NEW p \in Process, Prove(p) PROVE Exists'
    BY <1>4, ProveDoes, OpTyped DEF OthersStay, Ends, Exists, Current
  <1>5. ASSUME NEW p \in Process, Reread(p) PROVE Exists'
    BY <1>5, RereadDoes, OpTyped DEF OthersStay, Ends, Exists, Current
  <1>6. ASSUME NEW p \in Process, Write(p) PROVE Exists'
    BY <1>6, WriteDoes, OpTyped DEF OthersStay, Ends, Exists, Current
  <1>7. ASSUME NEW p \in Process, HookRead(p) PROVE Exists'
    BY <1>7, HookReadDoes, OpTyped DEF OthersStay, Ends, Exists, Current
  <1>8. ASSUME NEW p \in Process, Compare(p) PROVE Exists'
    BY <1>8, CompareDoes, OpTyped DEF OthersStay, Ends, Exists, Current
  <1>9. ASSUME NEW p \in Process, AppendEvent(p) PROVE Exists'
    BY <1>9, AppendEventDoes, OpTyped DEF OthersStay, Ends, Exists, Current
  <1>10. ASSUME NEW p \in Process, Commit(p) PROVE Exists'
    BY <1>10, CommitDoes, OpTyped, StateTyped DEF OthersStay, Ends, Exists, Current
  <1>11. ASSUME NEW p \in Process, Move(p) PROVE Exists'
    BY <1>11, MoveDoes, OpTyped DEF OthersStay, Ends, Exists, Current
  <1>12. ASSUME NEW p \in Process, Verify(p) PROVE Exists'
    BY <1>12, VerifyDoes, OpTyped DEF OthersStay, Ends, Exists, Current
  <1>13. ASSUME NEW p \in Process, Report(p) PROVE Exists'
    BY <1>13, ReportDoes, OpTyped DEF OthersStay, Ends, Exists, Current
  <1>14. ASSUME NEW p \in Process, UndoMove(p) PROVE Exists'
    BY <1>14, UndoMoveDoes, OpTyped DEF OthersStay, Ends, Exists, Current
  <1>15. ASSUME NEW p \in Process, UndoState(p) PROVE Exists'
    BY <1>15, UndoStateDoes, OpTyped DEF OthersStay, Ends, Exists, Current
  <1>16. ASSUME NEW p \in Process, Crash(p) PROVE Exists'
    BY <1>16, CrashDoes, OpTyped DEF OthersStay, Ends, Exists, Current
  <1>17. CASE UNCHANGED vars
    BY <1>17 DEF vars, files, material, Exists, Current
  <1>18. QED
    BY <1>1, <1>2, <1>3, <1>4, <1>5, <1>6, <1>7, <1>8, <1>9, <1>10, <1>11, <1>12, <1>13, <1>14,
       <1>15, <1>16, <1>17
    DEF Next

(***************************************************************************)
(* What is reported stays.                                                 *)
(***************************************************************************)

\* A place stays settled under every step but the moves and main's commits of
\* another lifecycle.
LEMMA SettledStays ==
    ASSUME UpdateInv, NEW p \in Process, NEW d \in {"archive", "abandoned"}, Settled(d),
           \/ Begin(p) \/ Read(p) \/ Seal(p) \/ Prove(p) \/ Reread(p) \/ Write(p) \/ HookRead(p)
           \/ Compare(p) \/ AppendEvent(p) \/ Verify(p) \/ Report(p) \/ UndoState(p) \/ Crash(p)
           \/ Commit(p) /\ Command(p) \notin {"finalize", "abandon", "rollback"}
    PROVE  Settled(d)' /\ home'[d] = home[d]
  <1> USE DEF UpdateInv
  <1>1. CASE Commit(p) /\ Command(p) \notin {"finalize", "abandon", "rollback"}
    <2>1. Current'.lifecycle = op[p].own.lifecycle
      BY <1>1, CommitDoes, SuccessorFields DEF Roles
    <2>2. op[p].own.lifecycle = Final(d) /\ home'[d] = home[d]
      BY <1>1, CommitDoes DEF Settled, Critical
    <2> QED
      BY <1>1, <2>1, <2>2, CommitLeads DEF Settled
  <1>2. CASE Compare(p)
    BY <1>2, CompareDoes, CompareLeads DEF Settled, Current, Reading
  <1>3. ASSUME ~Compare(p), ~(Commit(p) /\
          Command(p) \notin {"finalize", "abandon", "rollback"})
        PROVE  Settled(d)' /\ home'[d] = home[d]
    <2>1. home' = home
      BY <1>3, BeginDoes, ReadDoes, SealDoes, ProveDoes, RereadDoes, WriteDoes, HookReadDoes,
         AppendEventDoes, VerifyDoes, ReportDoes, UndoStateDoes, CrashDoes
    <2>2. \A q \in Process : Critical(q)' => Critical(q) /\ op'[q] = op[q]
      <3>1. CASE Begin(p) \/ Read(p) \/ Seal(p) \/ Prove(p)
        BY <3>1, BeginDoes, ReadDoes, SealDoes, ProveDoes
        DEF OthersStay, Ends, Critical, AfterRead
      <3>2. CASE Reread(p) \/ Write(p) \/ HookRead(p) \/ AppendEvent(p)
        BY <3>2, RereadDoes, WriteDoes, HookReadDoes, AppendEventDoes
        DEF OthersStay, Ends, Critical
      <3>3. CASE Verify(p) \/ Report(p) \/ UndoState(p) \/ Crash(p)
        BY <3>3, VerifyDoes, ReportDoes, UndoStateDoes, CrashDoes
        DEF OthersStay, Ends, Critical
      <3> QED
        BY <1>3, <3>1, <3>2, <3>3
    <2> QED
      BY <2>1, <2>2 DEF Settled, Current
  <1> QED
    BY <1>1, <1>2, <1>3

\* The moves, for the places.
LEMMA MoveSettles ==
    ASSUME UpdateInv, MainLeavesFinal, NEW p \in Process, Move(p)
    PROVE  /\ Command(p) \in {"finalize", "abandon"} /\ pc[p] = "move"
           /\ Current.lifecycle = Final(Destination(Command(p)))
           /\ \/ home' = home /\ pc'[p] \in {"undoMove", "undoState"}
              \/ /\ home[Destination(Command(p))] = NoState
                 /\ Settled(Destination(Command(p)))'
                 /\ \A d \in {"archive", "abandoned"} \ {Destination(Command(p))} : home'[d] = home[d]
                 /\ pc'[p] = IF Command(p) = "finalize" THEN "verify" ELSE "report"
  <1> USE DEF UpdateInv
  <1>1. Command(p) \in {"finalize", "abandon"} /\ pc[p] = "move" /\ p \in Main
    BY MoveDoes DEF Roles, Role
  <1>2. Current.lifecycle = Final(Destination(Command(p)))
    BY <1>1 DEF MainLeavesFinal
  <1>3. \A q \in Process : Critical(q)' => op'[q].own = Current
    BY MoveLeads DEF InPlace
  <1>4. CASE home'[Destination(Command(p))] = Current /\ Current' = NoState
    <2>1. Settled(Destination(Command(p)))'
      BY <1>2, <1>3, <1>4, MoveLeads DEF Settled, Command
    <2>2. /\ home[Destination(Command(p))] = NoState
          /\ \A d \in {"archive", "abandoned"} \ {Destination(Command(p))} : home'[d] = home[d]
          /\ pc'[p] = IF Command(p) = "finalize" THEN "verify" ELSE "report"
      BY <1>1, <1>4, MoveDoes, MoveLeads DEF Destination, Current
    <2> QED
      BY <1>1, <1>2, <2>1, <2>2
  <1>5. CASE home' = home /\ pc'[p] \in {"undoMove", "undoState"}
    BY <1>1, <1>2, <1>5
  <1> QED
    BY <1>1, <1>4, <1>5, MoveDoes DEF Destination

\* Other processes change nothing of what main leaves.
LEMMA OthersLeave ==
    ASSUME UpdateInv, MainLeavesFinal, NEW p \in Process, p \notin Main,
           \/ Begin(p) \/ Read(p) \/ Seal(p) \/ Prove(p) \/ Reread(p) \/ Write(p) \/ HookRead(p)
           \/ Compare(p) \/ AppendEvent(p) \/ Commit(p) \/ Verify(p) \/ Report(p) \/
                UndoState(p)
           \/ Crash(p)
    PROVE  MainLeavesFinal'
  <1> USE DEF UpdateInv
  <1> SUFFICES ASSUME NEW m \in Main
      PROVE /\ pc'[m] = "move" => Current'.lifecycle = Final(Destination(Command(m)'))
            /\ pc'[m] = "verify" => Settled("archive")'
            /\ pc'[m] = "report" => Settled(Destination(Command(m)))'
      BY DEF MainLeavesFinal
  <1>1. m \in Process /\ pc'[m] = pc[m] /\ op'[m] = op[m]
    <2>1. OthersStay(p)
      BY BeginDoes, ReadDoes, SealDoes, ProveDoes, RereadDoes, WriteDoes, HookReadDoes,
         CompareDoes,
         AppendEventDoes, CommitDoes, VerifyDoes, ReportDoes, UndoStateDoes, CrashDoes
    <2> QED
      BY <2>1, OneMain DEF OthersStay
  <1>2. Commit(p) => Command(p) \notin {"finalize", "abandon", "rollback"}
    BY CommitDoes DEF Roles, Role, Critical, CommandsOf
  <1>3. ASSUME pc[m] = "move" PROVE Current'.lifecycle = Current.lifecycle
    <2>1. CASE Commit(p)
      <3>1. Current'.lifecycle = op[p].own.lifecycle
        BY <1>2, <2>1, CommitDoes, SuccessorFields DEF Roles
      <3>2. Current = op[p].own
        BY <1>3, <2>1, CommitLeads DEF MainFinds
      <3> QED
        BY <3>1, <3>2
    <2>2. CASE ~Commit(p)
      BY <2>2, BeginDoes, ReadDoes, SealDoes, ProveDoes, RereadDoes, WriteDoes, HookReadDoes,
         CompareDoes, AppendEventDoes, VerifyDoes, ReportDoes, UndoStateDoes, CrashDoes DEF Current
    <2> QED
      BY <2>1, <2>2
  <1>4. ASSUME NEW d \in {"archive", "abandoned"}, Settled(d) PROVE Settled(d)'
    BY <1>2, <1>4, SettledStays
  <1>5. Command(m)' = Command(m) /\ Destination(Command(m)) \in {"archive", "abandoned"}
    BY <1>1 DEF Command, Destination
  <1>6. pc'[m] = "verify" => Settled("archive")'
    BY <1>1, <1>4 DEF MainLeavesFinal
  <1>7. pc'[m] = "report" => Settled(Destination(Command(m)))'
    <2> DEFINE d == Destination(Command(m))
    <2>1. pc'[m] = "report" => Settled(d) /\ Settled(d)'
      BY <1>1, <1>4, <1>5 DEF MainLeavesFinal
    <2> QED
      BY <1>1, <2>1 DEF Command
  <1> QED
    BY <1>1, <1>3, <1>5, <1>6, <1>7 DEF MainLeavesFinal

LEMMA AbandonedStep == UpdateInv /\ PlacesAreFinal /\ [Next]_vars => AbandonedIsFinal'
  <1> SUFFICES ASSUME UpdateInv /\ PlacesAreFinal, [Next]_vars PROVE AbandonedIsFinal'
    OBVIOUS
  <1>1. ASSUME NEW p \in Process, Begin(p) PROVE AbandonedIsFinal'
    <2>1. home["abandoned"] # NoState => Settled("abandoned") /\ Settled("abandoned")'
      BY <1>1, SettledStays DEF UpdateInv, PlacesAreFinal, AbandonedIsFinal
    <2>2. home["abandoned"] # NoState /\ p \in Main =>
            (Harmless(p)' \/ (Command(p)' = "abandon" /\ pc'[p] \in {"reread", "report"}))
      BY <1>1, <2>1, BeginDoes
      DEF Ends, UpdateInv, PlacesAreFinal, AbandonedIsFinal, Harmless, Command, CommandsOf
    <2>3. home["abandoned"] # NoState =>
            \A m \in Main : (Harmless(m)' \/ (Command(m)' = "abandon" /\
              pc'[m] \in {"reread", "report"}))
      BY <1>1, <2>2, BeginDoes, OneMain
      DEF OthersStay, UpdateInv, PlacesAreFinal, AbandonedIsFinal, Harmless, Command
    <2> QED
      BY <1>1, <2>1, <2>3, BeginDoes DEF UpdateInv, PlacesAreFinal, AbandonedIsFinal, Command
  <1>2. ASSUME NEW p \in Process, Read(p) PROVE AbandonedIsFinal'
    <2>1. home["abandoned"] # NoState => Settled("abandoned") /\ Settled("abandoned")'
      BY <1>2, SettledStays DEF UpdateInv, PlacesAreFinal, AbandonedIsFinal
    <2>2. home["abandoned"] # NoState /\ p \in Main =>
            (Harmless(p)' \/ (Command(p)' = "abandon" /\ pc'[p] \in {"reread", "report"}))
      <3>1. \/ Ends(p)
            \/ /\ pc'[p] = AfterRead(Command(p)) /\ Command(p)' = Command(p)
               /\ Current # NoState /\ Accepts(Command(p), Current)
        BY <1>2, ReadDoes DEF UpdateInv
      <3>2. home["abandoned"] # NoState /\ Current # NoState =>
              Current.lifecycle = Final("abandoned")
        BY <2>1 DEF Settled
      <3>3. p \in Main => Command(p) \in {"validate", "archive", "finalize", "abandon"}
        BY <1>2, ReadDoes DEF UpdateInv, Roles, Role, CommandsOf
      <3> QED
        BY <3>1, <3>2, <3>3 DEF Ends, Harmless, Command, AfterRead, Accepts, Final
    <2>3. home["abandoned"] # NoState =>
            \A m \in Main : (Harmless(m)' \/ (Command(m)' = "abandon" /\
              pc'[m] \in {"reread", "report"}))
      BY <1>2, <2>2, ReadDoes, OneMain
      DEF OthersStay, UpdateInv, PlacesAreFinal, AbandonedIsFinal, Harmless, Command
    <2> QED
      BY <1>2, <2>1, <2>3, ReadDoes DEF UpdateInv, PlacesAreFinal, AbandonedIsFinal, Command
  <1>3. ASSUME NEW p \in Process, Seal(p) PROVE AbandonedIsFinal'
    <2>1. home["abandoned"] # NoState => Settled("abandoned") /\ Settled("abandoned")'
      BY <1>3, SettledStays DEF UpdateInv, PlacesAreFinal, AbandonedIsFinal
    <2>2. home["abandoned"] # NoState /\ p \in Main =>
            (Harmless(p)' \/ (Command(p)' = "abandon" /\ pc'[p] \in {"reread", "report"}))
      BY <1>3, <2>1, SealDoes
      DEF Ends, UpdateInv, PlacesAreFinal, AbandonedIsFinal, Harmless, Command, Roles, Role
    <2>3. home["abandoned"] # NoState =>
            \A m \in Main : (Harmless(m)' \/ (Command(m)' = "abandon" /\
              pc'[m] \in {"reread", "report"}))
      BY <1>3, <2>2, SealDoes, OneMain
      DEF OthersStay, UpdateInv, PlacesAreFinal, AbandonedIsFinal, Harmless, Command
    <2> QED
      BY <1>3, <2>1, <2>3, SealDoes DEF UpdateInv, PlacesAreFinal, AbandonedIsFinal, Command
  <1>4. ASSUME NEW p \in Process, Prove(p) PROVE AbandonedIsFinal'
    <2>1. home["abandoned"] # NoState => Settled("abandoned") /\ Settled("abandoned")'
      BY <1>4, SettledStays DEF UpdateInv, PlacesAreFinal, AbandonedIsFinal
    <2>2. home["abandoned"] # NoState /\ p \in Main =>
            (Harmless(p)' \/ (Command(p)' = "abandon" /\ pc'[p] \in {"reread", "report"}))
      BY <1>4, <2>1, ProveDoes
      DEF Ends, UpdateInv, PlacesAreFinal, AbandonedIsFinal, Harmless, Command, Roles, Role
    <2>3. home["abandoned"] # NoState =>
            \A m \in Main : (Harmless(m)' \/ (Command(m)' = "abandon" /\
              pc'[m] \in {"reread", "report"}))
      BY ZenonT(60), <1>4, <2>2, ProveDoes, OneMain
      DEF OthersStay, UpdateInv, PlacesAreFinal, AbandonedIsFinal, Harmless, Command
    <2> QED
      BY <1>4, <2>1, <2>3, ProveDoes DEF UpdateInv, PlacesAreFinal, AbandonedIsFinal, Command
  <1>5. ASSUME NEW p \in Process, Reread(p) PROVE AbandonedIsFinal'
    <2>1. home["abandoned"] # NoState => Settled("abandoned") /\ Settled("abandoned")'
      BY <1>5, SettledStays DEF UpdateInv, PlacesAreFinal, AbandonedIsFinal
    <2>2. home["abandoned"] # NoState /\ p \in Main =>
            (Harmless(p)' \/ (Command(p)' = "abandon" /\ pc'[p] \in {"reread", "report"}))
      BY <1>5, <2>1, RereadDoes
      DEF Ends, UpdateInv, PlacesAreFinal, AbandonedIsFinal, Harmless, Command, MayMove,
          Destination, Roles, Role
    <2>3. home["abandoned"] # NoState =>
            \A m \in Main : (Harmless(m)' \/ (Command(m)' = "abandon" /\
              pc'[m] \in {"reread", "report"}))
      BY <1>5, <2>2, RereadDoes, OneMain
      DEF OthersStay, UpdateInv, PlacesAreFinal, AbandonedIsFinal, Harmless, Command
    <2> QED
      BY <1>5, <2>1, <2>3, RereadDoes DEF UpdateInv, PlacesAreFinal, AbandonedIsFinal, Command
  <1>6. ASSUME NEW p \in Process, Write(p) PROVE AbandonedIsFinal'
    <2>1. home["abandoned"] # NoState => Settled("abandoned") /\ Settled("abandoned")'
      BY <1>6, SettledStays DEF UpdateInv, PlacesAreFinal, AbandonedIsFinal
    <2>2. home["abandoned"] # NoState /\ p \in Main =>
            (Harmless(p)' \/ (Command(p)' = "abandon" /\ pc'[p] \in {"reread", "report"}))
      BY <1>6, <2>1, WriteDoes
      DEF Ends, UpdateInv, PlacesAreFinal, AbandonedIsFinal, Harmless, Command
    <2>3. home["abandoned"] # NoState =>
            \A m \in Main : (Harmless(m)' \/ (Command(m)' = "abandon" /\
              pc'[m] \in {"reread", "report"}))
      BY <1>6, <2>2, WriteDoes, OneMain
      DEF OthersStay, UpdateInv, PlacesAreFinal, AbandonedIsFinal, Harmless, Command
    <2> QED
      BY <1>6, <2>1, <2>3, WriteDoes DEF UpdateInv, PlacesAreFinal, AbandonedIsFinal, Command
  <1>7. ASSUME NEW p \in Process, HookRead(p) PROVE AbandonedIsFinal'
    <2>1. home["abandoned"] # NoState => Settled("abandoned") /\ Settled("abandoned")'
      BY <1>7, SettledStays DEF UpdateInv, PlacesAreFinal, AbandonedIsFinal
    <2>2. home["abandoned"] # NoState /\ p \in Main =>
            (Harmless(p)' \/ (Command(p)' = "abandon" /\ pc'[p] \in {"reread", "report"}))
      BY <1>7, <2>1, HookReadDoes
      DEF Ends, UpdateInv, PlacesAreFinal, AbandonedIsFinal, Harmless, Command
    <2>3. home["abandoned"] # NoState =>
            \A m \in Main : (Harmless(m)' \/ (Command(m)' = "abandon" /\
              pc'[m] \in {"reread", "report"}))
      BY <1>7, <2>2, HookReadDoes, OneMain
      DEF OthersStay, UpdateInv, PlacesAreFinal, AbandonedIsFinal, Harmless, Command
    <2> QED
      BY <1>7, <2>1, <2>3, HookReadDoes DEF UpdateInv, PlacesAreFinal, AbandonedIsFinal, Command
  <1>8. ASSUME NEW p \in Process, Compare(p) PROVE AbandonedIsFinal'
    <2>1. home["abandoned"] # NoState => Settled("abandoned") /\ Settled("abandoned")'
      BY <1>8, SettledStays DEF UpdateInv, PlacesAreFinal, AbandonedIsFinal
    <2>2. home["abandoned"] # NoState /\ p \in Main =>
            (Harmless(p)' \/ (Command(p)' = "abandon" /\ pc'[p] \in {"reread", "report"}))
      BY <1>8, <2>1, CompareDoes
      DEF Ends, UpdateInv, PlacesAreFinal, AbandonedIsFinal, Harmless, Command
    <2>3. home["abandoned"] # NoState =>
            \A m \in Main : (Harmless(m)' \/ (Command(m)' = "abandon" /\
              pc'[m] \in {"reread", "report"}))
      BY ZenonT(60), <1>8, <2>2, CompareDoes, OneMain
      DEF OthersStay, UpdateInv, PlacesAreFinal, AbandonedIsFinal, Harmless, Command
    <2> QED
      BY <1>8, <2>1, <2>3, CompareDoes DEF UpdateInv, PlacesAreFinal, AbandonedIsFinal, Command
  <1>9. ASSUME NEW p \in Process, AppendEvent(p) PROVE AbandonedIsFinal'
    <2>1. home["abandoned"] # NoState => Settled("abandoned") /\ Settled("abandoned")'
      BY <1>9, SettledStays DEF UpdateInv, PlacesAreFinal, AbandonedIsFinal
    <2>2. home["abandoned"] # NoState /\ p \in Main =>
            (Harmless(p)' \/ (Command(p)' = "abandon" /\ pc'[p] \in {"reread", "report"}))
      BY <1>9, <2>1, AppendEventDoes
      DEF Ends, UpdateInv, PlacesAreFinal, AbandonedIsFinal, Harmless, Command
    <2>3. home["abandoned"] # NoState =>
            \A m \in Main : (Harmless(m)' \/ (Command(m)' = "abandon" /\
              pc'[m] \in {"reread", "report"}))
      BY ZenonT(60), <1>9, <2>2, AppendEventDoes, OneMain
      DEF OthersStay, UpdateInv, PlacesAreFinal, AbandonedIsFinal, Harmless, Command
    <2> QED
      BY <1>9, <2>1, <2>3, AppendEventDoes
      DEF UpdateInv, PlacesAreFinal, AbandonedIsFinal, Command
  <1>10. ASSUME NEW p \in Process, Commit(p) PROVE AbandonedIsFinal'
    <2>0. home["abandoned"] # NoState => Command(p) \notin {"finalize", "abandon", "rollback"}
      BY <1>10, CommitDoes
      DEF UpdateInv, PlacesAreFinal, AbandonedIsFinal, Harmless, Roles, Role, Critical,
          CommandsOf
    <2>1. home["abandoned"] # NoState => Settled("abandoned") /\ Settled("abandoned")'
      BY <1>10, <2>0, SettledStays DEF UpdateInv, PlacesAreFinal, AbandonedIsFinal
    <2>2. home["abandoned"] # NoState /\ p \in Main =>
            (Harmless(p)' \/ (Command(p)' = "abandon" /\ pc'[p] \in {"reread", "report"}))
      BY <1>10, <2>1, CommitDoes
      DEF Ends, UpdateInv, PlacesAreFinal, AbandonedIsFinal, Harmless, Command
    <2>4. OthersStay(p)
      BY <1>10, CommitDoes DEF UpdateInv
    <2>3. home["abandoned"] # NoState =>
            \A m \in Main : (Harmless(m)' \/ (Command(m)' = "abandon" /\
              pc'[m] \in {"reread", "report"}))
      BY <2>2, <2>4, OneMain
      DEF OthersStay, UpdateInv, PlacesAreFinal, AbandonedIsFinal, Harmless, Command
    <2> QED
      BY <1>10, <2>1, <2>3, CommitDoes DEF UpdateInv, PlacesAreFinal, AbandonedIsFinal, Command
  <1>11. ASSUME NEW p \in Process, Move(p) PROVE AbandonedIsFinal'
    BY <1>11, MoveDoes, MoveSettles, MoveLeads
    DEF UpdateInv, PlacesAreFinal, AbandonedIsFinal, Harmless, Command, Destination
  <1>12. ASSUME NEW p \in Process, Verify(p) PROVE AbandonedIsFinal'
    <2>1. home["abandoned"] # NoState => Settled("abandoned") /\ Settled("abandoned")'
      BY <1>12, SettledStays DEF UpdateInv, PlacesAreFinal, AbandonedIsFinal
    <2>2. home["abandoned"] # NoState /\ p \in Main =>
            (Harmless(p)' \/ (Command(p)' = "abandon" /\ pc'[p] \in {"reread", "report"}))
      BY <1>12, <2>1, VerifyDoes
      DEF Ends, UpdateInv, PlacesAreFinal, AbandonedIsFinal, Harmless, Command, Roles, Role
    <2>3. home["abandoned"] # NoState =>
            \A m \in Main : (Harmless(m)' \/ (Command(m)' = "abandon" /\
              pc'[m] \in {"reread", "report"}))
      BY <1>12, <2>2, VerifyDoes, OneMain
      DEF OthersStay, UpdateInv, PlacesAreFinal, AbandonedIsFinal, Harmless, Command
    <2> QED
      BY <1>12, <2>1, <2>3, VerifyDoes DEF UpdateInv, PlacesAreFinal, AbandonedIsFinal, Command
  <1>13. ASSUME NEW p \in Process, Report(p) PROVE AbandonedIsFinal'
    <2>1. home["abandoned"] # NoState => Settled("abandoned") /\ Settled("abandoned")'
      BY <1>13, SettledStays DEF UpdateInv, PlacesAreFinal, AbandonedIsFinal
    <2>2. home["abandoned"] # NoState /\ p \in Main =>
            (Harmless(p)' \/ (Command(p)' = "abandon" /\ pc'[p] \in {"reread", "report"}))
      BY <1>13, <2>1, ReportDoes
      DEF Ends, UpdateInv, PlacesAreFinal, AbandonedIsFinal, Harmless, Command
    <2>3. home["abandoned"] # NoState =>
            \A m \in Main : (Harmless(m)' \/ (Command(m)' = "abandon" /\
              pc'[m] \in {"reread", "report"}))
      BY <1>13, <2>2, ReportDoes, OneMain
      DEF OthersStay, UpdateInv, PlacesAreFinal, AbandonedIsFinal, Harmless, Command
    <2> QED
      BY <1>13, <2>1, <2>3, ReportDoes
      DEF UpdateInv, PlacesAreFinal, AbandonedIsFinal, Command, Destination, Roles, Role
  <1>14. ASSUME NEW p \in Process, UndoMove(p) PROVE AbandonedIsFinal'
    BY <1>14, UndoMoveDoes, UndoMoveLeads
    DEF UpdateInv, PlacesAreFinal, AbandonedIsFinal, Harmless, Roles, Role
  <1>15. ASSUME NEW p \in Process, UndoState(p) PROVE AbandonedIsFinal'
    <2>1. home["abandoned"] # NoState => Settled("abandoned") /\ Settled("abandoned")'
      BY <1>15, SettledStays DEF UpdateInv, PlacesAreFinal, AbandonedIsFinal
    <2>2. home["abandoned"] # NoState /\ p \in Main =>
            (Harmless(p)' \/ (Command(p)' = "abandon" /\ pc'[p] \in {"reread", "report"}))
      BY <1>15, <2>1, UndoStateDoes
      DEF Ends, UpdateInv, PlacesAreFinal, AbandonedIsFinal, Harmless, Command, Roles, Role
    <2>3. home["abandoned"] # NoState =>
            \A m \in Main : (Harmless(m)' \/ (Command(m)' = "abandon" /\
              pc'[m] \in {"reread", "report"}))
      BY <1>15, <2>2, UndoStateDoes, OneMain
      DEF OthersStay, UpdateInv, PlacesAreFinal, AbandonedIsFinal, Harmless, Command
    <2> QED
      BY <1>15, <2>1, <2>3, UndoStateDoes
      DEF UpdateInv, PlacesAreFinal, AbandonedIsFinal, Command
  <1>16. ASSUME NEW p \in Process, Crash(p) PROVE AbandonedIsFinal'
    <2>1. home["abandoned"] # NoState => Settled("abandoned") /\ Settled("abandoned")'
      BY <1>16, SettledStays DEF UpdateInv, PlacesAreFinal, AbandonedIsFinal
    <2>2. home["abandoned"] # NoState /\ p \in Main =>
            (Harmless(p)' \/ (Command(p)' = "abandon" /\ pc'[p] \in {"reread", "report"}))
      BY <1>16, <2>1, CrashDoes
      DEF Ends, UpdateInv, PlacesAreFinal, AbandonedIsFinal, Harmless, Command
    <2>3. home["abandoned"] # NoState =>
            \A m \in Main : (Harmless(m)' \/ (Command(m)' = "abandon" /\
              pc'[m] \in {"reread", "report"}))
      BY <1>16, <2>2, CrashDoes, OneMain
      DEF OthersStay, UpdateInv, PlacesAreFinal, AbandonedIsFinal, Harmless, Command
    <2> QED
      BY <1>16, <2>1, <2>3, CrashDoes DEF UpdateInv, PlacesAreFinal, AbandonedIsFinal, Command
  <1>17. CASE UNCHANGED vars
    BY <1>17
    DEF vars, files, material, PlacesAreFinal, AbandonedIsFinal, Harmless, Command, Settled,
        Critical, Current
  <1>18. QED
    BY <1>1, <1>2, <1>3, <1>4, <1>5, <1>6, <1>7, <1>8, <1>9, <1>10, <1>11, <1>12, <1>13, <1>14,
       <1>15, <1>16, <1>17
    DEF Next

LEMMA LeavesStep == UpdateInv /\ PlacesAreFinal /\ [Next]_vars => MainLeavesFinal'
  <1> SUFFICES ASSUME UpdateInv /\ PlacesAreFinal, [Next]_vars PROVE MainLeavesFinal'
    OBVIOUS
  <1>1. ASSUME NEW p \in Process, Begin(p) PROVE MainLeavesFinal'
    <2>1. CASE p \notin Main
      BY <1>1, <2>1, OthersLeave DEF UpdateInv, PlacesAreFinal
    <2>2. CASE p \in Main
      BY <1>1, <2>2, BeginDoes, OneMain
      DEF Ends, UpdateInv, PlacesAreFinal, MainLeavesFinal, Command
    <2> QED
      BY <2>1, <2>2
  <1>2. ASSUME NEW p \in Process, Read(p) PROVE MainLeavesFinal'
    <2>1. CASE p \notin Main
      BY <1>2, <2>1, OthersLeave DEF UpdateInv, PlacesAreFinal
    <2>2. CASE p \in Main
      BY <1>2, <2>2, ReadDoes, OneMain
      DEF Ends, UpdateInv, PlacesAreFinal, MainLeavesFinal, Command, AfterRead
    <2> QED
      BY <2>1, <2>2
  <1>3. ASSUME NEW p \in Process, Seal(p) PROVE MainLeavesFinal'
    <2>1. CASE p \notin Main
      BY <1>3, <2>1, OthersLeave DEF UpdateInv, PlacesAreFinal
    <2>2. CASE p \in Main
      BY <1>3, <2>2, SealDoes, OneMain
      DEF Ends, UpdateInv, PlacesAreFinal, MainLeavesFinal, Command
    <2> QED
      BY <2>1, <2>2
  <1>4. ASSUME NEW p \in Process, Prove(p) PROVE MainLeavesFinal'
    <2>1. CASE p \notin Main
      BY <1>4, <2>1, OthersLeave DEF UpdateInv, PlacesAreFinal
    <2>2. CASE p \in Main
      BY <1>4, <2>2, ProveDoes, OneMain
      DEF Ends, UpdateInv, PlacesAreFinal, MainLeavesFinal, Command
    <2> QED
      BY <2>1, <2>2
  <1>5. ASSUME NEW p \in Process, Reread(p) PROVE MainLeavesFinal'
    <2>1. CASE p \notin Main
      BY <1>5, <2>1, OthersLeave DEF UpdateInv, PlacesAreFinal
    <2>2. CASE p \in Main
      BY <1>5, <2>2, RereadDoes, OneMain
      DEF Ends, UpdateInv, PlacesAreFinal, MainLeavesFinal, Command
    <2> QED
      BY <2>1, <2>2
  <1>6. ASSUME NEW p \in Process, Write(p) PROVE MainLeavesFinal'
    <2>1. CASE p \notin Main
      BY <1>6, <2>1, OthersLeave DEF UpdateInv, PlacesAreFinal
    <2>2. CASE p \in Main
      BY <1>6, <2>2, WriteDoes, OneMain
      DEF Ends, UpdateInv, PlacesAreFinal, MainLeavesFinal, Command
    <2> QED
      BY <2>1, <2>2
  <1>7. ASSUME NEW p \in Process, HookRead(p) PROVE MainLeavesFinal'
    <2>1. CASE p \notin Main
      BY <1>7, <2>1, OthersLeave DEF UpdateInv, PlacesAreFinal
    <2>2. CASE p \in Main
      BY <1>7, <2>2, HookReadDoes, OneMain
      DEF Ends, UpdateInv, PlacesAreFinal, MainLeavesFinal, Command
    <2> QED
      BY <2>1, <2>2
  <1>8. ASSUME NEW p \in Process, Compare(p) PROVE MainLeavesFinal'
    <2>1. CASE p \notin Main
      BY <1>8, <2>1, OthersLeave DEF UpdateInv, PlacesAreFinal
    <2>2. CASE p \in Main
      BY <1>8, <2>2, CompareDoes, OneMain
      DEF Ends, UpdateInv, PlacesAreFinal, MainLeavesFinal, Command
    <2> QED
      BY <2>1, <2>2
  <1>9. ASSUME NEW p \in Process, AppendEvent(p) PROVE MainLeavesFinal'
    <2>1. CASE p \notin Main
      BY <1>9, <2>1, OthersLeave DEF UpdateInv, PlacesAreFinal
    <2>2. CASE p \in Main
      BY <1>9, <2>2, AppendEventDoes, OneMain
      DEF Ends, UpdateInv, PlacesAreFinal, MainLeavesFinal, Command
    <2> QED
      BY <2>1, <2>2
  <1>10. ASSUME NEW p \in Process, Commit(p) PROVE MainLeavesFinal'
    <2>1. CASE p \notin Main
      BY <1>10, <2>1, OthersLeave DEF UpdateInv, PlacesAreFinal
    <2>2. CASE p \in Main
      <3>1. pc'[p] = "move" => Current'.lifecycle = Final(Destination(Command(p)'))
        <4>1. /\ pc[p] = "commit" /\ Role(p) /\ TypeOK /\ Current' = Successor(p)
              /\ pc'[p] = "move" => /\ Command(p) \in {"finalize", "abandon"}
                                    /\ op'[p] = op[p]
          BY <1>10, CommitDoes DEF UpdateInv, Ends, Roles
        <4>2. Current'.lifecycle = IF Command(p) = "finalize" THEN "archived"
                 ELSE IF Command(p) = "abandon" THEN "abandoned"
                 ELSE IF Command(p) = "rollback" THEN op[p].restore ELSE op[p].own.lifecycle
          BY <4>1, SuccessorFields
        <4> QED
          BY <4>1, <4>2 DEF Command, Destination, Final
      <3>2. pc'[p] \in {"move", "idle"} /\ \A m \in Main : m = p
        BY <1>10, <2>2, CommitDoes, OneMain DEF UpdateInv, Ends
      <3> QED
        BY <3>1, <3>2 DEF MainLeavesFinal
    <2> QED
      BY <2>1, <2>2
  <1>11. ASSUME NEW p \in Process, Move(p) PROVE MainLeavesFinal'
    BY <1>11, MoveDoes, MoveSettles, MoveLeads
    DEF UpdateInv, PlacesAreFinal, MainLeavesFinal, Destination, Command
  <1>12. ASSUME NEW p \in Process, Verify(p) PROVE MainLeavesFinal'
    <2>1. CASE p \notin Main
      BY <1>12, <2>1, OthersLeave DEF UpdateInv, PlacesAreFinal
    <2>2. CASE p \in Main
      BY <1>12, <2>2, VerifyDoes, OneMain, SettledStays
      DEF Ends, UpdateInv, PlacesAreFinal, MainLeavesFinal, Command, Destination, Roles, Role
    <2> QED
      BY <2>1, <2>2
  <1>13. ASSUME NEW p \in Process, Report(p) PROVE MainLeavesFinal'
    <2>1. CASE p \notin Main
      BY <1>13, <2>1, OthersLeave DEF UpdateInv, PlacesAreFinal
    <2>2. CASE p \in Main
      BY <1>13, <2>2, ReportDoes, OneMain
      DEF Ends, UpdateInv, PlacesAreFinal, MainLeavesFinal, Command
    <2> QED
      BY <2>1, <2>2
  <1>14. ASSUME NEW p \in Process, UndoMove(p) PROVE MainLeavesFinal'
    BY <1>14, UndoMoveDoes, UndoMoveLeads DEF UpdateInv, MainLeavesFinal, Ends
  <1>15. ASSUME NEW p \in Process, UndoState(p) PROVE MainLeavesFinal'
    <2>1. CASE p \notin Main
      BY <1>15, <2>1, OthersLeave DEF UpdateInv, PlacesAreFinal
    <2>2. CASE p \in Main
      BY <1>15, <2>2, UndoStateDoes, OneMain
      DEF Ends, UpdateInv, PlacesAreFinal, MainLeavesFinal, Command
    <2> QED
      BY <2>1, <2>2
  <1>16. ASSUME NEW p \in Process, Crash(p) PROVE MainLeavesFinal'
    <2>1. CASE p \notin Main
      BY <1>16, <2>1, OthersLeave DEF UpdateInv, PlacesAreFinal
    <2>2. CASE p \in Main
      BY <1>16, <2>2, CrashDoes, OneMain
      DEF Ends, UpdateInv, PlacesAreFinal, MainLeavesFinal, Command
    <2> QED
      BY <2>1, <2>2
  <1>17. CASE UNCHANGED vars
    BY <1>17
    DEF vars, files, material, PlacesAreFinal, MainLeavesFinal, Harmless, Command, Settled,
        Critical, Current
  <1>18. QED
    BY <1>1, <1>2, <1>3, <1>4, <1>5, <1>6, <1>7, <1>8, <1>9, <1>10, <1>11, <1>12, <1>13, <1>14,
       <1>15, <1>16, <1>17
    DEF Next

LEMMA ReportedStep == UpdateInv /\ PlacesAreFinal /\ [Next]_vars => ReportedIsSettled'
  <1> SUFFICES ASSUME UpdateInv /\ PlacesAreFinal, [Next]_vars PROVE ReportedIsSettled'
    OBVIOUS
  <1>1. ASSUME NEW p \in Process, Begin(p) PROVE ReportedIsSettled'
    <2>1. reported = "archive" => Settled("archive") /\ Settled("archive")'
      BY <1>1, SettledStays DEF UpdateInv, PlacesAreFinal, ReportedIsSettled
    <2>2. reported = "archive" /\ p \in Main => (Harmless(p)')
      BY <1>1, <2>1, BeginDoes
      DEF Ends, UpdateInv, PlacesAreFinal, ReportedIsSettled, Harmless, Command, CommandsOf
    <2>3. reported = "archive" => \A m \in Main : (Harmless(m)')
      BY <1>1, <2>2, BeginDoes, OneMain
      DEF OthersStay, UpdateInv, PlacesAreFinal, ReportedIsSettled, Harmless, Command
    <2> QED
      BY <1>1, <2>1, <2>3, BeginDoes DEF UpdateInv, PlacesAreFinal, ReportedIsSettled, Command
  <1>2. ASSUME NEW p \in Process, Read(p) PROVE ReportedIsSettled'
    <2>1. reported = "archive" => Settled("archive") /\ Settled("archive")'
      BY <1>2, SettledStays DEF UpdateInv, PlacesAreFinal, ReportedIsSettled
    <2>2. reported = "archive" /\ p \in Main => (Harmless(p)')
      <3>1. \/ Ends(p)
            \/ /\ pc'[p] = AfterRead(Command(p)) /\ Command(p)' = Command(p)
               /\ Current # NoState /\ Accepts(Command(p), Current)
        BY <1>2, ReadDoes DEF UpdateInv
      <3>2. reported = "archive" /\ Current # NoState => Current.lifecycle = Final("archive")
        BY <2>1 DEF Settled
      <3>3. p \in Main => Command(p) \in {"validate", "archive", "finalize", "abandon"}
        BY <1>2, ReadDoes DEF UpdateInv, Roles, Role, CommandsOf
      <3> QED
        BY <3>1, <3>2, <3>3 DEF Ends, Harmless, Command, AfterRead, Accepts, Final
    <2>3. reported = "archive" => \A m \in Main : (Harmless(m)')
      BY <1>2, <2>2, ReadDoes, OneMain
      DEF OthersStay, UpdateInv, PlacesAreFinal, ReportedIsSettled, Harmless, Command
    <2> QED
      BY <1>2, <2>1, <2>3, ReadDoes DEF UpdateInv, PlacesAreFinal, ReportedIsSettled, Command
  <1>3. ASSUME NEW p \in Process, Seal(p) PROVE ReportedIsSettled'
    <2>1. reported = "archive" => Settled("archive") /\ Settled("archive")'
      BY <1>3, SettledStays DEF UpdateInv, PlacesAreFinal, ReportedIsSettled
    <2>2. reported = "archive" /\ p \in Main => (Harmless(p)')
      BY <1>3, <2>1, SealDoes
      DEF Ends, UpdateInv, PlacesAreFinal, ReportedIsSettled, Harmless, Command, Roles, Role
    <2>3. reported = "archive" => \A m \in Main : (Harmless(m)')
      BY <1>3, <2>2, SealDoes, OneMain
      DEF OthersStay, UpdateInv, PlacesAreFinal, ReportedIsSettled, Harmless, Command
    <2> QED
      BY <1>3, <2>1, <2>3, SealDoes DEF UpdateInv, PlacesAreFinal, ReportedIsSettled, Command
  <1>4. ASSUME NEW p \in Process, Prove(p) PROVE ReportedIsSettled'
    <2>1. reported = "archive" => Settled("archive") /\ Settled("archive")'
      BY <1>4, SettledStays DEF UpdateInv, PlacesAreFinal, ReportedIsSettled
    <2>2. reported = "archive" /\ p \in Main => (Harmless(p)')
      BY <1>4, <2>1, ProveDoes
      DEF Ends, UpdateInv, PlacesAreFinal, ReportedIsSettled, Harmless, Command, Roles, Role
    <2>3. reported = "archive" => \A m \in Main : (Harmless(m)')
      BY ZenonT(60), <1>4, <2>2, ProveDoes, OneMain
      DEF OthersStay, UpdateInv, PlacesAreFinal, ReportedIsSettled, Harmless, Command
    <2> QED
      BY <1>4, <2>1, <2>3, ProveDoes DEF UpdateInv, PlacesAreFinal, ReportedIsSettled, Command
  <1>5. ASSUME NEW p \in Process, Reread(p) PROVE ReportedIsSettled'
    <2>1. reported = "archive" => Settled("archive") /\ Settled("archive")'
      BY <1>5, SettledStays DEF UpdateInv, PlacesAreFinal, ReportedIsSettled
    <2>2. reported = "archive" /\ p \in Main => (Harmless(p)')
      BY <1>5, <2>1, RereadDoes
      DEF Ends, UpdateInv, PlacesAreFinal, ReportedIsSettled, Harmless, Command, MayMove,
          Destination, Roles, Role
    <2>3. reported = "archive" => \A m \in Main : (Harmless(m)')
      BY <1>5, <2>2, RereadDoes, OneMain
      DEF OthersStay, UpdateInv, PlacesAreFinal, ReportedIsSettled, Harmless, Command
    <2> QED
      BY <1>5, <2>1, <2>3, RereadDoes DEF UpdateInv, PlacesAreFinal, ReportedIsSettled, Command
  <1>6. ASSUME NEW p \in Process, Write(p) PROVE ReportedIsSettled'
    <2>1. reported = "archive" => Settled("archive") /\ Settled("archive")'
      BY <1>6, SettledStays DEF UpdateInv, PlacesAreFinal, ReportedIsSettled
    <2>2. reported = "archive" /\ p \in Main => (Harmless(p)')
      BY <1>6, <2>1, WriteDoes
      DEF Ends, UpdateInv, PlacesAreFinal, ReportedIsSettled, Harmless, Command
    <2>3. reported = "archive" => \A m \in Main : (Harmless(m)')
      BY <1>6, <2>2, WriteDoes, OneMain
      DEF OthersStay, UpdateInv, PlacesAreFinal, ReportedIsSettled, Harmless, Command
    <2> QED
      BY <1>6, <2>1, <2>3, WriteDoes DEF UpdateInv, PlacesAreFinal, ReportedIsSettled, Command
  <1>7. ASSUME NEW p \in Process, HookRead(p) PROVE ReportedIsSettled'
    <2>1. reported = "archive" => Settled("archive") /\ Settled("archive")'
      BY <1>7, SettledStays DEF UpdateInv, PlacesAreFinal, ReportedIsSettled
    <2>2. reported = "archive" /\ p \in Main => (Harmless(p)')
      BY <1>7, <2>1, HookReadDoes
      DEF Ends, UpdateInv, PlacesAreFinal, ReportedIsSettled, Harmless, Command
    <2>3. reported = "archive" => \A m \in Main : (Harmless(m)')
      BY <1>7, <2>2, HookReadDoes, OneMain
      DEF OthersStay, UpdateInv, PlacesAreFinal, ReportedIsSettled, Harmless, Command
    <2> QED
      BY <1>7, <2>1, <2>3, HookReadDoes
      DEF UpdateInv, PlacesAreFinal, ReportedIsSettled, Command
  <1>8. ASSUME NEW p \in Process, Compare(p) PROVE ReportedIsSettled'
    <2>1. reported = "archive" => Settled("archive") /\ Settled("archive")'
      BY <1>8, SettledStays DEF UpdateInv, PlacesAreFinal, ReportedIsSettled
    <2>2. reported = "archive" /\ p \in Main => (Harmless(p)')
      BY <1>8, <2>1, CompareDoes
      DEF Ends, UpdateInv, PlacesAreFinal, ReportedIsSettled, Harmless, Command
    <2>3. reported = "archive" => \A m \in Main : (Harmless(m)')
      BY ZenonT(60), <1>8, <2>2, CompareDoes, OneMain
      DEF OthersStay, UpdateInv, PlacesAreFinal, ReportedIsSettled, Harmless, Command
    <2> QED
      BY <1>8, <2>1, <2>3, CompareDoes DEF UpdateInv, PlacesAreFinal, ReportedIsSettled, Command
  <1>9. ASSUME NEW p \in Process, AppendEvent(p) PROVE ReportedIsSettled'
    <2>1. reported = "archive" => Settled("archive") /\ Settled("archive")'
      BY <1>9, SettledStays DEF UpdateInv, PlacesAreFinal, ReportedIsSettled
    <2>2. reported = "archive" /\ p \in Main => (Harmless(p)')
      BY <1>9, <2>1, AppendEventDoes
      DEF Ends, UpdateInv, PlacesAreFinal, ReportedIsSettled, Harmless, Command
    <2>3. reported = "archive" => \A m \in Main : (Harmless(m)')
      BY ZenonT(60), <1>9, <2>2, AppendEventDoes, OneMain
      DEF OthersStay, UpdateInv, PlacesAreFinal, ReportedIsSettled, Harmless, Command
    <2> QED
      BY <1>9, <2>1, <2>3, AppendEventDoes
      DEF UpdateInv, PlacesAreFinal, ReportedIsSettled, Command
  <1>10. ASSUME NEW p \in Process, Commit(p) PROVE ReportedIsSettled'
    <2>0. reported = "archive" => Command(p) \notin {"finalize", "abandon", "rollback"}
      BY <1>10, CommitDoes
      DEF UpdateInv, PlacesAreFinal, ReportedIsSettled, Harmless, Roles, Role, Critical,
          CommandsOf
    <2>1. reported = "archive" => Settled("archive") /\ Settled("archive")'
      BY <1>10, <2>0, SettledStays DEF UpdateInv, PlacesAreFinal, ReportedIsSettled
    <2>2. reported = "archive" /\ p \in Main => (Harmless(p)')
      BY <1>10, <2>1, CommitDoes
      DEF Ends, UpdateInv, PlacesAreFinal, ReportedIsSettled, Harmless, Command
    <2>4. OthersStay(p)
      BY <1>10, CommitDoes DEF UpdateInv
    <2>3. reported = "archive" => \A m \in Main : (Harmless(m)')
      BY <2>2, <2>4, OneMain
      DEF OthersStay, UpdateInv, PlacesAreFinal, ReportedIsSettled, Harmless, Command
    <2> QED
      BY <1>10, <2>1, <2>3, CommitDoes DEF UpdateInv, PlacesAreFinal, ReportedIsSettled, Command
  <1>11. ASSUME NEW p \in Process, Move(p) PROVE ReportedIsSettled'
    BY <1>11, MoveDoes, MoveSettles, MoveLeads
    DEF UpdateInv, PlacesAreFinal, ReportedIsSettled, Harmless, Command, Destination, Settled
  <1>12. ASSUME NEW p \in Process, Verify(p) PROVE ReportedIsSettled'
    <2>1. reported = "archive" => Settled("archive") /\ Settled("archive")'
      BY <1>12, SettledStays DEF UpdateInv, PlacesAreFinal, ReportedIsSettled
    <2>2. reported = "archive" /\ p \in Main => (Harmless(p)')
      BY <1>12, <2>1, VerifyDoes
      DEF Ends, UpdateInv, PlacesAreFinal, ReportedIsSettled, Harmless, Command, Roles, Role
    <2>3. reported = "archive" => \A m \in Main : (Harmless(m)')
      BY <1>12, <2>2, VerifyDoes, OneMain
      DEF OthersStay, UpdateInv, PlacesAreFinal, ReportedIsSettled, Harmless, Command
    <2> QED
      BY <1>12, <2>1, <2>3, VerifyDoes DEF UpdateInv, PlacesAreFinal, ReportedIsSettled, Command
  <1>13. ASSUME NEW p \in Process, Report(p) PROVE ReportedIsSettled'
    <2>1. /\ pc[p] = "report" /\ p \in Main /\ Ends(p) /\ OthersStay(p) /\ home' = home
          /\ reported' = Destination(Command(p)) /\ Command(p) \in {"finalize", "abandon"}
      BY <1>13, ReportDoes DEF UpdateInv, Roles, Role
    <2>2. Settled(Destination(Command(p)))
      BY <2>1 DEF PlacesAreFinal, MainLeavesFinal
    <2>3. \A m \in Main : Harmless(m)'
      BY <2>1, OneMain DEF Ends, Harmless, Command
    <2>4. CASE Command(p) = "finalize"
      <3>1. Settled("archive")'
        BY <1>13, <2>2, <2>4, SettledStays DEF Destination
      <3> QED
        BY <2>1, <2>3, <2>4, <3>1 DEF ReportedIsSettled, Destination
    <2>5. CASE Command(p) = "abandon"
      BY <2>1, <2>2, <2>5 DEF ReportedIsSettled, Destination, Settled
    <2> QED
      BY <2>1, <2>4, <2>5
  <1>14. ASSUME NEW p \in Process, UndoMove(p) PROVE ReportedIsSettled'
    BY <1>14, UndoMoveDoes, UndoMoveLeads
    DEF UpdateInv, PlacesAreFinal, ReportedIsSettled, Harmless, Roles, Role
  <1>15. ASSUME NEW p \in Process, UndoState(p) PROVE ReportedIsSettled'
    <2>1. reported = "archive" => Settled("archive") /\ Settled("archive")'
      BY <1>15, SettledStays DEF UpdateInv, PlacesAreFinal, ReportedIsSettled
    <2>2. reported = "archive" /\ p \in Main => (Harmless(p)')
      BY <1>15, <2>1, UndoStateDoes
      DEF Ends, UpdateInv, PlacesAreFinal, ReportedIsSettled, Harmless, Command, Roles, Role
    <2>3. reported = "archive" => \A m \in Main : (Harmless(m)')
      BY <1>15, <2>2, UndoStateDoes, OneMain
      DEF OthersStay, UpdateInv, PlacesAreFinal, ReportedIsSettled, Harmless, Command
    <2> QED
      BY <1>15, <2>1, <2>3, UndoStateDoes
      DEF UpdateInv, PlacesAreFinal, ReportedIsSettled, Command
  <1>16. ASSUME NEW p \in Process, Crash(p) PROVE ReportedIsSettled'
    <2>1. reported = "archive" => Settled("archive") /\ Settled("archive")'
      BY <1>16, SettledStays DEF UpdateInv, PlacesAreFinal, ReportedIsSettled
    <2>2. reported = "archive" /\ p \in Main => (Harmless(p)')
      BY <1>16, <2>1, CrashDoes
      DEF Ends, UpdateInv, PlacesAreFinal, ReportedIsSettled, Harmless, Command
    <2>3. reported = "archive" => \A m \in Main : (Harmless(m)')
      BY <1>16, <2>2, CrashDoes, OneMain
      DEF OthersStay, UpdateInv, PlacesAreFinal, ReportedIsSettled, Harmless, Command
    <2> QED
      BY <1>16, <2>1, <2>3, CrashDoes DEF UpdateInv, PlacesAreFinal, ReportedIsSettled, Command
  <1>17. CASE UNCHANGED vars
    BY <1>17
    DEF vars, files, material, PlacesAreFinal, ReportedIsSettled, Harmless, Command, Settled,
        Critical, Current
  <1>18. QED
    BY <1>1, <1>2, <1>3, <1>4, <1>5, <1>6, <1>7, <1>8, <1>9, <1>10, <1>11, <1>12, <1>13, <1>14,
       <1>15, <1>16, <1>17
    DEF Next

(***************************************************************************)
(* What lies in a place is recorded there.                                 *)
(***************************************************************************)

\* Only the move makes a directory that can be moved back.
LEMMA WithdrawableStays ==
    ASSUME UpdateInv, NEW p \in Process,
           \/ Begin(p) \/ Read(p) \/ Seal(p) \/ Prove(p) \/ Reread(p) \/ Write(p) \/ HookRead(p)
           \/ Compare(p) \/ AppendEvent(p) \/ Commit(p) \/ Verify(p) \/ Report(p) \/
                UndoState(p)
           \/ Crash(p),
           Withdrawable'
    PROVE  Withdrawable /\ home'["archive"] = home["archive"] /\ ~Commit(p) /\ ~AppendEvent(p)
  <1> USE DEF UpdateInv
  <1>1. ~Commit(p) /\ ~AppendEvent(p)
    BY CommitLeads, AppendEventDoes DEF Withdrawable
  <1>2. ~present /\ home' = home /\ OthersStay(p)
    BY <1>1, BeginDoes, ReadDoes, SealDoes, ProveDoes, RereadDoes, WriteDoes, HookReadDoes,
       CompareDoes, VerifyDoes, ReportDoes, UndoStateDoes, CrashDoes DEF Withdrawable
  <1>3. PICK m \in Main : m \in Process /\ pc'[m] \in {"verify", "undoMove"}
    BY OneMain DEF Withdrawable
  <1>4. pc[m] \in {"verify", "undoMove"}
    <2>1. CASE m # p
      BY <1>2, <1>3, <2>1 DEF OthersStay
    <2>2. CASE m = p
      <3>1. CASE Begin(p) \/ Read(p) \/ Seal(p) \/ Prove(p) \/ Reread(p) \/ Write(p) \/
              HookRead(p)
        BY <1>3, <2>2, <3>1, BeginDoes, ReadDoes, SealDoes, ProveDoes, RereadDoes, WriteDoes,
           HookReadDoes DEF Ends, AfterRead
      <3>2. CASE Compare(p) \/ Verify(p) \/ Report(p) \/ UndoState(p) \/ Crash(p)
        BY <1>3, <2>2, <3>2, CompareDoes, VerifyDoes, ReportDoes, UndoStateDoes, CrashDoes
        DEF Ends
      <3> QED
        BY <1>1, <3>1, <3>2
    <2> QED
      BY <2>1, <2>2
  <1> QED
    BY <1>1, <1>2, <1>3, <1>4 DEF Withdrawable

\* While main moves the directory, nothing lies among the abandoned changes.
LEMMA MainMovesFirst ==
    ASSUME UpdateInv, PlacesAreFinal, NEW p \in Main,
           pc[p] = "undoMove" \/ (pc[p] = "move" /\ Command(p) = "finalize")
    PROVE  home["abandoned"] = NoState
  BY OneMain DEF UpdateInv, PlacesAreFinal, AbandonedIsFinal, Harmless, Roles, Role

LEMMA ArchiveTyped ==
    ASSUME UpdateInv, Withdrawable
    PROVE  home["archive"] # NoState /\ home["archive"].sealed \in Nat
  <1>1. home["archive"] # NoState
    BY DEF UpdateInv, Withdrawable, Exists, MainFinds
  <1> QED
    BY <1>1, StateTyped, BoundsAssumption DEF UpdateInv, TypeOK, Directory

\* A step that is no commit of a hook leaves unmarked what was.
LEMMA SeesStays ==
    ASSUME UpdateInv, NEW p \in Process, NEW n \in Nat, Sees(n),
           \/ Begin(p) \/ Read(p) \/ Seal(p) \/ Prove(p) \/ Reread(p) \/ Write(p) \/ HookRead(p)
           \/ Compare(p) \/ AppendEvent(p) \/ Verify(p) \/ Report(p) \/ UndoState(p) \/ Crash(p)
           \/ Move(p) \/ UndoMove(p)
           \/ Commit(p) /\ Command(p) # "write"
    PROVE  \A w \in indexed' : w > n => w \in unmarked'
  <1> USE DEF UpdateInv, Sees
  <1>1. CASE Write(p)
    BY <1>1, WriteDoes
  <1>2. CASE HookRead(p)
    BY <1>2, HookReadDoes
  <1>3. CASE Commit(p) /\ Command(p) # "write"
    BY <1>3, CommitDoes
  <1>4. ASSUME ~Write(p), ~HookRead(p), ~(Commit(p) /\ Command(p) # "write")
        PROVE  indexed' = indexed /\ unmarked' = unmarked
    BY <1>4, BeginDoes, ReadDoes, SealDoes, ProveDoes, RereadDoes, CompareDoes, AppendEventDoes,
       VerifyDoes, ReportDoes, UndoStateDoes, CrashDoes, MoveDoes, UndoMoveDoes
  <1> QED
    BY <1>1, <1>2, <1>3, <1>4

LEMMA PlaceStep ==
    UpdateInv /\ PlacesAreFinal /\ MainKeepsStage /\ PlaceIsRecorded /\ [Next]_vars =>
      PlaceIsRecorded'
  <1> SUFFICES ASSUME UpdateInv /\ PlacesAreFinal /\ MainKeepsStage /\ PlaceIsRecorded, [Next]_vars
               PROVE PlaceIsRecorded'
    OBVIOUS
  <1>1. ASSUME NEW p \in Process, Begin(p) PROVE PlaceIsRecorded'
    BY <1>1, BeginDoes DEF UpdateInv, PlaceIsRecorded
  <1>2. ASSUME NEW p \in Process, Read(p) PROVE PlaceIsRecorded'
    BY <1>2, ReadDoes DEF UpdateInv, PlaceIsRecorded
  <1>3. ASSUME NEW p \in Process, Seal(p) PROVE PlaceIsRecorded'
    BY <1>3, SealDoes DEF UpdateInv, PlaceIsRecorded
  <1>4. ASSUME NEW p \in Process, Prove(p) PROVE PlaceIsRecorded'
    BY <1>4, ProveDoes DEF UpdateInv, PlaceIsRecorded
  <1>5. ASSUME NEW p \in Process, Reread(p) PROVE PlaceIsRecorded'
    BY <1>5, RereadDoes DEF UpdateInv, PlaceIsRecorded
  <1>6. ASSUME NEW p \in Process, Write(p) PROVE PlaceIsRecorded'
    BY <1>6, WriteDoes DEF UpdateInv, PlaceIsRecorded
  <1>7. ASSUME NEW p \in Process, HookRead(p) PROVE PlaceIsRecorded'
    BY <1>7, HookReadDoes DEF UpdateInv, PlaceIsRecorded
  <1>8. ASSUME NEW p \in Process, Compare(p) PROVE PlaceIsRecorded'
    BY <1>8, CompareDoes DEF UpdateInv, PlaceIsRecorded
  <1>9. ASSUME NEW p \in Process, AppendEvent(p) PROVE PlaceIsRecorded'
    BY <1>9, AppendEventDoes DEF UpdateInv, PlaceIsRecorded
  <1>10. ASSUME NEW p \in Process, Commit(p) PROVE PlaceIsRecorded'
    BY <1>10, CommitDoes DEF UpdateInv, PlaceIsRecorded
  <1>11. ASSUME NEW p \in Process, Move(p) PROVE PlaceIsRecorded'
    BY <1>11, MoveDoes, MoveSettles, MoveLeads
    DEF UpdateInv, PlacesAreFinal, PlaceIsRecorded, MainKeepsStage, Destination, Final
  <1>12. ASSUME NEW p \in Process, Verify(p) PROVE PlaceIsRecorded'
    BY <1>12, VerifyDoes DEF UpdateInv, PlaceIsRecorded
  <1>13. ASSUME NEW p \in Process, Report(p) PROVE PlaceIsRecorded'
    BY <1>13, ReportDoes DEF UpdateInv, PlaceIsRecorded
  <1>14. ASSUME NEW p \in Process, UndoMove(p) PROVE PlaceIsRecorded'
    BY <1>14, UndoMoveDoes DEF UpdateInv, PlaceIsRecorded
  <1>15. ASSUME NEW p \in Process, UndoState(p) PROVE PlaceIsRecorded'
    BY <1>15, UndoStateDoes DEF UpdateInv, PlaceIsRecorded
  <1>16. ASSUME NEW p \in Process, Crash(p) PROVE PlaceIsRecorded'
    BY <1>16, CrashDoes DEF UpdateInv, PlaceIsRecorded
  <1>17. CASE UNCHANGED vars
    BY <1>17 DEF vars, files, material, PlaceIsRecorded
  <1>18. QED
    BY <1>1, <1>2, <1>3, <1>4, <1>5, <1>6, <1>7, <1>8, <1>9, <1>10, <1>11, <1>12, <1>13, <1>14,
       <1>15, <1>16, <1>17
    DEF Next

LEMMA StageStep ==
    UpdateInv /\ PlacesAreFinal /\ MainKeepsStage /\ [Next]_vars => MainKeepsStage'
  <1> SUFFICES ASSUME UpdateInv /\ PlacesAreFinal /\ MainKeepsStage, [Next]_vars
               PROVE MainKeepsStage'
    OBVIOUS
  <1>1. ASSUME NEW p \in Process, Begin(p) PROVE MainKeepsStage'
    <2>1. Current' = Current
      BY <1>1, BeginDoes DEF UpdateInv, Current
    <2> QED
      BY <1>1, <2>1, BeginDoes, OneMain
      DEF OthersStay, Ends, UpdateInv, MainKeepsStage, Critical, Command
  <1>2. ASSUME NEW p \in Process, Read(p) PROVE MainKeepsStage'
    <2>1. Current' = Current
      BY <1>2, ReadDoes DEF UpdateInv, Current
    <2> QED
      BY <1>2, <2>1, ReadDoes, OneMain
      DEF OthersStay, Ends, UpdateInv, MainKeepsStage, Critical, Command, AfterRead, Accepts
  <1>3. ASSUME NEW p \in Process, Seal(p) PROVE MainKeepsStage'
    <2>1. Current' = Current
      BY <1>3, SealDoes DEF UpdateInv, Current
    <2> QED
      BY <1>3, <2>1, SealDoes, OneMain
      DEF OthersStay, Ends, UpdateInv, MainKeepsStage, Critical, Command, Roles, Role
  <1>4. ASSUME NEW p \in Process, Prove(p) PROVE MainKeepsStage'
    <2>1. Current' = Current
      BY <1>4, ProveDoes DEF UpdateInv, Current
    <2> QED
      BY ZenonT(60), <1>4, <2>1, ProveDoes, OneMain
      DEF OthersStay, Ends, UpdateInv, MainKeepsStage, Critical, Command
  <1>5. ASSUME NEW p \in Process, Reread(p) PROVE MainKeepsStage'
    <2>1. Current' = Current
      BY <1>5, RereadDoes DEF UpdateInv, Current
    <2> QED
      BY <1>5, <2>1, RereadDoes, OneMain, StateTyped
      DEF OthersStay, Ends, UpdateInv, MainKeepsStage, Critical, Command
  <1>6. ASSUME NEW p \in Process, Write(p) PROVE MainKeepsStage'
    <2>1. Current' = Current
      BY <1>6, WriteDoes DEF UpdateInv, Current
    <2> QED
      BY <1>6, <2>1, WriteDoes, OneMain
      DEF OthersStay, Ends, UpdateInv, MainKeepsStage, Critical, Command
  <1>7. ASSUME NEW p \in Process, HookRead(p) PROVE MainKeepsStage'
    <2>1. Current' = Current
      BY <1>7, HookReadDoes DEF UpdateInv, Current
    <2> QED
      BY <1>7, <2>1, HookReadDoes, OneMain
      DEF OthersStay, Ends, UpdateInv, MainKeepsStage, Critical, Command, Roles, Role
  <1>8. ASSUME NEW p \in Process, Compare(p) PROVE MainKeepsStage'
    <2>1. /\ Current' = Current /\ OthersStay(p)
          /\ \/ pc[p] \in {"compare", "event"} /\ pc'[p] \in {"event", "commit"} /\
                  op'[p] = op[p]
             \/ pc'[p] = "idle"
      BY <1>8, CompareDoes DEF UpdateInv, Current, Ends
    <2> QED
      BY <2>1, OneMain DEF OthersStay, MainKeepsStage, Critical, Command
  <1>9. ASSUME NEW p \in Process, AppendEvent(p) PROVE MainKeepsStage'
    <2>1. /\ Current' = Current /\ OthersStay(p)
          /\ \/ pc[p] \in {"compare", "event"} /\ pc'[p] \in {"event", "commit"} /\
                  op'[p] = op[p]
             \/ pc'[p] = "idle"
      BY <1>9, AppendEventDoes DEF UpdateInv, Current, Ends
    <2> QED
      BY <2>1, OneMain DEF OthersStay, MainKeepsStage, Critical, Command
  <1>10. ASSUME NEW p \in Process, Commit(p) PROVE MainKeepsStage'
    <2>1. /\ pc[p] = "commit" /\ Role(p) /\ TypeOK /\ Current' = Successor(p) /\ OthersStay(p)
          /\ pc'[p] = "idle" \/ (pc'[p] = "move" /\ op'[p] = op[p])
      BY <1>10, CommitDoes DEF UpdateInv, Ends, Roles
    <2>2. Current'.stage = IF Command(p) = "archive" THEN "archive" ELSE op[p].own.stage
      BY <2>1, SuccessorFields
    <2>3. Current # NoState => Current = op[p].own
      BY <1>10, CommitLeads
    <2> SUFFICES ASSUME NEW m \in Main, Command(m)' = "finalize"
        PROVE /\ pc'[m] \in {"prove", "reread", "move"} => Current'.stage = "archive"
              /\ pc'[m] = "compare" \/ Critical(m)' => op'[m].own.stage = "archive"
      BY DEF MainKeepsStage
    <2>4. CASE m = p
      BY <2>1, <2>2, <2>4 DEF MainKeepsStage, Critical, Command
    <2>5. CASE m # p
      <3>1. pc'[m] = pc[m] /\ op'[m] = op[m]
        BY <2>1, <2>5, OneMain DEF OthersStay
      <3>2. pc[m] \in {"prove", "reread", "move"} =>
              Current # NoState /\ Current.stage = "archive"
        BY <3>1 DEF UpdateInv, MainFinds, MainKeepsStage, Command, Reading
      <3> QED
        BY <2>2, <2>3, <3>1, <3>2 DEF MainKeepsStage, Critical, Command
    <2> QED
      BY <2>4, <2>5
  <1>11. ASSUME NEW p \in Process, Move(p) PROVE MainKeepsStage'
    <2>1. /\ \A m \in Main : m = p
          /\ pc'[p] \in {"verify", "report", "undoMove", "undoState", "idle"}
      BY <1>11, MoveDoes, MoveLeads DEF UpdateInv, Ends
    <2> QED
      BY <2>1 DEF MainKeepsStage, Critical
  <1>12. ASSUME NEW p \in Process, Verify(p) PROVE MainKeepsStage'
    <2>1. Current' = Current
      BY <1>12, VerifyDoes DEF UpdateInv, Current
    <2> QED
      BY <1>12, <2>1, VerifyDoes, OneMain
      DEF OthersStay, Ends, UpdateInv, MainKeepsStage, Critical, Command
  <1>13. ASSUME NEW p \in Process, Report(p) PROVE MainKeepsStage'
    <2>1. Current' = Current
      BY <1>13, ReportDoes DEF UpdateInv, Current
    <2> QED
      BY <1>13, <2>1, ReportDoes, OneMain
      DEF OthersStay, Ends, UpdateInv, MainKeepsStage, Critical, Command
  <1>14. ASSUME NEW p \in Process, UndoMove(p) PROVE MainKeepsStage'
    <2>1. /\ \A m \in Main : m = p
          /\ pc'[p] \in {"verify", "report", "undoMove", "undoState", "idle"}
      BY <1>14, UndoMoveDoes, UndoMoveLeads DEF UpdateInv, Ends
    <2> QED
      BY <2>1 DEF MainKeepsStage, Critical
  <1>15. ASSUME NEW p \in Process, UndoState(p) PROVE MainKeepsStage'
    <2>1. Current' = Current
      BY <1>15, UndoStateDoes DEF UpdateInv, Current
    <2> QED
      BY <1>15, <2>1, UndoStateDoes, OneMain
      DEF OthersStay, Ends, UpdateInv, MainKeepsStage, Critical, Command
  <1>16. ASSUME NEW p \in Process, Crash(p) PROVE MainKeepsStage'
    <2>1. Current' = Current
      BY <1>16, CrashDoes DEF UpdateInv, Current
    <2> QED
      BY <1>16, <2>1, CrashDoes, OneMain
      DEF OthersStay, Ends, UpdateInv, MainKeepsStage, Critical, Command
  <1>17. CASE UNCHANGED vars
    BY <1>17 DEF vars, files, material, MainKeepsStage, Critical, Command, Current
  <1>18. QED
    BY <1>1, <1>2, <1>3, <1>4, <1>5, <1>6, <1>7, <1>8, <1>9, <1>10, <1>11, <1>12, <1>13, <1>14,
       <1>15, <1>16, <1>17
    DEF Next

LEMMA EventStep ==
    UpdateInv /\ PlacesAreFinal /\ EventsPrecede /\ EveryRevisionHasEvent /\ [Next]_vars =>
      EveryRevisionHasEvent'
  <1> SUFFICES ASSUME UpdateInv /\ PlacesAreFinal /\ EventsPrecede /\ EveryRevisionHasEvent, [Next]_vars
               PROVE EveryRevisionHasEvent'
    OBVIOUS
  <1>1. ASSUME NEW p \in Process, Begin(p) PROVE EveryRevisionHasEvent'
    BY <1>1, BeginDoes DEF UpdateInv, EveryRevisionHasEvent, Recreated, Directory, Current
  <1>2. ASSUME NEW p \in Process, Read(p) PROVE EveryRevisionHasEvent'
    BY <1>2, ReadDoes DEF UpdateInv, EveryRevisionHasEvent, Recreated, Directory, Current
  <1>3. ASSUME NEW p \in Process, Seal(p) PROVE EveryRevisionHasEvent'
    BY <1>3, SealDoes DEF UpdateInv, EveryRevisionHasEvent, Recreated, Directory, Current
  <1>4. ASSUME NEW p \in Process, Prove(p) PROVE EveryRevisionHasEvent'
    BY <1>4, ProveDoes DEF UpdateInv, EveryRevisionHasEvent, Recreated, Directory, Current
  <1>5. ASSUME NEW p \in Process, Reread(p) PROVE EveryRevisionHasEvent'
    BY <1>5, RereadDoes DEF UpdateInv, EveryRevisionHasEvent, Recreated, Directory, Current
  <1>6. ASSUME NEW p \in Process, Write(p) PROVE EveryRevisionHasEvent'
    BY <1>6, WriteDoes DEF UpdateInv, EveryRevisionHasEvent, Recreated, Directory, Current
  <1>7. ASSUME NEW p \in Process, HookRead(p) PROVE EveryRevisionHasEvent'
    BY <1>7, HookReadDoes DEF UpdateInv, EveryRevisionHasEvent, Recreated, Directory, Current
  <1>8. ASSUME NEW p \in Process, Compare(p) PROVE EveryRevisionHasEvent'
    BY <1>8, CompareDoes DEF UpdateInv, EveryRevisionHasEvent, Recreated, Directory, Current
  <1>9. ASSUME NEW p \in Process, AppendEvent(p) PROVE EveryRevisionHasEvent'
    BY <1>9, AppendEventDoes DEF UpdateInv, EveryRevisionHasEvent, Recreated, Directory, Current
  <1>10. ASSUME NEW p \in Process, Commit(p) PROVE EveryRevisionHasEvent'
    <2>1. /\ pc[p] = "commit" /\ Role(p) /\ TypeOK /\ Current' = Successor(p) /\ log' = log
          /\ home'["archive"] = home["archive"] /\ home'["abandoned"] = home["abandoned"]
      BY <1>10, CommitDoes DEF UpdateInv, Roles
    <2>2. Current'.revision = op[p].own.revision + 1 /\ op[p].own.revision \in Nat
      BY <2>1, SuccessorFields, OpTyped, StateTyped
    <2>3. ~Recreated("changes") => Current = op[p].own /\ Current # NoState
      BY <1>10, <2>1, OpTyped, StateTyped
      DEF UpdateInv, CriticalIsCurrent, Critical, InPlace, Late, Recreated
    <2>4. ~Recreated("changes") => 2..Current'.revision \subseteq log["changes"]
      <3>1. ~Recreated("changes") => /\ 2..op[p].own.revision \subseteq log["changes"]
                                     /\ op[p].own.revision + 1 \in log["changes"]
        BY <2>1, <2>3 DEF EveryRevisionHasEvent, EventsPrecede, Directory, Current
      <3> QED
        BY <2>2, <3>1
    <2> QED
      BY <2>1, <2>4 DEF EveryRevisionHasEvent, Recreated, Directory, Current
  <1>11. ASSUME NEW p \in Process, Move(p) PROVE EveryRevisionHasEvent'
    <2>1. CASE home' = home /\ log' = log
      BY <2>1 DEF EveryRevisionHasEvent, Recreated
    <2>2. CASE /\ Command(p) = "finalize" /\ home["archive"] = NoState
               /\ home'["archive"] = Current /\ log'["archive"] = log["changes"]
               /\ home'["abandoned"] = home["abandoned"] /\ Current' = NoState
      <3>1. home["abandoned"] = NoState
        BY <1>11, <2>2, MoveDoes, MoveLeads, MainMovesFirst DEF UpdateInv
      <3> QED
        BY <1>11, <2>2, <3>1 DEF EveryRevisionHasEvent, Recreated, Directory, Current
    <2>3. CASE /\ home["abandoned"] = NoState
               /\ home'["abandoned"] = Current /\ log'["abandoned"] = log["changes"]
               /\ home'["archive"] = home["archive"] /\ log'["archive"] = log["archive"]
               /\ Current' = NoState
      BY <2>3 DEF EveryRevisionHasEvent, Recreated, Directory, Current
    <2> QED
      BY <1>11, <2>1, <2>2, <2>3, MoveDoes DEF UpdateInv
  <1>12. ASSUME NEW p \in Process, Verify(p) PROVE EveryRevisionHasEvent'
    BY <1>12, VerifyDoes DEF UpdateInv, EveryRevisionHasEvent, Recreated, Directory, Current
  <1>13. ASSUME NEW p \in Process, Report(p) PROVE EveryRevisionHasEvent'
    BY <1>13, ReportDoes DEF UpdateInv, EveryRevisionHasEvent, Recreated, Directory, Current
  <1>14. ASSUME NEW p \in Process, UndoMove(p) PROVE EveryRevisionHasEvent'
    <2>1. home["abandoned"] = NoState
      BY <1>14, UndoMoveDoes, UndoMoveLeads, MainMovesFirst DEF UpdateInv
    <2> QED
      BY <1>14, <2>1, UndoMoveDoes
      DEF UpdateInv, EveryRevisionHasEvent, Recreated, Directory, Current
  <1>15. ASSUME NEW p \in Process, UndoState(p) PROVE EveryRevisionHasEvent'
    BY <1>15, UndoStateDoes DEF UpdateInv, EveryRevisionHasEvent, Recreated, Directory, Current
  <1>16. ASSUME NEW p \in Process, Crash(p) PROVE EveryRevisionHasEvent'
    BY <1>16, CrashDoes DEF UpdateInv, EveryRevisionHasEvent, Recreated, Directory, Current
  <1>17. CASE UNCHANGED vars
    BY <1>17 DEF vars, files, material, EveryRevisionHasEvent, Recreated, Directory, Current
  <1>18. QED
    BY <1>1, <1>2, <1>3, <1>4, <1>5, <1>6, <1>7, <1>8, <1>9, <1>10, <1>11, <1>12, <1>13, <1>14,
       <1>15, <1>16, <1>17
    DEF Next

LEMMA PendingStep ==
    UpdateInv /\ PlacesAreFinal /\ EventsPrecede /\ [Next]_vars => EventsPrecede'
  <1> SUFFICES ASSUME UpdateInv /\ PlacesAreFinal /\ EventsPrecede, [Next]_vars
               PROVE EventsPrecede'
    OBVIOUS
  <1>1. ASSUME NEW p \in Process, Begin(p) PROVE EventsPrecede'
    <2>1. \A q \in Process : pc'[q] = "commit" => pc[q] = "commit" /\ op'[q] = op[q]
      BY <1>1, BeginDoes DEF OthersStay, Ends, UpdateInv
    <2>2. home' = home /\ log' = log
      BY <1>1, BeginDoes DEF UpdateInv
    <2>3. Withdrawable' => Withdrawable
      BY <1>1, WithdrawableStays
    <2> QED
      BY <2>1, <2>2, <2>3 DEF EventsPrecede, Recreated, Current
  <1>2. ASSUME NEW p \in Process, Read(p) PROVE EventsPrecede'
    <2>1. \A q \in Process : pc'[q] = "commit" => pc[q] = "commit" /\ op'[q] = op[q]
      BY <1>2, ReadDoes DEF OthersStay, Ends, UpdateInv, AfterRead
    <2>2. home' = home /\ log' = log
      BY <1>2, ReadDoes DEF UpdateInv
    <2>3. Withdrawable' => Withdrawable
      BY <1>2, WithdrawableStays
    <2> QED
      BY <2>1, <2>2, <2>3 DEF EventsPrecede, Recreated, Current
  <1>3. ASSUME NEW p \in Process, Seal(p) PROVE EventsPrecede'
    <2>1. \A q \in Process : pc'[q] = "commit" => pc[q] = "commit" /\ op'[q] = op[q]
      BY <1>3, SealDoes DEF OthersStay, Ends, UpdateInv
    <2>2. home' = home /\ log' = log
      BY <1>3, SealDoes DEF UpdateInv
    <2>3. Withdrawable' => Withdrawable
      BY <1>3, WithdrawableStays
    <2> QED
      BY <2>1, <2>2, <2>3 DEF EventsPrecede, Recreated, Current
  <1>4. ASSUME NEW p \in Process, Prove(p) PROVE EventsPrecede'
    <2>1. \A q \in Process : pc'[q] = "commit" => pc[q] = "commit" /\ op'[q] = op[q]
      BY <1>4, ProveDoes DEF OthersStay, Ends, UpdateInv
    <2>2. home' = home /\ log' = log
      BY <1>4, ProveDoes DEF UpdateInv
    <2>3. Withdrawable' => Withdrawable
      BY <1>4, WithdrawableStays
    <2> QED
      BY <2>1, <2>2, <2>3 DEF EventsPrecede, Recreated, Current
  <1>5. ASSUME NEW p \in Process, Reread(p) PROVE EventsPrecede'
    <2>1. \A q \in Process : pc'[q] = "commit" => pc[q] = "commit" /\ op'[q] = op[q]
      BY <1>5, RereadDoes DEF OthersStay, Ends, UpdateInv
    <2>2. home' = home /\ log' = log
      BY <1>5, RereadDoes DEF UpdateInv
    <2>3. Withdrawable' => Withdrawable
      BY <1>5, WithdrawableStays
    <2> QED
      BY <2>1, <2>2, <2>3 DEF EventsPrecede, Recreated, Current
  <1>6. ASSUME NEW p \in Process, Write(p) PROVE EventsPrecede'
    <2>1. \A q \in Process : pc'[q] = "commit" => pc[q] = "commit" /\ op'[q] = op[q]
      BY <1>6, WriteDoes DEF OthersStay, Ends, UpdateInv
    <2>2. home' = home /\ log' = log
      BY <1>6, WriteDoes DEF UpdateInv
    <2>3. Withdrawable' => Withdrawable
      BY <1>6, WithdrawableStays
    <2> QED
      BY <2>1, <2>2, <2>3 DEF EventsPrecede, Recreated, Current
  <1>7. ASSUME NEW p \in Process, HookRead(p) PROVE EventsPrecede'
    <2>1. \A q \in Process : pc'[q] = "commit" => pc[q] = "commit" /\ op'[q] = op[q]
      BY <1>7, HookReadDoes DEF OthersStay, Ends, UpdateInv
    <2>2. home' = home /\ log' = log
      BY <1>7, HookReadDoes DEF UpdateInv
    <2>3. Withdrawable' => Withdrawable
      BY <1>7, WithdrawableStays
    <2> QED
      BY <2>1, <2>2, <2>3 DEF EventsPrecede, Recreated, Current
  <1>8. ASSUME NEW p \in Process, Compare(p) PROVE EventsPrecede'
    <2>1. \A q \in Process : pc'[q] = "commit" => pc[q] = "commit" /\ op'[q] = op[q]
      BY <1>8, CompareDoes DEF OthersStay, Ends, UpdateInv
    <2>2. home' = home /\ log' = log
      BY <1>8, CompareDoes DEF UpdateInv
    <2>3. Withdrawable' => Withdrawable
      BY <1>8, WithdrawableStays
    <2> QED
      BY <2>1, <2>2, <2>3 DEF EventsPrecede, Recreated, Current
  <1>9. ASSUME NEW p \in Process, AppendEvent(p) PROVE EventsPrecede'
    <2>1. /\ OthersStay(p) /\ home' = home /\ op'[p] = op[p] /\ pc[p] = "event"
          /\ log'["changes"] = log["changes"] \cup {op[p].own.revision + 1}
          /\ ~Withdrawable'
      BY <1>9, AppendEventDoes DEF UpdateInv, Withdrawable
    <2>2. \A q \in Process \ {p} : pc'[q] # "commit"
      BY <2>1 DEF OthersStay, UpdateInv, OneCritical, Critical
    <2> QED
      BY <2>1, <2>2 DEF EventsPrecede, Recreated, Current
  <1>10. ASSUME NEW p \in Process, Commit(p) PROVE EventsPrecede'
    BY <1>10, CommitLeads DEF EventsPrecede, Critical
  <1>11. ASSUME NEW p \in Process, Move(p) PROVE EventsPrecede'
    <2>1. \A q \in Process : /\ op'[q] = op[q] /\ (pc'[q] = "commit" => pc[q] = "commit")
                             /\ pc[q] = "commit" => op[q].own = Current
      BY <1>11, MoveDoes, MoveLeads DEF UpdateInv, OthersStay, Critical, InPlace
    <2>2. Current # NoState /\ p \in Main /\ ~(~present)
      BY <1>11, MoveLeads
    <2>3. CASE home' = home /\ log' = log /\ present' = present
      BY <2>1, <2>2, <2>3 DEF EventsPrecede, Recreated, Current, Withdrawable
    <2>4. CASE /\ Command(p) = "finalize" /\ home["archive"] = NoState
               /\ log'["archive"] = log["changes"] /\ Current' = NoState
      <3>1. ~Recreated("changes")
        BY <1>11, <2>2, <2>4, MoveDoes, MainMovesFirst DEF UpdateInv, Recreated
      <3> QED
        BY <2>1, <2>2, <2>4, <3>1 DEF EventsPrecede
    <2>5. CASE pc'[p] = "report" /\ Current' = NoState
      BY <1>11, <2>5, MoveLeads DEF EventsPrecede, Withdrawable
    <2> QED
      BY <1>11, <2>3, <2>4, <2>5, MoveDoes DEF UpdateInv
  <1>12. ASSUME NEW p \in Process, Verify(p) PROVE EventsPrecede'
    <2>1. \A q \in Process : pc'[q] = "commit" => pc[q] = "commit" /\ op'[q] = op[q]
      BY <1>12, VerifyDoes DEF OthersStay, Ends, UpdateInv
    <2>2. home' = home /\ log' = log
      BY <1>12, VerifyDoes DEF UpdateInv
    <2>3. Withdrawable' => Withdrawable
      BY <1>12, WithdrawableStays
    <2> QED
      BY <2>1, <2>2, <2>3 DEF EventsPrecede, Recreated, Current
  <1>13. ASSUME NEW p \in Process, Report(p) PROVE EventsPrecede'
    <2>1. \A q \in Process : pc'[q] = "commit" => pc[q] = "commit" /\ op'[q] = op[q]
      BY <1>13, ReportDoes DEF OthersStay, Ends, UpdateInv
    <2>2. home' = home /\ log' = log
      BY <1>13, ReportDoes DEF UpdateInv
    <2>3. Withdrawable' => Withdrawable
      BY <1>13, WithdrawableStays
    <2> QED
      BY <2>1, <2>2, <2>3 DEF EventsPrecede, Recreated, Current
  <1>14. ASSUME NEW p \in Process, UndoMove(p) PROVE EventsPrecede'
    <2>1. \A q \in Process : pc'[q] = "commit" => pc[q] = "commit" /\ op'[q] = op[q]
      BY <1>14, UndoMoveDoes DEF OthersStay, Ends, UpdateInv
    <2>2. ~Withdrawable' /\ home["abandoned"] = NoState
      BY <1>14, UndoMoveDoes, UndoMoveLeads, MainMovesFirst DEF UpdateInv
    <2>3. CASE home' = home /\ log' = log
      BY <2>1, <2>2, <2>3 DEF EventsPrecede, Recreated, Current
    <2>4. CASE Withdrawable /\ log'["changes"] = log["archive"]
      BY <2>1, <2>2, <2>4 DEF EventsPrecede
    <2> QED
      BY <1>14, <2>3, <2>4, UndoMoveDoes, UndoMoveLeads DEF UpdateInv, Exists
  <1>15. ASSUME NEW p \in Process, UndoState(p) PROVE EventsPrecede'
    <2>1. \A q \in Process : pc'[q] = "commit" => pc[q] = "commit" /\ op'[q] = op[q]
      BY <1>15, UndoStateDoes DEF OthersStay, Ends, UpdateInv
    <2>2. home' = home /\ log' = log
      BY <1>15, UndoStateDoes DEF UpdateInv
    <2>3. Withdrawable' => Withdrawable
      BY <1>15, WithdrawableStays
    <2> QED
      BY <2>1, <2>2, <2>3 DEF EventsPrecede, Recreated, Current
  <1>16. ASSUME NEW p \in Process, Crash(p) PROVE EventsPrecede'
    <2>1. \A q \in Process : pc'[q] = "commit" => pc[q] = "commit" /\ op'[q] = op[q]
      BY <1>16, CrashDoes DEF OthersStay, Ends, UpdateInv
    <2>2. home' = home /\ log' = log
      BY <1>16, CrashDoes DEF UpdateInv
    <2>3. Withdrawable' => Withdrawable
      BY <1>16, WithdrawableStays
    <2> QED
      BY <2>1, <2>2, <2>3 DEF EventsPrecede, Recreated, Current
  <1>17. CASE UNCHANGED vars
    BY <1>17 DEF vars, files, material, EventsPrecede, Withdrawable, Recreated, Current
  <1>18. QED
    BY <1>1, <1>2, <1>3, <1>4, <1>5, <1>6, <1>7, <1>8, <1>9, <1>10, <1>11, <1>12, <1>13, <1>14,
       <1>15, <1>16, <1>17
    DEF Next

LEMMA FreshStep ==
    UpdateInv /\ StatesSee /\ ValidationSees /\ FreshUnlessUnmarked /\ [Next]_vars =>
      FreshUnlessUnmarked'
  <1> SUFFICES ASSUME UpdateInv /\ StatesSee /\ ValidationSees /\ FreshUnlessUnmarked, [Next]_vars
               PROVE FreshUnlessUnmarked'
    OBVIOUS
  <1>1. ASSUME NEW p \in Process, Begin(p) PROVE FreshUnlessUnmarked'
    <2>1. Current' = Current
      BY <1>1, BeginDoes DEF UpdateInv, Current
    <2>2. Current # NoState /\ Current.validation = "fresh" =>
            Current.sealed \in Nat /\ Sees(Current.sealed)
      BY OpTyped, StateTyped, BoundsAssumption DEF UpdateInv, FreshUnlessUnmarked, Sees
    <2> QED
      BY <1>1, <2>1, <2>2, SeesStays DEF FreshUnlessUnmarked
  <1>2. ASSUME NEW p \in Process, Read(p) PROVE FreshUnlessUnmarked'
    <2>1. Current' = Current
      BY <1>2, ReadDoes DEF UpdateInv, Current
    <2>2. Current # NoState /\ Current.validation = "fresh" =>
            Current.sealed \in Nat /\ Sees(Current.sealed)
      BY OpTyped, StateTyped, BoundsAssumption DEF UpdateInv, FreshUnlessUnmarked, Sees
    <2> QED
      BY <1>2, <2>1, <2>2, SeesStays DEF FreshUnlessUnmarked
  <1>3. ASSUME NEW p \in Process, Seal(p) PROVE FreshUnlessUnmarked'
    <2>1. Current' = Current
      BY <1>3, SealDoes DEF UpdateInv, Current
    <2>2. Current # NoState /\ Current.validation = "fresh" =>
            Current.sealed \in Nat /\ Sees(Current.sealed)
      BY OpTyped, StateTyped, BoundsAssumption DEF UpdateInv, FreshUnlessUnmarked, Sees
    <2> QED
      BY <1>3, <2>1, <2>2, SeesStays DEF FreshUnlessUnmarked
  <1>4. ASSUME NEW p \in Process, Prove(p) PROVE FreshUnlessUnmarked'
    <2>1. Current' = Current
      BY <1>4, ProveDoes DEF UpdateInv, Current
    <2>2. Current # NoState /\ Current.validation = "fresh" =>
            Current.sealed \in Nat /\ Sees(Current.sealed)
      BY OpTyped, StateTyped, BoundsAssumption DEF UpdateInv, FreshUnlessUnmarked, Sees
    <2> QED
      BY <1>4, <2>1, <2>2, SeesStays DEF FreshUnlessUnmarked
  <1>5. ASSUME NEW p \in Process, Reread(p) PROVE FreshUnlessUnmarked'
    <2>1. Current' = Current
      BY <1>5, RereadDoes DEF UpdateInv, Current
    <2>2. Current # NoState /\ Current.validation = "fresh" =>
            Current.sealed \in Nat /\ Sees(Current.sealed)
      BY OpTyped, StateTyped, BoundsAssumption DEF UpdateInv, FreshUnlessUnmarked, Sees
    <2> QED
      BY <1>5, <2>1, <2>2, SeesStays DEF FreshUnlessUnmarked
  <1>6. ASSUME NEW p \in Process, Write(p) PROVE FreshUnlessUnmarked'
    <2>1. Current' = Current
      BY <1>6, WriteDoes DEF UpdateInv, Current
    <2>2. Current # NoState /\ Current.validation = "fresh" =>
            Current.sealed \in Nat /\ Sees(Current.sealed)
      BY OpTyped, StateTyped, BoundsAssumption DEF UpdateInv, FreshUnlessUnmarked, Sees
    <2> QED
      BY <1>6, <2>1, <2>2, SeesStays DEF FreshUnlessUnmarked
  <1>7. ASSUME NEW p \in Process, HookRead(p) PROVE FreshUnlessUnmarked'
    <2>1. Current' = Current
      BY <1>7, HookReadDoes DEF UpdateInv, Current
    <2>2. Current # NoState /\ Current.validation = "fresh" =>
            Current.sealed \in Nat /\ Sees(Current.sealed)
      BY OpTyped, StateTyped, BoundsAssumption DEF UpdateInv, FreshUnlessUnmarked, Sees
    <2> QED
      BY <1>7, <2>1, <2>2, SeesStays DEF FreshUnlessUnmarked
  <1>8. ASSUME NEW p \in Process, Compare(p) PROVE FreshUnlessUnmarked'
    <2>1. Current' = Current
      BY <1>8, CompareDoes DEF UpdateInv, Current
    <2>2. Current # NoState /\ Current.validation = "fresh" =>
            Current.sealed \in Nat /\ Sees(Current.sealed)
      BY OpTyped, StateTyped, BoundsAssumption DEF UpdateInv, FreshUnlessUnmarked, Sees
    <2> QED
      BY <1>8, <2>1, <2>2, SeesStays DEF FreshUnlessUnmarked
  <1>9. ASSUME NEW p \in Process, AppendEvent(p) PROVE FreshUnlessUnmarked'
    <2>1. Current' = Current
      BY <1>9, AppendEventDoes DEF UpdateInv, Current
    <2>2. Current # NoState /\ Current.validation = "fresh" =>
            Current.sealed \in Nat /\ Sees(Current.sealed)
      BY OpTyped, StateTyped, BoundsAssumption DEF UpdateInv, FreshUnlessUnmarked, Sees
    <2> QED
      BY <1>9, <2>1, <2>2, SeesStays DEF FreshUnlessUnmarked
  <1>10. ASSUME NEW p \in Process, Commit(p) PROVE FreshUnlessUnmarked'
    <2>1. /\ pc[p] = "commit" /\ Role(p) /\ Critical(p) /\ TypeOK /\ Current' = Successor(p)
      BY <1>10, CommitDoes DEF UpdateInv, Roles, Critical
    <2>2. /\ Current'.validation = IF Command(p) = "validate" THEN "fresh"
                 ELSE IF Command(p) \in {"stale", "write"} THEN "stale" ELSE op[p].own.validation
          /\ Current'.sealed = IF Command(p) = "validate" THEN op[p].mark
                 ELSE IF Command(p) \in {"stale", "write"} THEN 0 ELSE op[p].own.sealed
      BY <2>1, SuccessorFields
    <2>3. op[p].mark \in Nat /\ op[p].own.sealed \in Nat
      BY <2>1, OpTyped, StateTyped, BoundsAssumption
    <2> SUFFICES ASSUME Current'.validation = "fresh"
        PROVE  \A w \in indexed' : w > Current'.sealed => w \in unmarked'
      BY DEF FreshUnlessUnmarked
    <2>4. CASE Command(p) = "validate"
      <3>1. p \in Main
        BY <2>1, <2>4 DEF Role, CommandsOf
      <3>2. Current = op[p].own
        BY <1>10, <2>1, <3>1, CommitLeads DEF UpdateInv, MainFinds, Reading
      <3>3. Sees(op[p].mark)
        BY <2>1, <2>4, <3>1, <3>2 DEF ValidationSees
      <3> QED
        BY <1>10, <2>2, <2>3, <2>4, <3>3, SeesStays
    <2>5. CASE Command(p) # "validate"
      <3>1. Command(p) \notin {"stale", "write"} /\ op[p].own.validation = "fresh"
        BY <2>2, <2>5
      <3>2. Sees(op[p].own.sealed)
        BY <2>1, <3>1 DEF StatesSee
      <3> QED
        BY <1>10, <2>2, <2>3, <2>5, <3>1, <3>2, SeesStays
    <2> QED
      BY <2>4, <2>5
  <1>11. ASSUME NEW p \in Process, Move(p) PROVE FreshUnlessUnmarked'
    <2>1. Current # NoState /\ (Current' = Current \/ Current' = NoState)
      BY <1>11, MoveLeads DEF Current
    <2>2. Current.validation = "fresh" => Current.sealed \in Nat /\ Sees(Current.sealed)
      BY <2>1, OpTyped, StateTyped, BoundsAssumption DEF UpdateInv, FreshUnlessUnmarked, Sees
    <2> QED
      BY <1>11, <2>1, <2>2, SeesStays DEF FreshUnlessUnmarked
  <1>12. ASSUME NEW p \in Process, Verify(p) PROVE FreshUnlessUnmarked'
    <2>1. Current' = Current
      BY <1>12, VerifyDoes DEF UpdateInv, Current
    <2>2. Current # NoState /\ Current.validation = "fresh" =>
            Current.sealed \in Nat /\ Sees(Current.sealed)
      BY OpTyped, StateTyped, BoundsAssumption DEF UpdateInv, FreshUnlessUnmarked, Sees
    <2> QED
      BY <1>12, <2>1, <2>2, SeesStays DEF FreshUnlessUnmarked
  <1>13. ASSUME NEW p \in Process, Report(p) PROVE FreshUnlessUnmarked'
    <2>1. Current' = Current
      BY <1>13, ReportDoes DEF UpdateInv, Current
    <2>2. Current # NoState /\ Current.validation = "fresh" =>
            Current.sealed \in Nat /\ Sees(Current.sealed)
      BY OpTyped, StateTyped, BoundsAssumption DEF UpdateInv, FreshUnlessUnmarked, Sees
    <2> QED
      BY <1>13, <2>1, <2>2, SeesStays DEF FreshUnlessUnmarked
  <1>14. ASSUME NEW p \in Process, UndoMove(p) PROVE FreshUnlessUnmarked'
    <2>1. CASE home' = home
      <3>1. Current # NoState /\ Current.validation = "fresh" =>
              Current.sealed \in Nat /\ Sees(Current.sealed)
        BY OpTyped, StateTyped, BoundsAssumption DEF UpdateInv, FreshUnlessUnmarked, Sees
      <3> QED
        BY <1>14, <2>1, <3>1, SeesStays DEF FreshUnlessUnmarked, Current
    <2>2. CASE Withdrawable /\ home["archive"] # NoState /\ Current' = home["archive"]
      <3>1. home["archive"].validation = "fresh"
              => home["archive"].sealed \in Nat /\ Sees(home["archive"].sealed)
        BY <2>2, StateTyped, BoundsAssumption DEF UpdateInv, TypeOK, Directory, StatesSee
      <3> QED
        BY <1>14, <2>2, <3>1, SeesStays DEF FreshUnlessUnmarked
    <2> QED
      BY <1>14, <2>1, <2>2, UndoMoveLeads
  <1>15. ASSUME NEW p \in Process, UndoState(p) PROVE FreshUnlessUnmarked'
    <2>1. Current' = Current
      BY <1>15, UndoStateDoes DEF UpdateInv, Current
    <2>2. Current # NoState /\ Current.validation = "fresh" =>
            Current.sealed \in Nat /\ Sees(Current.sealed)
      BY OpTyped, StateTyped, BoundsAssumption DEF UpdateInv, FreshUnlessUnmarked, Sees
    <2> QED
      BY <1>15, <2>1, <2>2, SeesStays DEF FreshUnlessUnmarked
  <1>16. ASSUME NEW p \in Process, Crash(p) PROVE FreshUnlessUnmarked'
    <2>1. Current' = Current
      BY <1>16, CrashDoes DEF UpdateInv, Current
    <2>2. Current # NoState /\ Current.validation = "fresh" =>
            Current.sealed \in Nat /\ Sees(Current.sealed)
      BY OpTyped, StateTyped, BoundsAssumption DEF UpdateInv, FreshUnlessUnmarked, Sees
    <2> QED
      BY <1>16, <2>1, <2>2, SeesStays DEF FreshUnlessUnmarked
  <1>17. CASE UNCHANGED vars
    BY <1>17 DEF vars, files, material, FreshUnlessUnmarked, Current
  <1>18. QED
    BY <1>1, <1>2, <1>3, <1>4, <1>5, <1>6, <1>7, <1>8, <1>9, <1>10, <1>11, <1>12, <1>13, <1>14,
       <1>15, <1>16, <1>17
    DEF Next

LEMMA StatesSeeStep ==
    UpdateInv /\ StatesSee /\ ValidationSees /\ FreshUnlessUnmarked /\ [Next]_vars => StatesSee'
  <1> SUFFICES ASSUME UpdateInv /\ StatesSee /\ ValidationSees /\ FreshUnlessUnmarked, [Next]_vars
               PROVE StatesSee'
    OBVIOUS
  <1>1. ASSUME NEW p \in Process, Begin(p) PROVE StatesSee'
    <2>1. \A q \in Process : Critical(q)' => Critical(q) /\ op'[q] = op[q]
      BY <1>1, BeginDoes DEF OthersStay, Ends, UpdateInv, Critical
    <2>2. \A q \in Process : Critical(q)' /\ op'[q].own.validation = "fresh"
            => \A w \in indexed' : w > op'[q].own.sealed => w \in unmarked'
      BY <1>1, <2>1, SeesStays, OpTyped, StateTyped, BoundsAssumption DEF UpdateInv, StatesSee
    <2>3. ASSUME Withdrawable', home'["archive"].validation = "fresh"
          PROVE  \A w \in indexed' : w > home'["archive"].sealed => w \in unmarked'
      BY <1>1, <2>3, WithdrawableStays, ArchiveTyped, SeesStays DEF StatesSee
    <2> QED
      BY <2>2, <2>3 DEF StatesSee, Sees
  <1>2. ASSUME NEW p \in Process, Read(p) PROVE StatesSee'
    <2>1. \A q \in Process : Critical(q)' => Critical(q) /\ op'[q] = op[q]
      BY <1>2, ReadDoes DEF OthersStay, Ends, UpdateInv, Critical, AfterRead
    <2>2. \A q \in Process : Critical(q)' /\ op'[q].own.validation = "fresh"
            => \A w \in indexed' : w > op'[q].own.sealed => w \in unmarked'
      BY <1>2, <2>1, SeesStays, OpTyped, StateTyped, BoundsAssumption DEF UpdateInv, StatesSee
    <2>3. ASSUME Withdrawable', home'["archive"].validation = "fresh"
          PROVE  \A w \in indexed' : w > home'["archive"].sealed => w \in unmarked'
      BY <1>2, <2>3, WithdrawableStays, ArchiveTyped, SeesStays DEF StatesSee
    <2> QED
      BY <2>2, <2>3 DEF StatesSee, Sees
  <1>3. ASSUME NEW p \in Process, Seal(p) PROVE StatesSee'
    <2>1. \A q \in Process : Critical(q)' => Critical(q) /\ op'[q] = op[q]
      BY <1>3, SealDoes DEF OthersStay, Ends, UpdateInv, Critical
    <2>2. \A q \in Process : Critical(q)' /\ op'[q].own.validation = "fresh"
            => \A w \in indexed' : w > op'[q].own.sealed => w \in unmarked'
      BY <1>3, <2>1, SeesStays, OpTyped, StateTyped, BoundsAssumption DEF UpdateInv, StatesSee
    <2>3. ASSUME Withdrawable', home'["archive"].validation = "fresh"
          PROVE  \A w \in indexed' : w > home'["archive"].sealed => w \in unmarked'
      BY <1>3, <2>3, WithdrawableStays, ArchiveTyped, SeesStays DEF StatesSee
    <2> QED
      BY <2>2, <2>3 DEF StatesSee, Sees
  <1>4. ASSUME NEW p \in Process, Prove(p) PROVE StatesSee'
    <2>1. \A q \in Process : Critical(q)' => Critical(q) /\ op'[q] = op[q]
      BY <1>4, ProveDoes DEF OthersStay, Ends, UpdateInv, Critical
    <2>2. \A q \in Process : Critical(q)' /\ op'[q].own.validation = "fresh"
            => \A w \in indexed' : w > op'[q].own.sealed => w \in unmarked'
      BY <1>4, <2>1, SeesStays, OpTyped, StateTyped, BoundsAssumption DEF UpdateInv, StatesSee
    <2>3. ASSUME Withdrawable', home'["archive"].validation = "fresh"
          PROVE  \A w \in indexed' : w > home'["archive"].sealed => w \in unmarked'
      BY <1>4, <2>3, WithdrawableStays, ArchiveTyped, SeesStays DEF StatesSee
    <2> QED
      BY <2>2, <2>3 DEF StatesSee, Sees
  <1>5. ASSUME NEW p \in Process, Reread(p) PROVE StatesSee'
    <2>1. \A q \in Process : Critical(q)' => Critical(q) /\ op'[q] = op[q]
      BY <1>5, RereadDoes DEF OthersStay, Ends, UpdateInv, Critical
    <2>2. \A q \in Process : Critical(q)' /\ op'[q].own.validation = "fresh"
            => \A w \in indexed' : w > op'[q].own.sealed => w \in unmarked'
      BY <1>5, <2>1, SeesStays, OpTyped, StateTyped, BoundsAssumption DEF UpdateInv, StatesSee
    <2>3. ASSUME Withdrawable', home'["archive"].validation = "fresh"
          PROVE  \A w \in indexed' : w > home'["archive"].sealed => w \in unmarked'
      BY <1>5, <2>3, WithdrawableStays, ArchiveTyped, SeesStays DEF StatesSee
    <2> QED
      BY <2>2, <2>3 DEF StatesSee, Sees
  <1>6. ASSUME NEW p \in Process, Write(p) PROVE StatesSee'
    <2>1. \A q \in Process : Critical(q)' => Critical(q) /\ op'[q] = op[q]
      BY <1>6, WriteDoes DEF OthersStay, Ends, UpdateInv, Critical
    <2>2. \A q \in Process : Critical(q)' /\ op'[q].own.validation = "fresh"
            => \A w \in indexed' : w > op'[q].own.sealed => w \in unmarked'
      BY <1>6, <2>1, SeesStays, OpTyped, StateTyped, BoundsAssumption DEF UpdateInv, StatesSee
    <2>3. ASSUME Withdrawable', home'["archive"].validation = "fresh"
          PROVE  \A w \in indexed' : w > home'["archive"].sealed => w \in unmarked'
      BY <1>6, <2>3, WithdrawableStays, ArchiveTyped, SeesStays DEF StatesSee
    <2> QED
      BY <2>2, <2>3 DEF StatesSee, Sees
  <1>7. ASSUME NEW p \in Process, HookRead(p) PROVE StatesSee'
    <2>1. \A q \in Process : Critical(q)' => Critical(q) /\ op'[q] = op[q]
      BY <1>7, HookReadDoes DEF OthersStay, Ends, UpdateInv, Critical
    <2>2. \A q \in Process : Critical(q)' /\ op'[q].own.validation = "fresh"
            => \A w \in indexed' : w > op'[q].own.sealed => w \in unmarked'
      BY <1>7, <2>1, SeesStays, OpTyped, StateTyped, BoundsAssumption DEF UpdateInv, StatesSee
    <2>3. ASSUME Withdrawable', home'["archive"].validation = "fresh"
          PROVE  \A w \in indexed' : w > home'["archive"].sealed => w \in unmarked'
      BY <1>7, <2>3, WithdrawableStays, ArchiveTyped, SeesStays DEF StatesSee
    <2> QED
      BY <2>2, <2>3 DEF StatesSee, Sees
  <1>8. ASSUME NEW p \in Process, Compare(p) PROVE StatesSee'
    <2>1. \A q \in Process : Critical(q)' => \/ Critical(q) /\ op'[q] = op[q]
                                             \/ Current # NoState /\ op'[q].own = Current
      BY <1>8, CompareLeads DEF Reading
    <2>2. Current # NoState /\ Current.validation = "fresh" =>
            Current.sealed \in Nat /\ Sees(Current.sealed)
      BY OpTyped, StateTyped, BoundsAssumption DEF UpdateInv, FreshUnlessUnmarked, Sees
    <2>3. \A q \in Process : Critical(q)' /\ op'[q].own.validation = "fresh"
            => \A w \in indexed' : w > op'[q].own.sealed => w \in unmarked'
      BY <1>8, <2>1, <2>2, SeesStays, OpTyped, StateTyped, BoundsAssumption
      DEF UpdateInv, StatesSee
    <2>4. ASSUME Withdrawable', home'["archive"].validation = "fresh"
          PROVE  \A w \in indexed' : w > home'["archive"].sealed => w \in unmarked'
      BY <1>8, <2>4, WithdrawableStays, ArchiveTyped, SeesStays DEF StatesSee
    <2> QED
      BY <2>3, <2>4 DEF StatesSee, Sees
  <1>9. ASSUME NEW p \in Process, AppendEvent(p) PROVE StatesSee'
    <2>1. \A q \in Process : Critical(q)' => Critical(q) /\ op'[q] = op[q]
      BY <1>9, AppendEventDoes DEF OthersStay, Ends, UpdateInv, Critical
    <2>2. \A q \in Process : Critical(q)' /\ op'[q].own.validation = "fresh"
            => \A w \in indexed' : w > op'[q].own.sealed => w \in unmarked'
      BY <1>9, <2>1, SeesStays, OpTyped, StateTyped, BoundsAssumption DEF UpdateInv, StatesSee
    <2>3. ASSUME Withdrawable', home'["archive"].validation = "fresh"
          PROVE  \A w \in indexed' : w > home'["archive"].sealed => w \in unmarked'
      BY <1>9, <2>3, WithdrawableStays, ArchiveTyped, SeesStays DEF StatesSee
    <2> QED
      BY <2>2, <2>3 DEF StatesSee, Sees
  <1>10. ASSUME NEW p \in Process, Commit(p) PROVE StatesSee'
    BY <1>10, CommitLeads DEF StatesSee
  <1>11. ASSUME NEW p \in Process, Move(p) PROVE StatesSee'
    <2>1. \A q \in Process : Critical(q)' => Critical(q) /\ op'[q] = op[q]
      BY <1>11, MoveLeads
    <2>2. \A q \in Process : Critical(q)' /\ op'[q].own.validation = "fresh"
            => \A w \in indexed' : w > op'[q].own.sealed => w \in unmarked'
      BY <1>11, <2>1, SeesStays, OpTyped, StateTyped, BoundsAssumption DEF UpdateInv, StatesSee
    <2>3. Current.validation = "fresh" => Current.sealed \in Nat /\ Sees(Current.sealed)
      BY <1>11, MoveLeads, OpTyped, StateTyped, BoundsAssumption
      DEF UpdateInv, FreshUnlessUnmarked, Sees
    <2>4. ASSUME Withdrawable', home'["archive"].validation = "fresh"
          PROVE  \A w \in indexed' : w > home'["archive"].sealed => w \in unmarked'
      BY <1>11, <2>3, <2>4, MoveLeads, SeesStays
    <2> QED
      BY <2>2, <2>4 DEF StatesSee, Sees
  <1>12. ASSUME NEW p \in Process, Verify(p) PROVE StatesSee'
    <2>1. \A q \in Process : Critical(q)' => Critical(q) /\ op'[q] = op[q]
      BY <1>12, VerifyDoes DEF OthersStay, Ends, UpdateInv, Critical
    <2>2. \A q \in Process : Critical(q)' /\ op'[q].own.validation = "fresh"
            => \A w \in indexed' : w > op'[q].own.sealed => w \in unmarked'
      BY <1>12, <2>1, SeesStays, OpTyped, StateTyped, BoundsAssumption DEF UpdateInv, StatesSee
    <2>3. ASSUME Withdrawable', home'["archive"].validation = "fresh"
          PROVE  \A w \in indexed' : w > home'["archive"].sealed => w \in unmarked'
      BY <1>12, <2>3, WithdrawableStays, ArchiveTyped, SeesStays DEF StatesSee
    <2> QED
      BY <2>2, <2>3 DEF StatesSee, Sees
  <1>13. ASSUME NEW p \in Process, Report(p) PROVE StatesSee'
    <2>1. \A q \in Process : Critical(q)' => Critical(q) /\ op'[q] = op[q]
      BY <1>13, ReportDoes DEF OthersStay, Ends, UpdateInv, Critical
    <2>2. \A q \in Process : Critical(q)' /\ op'[q].own.validation = "fresh"
            => \A w \in indexed' : w > op'[q].own.sealed => w \in unmarked'
      BY <1>13, <2>1, SeesStays, OpTyped, StateTyped, BoundsAssumption DEF UpdateInv, StatesSee
    <2>3. ASSUME Withdrawable', home'["archive"].validation = "fresh"
          PROVE  \A w \in indexed' : w > home'["archive"].sealed => w \in unmarked'
      BY <1>13, <2>3, WithdrawableStays, ArchiveTyped, SeesStays DEF StatesSee
    <2> QED
      BY <2>2, <2>3 DEF StatesSee, Sees
  <1>14. ASSUME NEW p \in Process, UndoMove(p) PROVE StatesSee'
    <2>1. \A q \in Process : Critical(q)' => Critical(q) /\ op'[q] = op[q]
      BY <1>14, UndoMoveLeads
    <2>2. \A q \in Process : Critical(q)' /\ op'[q].own.validation = "fresh"
            => \A w \in indexed' : w > op'[q].own.sealed => w \in unmarked'
      BY <1>14, <2>1, SeesStays, OpTyped, StateTyped, BoundsAssumption DEF UpdateInv, StatesSee
    <2> QED
      BY <1>14, <2>2, UndoMoveLeads DEF StatesSee, Sees
  <1>15. ASSUME NEW p \in Process, UndoState(p) PROVE StatesSee'
    <2>1. \A q \in Process : Critical(q)' => Critical(q) /\ op'[q] = op[q]
      BY <1>15, UndoStateDoes DEF OthersStay, Ends, UpdateInv, Critical
    <2>2. \A q \in Process : Critical(q)' /\ op'[q].own.validation = "fresh"
            => \A w \in indexed' : w > op'[q].own.sealed => w \in unmarked'
      BY <1>15, <2>1, SeesStays, OpTyped, StateTyped, BoundsAssumption DEF UpdateInv, StatesSee
    <2>3. ASSUME Withdrawable', home'["archive"].validation = "fresh"
          PROVE  \A w \in indexed' : w > home'["archive"].sealed => w \in unmarked'
      BY <1>15, <2>3, WithdrawableStays, ArchiveTyped, SeesStays DEF StatesSee
    <2> QED
      BY <2>2, <2>3 DEF StatesSee, Sees
  <1>16. ASSUME NEW p \in Process, Crash(p) PROVE StatesSee'
    <2>1. \A q \in Process : Critical(q)' => Critical(q) /\ op'[q] = op[q]
      BY <1>16, CrashDoes DEF OthersStay, Ends, UpdateInv, Critical
    <2>2. \A q \in Process : Critical(q)' /\ op'[q].own.validation = "fresh"
            => \A w \in indexed' : w > op'[q].own.sealed => w \in unmarked'
      BY <1>16, <2>1, SeesStays, OpTyped, StateTyped, BoundsAssumption DEF UpdateInv, StatesSee
    <2>3. ASSUME Withdrawable', home'["archive"].validation = "fresh"
          PROVE  \A w \in indexed' : w > home'["archive"].sealed => w \in unmarked'
      BY <1>16, <2>3, WithdrawableStays, ArchiveTyped, SeesStays DEF StatesSee
    <2> QED
      BY <2>2, <2>3 DEF StatesSee, Sees
  <1>17. CASE UNCHANGED vars
    BY <1>17 DEF vars, files, material, StatesSee, Sees, Withdrawable, Critical
  <1>18. QED
    BY <1>1, <1>2, <1>3, <1>4, <1>5, <1>6, <1>7, <1>8, <1>9, <1>10, <1>11, <1>12, <1>13, <1>14,
       <1>15, <1>16, <1>17
    DEF Next

LEMMA ValidationSeesStep ==
    UpdateInv /\ StatesSee /\ ValidationSees /\ FreshUnlessUnmarked /\ [Next]_vars =>
      ValidationSees'
  <1> SUFFICES ASSUME UpdateInv /\ StatesSee /\ ValidationSees /\ FreshUnlessUnmarked, [Next]_vars
               PROVE ValidationSees'
    OBVIOUS
  <1>1. ASSUME NEW p \in Process, Begin(p) PROVE ValidationSees'
    <2>1. \A m \in Main : Command(m)' = "validate" /\ (pc'[m] = "compare" \/ Critical(m)')
            => /\ Command(m) = "validate" /\ (pc[m] = "compare" \/ Critical(m))
               /\ op'[m] = op[m] /\ op[m].mark \in Nat
      BY <1>1, BeginDoes, OneMain, OpTyped, BoundsAssumption
      DEF OthersStay, Ends, UpdateInv, Critical, Command, Roles, Role
    <2>2. Current' = Current
      BY <1>1, BeginDoes DEF UpdateInv, Current
    <2>3. \A m \in Main : Command(m)' = "validate" /\
            (pc'[m] = "compare" \/ Critical(m)') /\ op'[m].own = Current'
            => \A w \in indexed' : w > op'[m].mark => w \in unmarked'
      BY <1>1, <2>1, <2>2, SeesStays DEF ValidationSees
    <2> QED
      BY <2>3 DEF ValidationSees, Sees
  <1>2. ASSUME NEW p \in Process, Read(p) PROVE ValidationSees'
    <2>1. \A m \in Main : Command(m)' = "validate" /\ (pc'[m] = "compare" \/ Critical(m)')
            => /\ Command(m) = "validate" /\ (pc[m] = "compare" \/ Critical(m))
               /\ op'[m] = op[m] /\ op[m].mark \in Nat
      BY <1>2, ReadDoes, OneMain, OpTyped, BoundsAssumption
      DEF OthersStay, Ends, UpdateInv, Critical, Command, Roles, Role, AfterRead
    <2>2. Current' = Current
      BY <1>2, ReadDoes DEF UpdateInv, Current
    <2>3. \A m \in Main : Command(m)' = "validate" /\
            (pc'[m] = "compare" \/ Critical(m)') /\ op'[m].own = Current'
            => \A w \in indexed' : w > op'[m].mark => w \in unmarked'
      BY <1>2, <2>1, <2>2, SeesStays DEF ValidationSees
    <2> QED
      BY <2>3 DEF ValidationSees, Sees
  <1>3. ASSUME NEW p \in Process, Seal(p) PROVE ValidationSees'
    <2>1. /\ OthersStay(p) /\ Current' = Current /\ indexed' = indexed /\ unmarked' = unmarked
          /\ op'[p].mark = writes \/ pc'[p] = "idle"
      BY <1>3, SealDoes DEF UpdateInv, Current, Ends
    <2>2. indexed \in SUBSET (1..writes) /\ writes \in Nat
      BY BoundsAssumption DEF UpdateInv, TypeOK
    <2>3. ASSUME NEW m \in Main, Command(m)' = "validate", pc'[m] = "compare" \/ Critical(m)',
                 op'[m].own = Current'
          PROVE  \A w \in indexed' : w > op'[m].mark => w \in unmarked'
      <3>1. CASE m = p
        BY <2>1, <2>2, <2>3, <3>1 DEF Critical
      <3>2. CASE m # p
        BY <2>1, <2>3, <3>2, OneMain DEF OthersStay, ValidationSees, Sees, Critical, Command
      <3> QED
        BY <3>1, <3>2
    <2> QED
      BY <2>3 DEF ValidationSees, Sees
  <1>4. ASSUME NEW p \in Process, Prove(p) PROVE ValidationSees'
    <2>1. \A m \in Main : Command(m)' = "validate" /\ (pc'[m] = "compare" \/ Critical(m)')
            => /\ Command(m) = "validate" /\ (pc[m] = "compare" \/ Critical(m))
               /\ op'[m] = op[m] /\ op[m].mark \in Nat
      BY ZenonT(60), <1>4, ProveDoes, OneMain, OpTyped, BoundsAssumption
      DEF OthersStay, Ends, UpdateInv, Critical, Command, Roles, Role
    <2>2. Current' = Current
      BY <1>4, ProveDoes DEF UpdateInv, Current
    <2>3. \A m \in Main : Command(m)' = "validate" /\
            (pc'[m] = "compare" \/ Critical(m)') /\ op'[m].own = Current'
            => \A w \in indexed' : w > op'[m].mark => w \in unmarked'
      BY <1>4, <2>1, <2>2, SeesStays DEF ValidationSees
    <2> QED
      BY <2>3 DEF ValidationSees, Sees
  <1>5. ASSUME NEW p \in Process, Reread(p) PROVE ValidationSees'
    <2>1. \A m \in Main : Command(m)' = "validate" /\ (pc'[m] = "compare" \/ Critical(m)')
            => /\ Command(m) = "validate" /\ (pc[m] = "compare" \/ Critical(m))
               /\ op'[m] = op[m] /\ op[m].mark \in Nat
      BY <1>5, RereadDoes, OneMain, OpTyped, BoundsAssumption
      DEF OthersStay, Ends, UpdateInv, Critical, Command, Roles, Role
    <2>2. Current' = Current
      BY <1>5, RereadDoes DEF UpdateInv, Current
    <2>3. \A m \in Main : Command(m)' = "validate" /\
            (pc'[m] = "compare" \/ Critical(m)') /\ op'[m].own = Current'
            => \A w \in indexed' : w > op'[m].mark => w \in unmarked'
      BY <1>5, <2>1, <2>2, SeesStays DEF ValidationSees
    <2> QED
      BY <2>3 DEF ValidationSees, Sees
  <1>6. ASSUME NEW p \in Process, Write(p) PROVE ValidationSees'
    <2>1. \A m \in Main : Command(m)' = "validate" /\ (pc'[m] = "compare" \/ Critical(m)')
            => /\ Command(m) = "validate" /\ (pc[m] = "compare" \/ Critical(m))
               /\ op'[m] = op[m] /\ op[m].mark \in Nat
      BY <1>6, WriteDoes, OneMain, OpTyped, BoundsAssumption
      DEF OthersStay, Ends, UpdateInv, Critical, Command
    <2>2. Current' = Current
      BY <1>6, WriteDoes DEF UpdateInv, Current
    <2>3. \A m \in Main : Command(m)' = "validate" /\
            (pc'[m] = "compare" \/ Critical(m)') /\ op'[m].own = Current'
            => \A w \in indexed' : w > op'[m].mark => w \in unmarked'
      BY <1>6, <2>1, <2>2, SeesStays DEF ValidationSees
    <2> QED
      BY <2>3 DEF ValidationSees, Sees
  <1>7. ASSUME NEW p \in Process, HookRead(p) PROVE ValidationSees'
    <2>1. \A m \in Main : Command(m)' = "validate" /\ (pc'[m] = "compare" \/ Critical(m)')
            => /\ Command(m) = "validate" /\ (pc[m] = "compare" \/ Critical(m))
               /\ op'[m] = op[m] /\ op[m].mark \in Nat
      BY <1>7, HookReadDoes, OneMain, OpTyped, BoundsAssumption
      DEF OthersStay, Ends, UpdateInv, Critical, Command, Roles, Role
    <2>2. Current' = Current
      BY <1>7, HookReadDoes DEF UpdateInv, Current
    <2>3. \A m \in Main : Command(m)' = "validate" /\
            (pc'[m] = "compare" \/ Critical(m)') /\ op'[m].own = Current'
            => \A w \in indexed' : w > op'[m].mark => w \in unmarked'
      BY <1>7, <2>1, <2>2, SeesStays DEF ValidationSees
    <2> QED
      BY <2>3 DEF ValidationSees, Sees
  <1>8. ASSUME NEW p \in Process, Compare(p) PROVE ValidationSees'
    <2>1. /\ Current' = Current /\ OthersStay(p)
          /\ \/ pc[p] \in {"compare", "event"} /\ op'[p] = op[p]
             \/ pc'[p] = "idle"
      BY <1>8, CompareDoes DEF UpdateInv, Current, Ends
    <2>2. \A m \in Main : Command(m)' = "validate" /\ (pc'[m] = "compare" \/ Critical(m)')
            => /\ Command(m) = "validate" /\ (pc[m] = "compare" \/ Critical(m))
               /\ op'[m] = op[m] /\ op[m].mark \in Nat
      BY <2>1, OneMain, OpTyped, BoundsAssumption DEF OthersStay, UpdateInv, Critical, Command
    <2>3. \A m \in Main : Command(m)' = "validate" /\
            (pc'[m] = "compare" \/ Critical(m)') /\ op'[m].own = Current'
            => \A w \in indexed' : w > op'[m].mark => w \in unmarked'
      BY <1>8, <2>1, <2>2, SeesStays DEF ValidationSees
    <2> QED
      BY <2>3 DEF ValidationSees, Sees
  <1>9. ASSUME NEW p \in Process, AppendEvent(p) PROVE ValidationSees'
    <2>1. /\ Current' = Current /\ OthersStay(p)
          /\ \/ pc[p] \in {"compare", "event"} /\ op'[p] = op[p]
             \/ pc'[p] = "idle"
      BY <1>9, AppendEventDoes DEF UpdateInv, Current, Ends
    <2>2. \A m \in Main : Command(m)' = "validate" /\ (pc'[m] = "compare" \/ Critical(m)')
            => /\ Command(m) = "validate" /\ (pc[m] = "compare" \/ Critical(m))
               /\ op'[m] = op[m] /\ op[m].mark \in Nat
      BY <2>1, OneMain, OpTyped, BoundsAssumption DEF OthersStay, UpdateInv, Critical, Command
    <2>3. \A m \in Main : Command(m)' = "validate" /\
            (pc'[m] = "compare" \/ Critical(m)') /\ op'[m].own = Current'
            => \A w \in indexed' : w > op'[m].mark => w \in unmarked'
      BY <1>9, <2>1, <2>2, SeesStays DEF ValidationSees
    <2> QED
      BY <2>3 DEF ValidationSees, Sees
  <1>10. ASSUME NEW p \in Process, Commit(p) PROVE ValidationSees'
    <2>1. \A m \in Main : pc'[m] = "compare" \/ Critical(m)' =>
            op'[m].own.revision < Current'.revision
      BY <1>10, CommitLeads, OneMain DEF Reading
    <2>2. Current'.revision \in Nat
      BY <1>10, CommitLeads, StateTyped
    <2> QED
      BY <2>1, <2>2 DEF ValidationSees
  <1>11. ASSUME NEW p \in Process, Move(p) PROVE ValidationSees'
    <2>1. /\ \A m \in Main : m = p
          /\ pc'[p] \in {"verify", "report", "undoMove", "undoState", "idle"}
      BY <1>11, MoveDoes, MoveLeads DEF UpdateInv, Ends
    <2> QED
      BY <2>1 DEF ValidationSees, Critical
  <1>12. ASSUME NEW p \in Process, Verify(p) PROVE ValidationSees'
    <2>1. \A m \in Main : Command(m)' = "validate" /\ (pc'[m] = "compare" \/ Critical(m)')
            => /\ Command(m) = "validate" /\ (pc[m] = "compare" \/ Critical(m))
               /\ op'[m] = op[m] /\ op[m].mark \in Nat
      BY <1>12, VerifyDoes, OneMain, OpTyped, BoundsAssumption
      DEF OthersStay, Ends, UpdateInv, Critical, Command
    <2>2. Current' = Current
      BY <1>12, VerifyDoes DEF UpdateInv, Current
    <2>3. \A m \in Main : Command(m)' = "validate" /\
            (pc'[m] = "compare" \/ Critical(m)') /\ op'[m].own = Current'
            => \A w \in indexed' : w > op'[m].mark => w \in unmarked'
      BY <1>12, <2>1, <2>2, SeesStays DEF ValidationSees
    <2> QED
      BY <2>3 DEF ValidationSees, Sees
  <1>13. ASSUME NEW p \in Process, Report(p) PROVE ValidationSees'
    <2>1. \A m \in Main : Command(m)' = "validate" /\ (pc'[m] = "compare" \/ Critical(m)')
            => /\ Command(m) = "validate" /\ (pc[m] = "compare" \/ Critical(m))
               /\ op'[m] = op[m] /\ op[m].mark \in Nat
      BY <1>13, ReportDoes, OneMain, OpTyped, BoundsAssumption
      DEF OthersStay, Ends, UpdateInv, Critical, Command
    <2>2. Current' = Current
      BY <1>13, ReportDoes DEF UpdateInv, Current
    <2>3. \A m \in Main : Command(m)' = "validate" /\
            (pc'[m] = "compare" \/ Critical(m)') /\ op'[m].own = Current'
            => \A w \in indexed' : w > op'[m].mark => w \in unmarked'
      BY <1>13, <2>1, <2>2, SeesStays DEF ValidationSees
    <2> QED
      BY <2>3 DEF ValidationSees, Sees
  <1>14. ASSUME NEW p \in Process, UndoMove(p) PROVE ValidationSees'
    <2>1. /\ \A m \in Main : m = p
          /\ pc'[p] \in {"verify", "report", "undoMove", "undoState", "idle"}
      BY <1>14, UndoMoveDoes, UndoMoveLeads DEF UpdateInv, Ends
    <2> QED
      BY <2>1 DEF ValidationSees, Critical
  <1>15. ASSUME NEW p \in Process, UndoState(p) PROVE ValidationSees'
    <2>1. \A m \in Main : Command(m)' = "validate" /\ (pc'[m] = "compare" \/ Critical(m)')
            => /\ Command(m) = "validate" /\ (pc[m] = "compare" \/ Critical(m))
               /\ op'[m] = op[m] /\ op[m].mark \in Nat
      BY <1>15, UndoStateDoes, OneMain, OpTyped, BoundsAssumption
      DEF OthersStay, Ends, UpdateInv, Critical, Command, Roles, Role
    <2>2. Current' = Current
      BY <1>15, UndoStateDoes DEF UpdateInv, Current
    <2>3. \A m \in Main : Command(m)' = "validate" /\
            (pc'[m] = "compare" \/ Critical(m)') /\ op'[m].own = Current'
            => \A w \in indexed' : w > op'[m].mark => w \in unmarked'
      BY <1>15, <2>1, <2>2, SeesStays DEF ValidationSees
    <2> QED
      BY <2>3 DEF ValidationSees, Sees
  <1>16. ASSUME NEW p \in Process, Crash(p) PROVE ValidationSees'
    <2>1. \A m \in Main : Command(m)' = "validate" /\ (pc'[m] = "compare" \/ Critical(m)')
            => /\ Command(m) = "validate" /\ (pc[m] = "compare" \/ Critical(m))
               /\ op'[m] = op[m] /\ op[m].mark \in Nat
      BY <1>16, CrashDoes, OneMain, OpTyped, BoundsAssumption
      DEF OthersStay, Ends, UpdateInv, Critical, Command
    <2>2. Current' = Current
      BY <1>16, CrashDoes DEF UpdateInv, Current
    <2>3. \A m \in Main : Command(m)' = "validate" /\
            (pc'[m] = "compare" \/ Critical(m)') /\ op'[m].own = Current'
            => \A w \in indexed' : w > op'[m].mark => w \in unmarked'
      BY <1>16, <2>1, <2>2, SeesStays DEF ValidationSees
    <2> QED
      BY <2>3 DEF ValidationSees, Sees
  <1>17. CASE UNCHANGED vars
    BY <1>17 DEF vars, files, material, ValidationSees, Sees, Critical, Command, Current
  <1>18. QED
    BY <1>1, <1>2, <1>3, <1>4, <1>5, <1>6, <1>7, <1>8, <1>9, <1>10, <1>11, <1>12, <1>13, <1>14,
       <1>15, <1>16, <1>17
    DEF Next

-----------------------------------------------------------------------------
LEMMA InitInv == Init => LifecycleInv
  <1> SUFFICES ASSUME Init PROVE LifecycleInv
    OBVIOUS
  <1> USE DEF Init
  <1>1. home["changes"] = InitialState /\ home["archive"] = NoState /\
          home["abandoned"] = NoState
    BY DEF Directory
  <1>2. \A p \in Process : pc[p] = "idle" /\ op[p] = Nothing /\ Command(p) = "none"
    BY NothingTyped DEF Command
  <1>3. \A m \in Main : m \in Process
    BY OneMain
  <1>4. InitialState # NoState /\ InitialState.revision = 1 /\
          InitialState.validation = "missing"
    BY NothingTyped, StateTyped DEF InitialState
  <1>5. TypeOK
    BY NothingTyped, BoundsAssumption DEF TypeOK, Directory, Steps, Process
  <1>6. Roles /\ Exists /\ OneCritical /\ CriticalIsCurrent /\ ReadersAreBelow /\ MainFinds
    BY <1>2, <1>3 DEF Roles, Role, Exists, OneCritical, CriticalIsCurrent, ReadersAreBelow,
       MainFinds, Withdrawable, Reading, Critical
  <1>7. PlacesAreFinal /\ PlaceIsRecorded /\ MainKeepsStage
    BY <1>1, <1>2, <1>3
    DEF PlacesAreFinal, AbandonedIsFinal, MainLeavesFinal, ReportedIsSettled,
       PlaceIsRecorded, MainKeepsStage
  <1>8. EveryRevisionHasEvent
    BY <1>1, <1>4 DEF EveryRevisionHasEvent, Directory
  <1>9. EventsPrecede
    BY <1>2 DEF EventsPrecede
  <1>10. MaterialIsSeen
    BY <1>1, <1>2, <1>3, <1>4
    DEF MaterialIsSeen, FreshUnlessUnmarked, StatesSee, ValidationSees,
       Withdrawable, Critical, Current
  <1> QED
    BY <1>5, <1>6, <1>7, <1>8, <1>9, <1>10 DEF LifecycleInv, UpdateInv

LEMMA UpdateInvStep == UpdateInv /\ [Next]_vars => UpdateInv'
  BY TypeStep, RoleStep, ExistsStep, OneStep, CriticalStep, BelowStep, FindsStep DEF UpdateInv

LEMMA InvStep == LifecycleInv /\ [Next]_vars => LifecycleInv'
  <1> SUFFICES ASSUME LifecycleInv, [Next]_vars PROVE LifecycleInv'
    OBVIOUS
  <1> USE DEF LifecycleInv, MaterialIsSeen
  <1>1. UpdateInv'
    BY UpdateInvStep
  <1>2. PlacesAreFinal'
    BY AbandonedStep, LeavesStep, ReportedStep DEF PlacesAreFinal
  <1>3. PlaceIsRecorded' /\ MainKeepsStage'
    BY PlaceStep, StageStep
  <1>4. EveryRevisionHasEvent' /\ EventsPrecede'
    BY EventStep, PendingStep
  <1>5. MaterialIsSeen'
    BY FreshStep, StatesSeeStep, ValidationSeesStep
  <1> QED
    BY <1>1, <1>2, <1>3, <1>4, <1>5

LEMMA Invariance == Spec => []LifecycleInv
  BY InitInv, InvStep, PTL DEF Spec

\* Every durable state is well formed, has an event for each of its revisions
\* beside it, and lies where its lifecycle says: compareAndSwapJson appends the
\* event before it writes the state, and archive-finalize and abandon move the
\* directory with its log (property of the run change_states).
THEOREM StateIsRecorded == Spec => []DurableStateIsRecorded
  <1>1. LifecycleInv => DurableStateIsRecorded
    BY DEF LifecycleInv, UpdateInv, DurableStateIsRecorded
  <1> QED
    BY <1>1, Invariance, PTL

\* A fresh validation has seen every write to an indexed artifact whose hook has
\* come to markValidationStaleForWrite (property of the run change_states).
THEOREM FreshIsSeen == Spec => []FreshUnlessUnmarked
  <1>1. LifecycleInv => FreshUnlessUnmarked
    BY DEF LifecycleInv, MaterialIsSeen
  <1> QED
    BY <1>1, Invariance, PTL

\* A commit replaces exactly the state its command has read.
LEMMA CommitsReplaceTheirOwn ==
    ASSUME LifecycleInv, NEW p \in Process, At(p, "commit"), Current # NoState
    PROVE  op[p].own = Current
  BY DEF LifecycleInv, UpdateInv, CriticalIsCurrent, Critical, InPlace, Late, At

\* A place that was reported is left alone by every step.
LEMMA ReportedStays ==
    ASSUME LifecycleInv, [Next]_vars, reported # "none"
    PROVE  reported' = reported /\ home'[reported] = home[reported]
  <1> USE DEF LifecycleInv
  <1>1. reported \in {"archive", "abandoned"} /\ UpdateInv /\ TypeOK /\ Roles
    BY DEF UpdateInv, TypeOK
  <1>2. CASE UNCHANGED vars
    BY <1>2 DEF vars, files
  <1>3. ASSUME NEW p \in Process, Report(p)
        PROVE  reported' = reported /\ home'[reported] = home[reported]
    <2>1. /\ p \in Main /\ pc[p] = "report" /\ home' = home /\
               reported' = Destination(Command(p))
          /\ Command(p) \in {"finalize", "abandon"}
      BY <1>1, <1>3, ReportDoes DEF Roles, Role
    <2> QED
      BY <1>1, <2>1
      DEF PlacesAreFinal, ReportedIsSettled, AbandonedIsFinal, Harmless, Destination
  <1>4. ASSUME NEW p \in Main, pc[p] \in {"move", "undoMove"} PROVE FALSE
    <2>1. Command(p) \in {"finalize", "abandon"}
      BY <1>1, <1>4, OneMain DEF Roles, Role
    <2> QED
      BY <1>1, <1>4, <2>1
      DEF PlacesAreFinal, ReportedIsSettled, AbandonedIsFinal, Harmless
  <1>5. ASSUME NEW p \in Process, Move(p) \/ UndoMove(p) PROVE FALSE
    BY <1>1, <1>4, <1>5, MoveLeads, UndoMoveLeads, MoveDoes, UndoMoveDoes
  <1>6. ASSUME NEW p \in Process, Commit(p)
        PROVE  reported' = reported /\ home'[reported] = home[reported]
    BY <1>1, <1>6, CommitDoes
  <1>7. ASSUME NEW p \in Process,
               \/ Begin(p) \/ Read(p) \/ Seal(p) \/ Prove(p) \/ Reread(p) \/ Write(p) \/
                    HookRead(p)
               \/ Compare(p) \/ AppendEvent(p) \/ Verify(p) \/ UndoState(p) \/ Crash(p)
        PROVE  reported' = reported /\ home'[reported] = home[reported]
    BY <1>1, <1>7, BeginDoes, ReadDoes, SealDoes, ProveDoes, RereadDoes, WriteDoes,
       HookReadDoes,
       CompareDoes, AppendEventDoes, VerifyDoes, UndoStateDoes, CrashDoes
  <1> QED
    BY <1>2, <1>3, <1>5, <1>6, <1>7 DEF Next

\* No update of the state of a change is lost, however readers, commits, kills
\* and renames interleave, and what a command has reported as archived or
\* abandoned never changes again (property of the run change_states).
THEOREM NeverForks == Spec => StateNeverForks
  <1>1. LifecycleInv /\ [Next]_vars
          => [\A p \in Process :
                (At(p, "commit") /\ home' # home /\ pc'[p] # "commit" /\ Current # NoState)
                   => op[p].own = Current]_vars
    BY CommitsReplaceTheirOwn
  <1>2. LifecycleInv /\ [Next]_vars
          => [reported # "none" =>
            reported' = reported /\ home'[reported] = home[reported]]_vars
    BY ReportedStays
  <1> QED
    BY <1>1, <1>2, Invariance, PTL DEF Spec, StateNeverForks, NoLostUpdate, ReportedIsFinal
==============================================================================
