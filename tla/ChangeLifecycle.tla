---------------------------- MODULE ChangeLifecycle ----------------------------
(***************************************************************************)
(* The durable state of one change, harness/changes/<id>/state.json, and   *)
(* the commands that replace it (runtime/lifecycle.mjs, the post-write     *)
(* hook, runtime/core/change-state.mjs): each reads it without a lock and  *)
(* commits its successor by compareAndSwapJson under state.json.lock.      *)
(* archive-finalize and abandon also rename the whole directory, with the  *)
(* lock file and the event log in it, and roll back when the rename or the *)
(* verification of the archived copy fails.                                *)
(*                                                                         *)
(* Main issues one lifecycle command after the other; the other processes  *)
(* are the tools of agents with their hooks, and commands of other         *)
(* sessions.  The file lock is the one of FileLock: the lock of a process  *)
(* that is gone counts as free.  Writes are numbered; the digest of a      *)
(* validation is the number of the last write it has seen.  The event log  *)
(* is the set of the revisions it mentions.                                *)
(***************************************************************************)
EXTENDS Naturals

CONSTANTS Main,         \* the process that archives, finalizes and abandons
          Side,         \* processes that write, mark stale and set the task
          NoProcess,    \* no lock file
          NoState,      \* no state.json
          MaxRevision,  \* bound: no command is started at this revision
          MaxWrites     \* bound on the writes of tools

Process == Main \cup Side

ASSUME NamesAssumption == NoProcess \notin Process /\ Main \cap Side = {}
ASSUME MainAssumption == \A p, q \in Main : p = q
ASSUME BoundsAssumption == MaxRevision \in Nat /\ MaxWrites \in Nat

VARIABLES home,     \* home[d]: the state.json in directory d
          present,  \* harness/changes/<id> exists
          log,      \* log[d]: revisions mentioned in the event log in d
          lock,     \* lock[d]: owner of the state.json.lock in d
          writes,   \* writes to material a validation judges
          indexed,  \* those of them to an indexed artifact
          unmarked, \* those whose hook has not run, was blocked or found no state
          reported, \* directory a command has reported the change to be in
          pc,       \* pc[p]: the step process p is at
          op        \* op[p]: its command, the state it read, the writes it
                    \* saw or made, the lifecycle a rollback restores

files == <<home, present, log, lock>>
material == <<writes, indexed, unmarked>>
vars == <<files, material, reported, pc, op>>

Directory == {"changes", "archive", "abandoned"}
Lifecycle == {"active", "archived", "abandoned"}
State == [revision : Nat, lifecycle : Lifecycle, stage : {"verify", "archive"},
          validation : {"missing", "stale", "fresh"}, sealed : 0..MaxWrites]
CommandsOf(p) == IF p \in Main THEN {"validate", "archive", "finalize", "abandon"}
                             ELSE {"stale", "task", "write"}
ASSUME NoStateAssumption == NoState \notin State
Steps == {"idle", "write", "hook", "read", "seal", "prove", "reread", "compare", "event", "commit",
          "move", "verify", "report", "undoMove", "undoState"}

Op == [command : {"none", "validate", "archive", "finalize", "abandon", "rollback", "stale",
                  "task", "write"},
       own : State, mark : 0..MaxWrites, restore : Lifecycle]

InitialState == [revision |-> 1, lifecycle |-> "active", stage |-> "verify",
                 validation |-> "missing", sealed |-> 0]
Nothing == [command |-> "none", own |-> InitialState, mark |-> 0, restore |-> "active"]

TypeOK ==
    /\ home \in [Directory -> State \cup {NoState}]
    /\ present \in BOOLEAN
    /\ log \in [Directory -> SUBSET Nat]
    /\ lock \in [Directory -> Process \cup {NoProcess}]
    /\ writes \in 0..MaxWrites /\ indexed \in SUBSET (1..writes) /\ unmarked \in SUBSET (1..writes)
    /\ reported \in {"none", "archive", "abandoned"}
    /\ pc \in [Process -> Steps]
    /\ op \in [Process -> Op]

Init ==
    /\ home = [d \in Directory |-> IF d = "changes" THEN InitialState ELSE NoState]
    /\ present = TRUE
    /\ log = [d \in Directory |-> {}]
    /\ lock = [d \in Directory |-> NoProcess]
    /\ writes = 0 /\ indexed = {} /\ unmarked = {}
    /\ reported = "none"
    /\ pc = [p \in Process |-> "idle"]
    /\ op = [p \in Process |-> Nothing]

Current == home["changes"]
Goto(p, step) == pc' = [pc EXCEPT ![p] = step]
At(p, step) == pc[p] = step
Command(p) == op[p].command
Stop(p) == Goto(p, "idle") /\ op' = [op EXCEPT ![p] = Nothing]

(***************************************************************************)
(* Before the commit.                                                      *)
(***************************************************************************)

Begin(p) ==
    /\ At(p, "idle")
    /\ Current # NoState /\ Current.revision < MaxRevision
    /\ \E c \in CommandsOf(p) :
         /\ c = "write" => writes < MaxWrites
         /\ op' = [op EXCEPT ![p].command = c]
         /\ Goto(p, IF c = "write" THEN "write" ELSE "read")
    /\ UNCHANGED <<files, material, reported>>

\* What a command requires of the state it reads.
Accepts(c, s) ==
    /\ c = "archive" => s.stage = "verify" /\ s.validation = "fresh"
    /\ c = "finalize" => s.stage = "archive" /\ s.lifecycle = "active" /\ s.validation = "fresh"
    /\ c = "abandon" => s.lifecycle # "archived"

AfterRead(c) ==
    CASE c = "validate" -> "seal"
      [] c \in {"archive", "finalize"} -> "prove"
      [] c = "abandon" -> "reread"
      [] OTHER -> "compare"

Read(p) ==
    /\ At(p, "read")
    /\ IF Current # NoState /\ Accepts(Command(p), Current)
         THEN op' = [op EXCEPT ![p].own = Current] /\ Goto(p, AfterRead(Command(p)))
         ELSE Stop(p)
    /\ UNCHANGED <<files, material, reported>>

\* cmdMarkValidated: computeValidationDigest, after the read.
Seal(p) ==
    /\ At(p, "seal")
    /\ IF present
         THEN op' = [op EXCEPT ![p].mark = writes] /\ Goto(p, "compare")
         ELSE Stop(p)
    /\ UNCHANGED <<files, material, reported>>

\* persistStageCompletionProof refuses, or writes its proof by path.
Prove(p) ==
    /\ At(p, "prove")
    /\ \/ /\ present' = TRUE
          /\ Goto(p, IF Command(p) = "archive" THEN "compare" ELSE "reread") /\ UNCHANGED op
       \/ present' \in {present, TRUE} /\ Stop(p)
    /\ UNCHANGED <<home, log, lock, material, reported>>

Destination(c) == IF c = "abandon" THEN "abandoned" ELSE "archive"
MayMove(p) == Current # NoState /\ home[Destination(Command(p))] = NoState

\* finalize and abandon read the state again, for its revision only.
Reread(p) ==
    /\ At(p, "reread")
    /\ IF MayMove(p)
         THEN /\ op' = [op EXCEPT ![p].own = Current, ![p].restore =
                           IF Command(p) = "abandon" THEN Current.lifecycle ELSE "active"]
              /\ Goto(p, "compare")
         ELSE Stop(p)
    /\ UNCHANGED <<files, material, reported>>

(***************************************************************************)
(* Tools and their hooks.                                                  *)
(***************************************************************************)

\* A tool that was admitted writes to an indexed artifact or to other material;
\* after the directory has gone it fails.
Write(p) ==
    /\ At(p, "write")
    /\ IF Current # NoState /\ writes < MaxWrites
         THEN /\ writes' = writes + 1
              /\ indexed' \in {indexed, indexed \cup {writes + 1}}
              /\ unmarked' = unmarked \cup {writes + 1}
              /\ op' = [op EXCEPT ![p].mark = writes + 1]
              /\ Goto(p, "hook")
         ELSE Stop(p) /\ UNCHANGED material
    /\ UNCHANGED <<files, reported>>

\* The hooks of one change run one at a time (withFileLockWait).
HookIsFree(p) ==
    \A q \in Process \ {p} : Command(q) = "write" => pc[q] \notin {"compare", "event", "commit"}

\* Mutant: a validation that is not fresh needs no marking, whatever was written.
HookReadLazy(p) ==
    /\ At(p, "hook") /\ HookIsFree(p)
    /\ IF Current # NoState /\ Current.validation = "fresh"
         THEN op' = [op EXCEPT ![p].own = Current] /\ Goto(p, "compare") /\ UNCHANGED unmarked
         ELSE /\ unmarked' = IF Current = NoState THEN unmarked ELSE unmarked \ {op[p].mark}
              /\ Stop(p)
    /\ UNCHANGED <<files, writes, indexed, reported>>

\* markValidationStaleForWrite: the write of an indexed artifact always commits
\* a stale validation, any other write only when there is one to invalidate, and
\* none when the directory has gone.
HookRead(p) ==
    /\ At(p, "hook") /\ HookIsFree(p)
    /\ IF Current # NoState /\ (op[p].mark \in indexed \/ Current.validation = "fresh")
         THEN op' = [op EXCEPT ![p].own = Current] /\ Goto(p, "compare") /\ UNCHANGED unmarked
         ELSE /\ unmarked' = IF Current = NoState THEN unmarked ELSE unmarked \ {op[p].mark}
              /\ Stop(p)
    /\ UNCHANGED <<files, writes, indexed, reported>>

(***************************************************************************)
(* compareAndSwapJson.                                                     *)
(***************************************************************************)

LockIsFree == lock["changes"] = NoProcess \/ pc[lock["changes"]] \notin {"event", "commit"}

\* Mutant: the revision is not compared.
CompareAnything(p) ==
    /\ At(p, "compare")
    /\ IF LockIsFree /\ Current # NoState
         THEN /\ lock' = [lock EXCEPT !["changes"] = p]
              /\ Goto(p, "event") /\ UNCHANGED <<present, op>>
         ELSE present' \in {present, TRUE} /\ Stop(p) /\ UNCHANGED lock
    /\ UNCHANGED <<home, log, material, reported>>

\* Take the lock and compare the revision with the one read before.  Taking it
\* creates the directory if it has gone.
Compare(p) ==
    /\ At(p, "compare")
    /\ IF LockIsFree /\ Current # NoState /\ Current.revision = op[p].own.revision
         THEN /\ lock' = [lock EXCEPT !["changes"] = p]
              /\ Goto(p, "event") /\ UNCHANGED <<present, op>>
         ELSE present' \in {present, TRUE} /\ Stop(p) /\ UNCHANGED lock
    /\ UNCHANGED <<home, log, material, reported>>

\* Mutant: a rollback leaves no event.
AppendEventUnlessRollback(p) ==
    /\ At(p, "event")
    /\ log' = [log EXCEPT !["changes"] =
                  IF Command(p) = "rollback" THEN @ ELSE @ \cup {op[p].own.revision + 1}]
    /\ present' = TRUE
    /\ Goto(p, "commit")
    /\ UNCHANGED <<home, lock, material, reported, op>>

\* appendJsonLineOnce, by path.
AppendEvent(p) ==
    /\ At(p, "event")
    /\ log' = [log EXCEPT !["changes"] = @ \cup {op[p].own.revision + 1}]
    /\ present' = TRUE
    /\ Goto(p, "commit")
    /\ UNCHANGED <<home, lock, material, reported, op>>

\* The state a command makes of the one it read.
Successor(p) ==
    LET s == [op[p].own EXCEPT !.revision = @ + 1]
        c == Command(p)
    IN  CASE c = "validate" -> [s EXCEPT !.validation = "fresh", !.sealed = op[p].mark]
          [] c \in {"stale", "write"} -> [s EXCEPT !.validation = "stale", !.sealed = 0]
          [] c = "task" -> s
          [] c = "archive" -> [s EXCEPT !.stage = "archive"]
          [] c = "finalize" -> [s EXCEPT !.lifecycle = "archived"]
          [] c = "abandon" -> [s EXCEPT !.lifecycle = "abandoned"]
          [] c = "rollback" -> [s EXCEPT !.lifecycle = op[p].restore]

\* atomicWriteJson, by path, and the release of the lock if it is still there.
Commit(p) ==
    /\ At(p, "commit")
    /\ home' = [home EXCEPT !["changes"] = Successor(p)]
    /\ present' = TRUE
    /\ lock' = [lock EXCEPT !["changes"] = IF @ = p THEN NoProcess ELSE @]
    /\ unmarked' = IF Command(p) = "write" THEN unmarked \ {op[p].mark} ELSE unmarked
    /\ IF Command(p) \in {"finalize", "abandon"} THEN Goto(p, "move") /\ UNCHANGED op
                                                 ELSE Stop(p)
    /\ UNCHANGED <<log, writes, indexed, reported>>

(***************************************************************************)
(* The move of the directory and its rollback.                             *)
(***************************************************************************)

\* Rename directory d to e, with all that is in it.
Rename(d, e) ==
    /\ home' = [home EXCEPT ![d] = NoState, ![e] = home[d]]
    /\ log' = [log EXCEPT ![d] = {}, ![e] = log[d]]
    /\ lock' = [lock EXCEPT ![d] = NoProcess, ![e] = lock[d]]
    /\ present' = (e = "changes")

\* renameSync may fail for any reason.
Move(p) ==
    LET d == Destination(Command(p)) IN
    /\ At(p, "move")
    /\ \/ /\ present /\ home[d] = NoState
          /\ Rename("changes", d)
          /\ Goto(p, IF Command(p) = "finalize" THEN "verify" ELSE "report")
       \/ Goto(p, IF Command(p) = "finalize" THEN "undoMove" ELSE "undoState") /\ UNCHANGED files
    /\ UNCHANGED <<material, reported, op>>

\* validateArchivedManifest.
Verify(p) ==
    /\ At(p, "verify")
    /\ \/ home["archive"] # NoState /\ home["archive"].lifecycle = "archived" /\ Goto(p, "report")
       \/ Goto(p, "undoMove")
    /\ UNCHANGED <<files, material, reported, op>>

\* clearSessionBindings and the message of success.
Report(p) ==
    /\ At(p, "report")
    /\ reported' = Destination(Command(p))
    /\ Stop(p)
    /\ UNCHANGED <<files, material>>

\* The directory is moved back if its old place is free.
UndoMove(p) ==
    /\ At(p, "undoMove")
    /\ IF ~present /\ home["archive"] # NoState
         THEN \/ Rename("archive", "changes") /\ Goto(p, "undoState") /\ UNCHANGED op
              \/ Stop(p) /\ UNCHANGED files
         ELSE Goto(p, "undoState") /\ UNCHANGED <<files, op>>
    /\ UNCHANGED <<material, reported>>

\* The lifecycle is committed back, if there is a state in the old place.
UndoState(p) ==
    /\ At(p, "undoState")
    /\ IF Current # NoState
         THEN /\ op' = [op EXCEPT ![p].own = Current, ![p].command = "rollback"]
              /\ Goto(p, "compare")
         ELSE Stop(p)
    /\ UNCHANGED <<files, material, reported>>

\* A process is killed; its lock file stays and is recoverable.
Crash(p) ==
    /\ ~At(p, "idle")
    /\ Stop(p)
    /\ UNCHANGED <<files, material, reported>>

Next == \E p \in Process :
    \/ Begin(p) \/ Read(p) \/ Seal(p) \/ Prove(p) \/ Reread(p) \/ Write(p) \/ HookRead(p)
    \/ Compare(p) \/ AppendEvent(p) \/ Commit(p)
    \/ Move(p) \/ Verify(p) \/ Report(p) \/ UndoMove(p) \/ UndoState(p)
    \/ Crash(p)

Spec == Init /\ [][Next]_vars

(***************************************************************************)
(* Properties.                                                             *)
(***************************************************************************)

\* No update is lost: a state.json is only replaced by the successor of exactly
\* that state, however the readers and the renames interleave.
NoLostUpdate ==
    [][\A p \in Process :
          (At(p, "commit") /\ home' # home /\ pc'[p] # "commit" /\ Current # NoState)
             => op[p].own = Current]_vars

\* Every revision the durable state has gone through is in the event log beside
\* it, also after crashes between event and state, moves and rollbacks.  (A
\* directory recreated by a late commit, beside the moved one, is left aside, also
\* when it is abandoned in its turn.)
Recreated(d) ==
    \/ d # "archive" /\ home["archive"] # NoState
    \/ d = "changes" /\ home["abandoned"] # NoState
EveryRevisionHasEvent ==
    \A d \in Directory : home[d] # NoState /\ ~Recreated(d) => 2..home[d].revision \subseteq log[d]

\* What lies in the archive was finalized in the archive stage, and what lies
\* among the abandoned changes was abandoned: neither passes for the other.
PlaceIsRecorded ==
    /\ home["archive"] # NoState =>
           home["archive"].lifecycle = "archived" /\ home["archive"].stage = "archive"
    /\ home["abandoned"] # NoState => home["abandoned"].lifecycle = "abandoned"

\* The durable state is well formed, its history is in its log, and it lies where
\* its lifecycle says.
DurableStateIsRecorded == TypeOK /\ EveryRevisionHasEvent /\ PlaceIsRecorded

\* A fresh validation has seen every write to an indexed artifact, but those
\* whose hook has not run yet, was blocked or found the directory moved.
FreshUnlessUnmarked ==
    Current # NoState /\ Current.validation = "fresh" =>
        \A w \in indexed : w > Current.sealed => w \in unmarked

\* What a command has reported as archived or abandoned never changes again.
ReportedIsFinal ==
    [][reported # "none" => reported' = reported /\ home'[reported] = home[reported]]_vars

\* The state has one line of successors, and the line ends where a command
\* reported the end.
StateNeverForks == NoLostUpdate /\ ReportedIsFinal
==============================================================================
