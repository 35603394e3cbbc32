------------------------------- MODULE Launch -------------------------------
(***************************************************************************)
(* What a process does before and after its session: the two leases of     *)
(* src/src/locks.rs, and the terminal modes of `TerminalGuard' in          *)
(* src/src/terminal.rs.  All processes are started on one root; those of   *)
(* one user share a runtime directory.                                     *)
(*                                                                         *)
(* A lease is an advisory lock on a file.  Processes open a file by its    *)
(* path first and lock it later, so what `lockFiles' holds are the files,  *)
(* and `paths' says which of them a path leads to.                         *)
(***************************************************************************)
EXTENDS Integers, Sequences, FiniteSets

CONSTANTS
  Processes,        \* each runs once: an identity is a process and its start time
  Runtimes, RuntimeOf,
  RootLock,         \* the path of the lock file in the root
  Trouble,          \* what may go wrong: "kill", "calls"
  Nobody            \* the owner of a free lock, and what an empty file names

ASSUME LaunchAssumption ==
  /\ RuntimeOf \in [Processes -> Runtimes]
  /\ RootLock \notin Runtimes
  /\ Nobody \notin Processes

VARIABLES
  proc,         \* where each process is, and what it knows and holds
  lockFiles,    \* the owner of each file and the identity in it
  paths,        \* the file a path leads to, 0 when there is none
  tty           \* the modes of each process's terminal

launchVars == <<proc, lockFiles, paths, tty>>

Modes == {"raw", "alternate"}

NewProcess == [stage |-> "new", opened |-> 0, active |-> 0, root |-> 0, named |-> Nobody,
               recorded |-> {}, guard |-> {}, stuck |-> {}]

Stage(p) == proc[p].stage

(* `ActiveTuiLease' in the runtime directory first, `RootWriterLease' second. *)
FirstLease(p) == proc[p].active = 0
LockPath(p) == IF FirstLease(p) THEN RuntimeOf[p] ELSE RootLock

Fails == "calls" \in Trouble

GoesTo(p, stage) == proc' = [proc EXCEPT ![p].stage = stage]

-----------------------------------------------------------------------------
(* Acquiring a lease. *)

Begin(p) ==
  /\ Stage(p) = "new"
  /\ GoesTo(p, "open")
  /\ UNCHANGED <<lockFiles, paths, tty>>

(* Mutant: the file is emptied when it is opened. *)
OpenTruncates(p) ==
  /\ Stage(p) = "open"
  /\ IF paths[LockPath(p)] = 0
     THEN /\ lockFiles' = Append(lockFiles, [owner |-> Nobody, holder |-> Nobody])
          /\ paths' = [paths EXCEPT ![LockPath(p)] = Len(lockFiles')]
     ELSE /\ lockFiles' = [lockFiles EXCEPT ![paths[LockPath(p)]].holder = Nobody]
          /\ UNCHANGED paths
  /\ proc' = [proc EXCEPT ![p].stage = "lock", ![p].opened = paths'[LockPath(p)]]
  /\ UNCHANGED tty

(* `open_private_lock' creates the file where there is none. *)
OpenLock(p) ==
  /\ Stage(p) = "open"
  /\ IF paths[LockPath(p)] = 0
     THEN /\ lockFiles' = Append(lockFiles, [owner |-> Nobody, holder |-> Nobody])
          /\ paths' = [paths EXCEPT ![LockPath(p)] = Len(lockFiles')]
     ELSE UNCHANGED <<lockFiles, paths>>
  /\ proc' = [proc EXCEPT ![p].stage = "lock", ![p].opened = paths'[LockPath(p)]]
  /\ UNCHANGED tty

(* The directory or the file is missing, or not private. *)
OpenFails(p) ==
  /\ Fails /\ Stage(p) = "open"
  /\ GoesTo(p, "leave")
  /\ UNCHANGED <<lockFiles, paths, tty>>

(* `acquire_and_record': the lock is taken now or not at all. *)
Lock(p) ==
  LET f == proc[p].opened IN
  /\ Stage(p) = "lock"
  /\ IF lockFiles[f].owner = Nobody
     THEN /\ lockFiles' = [lockFiles EXCEPT ![f].owner = p]
          /\ proc' = [proc EXCEPT ![p].stage = "reset",
                                  ![p].active = IF FirstLease(p) THEN f ELSE @,
                                  ![p].root = IF FirstLease(p) THEN @ ELSE f]
     ELSE /\ GoesTo(p, "refused")
          /\ UNCHANGED lockFiles
  /\ UNCHANGED <<paths, tty>>

ReadHolder(p) ==
  /\ Stage(p) = "refused"
  /\ proc' = [proc EXCEPT ![p].stage = "leave", ![p].named = lockFiles[proc[p].opened].holder]
  /\ UNCHANGED <<lockFiles, paths, tty>>

ResetIdentity(p) ==
  /\ Stage(p) = "reset"
  /\ lockFiles' = [lockFiles EXCEPT ![proc[p].opened].holder = Nobody]
  /\ GoesTo(p, "record")
  /\ UNCHANGED <<paths, tty>>

RecordIdentity(p) ==
  /\ Stage(p) = "record"
  /\ lockFiles' = [lockFiles EXCEPT ![proc[p].opened].holder = p]
  /\ proc' = [proc EXCEPT
       ![p].stage = IF proc[p].root = 0 THEN "open" ELSE "leased",
       ![p].recorded = @ \cup {proc[p].opened}]
  /\ UNCHANGED <<paths, tty>>

(* A lease without its owner's identity is given up again. *)
RecordFails(p) ==
  /\ Fails /\ Stage(p) \in {"reset", "record"}
  /\ GoesTo(p, "leave")
  /\ UNCHANGED <<lockFiles, paths, tty>>

-----------------------------------------------------------------------------
(* Giving the leases up, the last first. *)

(* Mutant: the file goes with the lease. *)
Unlinks(f) ==
  /\ lockFiles' = [lockFiles EXCEPT ![f].owner = Nobody]
  /\ paths' = [l \in DOMAIN paths |-> IF paths[l] = f THEN 0 ELSE paths[l]]

Unlock(f) ==
  /\ lockFiles' = [lockFiles EXCEPT ![f].owner = Nobody]
  /\ UNCHANGED paths

Leave(p) ==
  /\ Stage(p) = "leave"
  /\ \/ /\ proc[p].root # 0
        /\ Unlock(proc[p].root)
        /\ proc' = [proc EXCEPT ![p].root = 0]
     \/ /\ proc[p].root = 0 /\ proc[p].active # 0
        /\ Unlock(proc[p].active)
        /\ proc' = [proc EXCEPT ![p].active = 0]
     \/ /\ proc[p].root = 0 /\ proc[p].active = 0
        /\ GoesTo(p, "gone")
        /\ UNCHANGED <<lockFiles, paths>>
  /\ UNCHANGED tty

(* The kernel closes the files; nobody restores the terminal. *)
Kill(p) ==
  /\ "kill" \in Trouble
  /\ Stage(p) \notin {"new", "gone", "killed"}
  /\ proc' = [proc EXCEPT ![p].stage = "killed", ![p].active = 0, ![p].root = 0]
  /\ lockFiles' = [f \in DOMAIN lockFiles |->
                     IF lockFiles[f].owner = p THEN [lockFiles[f] EXCEPT !.owner = Nobody]
                     ELSE lockFiles[f]]
  /\ UNCHANGED <<paths, tty>>

LeaseStep(p) ==
  \/ Begin(p) \/ OpenLock(p) \/ OpenFails(p) \/ Lock(p) \/ ReadHolder(p)
  \/ ResetIdentity(p) \/ RecordIdentity(p) \/ RecordFails(p) \/ Leave(p)

-----------------------------------------------------------------------------
(* The terminal session: `run_terminal_session'. *)

(* `enable_raw_mode' is a single `tcsetattr': when it fails nothing has changed. *)
EnableRaw(p) ==
  /\ Stage(p) = "terminal"
  /\ \/ /\ tty' = [tty EXCEPT ![p] = @ \cup {"raw"}]
        /\ proc' = [proc EXCEPT ![p].stage = "enter", ![p].guard = {"raw"}]
     \/ /\ Fails
        /\ GoesTo(p, "finish")
        /\ UNCHANGED tty
  /\ UNCHANGED <<lockFiles, paths>>

(* Mutant: only what was entered without an error is noted. *)
NotedWhenEntered(p) ==
  /\ Stage(p) = "enter"
  /\ \/ /\ tty' = [tty EXCEPT ![p] = @ \cup {"alternate"}]
        /\ proc' = [proc EXCEPT ![p].stage = "loop", ![p].guard = @ \cup {"alternate"}]
     \/ /\ Fails
        /\ tty' \in {tty, [tty EXCEPT ![p] = @ \cup {"alternate"}]}
        /\ GoesTo(p, "dropAlternate")
  /\ UNCHANGED <<lockFiles, paths>>

(* `enter' writes several sequences, and may fail behind the first. *)
EnterAlternate(p) ==
  /\ Stage(p) = "enter"
  /\ \/ /\ tty' = [tty EXCEPT ![p] = @ \cup {"alternate"}]
        /\ proc' = [proc EXCEPT ![p].stage = "loop", ![p].guard = @ \cup {"alternate"}]
     \/ /\ Fails
        /\ tty' \in {tty, [tty EXCEPT ![p] = @ \cup {"alternate"}]}
        /\ proc' = [proc EXCEPT ![p].stage = "dropAlternate",
                                ![p].guard = @ \cup {"alternate"}]
  /\ UNCHANGED <<lockFiles, paths>>

(* The listener quits, or an error or a panic unwinds. *)
LoopEnds(p) ==
  /\ Stage(p) = "loop"
  /\ GoesTo(p, "restoreAlternate") \/ (Fails /\ GoesTo(p, "dropAlternate"))
  /\ UNCHANGED <<lockFiles, paths, tty>>

(* Leaving a mode: a call that fails may have worked. *)
Leaves(p, mode, next) ==
  \/ /\ tty' = [tty EXCEPT ![p] = @ \ {mode}]
     /\ proc' = [proc EXCEPT ![p].stage = next, ![p].guard = @ \ {mode}, ![p].stuck = @ \ {mode}]
  \/ /\ Fails
     /\ tty' \in {tty, [tty EXCEPT ![p] = @ \ {mode}]}
     /\ proc' = [proc EXCEPT ![p].stage = next, ![p].stuck = @ \cup {mode}]

LeaveMode(p, stage, mode, next) ==
  /\ Stage(p) = stage
  /\ IF mode \in proc[p].guard THEN Leaves(p, mode, next)
     ELSE GoesTo(p, next) /\ UNCHANGED tty
  /\ UNCHANGED <<lockFiles, paths>>

(* `restore', and then the guard is dropped, which tries again. *)
RestoreTerminal(p) ==
  \/ LeaveMode(p, "restoreAlternate", "alternate", "restoreRaw")
  \/ LeaveMode(p, "restoreRaw", "raw", "dropAlternate")
  \/ LeaveMode(p, "dropAlternate", "alternate", "dropRaw")
  \/ LeaveMode(p, "dropRaw", "raw", "finish")

TerminalStep(p) == EnableRaw(p) \/ EnterAlternate(p) \/ LoopEnds(p) \/ RestoreTerminal(p)

-----------------------------------------------------------------------------
(* `app::run': the leases are held while logging starts, the library is scanned,
   the terminal session runs and the logs are finished. *)

Prepared(p) ==
  /\ Stage(p) = "leased"
  /\ GoesTo(p, "terminal") \/ (Fails /\ GoesTo(p, "finish")) \/ (Fails /\ GoesTo(p, "leave"))
  /\ UNCHANGED <<lockFiles, paths, tty>>

LogsFinished(p) ==
  /\ Stage(p) = "finish"
  /\ GoesTo(p, "leave")
  /\ UNCHANGED <<lockFiles, paths, tty>>

Init ==
  /\ proc = [p \in Processes |-> NewProcess]
  /\ lockFiles = <<>>
  /\ paths = [l \in Runtimes \cup {RootLock} |-> 0]
  /\ tty = [p \in Processes |-> {}]

Next ==
  \E p \in Processes :
    LeaseStep(p) \/ Prepared(p) \/ TerminalStep(p) \/ LogsFinished(p) \/ Kill(p)

Spec == Init /\ [][Next]_launchVars

-----------------------------------------------------------------------------
InSession(p) ==
  Stage(p) \notin {"new", "open", "lock", "refused", "reset", "record", "leave", "gone", "killed"}

(* One process at a time has a session on the root, whatever order the others open
   the lock files, are refused, fail or are killed in. *)
OneWriter == \A p, q \in Processes : InSession(p) /\ InSession(q) => p = q

(* A process that is refused is told who holds the lease, if the holder has got as
   far as to record itself: never who held it before, and never itself. *)
RefusalNamesHolder ==
  [][ \A p \in Processes :
        LET f == proc[p].opened
            owner == lockFiles[f].owner
        IN  Stage(p) = "refused" /\ proc'[p].stage = "leave"
              /\ owner # Nobody /\ f \in proc[owner].recorded
            => proc'[p].named = owner ]_launchVars

(* Whatever mode of the terminal was entered has been left once the guard is gone,
   also when entering failed half way, unless leaving it failed as well. *)
TerminalRestored ==
  \A p \in Processes :
    Stage(p) \in {"finish", "leave", "gone"} => tty[p] \subseteq proc[p].stuck

=============================================================================
