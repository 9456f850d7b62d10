------------------------------ MODULE MaaSync ------------------------------
(***************************************************************************)
(* MAASynchronizer.run: two GUI files are read, transformed, and written   *)
(* over the two files of the MAA command line, one os.replace after the    *)
(* other, with backups before and a rollback of the first when the second  *)
(* does not follow.  The user saves in the GUI meanwhile, the token is     *)
(* cancelled, the deadline passes, any file operation may fail, and the    *)
(* program may be killed between two of them; each run has a token and a   *)
(* deadline of its own.                                                    *)
(*                                                                         *)
(* A file is the version of what it was written from: the profile of the   *)
(* connection, the tasks of the task queue.  The connection is in the      *)
(* first GUI file (the old layout) or in the second one, with the queue.   *)
(* Temporary files are left out.                                           *)
(***************************************************************************)
EXTENDS Naturals

CONSTANTS
  Contents,    \* versions of a file's contents
  NoFile,      \* the target does not exist
  MaxSaves,    \* bound: what the user saves
  MaxFaults    \* bound: file operations that fail, and crashes

ASSUME NoFileAssumption == NoFile \notin Contents
ASSUME BoundsAssumption == MaxSaves \in Nat /\ MaxFaults \in Nat

VARIABLES
  gui,        \* what the GUI files hold: connection and queue
  oldLayout,  \* the connection is in the settings file
  enabled, backups,      \* MAASyncConfig
  target, backup,        \* the two files and their .bak
  pc,         \* the next step of the run
  wanted,     \* what is to be written, as far as it has been read
  original,   \* the targets as the run found them
  verdict,    \* of the last run
  saves, faults, cancelled, expired

config  == << oldLayout, enabled, backups >>
files   == << target, backup >>
locals  == << wanted, original >>
control == << cancelled, expired >>
vars == << gui, config, files, pc, locals, verdict, saves, faults, control >>

Files    == {"profile", "tasks"}
Snapshot == [Files -> Contents \cup {NoFile}]
Missing  == [f \in Files |-> NoFile]

Init ==
  /\ gui \in [connection : Contents, queue : Contents]
  /\ oldLayout \in BOOLEAN /\ enabled \in BOOLEAN /\ backups \in BOOLEAN
  /\ target \in Snapshot /\ backup = Missing
  /\ pc = "idle" /\ wanted = Missing /\ original = Missing /\ verdict = "NONE"
  /\ saves = 0 /\ faults = 0 /\ cancelled = FALSE /\ expired = FALSE

Fault == faults < MaxFaults /\ faults' = faults + 1

-----------------------------------------------------------------------------
Save ==
  /\ saves < MaxSaves /\ saves' = saves + 1
  /\ gui' \in [connection : Contents, queue : Contents] /\ gui' # gui
  /\ UNCHANGED << config, files, pc, locals, verdict, faults, control >>

Cancel == /\ ~cancelled /\ cancelled' = TRUE
          /\ UNCHANGED << gui, config, files, pc, locals, verdict, saves, faults, expired >>
Expire == /\ ~expired /\ expired' = TRUE
          /\ UNCHANGED << gui, config, files, pc, locals, verdict, saves, faults, cancelled >>

Crash ==
  /\ pc # "idle" /\ Fault
  /\ pc' = "idle" /\ verdict' = "CRASHED"
  /\ UNCHANGED << gui, config, files, locals, saves, control >>

-----------------------------------------------------------------------------
Begin ==
  /\ pc = "idle" /\ pc' = "settings"
  /\ verdict' = "NONE" /\ cancelled' = FALSE /\ expired' = FALSE
  /\ UNCHANGED << gui, config, files, locals, saves, faults >>

Return(v) == pc' = "idle" /\ verdict' = v /\ UNCHANGED << files, locals >>

Goto(step) == pc' = step /\ UNCHANGED verdict

Step == UNCHANGED << gui, config, saves, control >>

Uncontrolled == ~cancelled /\ ~expired

(* _control: the token first, then the deadline. *)
Control ==
  /\ pc \in {"settings", "tasks", "compare", "prepare", "profile"}
  /\ ~Uncontrolled
  /\ Return(IF cancelled THEN "CANCELLED" ELSE "TIMEOUT")
  /\ UNCHANGED faults /\ Step

Disabled ==
  /\ pc = "settings" /\ Uncontrolled /\ ~enabled
  /\ Return("DISABLED") /\ UNCHANGED faults /\ Step

(* A source that cannot be read, parsed or transformed, a target that      *)
(* cannot be read, and a temporary file or backup that cannot be written.  *)
Fails ==
  /\ pc \in {"settings", "tasks", "compare", "prepare", "backup_profile", "backup_tasks"}
  /\ pc \in {"settings", "tasks", "compare", "prepare"} => Uncontrolled
  /\ Fault /\ Return("FAILED") /\ Step

ReadSettings ==
  /\ pc = "settings" /\ Uncontrolled /\ enabled
  /\ Goto("tasks")
  /\ wanted' = IF oldLayout THEN [wanted EXCEPT !["profile"] = gui.connection] ELSE wanted
  /\ UNCHANGED << files, original, faults >> /\ Step

ReadTasks ==
  /\ pc = "tasks" /\ Uncontrolled
  /\ Goto("compare")
  /\ wanted' = [profile |-> IF oldLayout THEN wanted["profile"] ELSE gui.connection,
                tasks   |-> gui.queue]
  /\ UNCHANGED << files, original, faults >> /\ Step

Changed(f) == original[f] # wanted[f]

CompareFirst ==                                                    \* mutant
  /\ pc = "compare" /\ Uncontrolled
  /\ original' = target
  /\ IF target["profile"] = wanted["profile"] THEN pc' = "idle" /\ verdict' = "COMPLETED"
     ELSE Goto("prepare")
  /\ UNCHANGED << files, wanted, faults >> /\ Step

Compare ==
  /\ pc = "compare" /\ Uncontrolled
  /\ original' = target
  /\ IF target = wanted THEN pc' = "idle" /\ verdict' = "COMPLETED" ELSE Goto("prepare")
  /\ UNCHANGED << files, wanted, faults >> /\ Step

Prepare ==
  /\ pc = "prepare" /\ Uncontrolled
  /\ Goto("backup_profile")
  /\ UNCHANGED << files, locals, faults >> /\ Step

BacksUpOnce(f) == backups /\ Changed(f) /\ original[f] # NoFile /\ backup[f] = NoFile  \* mutant
BacksUp(f) == backups /\ Changed(f) /\ original[f] # NoFile

Backup(step, f, next) ==
  /\ pc = step /\ Goto(next)
  /\ backup' = IF BacksUp(f) THEN [backup EXCEPT ![f] = original[f]] ELSE backup
  /\ UNCHANGED << target, locals, faults >> /\ Step

Replace(f) == target' = IF Changed(f) THEN [target EXCEPT ![f] = wanted[f]] ELSE target

ReplaceProfile ==
  /\ pc = "profile" /\ Uncontrolled
  /\ \/ Replace("profile") /\ Goto("second") /\ UNCHANGED << backup, locals, faults >>
     \/ Changed("profile") /\ Fault /\ Return("FAILED")
  /\ Step

(* What is done when the second file does not follow the first.            *)
RollsBackExisting == Changed("profile") /\ Changed("tasks") /\ original["profile"] # NoFile  \* mutant
RollsBack == Changed("profile") /\ Changed("tasks")

Abandon(v) ==
  IF RollsBack THEN pc' = "rollback" /\ verdict' = v /\ UNCHANGED << files, locals >>
  ELSE Return(v)

ControlSecond ==
  /\ pc = "second" /\ ~Uncontrolled
  /\ Abandon(IF cancelled THEN "CANCELLED" ELSE "TIMEOUT")
  /\ UNCHANGED faults /\ Step

ReplaceTasks ==
  /\ pc = "second" /\ Uncontrolled
  /\ \/ Replace("tasks") /\ Goto("done") /\ UNCHANGED << backup, locals, faults >>
     \/ Changed("tasks") /\ Fault /\ Abandon("FAILED")
  /\ Step

Done ==
  /\ pc = "done" /\ Return("COMPLETED") /\ UNCHANGED faults /\ Step

Rollback ==
  /\ pc = "rollback" /\ pc' = "idle"
  /\ \/ /\ target' = [target EXCEPT !["profile"] = original["profile"]]
        /\ UNCHANGED << backup, locals, verdict, faults >>
     \/ Fault /\ verdict' = "ROLLBACK_FAILED" /\ UNCHANGED << files, locals >>
  /\ Step

-----------------------------------------------------------------------------
SyncStep ==
  \/ Control \/ Disabled \/ Fails \/ ReadSettings \/ ReadTasks \/ Compare \/ Prepare
  \/ Backup("backup_profile", "profile", "backup_tasks")
  \/ Backup("backup_tasks", "tasks", "profile")
  \/ ReplaceProfile \/ ControlSecond \/ ReplaceTasks \/ Done \/ Rollback

Next == SyncStep \/ Begin \/ Save \/ Cancel \/ Expire \/ Crash

Spec == Init /\ [][Next]_vars

(* The calling thread goes on. *)
FairSpec == Spec /\ WF_vars(SyncStep)
-----------------------------------------------------------------------------
(* Type invariant. *)
TypeOK ==
  /\ gui \in [connection : Contents, queue : Contents]
  /\ oldLayout \in BOOLEAN /\ enabled \in BOOLEAN /\ backups \in BOOLEAN
  /\ target \in Snapshot /\ backup \in Snapshot
  /\ wanted \in Snapshot /\ original \in Snapshot
  /\ pc \in {"idle", "settings", "tasks", "compare", "prepare", "backup_profile",
             "backup_tasks", "profile", "second", "rollback", "done"}
  /\ verdict \in {"NONE", "COMPLETED", "DISABLED", "FAILED", "CANCELLED", "TIMEOUT",
                  "ROLLBACK_FAILED", "CRASHED"}
  /\ pc = "rollback" => Changed("profile") /\ Changed("tasks")
  /\ saves \in 0..MaxSaves /\ faults \in 0..MaxFaults
  /\ cancelled \in BOOLEAN /\ expired \in BOOLEAN

(* What a run found is never lost while backups are on: it is still in the  *)
(* target, or in its .bak, at every step of the run and of every later one  *)
(* until that has taken its own snapshot, whatever fails or crashes.        *)
OriginalSurvives ==
  backups => \A f \in Files : original[f] \in {NoFile, target[f], backup[f]}

(* The two files are replaced as one: whoever reads them between two runs   *)
(* finds the old pair or the new one, as the verdict says, unless the       *)
(* verdict is ROLLBACK_FAILED or there is none because of a crash.          *)
Contract == INSTANCE PairCommit
              WITH pair  <- IF pc \in {"second", "rollback", "done"}
                            THEN [profile |-> original["profile"], tasks |-> original["tasks"]]
                            ELSE [profile |-> target["profile"], tasks |-> target["tasks"]],
                   phase <- IF pc = "idle" THEN "idle" ELSE "busy",
                   verdict <- IF pc = "idle" THEN verdict ELSE "NONE"

CommitsAtomically == Contract!Spec

(* A torn pair is repaired by the next run that nothing disturbs, wherever  *)
(* the last one crashed or failed.                                          *)
Quiet == enabled /\ ~cancelled /\ ~expired /\ saves = MaxSaves /\ faults = MaxFaults

RerunRepairs ==
  (pc = "settings" /\ []Quiet)
    ~> (pc = "idle" /\ target = [profile |-> gui.connection, tasks |-> gui.queue])
=============================================================================
