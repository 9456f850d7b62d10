----------------------------- MODULE MaaSyncProofs -----------------------------
(***************************************************************************)
(* Proofs about MaaSync for every set of versions and every bound on saves *)
(* and faults: what a run found survives, the two files are replaced as    *)
(* one (the simulation of PairCommit), and a rerun repairs a torn pair.    *)
(***************************************************************************)
EXTENDS MaaSync, TLAPS

(* A file that will be replaced has its backup.                            *)
Saved(f) == backups /\ Changed(f) /\ original[f] # NoFile => backup[f] = original[f]

(* What the two files hold at each step of a run. *)
Places ==
  /\ pc \in {"prepare", "backup_profile", "backup_tasks", "profile"} => target = original
  /\ pc \in {"second", "rollback"} => /\ target["profile"] = wanted["profile"]
                                      /\ target["tasks"] = original["tasks"]
  /\ pc = "done" => target = wanted
  /\ pc = "rollback" => verdict \in {"FAILED", "CANCELLED", "TIMEOUT"}

BackedUp ==
  /\ pc \in {"backup_tasks", "profile", "second", "rollback"} => Saved("profile")
  /\ pc \in {"profile", "second", "rollback"} => Saved("tasks")

IInv == TypeOK /\ Places /\ BackedUp /\ OriginalSurvives

-----------------------------------------------------------------------------
LEMMA TypeStep == TypeOK /\ [Next]_vars => TypeOK'
<1> SUFFICES ASSUME TypeOK, [Next]_vars
             PROVE  TypeOK'
  OBVIOUS
<1> USE BoundsAssumption DEF TypeOK, Snapshot, Files, Step, Goto, Return, Fault, Changed, config,
        files, locals, control
<1>1. CASE UNCHANGED vars
  BY <1>1 DEF vars
<1>2. CASE Control
  BY <1>2 DEF Control
<1>3. CASE Disabled
  BY <1>3 DEF Disabled
<1>4. CASE Fails
  BY <1>4 DEF Fails
<1>5. CASE ReadSettings
  BY <1>5 DEF ReadSettings
<1>6. CASE ReadTasks
  BY <1>6 DEF ReadTasks
<1>7. CASE Compare
  BY <1>7 DEF Compare
<1>8. CASE Prepare
  BY <1>8 DEF Prepare
<1>9. CASE Backup("backup_profile", "profile", "backup_tasks")
  BY <1>9 DEF Backup, BacksUp
<1>10. CASE Backup("backup_tasks", "tasks", "profile")
  BY <1>10 DEF Backup, BacksUp
<1>11. CASE ReplaceProfile
  BY <1>11 DEF ReplaceProfile, Replace
<1>12. CASE ControlSecond
  BY <1>12 DEF ControlSecond, Abandon, RollsBack
<1>13. CASE ReplaceTasks
  BY <1>13 DEF ReplaceTasks, Replace, Abandon, RollsBack
<1>14. CASE Done
  BY <1>14 DEF Done
<1>15. CASE Rollback
  BY <1>15 DEF Rollback
<1>16. CASE Begin
  BY <1>16 DEF Begin
<1>17. CASE Save
  BY <1>17 DEF Save
<1>18. CASE Cancel
  BY <1>18 DEF Cancel
<1>19. CASE Expire
  BY <1>19 DEF Expire
<1>20. CASE Crash
  BY <1>20 DEF Crash
<1> QED
  BY <1>1, <1>2, <1>3, <1>4, <1>5, <1>6, <1>7, <1>8, <1>9, <1>10, <1>11, <1>12, <1>13, <1>14,
     <1>15, <1>16, <1>17, <1>18, <1>19, <1>20 DEF Next, SyncStep

(* Where the files are not touched and the run does not advance into a     *)
(* place that promises more, everything else is kept.                      *)
LEMMA StepIInv == IInv /\ [Next]_vars => IInv'
<1> SUFFICES ASSUME IInv, [Next]_vars
             PROVE  IInv'
  OBVIOUS
<1>0. TypeOK /\ TypeOK'
  BY TypeStep DEF IInv
<1>100. SUFFICES (Places /\ BackedUp /\ OriginalSurvives)'
  BY <1>0 DEF IInv
<1> USE DEF IInv, Places, BackedUp, OriginalSurvives, Saved, Changed, Files, Step, Goto, Return,
        config, files, locals, control
<1>1. CASE UNCHANGED vars
  BY <1>1 DEF vars
<1>2. CASE Control \/ Disabled \/ Fails
  BY <1>2 DEF Control, Disabled, Fails
<1>3. CASE ReadSettings \/ ReadTasks
  BY <1>3 DEF ReadSettings, ReadTasks
<1>4. CASE Compare
  BY <1>4 DEF Compare
<1>5. CASE Prepare
  BY <1>5 DEF Prepare
<1>6. CASE Backup("backup_profile", "profile", "backup_tasks")
  BY <1>6, <1>0 DEF Backup, BacksUp, TypeOK, Snapshot
<1>7. CASE Backup("backup_tasks", "tasks", "profile")
  BY <1>7, <1>0 DEF Backup, BacksUp, TypeOK, Snapshot
<1>8. CASE ReplaceProfile
  BY <1>8, <1>0 DEF ReplaceProfile, Replace, TypeOK, Snapshot
<1>9. CASE ControlSecond
  BY <1>9 DEF ControlSecond, Abandon, RollsBack
<1>10. CASE ReplaceTasks
  <2>1. CASE Replace("tasks") /\ Goto("done") /\ UNCHANGED << backup, locals, faults >>
    <3>1. target'["profile"] = wanted["profile"] /\ target'["tasks"] = wanted["tasks"]
      BY <2>1, <1>10, <1>0 DEF ReplaceTasks, Replace, TypeOK, Snapshot
    <3>2. target' = wanted
      BY <3>1, <1>0, <2>1 DEF TypeOK, Snapshot
    <3> QED
      BY <2>1, <1>10, <3>1, <3>2 DEF ReplaceTasks
  <2>2. CASE Changed("tasks") /\ Fault /\ Abandon("FAILED")
    BY <2>2, <1>10 DEF ReplaceTasks, Abandon, RollsBack
  <2> QED
    BY <1>10, <2>1, <2>2 DEF ReplaceTasks
<1>11. CASE Done
  BY <1>11 DEF Done
<1>12. CASE Rollback
  BY <1>12, <1>0 DEF Rollback, TypeOK, Snapshot
<1>13. CASE Begin \/ Save \/ Cancel \/ Expire \/ Crash
  BY <1>13 DEF Begin, Save, Cancel, Expire, Crash
<1> QED
  BY <1>1, <1>2, <1>3, <1>4, <1>5, <1>6, <1>7, <1>8, <1>9, <1>10, <1>11, <1>12, <1>13
     DEF Next, SyncStep

LEMMA InitIInv == Init => IInv
<1> SUFFICES ASSUME Init
             PROVE  IInv
  OBVIOUS
<1>1. Missing \in Snapshot /\ \A f \in Files : Missing[f] = NoFile
  BY DEF Missing, Snapshot
<1>2. TypeOK
  <2>1. saves \in 0..MaxSaves /\ faults \in 0..MaxFaults
    BY BoundsAssumption DEF Init
  <2>2. pc = "rollback" => Changed("profile") /\ Changed("tasks")
    BY DEF Init
  <2> QED
    BY <1>1, <2>1, <2>2 DEF Init, TypeOK
<1>3. Places /\ BackedUp /\ OriginalSurvives
  BY <1>1 DEF Init, Places, BackedUp, OriginalSurvives
<1> QED
  BY <1>2, <1>3 DEF IInv

(* The inductive invariant: at each step of a run the two files hold what   *)
(* Places says, and a file about to be replaced has its backup.             *)
THEOREM IInvIsInvariant == Spec => []IInv
<1> QED
  BY InitIInv, StepIInv, PTL DEF Spec

(* MAASynchronizer's variables keep their types, and a rollback is only     *)
(* entered when both files were to change.                                  *)
THEOREM TypeCorrect == Spec => []TypeOK
<1>1. IInv => TypeOK
  BY DEF IInv
<1> QED
  BY <1>1, IInvIsInvariant, PTL

(* While backups are on, what MAASynchronizer.run found in the two files is *)
(* in the target or in its .bak, at every step, whatever fails or crashes.  *)
THEOREM NothingIsOverwrittenUnsaved == Spec => []OriginalSurvives
<1>1. IInv => OriginalSurvives
  BY DEF IInv
<1> QED
  BY <1>1, IInvIsInvariant, PTL
-----------------------------------------------------------------------------
(* The simulation of PairCommit.  Whole is the pair a reader finds.        *)
Whole == IF pc \in {"second", "rollback", "done"}
         THEN [profile |-> original["profile"], tasks |-> original["tasks"]]
         ELSE [profile |-> target["profile"], tasks |-> target["tasks"]]
Phase == IF pc = "idle" THEN "idle" ELSE "busy"
Told  == IF pc = "idle" THEN verdict ELSE "NONE"

LEMMA SnapshotsArePairs ==
  ASSUME NEW s \in Snapshot
  PROVE  /\ s = [profile |-> s["profile"], tasks |-> s["tasks"]]
         /\ s \in Contract!Pairs
BY DEF Snapshot, Files, Contract!Pairs

(* A step of the run that does not end it is one of PairCommit's stutters, *)
(* or learns what is to be written.                                        *)
LEMMA Stutters ==
  ASSUME TypeOK', pc # "idle", pc' # "idle", Whole' = Whole
  PROVE  [Contract!Next]_(Contract!vars)
<1>1. wanted' \in Contract!Pairs
  BY SnapshotsArePairs DEF TypeOK, Snapshot, Files, Contract!Pairs
<1>2. Contract!Learn
  BY <1>1 DEF Contract!Learn, Whole
<1> QED
  BY <1>2 DEF Contract!Next

LEMMA Ends ==
  ASSUME pc # "idle", pc' = "idle", UNCHANGED wanted, NEW v, verdict' = v,
         NEW next, Whole' = next
  PROVE  Contract!Finish(v, next)
BY DEF Contract!Finish, Whole

(* What becomes of the pair when the second file does not follow.          *)
LEMMA AbandonMaps ==
  ASSUME IInv, TypeOK', pc = "second", NEW v \in {"FAILED", "CANCELLED", "TIMEOUT"}, Abandon(v),
         v = "FAILED" => Changed("tasks")
  PROVE  [Contract!Next]_(Contract!vars)
<1>1. target["profile"] = wanted["profile"] /\ target["tasks"] = original["tasks"]
  BY DEF IInv, Places
<1>2. CASE RollsBack
  <2>1. pc' # "idle" /\ Whole' = Whole
    BY <1>2 DEF Abandon, Whole, files, locals
  <2> QED
    BY <2>1, Stutters
<1>3. CASE ~RollsBack
  <2>1. pc' = "idle" /\ verdict' = v /\ UNCHANGED << target, wanted, original >>
    BY <1>3 DEF Abandon, Return, files, locals
  <2>2. CASE ~Changed("profile")
    <3>1. Whole' = Whole
      BY <1>1, <2>1, <2>2 DEF Whole, Changed
    <3>2. Contract!Finish(v, Whole)
      BY <2>1, <3>1, Ends
    <3> QED
      BY <3>2 DEF Contract!Next, Whole
  <2>3. CASE Changed("profile") /\ ~Changed("tasks")
    <3>1. wanted \in Snapshot
      BY DEF IInv, TypeOK
    <3>2. Whole' = wanted
      BY <1>1, <2>1, <2>3, <3>1, SnapshotsArePairs DEF Whole, Changed
    <3>3. Contract!Finish(v, wanted)
      BY <2>1, <3>2, Ends
    <3>4. Whole.tasks = wanted.tasks
      BY <2>3 DEF Whole, Changed
    <3> QED
      BY <3>3, <3>4, <2>3 DEF Contract!Next, Whole
  <2> QED
    BY <1>3, <2>2, <2>3 DEF RollsBack
<1> QED
  BY <1>2, <1>3

LEMMA StepMaps == IInv /\ [Next]_vars => [Contract!Next]_(Contract!vars)
<1> SUFFICES ASSUME IInv, [Next]_vars
             PROVE  [Contract!Next]_(Contract!vars)
  OBVIOUS
<1>0. TypeOK /\ TypeOK'
  BY TypeStep DEF IInv
<1>1. CASE UNCHANGED vars \/ Save \/ Cancel \/ Expire
  BY <1>1 DEF vars, Save, Cancel, Expire, config, files, locals, control, Contract!vars
<1>2. CASE Control
  <2>1. \E v \in {"CANCELLED", "TIMEOUT"} : Contract!Finish(v, Whole)
    <3>1. PICK v \in {"CANCELLED", "TIMEOUT"} : verdict' = v
      BY <1>2 DEF Control, Return
    <3>2. pc # "idle" /\ pc' = "idle" /\ UNCHANGED wanted /\ Whole' = Whole
      BY <1>2 DEF Control, Return, Whole, files, locals
    <3> QED
      BY <3>1, <3>2, Ends
  <2> QED
    BY <2>1 DEF Contract!Next, Whole
<1>3. CASE Disabled
  <2>1. pc # "idle" /\ pc' = "idle" /\ UNCHANGED wanted /\ Whole' = Whole /\ verdict' = "DISABLED"
    BY <1>3 DEF Disabled, Return, Whole, files, locals
  <2>2. Contract!Finish("DISABLED", Whole)
    BY <2>1, Ends
  <2> QED
    BY <2>2 DEF Contract!Next, Whole
<1>4. CASE Fails
  <2>1. pc # "idle" /\ pc' = "idle" /\ UNCHANGED wanted /\ Whole' = Whole /\ verdict' = "FAILED"
    BY <1>4 DEF Fails, Return, Whole, files, locals
  <2>2. Contract!Finish("FAILED", Whole)
    BY <2>1, Ends
  <2> QED
    BY <2>2 DEF Contract!Next, Whole
<1>5. CASE ReadSettings \/ ReadTasks \/ Prepare \/ Backup("backup_profile", "profile", "backup_tasks")
           \/ Backup("backup_tasks", "tasks", "profile")
  <2>1. pc # "idle" /\ pc' # "idle" /\ Whole' = Whole
    BY <1>5 DEF ReadSettings, ReadTasks, Prepare, Backup, Goto, Whole, files, locals
  <2> QED
    BY <2>1, <1>0, Stutters
<1>6. CASE Compare
  <2>1. CASE target = wanted
    <3>1. pc # "idle" /\ pc' = "idle" /\ UNCHANGED wanted /\ verdict' = "COMPLETED"
      BY <1>6, <2>1 DEF Compare
    <3>2. Whole' = wanted
      BY <1>6, <2>1, <1>0, SnapshotsArePairs DEF Compare, Whole, TypeOK, files
    <3>3. Contract!Finish("COMPLETED", wanted)
      BY <3>1, <3>2, Ends
    <3> QED
      BY <3>3 DEF Contract!Next
  <2>2. CASE target # wanted
    <3>1. pc # "idle" /\ pc' # "idle" /\ Whole' = Whole
      BY <1>6, <2>2 DEF Compare, Goto, Whole, files
    <3> QED
      BY <3>1, <1>0, Stutters
  <2> QED
    BY <2>1, <2>2
<1>7. CASE ReplaceProfile
  <2>1. target = original
    BY <1>7 DEF ReplaceProfile, IInv, Places
  <2>2. CASE Replace("profile") /\ Goto("second") /\ UNCHANGED << backup, locals, faults >>
    <3>1. pc # "idle" /\ pc' # "idle" /\ Whole' = Whole
      BY <1>7, <2>1, <2>2 DEF ReplaceProfile, Goto, Whole, locals
    <3> QED
      BY <3>1, <1>0, Stutters
  <2>3. CASE Changed("profile") /\ Fault /\ Return("FAILED")
    <3>1. pc # "idle" /\ pc' = "idle" /\ UNCHANGED wanted /\ Whole' = Whole /\ verdict' = "FAILED"
      BY <1>7, <2>3 DEF ReplaceProfile, Return, Whole, files, locals
    <3>2. Contract!Finish("FAILED", Whole)
      BY <3>1, Ends
    <3> QED
      BY <3>2 DEF Contract!Next, Whole
  <2> QED
    BY <1>7, <2>2, <2>3 DEF ReplaceProfile
<1>8. CASE ControlSecond
  <2>1. PICK v \in {"CANCELLED", "TIMEOUT"} : Abandon(v)
    BY <1>8 DEF ControlSecond
  <2>2. pc = "second"
    BY <1>8 DEF ControlSecond
  <2> QED
    BY <1>0, <2>1, <2>2, AbandonMaps
<1>9. CASE ReplaceTasks
  <2>1. CASE Replace("tasks") /\ Goto("done") /\ UNCHANGED << backup, locals, faults >>
    <3>1. pc # "idle" /\ pc' # "idle" /\ Whole' = Whole
      BY <1>9, <2>1 DEF ReplaceTasks, Goto, Whole, locals
    <3> QED
      BY <3>1, <1>0, Stutters
  <2>2. CASE Changed("tasks") /\ Fault /\ Abandon("FAILED")
    BY <1>0, <1>9, <2>2, AbandonMaps DEF ReplaceTasks
  <2> QED
    BY <1>9, <2>1, <2>2 DEF ReplaceTasks
<1>10. CASE Done
  <2>1. pc # "idle" /\ pc' = "idle" /\ UNCHANGED wanted /\ verdict' = "COMPLETED"
    BY <1>10 DEF Done, Return, locals
  <2>2. Whole' = wanted
    BY <1>10, <1>0, SnapshotsArePairs DEF Done, Return, Whole, files, IInv, Places, TypeOK
  <2>3. Contract!Finish("COMPLETED", wanted)
    BY <2>1, <2>2, Ends
  <2> QED
    BY <2>3 DEF Contract!Next
<1>11. CASE Rollback
  <2>1. /\ pc = "rollback" /\ pc' = "idle" /\ UNCHANGED wanted
        /\ verdict \in {"FAILED", "CANCELLED", "TIMEOUT"}
        /\ target["profile"] = wanted["profile"] /\ target["tasks"] = original["tasks"]
    BY <1>11 DEF Rollback, locals, IInv, Places
  <2>2. CASE target' = [target EXCEPT !["profile"] = original["profile"]]
             /\ UNCHANGED << backup, locals, verdict, faults >>
    <3>1. Whole' = Whole
      BY <2>1, <2>2, <1>0 DEF Whole, TypeOK, Snapshot, Files
    <3>2. Contract!Finish(verdict, Whole)
      BY <2>1, <2>2, <3>1, Ends
    <3> QED
      BY <3>2, <2>1 DEF Contract!Next, Whole
  <2>3. CASE Fault /\ verdict' = "ROLLBACK_FAILED" /\ UNCHANGED << files, locals >>
    <3>1. Whole' = [Whole EXCEPT !.profile = wanted.profile]
      BY <2>1, <2>3 DEF Whole, files
    <3>2. Contract!Finish("ROLLBACK_FAILED", [Whole EXCEPT !.profile = wanted.profile])
      BY <2>1, <2>3, <3>1, Ends
    <3> QED
      BY <3>2 DEF Contract!Next, Contract!Torn, Whole
  <2> QED
    BY <1>11, <2>2, <2>3 DEF Rollback
<1>12. CASE Begin
  BY <1>12 DEF Begin, files, locals, Contract!Next, Contract!Begin
<1>13. CASE Crash
  <2>1. pc # "idle" /\ pc' = "idle" /\ UNCHANGED wanted /\ verdict' = "CRASHED"
        /\ UNCHANGED << target, original >>
    BY <1>13 DEF Crash, files, locals
  <2>2. Whole' \in {Whole, [Whole EXCEPT !.profile = wanted.profile], wanted}
    <3>1. CASE pc \in {"second", "rollback"}
      BY <3>1, <2>1 DEF Whole, IInv, Places
    <3>2. CASE pc = "done"
      BY <3>2, <2>1, <1>0, SnapshotsArePairs DEF Whole, IInv, Places, TypeOK
    <3>3. CASE pc \notin {"second", "rollback", "done"}
      BY <3>3, <2>1 DEF Whole
    <3> QED
      BY <3>1, <3>2, <3>3
  <2>3. Contract!Finish("CRASHED", Whole')
    BY <2>1, Ends
  <2> QED
    BY <2>2, <2>3 DEF Contract!Next, Contract!Torn, Whole
<1> QED
  BY <1>1, <1>2, <1>3, <1>4, <1>5, <1>6, <1>7, <1>8, <1>9, <1>10, <1>11, <1>12, <1>13
     DEF Next, SyncStep

(* MAASynchronizer.run replaces the two files as one: every behaviour is     *)
(* one of PairCommit, also when it is cancelled, fails or crashes anywhere. *)
THEOREM AtomicCommit == Spec => CommitsAtomically
<1>1. Init => Contract!Init
  <2>1. ASSUME Init PROVE Contract!Init
    <3>1. Missing \in Snapshot
      BY DEF Missing, Snapshot
    <3>2. target \in Snapshot /\ wanted \in Snapshot
      BY <2>1, <3>1 DEF Init
    <3>3. wanted \in Contract!Pairs /\ Whole \in Contract!Pairs
      BY <3>2, <2>1, SnapshotsArePairs DEF Whole, Init
    <3> QED
      BY <2>1, <3>3 DEF Init, Contract!Init, Whole
  <2> QED
    BY <2>1
<1> QED
  BY <1>1, StepMaps, IInvIsInvariant, PTL DEF Spec, CommitsAtomically, Contract!Spec

-----------------------------------------------------------------------------
(* A rerun repairs.  At(step) is an undisturbed run at that step; After is  *)
(* where the step leads.                                                    *)
Current  == [profile |-> gui.connection, tasks |-> gui.queue]
Repaired == pc = "idle" /\ target = Current

Steps == {"settings", "tasks", "compare", "prepare", "backup_profile", "backup_tasks",
          "profile", "second", "done"}

At(step) ==
  /\ pc = step
  /\ step = "tasks" /\ oldLayout => wanted["profile"] = gui.connection
  /\ step \notin {"settings", "tasks"} => wanted = Current

After(step) ==
  \/ step = "settings"       /\ At("tasks")
  \/ step = "tasks"          /\ At("compare")
  \/ step = "compare"        /\ (At("prepare") \/ Repaired)
  \/ step = "prepare"        /\ At("backup_profile")
  \/ step = "backup_profile" /\ At("backup_tasks")
  \/ step = "backup_tasks"   /\ At("profile")
  \/ step = "profile"        /\ At("second")
  \/ step = "second"         /\ At("done")
  \/ step = "done"           /\ Repaired

(* What fairness needs of one step: the run stays there or moves on, its    *)
(* own step moves it on, and it has a step to take.                         *)
Leads(step) ==
  /\ IInv /\ Quiet /\ Quiet' /\ At(step) /\ [Next]_vars => At(step)' \/ After(step)'
  /\ IInv /\ Quiet /\ At(step) /\ <<SyncStep>>_vars => After(step)'
  /\ At(step) => ~(pc = "idle")

LEMMA RunLeads ==
  ASSUME IInv, Quiet, NEW step \in Steps, At(step), SyncStep
  PROVE  After(step)'
<1>1. ~Fault /\ Uncontrolled /\ enabled
  BY BoundsAssumption DEF IInv, TypeOK, Quiet, Fault, Uncontrolled
<1>2. pc = step /\ pc # "rollback"
  BY DEF At, Steps
<1>3. SyncStep => UNCHANGED << gui, oldLayout >>
  BY DEF SyncStep, Control, Disabled, Fails, ReadSettings, ReadTasks, Compare, Prepare, Backup,
     ReplaceProfile, ControlSecond, ReplaceTasks, Done, Rollback, Step, config
<1>4. UNCHANGED << gui, oldLayout, Current >>
  BY <1>3 DEF Current
<1>5. TypeOK /\ Places
  BY DEF IInv
<1>6. CASE Control \/ Disabled \/ Fails \/ ControlSecond \/ Rollback
  BY <1>1, <1>2, <1>6 DEF Control, Disabled, Fails, ControlSecond, Rollback
<1>7. CASE ReadSettings
  <2>1. step = "settings" /\ pc' = "tasks"
    BY <1>2, <1>7 DEF ReadSettings, Goto
  <2>2. oldLayout => wanted'["profile"] = gui.connection
    BY <1>5, <1>7 DEF ReadSettings, TypeOK, Snapshot, Files
  <2> QED
    BY <1>4, <2>1, <2>2 DEF At, After
<1>8. CASE ReadTasks
  <2>1. step = "tasks" /\ pc' = "compare"
    BY <1>2, <1>8 DEF ReadTasks, Goto
  <2>2. wanted' = Current
    BY <1>8, <2>1 DEF ReadTasks, Current, At
  <2> QED
    BY <1>4, <2>1, <2>2 DEF At, After
<1>9. CASE Compare
  <2>1. step = "compare" /\ wanted = Current /\ UNCHANGED << target, wanted >>
    BY <1>2, <1>9 DEF Compare, At, files
  <2> QED
    BY <1>4, <1>9, <2>1 DEF Compare, Goto, At, After, Repaired
<1>10. CASE Prepare
  BY <1>2, <1>4, <1>10 DEF Prepare, Goto, locals, At, After
<1>11. CASE \/ Backup("backup_profile", "profile", "backup_tasks")
            \/ Backup("backup_tasks", "tasks", "profile")
  BY <1>2, <1>4, <1>11 DEF Backup, Goto, locals, At, After
<1>12. CASE ReplaceProfile
  <2>1. Goto("second") /\ UNCHANGED locals
    BY <1>1, <1>12 DEF ReplaceProfile
  <2> QED
    BY <1>2, <1>4, <1>12, <2>1 DEF ReplaceProfile, Goto, locals, At, After
<1>13. CASE ReplaceTasks
  <2>1. Goto("done") /\ UNCHANGED locals
    BY <1>1, <1>13 DEF ReplaceTasks
  <2> QED
    BY <1>2, <1>4, <1>13, <2>1 DEF ReplaceTasks, Goto, locals, At, After
<1>14. CASE Done
  <2>1. step = "done" /\ pc' = "idle" /\ UNCHANGED target
    BY <1>2, <1>14 DEF Done, Return, files
  <2>2. target = Current
    BY <1>2, <1>5, <2>1 DEF Places, At
  <2> QED
    BY <1>4, <2>1, <2>2 DEF After, Repaired
<1> QED
  BY <1>6, <1>7, <1>8, <1>9, <1>10, <1>11, <1>12, <1>13, <1>14 DEF SyncStep

LEMMA RunWaits ==
  ASSUME IInv, Quiet, Quiet', NEW step \in Steps, At(step), [Next]_vars, ~SyncStep
  PROVE  At(step)'
<1>1. ~Fault /\ ~(saves < MaxSaves) /\ pc # "idle"
  BY BoundsAssumption DEF IInv, TypeOK, Quiet, Fault, At, Steps
<1>2. UNCHANGED vars
  BY <1>1 DEF Next, Begin, Save, Cancel, Expire, Crash, Quiet
<1> QED
  BY <1>2 DEF vars, locals, config, At, Current

LEMMA RunLeadsOn ==
  ASSUME NEW step \in Steps
  PROVE  Leads(step)
<1>1. IInv /\ Quiet /\ Quiet' /\ At(step) /\ [Next]_vars => At(step)' \/ After(step)'
  BY RunLeads, RunWaits
<1>2. IInv /\ Quiet /\ At(step) /\ <<SyncStep>>_vars => After(step)'
  BY RunLeads
<1>3. At(step) => ~(pc = "idle")
  BY DEF At, Steps
<1> QED
  BY <1>1, <1>2, <1>3 DEF Leads

(* The thread of a run goes on: it is idle again and again, or takes a step *)
(* again and again.  This is WF_vars(SyncStep) of FairSpec written without  *)
(* ENABLED, which the provers cannot expand: a run that is not idle always  *)
(* has a step.                                                              *)
ThreadGoesOn == []<>(pc = "idle") \/ []<><<SyncStep>>_vars

(* A run of MAASynchronizer that nothing disturbs any more ends with the    *)
(* pair that the GUI holds, wherever an earlier run crashed, failed or      *)
(* could not roll back: as long as the thread goes on, each step leads to   *)
(* the next.                                                                *)
THEOREM Repair == Spec /\ ThreadGoesOn => RerunRepairs
<1>1. pc = "settings" => At("settings")
  BY DEF At
<1>2. /\ After("settings") => At("tasks")
      /\ After("tasks") => At("compare")
      /\ After("compare") => At("prepare") \/ Repaired
      /\ After("prepare") => At("backup_profile")
      /\ After("backup_profile") => At("backup_tasks")
      /\ After("backup_tasks") => At("profile")
      /\ After("profile") => At("second")
      /\ After("second") => At("done")
      /\ After("done") => Repaired
  BY DEF After
<1>3. /\ "settings" \in Steps /\ "tasks" \in Steps /\ "compare" \in Steps
      /\ "prepare" \in Steps /\ "backup_profile" \in Steps /\ "backup_tasks" \in Steps
      /\ "profile" \in Steps /\ "second" \in Steps /\ "done" \in Steps
  BY DEF Steps
<1>4. /\ Leads("settings")
      /\ Leads("tasks")
      /\ Leads("compare")
      /\ Leads("prepare")
      /\ Leads("backup_profile")
      /\ Leads("backup_tasks")
      /\ Leads("profile")
      /\ Leads("second")
      /\ Leads("done")
  BY <1>3, RunLeadsOn
<1>5. Spec /\ ThreadGoesOn => ((At("settings") /\ []Quiet) ~> After("settings"))
  BY <1>4, IInvIsInvariant, PTL DEF Leads, Spec, ThreadGoesOn
<1>6. Spec /\ ThreadGoesOn => ((At("tasks") /\ []Quiet) ~> After("tasks"))
  BY <1>4, IInvIsInvariant, PTL DEF Leads, Spec, ThreadGoesOn
<1>7. Spec /\ ThreadGoesOn => ((At("compare") /\ []Quiet) ~> After("compare"))
  BY <1>4, IInvIsInvariant, PTL DEF Leads, Spec, ThreadGoesOn
<1>8. Spec /\ ThreadGoesOn => ((At("prepare") /\ []Quiet) ~> After("prepare"))
  BY <1>4, IInvIsInvariant, PTL DEF Leads, Spec, ThreadGoesOn
<1>9. Spec /\ ThreadGoesOn => ((At("backup_profile") /\ []Quiet) ~> After("backup_profile"))
  BY <1>4, IInvIsInvariant, PTL DEF Leads, Spec, ThreadGoesOn
<1>10. Spec /\ ThreadGoesOn => ((At("backup_tasks") /\ []Quiet) ~> After("backup_tasks"))
  BY <1>4, IInvIsInvariant, PTL DEF Leads, Spec, ThreadGoesOn
<1>11. Spec /\ ThreadGoesOn => ((At("profile") /\ []Quiet) ~> After("profile"))
  BY <1>4, IInvIsInvariant, PTL DEF Leads, Spec, ThreadGoesOn
<1>12. Spec /\ ThreadGoesOn => ((At("second") /\ []Quiet) ~> After("second"))
  BY <1>4, IInvIsInvariant, PTL DEF Leads, Spec, ThreadGoesOn
<1>13. Spec /\ ThreadGoesOn => ((At("done") /\ []Quiet) ~> After("done"))
  BY <1>4, IInvIsInvariant, PTL DEF Leads, Spec, ThreadGoesOn
<1> QED
  BY <1>1, <1>2, <1>5, <1>6, <1>7, <1>8, <1>9, <1>10, <1>11, <1>12, <1>13, PTL
     DEF RerunRepairs, Repaired, Current
=============================================================================
