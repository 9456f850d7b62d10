------------------------------ MODULE MaaFgoRun ------------------------------
(***************************************************************************)
(* The FGO stages of a workflow run: PREPARE_MAAFGO_RUN brings the profile *)
(* of the command line in line with the GUI and makes a contract (a fresh  *)
(* directory with the expected tasks), RUN_MAAFGO launches the command     *)
(* line and believes only the artifact that the reporter inside the tool   *)
(* has written for this contract, STOP_FGO ends the game.  Meanwhile the   *)
(* user edits both profiles and opens the game, the tool exits when it     *)
(* likes, and writes fail.  What earlier runs have left, also those that   *)
(* were killed, is in Init: any pair of profiles, any directory of theirs. *)
(*                                                                         *)
(* A profile is its sequence of tasks; a task stands for its entry, which  *)
(* the adapted interface makes distinct.  The command line, the runner     *)
(* script and the agent are external: child holds what the reporter keeps. *)
(* The backup of the profile, which nothing reads, is left out.            *)
(***************************************************************************)
EXTENDS Naturals, Sequences, Functions

CONSTANTS
  Profiles,    \* what a user may select: sequences of tasks
  Login,       \* the task every production profile begins with
  MaxEdits,    \* bound: what the user edits or opens
  MaxFaults    \* bound: operations that fail

ASSUME ProfilesAssumption == \A p \in Profiles : p \in Seq(Range(p)) /\ p # << >>
ASSUME BoundsAssumption == MaxEdits \in Nat /\ MaxFaults \in Nat

VARIABLES
  profile,          \* the tasks in maa_pi_config.json
  staged,           \* what sync_mxu_profile is about to write
  runDirs,          \* the run directories
  contract,         \* of this run: 0 before there is one
  pc,               \* the next step of the stages
  r,                \* the locals of MaaFgoAdapter.run
  child,            \* the process tree and the reporter's state
  stop,             \* the result of STOP_FGO
  app,              \* the game: down, up, or told to stop
  cancelled, expired, edits, faults,
  seen              \* history of this run, for the properties

control == << cancelled, expired >>
user    == << profile, edits >>
vars == << user, staged, runDirs, contract, pc, r, child, stop, app, control, faults, seen >>

RunIds    == {1, 2}       \* of an earlier run and of this one
Missing   == [run |-> 0, plan |-> << >>, terminal |-> << >>, unexpected |-> FALSE]
Absent    == [plan |-> << >>, artifact |-> Missing]
Pending   == "pending"
NoChild   == [run |-> 0, cli |-> "none", agent |-> "none", condemned |-> FALSE, queue |-> << >>,
              doing |-> << >>, terminal |-> << >>, unexpected |-> FALSE, prior |-> FALSE]
FreshLocals == [status |-> "failed", code |-> "INTERNAL_ERROR", reason |-> "none",
                exit |-> "none", cleaned |-> TRUE, confirmed |-> FALSE,
                artifact |-> "not_attempted", expected |-> 0, count |-> 0]
NotStopped  == [status |-> "none", verification |-> "skipped"]
NothingSeen == [ran |-> {}, unwritten |-> FALSE, reopened |-> FALSE, unreachable |-> FALSE]

Distinct(p) == \A i, j \in DOMAIN p : p[i] = p[j] => i = j

(* validate_profile_tasks: begins with the login, no task twice, and some  *)
(* business after it.                                                      *)
Policy(p) == p[1] = Login /\ Distinct(p) /\ Len(p) > 1

Plan == runDirs[contract].plan

(* What an earlier run may have left that could be taken for a success.    *)
Earlier(p) == [plan |-> p, artifact |-> [run |-> 1, plan |-> p, unexpected |-> FALSE,
                                         terminal |-> [i \in DOMAIN p |-> "success"]]]

Init ==
  /\ profile \in Profiles
  /\ staged = << >> /\ contract = 0
  /\ \E left \in {Absent} \cup {Earlier(p) : p \in Profiles} : runDirs = << left, Absent >>
  /\ pc = "idle" /\ r = FreshLocals /\ child = NoChild /\ stop = NotStopped
  /\ app = "down" /\ cancelled = FALSE /\ expired = FALSE
  /\ edits = 0 /\ faults = 0 /\ seen = NothingSeen

Fault == faults < MaxFaults /\ faults' = faults + 1
-----------------------------------------------------------------------------
(* The user, the clock and the token.                                      *)
(* Edits that nothing reads any more are left out.                         *)
Edit ==
  /\ edits < MaxEdits /\ edits' = edits + 1
  /\ \/ /\ contract = 0 \/ (child.cli \in {"none", "starting"} /\ pc # "over")
        /\ profile' \in Profiles \ {profile} /\ UNCHANGED << app, seen >>
     \/ /\ pc \in {"look", "again", "over"} /\ app # "up" /\ app' = "up"
        /\ seen' = [seen EXCEPT !.reopened = TRUE] /\ UNCHANGED profile
  /\ UNCHANGED << staged, runDirs, contract, pc, r, child, stop, control, faults >>

Stops ==
  /\ pc \notin {"idle", "over"}
  /\ \/ ~cancelled /\ cancelled' = TRUE /\ UNCHANGED expired
     \/ ~expired /\ expired' = TRUE /\ UNCHANGED cancelled
  /\ UNCHANGED << user, staged, runDirs, contract, pc, r, child, stop, app, faults, seen >>
-----------------------------------------------------------------------------
(* PREPARE_MAAFGO_RUN.                                                     *)
Preparing == UNCHANGED << edits, r, child, stop, app, control, seen >>

Begin ==
  /\ pc = "idle" /\ pc' \in {"sync", "check"}      \* with gui_config_source, or without
  /\ UNCHANGED << profile, staged, runDirs, contract, faults >> /\ Preparing

PrepareFails ==
  /\ \/ pc \in {"sync", "replace", "check", "contract"} /\ Fault
     \/ UNCHANGED faults /\ \/ pc = "sync" /\ \E gui \in Profiles : ~Policy(gui)
                            \/ pc = "check" /\ ~Policy(profile)
                            \/ pc = "contract" /\ ~Distinct(profile)
  /\ pc' = "over" /\ staged' = << >> /\ UNCHANGED << profile, runDirs, contract >> /\ Preparing

(* sync_mxu_profile; the GUI may hold any selection when it is read.       *)
Sync ==
  /\ pc = "sync"
  /\ \E gui \in Profiles :
       /\ Policy(gui)
       /\ IF profile = gui THEN pc' = "check" /\ UNCHANGED staged
          ELSE pc' = "replace" /\ staged' = gui
  /\ UNCHANGED << profile, runDirs, contract, faults >> /\ Preparing

ReplaceProfile ==
  /\ pc = "replace" /\ profile' = staged /\ staged' = << >> /\ pc' = "check"
  /\ UNCHANGED << runDirs, contract, faults >> /\ Preparing

CheckProfile ==
  /\ pc = "check" /\ Policy(profile) /\ pc' = "contract"
  /\ UNCHANGED << profile, staged, runDirs, contract, faults >> /\ Preparing

(* The profile is read again for the expected tasks.                       *)
NewRunSameDirectory == 1                                                \* mutant
NewRun == CHOOSE i \in RunIds \ {1} : runDirs[i] = Absent

MakeContract ==
  /\ pc = "contract" /\ Distinct(profile)
  /\ contract' = NewRun /\ runDirs' = [runDirs EXCEPT ![NewRun].plan = profile]
  /\ pc' = "control" /\ UNCHANGED << profile, staged, faults >> /\ Preparing
-----------------------------------------------------------------------------
(* MaaFgoAdapter.run.                                                      *)
Adapter == UNCHANGED << user, staged, runDirs, contract, stop, app, control >>

Ended(reason, exit, status, code, cleaned) ==
  [r EXCEPT !.reason = reason, !.exit = exit, !.status = status, !.code = code,
            !.cleaned = cleaned]

Control ==
  /\ pc \in {"control", "ready", "created"} /\ (cancelled \/ expired)
  /\ r' = IF cancelled THEN Ended("cancelled", r.exit, "cancelled", "CANCELLED", r.cleaned)
          ELSE Ended("timeout", r.exit, "timeout", "TASK_TIMEOUT", r.cleaned)
  /\ pc' = IF pc = "created" THEN "close" ELSE "stop"
  /\ UNCHANGED << child, faults, seen >> /\ Adapter

(* Disabled, misconfigured, or a profile of another device.                *)
Misconfigured ==
  /\ pc \in {"control", "profile"} /\ Fault
  /\ pc = "control" => ~cancelled /\ ~expired
  /\ r' = [r EXCEPT !.code = "INVALID_CONFIGURATION"] /\ pc' = "stop"
  /\ UNCHANGED << child, seen >> /\ Adapter

Proceed ==
  /\ pc = "profile" \/ (pc \in {"control", "ready"} /\ ~cancelled /\ ~expired)
  /\ pc' = CASE pc = "control" -> "profile" [] pc = "profile" -> "ready" [] OTHER -> "created"
  /\ r' = IF pc = "profile" THEN [r EXCEPT !.confirmed = TRUE, !.expected = Len(Plan)] ELSE r
  /\ UNCHANGED << child, faults, seen >> /\ Adapter

Launch ==
  /\ pc = "created" /\ ~cancelled /\ ~expired
  /\ \/ /\ child' = [child EXCEPT !.run = contract, !.cli = "starting"] /\ pc' = "wait"
        /\ UNCHANGED << r, faults >>
     \/ /\ Fault /\ pc' = "close" /\ UNCHANGED child
        /\ r' = Ended("start_failed", "none", "failed", "PROCESS_START_FAILED", TRUE)
  /\ UNCHANGED seen /\ Adapter

Exited ==
  /\ pc = "wait" /\ child.cli \in {"zero", "nonzero"}
  /\ child' = [child EXCEPT !.condemned = TRUE]
  /\ IF child.cli = "zero"
     THEN /\ r' = Ended("normal_exit", "zero", "failed", "COMPLETION_UNCONFIRMED", TRUE)
          /\ pc' = "verify"
     ELSE /\ r' = Ended("nonzero_exit", "nonzero", "failed", "PROCESS_EXIT_NONZERO", TRUE)
          /\ pc' = "close"
  /\ UNCHANGED << faults, seen >> /\ Adapter

ByControl == IF cancelled THEN "cancelled" ELSE IF expired THEN "timeout" ELSE "failed"

Terminated ==
  /\ pc = "wait" /\ pc' = "close"
  /\ \/ /\ cancelled \/ expired
        /\ \E reason \in {x \in {"cancelled", "timeout"} :
                            IF x = "cancelled" THEN cancelled ELSE expired} :
             r' = Ended(reason, "none", reason,
                        IF reason = "cancelled" THEN "CANCELLED" ELSE "TASK_TIMEOUT", TRUE)
        /\ child' = [child EXCEPT !.condemned = TRUE,
                                  !.cli = IF @ \in {"zero", "nonzero"} THEN @ ELSE "killed"]
        /\ UNCHANGED faults
     \/ /\ Fault /\ child' = [child EXCEPT !.condemned = TRUE]
        /\ \/ /\ cancelled \/ expired
              /\ r' = Ended("termination_failed", "none", ByControl, "CLEANUP_FAILED", FALSE)
           \/ r' = Ended("wait_failed", "none", "failed", "WAIT_FAILED", FALSE)
           \/ r' = [r EXCEPT !.cleaned = FALSE]
  /\ UNCHANGED seen /\ Adapter

(* verify_completion_artifact, in its order.                               *)
Mine(a) == a.run = contract /\ a.plan = Plan
RefusalOfPending(a) ==                                                  \* mutant
  IF a = Missing THEN "RESULT_MISSING"
  ELSE IF ~Mine(a) THEN "RESULT_ID_MISMATCH"
  ELSE IF Len(a.terminal) # Len(Plan) \/ a.unexpected THEN "RESULT_INVALID"
  ELSE IF Range(a.terminal) # {"success"} THEN "TASK_FAILED" ELSE "OK"

Refusal(a) ==
  IF a = Missing THEN "RESULT_MISSING"
  ELSE IF ~Mine(a) THEN "RESULT_ID_MISMATCH"
  ELSE IF Len(a.terminal) # Len(Plan) \/ a.unexpected THEN "RESULT_INVALID"
  ELSE IF "failed" \in Range(a.terminal) THEN "TASK_FAILED"
  ELSE IF Pending \in Range(a.terminal) THEN "COMPLETION_UNCONFIRMED"
  ELSE "OK"

Reject(code) == [r EXCEPT !.code = code, !.status = "failed", !.count = 0, !.artifact = "rejected"]
Accept       == [r EXCEPT !.code = "OK", !.status = "success", !.artifact = "verified",
                          !.count = Len(Plan)]
Judged(code) == IF code = "OK" THEN Accept ELSE Reject(code)

Verify ==
  /\ pc = "verify" /\ pc' = "close"
  /\ \/ r' = Judged(Refusal(runDirs[contract].artifact)) /\ UNCHANGED faults
     \/ Fault /\ r' = Reject("RESULT_MISSING")
     \/ Fault /\ r' = [r EXCEPT !.code = "INTERNAL_ERROR", !.cleaned = FALSE, !.count = 0]
  /\ UNCHANGED << child, seen >> /\ Adapter

CloseFailedKeepsReason(l) ==                                            \* mutant
  [l EXCEPT !.code = "CLEANUP_FAILED", !.cleaned = FALSE, !.count = 0]
CloseFailed(l) ==
  [l EXCEPT !.code = "CLEANUP_FAILED", !.reason = "termination_failed", !.cleaned = FALSE,
            !.count = 0, !.status = IF @ = "success" THEN "failed" ELSE @]

Close ==
  /\ pc = "close" /\ pc' = "stop"
  /\ \/ UNCHANGED << r, faults >>
     \/ Fault /\ r' = CloseFailed(r)
  /\ UNCHANGED << child, seen >> /\ Adapter
-----------------------------------------------------------------------------
(* FgoAppStopper.stop; its deadline is its own, or that of the workflow.   *)
(* What RUN_MAAFGO left in memory is gone: a tree that was cleaned, the     *)
(* locals but for the report.                                               *)
Stopper == UNCHANGED << user, staged, runDirs, contract, cancelled >>

StopEnds(status, verification) ==
  pc' = "over" /\ stop' = [status |-> status, verification |-> verification]

BeginStop ==
  /\ pc = "stop" /\ expired' \in {FALSE, expired} /\ pc' = "force"
  /\ r' = [FreshLocals EXCEPT !.status = r.status, !.code = r.code, !.cleaned = r.cleaned]
  /\ child' = IF r.cleaned THEN NoChild ELSE child
  /\ seen' = NothingSeen
  /\ UNCHANGED << stop, app, faults >> /\ Stopper

StopControl ==
  /\ pc = "force" /\ (cancelled \/ expired)
  /\ StopEnds(ByControl, "skipped")
  /\ UNCHANGED << app, expired, faults, seen, r, child >> /\ Stopper

(* The order may be obeyed whatever becomes of the command that gave it.   *)
ForceStop ==
  /\ pc = "force" /\ ~cancelled /\ ~expired
  /\ \/ /\ app' = IF app = "up" THEN "dying" ELSE app
        /\ pc' = "look" /\ UNCHANGED << stop, faults >>
     \/ /\ Fault /\ app' \in {app, IF app = "up" THEN "dying" ELSE app}
        /\ StopEnds("failed", "skipped")
  /\ UNCHANGED << expired, seen, r, child >> /\ Stopper

(* Stopped by the token or the deadline while the command runs.            *)
ForceStopControlled ==
  /\ pc = "look" /\ (cancelled \/ expired)
  /\ StopEnds(ByControl, "skipped")
  /\ UNCHANGED << app, expired, faults, seen, r, child >> /\ Stopper

(* pidof prints a process, or nothing; adb itself also ends with 1 and no  *)
(* output when it has lost the device.                                     *)
PidofTrustsOnce(printed) ==                                             \* mutant
  IF ~printed \/ pc = "again" THEN StopEnds("stopped", "verified")
  ELSE pc' = "again" /\ UNCHANGED stop
Pidof(printed) ==
  CASE ~printed -> StopEnds("stopped", "verified")
    [] printed /\ pc = "look"  -> pc' = "again" /\ UNCHANGED stop
    [] printed /\ pc = "again" -> StopEnds("failed", "failed")

Look ==
  /\ pc \in {"look", "again"}
  /\ \/ Pidof(app # "down") /\ UNCHANGED << faults, seen >>
     \/ Fault /\ Pidof(FALSE) /\ seen' = [seen EXCEPT !.unreachable = TRUE]
     \/ /\ \/ Fault
           \/ (cancelled \/ expired) /\ UNCHANGED faults
        /\ StopEnds("stopped", "inconclusive") /\ UNCHANGED seen
  /\ UNCHANGED << app, expired, r, child >> /\ Stopper

(* A stopped game disappears some time later.                              *)
AppDies ==
  /\ app = "dying" /\ app' = "down"
  /\ UNCHANGED << user, staged, runDirs, contract, pc, r, child, stop, control, faults, seen >>
-----------------------------------------------------------------------------
(* The tool: what its command line, runner script and agent do.            *)
Tool == UNCHANGED << user, staged, contract, pc, r, stop, control >>

Expected == runDirs[child.run].plan

Artifact(c) == [run |-> c.run, plan |-> Expected, terminal |-> c.terminal,
                unexpected |-> c.unexpected]

(* persist: atomic, and its failure is swallowed.                          *)
Persist(c) ==
  \/ runDirs' = [runDirs EXCEPT ![child.run].artifact = Artifact(c)] /\ UNCHANGED faults
  \/ Fault /\ UNCHANGED runDirs

Note(c, ran) ==
  seen' = [seen EXCEPT !.ran = @ \cup ran,
                       !.unwritten = @ \/ runDirs'[child.run].artifact # Artifact(c)]

(* The command line reads the profile when it starts.                      *)
CliStarts ==
  /\ child.cli = "starting"
  /\ child' = [child EXCEPT !.cli = "running", !.queue = profile]
  /\ UNCHANGED << runDirs, app, faults, seen >> /\ Tool

(* build_reporter; without readable expected tasks it knows of none.       *)
AgentStarts ==
  /\ child.cli = "running" /\ child.agent = "none"
  /\ \/ child' = [child EXCEPT !.agent = "running", !.terminal = [i \in DOMAIN Expected |-> Pending]]
     \/ child' = [child EXCEPT !.agent = "running"]
  /\ Persist(child') /\ Note(child', {}) /\ UNCHANGED app /\ Tool

(* OrrTaskerSink.on_tasker_task, with failure dominating.                  *)
Terminal(old, task, ok) ==
  [i \in DOMAIN old |-> IF Expected[i] # task THEN old[i]
                        ELSE IF ok /\ old[i] # "failed" THEN "success" ELSE "failed"]

TakesForeign(c, task) == c                                              \* mutant
Takes(c, task) == [c EXCEPT !.unexpected = @ \/ (\A i \in DOMAIN c.terminal : Expected[i] # task)]

StartTask ==
  /\ child.cli = "running" /\ child.agent = "running" /\ child.doing = << >> /\ child.queue # << >>
  /\ child' = [Takes(child, Head(child.queue)) EXCEPT !.doing = << Head(child.queue) >>,
                                                      !.queue = Tail(@)]
  /\ Persist(child') /\ Note(child', {}) /\ UNCHANGED app /\ Tool

(* OrrRunTask.run: after a failure the remaining tasks are not tried.      *)
FinishTask ==
  /\ child.cli = "running" /\ child.agent = "running" /\ child.doing # << >>
  /\ \E ok \in {TRUE, FALSE} :
       /\ ok => ~child.prior
       /\ child' = [Takes(child, child.doing[1])
                    EXCEPT !.terminal = Terminal(@, child.doing[1], ok),
                           !.prior = @ \/ ~ok, !.doing = << >>]
       /\ Persist(child') /\ Note(child', {<< child.doing[1], ok >>})
  /\ app' = IF child.prior THEN app ELSE "up"
  /\ Tool

(* The command line ends with 0 whatever became of its tasks, also when a  *)
(* signal ends it early; a refusing runner script and a start without an   *)
(* artifact end with another code, and so may a crash.                     *)
CliExits ==
  /\ child.cli \in {"starting", "running"}
  /\ \E code \in IF child.condemned THEN {"killed"} ELSE {"zero", "nonzero"} :
       child' = [child EXCEPT !.cli = code]
  /\ UNCHANGED << runDirs, app, faults, seen >> /\ Tool

(* The agent ends, with a last persist of its own unless it is killed first. *)
AgentExits ==
  /\ child.agent = "running"
  /\ child.condemned \/ child.cli \notin {"starting", "running"}
  /\ child' = [child EXCEPT !.agent = "gone"]
  /\ \/ Persist(child') /\ Note(child', {})
     \/ child.condemned /\ UNCHANGED << runDirs, faults, seen >>
  /\ UNCHANGED app /\ Tool
-----------------------------------------------------------------------------
StageStep ==
  \/ PrepareFails \/ Sync \/ ReplaceProfile \/ CheckProfile \/ MakeContract
  \/ Control \/ Misconfigured \/ Proceed \/ Launch \/ Exited \/ Terminated \/ Verify \/ Close
  \/ BeginStop \/ StopControl \/ ForceStop \/ ForceStopControlled \/ Look

ToolStep == CliStarts \/ AgentStarts \/ StartTask \/ FinishTask \/ CliExits \/ AgentExits

Over == pc = "over" /\ UNCHANGED vars

Next == StageStep \/ Begin \/ ToolStep \/ AppDies \/ Edit \/ Stops \/ Over

Spec == Init /\ [][Next]_vars
-----------------------------------------------------------------------------
(* The adapter has returned its result.                                    *)
Returned == pc = "stop"

Ran == {x[1] : x \in seen.ran}

(* Success is earned: whatever artifacts lie about, whatever was edited,    *)
(* killed or not written, RUN_MAAFGO reports success only when each task of *)
(* this run's contract has succeeded in this run's tool, and the tree has   *)
(* been condemned.                                                          *)
SuccessIsEarned ==
  Returned /\ r.status = "success" =>
    /\ \A i \in DOMAIN Plan : << Plan[i], TRUE >> \in seen.ran
    /\ child.condemned /\ child.cli = "zero"

(* A profile that was edited after the contract is caught: a success whose  *)
(* artifact was written each time means that no other task was started and  *)
(* none failed.  When the tool was ended early it may have been in a task   *)
(* of the contract once more, if the edited profile names one twice.        *)
DriftIsCaught ==
  Returned /\ r.status = "success" /\ ~seen.unwritten =>
    /\ Ran = Range(Plan) /\ \A x \in seen.ran : x[2]
    /\ Range(child.doing) \subseteq Range(Plan)
    /\ Distinct(profile) => child.doing = << >>

(* A refusal names its cause, as long as the artifact could be written and  *)
(* read: TASK_FAILED means that a task failed or was given up, RESULT_INVALID
   that the reporter met a task outside the contract or knew none of it,
   COMPLETION_UNCONFIRMED that some task did not get to its end.            *)
RefusalIsJustified ==
  Returned /\ ~seen.unwritten =>
    /\ r.code = "TASK_FAILED" => \E x \in seen.ran : ~x[2] /\ x[1] \in Range(Plan)
    /\ r.code = "RESULT_INVALID" =>
         \/ Len(child.terminal) # Len(Plan)
         \/ (Ran \cup Range(child.doing)) \ Range(Plan) # {}
    /\ (r.code = "COMPLETION_UNCONFIRMED" /\ r.artifact = "rejected") =>
         \E i \in DOMAIN Plan : << Plan[i], TRUE >> \notin seen.ran

(* Every result that run returns can be constructed: __post_init__ would    *)
(* raise out of it otherwise, after the tool has run.                       *)
Constructible(l) ==
  /\ l.status = "success" => l.artifact = "verified"
  /\ l.count <= l.expected
  /\ l.code = "CLEANUP_FAILED" => ~l.cleaned
  /\ l.code = "COMPLETION_UNCONFIRMED" =>
       /\ l.status = "failed" /\ l.exit = "zero" /\ l.reason = "normal_exit"
       /\ l.cleaned /\ l.confirmed
  /\ l.status = "success" =>
       /\ l.code = "OK" /\ l.exit = "zero" /\ l.reason = "normal_exit"
       /\ l.cleaned /\ l.confirmed /\ l.expected > 0 /\ l.count = l.expected
  /\ l.status = "timeout" => /\ l.code \in {"TASK_TIMEOUT", "CLEANUP_FAILED"}
                             /\ l.reason \in {"timeout", "termination_failed"}
  /\ l.status = "cancelled" => /\ l.code \in {"CANCELLED", "CLEANUP_FAILED"}
                               /\ l.reason \in {"cancelled", "termination_failed"}

ResultsAreConstructible == Returned => Constructible(r)

(* A verified stop holds: the game is down and stays down after a STOP_FGO  *)
(* that says verified, provided the automation was cleaned before, nobody   *)
(* opens the game again and adb has not lost the device while it looked.    *)
VerifiedStopIsDown ==
  pc = "over" /\ contract # 0 /\ stop.verification = "verified" /\ r.cleaned
     /\ ~seen.reopened /\ ~seen.unreachable
    => app = "down"
=============================================================================
