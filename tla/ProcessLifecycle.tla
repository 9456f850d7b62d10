-------------------------- MODULE ProcessLifecycle --------------------------
(***************************************************************************)
(* launcher.launch and ProcessSupervisor: a child process is created       *)
(* suspended, boxed into a Job Object, resumed, waited for or stopped, and *)
(* released.  Every Win32 call that can fail may fail.  The supervisor is  *)
(* used by one thread; processes end, and the token is cancelled, at any   *)
(* moment.  TerminateJobObject and KILL_ON_JOB_CLOSE only condemn a        *)
(* process: it is "dying" until it has ended.  CloseHandle on a valid      *)
(* handle does not fail.                                                   *)
(***************************************************************************)
EXTENDS Naturals, FiniteSets

CONSTANTS
  Procs,      \* the processes that are launched, one ProcessSpec each
  Survivors   \* those with descendants_survive_close

Outputs == {"stdout", "stderr"}
Handles == Outputs \cup {"process", "thread", "job"}
Ended   == {"EXITED", "TIMEOUT", "CANCELLED", "STOPPED"}
Results == Ended \cup {"NONE", "START_FAILED", "WAIT_FAILED", "TERMINATION_FAILED"}
NoProc  == "none"

ASSUME ProcsAssumption == Survivors \subseteq Procs /\ NoProc \notin Procs

VARIABLES
  proc,       \* per process: what the OS and its ManagedProcess know of it
  active,     \* ProcessSupervisor._active
  closed,     \* ProcessSupervisor._closed
  pc, cur,    \* the call in progress and the process it is about
  running,    \* the call is run(): launch goes on to wait
  reason,     \* why _terminate_and_collect was called
  failed,     \* TerminateJobObject failed
  cancelled, expired

call == << pc, cur, running, reason, failed >>
supervisor == << active, closed >>
environment == << cancelled, expired >>
vars == << proc, supervisor, call, environment >>

LaunchSteps == {"stdout", "stderr", "create", "job", "configure", "assign",
                "resume", "thread"}

Unlaunched == [os |-> "none", kids |-> "none", inJob |-> FALSE, handles |-> {},
               managed |-> FALSE, result |-> "NONE"]

Init ==
  /\ proc = [p \in Procs |-> Unlaunched]
  /\ active = {} /\ closed = FALSE
  /\ pc = "idle" /\ cur = NoProc /\ running = FALSE
  /\ reason = "NONE" /\ failed = FALSE
  /\ cancelled = FALSE /\ expired = FALSE

-----------------------------------------------------------------------------
(* The operating system. *)

Condemn(state) == IF state \in {"running", "suspended", "alive"} THEN "dying" ELSE state

(* Everything in the job is condemned.                                     *)
KillTree(r) ==
  IF r.inJob THEN [r EXCEPT !.os = Condemn(@), !.kids = Condemn(@)] ELSE r

(* Dropping the handles: KILL_ON_JOB_CLOSE acts unless the spec opted out. *)
ReleaseWithoutKill(p, r) == [r EXCEPT !.handles = {}]              \* mutant
ReleaseKillingAll(p, r) == [KillTree(r) EXCEPT !.handles = {}]     \* mutant

Release(p, r) ==
  [(IF p \in Survivors THEN r ELSE KillTree(r)) EXCEPT !.handles = {}]

ProcessEnds(p) ==
  /\ proc[p].os \in {"running", "dying"}
  /\ proc' = [proc EXCEPT ![p].os = "exited"]
  /\ UNCHANGED << supervisor, call, environment >>

ChildStarts(p) ==
  /\ proc[p].os = "running" /\ proc[p].kids = "none"
  /\ proc' = [proc EXCEPT ![p].kids = "alive"]
  /\ UNCHANGED << supervisor, call, environment >>

ChildEnds(p) ==
  /\ proc[p].kids \in {"alive", "dying"}
  /\ proc' = [proc EXCEPT ![p].kids = "none"]
  /\ UNCHANGED << supervisor, call, environment >>

Cancel == /\ ~cancelled /\ cancelled' = TRUE
          /\ UNCHANGED << proc, supervisor, call, expired >>
Expire == /\ ~expired /\ expired' = TRUE
          /\ UNCHANGED << proc, supervisor, call, cancelled >>

-----------------------------------------------------------------------------
(* launch: one step after the other, each taking a handle or changing the  *)
(* process.                                                                *)

Goto(step) == pc' = step /\ UNCHANGED << cur, running, reason, failed >>
Return == /\ pc' = "idle" /\ cur' = NoProc /\ running' = FALSE
          /\ reason' = "NONE" /\ failed' = FALSE

(* run() does not look at _closed, launch() does.                          *)
StartLaunch(p, isRun) ==
  /\ pc = "idle" /\ proc[p] = Unlaunched
  /\ isRun \/ ~closed
  /\ pc' = "stdout" /\ cur' = p /\ running' = isRun
  /\ UNCHANGED << proc, supervisor, reason, failed, environment >>

Step(step, next, r) ==
  /\ pc = step
  /\ proc' = [proc EXCEPT ![cur] = r]
  /\ Goto(next)
  /\ UNCHANGED << supervisor, environment >>

Hold(hs) == [proc[cur] EXCEPT !.handles = @ \cup hs]

OpenStdout  == Step("stdout", "stderr", Hold({"stdout"}))
OpenStderr  == Step("stderr", "create", Hold({"stderr"}))
CreateSuspended ==
  Step("create", "job", [Hold({"process", "thread"}) EXCEPT !.os = "suspended"])
CreateJob   == Step("job", "configure", Hold({"job"}))
ResumeFirst == Step("configure", "assign", [proc[cur] EXCEPT !.os = "running"])  \* mutant
Configure   == Step("configure", "assign", proc[cur])
AssignToJob == Step("assign", "resume", [proc[cur] EXCEPT !.inJob = TRUE])
ResumeThread == Step("resume", "thread", [proc[cur] EXCEPT !.os = "running"])

(* A new ManagedProcess is registered; run() goes on to wait for it.       *)
Launched ==
  /\ pc = "thread"
  /\ proc' = [proc EXCEPT ![cur].handles = @ \ {"thread"}, ![cur].managed = TRUE]
  /\ active' = active \cup {cur}
  /\ IF running THEN Goto("cancel?") ELSE Return
  /\ UNCHANGED << closed, environment >>

(* Before there is a process, a failure raises and releases nothing; after *)
(* that _cleanup_on_launch_failure terminates the job, if there is one,    *)
(* which need not work, and closes everything.                             *)
LaunchFails(terminated) ==
  LET r     == proc[cur]
      after == CASE pc \in {"stdout", "stderr", "create"} -> r
                 [] pc \in {"job", "configure", "assign", "resume"} ->
                      Release(cur, IF terminated THEN KillTree(r) ELSE r)
  IN  /\ pc \in LaunchSteps \ {"thread"}
      /\ pc = "configure" => cur \notin Survivors
      /\ proc' = [proc EXCEPT ![cur] = [after EXCEPT !.result = "START_FAILED"]]
      /\ Return
      /\ UNCHANGED << supervisor, environment >>

-----------------------------------------------------------------------------
(* wait: cancel, then deadline, then exit, and again.                      *)

(* The result is collected, the handles are closed and the process leaves  *)
(* the registry.                                                           *)
CollectUnregistered(result) ==                                     \* mutant
  /\ proc' = [proc EXCEPT ![cur] = [Release(cur, @) EXCEPT !.result = result]]
  /\ Return
  /\ UNCHANGED << supervisor, environment >>

Collect(result) ==
  /\ proc' = [proc EXCEPT ![cur] = [Release(cur, @) EXCEPT !.result = result]]
  /\ active' = active \ {cur}
  /\ Return
  /\ UNCHANGED << closed, environment >>

Owned(p) == proc[p].managed /\ proc[p].handles # {}

StartWait(p) ==
  /\ pc = "idle" /\ Owned(p)
  /\ pc' = "cancel?" /\ cur' = p
  /\ UNCHANGED << proc, supervisor, running, reason, failed, environment >>

Terminate(why) ==
  /\ pc' = "terminate" /\ reason' = why
  /\ UNCHANGED << proc, supervisor, cur, running, failed, environment >>

CheckCancel ==
  /\ pc = "cancel?"
  /\ \/ cancelled /\ Terminate("CANCELLED")
     \/ ~cancelled /\ Goto("deadline?") /\ UNCHANGED << proc, supervisor, environment >>

CheckDeadline ==
  /\ pc = "deadline?"
  /\ \/ expired /\ Terminate("TIMEOUT")
     \/ ~expired /\ Goto("poll") /\ UNCHANGED << proc, supervisor, environment >>

Poll ==
  /\ pc = "poll"
  /\ \/ proc[cur].os = "exited" /\ Collect("EXITED")
     \/ /\ proc[cur].os # "exited"
        /\ Goto("cancel?") /\ UNCHANGED << proc, supervisor, environment >>

(* An exception inside wait, also while a termination is being confirmed.  *)
WaitFails ==
  /\ pc = "poll" \/ (pc = "confirm" /\ reason # "STOPPED")
  /\ Collect("WAIT_FAILED")

-----------------------------------------------------------------------------
(* stop, and _terminate_and_collect for stop and wait.                     *)

Stop(p) ==
  /\ pc = "idle" /\ Owned(p)
  /\ \/ /\ proc[p].os = "exited"
        /\ proc' = [proc EXCEPT ![p] = [Release(p, @) EXCEPT !.result = "EXITED"]]
        /\ active' = active \ {p}
        /\ UNCHANGED << closed, call, environment >>
     \/ /\ proc[p].os # "exited"
        /\ pc' = "terminate" /\ cur' = p /\ reason' = "STOPPED"
        /\ UNCHANGED << proc, supervisor, running, failed, environment >>

TerminateJob(ok) ==
  /\ pc = "terminate"
  /\ proc' = IF ok THEN [proc EXCEPT ![cur] = KillTree(@)] ELSE proc
  /\ failed' = ~ok
  /\ pc' = "confirm"
  /\ UNCHANGED << supervisor, cur, running, reason, environment >>

ConfirmExit ==
  /\ pc = "confirm" /\ proc[cur].os = "exited"
  /\ Collect(reason)

(* The confirmation window passes.  Only a termination that failed and was *)
(* not confirmed is reported as one.                                       *)
AsRequested(why) == why                                            \* mutant

Unconfirmed(why) == IF failed THEN "TERMINATION_FAILED" ELSE why

ConfirmExpires ==
  /\ pc = "confirm"
  /\ Collect(Unconfirmed(reason))

(* KeyboardInterrupt ends run() after one more termination, and any other  *)
(* call without one.                                                       *)
Interrupt(terminated) ==
  /\ pc \in {"cancel?", "deadline?", "poll", "terminate", "confirm"}
  /\ IF running
     THEN /\ proc' = [proc EXCEPT ![cur] =
                        Release(cur, IF terminated THEN KillTree(@) ELSE @)]
          /\ active' = active \ {cur}
     ELSE UNCHANGED << proc, active >>
  /\ Return
  /\ UNCHANGED << closed, environment >>

(* In stop() an exception of poll escapes: the process stays registered.   *)
StopRaises ==
  /\ pc = "confirm" /\ reason = "STOPPED"
  /\ Return
  /\ UNCHANGED << proc, supervisor, environment >>

-----------------------------------------------------------------------------
StartClose ==
  /\ pc = "idle" /\ ~closed
  /\ closed' = TRUE
  /\ Goto("closing")
  /\ UNCHANGED << proc, active, environment >>

(* One process after the other; a termination that fails stops nothing.    *)
CloseNext(terminated) ==
  /\ pc = "closing"
  /\ \E p \in active :
       /\ proc' = [proc EXCEPT ![p] = Release(p, IF terminated THEN KillTree(@) ELSE @)]
       /\ active' = active \ {p}
  /\ UNCHANGED << closed, call, environment >>

EndClose ==
  /\ pc = "closing" /\ active = {}
  /\ Return
  /\ UNCHANGED << proc, supervisor, environment >>

-----------------------------------------------------------------------------
LaunchStep ==
  \/ OpenStdout \/ OpenStderr \/ CreateSuspended \/ CreateJob \/ Configure
  \/ AssignToJob \/ ResumeThread \/ Launched
  \/ \E ok \in BOOLEAN : LaunchFails(ok)

SupervisorStep ==
  \/ LaunchStep
  \/ CheckCancel \/ CheckDeadline \/ Poll \/ WaitFails
  \/ ConfirmExit \/ ConfirmExpires \/ StopRaises
  \/ \E ok \in BOOLEAN : TerminateJob(ok) \/ CloseNext(ok)
  \/ EndClose

KeyboardInterrupt == \E ok \in BOOLEAN : Interrupt(ok)

Client ==
  \/ StartClose
  \/ \E p \in Procs :
       \/ \E isRun \in BOOLEAN : StartLaunch(p, isRun)
       \/ StartWait(p) \/ Stop(p)

OS == \E p \in Procs : ProcessEnds(p) \/ ChildStarts(p) \/ ChildEnds(p)

Next == SupervisorStep \/ KeyboardInterrupt \/ Client \/ OS \/ Cancel \/ Expire

Spec == Init /\ [][Next]_vars
-----------------------------------------------------------------------------
(* Type invariant. *)
TypeOK ==
  /\ proc \in [Procs -> [os : {"none", "suspended", "running", "dying", "exited"},
                         kids : {"none", "alive", "dying"}, inJob : BOOLEAN,
                         handles : SUBSET Handles, managed : BOOLEAN, result : Results]]
  /\ active \subseteq Procs /\ closed \in BOOLEAN
  /\ pc \in LaunchSteps \cup {"idle", "cancel?", "deadline?", "poll", "terminate",
                              "confirm", "closing"}
  /\ cur \in Procs \cup {NoProc}
  /\ cur = NoProc <=> pc \in {"idle", "closing"}
  /\ running \in BOOLEAN /\ failed \in BOOLEAN
  /\ reason \in {"NONE", "CANCELLED", "TIMEOUT", "STOPPED"}
  /\ cancelled \in BOOLEAN /\ expired \in BOOLEAN

Live(p) == proc[p].os \in {"suspended", "running"} \/ proc[p].kids = "alive"

(* No process executes an instruction, and none has a child, outside a job: *)
(* otherwise its tree could escape every later termination.                 *)
NothingRunsUnboxed ==
  \A p \in Procs : (proc[p].os = "running" \/ proc[p].kids # "none") => proc[p].inJob

(* Once the supervisor has let go of a process, its tree is condemned,      *)
(* whatever failed on the way (a wait that raised, a TerminateJobObject     *)
(* that failed, a close): KILL_ON_JOB_CLOSE is the last line.               *)
ReleasedTreesDie ==
  \A p \in Procs \ Survivors :
    (proc[p].managed /\ proc[p].handles = {}) => ~Live(p)

(* What is registered between calls is exactly what still has handles, and  *)
(* after close nothing is.                                                  *)
RegistryOwnsHandles ==
  pc = "idle" => /\ active = {p \in Procs : Owned(p)}
                 /\ closed => active = {}

(* A result that adapters read as "the process was cleaned up" is only      *)
(* given for a process that has ended or is condemned, and an exit code     *)
(* only for one that has ended.                                             *)
CleanedMeansCondemned ==
  \A p \in Procs :
    /\ proc[p].result \in Ended => proc[p].os \in {"dying", "exited"}
    /\ proc[p].result = "EXITED" => proc[p].os = "exited"

(* The emulator that a manager command starts outlives the command: the     *)
(* children of a spec with descendants_survive_close are condemned only by  *)
(* an explicit termination, or when nobody collects a result (close, an     *)
(* interrupt), never by letting go of the handles.                          *)
SurvivorsOutliveRelease ==
  [][\A p \in Survivors :
       (proc[p].kids = "alive" /\ proc'[p].kids = "dying") =>
          pc = "terminate" \/ proc'[p].result = "NONE"]_vars

(* launcher.launch, docstring: a failure at any step cleans up the          *)
(* resources created so far.                                                *)
FailedLaunchLeavesNothing ==
  \A p \in Procs : proc[p].result = "START_FAILED" =>
    proc[p].handles = {} /\ ~Live(p)
=============================================================================
