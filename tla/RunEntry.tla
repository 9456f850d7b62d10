------------------------------ MODULE RunEntry ------------------------------
(***************************************************************************)
(* The run and start commands around one WorkflowRunner: preflight, the    *)
(* elevation decision of WorkflowCoordinator, the relaunch of the program  *)
(* with administrator rights, the log around the Runner, Ctrl+C in either  *)
(* process, and the exit code.                                             *)
(*                                                                         *)
(* The first process is the one the user started; the child is the run     *)
(* command that the relaunch starts, in a console of its own, with the     *)
(* elevation marker and a deadline and a token of its own.                 *)
(***************************************************************************)
EXTENDS WorkflowRunner

VARIABLES
  at,         \* [process -> where it is]
  exitCode,   \* [process -> its exit code]
  elevated,   \* [process -> its token has administrator rights]
  command,    \* what the user typed
  admin,      \* requires_administrator of the plan
  interrupts, \* processes whose console got a Ctrl+C
  ran,        \* history: the processes that constructed a Runner, in order
  lost        \* history: the wait for the child failed

entryVars == << at, exitCode, elevated, command, admin, interrupts, ran, lost >>
runVars == << vars, entryVars >>

Processes == {"first", "child"}
Command(p) == IF p = "child" THEN "run" ELSE command
Marker(p)  == p = "child"

NoCode  == 1000   \* not exited
Aborted == 1      \* an unhandled KeyboardInterrupt

EntryInit ==
  /\ Init /\ ~cancelled
  /\ at = [p \in Processes |-> IF p = "first" THEN "preflight" ELSE "absent"]
  /\ exitCode = [p \in Processes |-> NoCode]
  /\ elevated \in [Processes -> BOOLEAN]
  /\ command \in {"run", "start"} /\ admin \in BOOLEAN
  /\ interrupts = {} /\ ran = << >> /\ lost = FALSE
-----------------------------------------------------------------------------
Go(p, place) == at' = [at EXCEPT ![p] = place] /\ UNCHANGED exitCode

(* start shows the outcome and waits for a key; run exits.                 *)
Leave(p, code) ==
  /\ exitCode' = [exitCode EXCEPT ![p] = code]
  /\ at' = [at EXCEPT ![p] = IF Command(p) = "start" THEN "pause" ELSE "exited"]

Static == UNCHANGED << elevated, command, admin >>

(* Request, configuration, gate and plan; start also asks the user to      *)
(* confirm, checks its directories, and rejects with 2, 3 or 8.            *)
Preflight(p) ==
  /\ at[p] = "preflight"
  /\ \/ Go(p, "coordinate")
     \/ \E c \in IF Command(p) = "start" THEN {2, 3, 8} ELSE {2} : Leave(p, c)
  /\ Static /\ UNCHANGED << vars, interrupts, ran, lost >>

(* WorkflowCoordinator.execute.                                            *)
RightsNeededOnce(p) == admin /\ ~elevated[p] /\ ~Marker(p)               \* mutant
RightsNeeded(p) == admin /\ ~elevated[p]

(* The log is opened before the Runner runs; if that fails, or the query   *)
(* of the process token before it, nothing has run.                        *)
StartRunner(p) ==
  /\ at[p] = "coordinate" /\ ~RightsNeeded(p)
  /\ \/ /\ Go(p, "runner") /\ ran' = Append(ran, p)
        /\ cancelled' = (p \in interrupts)
     \/ Leave(p, 8) /\ UNCHANGED << ran, cancelled >>
  /\ Static
  /\ UNCHANGED << wf, pc, reports, control, cleaning, cleanup, runReport, executed, begun, expired,
                  interrupts, lost >>

(* relaunch_current_process_elevated: the user refuses, it fails, or the   *)
(* child runs; a child never asks again.                                   *)
Relaunch(p) ==
  /\ at[p] = "coordinate" /\ RightsNeeded(p)
  /\ \/ /\ ~Marker(p) /\ at' = [at EXCEPT ![p] = "waiting", !["child"] = "preflight"]
        /\ UNCHANGED exitCode
     \/ ~Marker(p) /\ Leave(p, 9)
     \/ Leave(p, 10)
  /\ Static /\ UNCHANGED << vars, interrupts, ran, lost >>

(* The exit code of the child becomes that of its parent.                  *)
LostIsZero(code) == 0                                                   \* mutant
OfLost(code) == code

Wait(p) ==
  /\ at[p] = "waiting"
  /\ \/ at["child"] = "exited" /\ Leave(p, exitCode["child"]) /\ UNCHANGED lost
     \/ lost' = TRUE /\ Leave(p, OfLost(10))
  /\ Static /\ UNCHANGED << vars, interrupts, ran >>

(* map_run_exit_code.                                                      *)
AnyTimeout(r) ==                                                        \* mutant
  IF r.error = "RUN_REPORT_WRITE_ERROR" THEN 7
  ELSE IF r.status = "SUCCESS" THEN 0
  ELSE IF r.status = "CANCELLED" THEN 5
  ELSE IF \E i \in 1..Len(reports) : reports[i].outcome = "TIMEOUT" THEN 4 ELSE 3

MapRunExitCode(r) ==
  IF r.error = "RUN_REPORT_WRITE_ERROR" THEN 7
  ELSE IF r.status = "SUCCESS" /\ r.error = "OK" THEN 0
  ELSE IF r.status = "CANCELLED" THEN 5
  ELSE IF r.error = "WORKFLOW_STAGE_TIMEOUT" THEN 4
  ELSE IF r.status = "FAILURE" THEN 3
  ELSE 8

Finish(p) ==
  /\ at[p] = "runner" /\ pc = "done"
  /\ Leave(p, MapRunExitCode(runReport))
  /\ Static /\ UNCHANGED << vars, interrupts, ran, lost >>

Close(p) ==
  /\ at[p] = "pause" /\ Go(p, "exited")
  /\ Static /\ UNCHANGED << vars, interrupts, ran, lost >>
-----------------------------------------------------------------------------
(* Ctrl+C.  The run command has a handler that cancels its token; under    *)
(* start it is a KeyboardInterrupt that nothing catches.  A process that   *)
(* waits for its child sees it only when the wait is over.                 *)
Interrupt(p) ==
  /\ at[p] \notin {"absent", "exited"} /\ p \notin interrupts
  /\ interrupts' = interrupts \cup {p}
  /\ IF Command(p) = "run" /\ at[p] = "runner" /\ pc # "done"
     THEN CancelToken ELSE UNCHANGED << cancelled, begun >>
  /\ Static
  /\ UNCHANGED << wf, pc, reports, control, cleaning, cleanup, runReport, executed, expired,
                  at, exitCode, ran, lost >>

Abort(p) ==
  /\ Command(p) = "start" /\ p \in interrupts /\ at[p] \notin {"waiting", "exited"}
  /\ exitCode' = [exitCode EXCEPT ![p] = Aborted] /\ at' = [at EXCEPT ![p] = "exited"]
  /\ Static /\ UNCHANGED << vars, interrupts, ran, lost >>

EntryStep(p) ==
  \/ Preflight(p) \/ StartRunner(p) \/ Relaunch(p) \/ Wait(p)
  \/ Finish(p) \/ Close(p) \/ Interrupt(p) \/ Abort(p)

Running == \E p \in Processes : at[p] = "runner"

RunnerRuns == Running /\ (RunnerStep \/ Expire) /\ UNCHANGED entryVars

Over ==
  /\ at["first"] = "exited" /\ at["child"] \in {"absent", "exited"}
  /\ UNCHANGED runVars

EntryNext == (\E p \in Processes : EntryStep(p)) \/ RunnerRuns \/ Over

EntrySpec == EntryInit /\ [][EntryNext]_runVars
-----------------------------------------------------------------------------
(* A workflow is run by at most one process, which has the rights the plan  *)
(* asks for, and never goes on behind a command that has ended, but for a   *)
(* wait for the child that failed.                                          *)
OneWorkflow ==
  /\ Len(ran) <= 1
  /\ \A i \in 1..Len(ran) : admin => elevated[ran[i]]
  /\ at["first"] = "exited" /\ Running => lost

(* docs/acceptance/phase-6c1.md:29 and docs/architecture.md:81: the code of *)
(* the command is 0 exactly for a success, 9 and 10 are for workflows that  *)
(* were never run, and the code of a child is passed on unchanged.  A wait  *)
(* that fails and a Ctrl+C under start, which the docs do not mention, are  *)
(* excepted.                                                                *)
ExitCodeIsHonest ==
  LET code == exitCode["first"] IN
  at["first"] = "exited" /\ code # Aborted =>
    /\ code = 0 => runReport.status = "SUCCESS"
    /\ runReport.status = "SUCCESS" => code = 0 \/ lost
    /\ code = 5 => runReport.status = "CANCELLED"
    /\ code \in {2, 9, 10} => ran = << >> \/ lost
    /\ at["child"] = "exited" => code = exitCode["child"] \/ lost

(* Whether a failed workflow ends with the code of a timeout or with that   *)
(* of a failure is decided by what went wrong first, not by what followed   *)
(* from it or happened in cleanup.  With continue_on_failure the deadline   *)
(* of the workflow, found expired at a boundary, has the last word.         *)
ExitCodeNamesTheCause ==
  \A p \in Processes :
    at[p] = "exited" /\ exitCode[p] \in {3, 4} /\ pc = "done" /\ ran = << p >> =>
      \/ wf.continue /\ exitCode[p] = 4 /\ expired
      \/ \E i \in 1..Len(reports) :
           /\ \A j \in 1..(i - 1) : reports[j].outcome = "SUCCESS"
           /\ reports[i].outcome # "SUCCESS"
           /\ exitCode[p] = 4 <=> reports[i].outcome = "TIMEOUT"
=============================================================================
