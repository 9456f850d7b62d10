--------------------------- MODULE WorkflowRunner ---------------------------
(***************************************************************************)
(* WorkflowRunner.run: one pass over the stages of a plan.  The Runner     *)
(* looks at the stop flag, the cancellation token and the parent deadline  *)
(* at every stage boundary; a stage that is admitted there gets an         *)
(* executor from the factory, which is then called, and what it returns is *)
(* validated.  The run ends with one write of the RunReport.  A token can  *)
(* be cancelled and a deadline can pass at any moment: while an executor   *)
(* runs, and also between the checks of the boundary and the call, where   *)
(* nobody looks again.                                                     *)
(*                                                                         *)
(* What an executor returns is arbitrary here: ProductionWorkflow supplies *)
(* the executors of the real plan and steps through these same actions.    *)
(***************************************************************************)
EXTENDS Naturals, Sequences

CONSTANTS
  Stages,     \* stage names
  Workflows   \* the workflows a Runner may be constructed with

Outcomes == {"SUCCESS", "FAILURE", "TIMEOUT", "SKIPPED", "CANCELLED"}
FailureCodes == {"WORKFLOW_STAGE_FAILED", "WORKFLOW_STAGE_RESULT_INVALID",
                 "WORKFLOW_EXECUTOR_NOT_REGISTERED", "INTERNAL_ERROR"}
Codes == FailureCodes \cup {"OK", "SKIPPED", "WORKFLOW_STAGE_TIMEOUT",
                            "WORKFLOW_CANCELLED", "RUN_REPORT_WRITE_ERROR"}
StageReports == [outcome : Outcomes, code : Codes]

Report(outcome, code) == [outcome |-> outcome, code |-> code]
Skipped  == Report("SKIPPED", "SKIPPED")
TimedOut == Report("TIMEOUT", "WORKFLOW_STAGE_TIMEOUT")
Success  == Report("SUCCESS", "OK")
NoReport == Report("NONE", "NONE")

PlanOK(plan) ==
  /\ plan \in Seq(Stages)
  /\ Len(plan) >= 2
  /\ \A i, j \in 1..Len(plan) : plan[i] = plan[j] => i = j
  /\ plan[1] = "VALIDATE_CONFIG"
  /\ plan[Len(plan)] = "WRITE_RUN_REPORT"

DepsOK(w) ==
  \A j \in 1..Len(w.plan) : \A d \in w.deps[w.plan[j]] :
    \E i \in 1..(j-1) : w.plan[i] = d

ASSUME WorkflowsAssumption ==
  \A w \in Workflows : PlanOK(w.plan) /\ DepsOK(w) /\ w.continue \in BOOLEAN

VARIABLES
  wf,         \* plan, deps, cleanup stages, continue_on_failure
  pc,         \* "boundary", "admitted", "executing" or "done"
  reports,    \* stage reports so far, in plan order
  topStatus, topError, stopped,
  cleaning,   \* is_failure_cleanup of the stage in hand
  cleanup,    \* the cleanup report that reaches the diagnostics
  runReport,  \* the RunReport returned
  executed,   \* history: stages whose executor was called
  cancelled,  \* the caller's CancellationToken
  begun,      \* history: stages reported or in hand when it was cancelled
  expired     \* the parent Deadline

control == << topStatus, topError, stopped >>
environment == << cancelled, begun, expired >>
vars == << wf, pc, reports, control, cleaning, cleanup, runReport, executed,
           environment >>

Stage == wf.plan[Len(reports) + 1]
InHand == pc \in {"admitted", "executing"}
NoRunReport == [status |-> "RUNNING", error |-> "NONE", source |-> "NONE"]

Init ==
  /\ wf \in Workflows
  /\ pc = "boundary"
  /\ reports = << >>
  /\ topStatus = "SUCCESS" /\ topError = "OK" /\ stopped = FALSE
  /\ cleaning = FALSE
  /\ cleanup = NoReport
  /\ runReport = NoRunReport
  /\ executed = {}
  /\ cancelled \in BOOLEAN /\ begun = 0 /\ expired = FALSE

-----------------------------------------------------------------------------
CancelToken ==
  /\ cancelled' = TRUE
  /\ begun' = IF cancelled THEN begun ELSE Len(reports) + (IF InHand THEN 1 ELSE 0)

Cancel ==
  /\ pc # "done" /\ ~cancelled
  /\ CancelToken
  /\ UNCHANGED << wf, pc, reports, control, cleaning, cleanup, runReport,
                  executed, expired >>

Expire ==
  /\ pc # "done" /\ ~expired
  /\ expired' = TRUE
  /\ UNCHANGED << wf, pc, reports, control, cleaning, cleanup, runReport,
                  executed, cancelled, begun >>

-----------------------------------------------------------------------------
(* The branches at a stage boundary.  required is what the callback        *)
(* failure_cleanup_required(stage) answers.                                *)

AtBoundary == pc = "boundary" /\ Len(reports) < Len(wf.plan) - 1

FailureCleanup(required) ==
  stopped /\ topStatus = "FAILURE" /\ Stage \in wf.cleanup /\ required

Succeeded(stage) ==
  \E i \in 1..Len(reports) : wf.plan[i] = stage /\ reports[i].outcome = "SUCCESS"

BlockedByFailure ==                                                \* mutant
  wf.continue /\ \E d \in wf.deps[Stage] : \E i \in 1..Len(reports) :
    wf.plan[i] = d /\ reports[i].outcome \in {"FAILURE", "TIMEOUT"}

Blocked == wf.continue /\ \E d \in wf.deps[Stage] : ~Succeeded(d)

(* Of several cleanup reports the diagnostics keep the first that is not a *)
(* success.                                                                *)
LastReported(r) == TRUE                                            \* mutant

KeptForDiagnostics(r) ==
  cleanup = NoReport \/ (cleanup.outcome = "SUCCESS" /\ r.outcome # "SUCCESS")

(* Every report ends an iteration of the loop.                             *)
Record(r, isCleanup) ==
  /\ reports' = Append(reports, r)
  /\ cleanup' = IF isCleanup /\ KeptForDiagnostics(r) THEN r ELSE cleanup
  /\ pc' = "boundary"
  /\ cleaning' = FALSE
  /\ UNCHANGED << wf, runReport, environment >>

SkipStopped(required) ==
  /\ AtBoundary
  /\ stopped /\ ~FailureCleanup(required)
  /\ Record(Skipped, FALSE)
  /\ UNCHANGED << control, executed >>

Reached(required) == AtBoundary /\ (~stopped \/ FailureCleanup(required))

ObserveCancel(required) ==
  /\ Reached(required)
  /\ cancelled
  /\ topStatus' = "CANCELLED" /\ topError' = "WORKFLOW_CANCELLED" /\ stopped' = TRUE
  /\ Record(Skipped, FailureCleanup(required))
  /\ UNCHANGED executed

ObserveExpiry ==
  /\ AtBoundary /\ ~stopped /\ ~cancelled
  /\ expired
  /\ topStatus' = "FAILURE" /\ topError' = "WORKFLOW_STAGE_TIMEOUT" /\ stopped' = TRUE
  /\ Record(TimedOut, FALSE)
  /\ UNCHANGED executed

InBudgetUncancelled(required) ==                                   \* mutant
  Reached(required) /\ (FailureCleanup(required) \/ ~expired)

InBudget(required) == Reached(required) /\ ~cancelled /\ (FailureCleanup(required) \/ ~expired)

SkipBlocked(required) ==
  /\ InBudget(required)
  /\ Blocked
  /\ Record(Skipped, FailureCleanup(required))
  /\ UNCHANGED << control, executed >>

(* Past every check: the stage is in hand, and what it runs as is settled. *)
Admit(required) ==
  /\ InBudget(required) /\ ~Blocked
  /\ pc' = "admitted"
  /\ cleaning' = FailureCleanup(required)
  /\ UNCHANGED << wf, reports, control, cleanup, runReport, executed, environment >>

-----------------------------------------------------------------------------
KeepFirst(code) == IF topError = "OK" THEN code ELSE topError
StopsAt(stage, outcome) ==
  ~wf.continue \/ stage = "VALIDATE_CONFIG" \/ outcome = "CANCELLED"

TopCode(r) ==
  IF r.outcome = "TIMEOUT" THEN "WORKFLOW_STAGE_TIMEOUT"
  ELSE IF r.code \in {"WORKFLOW_STAGE_RESULT_INVALID", "INTERNAL_ERROR"} THEN r.code
  ELSE "WORKFLOW_STAGE_FAILED"

FactoryFails(code) ==
  /\ pc = "admitted"
  /\ Record(Report("FAILURE", code), cleaning)
  /\ IF cleaning
     THEN UNCHANGED control
     ELSE /\ topStatus' = "FAILURE"
          /\ topError' = KeepFirst(code)
          /\ stopped' = StopsAt(Stage, "FAILURE")
  /\ UNCHANGED executed

(* The executor is called, whatever has become of the token and the        *)
(* deadline: with a fresh token and its own deadline when the stage runs   *)
(* as cleanup, with the caller's otherwise.                                *)
Execute ==
  /\ pc = "admitted"
  /\ pc' = "executing"
  /\ executed' = executed \cup {Stage}
  /\ UNCHANGED << wf, reports, control, cleaning, cleanup, runReport, environment >>

(* What the executor returned, after _validate_stage_report.  The reports  *)
(* of cleanup stages leave the run's own verdict alone.                    *)
CountsAlways(r) == r.outcome # "SUCCESS"                           \* mutant

Counts(r) == ~cleaning /\ r.outcome # "SUCCESS"

Return(r) ==
  /\ pc = "executing"
  /\ Record(r, cleaning)
  /\ \/ ~Counts(r) /\ UNCHANGED control
     \/ /\ Counts(r) /\ r.outcome = "CANCELLED"
        /\ topStatus' = "CANCELLED" /\ topError' = "WORKFLOW_CANCELLED"
        /\ stopped' = TRUE
     \/ /\ Counts(r) /\ r.outcome # "CANCELLED"
        /\ topStatus' = "FAILURE"
        /\ topError' = KeepFirst(TopCode(r))
        /\ stopped' = StopsAt(Stage, r.outcome)
  /\ UNCHANGED executed

(* The reports an executor can leave: valid ones (one code standing for    *)
(* all that the Runner does not tell apart), the Runner's own for an       *)
(* exception, and the one for a report that fails validation.              *)
ReturnedReports ==
  {Success, Skipped, TimedOut, Report("CANCELLED", "WORKFLOW_CANCELLED")}
    \cup {Report("FAILURE", c) : c \in {"WORKFLOW_STAGE_FAILED",
            "WORKFLOW_STAGE_RESULT_INVALID", "INTERNAL_ERROR"}}

-----------------------------------------------------------------------------
(* The report sink is called once.  If it raises, the returned report says *)
(* so and keeps the run's own error as source_error_code.                  *)
UnwrittenVerdict(written) ==                                       \* mutant
  [status |-> topStatus, error |-> topError, source |-> "NONE"]

FinalVerdict(written) ==
  IF written
  THEN [status |-> topStatus, error |-> topError, source |-> "NONE"]
  ELSE [status |-> "FAILURE", error |-> "RUN_REPORT_WRITE_ERROR",
        source |-> IF topError = "OK" THEN "NONE" ELSE topError]

StoppedOrFinished == stopped \/ Len(reports) = Len(wf.plan) - 1     \* mutant

Finished == Len(reports) = Len(wf.plan) - 1

WriteReport(written) ==
  /\ pc = "boundary" /\ Finished
  /\ pc' = "done"
  /\ reports' = Append(reports, IF written THEN Success
                                ELSE Report("FAILURE", "RUN_REPORT_WRITE_ERROR"))
  /\ runReport' = FinalVerdict(written)
  /\ UNCHANGED << wf, control, cleaning, cleanup, executed, environment >>

Done == pc = "done" /\ UNCHANGED vars

(* The branches of the stage loop up to the factory, and the call.         *)
Boundary(required) ==
  \/ SkipStopped(required)
  \/ ObserveCancel(required)
  \/ SkipBlocked(required)
  \/ Admit(required)

Call ==
  \/ \E c \in {"WORKFLOW_EXECUTOR_NOT_REGISTERED", "INTERNAL_ERROR"} : FactoryFails(c)
  \/ Execute

RunnerStep ==
  \/ \E required \in BOOLEAN : Boundary(required)
  \/ Call
  \/ ObserveExpiry
  \/ \E r \in ReturnedReports : Return(r)
  \/ \E written \in BOOLEAN : WriteReport(written)

Next == Cancel \/ Expire \/ RunnerStep \/ Done

Spec == Init /\ [][Next]_vars
-----------------------------------------------------------------------------
(* Type invariant. *)
TypeOK ==
  /\ wf \in Workflows
  /\ pc \in {"boundary", "admitted", "executing", "done"}
  /\ reports \in Seq(StageReports)
  /\ InHand => Len(reports) < Len(wf.plan) - 1
  /\ pc = "boundary"  => Len(reports) < Len(wf.plan)
  /\ pc = "done"      => Len(reports) = Len(wf.plan)
  /\ topStatus \in {"SUCCESS", "FAILURE", "CANCELLED"}
  /\ topError \in Codes
  /\ stopped \in BOOLEAN /\ cleaning \in BOOLEAN
  /\ cancelled \in BOOLEAN /\ begun \in Nat /\ expired \in BOOLEAN
  /\ cleanup \in StageReports \cup {NoReport}
  /\ runReport \in [status : {"RUNNING", "SUCCESS", "FAILURE", "CANCELLED"},
                     error  : Codes \cup {"NONE"},
                     source : Codes \cup {"NONE"}]
  /\ executed \subseteq Stages

AllSucceeded == \A i \in 1..Len(reports) : reports[i].outcome = "SUCCESS"

(* A run is reported as a success exactly when every stage of the plan,     *)
(* the report write included, was reported as one: neither a blocked stage  *)
(* that continue_on_failure skips nor an early stop can hide behind it.     *)
VerdictIsHonest ==
  pc = "done" => (runReport.status = "SUCCESS" <=> AllSucceeded)

(* An ordinary stage is executed only when everything it relies on          *)
(* succeeded: in fail-fast mode every earlier stage, with                   *)
(* continue_on_failure the configuration check and the declared             *)
(* dependencies.  (Fail-fast never looks at the dependencies.)              *)
ExecutionIsJustified ==
  pc = "executing" /\ ~cleaning =>
    /\ ~wf.continue => AllSucceeded
    /\ \A d \in wf.deps[Stage] : Succeeded(d)
    /\ Stage # "VALIDATE_CONFIG" => Succeeded("VALIDATE_CONFIG")

(* In fail-fast mode whatever is executed after a failure is cleanup.  If   *)
(* any of it did not succeed, the diagnostics say so: a later successful    *)
(* cleanup stage cannot hide an earlier failed one.                         *)
CleanupFailureIsKept ==
  \A i, j \in 1..Len(reports) :
    /\ ~wf.continue
    /\ i < j /\ reports[i].outcome # "SUCCESS"
    /\ wf.plan[j] \in executed /\ reports[j].outcome # "SUCCESS"
    => cleanup.outcome \notin {"NONE", "SUCCESS"}

(* The verdict only worsens, cancellation is final, and once a failure has  *)
(* stopped the run nothing that happens in cleanup replaces it: only the    *)
(* caller's cancellation, seen at a later cleanup stage, still does.        *)
VerdictOnlyWorsens ==
  [][/\ topStatus # "SUCCESS" => topStatus' # "SUCCESS"
     /\ topStatus = "CANCELLED" => UNCHANGED control
     /\ stopped /\ topStatus = "FAILURE" =>
          UNCHANGED control \/ (cancelled /\ topStatus' = "CANCELLED")]_vars

(* A cancellation costs at most the stage in hand.  That one is still       *)
(* executed if it had passed its checks; no stage after it is, not even as  *)
(* failure cleanup, and all are reported as skipped.  If a stage was left,  *)
(* the run ends as CANCELLED whatever the one in hand made of its token, or *)
(* with the failure that had stopped it by then: in fail-fast mode any,     *)
(* with continue_on_failure one of the configuration check or the deadline. *)
CancelIsHonoured ==
  cancelled =>
    /\ \A i \in 1..Len(wf.plan) : begun < i => wf.plan[i] \notin executed
    /\ \A i \in 1..Len(reports) : begun < i /\ i < Len(wf.plan) => reports[i] = Skipped
    /\ pc = "done" /\ begun < Len(wf.plan) - 1 =>
         \/ topStatus = "CANCELLED"
         \/ /\ topStatus = "FAILURE"
            /\ \E i \in 1..begun :
                 /\ reports[i].outcome # "SUCCESS"
                 /\ wf.continue => i = 1 \/ reports[i] = TimedOut

(* What the Runner promises of the stage ledger and the final verdict.      *)
Contract == INSTANCE RunContract WITH
  length  <- Len(wf.plan),
  ledger  <- [i \in 1..Len(reports) |-> reports[i].outcome],
  verdict <- runReport.status
ImplementsContract == Contract!Spec
=============================================================================
