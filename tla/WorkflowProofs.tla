---------------------------- MODULE WorkflowProofs ----------------------------
(***************************************************************************)
(* Proofs about the Runner and the two modules that compose it.            *)
(*                                                                         *)
(* I.   WorkflowRunner, for every set of stages and every workflow that    *)
(*      its constructor accepts.                                           *)
(* II.  RunEntry, the commands around it.                                  *)
(* III. ProductionWorkflow, the executors of the real plan in it.          *)
(* IV.  ExecutionPlan, the plans that the options build.                   *)
(*                                                                         *)
(* II and III first show that what they model is a Runner, and then use    *)
(* what I says of it.  But for the Runner they share no state.             *)
(***************************************************************************)
EXTENDS RunEntry, ProductionWorkflow, FiniteSetTheorems, SequenceTheorems, TLAPS

(***************************************************************************)
(* I. The Runner.  The inductive invariant IInv ties the verdict under     *)
(* construction to the reports collected so far; all but one action add a  *)
(* report, and RecordPreserves says once and for all what such an action   *)
(* must do to the verdict to keep IInv.                                    *)
(***************************************************************************)
Interrupted == \E i \in 1..Len(reports) : reports[i].outcome \in {"SKIPPED", "CANCELLED"}

IInv ==
  /\ TypeOK
  /\ pc # "done" => runReport = NoRunReport
  /\ pc # "done" => (topStatus = "SUCCESS" <=> AllSucceeded)
  /\ stopped => topStatus # "SUCCESS"
  /\ ~wf.continue /\ topStatus # "SUCCESS" => stopped
  /\ topStatus = "CANCELLED" => stopped
  /\ InHand => cleaning = stopped
  /\ InHand /\ cleaning => Stage \in wf.cleanup
  /\ InHand /\ ~cleaning => \A d \in wf.deps[Stage] : Succeeded(d)
  /\ pc # "done" /\ ~stopped /\ reports # << >> => reports[1].outcome = "SUCCESS"
  /\ topStatus = "CANCELLED" => Interrupted
  /\ pc = "done" => (runReport.status = "SUCCESS" <=> AllSucceeded)

-----------------------------------------------------------------------------
(* What the assumption on Workflows says of the workflow at hand. *)
LEMMA WorkflowFacts ==
  ASSUME wf \in Workflows
  PROVE  /\ wf.plan \in Seq(Stages)
         /\ Len(wf.plan) \in Nat /\ Len(wf.plan) >= 2
         /\ wf.plan[1] = "VALIDATE_CONFIG"
         /\ \A i, j \in 1..Len(wf.plan) : wf.plan[i] = wf.plan[j] => i = j
         /\ wf.continue \in BOOLEAN
         /\ \A j \in 1..Len(wf.plan) : \A d \in wf.deps[wf.plan[j]] :
              \E i \in 1..(j-1) : wf.plan[i] = d
<1>1. PlanOK(wf.plan) /\ DepsOK(wf) /\ wf.continue \in BOOLEAN
  BY WorkflowsAssumption
<1>2. Len(wf.plan) \in Nat
  BY <1>1 DEF PlanOK
<1> QED
  BY <1>1, <1>2 DEF PlanOK, DepsOK

(* Adding a report to the ledger. *)
LEMMA LedgerGrows ==
  ASSUME reports \in Seq(StageReports), NEW r \in StageReports,
         reports' = Append(reports, r)
  PROVE  /\ reports' \in Seq(StageReports)
         /\ Len(reports) \in Nat
         /\ Len(reports') = Len(reports) + 1
         /\ \A i \in 1..Len(reports) : reports'[i] = reports[i]
         /\ reports'[Len(reports) + 1] = r
         /\ AllSucceeded' <=> (AllSucceeded /\ r.outcome = "SUCCESS")
         /\ Interrupted' <=> (Interrupted \/ r.outcome \in {"SKIPPED", "CANCELLED"})
<1>1. /\ reports' \in Seq(StageReports)
      /\ Len(reports) \in Nat
      /\ Len(reports') = Len(reports) + 1
      /\ \A i \in 1..Len(reports) : reports'[i] = reports[i]
      /\ reports'[Len(reports) + 1] = r
  OBVIOUS
<1>2. \A i : i \in 1..Len(reports') <=> (i \in 1..Len(reports) \/ i = Len(reports) + 1)
  BY <1>1
<1> QED
  BY <1>1, <1>2 DEF AllSucceeded, Interrupted

(* In a non-empty ledger of successes every dependency of the next stage    *)
(* has succeeded; and a blocked stage comes after something that did not.   *)
LEMMA DependenciesPrecede ==
  ASSUME TypeOK, Len(reports) < Len(wf.plan)
  PROVE  /\ AllSucceeded => \A d \in wf.deps[Stage] : Succeeded(d)
         /\ reports = << >> => wf.deps[Stage] = {}
<1> DEFINE k == Len(reports) + 1
<1>1. /\ Len(reports) \in Nat /\ Len(wf.plan) \in Nat
      /\ k \in 1..Len(wf.plan) /\ k - 1 = Len(reports)
  BY WorkflowFacts DEF TypeOK
<1>2. \A d \in wf.deps[wf.plan[k]] : \E i \in 1..(k-1) : wf.plan[i] = d
  <2> HIDE DEF k
  <2> wf \in Workflows
    BY DEF TypeOK
  <2> QED BY <1>1, WorkflowFacts
<1>2a. \A d \in wf.deps[Stage] : \E i \in 1..Len(reports) : wf.plan[i] = d
  BY <1>1, <1>2 DEF Stage
<1>3. AllSucceeded => \A d \in wf.deps[Stage] : Succeeded(d)
  BY <1>2a DEF AllSucceeded, Succeeded
<1>4. reports = << >> => wf.deps[Stage] = {}
  BY <1>2a
<1> QED
  BY <1>3, <1>4

(* The step lemma: an action that adds a report keeps IInv if it treats the *)
(* verdict as follows.                                                      *)
LEMMA RecordPreserves ==
  ASSUME IInv, pc # "done", Len(reports) < Len(wf.plan) - 1,
         NEW r \in StageReports, NEW isCleanup \in BOOLEAN,
         Record(r, isCleanup),
         topStatus' \in {"SUCCESS", "FAILURE", "CANCELLED"},
         topError' \in Codes, stopped' \in BOOLEAN, UNCHANGED executed,
         topStatus' = "SUCCESS" <=> (topStatus = "SUCCESS" /\ r.outcome = "SUCCESS"),
         stopped' => topStatus' # "SUCCESS",
         ~wf.continue /\ topStatus' # "SUCCESS" => stopped',
         topStatus' = "CANCELLED" => stopped',
         ~stopped' => ~stopped /\ (reports = << >> => r.outcome = "SUCCESS"),
         topStatus' = "CANCELLED" =>
           topStatus = "CANCELLED" \/ r.outcome \in {"SKIPPED", "CANCELLED"}
  PROVE  IInv'
<1>1. /\ wf' = wf /\ pc' = "boundary" /\ cleaning' = FALSE
      /\ runReport' = runReport /\ UNCHANGED << cancelled, begun, expired >> /\ ~InHand'
      /\ reports' = Append(reports, r)
      /\ cleanup' \in StageReports \cup {NoReport}
  BY DEF Record, environment, InHand, IInv, TypeOK
<1>2. /\ reports \in Seq(StageReports) /\ wf \in Workflows
  BY DEF IInv, TypeOK
<1>3. /\ reports' \in Seq(StageReports)
      /\ Len(reports) \in Nat
      /\ Len(reports') = Len(reports) + 1
      /\ \A i \in 1..Len(reports) : reports'[i] = reports[i]
      /\ reports'[Len(reports) + 1] = r
      /\ AllSucceeded' <=> (AllSucceeded /\ r.outcome = "SUCCESS")
      /\ Interrupted' <=> (Interrupted \/ r.outcome \in {"SKIPPED", "CANCELLED"})
  BY <1>1, <1>2, LedgerGrows
<1>4. TypeOK'
  <2>1. Len(reports') < Len(wf'.plan)
    BY <1>1, <1>2, <1>3, WorkflowFacts
  <2> QED
    BY <1>1, <1>3, <2>1 DEF IInv, TypeOK
<1>5. topStatus' = "SUCCESS" <=> AllSucceeded'
  BY <1>3 DEF IInv
<1>6. ~stopped' => reports'[1].outcome = "SUCCESS"
  <2>1. CASE reports = << >>
    BY <1>3, <2>1
  <2>2. CASE reports # << >>
    <3>1. 1 \in 1..Len(reports)
      BY <1>2, <1>3, <2>2
    <3> QED
      BY <1>3, <2>2, <3>1 DEF IInv
  <2> QED
    BY <2>1, <2>2
<1>7. topStatus' = "CANCELLED" => Interrupted'
  BY <1>3 DEF IInv
<1> QED
  BY <1>1, <1>4, <1>5, <1>6, <1>7 DEF IInv

-----------------------------------------------------------------------------
(* The reports that the Runner makes or accepts are stage reports. *)
LEMMA ReportTypes ==
  /\ Skipped \in StageReports /\ TimedOut \in StageReports /\ Success \in StageReports
  /\ ReturnedReports \subseteq StageReports
  /\ \A c \in FailureCodes : Report("FAILURE", c) \in StageReports
BY DEF Skipped, TimedOut, Success, Report, ReturnedReports, StageReports, Outcomes,
       Codes, FailureCodes

LEMMA Outcome ==
  /\ Skipped.outcome = "SKIPPED" /\ TimedOut.outcome = "TIMEOUT"
  /\ Success.outcome = "SUCCESS"
  /\ \A c : Report("FAILURE", c).outcome = "FAILURE"
BY DEF Skipped, TimedOut, Success, Report

(* A blocked stage is not the first, and something before it did not        *)
(* succeed.                                                                 *)
LEMMA BlockedIsLate ==
  ASSUME TypeOK, AtBoundary, Blocked
  PROVE  ~AllSucceeded /\ reports # << >>
<1>1. Len(reports) < Len(wf.plan)
  BY DEF AtBoundary, TypeOK
<1> QED
  BY <1>1, DependenciesPrecede DEF Blocked

LEMMA FailureCleanupIsBoolean ==
  ASSUME NEW required \in BOOLEAN
  PROVE  /\ FailureCleanup(required) \in BOOLEAN
         /\ FailureCleanup(required) => stopped
BY DEF FailureCleanup

LEMMA SkipStoppedPreserves ==
  ASSUME IInv, NEW required \in BOOLEAN, SkipStopped(required)
  PROVE  IInv'
<1>1. stopped' = stopped /\ topStatus' = topStatus /\ topError' = topError /\ stopped
  BY DEF SkipStopped, control
<1>2. topStatus # "SUCCESS"
  BY <1>1 DEF IInv
<1> QED
  BY <1>1, <1>2, RecordPreserves, ReportTypes, Outcome
  DEF SkipStopped, AtBoundary, IInv, TypeOK

LEMMA ObserveCancelPreserves ==
  ASSUME IInv, NEW required \in BOOLEAN, ObserveCancel(required)
  PROVE  IInv'
<1>1. "WORKFLOW_CANCELLED" \in Codes
  BY DEF Codes
<1> QED
  BY <1>1, RecordPreserves, ReportTypes, Outcome, FailureCleanupIsBoolean
  DEF ObserveCancel, Reached, AtBoundary

LEMMA ObserveExpiryPreserves ==
  ASSUME IInv, ObserveExpiry
  PROVE  IInv'
<1>1. "WORKFLOW_STAGE_TIMEOUT" \in Codes
  BY DEF Codes
<1> QED
  BY <1>1, RecordPreserves, ReportTypes, Outcome DEF ObserveExpiry, AtBoundary

LEMMA SkipBlockedPreserves ==
  ASSUME IInv, NEW required \in BOOLEAN, SkipBlocked(required)
  PROVE  IInv'
<1>1. /\ AtBoundary /\ Blocked
      /\ stopped' = stopped /\ topStatus' = topStatus /\ topError' = topError
  BY DEF SkipBlocked, InBudget, Reached, control
<1>2. topStatus # "SUCCESS" /\ reports # << >>
  BY <1>1, BlockedIsLate DEF IInv, AtBoundary
<1>3. /\ topStatus \in {"SUCCESS", "FAILURE", "CANCELLED"} /\ topError \in Codes
      /\ stopped \in BOOLEAN /\ (stopped => topStatus # "SUCCESS")
      /\ (~wf.continue /\ topStatus # "SUCCESS" => stopped)
      /\ (topStatus = "CANCELLED" => stopped)
  BY DEF IInv, TypeOK
<1> QED
  BY <1>1, <1>2, <1>3, RecordPreserves, ReportTypes, Outcome, FailureCleanupIsBoolean
  DEF SkipBlocked, AtBoundary

LEMMA AdmitPreserves ==
  ASSUME IInv, NEW required \in BOOLEAN, Admit(required)
  PROVE  IInv'
<1>1. /\ AtBoundary /\ ~Blocked /\ pc' = "admitted"
      /\ cleaning' = FailureCleanup(required)
      /\ FailureCleanup(required) \/ ~stopped
      /\ UNCHANGED << wf, reports, topStatus, topError, stopped, cleanup, runReport,
                       executed, cancelled, begun, expired >>
  BY DEF Admit, InBudget, Reached, control, environment
<1>2. wf \in Workflows /\ reports \in Seq(StageReports) /\ stopped \in BOOLEAN
      /\ pc = "boundary" /\ Len(reports) < Len(wf.plan) - 1
  BY <1>1 DEF IInv, TypeOK, AtBoundary
<1>3. cleaning' = stopped' /\ cleaning' \in BOOLEAN /\ (cleaning' => Stage \in wf.cleanup)
  BY <1>1, <1>2, FailureCleanupIsBoolean DEF FailureCleanup
<1>4. TypeOK'
  BY <1>1, <1>2, <1>3 DEF IInv, TypeOK
<1>5. ~cleaning' => \A d \in wf.deps[Stage] : Succeeded(d)
  <2>1. ~wf.continue /\ ~stopped => AllSucceeded
    BY <1>2 DEF IInv
  <2>2. AllSucceeded => \A d \in wf.deps[Stage] : Succeeded(d)
    <3>1. Len(reports) < Len(wf.plan)
      BY <1>2, WorkflowFacts
    <3> QED
      BY <3>1, DependenciesPrecede DEF IInv
  <2> QED
    BY <1>1, <1>3, <2>1, <2>2 DEF Blocked
<1>6. /\ AllSucceeded' <=> AllSucceeded
      /\ Interrupted' <=> Interrupted
      /\ Stage' = Stage
      /\ (\A d \in wf.deps[Stage] : Succeeded(d))'
           <=> (\A d \in wf.deps[Stage] : Succeeded(d))
  BY <1>1 DEF AllSucceeded, Interrupted, Succeeded, Stage
<1> QED
  BY <1>1, <1>2, <1>3, <1>4, <1>5, <1>6 DEF IInv

(* A factory that fails ends the stage in hand with a failure.             *)
LEMMA FactoryFacts ==
  ASSUME IInv, NEW c \in FailureCodes, FactoryFails(c)
  PROVE  /\ pc = "admitted" /\ pc' = "boundary" /\ Len(reports) < Len(wf.plan) - 1
         /\ Record(Report("FAILURE", c), cleaning)
         /\ reports' = Append(reports, Report("FAILURE", c)) /\ wf' = wf
         /\ UNCHANGED << executed, cancelled, begun, expired, runReport >>
         /\ Report("FAILURE", c) \in StageReports
         /\ Report("FAILURE", c).outcome = "FAILURE"
         /\ cleaning = stopped /\ stopped \in BOOLEAN
         /\ cleaning => UNCHANGED control
         /\ ~cleaning => /\ topStatus' = "FAILURE" /\ topError' = KeepFirst(c)
                         /\ stopped' = StopsAt(Stage, "FAILURE")
BY ReportTypes, Outcome DEF FactoryFails, Record, InHand, environment, IInv, TypeOK

LEMMA FactoryFailsPreserves ==
  ASSUME IInv, NEW c \in FailureCodes, FactoryFails(c)
  PROVE  IInv'
<1> DEFINE r == Report("FAILURE", c)
<1>1. /\ pc # "done" /\ Len(reports) < Len(wf.plan) - 1
      /\ Record(r, cleaning) /\ UNCHANGED executed
      /\ r \in StageReports /\ r.outcome = "FAILURE" /\ cleaning \in BOOLEAN
      /\ cleaning = stopped
  BY FactoryFacts
<1>2. /\ topStatus \in {"SUCCESS", "FAILURE", "CANCELLED"} /\ topError \in Codes
      /\ stopped \in BOOLEAN /\ (stopped => topStatus # "SUCCESS")
      /\ (~wf.continue /\ topStatus # "SUCCESS" => stopped)
      /\ (topStatus = "CANCELLED" => stopped)
      /\ wf \in Workflows
  BY DEF IInv, TypeOK
<1>3. CASE cleaning
  <2>1. stopped' = stopped /\ topStatus' = topStatus /\ topError' = topError /\ stopped
    BY <1>1, <1>3, FactoryFacts DEF control
  <2> HIDE DEF r
  <2> QED
    BY <1>1, <1>2, <2>1, RecordPreserves
<1>4. CASE ~cleaning
  <2>1. /\ topStatus' = "FAILURE" /\ topError' = KeepFirst(c)
        /\ stopped' = StopsAt(Stage, "FAILURE")
    BY <1>4, FactoryFacts
  <2>2. topError' \in Codes
    BY <1>2, <2>1 DEF KeepFirst, Codes
  <2>3. wf.continue \in BOOLEAN
    BY <1>2, WorkflowFacts
  <2>4. stopped' \in BOOLEAN /\ (~wf.continue => stopped')
    BY <2>1, <2>3 DEF StopsAt
  <2>5. reports = << >> => stopped'
    <3>1. reports = << >> => Stage = "VALIDATE_CONFIG"
      BY <1>2, WorkflowFacts DEF Stage
    <3> QED
      BY <2>1, <3>1 DEF StopsAt
  <2> HIDE DEF r
  <2> QED
    BY <1>1, <1>2, <1>4, <2>1, <2>2, <2>4, <2>5, RecordPreserves
<1> QED
  BY <1>3, <1>4

LEMMA ExecutePreserves ==
  ASSUME IInv, Execute
  PROVE  IInv'
<1>1. /\ pc = "admitted" /\ pc' = "executing" /\ InHand /\ InHand'
      /\ executed' = executed \cup {Stage}
      /\ UNCHANGED << wf, reports, topStatus, topError, stopped, cleaning, cleanup, runReport,
                       cancelled, begun, expired >>
  BY DEF Execute, InHand, control, environment
<1>2. wf \in Workflows /\ reports \in Seq(StageReports) /\ Len(reports) < Len(wf.plan) - 1
  BY <1>1 DEF IInv, TypeOK
<1>3. Stage \in Stages
  <2>1. Len(reports) + 1 \in 1..Len(wf.plan)
    BY <1>2, WorkflowFacts
  <2> QED
    BY <1>2, <2>1, WorkflowFacts DEF Stage
<1>4. TypeOK'
  BY <1>1, <1>2, <1>3 DEF IInv, TypeOK
<1>5. /\ AllSucceeded' <=> AllSucceeded
      /\ Interrupted' <=> Interrupted
      /\ Stage' = Stage
      /\ (\A d \in wf.deps[Stage] : Succeeded(d))'
           <=> (\A d \in wf.deps[Stage] : Succeeded(d))
  BY <1>1 DEF AllSucceeded, Interrupted, Succeeded, Stage
<1> QED
  BY <1>1, <1>4, <1>5 DEF IInv

LEMMA ReturnPreserves ==
  ASSUME IInv, NEW r \in ReturnedReports, Return(r)
  PROVE  IInv'
<1>1. /\ pc = "executing" /\ Record(r, cleaning) /\ UNCHANGED executed
      /\ r \in StageReports
  BY ReportTypes DEF Return
<1>2. /\ topStatus \in {"SUCCESS", "FAILURE", "CANCELLED"} /\ topError \in Codes
      /\ stopped \in BOOLEAN /\ (stopped => topStatus # "SUCCESS")
      /\ (~wf.continue /\ topStatus # "SUCCESS" => stopped)
      /\ (topStatus = "CANCELLED" => stopped)
      /\ wf \in Workflows /\ cleaning = stopped
      /\ Len(reports) < Len(wf.plan) - 1
  BY <1>1 DEF IInv, TypeOK, InHand
<1>3. CASE ~Counts(r)
  <2>1. /\ stopped' = stopped /\ topStatus' = topStatus /\ topError' = topError
        /\ stopped \/ r.outcome = "SUCCESS"
    BY <1>2, <1>3 DEF Return, Counts, control
  <2> QED
    BY <1>1, <1>2, <2>1, RecordPreserves
<1>4. CASE Counts(r) /\ r.outcome = "CANCELLED"
  <2>1. /\ topStatus' = "CANCELLED" /\ topError' = "WORKFLOW_CANCELLED" /\ stopped' = TRUE
    BY <1>4 DEF Return
  <2>2. "WORKFLOW_CANCELLED" \in Codes
    BY DEF Codes
  <2> QED
    BY <1>1, <1>2, <1>4, <2>1, <2>2, RecordPreserves
<1>5. CASE Counts(r) /\ r.outcome # "CANCELLED"
  <2>1. /\ topStatus' = "FAILURE" /\ topError' = KeepFirst(TopCode(r))
        /\ stopped' = StopsAt(Stage, r.outcome)
        /\ ~stopped /\ r.outcome # "SUCCESS"
    BY <1>2, <1>5 DEF Return, Counts
  <2>2. topError' \in Codes
    BY <1>2, <2>1 DEF KeepFirst, TopCode, Codes, FailureCodes
  <2>3. wf.continue \in BOOLEAN
    BY <1>2, WorkflowFacts
  <2>4. stopped' \in BOOLEAN /\ (~wf.continue => stopped')
    BY <2>1, <2>3 DEF StopsAt
  <2>5. reports = << >> => stopped'
    <3>1. reports = << >> => Stage = "VALIDATE_CONFIG"
      BY <1>2, WorkflowFacts DEF Stage
    <3> QED
      BY <2>1, <3>1 DEF StopsAt
  <2> QED
    BY <1>1, <1>2, <2>1, <2>2, <2>4, <2>5, RecordPreserves
<1> QED
  BY <1>3, <1>4, <1>5

LEMMA WriteReportPreserves ==
  ASSUME IInv, NEW written \in BOOLEAN, WriteReport(written)
  PROVE  IInv'
<1> DEFINE r == IF written THEN Success ELSE Report("FAILURE", "RUN_REPORT_WRITE_ERROR")
<1>1. /\ pc = "boundary" /\ pc' = "done" /\ Len(reports) = Len(wf.plan) - 1
      /\ reports' = Append(reports, r)
      /\ runReport' = FinalVerdict(written)
      /\ UNCHANGED << wf, topStatus, topError, stopped, cleaning, cleanup, executed,
                       cancelled, begun, expired >> /\ ~InHand'
  BY DEF WriteReport, Finished, InHand, control, environment
<1>2. /\ r \in StageReports
      /\ r.outcome = IF written THEN "SUCCESS" ELSE "FAILURE"
  BY DEF Success, Report, StageReports, Outcomes, Codes
<1>3. wf \in Workflows /\ reports \in Seq(StageReports)
  BY DEF IInv, TypeOK
<1>4. /\ reports' \in Seq(StageReports)
      /\ Len(reports) \in Nat /\ Len(reports') = Len(reports) + 1
      /\ AllSucceeded' <=> (AllSucceeded /\ r.outcome = "SUCCESS")
      /\ Interrupted => Interrupted'
  <2> HIDE DEF r
  <2> QED
    BY <1>1, <1>2, <1>3, LedgerGrows
<1>5. /\ runReport' \in [status : {"RUNNING", "SUCCESS", "FAILURE", "CANCELLED"},
                          error  : Codes \cup {"NONE"},
                          source : Codes \cup {"NONE"}]
      /\ runReport'.status = IF written THEN topStatus ELSE "FAILURE"
  BY <1>1 DEF FinalVerdict, IInv, TypeOK, Codes
<1>6. Len(reports') = Len(wf'.plan)
  BY <1>1, <1>3, <1>4, WorkflowFacts
<1>7. TypeOK'
  BY <1>1, <1>4, <1>5, <1>6 DEF IInv, TypeOK
<1>8. runReport'.status = "SUCCESS" <=> AllSucceeded'
  BY <1>1, <1>2, <1>4, <1>5 DEF IInv
<1> QED
  BY <1>1, <1>4, <1>7, <1>8 DEF IInv

(* The token and the deadline are no part of what IInv relates. *)
LEMMA EnvironmentPreserves ==
  ASSUME IInv, Cancel \/ Expire
  PROVE  IInv'
<1>1. UNCHANGED << wf, pc, reports, topStatus, topError, stopped, cleaning, cleanup,
                   runReport, executed >>
  BY DEF Cancel, Expire, control
<1>2. cancelled' \in BOOLEAN /\ begun' \in Nat /\ expired' \in BOOLEAN
  <2>1. Len(reports) \in Nat
    BY LedgerGrows DEF IInv, TypeOK
  <2>2. cancelled \in BOOLEAN /\ begun \in Nat /\ expired \in BOOLEAN
    BY DEF IInv, TypeOK
  <2>3. CASE Cancel
    BY <2>1, <2>2, <2>3 DEF Cancel, CancelToken
  <2>4. CASE Expire
    BY <2>2, <2>4 DEF Expire
  <2> QED
    BY <2>3, <2>4
<1> QED
  BY <1>1, <1>2 DEF IInv, TypeOK, AllSucceeded, Interrupted, Succeeded, Stage, InHand

LEMMA StutterPreserves ==
  ASSUME IInv, UNCHANGED vars
  PROVE  IInv'
BY DEF vars, control, environment, IInv, TypeOK, AllSucceeded, Interrupted, Succeeded,
       Stage, InHand

(* Nothing is reported yet, and the configuration check is first. *)
LEMMA InitIInv == Init => IInv
<1> SUFFICES ASSUME Init
             PROVE  IInv
  OBVIOUS
<1>1. /\ wf \in Workflows /\ reports = << >> /\ Len(reports) = 0
      /\ reports \in Seq(StageReports)
      /\ \A i : i \notin 1..Len(reports)
  BY DEF Init
<1>2. Len(wf.plan) \in Nat /\ Len(wf.plan) >= 2
  BY <1>1, WorkflowFacts
<1>3. TypeOK
  <2>1. runReport \in [status : {"RUNNING", "SUCCESS", "FAILURE", "CANCELLED"},
                       error  : Codes \cup {"NONE"},
                       source : Codes \cup {"NONE"}]
    BY DEF Init, NoRunReport
  <2>2. /\ cancelled \in BOOLEAN /\ expired \in BOOLEAN
        /\ stopped \in BOOLEAN /\ cleaning \in BOOLEAN
    BY Zenon DEF Init
  <2>3. /\ pc = "boundary" /\ ~InHand /\ topStatus = "SUCCESS" /\ topError \in Codes
        /\ begun \in Nat
        /\ cleanup \in StageReports \cup {NoReport} /\ executed \subseteq Stages
    BY DEF Init, Codes, InHand
  <2> QED
    BY <1>1, <1>2, <2>1, <2>2, <2>3 DEF TypeOK
<1>4. AllSucceeded
  BY <1>1 DEF AllSucceeded
<1> QED
  BY <1>1, <1>3, <1>4 DEF Init, IInv, InHand

LEMMA NextPreserves == IInv /\ [Next]_vars => IInv'
<1> SUFFICES ASSUME IInv, [Next]_vars
             PROVE  IInv'
  OBVIOUS
<1>1. CASE Cancel \/ Expire
  BY <1>1, EnvironmentPreserves
<1>2. ASSUME NEW required \in BOOLEAN, Boundary(required)
      PROVE  IInv'
  <2>1. CASE SkipStopped(required)
    BY <2>1, SkipStoppedPreserves
  <2>2. CASE ObserveCancel(required)
    BY <2>2, ObserveCancelPreserves
  <2>3. CASE SkipBlocked(required)
    BY <2>3, SkipBlockedPreserves
  <2>4. CASE Admit(required)
    BY <2>4, AdmitPreserves
  <2> QED
    BY <1>2, <2>1, <2>2, <2>3, <2>4 DEF Boundary
<1>2a. ASSUME NEW c \in {"WORKFLOW_EXECUTOR_NOT_REGISTERED", "INTERNAL_ERROR"}, FactoryFails(c)
       PROVE  IInv'
  BY <1>2a, FactoryFailsPreserves DEF FailureCodes
<1>2b. CASE Execute
  BY <1>2b, ExecutePreserves
<1>3. CASE ObserveExpiry
  BY <1>3, ObserveExpiryPreserves
<1>4. ASSUME NEW r \in ReturnedReports, Return(r)
      PROVE  IInv'
  BY <1>4, ReturnPreserves
<1>5. ASSUME NEW written \in BOOLEAN, WriteReport(written)
      PROVE  IInv'
  BY <1>5, WriteReportPreserves
<1>6. CASE Done \/ UNCHANGED vars
  BY <1>6, StutterPreserves DEF Done
<1> QED
  BY <1>1, <1>2, <1>2a, <1>2b, <1>3, <1>4, <1>5, <1>6 DEF Next, RunnerStep, Call

(* The inductive invariant holds in every reachable state. *)
THEOREM IInvIsInvariant == Spec => []IInv
BY InitIInv, NextPreserves, PTL DEF Spec

(* Every run keeps its types and its place in the plan, whatever the stage  *)
(* executors return and whenever the token or the deadline strikes.         *)
THEOREM TypeCorrect == Spec => []TypeOK
<1>1. IInv => TypeOK
  BY DEF IInv
<1> QED
  BY <1>1, IInvIsInvariant, PTL

(* The RunReport says SUCCESS exactly when every stage, the report write    *)
(* included, succeeded.                                                     *)
THEOREM HonestVerdict == Spec => []VerdictIsHonest
<1>1. IInv => VerdictIsHonest
  BY DEF IInv, VerdictIsHonest
<1> QED
  BY <1>1, IInvIsInvariant, PTL

LEMMA IInvJustifies == IInv => ExecutionIsJustified
<1> SUFFICES ASSUME IInv, pc = "executing", ~cleaning
             PROVE  /\ ~wf.continue => AllSucceeded
                    /\ \A d \in wf.deps[Stage] : Succeeded(d)
                    /\ Stage # "VALIDATE_CONFIG" => Succeeded("VALIDATE_CONFIG")
  BY DEF ExecutionIsJustified
<1>1. wf \in Workflows /\ reports \in Seq(StageReports) /\ ~stopped
  BY DEF IInv, TypeOK, InHand
<1>2. ~wf.continue => AllSucceeded
  BY <1>1 DEF IInv
<1>3. ASSUME Stage # "VALIDATE_CONFIG"
      PROVE  Succeeded("VALIDATE_CONFIG")
  <2>1. wf.plan[1] = "VALIDATE_CONFIG"
    BY <1>1, WorkflowFacts
  <2>2. Len(reports) # 0
    BY <1>3, <2>1 DEF Stage
  <2>3. 1 \in 1..Len(reports) /\ reports # << >>
    BY <1>1, <2>2
  <2>4. reports[1].outcome = "SUCCESS"
    BY <1>1, <2>3 DEF IInv
  <2> QED
    BY <2>1, <2>3, <2>4 DEF Succeeded
<1> QED
  BY <1>2, <1>3 DEF IInv, InHand

(* An ordinary stage runs only on top of everything it relies on. *)
THEOREM JustifiedExecution == Spec => []ExecutionIsJustified
BY IInvJustifies, IInvIsInvariant, PTL

-----------------------------------------------------------------------------
(* The verdict only worsens, cancellation is final, and cleanup does not    *)
(* replace the failure that stopped the run.                                *)
LEMMA VerdictStep ==
  IInv /\ [Next]_vars =>
    [/\ topStatus # "SUCCESS" => topStatus' # "SUCCESS"
     /\ topStatus = "CANCELLED" => UNCHANGED control
     /\ stopped /\ topStatus = "FAILURE" =>
          UNCHANGED control \/ (cancelled /\ topStatus' = "CANCELLED")]_vars
<1> DEFINE Good == /\ topStatus # "SUCCESS" => topStatus' # "SUCCESS"
                   /\ topStatus = "CANCELLED" => UNCHANGED control
                   /\ stopped /\ topStatus = "FAILURE" =>
                        UNCHANGED control \/ (cancelled /\ topStatus' = "CANCELLED")
<1> SUFFICES ASSUME IInv, Next
             PROVE  Good
  OBVIOUS
<1>1. UNCHANGED control => Good
  BY DEF control
<1>2. topStatus = "CANCELLED" => stopped
  BY DEF IInv
<1>3. CASE Cancel \/ Expire \/ Done
  BY <1>1, <1>3 DEF Cancel, Expire, Done, vars
<1>4. ASSUME NEW required \in BOOLEAN, Boundary(required)
      PROVE  Good
  <2>1. CASE SkipStopped(required) \/ SkipBlocked(required) \/ Admit(required)
    BY <1>1, <2>1 DEF SkipStopped, SkipBlocked, Admit
  <2>2. CASE ObserveCancel(required)
    <3>1. /\ cancelled /\ topStatus' = "CANCELLED"
          /\ topStatus # "CANCELLED"
      BY <1>2, <2>2 DEF ObserveCancel, Reached, FailureCleanup
    <3> QED
      BY <3>1
  <2> QED
    BY <1>4, <2>1, <2>2 DEF Boundary
<1>4a. ASSUME NEW c \in {"WORKFLOW_EXECUTOR_NOT_REGISTERED", "INTERNAL_ERROR"}, FactoryFails(c)
       PROVE  Good
  <2>1. c \in FailureCodes
    BY DEF FailureCodes
  <2>2. UNCHANGED control \/ (~stopped /\ topStatus' = "FAILURE")
    BY <1>4a, <2>1, FactoryFacts
  <2> QED
    BY <1>1, <1>2, <2>2
<1>4b. CASE Execute
  BY <1>1, <1>4b DEF Execute
<1>5. CASE ObserveExpiry
  BY <1>2, <1>5 DEF ObserveExpiry
<1>6. ASSUME NEW r \in ReturnedReports, Return(r)
      PROVE  Good
  <2>1. cleaning = stopped
    BY <1>6 DEF IInv, InHand, Return
  <2>2. CASE ~Counts(r)
    BY <1>1, <1>6, <2>2 DEF Return
  <2>3. CASE Counts(r)
    <3>1. ~stopped /\ topStatus' \in {"FAILURE", "CANCELLED"}
      BY <1>6, <2>1, <2>3 DEF Return, Counts
    <3> QED
      BY <1>2, <3>1
  <2> QED
    BY <2>2, <2>3
<1>7. ASSUME NEW written \in BOOLEAN, WriteReport(written)
      PROVE  Good
  BY <1>1, <1>7 DEF WriteReport
<1> HIDE DEF Good
<1> QED
  BY <1>3, <1>4, <1>4a, <1>4b, <1>5, <1>6, <1>7 DEF Next, RunnerStep, Call

(* A run that has failed never becomes a success, and only a cancellation   *)
(* replaces the failure that stopped it.                                    *)
THEOREM VerdictNeverImproves == Spec => VerdictOnlyWorsens
BY VerdictStep, IInvIsInvariant, PTL DEF Spec, VerdictOnlyWorsens
-----------------------------------------------------------------------------
(* A cancellation is honoured.  The strengthening places it in the plan:    *)
(* at the moment it came, begun was where the run had got to, a stage that  *)
(* is still in hand was begun by then, and nothing has been executed ahead  *)
(* of the run.  A run that is past begun has seen the token and is stopped; *)
(* if a failure stopped it, the culprit was begun before the cancellation.  *)
Entered == Len(reports) + (IF InHand THEN 1 ELSE 0)

Culprit(i) ==
  /\ cancelled => i <= begun
  /\ reports[i].outcome # "SUCCESS"
  /\ wf.continue => i = 1 \/ reports[i] = TimedOut

HonourInv ==
  /\ begun <= Entered
  /\ cancelled /\ InHand => begun = Entered
  /\ \A i \in 1..Len(wf.plan) : Entered < i => wf.plan[i] \notin executed
  /\ cancelled =>
       /\ \A i \in 1..Len(wf.plan) : begun < i => wf.plan[i] \notin executed
       /\ \A i \in 1..Len(reports) : begun < i /\ i < Len(wf.plan) => reports[i] = Skipped
       /\ begun < Len(reports) /\ begun < Len(wf.plan) - 1 => stopped
  /\ stopped /\ topStatus = "FAILURE" => \E i \in 1..Len(reports) : Culprit(i)

(* A report added to the ledger keeps it, if under a cancelled token what   *)
(* is not in hand is skipped and stops the run, and if a failure that newly *)
(* stops the run is that of the stage reported.                             *)
LEMMA HonourGrows ==
  ASSUME IInv, HonourInv, Len(reports) < Len(wf.plan),
         NEW r \in StageReports, reports' = Append(reports, r),
         UNCHANGED << wf, executed, cancelled, begun >>, ~InHand',
         Len(reports) = Len(wf.plan) - 1 => stopped' = stopped,
         cancelled /\ ~InHand /\ Len(reports) < Len(wf.plan) - 1 => r = Skipped /\ stopped',
         stopped' /\ topStatus' = "FAILURE" =>
           \/ stopped /\ topStatus = "FAILURE"
           \/ /\ cancelled => InHand
              /\ r.outcome # "SUCCESS"
              /\ wf.continue => reports = << >> \/ r = TimedOut
  PROVE  HonourInv'
<1> DEFINE n == Len(reports)
           m == Len(wf.plan)
<1>1. /\ n \in Nat /\ Len(reports') = n + 1 /\ reports'[n + 1] = r
      /\ \A i \in 1..n : reports'[i] = reports[i]
      /\ m \in Nat /\ begun \in Nat /\ n < m
      /\ reports = << >> => n = 0
  BY LedgerGrows, WorkflowFacts DEF IInv, TypeOK
<1>2. /\ Entered' = n + 1 /\ Entered \in {n, n + 1} /\ (InHand => Entered = n + 1)
      /\ ~InHand => Entered = n
  BY <1>1 DEF Entered
<1>3. /\ begun <= Entered /\ (cancelled /\ InHand => begun = n + 1)
      /\ \A i \in 1..m : Entered < i => wf.plan[i] \notin executed
      /\ cancelled => \A i \in 1..m : begun < i => wf.plan[i] \notin executed
      /\ cancelled => \A i \in 1..n : begun < i /\ i < m => reports[i] = Skipped
      /\ cancelled /\ begun < n /\ begun < m - 1 => stopped
      /\ stopped /\ topStatus = "FAILURE" => \E i \in 1..n : Culprit(i)
  BY <1>2 DEF HonourInv
<1> HIDE DEF n, m
<1>4. begun <= n + 1
  BY <1>1, <1>2, <1>3
<1>5. \A i \in 1..m : n + 1 < i => wf.plan[i] \notin executed
  BY <1>1, <1>2, <1>3
<1>6. cancelled => \A i \in 1..(n + 1) : begun < i /\ i < m => reports'[i] = Skipped
  <2> SUFFICES ASSUME cancelled, NEW i \in 1..(n + 1), begun < i, i < m
               PROVE  reports'[i] = Skipped
    OBVIOUS
  <2>1. CASE i \in 1..n
    BY <1>1, <1>3, <2>1
  <2>2. CASE i = n + 1
    <3>1. ~InHand /\ n < m - 1
      BY <1>1, <1>3, <2>2
    <3> QED
      BY <1>1, <2>2, <3>1 DEF n, m
  <2> QED
    BY <1>1, <2>1, <2>2
<1>7. cancelled /\ begun < n + 1 /\ begun < m - 1 => stopped'
  <2> SUFFICES ASSUME cancelled, begun < n + 1, begun < m - 1
               PROVE  stopped'
    OBVIOUS
  <2>1. ~InHand
    BY <1>1, <1>3
  <2>2. CASE n < m - 1
    BY <2>1, <2>2 DEF n, m
  <2>3. CASE n = m - 1
    <3>1. stopped
      BY <1>1, <1>3, <2>3
    <3> QED
      BY <2>3, <3>1 DEF n, m
  <2> QED
    BY <1>1, <2>2, <2>3
<1>8. stopped' /\ topStatus' = "FAILURE" => \E i \in 1..(n + 1) : Culprit(i)'
  <2> SUFFICES ASSUME stopped', topStatus' = "FAILURE"
               PROVE  \E i \in 1..(n + 1) : Culprit(i)'
    OBVIOUS
  <2>1. CASE stopped /\ topStatus = "FAILURE"
    <3>1. PICK i \in 1..n : Culprit(i)
      BY <1>3, <2>1
    <3>2. i \in 1..(n + 1) /\ Culprit(i)'
      BY <1>1, <3>1 DEF Culprit
    <3> QED
      BY <3>2
  <2>2. CASE /\ cancelled => InHand
             /\ r.outcome # "SUCCESS"
             /\ wf.continue => reports = << >> \/ r = TimedOut
    <3>1. n + 1 \in 1..(n + 1) /\ (cancelled => n + 1 <= begun)
      BY <1>1, <1>3, <2>2
    <3>2. wf.continue => n + 1 = 1 \/ r = TimedOut
      BY <1>1, <2>2
    <3> QED
      BY <1>1, <2>2, <3>1, <3>2 DEF Culprit
  <2> QED
    BY <2>1, <2>2
<1> QED
  BY <1>1, <1>2, <1>3, <1>4, <1>5, <1>6, <1>7, <1>8 DEF HonourInv, m

(* At a boundary a cancelled token leaves only what skips. *)
LEMMA BoundaryHonours ==
  ASSUME IInv, HonourInv, NEW required \in BOOLEAN, Boundary(required)
  PROVE  HonourInv'
<1>1. AtBoundary /\ ~InHand /\ Len(reports) < Len(wf.plan) /\ Len(reports) < Len(wf.plan) - 1
  BY DEF Boundary, SkipStopped, ObserveCancel, SkipBlocked, Admit, InBudget, Reached, AtBoundary,
         InHand, IInv, TypeOK
<1>1a. Len(reports) \in Nat /\ Len(wf.plan) \in Nat
  BY WorkflowFacts DEF IInv, TypeOK
<1>2. CASE SkipStopped(required) \/ ObserveCancel(required) \/ SkipBlocked(required)
  <2>1. /\ reports' = Append(reports, Skipped) /\ ~InHand'
        /\ UNCHANGED << wf, executed, cancelled, begun >>
    BY <1>2 DEF SkipStopped, ObserveCancel, SkipBlocked, Record, environment, InHand
  <2>2. cancelled => stopped'
    <3>1. CASE SkipStopped(required)
      BY <3>1 DEF SkipStopped, control
    <3>2. CASE ObserveCancel(required)
      BY <3>2 DEF ObserveCancel
    <3>3. CASE SkipBlocked(required)
      BY <3>3 DEF SkipBlocked, InBudget
    <3> QED
      BY <1>2, <3>1, <3>2, <3>3
  <2>3. stopped' /\ topStatus' = "FAILURE" => stopped /\ topStatus = "FAILURE"
    BY <1>2 DEF SkipStopped, ObserveCancel, SkipBlocked, control
  <2> QED
    BY <1>1, <1>1a, <2>1, <2>2, <2>3, HonourGrows, ReportTypes
<1>3. CASE Admit(required)
  <2>1. /\ UNCHANGED << wf, reports, topStatus, stopped, executed, cancelled, begun >>
        /\ ~cancelled /\ InHand'
    BY <1>3 DEF Admit, InBudget, InHand, control, environment
  <2>2. /\ Entered = Len(reports) /\ Entered' = Len(reports) + 1 /\ begun \in Nat
    BY <1>1, <1>1a, <2>1 DEF Entered, IInv, TypeOK
  <2>3. begun <= Entered' /\ \A i \in 1..Len(wf.plan) : Entered' < i => wf.plan[i] \notin executed
    BY <1>1a, <2>2 DEF HonourInv
  <2> QED
    BY <2>1, <2>3 DEF HonourInv, Culprit
<1> QED
  BY <1>2, <1>3 DEF Boundary

(* A failure newly stops the run only with the stage in hand; under         *)
(* continue_on_failure this is the configuration check.                     *)
LEMMA StopsFirst ==
  ASSUME TypeOK, NEW outcome, StopsAt(Stage, outcome), outcome # "CANCELLED",
         Len(reports) < Len(wf.plan)
  PROVE  wf.continue => reports = << >>
<1> SUFFICES ASSUME wf.continue
             PROVE  reports = << >>
  OBVIOUS
<1>1. Stage = "VALIDATE_CONFIG"
  BY WorkflowFacts DEF StopsAt, TypeOK
<1>2. /\ wf \in Workflows /\ reports \in Seq(StageReports)
      /\ Len(reports) \in Nat /\ Len(wf.plan) \in Nat
      /\ Len(reports) + 1 \in 1..Len(wf.plan) /\ 1 \in 1..Len(wf.plan)
  BY WorkflowFacts DEF TypeOK
<1>3. wf.plan[Len(reports) + 1] = wf.plan[1]
  BY <1>1, <1>2, WorkflowFacts DEF Stage
<1>4. Len(reports) + 1 = 1
  BY <1>2, <1>3, WorkflowFacts
<1> QED
  BY <1>2, <1>4

LEMMA NextHonours == IInv /\ HonourInv /\ [Next]_vars => HonourInv'
<1> SUFFICES ASSUME IInv, HonourInv, [Next]_vars
             PROVE  HonourInv'
  OBVIOUS
<1>0. /\ wf \in Workflows /\ Len(reports) \in Nat /\ Len(wf.plan) \in Nat /\ TypeOK
      /\ begun \in Nat
  BY WorkflowFacts DEF IInv, TypeOK
<1>1. CASE Cancel
  <2>1. /\ UNCHANGED << wf, pc, reports, topStatus, stopped, executed >>
        /\ ~cancelled /\ cancelled' /\ begun' = Entered /\ Entered' = Entered
        /\ InHand' = InHand
    BY <1>1 DEF Cancel, CancelToken, Entered, InHand, control
  <2>2. Entered \in Nat /\ Len(reports) <= Entered
    BY <1>0 DEF Entered
  <2>3. \A i \in 1..Len(reports) : Culprit(i) => Culprit(i)'
    BY <1>0, <2>1, <2>2 DEF Culprit
  <2>4. \A i \in 1..Len(reports) : ~(begun' < i)
    BY <1>0, <2>1, <2>2
  <2>5. begun' <= Entered' /\ ~(begun' < Len(reports))
    BY <1>0, <2>1, <2>2
  <2> QED
    BY <2>1, <2>3, <2>4, <2>5 DEF HonourInv
<1>2. CASE Expire \/ Done \/ UNCHANGED vars
  <2>1. UNCHANGED << wf, pc, reports, topStatus, stopped, executed, cancelled, begun >>
    BY <1>2 DEF Expire, Done, vars, control, environment
  <2> QED
    BY <2>1 DEF HonourInv, Entered, InHand, Culprit
<1>3. ASSUME NEW required \in BOOLEAN, Boundary(required)
      PROVE  HonourInv'
  BY <1>3, BoundaryHonours
<1>4. CASE ObserveExpiry
  <2>1. /\ reports' = Append(reports, TimedOut) /\ ~InHand' /\ ~cancelled
        /\ UNCHANGED << wf, executed, cancelled, begun >>
        /\ Len(reports) < Len(wf.plan) - 1
    BY <1>4 DEF ObserveExpiry, AtBoundary, Record, environment, InHand
  <2>2. Len(reports) < Len(wf.plan)
    BY <1>0, <2>1
  <2> QED
    BY <1>0, <2>1, <2>2, HonourGrows, ReportTypes, Outcome
<1>5. ASSUME NEW c \in {"WORKFLOW_EXECUTOR_NOT_REGISTERED", "INTERNAL_ERROR"}, FactoryFails(c)
      PROVE  HonourInv'
  <2>0. c \in FailureCodes
    BY DEF FailureCodes
  <2>1. /\ pc = "admitted" /\ pc' = "boundary" /\ Len(reports) < Len(wf.plan) - 1
        /\ reports' = Append(reports, Report("FAILURE", c)) /\ wf' = wf
        /\ UNCHANGED << executed, cancelled, begun >>
        /\ Report("FAILURE", c) \in StageReports
        /\ Report("FAILURE", c).outcome = "FAILURE"
    BY <1>5, <2>0, FactoryFacts
  <2>2. InHand /\ ~InHand' /\ Len(reports) < Len(wf.plan)
    BY <1>0, <2>1 DEF InHand
  <2>3. CASE cleaning
    <3>1. UNCHANGED << stopped, topStatus >>
      BY <1>5, <2>0, <2>3, FactoryFacts DEF control
    <3> QED
      BY <1>0, <2>1, <2>2, <3>1, HonourGrows
  <2>4. CASE ~cleaning
    <3>1. stopped' = StopsAt(Stage, "FAILURE")
      BY <1>5, <2>0, <2>4, FactoryFacts
    <3>2. stopped' /\ wf.continue => reports = << >>
      BY <1>0, <2>2, <3>1, StopsFirst
    <3> QED
      BY <1>0, <2>1, <2>2, <3>2, HonourGrows
  <2> QED
    BY <2>3, <2>4
<1>6. CASE Execute
  <2>1. /\ UNCHANGED << wf, reports, topStatus, stopped, cancelled, begun >>
        /\ InHand /\ InHand' /\ executed' = executed \cup {Stage}
        /\ Len(reports) < Len(wf.plan) - 1
    BY <1>6 DEF Execute, InHand, control, environment, TypeOK, IInv
  <2>2. Entered = Len(reports) + 1 /\ Entered' = Entered
    BY <2>1 DEF Entered
  <2>3. ASSUME NEW i \in 1..Len(wf.plan), Entered < i
        PROVE  wf.plan[i] \notin executed'
    <3>1. Len(reports) + 1 \in 1..Len(wf.plan) /\ i # Len(reports) + 1
      BY <1>0, <2>1, <2>2, <2>3
    <3>2. wf.plan[i] # Stage
      BY <1>0, <3>1, WorkflowFacts DEF Stage
    <3> QED
      BY <2>1, <2>3, <3>2 DEF HonourInv
  <2>4. cancelled => begun = Entered
    BY <2>1 DEF HonourInv
  <2> QED
    BY <2>1, <2>2, <2>3, <2>4 DEF HonourInv, Culprit
<1>7. ASSUME NEW r \in ReturnedReports, Return(r)
      PROVE  HonourInv'
  <2>1. /\ pc = "executing" /\ pc' = "boundary" /\ Len(reports) < Len(wf.plan) - 1
        /\ reports' = Append(reports, r) /\ r \in StageReports
        /\ UNCHANGED << wf, executed, cancelled, begun >>
    BY <1>7, ReportTypes DEF Return, Record, environment, InHand, IInv, TypeOK
  <2>2. InHand /\ ~InHand' /\ Len(reports) < Len(wf.plan)
    BY <1>0, <2>1 DEF InHand
  <2>3. CASE UNCHANGED control
    BY <1>0, <2>1, <2>2, <2>3, HonourGrows DEF control
  <2>4. CASE topStatus' = "CANCELLED"
    BY <1>0, <2>1, <2>2, <2>4, HonourGrows
  <2>5. CASE Counts(r) /\ r.outcome # "CANCELLED" /\ stopped' = StopsAt(Stage, r.outcome)
    <3>1. stopped' /\ wf.continue => reports = << >>
      BY <1>0, <2>2, <2>5, StopsFirst
    <3>2. r.outcome # "SUCCESS"
      BY <2>5 DEF Counts
    <3> QED
      BY <1>0, <2>1, <2>2, <3>1, <3>2, HonourGrows
  <2> QED
    BY <1>7, <2>3, <2>4, <2>5 DEF Return
<1>8. ASSUME NEW written \in BOOLEAN, WriteReport(written)
      PROVE  HonourInv'
  <2> DEFINE r == IF written THEN Success ELSE Report("FAILURE", "RUN_REPORT_WRITE_ERROR")
  <2>1. /\ Len(reports) = Len(wf.plan) - 1 /\ reports' = Append(reports, r) /\ ~InHand'
        /\ UNCHANGED << wf, executed, cancelled, begun, stopped, topStatus >>
    BY <1>8 DEF WriteReport, Finished, InHand, control, environment
  <2>2. r \in StageReports
    BY DEF Success, Report, StageReports, Outcomes, Codes
  <2>3. Len(reports) < Len(wf.plan)
    BY <1>0, <2>1
  <2> HIDE DEF r
  <2> QED
    BY <1>0, <2>1, <2>2, <2>3, HonourGrows
<1> QED
  BY <1>1, <1>2, <1>3, <1>4, <1>5, <1>6, <1>7, <1>8 DEF Next, RunnerStep, Call

(* Whenever the token is cancelled, between the check of a stage and the    *)
(* call of its executor too: at most that stage is still executed, all      *)
(* later ones are skipped, and the run says that it was cancelled or names  *)
(* a failure that had stopped it.                                           *)
THEOREM CancelHonoured == Spec => []CancelIsHonoured
<1>1. Init => HonourInv
  <2>1. ASSUME Init PROVE HonourInv
    <3>1. /\ pc = "boundary" /\ Len(reports) = 0 /\ ~stopped /\ executed = {} /\ begun = 0
      BY <2>1 DEF Init
    <3>2. ~InHand /\ Entered = 0
      BY <3>1 DEF InHand, Entered
    <3> QED
      BY <3>1, <3>2 DEF HonourInv
  <2> QED
    BY <2>1
<1>2. IInv /\ HonourInv => CancelIsHonoured
  <2> SUFFICES ASSUME IInv, HonourInv, cancelled, pc = "done", begun < Len(wf.plan) - 1
               PROVE  \/ topStatus = "CANCELLED"
                      \/ /\ topStatus = "FAILURE"
                         /\ \E i \in 1..begun :
                              /\ reports[i].outcome # "SUCCESS"
                              /\ wf.continue => i = 1 \/ reports[i] = TimedOut
    BY DEF CancelIsHonoured, HonourInv
  <2>1. /\ Len(reports) = Len(wf.plan) /\ Len(wf.plan) \in Nat /\ begun \in Nat
        /\ topStatus \in {"SUCCESS", "FAILURE", "CANCELLED"}
    BY WorkflowFacts DEF IInv, TypeOK
  <2>2. begun < Len(reports)
    BY <2>1
  <2>3. stopped /\ topStatus # "SUCCESS"
    BY <2>2 DEF HonourInv, IInv
  <2>4. CASE topStatus = "FAILURE"
    <3>1. PICK i \in 1..Len(reports) : Culprit(i)
      BY <2>3, <2>4 DEF HonourInv
    <3>2. i \in 1..begun
      BY <2>1, <3>1 DEF Culprit
    <3> QED
      BY <2>4, <3>1, <3>2 DEF Culprit
  <2> QED
    BY <2>1, <2>3, <2>4
<1> QED
  BY <1>1, <1>2, IInvIsInvariant, NextHonours, PTL DEF Spec
-----------------------------------------------------------------------------
(* Cleanup failures stay visible.  The strengthening says that only stages  *)
(* at or before the current place in the plan have been executed: a stage   *)
(* that is merely skipped cannot be mistaken for one that ran.              *)
Place == Len(reports) + (IF pc = "executing" THEN 1 ELSE 0)

CInv ==
  /\ \A s \in executed : \E i \in 1..Place : wf.plan[i] = s
  /\ CleanupFailureIsKept

LEMMA RecordKeepsCleanup ==
  ASSUME IInv, CInv, pc # "done", Len(reports) < Len(wf.plan),
         NEW r \in StageReports, reports' = Append(reports, r),
         pc' # "executing", wf' = wf, executed' = executed,
         cleanup.outcome \notin {"NONE", "SUCCESS"} =>
           cleanup'.outcome \notin {"NONE", "SUCCESS"},
         ~wf.continue /\ ~AllSucceeded /\ pc = "executing" /\ r.outcome # "SUCCESS" =>
           cleanup'.outcome \notin {"NONE", "SUCCESS"}
  PROVE  CInv'
<1> DEFINE n == Len(reports)
<1>1. wf \in Workflows /\ reports \in Seq(StageReports)
  BY DEF IInv, TypeOK
<1>2. /\ n \in Nat /\ Len(reports') = n + 1 /\ Len(wf.plan) \in Nat
      /\ \A i \in 1..n : reports'[i] = reports[i]
      /\ reports'[n + 1] = r
  BY <1>1, LedgerGrows, WorkflowFacts
<1>3. n + 1 \in 1..Len(wf.plan)
  BY <1>2
<1>4. \A s \in executed : \E i \in 1..(n + 1) : wf.plan[i] = s
  BY <1>2 DEF CInv, Place
<1>5. pc # "executing" => wf.plan[n + 1] \notin executed
  <2> SUFFICES ASSUME pc # "executing", wf.plan[n + 1] \in executed
               PROVE  FALSE
    OBVIOUS
  <2>1. PICK i \in 1..n : wf.plan[i] = wf.plan[n + 1]
    BY <1>2 DEF CInv, Place
  <2>2. i \in 1..Len(wf.plan) /\ i # n + 1
    BY <1>2, <1>3
  <2> QED
    BY <1>1, <1>3, <2>1, <2>2, WorkflowFacts
<1>6. CleanupFailureIsKept'
  <2> SUFFICES ASSUME NEW i \in 1..(n + 1), NEW j \in 1..(n + 1),
                      ~wf.continue, i < j, reports'[i].outcome # "SUCCESS",
                      wf.plan[j] \in executed, reports'[j].outcome # "SUCCESS"
               PROVE  cleanup'.outcome \notin {"NONE", "SUCCESS"}
    BY <1>2 DEF CleanupFailureIsKept
  <2>1. i \in 1..n
    BY <1>2
  <2>2. CASE j \in 1..n
    <3>1. cleanup.outcome \notin {"NONE", "SUCCESS"}
      BY <1>2, <2>1, <2>2 DEF CInv, CleanupFailureIsKept
    <3> QED
      BY <3>1
  <2>3. CASE j = n + 1
    <3>1. pc = "executing"
      BY <1>5, <2>3
    <3>2. ~AllSucceeded
      BY <1>2, <2>1 DEF AllSucceeded
    <3>3. r.outcome # "SUCCESS"
      BY <1>2, <2>3
    <3> QED
      BY <3>1, <3>2, <3>3
  <2> QED
    BY <1>2, <2>2, <2>3
<1> QED
  BY <1>2, <1>4, <1>6 DEF CInv, Place

(* Record's choice of what reaches the diagnostics. *)
LEMMA KeptReport ==
  ASSUME IInv, NEW r \in StageReports, NEW isCleanup \in BOOLEAN, Record(r, isCleanup)
  PROVE  /\ cleanup.outcome \notin {"NONE", "SUCCESS"} =>
              cleanup'.outcome \notin {"NONE", "SUCCESS"}
         /\ isCleanup /\ r.outcome # "SUCCESS" =>
              cleanup'.outcome \notin {"NONE", "SUCCESS"}
<1>1. cleanup \in StageReports \cup {NoReport} /\ NoReport.outcome = "NONE"
  BY DEF IInv, TypeOK, NoReport, Report
<1>2. \A x \in StageReports : x.outcome # "NONE"
  BY DEF StageReports, Outcomes
<1>3. CASE isCleanup /\ KeptForDiagnostics(r)
  BY <1>1, <1>2, <1>3 DEF Record, KeptForDiagnostics
<1>4. CASE ~(isCleanup /\ KeptForDiagnostics(r))
  BY <1>1, <1>2, <1>4 DEF Record, KeptForDiagnostics
<1> QED
  BY <1>3, <1>4

LEMMA BoundaryKeepsCleanup ==
  ASSUME IInv, CInv, AtBoundary, UNCHANGED executed,
         NEW r \in StageReports, NEW isCleanup \in BOOLEAN, Record(r, isCleanup)
  PROVE  CInv'
<1>1. Len(reports) < Len(wf.plan) /\ pc = "boundary"
  BY DEF IInv, TypeOK, AtBoundary
<1>2. reports' = Append(reports, r) /\ pc' = "boundary" /\ wf' = wf
  BY DEF Record
<1> QED
  BY <1>1, <1>2, KeptReport, RecordKeepsCleanup

LEMMA NextKeepsCleanup == IInv /\ CInv /\ [Next]_vars => CInv'
<1> SUFFICES ASSUME IInv, CInv, [Next]_vars
             PROVE  CInv'
  OBVIOUS
<1> USE DEF IInv
<1>1. CASE Cancel \/ Expire \/ Done \/ UNCHANGED vars
  <2>1. UNCHANGED << wf, pc, reports, cleanup, executed >>
    BY <1>1 DEF Cancel, Expire, Done, vars
  <2> QED
    BY <2>1 DEF CInv, Place, CleanupFailureIsKept
<1>2. ASSUME NEW required \in BOOLEAN, Boundary(required)
      PROVE  CInv'
  <2>1. CASE SkipStopped(required)
    BY <2>1, BoundaryKeepsCleanup, ReportTypes DEF SkipStopped
  <2>2. CASE ObserveCancel(required)
    BY <2>2, BoundaryKeepsCleanup, ReportTypes, FailureCleanupIsBoolean
    DEF ObserveCancel, Reached
  <2>3. CASE SkipBlocked(required)
    BY <2>3, BoundaryKeepsCleanup, ReportTypes, FailureCleanupIsBoolean
    DEF SkipBlocked, InBudget, Reached
  <2>4. CASE Admit(required)
    <3>1. /\ UNCHANGED << wf, reports, cleanup, executed >>
          /\ pc = "boundary" /\ pc' = "admitted"
      BY <2>4 DEF Admit, InBudget, Reached, AtBoundary
    <3> QED
      BY <3>1 DEF CInv, Place, CleanupFailureIsKept
  <2> QED
    BY <1>2, <2>1, <2>2, <2>3, <2>4 DEF Boundary
<1>2a. ASSUME NEW c \in {"WORKFLOW_EXECUTOR_NOT_REGISTERED", "INTERNAL_ERROR"}, FactoryFails(c)
       PROVE  CInv'
  <2>1. c \in FailureCodes
    BY DEF FailureCodes
  <2>2. /\ pc = "admitted" /\ pc' = "boundary" /\ cleaning \in BOOLEAN
        /\ Record(Report("FAILURE", c), cleaning) /\ Report("FAILURE", c) \in StageReports
        /\ reports' = Append(reports, Report("FAILURE", c)) /\ wf' = wf
        /\ executed' = executed /\ Len(reports) < Len(wf.plan) - 1
    BY <1>2a, <2>1, FactoryFacts
  <2>3. Len(reports) < Len(wf.plan)
    BY <2>2, WorkflowFacts DEF TypeOK
  <2> QED
    BY <2>2, <2>3, KeptReport, RecordKeepsCleanup
<1>2b. CASE Execute
  <2>1. /\ executed' = executed \cup {Stage} /\ pc = "admitted" /\ pc' = "executing"
        /\ UNCHANGED << wf, reports, cleanup >>
        /\ Len(reports) < Len(wf.plan) - 1
    BY <1>2b DEF Execute, InHand, TypeOK
  <2>2. Len(reports) \in Nat
    BY DEF TypeOK
  <2>3. \A s \in executed : \E i \in 1..Len(reports) : wf.plan[i] = s
    BY <2>1, <2>2 DEF CInv, Place
  <2>4. \A s \in executed' : \E i \in 1..(Len(reports) + 1) : wf.plan[i] = s
    BY <2>1, <2>2, <2>3 DEF Stage
  <2>5. CleanupFailureIsKept'
    <3> SUFFICES ASSUME NEW i \in 1..Len(reports), NEW j \in 1..Len(reports),
                        ~wf.continue, i < j, reports[i].outcome # "SUCCESS",
                        wf.plan[j] \in executed', reports[j].outcome # "SUCCESS"
                 PROVE  cleanup.outcome \notin {"NONE", "SUCCESS"}
      BY <2>1 DEF CleanupFailureIsKept
    <3>1. /\ wf \in Workflows /\ Len(reports) + 1 # j
          /\ j \in 1..Len(wf.plan) /\ Len(reports) + 1 \in 1..Len(wf.plan)
      BY <2>1, <2>2, WorkflowFacts DEF TypeOK
    <3>2. wf.plan[j] # Stage
      BY <3>1, WorkflowFacts DEF Stage
    <3> QED
      BY <2>1, <3>2 DEF CInv, CleanupFailureIsKept
  <2> QED
    BY <2>1, <2>4, <2>5 DEF CInv, Place
<1>3. CASE ObserveExpiry
  BY <1>3, BoundaryKeepsCleanup, ReportTypes DEF ObserveExpiry
<1>4. ASSUME NEW r \in ReturnedReports, Return(r)
      PROVE  CInv'
  <2>1. /\ pc = "executing" /\ Record(r, cleaning) /\ UNCHANGED executed
        /\ r \in StageReports /\ cleaning \in BOOLEAN /\ cleaning = stopped
        /\ Len(reports) < Len(wf.plan) - 1
    BY <1>4, ReportTypes DEF Return, TypeOK, InHand
  <2>2. reports' = Append(reports, r) /\ pc' = "boundary" /\ wf' = wf
    BY <2>1 DEF Record
  <2>3. ~wf.continue /\ ~AllSucceeded => cleaning
    BY <2>1
  <2>4. Len(reports) < Len(wf.plan)
    BY <2>1, WorkflowFacts DEF TypeOK
  <2> QED
    BY <2>1, <2>2, <2>3, <2>4, KeptReport, RecordKeepsCleanup
<1>5. ASSUME NEW written \in BOOLEAN, WriteReport(written)
      PROVE  CInv'
  <2> DEFINE r == IF written THEN Success ELSE Report("FAILURE", "RUN_REPORT_WRITE_ERROR")
  <2>1. /\ pc = "boundary" /\ pc' = "done" /\ reports' = Append(reports, r)
        /\ UNCHANGED << wf, cleanup, executed >> /\ Len(reports) < Len(wf.plan)
    BY <1>5 DEF WriteReport, TypeOK
  <2>2. r \in StageReports
    BY DEF Success, Report, StageReports, Outcomes, Codes
  <2> HIDE DEF r
  <2> QED
    BY <2>1, <2>2, RecordKeepsCleanup
<1> QED
  BY <1>1, <1>2, <1>2a, <1>2b, <1>3, <1>4, <1>5 DEF Next, RunnerStep, Call

(* In fail-fast mode a failed cleanup stage is never hidden by a later      *)
(* successful one.                                                          *)
THEOREM CleanupFailureStays == Spec => []CleanupFailureIsKept
<1>1. Init => CInv
  BY DEF Init, CInv, CleanupFailureIsKept
<1>2. CInv => CleanupFailureIsKept
  BY DEF CInv
<1> QED
  BY <1>1, <1>2, IInvIsInvariant, NextKeepsCleanup, PTL DEF Spec
-----------------------------------------------------------------------------
(* Every Runner implements RunContract: each action that adds a report to  *)
(* the ledger is a RecordStage, the write of the report is a Pronounce     *)
(* whose verdict IInv justifies, and everything else stutters.             *)
Ledger == [i \in 1..Len(reports) |-> reports[i].outcome]

(* The ledger seen by the contract, before and after a report is added. *)
LEMMA LedgerAppends ==
  ASSUME reports \in Seq(StageReports), NEW r \in StageReports,
         reports' = Append(reports, r)
  PROVE  /\ Ledger' = Append(Ledger, r.outcome)
         /\ Len(Ledger) = Len(reports) /\ Len(Ledger') = Len(reports) + 1
         /\ \A i \in 1..Len(Ledger') : Ledger'[i] = reports'[i].outcome
<1>1. /\ Len(reports) \in Nat /\ Len(reports') = Len(reports) + 1
      /\ \A i \in 1..Len(reports) : reports'[i] = reports[i]
      /\ reports'[Len(reports) + 1] = r
  BY LedgerGrows
<1>2. Ledger \in Seq(Outcomes) /\ Len(Ledger) = Len(reports)
  <2>1. \A i \in 1..Len(reports) : reports[i] \in StageReports
    OBVIOUS
  <2>2. \A i \in 1..Len(reports) : reports[i].outcome \in Outcomes
    BY <2>1 DEF StageReports
  <2>3. Ledger \in [1..Len(reports) -> Outcomes]
    BY <2>2 DEF Ledger
  <2> QED
    BY <1>1, <2>3
<1>3. Ledger' = [i \in 1..(Len(reports) + 1) |-> reports'[i].outcome]
  BY <1>1 DEF Ledger
<1>4. r.outcome \in Outcomes
  BY DEF StageReports
<1>5. Append(Ledger, r.outcome) = Ledger'
  <2>1. Append(Ledger, r.outcome) =
          [i \in 1..(Len(reports) + 1) |-> IF i = Len(reports) + 1 THEN r.outcome
                                           ELSE Ledger[i]]
    BY <1>1, <1>2, <1>4
  <2>2. \A i \in 1..(Len(reports) + 1) :
          reports'[i].outcome = IF i = Len(reports) + 1 THEN r.outcome ELSE Ledger[i]
    BY <1>1 DEF Ledger
  <2> QED
    BY <1>3, <2>1, <2>2
<1> QED
  BY <1>1, <1>2, <1>3, <1>5

LEMMA RecordRefines ==
  ASSUME IInv, pc # "done", Len(reports) < Len(wf.plan) - 1,
         NEW r \in StageReports, NEW isCleanup \in BOOLEAN, Record(r, isCleanup)
  PROVE  Contract!Next
<1>1. /\ reports \in Seq(StageReports) /\ reports' = Append(reports, r)
      /\ wf' = wf /\ runReport' = runReport /\ runReport.status = "RUNNING"
      /\ r.outcome \in Outcomes
  BY DEF Record, IInv, TypeOK, NoRunReport, StageReports
<1>2. Ledger' = Append(Ledger, r.outcome) /\ Len(Ledger) = Len(reports)
  BY <1>1, LedgerAppends
<1>3. Contract!RecordStage(r.outcome)
  BY <1>1, <1>2 DEF Contract!RecordStage, Ledger
<1> QED
  BY <1>1, <1>3 DEF Contract!Next, Contract!Outcomes, Outcomes

LEMMA BoundaryRefines ==
  ASSUME IInv, AtBoundary,
         NEW r \in StageReports, NEW isCleanup \in BOOLEAN, Record(r, isCleanup)
  PROVE  Contract!Next
BY RecordRefines DEF AtBoundary

LEMMA WriteReportRefines ==
  ASSUME IInv, NEW written \in BOOLEAN, WriteReport(written)
  PROVE  Contract!Next
<1> DEFINE r == IF written THEN Success ELSE Report("FAILURE", "RUN_REPORT_WRITE_ERROR")
           v == IF written THEN topStatus ELSE "FAILURE"
<1>1. /\ pc = "boundary" /\ Len(reports) = Len(wf.plan) - 1
      /\ reports \in Seq(StageReports) /\ reports' = Append(reports, r)
      /\ wf' = wf /\ wf \in Workflows /\ runReport' = FinalVerdict(written)
      /\ runReport.status = "RUNNING"
      /\ topStatus \in {"SUCCESS", "FAILURE", "CANCELLED"}
      /\ topStatus = "SUCCESS" <=> AllSucceeded
      /\ topStatus = "CANCELLED" => Interrupted
  BY DEF WriteReport, Finished, IInv, TypeOK, NoRunReport
<1>2. /\ r \in StageReports /\ r.outcome \in {"SUCCESS", "FAILURE"}
      /\ r.outcome = "SUCCESS" <=> written
  BY DEF Success, Report, StageReports, Outcomes, Codes
<1>3. v \in {"SUCCESS", "FAILURE", "CANCELLED"} /\ runReport'.status = v
  BY <1>1 DEF FinalVerdict
<1> HIDE DEF r
<1>4. /\ Ledger' = Append(Ledger, r.outcome)
      /\ Len(Ledger) = Len(reports) /\ Len(Ledger') = Len(reports) + 1
      /\ \A i \in 1..Len(Ledger') : Ledger'[i] = reports'[i].outcome
  BY <1>1, <1>2, LedgerAppends
<1>5. /\ Len(reports) \in Nat /\ Len(reports') = Len(reports) + 1
      /\ reports' \in Seq(StageReports)
      /\ reports'[Len(reports) + 1] = r
      /\ AllSucceeded' <=> (AllSucceeded /\ r.outcome = "SUCCESS")
      /\ Interrupted' <=> (Interrupted \/ r.outcome \in {"SKIPPED", "CANCELLED"})
  BY <1>1, <1>2, LedgerGrows
<1>6. Len(wf.plan) \in Nat /\ Len(reports) + 1 = Len(wf.plan)
  BY <1>1, <1>5, WorkflowFacts
<1>7. Contract!Shows(Ledger', Contract!Outcomes \ {"SUCCESS"}) <=> ~AllSucceeded'
  <2>1. \A i \in 1..Len(reports') : reports'[i] \in StageReports
    BY <1>5
  <2>2. \A i \in 1..Len(reports') : reports'[i].outcome \in Outcomes
    BY <2>1 DEF StageReports
  <2> QED
    BY <2>2, <1>4, <1>5 DEF Contract!Shows, Contract!Outcomes, Outcomes, AllSucceeded
<1>8. Interrupted' => Contract!Shows(Ledger', {"SKIPPED", "CANCELLED"})
  BY <1>4, <1>5 DEF Contract!Shows, Interrupted
<1>9. v = "SUCCESS" <=> AllSucceeded'
  BY <1>1, <1>2, <1>5
<1>10. v = "CANCELLED" => written /\ Interrupted'
  BY <1>1, <1>5
<1>11. Ledger'[Len(wf.plan)] = r.outcome
  BY <1>4, <1>5, <1>6
<1>12. Contract!Justified(v, Ledger')
  <2> HIDE DEF v
  <2>1. v = "CANCELLED" => Ledger'[Len(wf.plan)] = "SUCCESS"
    BY <1>2, <1>10, <1>11
  <2> QED
    BY <1>7, <1>8, <1>9, <1>10, <2>1 DEF Contract!Justified
<1>13. Contract!Pronounce(v, r.outcome)
  <2> HIDE DEF v
  <2> QED
    BY <1>1, <1>3, <1>4, <1>12 DEF Contract!Pronounce, Ledger
<1> HIDE DEF v
<1> QED
  BY <1>2, <1>3, <1>13 DEF Contract!Next

LEMMA StepRefines ==
  IInv /\ [Next]_vars =>
    [Contract!Next]_<< Len(wf.plan), Ledger, runReport.status >>
<1> SUFFICES ASSUME IInv, [Next]_vars
             PROVE  \/ Contract!Next
                    \/ UNCHANGED << Len(wf.plan), Ledger, runReport.status >>
  OBVIOUS
<1>1. UNCHANGED << wf, reports, runReport >> =>
        UNCHANGED << Len(wf.plan), Ledger, runReport.status >>
  BY DEF Ledger
<1>2. CASE Cancel \/ Expire \/ Done \/ UNCHANGED vars
  BY <1>1, <1>2 DEF Cancel, Expire, Done, vars
<1>3. ASSUME NEW required \in BOOLEAN, Boundary(required)
      PROVE  Contract!Next \/ UNCHANGED << wf, reports, runReport >>
  <2>1. CASE SkipStopped(required)
    BY <2>1, BoundaryRefines, ReportTypes DEF SkipStopped
  <2>2. CASE ObserveCancel(required)
    BY <2>2, BoundaryRefines, ReportTypes, FailureCleanupIsBoolean
    DEF ObserveCancel, Reached
  <2>3. CASE SkipBlocked(required)
    BY <2>3, BoundaryRefines, ReportTypes, FailureCleanupIsBoolean
    DEF SkipBlocked, InBudget, Reached
  <2>4. CASE Admit(required)
    BY <2>4 DEF Admit
  <2> QED
    BY <1>3, <2>1, <2>2, <2>3, <2>4 DEF Boundary
<1>3a. ASSUME NEW c \in {"WORKFLOW_EXECUTOR_NOT_REGISTERED", "INTERNAL_ERROR"}, FactoryFails(c)
       PROVE  Contract!Next
  <2>1. c \in FailureCodes
    BY DEF FailureCodes
  <2> QED
    BY <1>3a, <2>1, FactoryFacts, RecordRefines
<1>3b. CASE Execute
  BY <1>1, <1>3b DEF Execute
<1>4. CASE ObserveExpiry
  BY <1>4, BoundaryRefines, ReportTypes DEF ObserveExpiry
<1>5. ASSUME NEW r \in ReturnedReports, Return(r)
      PROVE  Contract!Next
  <2>1. /\ pc = "executing" /\ Record(r, cleaning) /\ r \in StageReports
        /\ cleaning \in BOOLEAN /\ Len(reports) < Len(wf.plan) - 1
    BY <1>5, ReportTypes DEF Return, InHand, IInv, TypeOK
  <2> QED
    BY <2>1, RecordRefines
<1>6. ASSUME NEW written \in BOOLEAN, WriteReport(written)
      PROVE  Contract!Next
  BY <1>6, WriteReportRefines
<1> QED
  BY <1>1, <1>2, <1>3, <1>3a, <1>3b, <1>4, <1>5, <1>6 DEF Next, RunnerStep, Call

LEMMA InitRefines == Init => Contract!Init
<1> SUFFICES ASSUME Init
             PROVE  Contract!Init
  OBVIOUS
<1>1. Len(wf.plan) \in Nat \ {0}
  BY WorkflowFacts DEF Init
<1>2. [i \in 1..Len(reports) |-> reports[i].outcome] = << >>
  BY DEF Init
<1> QED
  BY <1>1, <1>2 DEF Init, Contract!Init, NoRunReport

(* The Runner implements its contract: one outcome per stage, in order and  *)
(* for good, and one verdict that the outcomes justify.                     *)
THEOREM Implementation == Spec => ImplementsContract
<1>1. IInv /\ [Next]_vars =>
        [Contract!Next]_<< Len(wf.plan), [i \in 1..Len(reports) |-> reports[i].outcome],
                           runReport.status >>
  BY StepRefines DEF Ledger
<1> QED
  BY <1>1, InitRefines, IInvIsInvariant, PTL DEF Spec, ImplementsContract, Contract!Spec
-----------------------------------------------------------------------------
(* What the verdict blames.  A failed run carries the code of its first     *)
(* fault, but for a deadline that continue_on_failure finds expired later;  *)
(* and in fail-fast mode what fails after the first fault is cleanup.       *)
FirstFault(rs, i) ==
  /\ \A j \in 1..(i - 1) : rs[j].outcome = "SUCCESS"
  /\ rs[i].outcome # "SUCCESS"

Overdue == "WORKFLOW_STAGE_TIMEOUT"

Blames(rs, error) ==
  \E i \in 1..Len(rs) : FirstFault(rs, i) /\ (error = Overdue <=> rs[i].outcome = "TIMEOUT")

BlameInv ==
  /\ ~AllSucceeded => \E i \in 1..Len(reports) : FirstFault(reports, i)
  /\ topStatus = "SUCCESS" <=> topError = "OK"
  /\ topStatus = "CANCELLED" => topError = "WORKFLOW_CANCELLED"
  /\ topStatus = "FAILURE" =>
       (wf.continue /\ topError = Overdue /\ expired) \/ Blames(reports, topError)
  /\ pc = "done" => \E written \in BOOLEAN : runReport = FinalVerdict(written)

(* The first fault stays the first, and in a ledger of successes the next   *)
(* fault is it.                                                             *)
LEMMA FirstFaultStays ==
  ASSUME NEW rs \in Seq(StageReports), NEW r \in StageReports
  PROVE  /\ \A i \in 1..Len(rs) : FirstFault(rs, i) => FirstFault(Append(rs, r), i)
         /\ \A i \in 1..Len(rs) : Append(rs, r)[i] = rs[i] /\ i \in 1..Len(Append(rs, r))
         /\ (\A i \in 1..Len(rs) : rs[i].outcome = "SUCCESS") /\ r.outcome # "SUCCESS" =>
              /\ FirstFault(Append(rs, r), Len(rs) + 1)
              /\ Append(rs, r)[Len(rs) + 1] = r /\ Len(rs) + 1 \in 1..Len(Append(rs, r))
<1> DEFINE longer == Append(rs, r)
           n == Len(rs)
<1>1. /\ n \in Nat /\ Len(longer) = n + 1 /\ longer[n + 1] = r
      /\ \A i \in 1..n : longer[i] = rs[i]
  OBVIOUS
<1> HIDE DEF longer, n
<1>2. \A i \in 1..n : i \in 1..(n + 1) /\ \A j \in 1..(i - 1) : j \in 1..n
  BY <1>1
<1>3. \A i \in 1..n : FirstFault(rs, i) => FirstFault(longer, i)
  BY <1>1, <1>2 DEF FirstFault
<1>4. (n + 1) - 1 = n /\ n + 1 \in 1..(n + 1)
  BY <1>1
<1>5. (\A i \in 1..n : rs[i].outcome = "SUCCESS") /\ r.outcome # "SUCCESS" =>
        FirstFault(longer, n + 1)
  BY <1>1, <1>4 DEF FirstFault
<1> QED
  BY <1>1, <1>2, <1>3, <1>4, <1>5 DEF longer, n

LEMMA BlameGrows ==
  ASSUME IInv, BlameInv, pc # "done", NEW r \in StageReports, reports' = Append(reports, r),
         wf' = wf, expired' = expired,
         pc' = "done" => \E written \in BOOLEAN : runReport' = FinalVerdict(written)',
         \/ topStatus' = topStatus /\ topError' = topError
         \/ topStatus' = "CANCELLED" /\ topError' = "WORKFLOW_CANCELLED"
         \/ /\ topStatus = "SUCCESS" /\ topStatus' = "FAILURE" /\ r.outcome # "SUCCESS"
            /\ topError' # "OK" /\ (topError' = Overdue <=> r.outcome = "TIMEOUT")
         \/ topStatus = "FAILURE" /\ topStatus' = "FAILURE" /\ topError' = topError
         \/ wf.continue /\ topStatus' = "FAILURE" /\ topError' = Overdue /\ expired
  PROVE  BlameInv'
<1>1. /\ reports \in Seq(StageReports) /\ (topStatus = "SUCCESS" => AllSucceeded)
      /\ AllSucceeded' <=> (AllSucceeded /\ r.outcome = "SUCCESS")
  BY LedgerGrows DEF IInv, TypeOK
<1>2. ~AllSucceeded' => \E i \in 1..Len(reports') : FirstFault(reports', i)
  <2>1. CASE AllSucceeded
    BY <1>1, <2>1, FirstFaultStays DEF AllSucceeded
  <2>2. CASE ~AllSucceeded
    BY <1>1, <2>2, FirstFaultStays DEF BlameInv
  <2> QED
    BY <2>1, <2>2
<1>3. Blames(reports, topError) => Blames(reports', topError)
  BY <1>1, FirstFaultStays DEF Blames
<1>4. ASSUME topStatus = "SUCCESS", r.outcome # "SUCCESS",
             topError' = Overdue <=> r.outcome = "TIMEOUT"
      PROVE  Blames(reports', topError')
  BY <1>1, <1>4, FirstFaultStays DEF Blames, AllSucceeded
<1>5. Overdue # "OK"
  BY DEF Overdue
<1>6. topStatus' = "FAILURE" =>
        (wf'.continue /\ topError' = Overdue /\ expired') \/ Blames(reports', topError')
  BY <1>3, <1>4 DEF BlameInv
<1> QED
  BY <1>2, <1>5, <1>6 DEF BlameInv

LEMMA NextBlame == IInv /\ BlameInv /\ [Next]_vars => BlameInv'
<1> SUFFICES ASSUME IInv, BlameInv, [Next]_vars
             PROVE  BlameInv'
  OBVIOUS
<1>1. CASE Cancel \/ Expire \/ Done \/ UNCHANGED vars
  <2>1. /\ UNCHANGED << wf, pc, reports, topStatus, topError, runReport >>
        /\ expired => expired'
    BY <1>1 DEF Cancel, Expire, Done, vars, control, environment
  <2> QED
    BY <2>1 DEF BlameInv, AllSucceeded, FinalVerdict
<1>2. ASSUME NEW required \in BOOLEAN, Boundary(required)
      PROVE  BlameInv'
  <2>1. CASE SkipStopped(required) \/ SkipBlocked(required) \/ ObserveCancel(required)
    <3>1. /\ pc = "boundary" /\ pc' = "boundary" /\ reports' = Append(reports, Skipped)
          /\ wf' = wf /\ expired' = expired
      BY <2>1 DEF SkipStopped, SkipBlocked, ObserveCancel, InBudget, Reached, AtBoundary,
                  Record, environment
    <3>2. \/ topStatus' = topStatus /\ topError' = topError
          \/ topStatus' = "CANCELLED" /\ topError' = "WORKFLOW_CANCELLED"
      BY <2>1 DEF SkipStopped, SkipBlocked, ObserveCancel, control
    <3> QED
      BY <3>1, <3>2, BlameGrows, ReportTypes
  <2>2. CASE Admit(required)
    <3>1. /\ UNCHANGED << wf, reports, topStatus, topError, expired >> /\ pc' # "done"
      BY <2>2 DEF Admit, control, environment
    <3> QED
      BY <3>1 DEF BlameInv, AllSucceeded
  <2> QED
    BY <1>2, <2>1, <2>2 DEF Boundary
<1>2a. ASSUME NEW c \in {"WORKFLOW_EXECUTOR_NOT_REGISTERED", "INTERNAL_ERROR"}, FactoryFails(c)
       PROVE  BlameInv'
  <2>0. c \in FailureCodes
    BY DEF FailureCodes
  <2>1. /\ pc # "done" /\ pc' # "done" /\ reports' = Append(reports, Report("FAILURE", c))
        /\ wf' = wf /\ expired' = expired
        /\ Report("FAILURE", c) \in StageReports /\ Report("FAILURE", c).outcome = "FAILURE"
    BY <1>2a, <2>0, FactoryFacts
  <2>2. CASE cleaning
    <3>1. topStatus' = topStatus /\ topError' = topError
      BY <1>2a, <2>0, <2>2, FactoryFacts DEF control
    <3> QED
      BY <2>1, <3>1, BlameGrows
  <2>3. CASE ~cleaning
    <3>1. topStatus' = "FAILURE" /\ topError' = KeepFirst(c) /\ ~stopped
      BY <1>2a, <2>0, <2>3, FactoryFacts
    <3>2. topStatus \in {"SUCCESS", "FAILURE"}
      BY <3>1 DEF IInv, TypeOK
    <3>3. topStatus = "SUCCESS" => topError' = c
      BY <3>1 DEF KeepFirst, BlameInv
    <3>4. topStatus = "FAILURE" => topError' = topError
      BY <3>1 DEF KeepFirst, BlameInv
    <3>5. c # Overdue /\ c # "OK"
      BY DEF Overdue
    <3> QED
      BY <2>1, <3>1, <3>2, <3>3, <3>4, <3>5, BlameGrows
  <2> QED
    BY <2>2, <2>3
<1>2b. CASE Execute
  <2>1. /\ UNCHANGED << wf, reports, topStatus, topError, expired >> /\ pc' # "done"
    BY <1>2b DEF Execute, control, environment
  <2> QED
    BY <2>1 DEF BlameInv, AllSucceeded
<1>3. CASE ObserveExpiry
  <2>1. /\ pc = "boundary" /\ pc' = "boundary" /\ reports' = Append(reports, TimedOut)
        /\ wf' = wf /\ expired' = expired /\ expired /\ ~stopped
        /\ topStatus' = "FAILURE" /\ topError' = Overdue
    BY <1>3 DEF ObserveExpiry, AtBoundary, Record, environment, Overdue
  <2>2. topStatus = "SUCCESS" \/ wf.continue
    BY <2>1, WorkflowFacts DEF IInv, TypeOK
  <2>3. Overdue # "OK" /\ TimedOut.outcome = "TIMEOUT" /\ TimedOut \in StageReports
    BY Outcome, ReportTypes DEF Overdue
  <2> QED
    BY <2>1, <2>2, <2>3, BlameGrows
<1>4. ASSUME NEW r \in ReturnedReports, Return(r)
      PROVE  BlameInv'
  <2>1. /\ pc = "executing" /\ pc' = "boundary" /\ reports' = Append(reports, r)
        /\ wf' = wf /\ expired' = expired /\ r \in StageReports
    BY <1>4, ReportTypes DEF Return, Record, environment
  <2>2. CASE UNCHANGED control \/ (topStatus' = "CANCELLED" /\ topError' = "WORKFLOW_CANCELLED")
    BY <2>1, <2>2, BlameGrows DEF control
  <2>3. CASE Counts(r) /\ topStatus' = "FAILURE" /\ topError' = KeepFirst(TopCode(r))
    <3>1. topStatus \in {"SUCCESS", "FAILURE"}
      BY <2>1, <2>3 DEF InHand, IInv, TypeOK, Counts
    <3>2. topStatus = "SUCCESS" => topError' = TopCode(r)
      BY <2>3 DEF KeepFirst, BlameInv
    <3>3. topStatus = "FAILURE" => topError' = topError
      BY <2>3 DEF KeepFirst, BlameInv
    <3>4. TopCode(r) # "OK" /\ (TopCode(r) = Overdue <=> r.outcome = "TIMEOUT")
      BY DEF TopCode, Overdue
    <3>5. r.outcome # "SUCCESS"
      BY <2>3 DEF Counts
    <3> QED
      BY <2>1, <2>3, <3>1, <3>2, <3>3, <3>4, <3>5, BlameGrows
  <2> QED
    BY <1>4, <2>2, <2>3 DEF Return
<1>5. ASSUME NEW written \in BOOLEAN, WriteReport(written)
      PROVE  BlameInv'
  <2> DEFINE r == IF written THEN Success ELSE Report("FAILURE", "RUN_REPORT_WRITE_ERROR")
  <2>1. /\ pc = "boundary" /\ pc' = "done" /\ reports' = Append(reports, r)
        /\ UNCHANGED << wf, topStatus, topError, expired >> /\ runReport' = FinalVerdict(written)
    BY <1>5 DEF WriteReport, control, environment
  <2>2. r \in StageReports
    BY DEF Success, Report, StageReports, Outcomes, Codes
  <2>3. \E w \in BOOLEAN : runReport' = FinalVerdict(w)'
    BY <2>1 DEF FinalVerdict
  <2> HIDE DEF r
  <2> QED
    BY <2>1, <2>2, <2>3, BlameGrows
<1> QED
  BY <1>1, <1>2, <1>2a, <1>2b, <1>3, <1>4, <1>5 DEF Next, RunnerStep, Call

LEMMA BlameIsInvariant == Spec => []BlameInv
<1>1. Init => BlameInv
  BY DEF Init, BlameInv, AllSucceeded
<1> QED
  BY <1>1, NextBlame, IInvIsInvariant, PTL DEF Spec

(* After the first fault of a fail-fast run only cleanup can fail, and the  *)
(* write of the report.                                                     *)
Failing == {"FAILURE", "TIMEOUT", "CANCELLED"}

LateInv ==
  ~wf.continue =>
    \A i, j \in 1..Len(reports) :
      /\ i < j /\ reports[i].outcome # "SUCCESS"
      /\ j < Len(wf.plan) /\ reports[j].outcome \in Failing
      => wf.plan[j] \in wf.cleanup

LEMMA LateGrows ==
  ASSUME IInv, LateInv, NEW r \in StageReports, reports' = Append(reports, r),
         wf' = wf,
         ~wf.continue /\ ~AllSucceeded /\ r.outcome \in Failing =>
           Stage \in wf.cleanup \/ Len(reports) = Len(wf.plan) - 1
  PROVE  LateInv'
<1> DEFINE n == Len(reports)
<1>1. /\ wf \in Workflows /\ Len(wf.plan) \in Nat
      /\ n \in Nat /\ Len(reports') = n + 1 /\ reports'[n + 1] = r
      /\ \A i \in 1..n : reports'[i] = reports[i]
  BY LedgerGrows, WorkflowFacts DEF IInv, TypeOK
<1>2. SUFFICES ASSUME ~wf.continue, NEW i \in 1..(n + 1), NEW j \in 1..(n + 1), i < j,
                      reports'[i].outcome # "SUCCESS", j < Len(wf.plan),
                      reports'[j].outcome \in Failing
               PROVE  wf.plan[j] \in wf.cleanup
  BY <1>1 DEF LateInv
<1>3. i \in 1..n
  BY <1>1, <1>2
<1>4. CASE j \in 1..n
  BY <1>1, <1>2, <1>3, <1>4 DEF LateInv
<1>5. CASE j = n + 1
  <2>1. ~AllSucceeded
    BY <1>1, <1>2, <1>3 DEF AllSucceeded
  <2>2. n # Len(wf.plan) - 1
    BY <1>1, <1>2, <1>5
  <2> QED
    BY <1>1, <1>2, <1>5, <2>1, <2>2 DEF Stage
<1> QED
  BY <1>1, <1>2, <1>4, <1>5

LEMMA NextLate == IInv /\ LateInv /\ [Next]_vars => LateInv'
<1> SUFFICES ASSUME IInv, LateInv, [Next]_vars
             PROVE  LateInv'
  OBVIOUS
<1>1. CASE Cancel \/ Expire \/ Done \/ UNCHANGED vars
  <2>1. UNCHANGED << wf, reports >>
    BY <1>1 DEF Cancel, Expire, Done, vars, control, environment
  <2> QED
    BY <2>1 DEF LateInv
<1>2. ASSUME NEW required \in BOOLEAN, Boundary(required)
      PROVE  LateInv'
  <2>1. CASE SkipStopped(required) \/ SkipBlocked(required) \/ ObserveCancel(required)
    <3>1. /\ pc' = "boundary" /\ reports' = Append(reports, Skipped) /\ wf' = wf
          /\ Skipped.outcome \notin Failing
      BY <2>1, Outcome DEF SkipStopped, SkipBlocked, ObserveCancel, Record, Failing
    <3> QED
      BY <3>1, LateGrows, ReportTypes
  <2>2. CASE Admit(required)
    BY <2>2 DEF Admit, LateInv
  <2> QED
    BY <1>2, <2>1, <2>2 DEF Boundary
<1>2a. ASSUME NEW c \in {"WORKFLOW_EXECUTOR_NOT_REGISTERED", "INTERNAL_ERROR"}, FactoryFails(c)
       PROVE  LateInv'
  <2>0. c \in FailureCodes
    BY DEF FailureCodes
  <2>1. /\ pc = "admitted" /\ reports' = Append(reports, Report("FAILURE", c)) /\ wf' = wf
        /\ Report("FAILURE", c) \in StageReports /\ cleaning = stopped
    BY <1>2a, <2>0, FactoryFacts
  <2>2. ~wf.continue /\ ~AllSucceeded => Stage \in wf.cleanup
    BY <2>1 DEF IInv, InHand
  <2> QED
    BY <2>1, <2>2, LateGrows
<1>2b. CASE Execute
  BY <1>2b DEF Execute, LateInv
<1>3. CASE ObserveExpiry
  <2>1. /\ pc = "boundary" /\ pc' = "boundary" /\ reports' = Append(reports, TimedOut)
        /\ wf' = wf /\ ~stopped
    BY <1>3 DEF ObserveExpiry, AtBoundary, Record
  <2>2. ~wf.continue => AllSucceeded
    BY <2>1 DEF IInv
  <2> QED
    BY <2>1, <2>2, LateGrows, ReportTypes
<1>4. ASSUME NEW r \in ReturnedReports, Return(r)
      PROVE  LateInv'
  <2>1. /\ pc = "executing" /\ pc' = "boundary" /\ reports' = Append(reports, r)
        /\ wf' = wf /\ r \in StageReports /\ cleaning = stopped
    BY <1>4, ReportTypes DEF Return, Record, IInv, InHand
  <2>2. ~wf.continue /\ ~AllSucceeded => Stage \in wf.cleanup
    BY <2>1 DEF IInv, InHand
  <2> QED
    BY <2>1, <2>2, LateGrows
<1>5. ASSUME NEW written \in BOOLEAN, WriteReport(written)
      PROVE  LateInv'
  <2> DEFINE r == IF written THEN Success ELSE Report("FAILURE", "RUN_REPORT_WRITE_ERROR")
  <2>1. /\ pc' = "done" /\ reports' = Append(reports, r) /\ wf' = wf
        /\ Len(reports) = Len(wf.plan) - 1
    BY <1>5 DEF WriteReport, Finished
  <2>2. r \in StageReports
    BY DEF Success, Report, StageReports, Outcomes, Codes
  <2> HIDE DEF r
  <2> QED
    BY <2>1, <2>2, LateGrows
<1> QED
  BY <1>1, <1>2, <1>2a, <1>2b, <1>3, <1>4, <1>5 DEF Next, RunnerStep, Call

LEMMA LateIsInvariant == Spec => []LateInv
<1>1. Init => LateInv
  <2>1. ASSUME Init PROVE LateInv
    <3>1. pc = "boundary" /\ Len(reports) = 0
      BY <2>1 DEF Init
    <3> QED
      BY <3>1 DEF LateInv
  <2> QED
    BY <2>1
<1> QED
  BY <1>1, NextLate, IInvIsInvariant, PTL DEF Spec
-----------------------------------------------------------------------------
(***************************************************************************)
(* II. The commands around the Runner start it once, with the rights that  *)
(* the plan asks for, and leave it alone: what is proved of the Runner for *)
(* arbitrary executors holds of every run that a command starts.           *)
(***************************************************************************)
Places == {"absent", "preflight", "coordinate", "waiting", "runner", "pause", "exited"}

EntryTypes ==
  /\ at \in [Processes -> Places] /\ exitCode \in [Processes -> Nat]
  /\ elevated \in [Processes -> BOOLEAN] /\ command \in {"run", "start"}
  /\ admin \in BOOLEAN /\ cancelled \in BOOLEAN

(* The two processes take turns: the child is only there behind a first    *)
(* process that waits, or has waited, for it, and so only one of them ever *)
(* constructs a Runner.                                                    *)
Turns ==
  /\ ran \in {<< >>, << "first" >>, << "child" >>}
  /\ at["child"] # "absent" => at["first"] \in {"waiting", "pause", "exited"}
  /\ at["child"] \in {"absent", "preflight", "coordinate"} => ran # << "child" >>
  /\ at["first"] \in {"preflight", "coordinate", "waiting"} => ran # << "first" >>
  /\ at["child"] # "absent" => ran # << "first" >>
  /\ \A p \in Processes : at[p] = "runner" => ran = << p >>
  /\ at["child"] \notin {"waiting", "pause"}

Rights == \A p \in Processes : ran = << p >> => (admin => elevated[p])

(* A first process goes on without its child only when the wait failed.    *)
Waited ==
  /\ at["first"] \in {"pause", "exited"} => at["child"] \in {"absent", "exited"} \/ lost
  /\ at["first"] = "waiting" \/ lost => at["child"] # "absent"

(* Before a Runner is constructed nothing of it has happened.              *)
Untouched == ran = << >> => ~cancelled /\ begun = 0 /\ pc = "boundary" /\ reports = << >>

EInv == EntryTypes /\ Turns /\ Rights /\ Waited /\ Untouched

LEMMA InitEInv == EntryInit => EInv
BY DEF EntryInit, Init, EInv, EntryTypes, Turns, Rights, Waited, Untouched, Places,
       Processes, NoCode

LEMMA StepEInv ==
  ASSUME EInv, NEW p \in Processes, EntryStep(p)
  PROVE  EInv'
<1> USE DEF EInv, Processes, Places, Go, Leave, Static, Marker, Command
<1>1. CASE Preflight(p)
  BY <1>1 DEF Preflight, vars, control, environment, EntryTypes, Turns, Rights, Waited, Untouched
<1>2. CASE StartRunner(p)
  <2>1. ran = << >>
    BY <1>2 DEF StartRunner, Turns
  <2>4. Append(<< >>, p) = << p >>
    OBVIOUS
  <2>2. CASE Go(p, "runner") /\ ran' = Append(ran, p) /\ cancelled' = (p \in interrupts)
    <3>1. EntryTypes'
      BY <1>2, <2>2 DEF StartRunner, EntryTypes
    <3>2. Turns' /\ Rights' /\ Untouched'
      BY <1>2, <2>1, <2>2, <2>4 DEF StartRunner, RightsNeeded, EntryTypes, Turns, Rights, Untouched
    <3>3. Waited'
      BY <1>2, <2>2 DEF StartRunner, EntryTypes, Turns, Waited
    <3> QED
      BY <3>1, <3>2, <3>3
  <2>3. CASE Leave(p, 8) /\ UNCHANGED << ran, cancelled >>
    BY <1>2, <2>3 DEF StartRunner, EntryTypes, Turns, Rights, Waited, Untouched
  <2> QED
    BY <1>2, <2>2, <2>3 DEF StartRunner
<1>3. CASE Relaunch(p)
  BY <1>3 DEF Relaunch, RightsNeeded, vars, control, environment, EntryTypes, Turns, Rights, Waited, Untouched
<1>4. CASE Wait(p)
  BY <1>4 DEF Wait, OfLost, vars, control, environment, EntryTypes, Turns, Rights, Waited, Untouched
<1>5. CASE Finish(p)
  BY <1>5 DEF Finish, MapRunExitCode, vars, control, environment, EntryTypes, Turns, Rights, Waited, Untouched
<1>6. CASE Close(p)
  BY <1>6 DEF Close, vars, control, environment, EntryTypes, Turns, Rights, Waited, Untouched
<1>7. CASE Interrupt(p)
  <2>1. EntryTypes' /\ Turns' /\ Rights' /\ Waited'
    BY <1>7 DEF Interrupt, CancelToken, EntryTypes, Turns, Rights, Waited
  <2>2. Untouched'
    <3>1. ran = << >> => at[p] # "runner"
      BY DEF Turns
    <3> QED
      BY <1>7, <3>1 DEF Interrupt, Untouched
  <2> QED
    BY <2>1, <2>2
<1>8. CASE Abort(p)
  BY <1>8 DEF Abort, Aborted, vars, control, environment, EntryTypes, Turns, Rights, Waited, Untouched
<1> QED
  BY <1>1, <1>2, <1>3, <1>4, <1>5, <1>6, <1>7, <1>8 DEF EntryStep

LEMMA NextEInv == EInv /\ [EntryNext]_runVars => EInv'
<1> SUFFICES ASSUME EInv, [EntryNext]_runVars
             PROVE  EInv'
  OBVIOUS
<1>1. CASE \E p \in Processes : EntryStep(p)
  BY <1>1, StepEInv
<1>2. CASE RunnerRuns
  <2>1. ran # << >>
    BY <1>2 DEF RunnerRuns, Running, EInv, Turns
  <2>2. cancelled' = cancelled
    BY <1>2 DEF RunnerRuns, RunnerStep, Boundary, Call, Expire, SkipStopped, ObserveCancel,
       SkipBlocked, Admit, FactoryFails, Execute, ObserveExpiry, Return, WriteReport, Record, environment
  <2> QED
    BY <1>2, <2>1, <2>2 DEF RunnerRuns, entryVars, EInv, EntryTypes, Turns, Rights, Waited,
       Untouched
<1>3. CASE Over \/ UNCHANGED runVars
  BY <1>3 DEF Over, runVars, vars, environment, entryVars, EInv, EntryTypes, Turns, Rights,
     Waited, Untouched
<1> QED
  BY <1>1, <1>2, <1>3 DEF EntryNext

(* The inductive invariant: of the first process and its elevated child at  *)
(* most one is before or in its Runner, and it has the rights it needs.     *)
THEOREM EInvIsInvariant == EntrySpec => []EInv
BY InitEInv, NextEInv, PTL DEF EntrySpec

(* Whatever is refused, fails, is interrupted or waited for: at most one    *)
(* process runs the workflow, with the rights the plan asks for.            *)
THEOREM OneRun == EntrySpec => []OneWorkflow
<1>1. EInv => OneWorkflow
  <2> SUFFICES ASSUME EInv
               PROVE  OneWorkflow
    OBVIOUS
  <2>1. /\ Len(ran) <= 1
        /\ \A i \in 1..Len(ran) : ran[i] \in Processes /\ ran = << ran[i] >>
    <3>1. CASE ran = << >>
      BY <3>1
    <3>2. ASSUME NEW p \in Processes, ran = << p >>
          PROVE  /\ Len(ran) <= 1
                 /\ \A i \in 1..Len(ran) : ran[i] \in Processes /\ ran = << ran[i] >>
      BY <3>2
    <3>3. ran = << >> \/ \E p \in Processes : ran = << p >>
      BY DEF EInv, Turns, Processes
    <3> QED
      BY <3>1, <3>2, <3>3
  <2>2. \A i \in 1..Len(ran) : admin => elevated[ran[i]]
    BY <2>1 DEF EInv, Rights
  <2>3. at["first"] = "exited" /\ Running => lost
    BY DEF EInv, Turns, Waited, Running, Processes
  <2> QED
    BY <2>1, <2>2, <2>3 DEF OneWorkflow
<1> QED
  BY <1>1, EInvIsInvariant, PTL
-----------------------------------------------------------------------------
(* The Runner that a command has started is the Runner: constructing it    *)
(* behind a pending Ctrl+C, and a Ctrl+C while it runs, cancel its token.  *)
LEMMA EntryStepIsRunner == EInv /\ [EntryNext]_runVars => [Next]_vars
<1> SUFFICES ASSUME EInv, [EntryNext]_runVars
             PROVE  Next \/ UNCHANGED vars
  OBVIOUS
<1>1. ASSUME NEW p \in Processes, StartRunner(p)
      PROVE  Cancel \/ UNCHANGED vars
  <2>1. ran = << >>
    BY <1>1 DEF StartRunner, EInv, Turns, Processes
  <2>2. ~cancelled /\ begun = 0 /\ pc = "boundary" /\ Len(reports) = 0
    BY <2>1 DEF EInv, Untouched
  <2>3. CASE cancelled' = (p \in interrupts)
    <3>1. cancelled' \in BOOLEAN
      BY <2>3
    <3> QED
      BY <1>1, <2>2, <3>1 DEF StartRunner, Cancel, CancelToken, InHand, EInv, EntryTypes, vars,
         control, environment
  <2>4. CASE UNCHANGED cancelled
    BY <1>1, <2>4 DEF StartRunner, vars, control, environment
  <2> QED
    BY <1>1, <2>3, <2>4 DEF StartRunner
<1>2. ASSUME NEW p \in Processes, Interrupt(p)
      PROVE  Cancel \/ UNCHANGED vars
  BY <1>2 DEF Interrupt, Cancel, CancelToken, EInv, EntryTypes, vars, control, environment
<1>3. ASSUME NEW p \in Processes,
             Preflight(p) \/ Relaunch(p) \/ Wait(p) \/ Finish(p) \/ Close(p) \/ Abort(p)
      PROVE  UNCHANGED vars
  BY <1>3 DEF Preflight, Relaunch, Wait, Finish, Close, Abort
<1>4. CASE \E p \in Processes : EntryStep(p)
  BY <1>1, <1>2, <1>3, <1>4 DEF EntryStep, Next
<1>5. CASE RunnerRuns
  BY <1>5 DEF RunnerRuns, Next
<1>6. CASE Over \/ UNCHANGED runVars
  BY <1>6 DEF Over, runVars
<1> QED
  BY <1>4, <1>5, <1>6 DEF EntryNext

(* A run that a command starts is a run of the Runner. *)
THEOREM EntryIsRunner == EntrySpec => Spec
<1>1. EntryInit => Init
  BY DEF EntryInit
<1> QED
  BY <1>1, EntryStepIsRunner, EInvIsInvariant, PTL DEF EntrySpec, Spec

(* What that gives: under run and start, elevated or not, the Runner keeps  *)
(* its contract and its verdict, and honours a Ctrl+C.                      *)
THEOREM EntryKeepsContract ==
  EntrySpec => /\ ImplementsContract
               /\ []VerdictIsHonest
               /\ []CancelIsHonoured
BY EntryIsRunner, Implementation, HonestVerdict, CancelHonoured
-----------------------------------------------------------------------------
(* The exit code.  A verdict names SUCCESS and the code OK together, and a *)
(* Runner that has not finished has reported nothing.                      *)
CodesAgree ==
  /\ pc # "done" => (topStatus = "SUCCESS" <=> topError = "OK") /\ runReport = NoRunReport
  /\ pc = "done" => (runReport.status = "SUCCESS" => runReport.error = "OK")

LEMMA NextCodesAgree == CodesAgree /\ [Next]_vars => CodesAgree'
<1> SUFFICES ASSUME CodesAgree, [Next]_vars
             PROVE  CodesAgree'
  OBVIOUS
<1>1. CASE Cancel \/ Expire
  BY <1>1 DEF Cancel, Expire, control, CodesAgree
<1>2. ASSUME NEW required \in BOOLEAN, Boundary(required)
      PROVE  CodesAgree'
  <2>1. CASE SkipStopped(required) \/ SkipBlocked(required) \/ Admit(required)
    BY <2>1 DEF SkipStopped, SkipBlocked, Admit, InBudget, Reached, AtBoundary, Record,
       control, CodesAgree
  <2>2. CASE ObserveCancel(required)
    BY <2>2 DEF ObserveCancel, Reached, AtBoundary, Record, CodesAgree
  <2> QED
    BY <1>2, <2>1, <2>2 DEF Boundary
<1>2a. CASE Call
  BY <1>2a DEF Call, FactoryFails, Execute, Record, KeepFirst, control, CodesAgree
<1>3. CASE ObserveExpiry
  BY <1>3 DEF ObserveExpiry, AtBoundary, Record, CodesAgree
<1>4. ASSUME NEW r \in ReturnedReports, Return(r)
      PROVE  CodesAgree'
  <2>1. TopCode(r) # "OK"
    BY DEF TopCode
  <2> QED
    BY <1>4, <2>1 DEF Return, Record, KeepFirst, control, CodesAgree
<1>5. ASSUME NEW written \in BOOLEAN, WriteReport(written)
      PROVE  CodesAgree'
  BY <1>5 DEF WriteReport, FinalVerdict, CodesAgree
<1>6. CASE Done \/ UNCHANGED vars
  BY <1>6 DEF Done, vars, control, CodesAgree
<1> QED
  BY <1>1, <1>2, <1>2a, <1>3, <1>4, <1>5, <1>6 DEF Next, RunnerStep

LEMMA CodesAlwaysAgree == Spec => []CodesAgree
<1>1. Init => CodesAgree
  BY DEF Init, CodesAgree
<1> QED
  BY <1>1, NextCodesAgree, PTL DEF Spec

(* Where the code of a command that has ended comes from.                  *)
Ended(p) == at[p] \in {"pause", "exited"}

Mapped(p) == pc = "done" /\ exitCode[p] = MapRunExitCode(runReport)

Sources ==
  /\ lost => Ended("first")
  /\ at["child"] = "exited" =>
       IF ran = << "child" >> THEN Mapped("child") ELSE exitCode["child"] \in {2, 8, 10}
  /\ Ended("first") /\ exitCode["first"] # Aborted =>
       /\ lost => exitCode["first"] = 10
       /\ ~lost /\ at["child"] # "absent" => exitCode["first"] = exitCode["child"]
       /\ ~lost /\ at["child"] = "absent" =>
            IF ran = << "first" >> THEN Mapped("first")
            ELSE exitCode["first"] \in {2, 3, 8, 9, 10} /\ ran = << >>

LEMMA StepSources ==
  ASSUME EInv, EInv', Sources, NEW p \in Processes, EntryStep(p)
  PROVE  Sources'
<1> USE DEF EInv, Processes, Go, Leave, Static, Marker, Command, Ended, Mapped, Sources
<1>1. CASE Preflight(p)
  BY <1>1 DEF Preflight, vars, EntryTypes, Turns, Waited, Places
<1>2. CASE StartRunner(p)
  <2>1. ran = << >>
    BY <1>2 DEF StartRunner, Turns
  <2>2. CASE Go(p, "runner") /\ ran' = Append(ran, p)
    BY <1>2, <2>1, <2>2 DEF StartRunner, EntryTypes, Turns, Waited, Places
  <2>3. CASE Leave(p, 8) /\ UNCHANGED ran
    BY <1>2, <2>1, <2>3 DEF StartRunner, EntryTypes, Turns, Waited, Places
  <2> QED
    BY <1>2, <2>2, <2>3 DEF StartRunner
<1>3. CASE Relaunch(p)
  BY <1>3 DEF Relaunch, vars, EntryTypes, Turns, Waited, Places
<1>4. CASE Wait(p)
  BY <1>4 DEF Wait, OfLost, vars, EntryTypes, Turns, Waited, Places
<1>5. CASE Finish(p)
  BY <1>5 DEF Finish, vars, EntryTypes, Turns, Waited, Places
<1>6. CASE Close(p)
  BY <1>6 DEF Close, vars, EntryTypes, Turns, Waited, Places
<1>7. CASE Interrupt(p)
  BY <1>7 DEF Interrupt
<1>8. CASE Abort(p)
  BY <1>8 DEF Abort, Aborted, vars, EntryTypes, Turns, Waited, Places
<1> QED
  BY <1>1, <1>2, <1>3, <1>4, <1>5, <1>6, <1>7, <1>8 DEF EntryStep

LEMMA NextSources == EInv /\ EInv' /\ Sources /\ [EntryNext]_runVars => Sources'
<1> SUFFICES ASSUME EInv, EInv', Sources, [EntryNext]_runVars
             PROVE  Sources'
  OBVIOUS
<1>1. CASE \E p \in Processes : EntryStep(p)
  BY <1>1, StepSources
<1>2. CASE RunnerRuns
  <2>1. PICK p \in Processes : at[p] = "runner" /\ ran = << p >>
    BY <1>2 DEF RunnerRuns, Running, EInv, Turns
  <2>2. UNCHANGED << at, exitCode, ran, lost >>
    BY <1>2 DEF RunnerRuns, entryVars
  <2> QED
    BY <2>1, <2>2 DEF Processes, EInv, Turns, Ended, Mapped, Sources
<1>3. CASE Over \/ UNCHANGED runVars
  BY <1>3 DEF Over, runVars, vars, entryVars, Ended, Mapped, Sources
<1> QED
  BY <1>1, <1>2, <1>3 DEF EntryNext

LEMMA SourcesAreHonest == EInv /\ Sources /\ CodesAgree => ExitCodeIsHonest
<1> SUFFICES ASSUME EInv, Sources, CodesAgree,
                    at["first"] = "exited", exitCode["first"] # Aborted
             PROVE  /\ exitCode["first"] = 0 => runReport.status = "SUCCESS"
                    /\ runReport.status = "SUCCESS" => exitCode["first"] = 0 \/ lost
                    /\ exitCode["first"] = 5 => runReport.status = "CANCELLED"
                    /\ exitCode["first"] \in {2, 9, 10} => ran = << >> \/ lost
                    /\ at["child"] = "exited" => exitCode["first"] = exitCode["child"] \/ lost
  BY DEF ExitCodeIsHonest
<1>1. CASE lost
  BY <1>1 DEF Sources, Ended
<1>2. runReport.status = "SUCCESS" => ran # << >>
  BY DEF EInv, Untouched, CodesAgree, NoRunReport
<1>3. /\ MapRunExitCode(runReport) \in {0, 3, 4, 5, 7, 8}
      /\ MapRunExitCode(runReport) = 0 => runReport.status = "SUCCESS"
      /\ MapRunExitCode(runReport) = 5 => runReport.status = "CANCELLED"
      /\ pc = "done" /\ runReport.status = "SUCCESS" => MapRunExitCode(runReport) = 0
  BY DEF MapRunExitCode, CodesAgree
<1>4. CASE ~lost /\ at["child"] = "absent"
  BY <1>2, <1>3, <1>4 DEF Sources, Ended, Mapped
<1>5. CASE ~lost /\ at["child"] # "absent"
  <2>1. at["child"] = "exited" /\ exitCode["first"] = exitCode["child"]
    BY <1>5 DEF EInv, Waited, Sources, Ended
  <2>2. ran = << "child" >> \/ ran = << >>
    BY <1>5 DEF EInv, Turns
  <2> QED
    BY <1>2, <1>3, <2>1, <2>2 DEF Sources, Mapped
<1> QED
  BY <1>1, <1>4, <1>5

(* The code of the command says what became of the workflow, through the    *)
(* elevated child or without it.                                            *)
THEOREM HonestExitCode == EntrySpec => []ExitCodeIsHonest
<1>1. EntryInit => Sources
  BY DEF EntryInit, Sources, Ended, Processes
<1> QED
  BY <1>1, NextSources, SourcesAreHonest, EInvIsInvariant, EntryIsRunner, CodesAlwaysAgree,
     PTL DEF EntrySpec
-----------------------------------------------------------------------------
(* map_run_exit_code tells a timeout from a failure by the code of the      *)
(* RunReport, and that blames the first fault.                              *)
LEMMA MappedCause ==
  ASSUME IInv, BlameInv, pc = "done", MapRunExitCode(runReport) \in {3, 4}
  PROVE  \/ wf.continue /\ MapRunExitCode(runReport) = 4 /\ expired
         \/ \E i \in 1..Len(reports) :
              /\ FirstFault(reports, i)
              /\ MapRunExitCode(runReport) = 4 <=> reports[i].outcome = "TIMEOUT"
<1>1. PICK written \in BOOLEAN : runReport = FinalVerdict(written)
  BY DEF BlameInv
<1>2. runReport.status = topStatus /\ runReport.error = topError
  BY <1>1 DEF FinalVerdict, MapRunExitCode
<1>3. topStatus = "FAILURE"
  <2>1. topStatus # "SUCCESS"
    BY <1>2 DEF BlameInv, MapRunExitCode
  <2>2. topStatus # "CANCELLED"
    BY <1>2 DEF BlameInv, MapRunExitCode
  <2> QED
    BY <2>1, <2>2 DEF IInv, TypeOK
<1>4. MapRunExitCode(runReport) = 4 <=> topError = Overdue
  BY <1>2, <1>3 DEF MapRunExitCode, Overdue
<1> QED
  BY <1>3, <1>4 DEF BlameInv, Blames

(* Whether a failed workflow ends with the code of a timeout or with that   *)
(* of a failure is decided by its first fault: neither cleanup nor a later  *)
(* stage changes it, but a deadline found expired under continue_on_failure.*)
THEOREM ExitCodeCause == EntrySpec => []ExitCodeNamesTheCause
<1>1. EInv /\ Sources /\ IInv /\ BlameInv => ExitCodeNamesTheCause
  <2> SUFFICES ASSUME EInv, Sources, IInv, BlameInv, NEW p \in Processes,
                      at[p] = "exited", exitCode[p] \in {3, 4}, pc = "done", ran = << p >>
               PROVE  \/ wf.continue /\ exitCode[p] = 4 /\ expired
                      \/ \E i \in 1..Len(reports) :
                           /\ \A j \in 1..(i - 1) : reports[j].outcome = "SUCCESS"
                           /\ reports[i].outcome # "SUCCESS"
                           /\ exitCode[p] = 4 <=> reports[i].outcome = "TIMEOUT"
    BY DEF ExitCodeNamesTheCause
  <2>1. Mapped(p)
    <3>1. CASE p = "child"
      BY <3>1 DEF Sources
    <3>2. CASE p = "first"
      <4>1. at["child"] = "absent" /\ << "first" >> # << >>
        BY <3>2 DEF EInv, Turns
      <4>2. ~lost
        BY <4>1 DEF EInv, Waited
      <4>3. Ended("first") /\ exitCode["first"] # Aborted
        BY <3>2 DEF Ended, Aborted
      <4> QED
        BY <3>2, <4>1, <4>2, <4>3 DEF Sources
    <3> QED
      BY <3>1, <3>2 DEF Processes
  <2> QED
    BY <2>1, MappedCause DEF Mapped, FirstFault
<1>2. EntryInit => Sources
  BY DEF EntryInit, Sources, Ended, Processes
<1> QED
  BY <1>1, <1>2, NextSources, EInvIsInvariant, EntryIsRunner, IInvIsInvariant, BlameIsInvariant,
     PTL DEF EntrySpec
-----------------------------------------------------------------------------
(***************************************************************************)
(* III. The production composition is a Runner: each step is a step of     *)
(* WorkflowRunner or leaves the Runner alone.  What is proved of the       *)
(* Runner for arbitrary executors therefore holds of the production run.   *)
(* Then what the executors themselves promise, for every plan in the order *)
(* of the built ones: exclusion (AliveInv), the shutdown of what was taken *)
(* over (ShutInv), and nothing left behind by a success (TidyInv).         *)
(***************************************************************************)
LEMMA ReturnIsRunnerStep ==
  ASSUME NEW r \in {Success, Failed, TimedOut, Cancelled}, Return(r)
  PROVE  Next
BY DEF Next, RunnerStep, ReturnedReports, Failed, Cancelled

LEMMA StageReturnIsRunnerStep == ReturnStage => Next
<1> SUFFICES ASSUME ReturnStage
             PROVE  Next
  OBVIOUS
<1>1. CASE ReturnGated \/ ReturnUnbound
  BY <1>1, ReturnIsRunnerStep DEF ReturnGated, ReturnUnbound
<1>2. CASE ReturnPostcondition
  <2>1. \E r \in {Success, Failed} : Return(r)
    BY <1>2 DEF ReturnPostcondition
  <2> QED
    BY <2>1, ReturnIsRunnerStep
<1>3. ASSUME NEW r \in {Success, Failed, TimedOut, Cancelled},
             \/ ReturnPlain(r) \/ ReturnStop(r) \/ ReturnStatus(r)
             \/ ReturnPrepare(r) \/ ReturnStopFgo(r)
             \/ \E changed \in BOOLEAN : ReturnStart(r, changed)
             \/ \E cleaned \in BOOLEAN : ReturnScript(r, cleaned)
      PROVE  Next
  <2>1. Return(r)
    BY <1>3 DEF ReturnPlain, ReturnStop, ReturnStatus, ReturnPrepare, ReturnStopFgo,
                ReturnStart, ReturnScript
  <2> QED
    BY <2>1, ReturnIsRunnerStep
<1> QED
  BY <1>1, <1>2, <1>3 DEF ReturnStage

LEMMA ProductionStep == [ProductionNext]_prodVars => [Next]_vars
<1> SUFFICES ASSUME [ProductionNext]_prodVars
             PROVE  Next \/ UNCHANGED vars
  OBVIOUS
<1>1. CleanupRequired(Stage) \in BOOLEAN
  BY DEF CleanupRequired
<1>2. CASE ExecuteStage
  BY <1>2 DEF ExecuteStage, Next, RunnerStep, Call
<1>3. CASE ReturnStage
  BY <1>3, StageReturnIsRunnerStep
<1>4. CASE RunnerOnly
  <2>1. CASE Cancel \/ Expire \/ ObserveExpiry \/ Done
    BY <2>1 DEF Next, RunnerStep
  <2>2. CASE \E written \in BOOLEAN : WriteReport(written)
    BY <2>2 DEF Next, RunnerStep
  <2>3. CASE \/ SkipStopped(CleanupRequired(Stage))
             \/ ObserveCancel(CleanupRequired(Stage))
             \/ SkipBlocked(CleanupRequired(Stage))
             \/ Admit(CleanupRequired(Stage))
    BY <1>1, <2>3 DEF Next, RunnerStep, Boundary
  <2> QED
    BY <1>4, <2>1, <2>2, <2>3 DEF RunnerOnly
<1>5. CASE UNCHANGED prodVars
  BY <1>5 DEF prodVars
<1> QED
  BY <1>2, <1>3, <1>4, <1>5 DEF ProductionNext

(* The production run is a run of the Runner. *)
THEOREM ProductionIsRunner == ProductionSpec => Spec
<1>1. ProductionInit => Init
  BY DEF ProductionInit
<1> QED
  BY <1>1, ProductionStep, PTL DEF ProductionSpec, Spec

(* What that gives: the production run keeps the Runner's contract, reports *)
(* SUCCESS only for a plan of successes and honours a cancellation.         *)
THEOREM ProductionKeepsContract ==
  ProductionSpec => /\ ImplementsContract
                    /\ []VerdictIsHonest
                    /\ []CancelIsHonoured
BY ProductionIsRunner, Implementation, HonestVerdict, CancelHonoured
-----------------------------------------------------------------------------
(* Where the run is in its plan. *)
Past(stage)     == \E i \in 1..Len(reports) : wf.plan[i] = stage
At(stage)       == pc = "executing" /\ Stage = stage
Launched(stage) == At(stage) /\ ~Gated(Stage)

StateOK == state \in [starrailReached : BOOLEAN, starrailCleaned : BOOLEAN,
                      mumuOwned : BOOLEAN, maaReached : BOOLEAN, maaCleaned : BOOLEAN,
                      contract : BOOLEAN, fgoReached : BOOLEAN]

(* The Runner's part of a step: one more report, or none.                  *)
LEMMA Advance ==
  ASSUME TypeOK, wf' = wf, NEW r \in StageReports, reports' = Append(reports, r)
  PROVE  /\ Len(reports) \in Nat /\ Len(reports') = Len(reports) + 1
         /\ \A s : Past(s)' <=> Past(s) \/ Stage = s
<1>1. /\ Len(reports) \in Nat /\ Len(reports') = Len(reports) + 1
  BY LedgerGrows DEF TypeOK
<1> QED
  BY <1>1 DEF Past, Stage

(* A stage occurs once: what is at the current place is not behind it.     *)
LEMMA NotPast ==
  ASSUME TypeOK, Len(reports) < Len(wf.plan)
  PROVE  ~Past(Stage)
<1>1. Len(reports) \in Nat /\ Len(wf.plan) \in Nat
  BY WorkflowFacts DEF TypeOK
<1>2. SUFFICES ASSUME NEW i \in 1..Len(reports), wf.plan[i] = wf.plan[Len(reports) + 1]
               PROVE  FALSE
  BY DEF Past, Stage
<1>3. i \in 1..Len(wf.plan) /\ Len(reports) + 1 \in 1..Len(wf.plan) /\ i # Len(reports) + 1
  BY <1>1
<1>4. wf \in Workflows
  BY DEF TypeOK
<1> QED
  BY <1>2, <1>3, <1>4, WorkflowFacts

LEMMA OrderedPast ==
  ASSUME TypeOK, Len(reports) < Len(wf.plan), NEW s, InOrder(wf.plan, Stage, s)
  PROVE  ~Past(s)
<1>1. Len(reports) \in Nat /\ Len(wf.plan) \in Nat
  BY WorkflowFacts DEF TypeOK
<1>2. SUFFICES ASSUME NEW i \in 1..Len(reports), wf.plan[i] = s
               PROVE  FALSE
  BY DEF Past
<1>3. i \in 1..Len(wf.plan) /\ Len(reports) + 1 \in 1..Len(wf.plan)
  BY <1>1
<1>4. Len(reports) + 1 < i
  BY <1>2, <1>3 DEF InOrder, Stage
<1> QED
  BY <1>1, <1>4

(* What an executor's return does to the Runner.                           *)
LEMMA ReturnFacts ==
  ASSUME IInv, NEW r \in {Success, Failed, TimedOut, Cancelled}, Return(r)
  PROVE  /\ pc = "executing" /\ pc' = "boundary" /\ wf' = wf /\ executed' = executed
         /\ reports' = Append(reports, r) /\ r \in StageReports
         /\ Len(reports) < Len(wf.plan) - 1
         /\ cleaning = stopped
         /\ stopped => stopped'
         /\ ~wf.continue /\ r # Success => stopped'
<1>1. r \in ReturnedReports
  BY DEF ReturnedReports, Failed, Cancelled
<1>2. r \in StageReports
  BY <1>1, ReportTypes
<1>3. r # Success => r.outcome # "SUCCESS"
  BY DEF Success, Failed, TimedOut, Cancelled, Report
<1>4. /\ pc = "executing" /\ pc' = "boundary" /\ wf' = wf /\ executed' = executed
      /\ reports' = Append(reports, r) /\ Len(reports) < Len(wf.plan) - 1
      /\ cleaning = stopped
  BY DEF Return, Record, InHand, IInv, TypeOK
<1>5. stopped => stopped'
  BY <1>4 DEF Return, Counts, control
<1>6. ~wf.continue /\ r # Success => stopped'
  BY <1>3, <1>4, <1>5 DEF Return, Counts, StopsAt
<1> QED
  BY <1>2, <1>4, <1>5, <1>6

(* Each return of an executor is a return of the Runner. *)
LEMMA StageReturns ==
  ASSUME ReturnStage
  PROVE  \E r \in {Success, Failed, TimedOut, Cancelled} : Return(r)
BY DEF ReturnStage, ReturnGated, ReturnUnbound, ReturnPostcondition, ReturnPlain, ReturnStop,
       ReturnStatus, ReturnPrepare, ReturnStopFgo, ReturnStart, ReturnScript

(* The other steps that add a report leave state and world alone.          *)
LEMMA RunnerOnlyFacts ==
  ASSUME IInv, RunnerOnly
  PROVE  /\ wf' = wf /\ UNCHANGED << state, world >>
         /\ stopped => stopped'
         /\ \/ /\ UNCHANGED reports /\ executed' = executed /\ UNCHANGED control
               /\ pc' = "executing" <=> pc = "executing"
            \/ /\ pc = "boundary" /\ pc' \in {"boundary", "done"}
               /\ Len(reports) < Len(wf.plan) /\ executed' = executed
               /\ \E r \in StageReports : reports' = Append(reports, r)
<1>0. /\ Success \in StageReports /\ Skipped \in StageReports /\ TimedOut \in StageReports
      /\ Report("FAILURE", "RUN_REPORT_WRITE_ERROR") \in StageReports
  BY ReportTypes DEF Report, StageReports, Outcomes, Codes
<1>1. UNCHANGED << state, world >>
  BY DEF RunnerOnly
<1>2. CASE Cancel \/ Expire
  BY <1>1, <1>2 DEF Cancel, Expire, control
<1>3. CASE Done
  BY <1>1, <1>3 DEF Done, vars, control
<1>3a. CASE Admit(CleanupRequired(Stage))
  BY <1>1, <1>3a DEF Admit, InBudget, Reached, AtBoundary, control
<1>4. ASSUME NEW written \in BOOLEAN, WriteReport(written)
      PROVE  /\ wf' = wf /\ UNCHANGED control /\ executed' = executed
             /\ pc = "boundary" /\ pc' = "done" /\ Len(reports) < Len(wf.plan)
             /\ \E r \in StageReports : reports' = Append(reports, r)
  BY <1>0, <1>4 DEF WriteReport, IInv, TypeOK
<1>5. CASE \/ SkipStopped(CleanupRequired(Stage)) \/ SkipBlocked(CleanupRequired(Stage))
  <2>1. /\ AtBoundary /\ UNCHANGED control /\ executed' = executed
        /\ wf' = wf /\ pc' = "boundary" /\ reports' = Append(reports, Skipped)
    BY <1>5 DEF SkipStopped, SkipBlocked, InBudget, Reached, Record
  <2> QED
    BY <1>0, <1>1, <2>1 DEF AtBoundary, IInv, TypeOK, control
<1>6. CASE ObserveCancel(CleanupRequired(Stage)) \/ ObserveExpiry
  <2>1. /\ AtBoundary /\ stopped' /\ executed' = executed /\ wf' = wf /\ pc' = "boundary"
        /\ \E r \in StageReports : reports' = Append(reports, r)
    BY <1>0, <1>6 DEF ObserveCancel, ObserveExpiry, Reached, Record
  <2> QED
    BY <1>1, <2>1 DEF AtBoundary, IInv, TypeOK
<1> QED
  BY <1>1, <1>2, <1>3, <1>3a, <1>4, <1>5, <1>6 DEF RunnerOnly, control
-----------------------------------------------------------------------------
(* One automation at a time.  An automation that may be alive is being run, *)
(* or the state remembers that its stage did not clean it up; a contract    *)
(* for MaaFgo is only made when nothing is remembered.                      *)
Remembered ==
  /\ alive \subseteq {"starrail", "maa", "maafgo"}
  /\ "starrail" \in alive =>
       Launched("RUN_STARRAIL") \/ (state.starrailReached /\ ~state.starrailCleaned)
  /\ "maa" \in alive => state.maaReached /\ (Launched("RUN_MAA") \/ ~state.maaCleaned)
  /\ "maafgo" \in alive => state.contract /\ (Launched("RUN_MAAFGO") \/ Past("RUN_MAAFGO"))

Passed ==
  /\ state.starrailReached => Past("RUN_STARRAIL")
  /\ state.maaReached => Launched("RUN_MAA") \/ Past("RUN_MAA")
  /\ state.contract => Past("PREPARE_MAAFGO_RUN")

ContractIsClear ==
  wf.continue /\ state.contract => /\ state.starrailReached => state.starrailCleaned
                                   /\ state.maaReached => state.maaCleaned

FailFast ==
  ~wf.continue /\ alive # {} => stopped \/ (pc = "executing" /\ alive = Script(Stage))

Alone == \A a, b \in alive : a = b

AliveInv == StateOK /\ Remembered /\ Passed /\ ContractIsClear /\ FailFast /\ Alone

LEMMA PlanOrder ==
  ASSUME TypeOK
  PROVE  /\ InOrder(wf.plan, "RUN_STARRAIL", "RUN_MAA")
         /\ InOrder(wf.plan, "RUN_STARRAIL", "PREPARE_MAAFGO_RUN")
         /\ InOrder(wf.plan, "RUN_MAA", "PREPARE_MAAFGO_RUN")
         /\ wf.cleanup \subseteq {"STOP_FGO", "SHUTDOWN_MUMU"}
         /\ wf.continue \in BOOLEAN
BY ProductionAssumption, WorkflowFacts DEF ProductionOK, TypeOK

(* An automation is launched when no other one may be alive. *)
LEMMA LaunchedAlone ==
  ASSUME IInv, AliveInv, pc = "admitted", Len(reports) < Len(wf.plan), ~Gated(Stage),
         Script(Stage) # {}, stopped => Stage \in wf.cleanup
  PROVE  alive = {}
<1>0. TypeOK /\ ~Past(Stage)
  BY NotPast DEF IInv
<1>1. Stage \in {"RUN_STARRAIL", "RUN_MAA", "RUN_MAAFGO"} /\ ~stopped
  BY <1>0, PlanOrder DEF Script
<1>2. \A s : ~Launched(s)
  BY DEF Launched, At
<1>3. CASE ~wf.continue
  BY <1>1, <1>3 DEF AliveInv, FailFast
<1>4. CASE wf.continue
  <2>1. CASE Stage = "RUN_STARRAIL"
    <3>1. ~Past("RUN_STARRAIL") /\ ~Past("RUN_MAA") /\ ~Past("PREPARE_MAAFGO_RUN")
      BY <1>0, <2>1, OrderedPast, PlanOrder
    <3> QED
      BY <1>2, <3>1 DEF AliveInv, Remembered, Passed
  <2>2. CASE Stage = "RUN_MAA"
    <3>1. ~Past("RUN_MAA") /\ ~Past("PREPARE_MAAFGO_RUN")
      BY <1>0, <2>2, OrderedPast, PlanOrder
    <3>2. ~(state.starrailReached /\ ~state.starrailCleaned)
      BY <1>4, <2>2 DEF Gated, StarrailGate
    <3> QED
      BY <1>2, <3>1, <3>2 DEF AliveInv, Remembered, Passed
  <2>3. CASE Stage = "RUN_MAAFGO"
    <3>1. ~Past("RUN_MAAFGO")
      BY <1>0, <2>3
    <3>2. state.contract
      BY <2>3 DEF Gated, NotPrepared
    <3> QED
      BY <1>2, <1>4, <3>1, <3>2 DEF AliveInv, Remembered, ContractIsClear
  <2> QED
    BY <1>1, <2>1, <2>2, <2>3
<1> QED
  BY <1>3, <1>4, <1>0, PlanOrder

LEMMA ExecuteKeepsAlone ==
  ASSUME IInv, AliveInv, ExecuteStage
  PROVE  AliveInv'
<1>0. /\ pc = "admitted" /\ pc' = "executing" /\ Len(reports) < Len(wf.plan)
      /\ UNCHANGED << wf, reports, topStatus, topError, stopped >>
      /\ TypeOK /\ (stopped => Stage \in wf.cleanup)
      /\ Stage' = Stage
  BY WorkflowFacts DEF ExecuteStage, Execute, InHand, IInv, TypeOK, control, Stage
<1>1. /\ alive' = IF ~Gated(Stage) THEN alive \cup Script(Stage) ELSE alive
      /\ state' = [state EXCEPT
           !.maaReached = @ \/ (Stage = "RUN_MAA" /\ ~Gated(Stage)),
           !.fgoReached = @ \/ (Stage = "RUN_MAAFGO" /\ ~Gated(Stage))]
  BY DEF ExecuteStage
<1>2. StateOK'
  BY <1>1 DEF StateOK, AliveInv
<1>3. /\ state'.starrailReached = state.starrailReached
      /\ state'.starrailCleaned = state.starrailCleaned
      /\ state'.maaCleaned = state.maaCleaned /\ state'.contract = state.contract
      /\ state'.maaReached = (state.maaReached \/ (Stage = "RUN_MAA" /\ ~Gated(Stage)))
  BY <1>1 DEF StateOK, AliveInv
<1>4. /\ \A s : Past(s)' <=> Past(s)
      /\ \A s : ~Launched(s)
      /\ \A s : Launched(s)' <=> Stage = s /\ ~Gated(Stage)
  <2>1. Gated(Stage)' <=> Gated(Stage)
    BY <1>0, <1>3 DEF Gated, StarrailGate, MaaGate, NotPrepared
  <2> QED
    BY <1>0, <2>1 DEF Past, Launched, At
<1>5. state.contract => Stage # "RUN_MAA"
  BY <1>0, OrderedPast, PlanOrder DEF AliveInv, Passed
<1>6. CASE Script(Stage) = {} \/ Gated(Stage)
  <2>1. alive' = alive /\ ~(Stage = "RUN_MAA" /\ ~Gated(Stage))
    BY <1>1, <1>6 DEF Script
  <2> QED
    BY <1>0, <1>2, <1>3, <1>4, <2>1
    DEF AliveInv, Remembered, Passed, ContractIsClear, FailFast, Alone
<1>7. CASE Script(Stage) # {} /\ ~Gated(Stage)
  <2>1. alive = {} /\ alive' = Script(Stage)
    BY <1>0, <1>1, <1>7, LaunchedAlone
  <2>2. Stage \in {"RUN_STARRAIL", "RUN_MAA", "RUN_MAAFGO"}
    BY <1>7 DEF Script
  <2>3. Remembered'
    <3>1. Stage = "RUN_MAAFGO" => state.contract
      BY <1>7 DEF Gated, NotPrepared
    <3> QED
      BY <1>3, <1>4, <1>7, <2>1, <2>2, <3>1 DEF Remembered, Script
  <2>4. Passed' /\ ContractIsClear'
    BY <1>0, <1>3, <1>4, <1>5, <1>7 DEF AliveInv, Passed, ContractIsClear
  <2>5. FailFast' /\ Alone'
    BY <1>0, <2>1, <2>2 DEF FailFast, Alone, Script
  <2> QED
    BY <1>2, <2>3, <2>4, <2>5 DEF AliveInv
<1> QED
  BY <1>6, <1>7

LEMMA RunnerOnlyKeepsAlone ==
  ASSUME IInv, AliveInv, RunnerOnly
  PROVE  AliveInv'
<1>1. /\ wf' = wf /\ state' = state /\ alive' = alive /\ (stopped => stopped')
  BY RunnerOnlyFacts DEF world
<1>2. StateOK' /\ Alone'
  BY <1>1 DEF AliveInv, StateOK, Alone
<1>3. CASE UNCHANGED reports /\ UNCHANGED control /\ (pc' = "executing" <=> pc = "executing")
  <2>1. /\ \A s : Past(s)' <=> Past(s)
        /\ \A s : Launched(s)' <=> Launched(s)
        /\ Stage' = Stage
    BY <1>1, <1>3 DEF Past, Launched, At, Stage, Gated, StarrailGate, MaaGate, NotPrepared
  <2> QED
    BY <1>1, <1>2, <1>3, <2>1
    DEF AliveInv, Remembered, Passed, ContractIsClear, FailFast, control
<1>4. CASE /\ pc = "boundary" /\ pc' \in {"boundary", "done"}
           /\ \E r \in StageReports : reports' = Append(reports, r)
  <2>1. /\ \A s : Past(s) => Past(s)'
        /\ \A s : ~Launched(s)
    BY <1>1, <1>4, Advance DEF Launched, At, IInv
  <2> QED
    BY <1>1, <1>2, <1>4, <2>1 DEF AliveInv, Remembered, Passed, ContractIsClear, FailFast
<1> QED
  BY <1>3, <1>4, RunnerOnlyFacts

Automations == {"RUN_STARRAIL", "RUN_MAA", "RUN_MAAFGO"}

(* A return that is not that of a launched automation, and does not touch   *)
(* what the state remembers of them.                                        *)
LEMMA QuietReturn ==
  ASSUME IInv, AliveInv, NEW r \in {Success, Failed, TimedOut, Cancelled}, Return(r),
         StateOK', alive' = alive, Gated(Stage) \/ Stage \notin Automations,
         Gated(Stage) => r # Success,
         state'.starrailReached = state.starrailReached,
         state'.starrailCleaned = state.starrailCleaned,
         state'.maaReached = state.maaReached, state'.maaCleaned = state.maaCleaned,
         state'.contract = state.contract
  PROVE  AliveInv'
<1>1. /\ pc = "executing" /\ pc' = "boundary" /\ wf' = wf /\ reports' = Append(reports, r)
      /\ r \in StageReports /\ TypeOK /\ (stopped => stopped')
      /\ ~wf.continue /\ r # Success => stopped'
  BY ReturnFacts DEF IInv
<1>2. \A s : Past(s) => Past(s)'
  BY <1>1, Advance
<1>3. \A s \in Automations : ~Launched(s)
  BY DEF Launched, At
<1>4. alive # {} /\ ~wf.continue => stopped'
  <2>1. CASE Gated(Stage)
    BY <1>1, <2>1
  <2>2. CASE Stage \notin Automations
    BY <1>1, <2>2 DEF AliveInv, FailFast, Script, Automations
  <2> QED
    BY <2>1, <2>2
<1>5. Remembered' /\ Passed'
  BY <1>2, <1>3 DEF AliveInv, Remembered, Passed, Automations
<1>6. ContractIsClear' /\ FailFast' /\ Alone'
  BY <1>1, <1>4 DEF AliveInv, ContractIsClear, FailFast, Alone
<1> QED
  BY <1>5, <1>6 DEF AliveInv

LEMMA ScriptKeepsAlone ==
  ASSUME IInv, AliveInv, NEW r \in {Success, Failed, TimedOut, Cancelled},
         NEW cleaned \in BOOLEAN, ReturnScript(r, cleaned)
  PROVE  AliveInv'
<1>0. /\ Stage \in Automations /\ ~Gated(Stage) /\ Return(r)
      /\ alive' \in {alive \ Script(Stage)} \cup (IF cleaned THEN {} ELSE {alive})
      /\ state' = [state EXCEPT
           !.starrailReached = @ \/ Stage = "RUN_STARRAIL",
           !.starrailCleaned = IF Stage = "RUN_STARRAIL" THEN cleaned ELSE @,
           !.maaCleaned = IF Stage = "RUN_MAA" THEN cleaned ELSE @]
      /\ r = Success => cleaned
  <2>1. ~Fault(Success)
    BY DEF Fault, Success, Failed, TimedOut, Cancelled, Report
  <2> QED
    BY <2>1 DEF ReturnScript, Ungated, Automations
<1>1. /\ pc = "executing" /\ pc' = "boundary" /\ wf' = wf /\ reports' = Append(reports, r)
      /\ r \in StageReports /\ TypeOK /\ (stopped => stopped')
      /\ (~wf.continue /\ r # Success => stopped')
  BY <1>0, ReturnFacts DEF IInv
<1>11. Len(reports) < Len(wf.plan)
  <2>1. Len(reports) < Len(wf.plan) - 1
    BY <1>0, ReturnFacts
  <2>2. Len(reports) \in Nat /\ Len(wf.plan) \in Nat
    BY <1>1, WorkflowFacts DEF TypeOK
  <2> QED
    BY <2>1, <2>2
<1>2. \A s : (Past(s) => Past(s)') /\ (Stage = s => Past(s)')
  BY <1>1, Advance
<1>3. \A s : Launched(s) <=> Stage = s
  BY <1>0, <1>1 DEF Launched, At
<1>4. /\ state'.starrailReached = (state.starrailReached \/ Stage = "RUN_STARRAIL")
      /\ state'.starrailCleaned = IF Stage = "RUN_STARRAIL" THEN cleaned ELSE state.starrailCleaned
      /\ state'.maaCleaned = IF Stage = "RUN_MAA" THEN cleaned ELSE state.maaCleaned
      /\ state'.maaReached = state.maaReached /\ state'.contract = state.contract
      /\ StateOK'
  BY <1>0 DEF StateOK, AliveInv
<1>5. alive' \subseteq alive /\ (cleaned => alive' = alive \ Script(Stage))
  BY <1>0
<1>6. Remembered'
  <2>1. "starrail" \in alive' => state'.starrailReached /\ ~state'.starrailCleaned
    BY <1>3, <1>4, <1>5 DEF AliveInv, Remembered, Script
  <2>2. "maa" \in alive' => state'.maaReached /\ ~state'.maaCleaned
    BY <1>3, <1>4, <1>5 DEF AliveInv, Remembered, Script
  <2>3. "maafgo" \in alive' => state'.contract /\ Past("RUN_MAAFGO")'
    BY <1>2, <1>3, <1>4, <1>5 DEF AliveInv, Remembered
  <2> QED
    BY <1>5, <2>1, <2>2, <2>3 DEF AliveInv, Remembered
<1>7. Passed'
  BY <1>2, <1>3, <1>4 DEF AliveInv, Passed
<1>8. ContractIsClear'
  <2>1. ASSUME Stage \in {"RUN_STARRAIL", "RUN_MAA"}
        PROVE  ~state.contract
    <3>1. InOrder(wf.plan, Stage, "PREPARE_MAAFGO_RUN")
      BY <1>1, <2>1, PlanOrder
    <3>2. ~Past("PREPARE_MAAFGO_RUN")
      BY <1>1, <1>11, <3>1, OrderedPast
    <3> QED
      BY <3>2 DEF AliveInv, Passed
  <2> QED
    BY <1>1, <1>4, <2>1 DEF AliveInv, ContractIsClear
<1>9. FailFast'
  <2>1. CASE r # Success
    BY <1>1, <2>1 DEF FailFast
  <2>2. CASE r = Success
    BY <1>0, <1>1, <1>5, <2>2 DEF AliveInv, FailFast
  <2> QED
    BY <2>1, <2>2
<1>10. Alone'
  BY <1>5 DEF AliveInv, Alone
<1> QED
  BY <1>4, <1>6, <1>7, <1>8, <1>9, <1>10 DEF AliveInv

LEMMA UnboundKeepsAlone ==
  ASSUME IInv, AliveInv, ReturnUnbound
  PROVE  AliveInv'
<1>0. /\ Stage \in Automations /\ ~Gated(Stage) /\ Return(Failed)
      /\ alive' = alive \ Script(Stage) /\ state' = state
  BY DEF ReturnUnbound, Ungated, Automations
<1>1. /\ pc = "executing" /\ pc' = "boundary" /\ wf' = wf /\ reports' = Append(reports, Failed)
      /\ Failed \in StageReports /\ TypeOK /\ (stopped => stopped')
  BY <1>0, ReturnFacts DEF IInv
<1>2. \A s : (Past(s) => Past(s)') /\ (Stage = s => Past(s)')
  BY <1>1, Advance
<1>3. \A s : Launched(s) <=> Stage = s
  BY <1>0, <1>1 DEF Launched, At
<1>4. Remembered' /\ Passed'
  BY <1>0, <1>2, <1>3 DEF AliveInv, Remembered, Passed, Script
<1>5. StateOK' /\ ContractIsClear' /\ FailFast' /\ Alone'
  BY <1>0, <1>1 DEF AliveInv, StateOK, ContractIsClear, FailFast, Alone
<1> QED
  BY <1>4, <1>5 DEF AliveInv

(* PREPARE_MAAFGO_RUN makes a contract past its gates. *)
LEMMA PrepareKeepsAlone ==
  ASSUME IInv, AliveInv, NEW r \in {Success, Failed, TimedOut, Cancelled}, ReturnPrepare(r)
  PROVE  AliveInv'
<1>0. /\ Stage = "PREPARE_MAAFGO_RUN" /\ ~Gated(Stage) /\ Return(r)
      /\ state' = [state EXCEPT !.contract = @ \/ r = Success] /\ alive' = alive
  BY DEF ReturnPrepare, Ungated, world
<1>1. /\ pc = "executing" /\ pc' = "boundary" /\ wf' = wf /\ reports' = Append(reports, r)
      /\ r \in StageReports /\ TypeOK /\ (stopped => stopped')
  BY <1>0, ReturnFacts DEF IInv
<1>2. \A s : (Past(s) => Past(s)') /\ (Stage = s => Past(s)')
  BY <1>1, Advance
<1>3. \A s \in Automations : ~Launched(s)
  BY <1>0 DEF Launched, At, Automations
<1>4. /\ state'.starrailReached = state.starrailReached
      /\ state'.starrailCleaned = state.starrailCleaned
      /\ state'.maaCleaned = state.maaCleaned /\ state'.maaReached = state.maaReached
      /\ state'.contract = (state.contract \/ r = Success) /\ StateOK'
  BY <1>0 DEF StateOK, AliveInv
<1>5. Remembered' /\ Passed'
  BY <1>0, <1>2, <1>3, <1>4 DEF AliveInv, Remembered, Passed, Automations
<1>6. ContractIsClear'
  BY <1>0, <1>1, <1>4
  DEF AliveInv, StateOK, ContractIsClear, Gated, StarrailGate, MaaGate
<1>7. FailFast' /\ Alone'
  BY <1>0, <1>1 DEF AliveInv, FailFast, Alone, Script
<1> QED
  BY <1>4, <1>5, <1>6, <1>7 DEF AliveInv

LEMMA ReturnKeepsAlone ==
  ASSUME IInv, AliveInv, ReturnStage
  PROVE  AliveInv'
<1>1. CASE ReturnGated
  <2>1. /\ Return(Failed) /\ Gated(Stage) /\ state' = state /\ alive' = alive
        /\ Failed # Success
    BY <1>1 DEF ReturnGated, world, Failed, Success, Report
  <2> QED
    BY <2>1, QuietReturn DEF AliveInv, StateOK
<1>2. CASE ReturnUnbound
  BY <1>2, UnboundKeepsAlone
<1>3. CASE ReturnPostcondition
  <2>1. PICK r \in {Success, Failed} : Return(r)
    BY <1>3 DEF ReturnPostcondition
  <2>2. Stage \notin Automations /\ ~Gated(Stage) /\ state' = state /\ alive' = alive
    BY <1>3 DEF ReturnPostcondition, Ungated, world, Automations
  <2> QED
    BY <2>1, <2>2, QuietReturn DEF AliveInv, StateOK
<1>4. ASSUME NEW r \in {Success, Failed, TimedOut, Cancelled},
             ReturnPlain(r) \/ ReturnStatus(r) \/ ReturnStopFgo(r)
      PROVE  AliveInv'
  <2>1. /\ Return(r) /\ ~Gated(Stage) /\ Stage \notin Automations
        /\ state' = state /\ alive' = alive
    BY <1>4 DEF ReturnPlain, ReturnStatus, ReturnStopFgo, Ungated, world, Automations
  <2> QED
    BY <2>1, QuietReturn DEF AliveInv, StateOK
<1>5. ASSUME NEW r \in {Success, Failed, TimedOut, Cancelled}, NEW changed \in BOOLEAN,
             ReturnStop(r) \/ ReturnStart(r, changed)
      PROVE  AliveInv'
  <2>1. /\ Return(r) /\ ~Gated(Stage) /\ Stage \notin Automations /\ alive' = alive
        /\ \E owned \in BOOLEAN : state' = [state EXCEPT !.mumuOwned = owned]
    BY <1>5 DEF ReturnStop, ReturnStart, Ungated, world, Automations, TakenOver, AliveInv, StateOK
  <2>2. /\ StateOK'
        /\ state'.starrailReached = state.starrailReached
        /\ state'.starrailCleaned = state.starrailCleaned
        /\ state'.maaReached = state.maaReached /\ state'.maaCleaned = state.maaCleaned
        /\ state'.contract = state.contract
    BY <2>1 DEF AliveInv, StateOK
  <2> QED
    BY <2>1, <2>2, QuietReturn
<1> QED
  BY <1>1, <1>2, <1>3, <1>4, <1>5, ScriptKeepsAlone, PrepareKeepsAlone DEF ReturnStage

LEMMA NextKeepsAlone == IInv /\ AliveInv /\ [ProductionNext]_prodVars => AliveInv'
<1> SUFFICES ASSUME IInv, AliveInv, [ProductionNext]_prodVars
             PROVE  AliveInv'
  OBVIOUS
<1>1. CASE UNCHANGED prodVars
  <2>1. UNCHANGED << wf, pc, reports, state, alive, stopped >>
    BY <1>1 DEF prodVars, vars, world, control
  <2> QED
    BY <2>1 DEF AliveInv, StateOK, Remembered, Passed, ContractIsClear, FailFast, Alone, Past,
                Launched, At, Stage, Gated, StarrailGate, MaaGate, NotPrepared
<1> QED
  BY <1>1, ExecuteKeepsAlone, ReturnKeepsAlone, RunnerOnlyKeepsAlone DEF ProductionNext

(* At most one automation is ever at work on the emulator, whatever fails or *)
(* is cancelled, in both modes and for every plan in the automations' order: *)
(* with continue_on_failure because of the executors' gates.                *)
THEOREM OneAutomation == ProductionSpec => []ExclusiveEmulator
<1>1. ProductionInit => AliveInv
  <2>1. ASSUME ProductionInit PROVE AliveInv
    <3>1. StateOK /\ alive = {} /\ ~state.starrailReached /\ ~state.maaReached /\ ~state.contract
      BY <2>1 DEF ProductionInit, FreshState, StateOK
    <3> QED
      BY <3>1 DEF AliveInv, Remembered, Passed, ContractIsClear, FailFast, Alone
  <2> QED
    BY <2>1
<1>2. AliveInv => ExclusiveEmulator
  <2>1. ASSUME AliveInv PROVE Cardinality(alive) <= 1
    <3>1. CASE alive = {}
      BY <3>1, FS_EmptySet
    <3>2. CASE alive # {}
      <4>1. PICK a \in alive : alive = {a}
        BY <2>1, <3>2 DEF AliveInv, Alone
      <4> QED
        BY <4>1, FS_Singleton
    <3> QED
      BY <3>1, <3>2
  <2> QED
    BY <2>1 DEF ExclusiveEmulator
<1>3. ProductionSpec => []IInv
  BY ProductionIsRunner, IInvIsInvariant
<1> QED
  BY <1>1, <1>2, <1>3, NextKeepsAlone, PTL DEF ProductionSpec
-----------------------------------------------------------------------------
(* What was taken over is shut down.  As long as the instance is ours the    *)
(* state says so, which makes SHUTDOWN_MUMU a failure cleanup, and the plan *)
(* holds a SHUTDOWN_MUMU; once that is behind the run it has been tried.    *)
Shutdown == "SHUTDOWN_MUMU"

Settled(j) == Shutdown \in executed \/ topStatus = "CANCELLED" \/ reports[j] = TimedOut

Owning ==
  ours => state.mumuOwned /\ \E j \in 1..(Len(wf.plan) - 1) : wf.plan[j] = Shutdown

Tried == ours => \A j \in 1..Len(reports) : wf.plan[j] = Shutdown => Settled(j)

ShutInv ==
  /\ StateOK /\ ours \in BOOLEAN /\ mumuUp \in BOOLEAN /\ Owning /\ Tried
  /\ pc = "executing" => Stage \in executed

LEMMA CancelledIsFinal ==
  IInv /\ [ProductionNext]_prodVars => (topStatus = "CANCELLED" => topStatus' = "CANCELLED")
BY ProductionStep, VerdictStep DEF vars, control

(* One more report: the earlier ones are settled as before, the new one has *)
(* to be.                                                                   *)
LEMMA AdvanceTried ==
  ASSUME TypeOK, Tried, wf' = wf, NEW r \in StageReports, reports' = Append(reports, r),
         topStatus = "CANCELLED" => topStatus' = "CANCELLED", executed' = executed,
         ours' => ours \/ ~Past(Shutdown),
         ours' /\ Stage = Shutdown =>
           Shutdown \in executed \/ topStatus' = "CANCELLED" \/ r = TimedOut
  PROVE  Tried'
<1>1. /\ Len(reports) \in Nat /\ Len(reports') = Len(reports) + 1
      /\ \A i \in 1..Len(reports) : reports'[i] = reports[i]
      /\ reports'[Len(reports) + 1] = r
  BY LedgerGrows DEF TypeOK
<1>2. SUFFICES ASSUME ours', NEW j \in 1..(Len(reports) + 1), wf.plan[j] = Shutdown
               PROVE  Settled(j)'
  BY <1>1 DEF Tried
<1>3. CASE j \in 1..Len(reports)
  <2>1. ours
    BY <1>2, <1>3 DEF Past
  <2>2. Settled(j)
    BY <1>2, <1>3, <2>1 DEF Tried
  <2> QED
    BY <1>1, <1>3, <2>2 DEF Settled
<1>4. CASE j = Len(reports) + 1
  BY <1>1, <1>2, <1>4 DEF Settled, Stage
<1> QED
  BY <1>1, <1>3, <1>4

LEMMA ReturnKeepsShut ==
  ASSUME IInv, ShutInv, ReturnStage, topStatus = "CANCELLED" => topStatus' = "CANCELLED"
  PROVE  ShutInv'
<1>1. PICK r \in {Success, Failed, TimedOut, Cancelled} : Return(r)
  BY StageReturns
<1>2. /\ pc = "executing" /\ pc' = "boundary" /\ wf' = wf /\ reports' = Append(reports, r)
      /\ r \in StageReports /\ TypeOK /\ executed' = executed /\ Stage \in executed
  BY <1>1, ReturnFacts DEF IInv, ShutInv
<1>3. Len(reports) < Len(wf.plan) - 1 /\ Len(reports) \in Nat /\ Len(wf.plan) \in Nat
  BY <1>1, <1>2, ReturnFacts, WorkflowFacts DEF TypeOK
<1>4. CASE \E q \in {Success, Failed, TimedOut, Cancelled}, changed \in BOOLEAN :
             ReturnStart(q, changed)
  <2>1. PICK q \in {Success, Failed, TimedOut, Cancelled}, changed \in BOOLEAN :
               ReturnStart(q, changed)
    BY <1>4
  <2>2. /\ Stage \in {"ENSURE_MUMU_RUNNING", "START_MUMU"} /\ ~wf.external
        /\ ours' = (ours \/ q = Success \/ changed)
        /\ state' = [state EXCEPT !.mumuOwned = @ \/ TakenOver(q, changed)]
        /\ mumuUp' \in BOOLEAN
    BY <2>1 DEF ReturnStart, Ungated, ShutInv
  <2>3. Len(reports) + 1 \in 1..Len(wf.plan)
    BY <1>3
  <2>4. PICK j \in 1..(Len(wf.plan) - 1) : wf.plan[j] = Shutdown
    BY <1>2, <2>2, ProductionAssumption DEF ProductionOK, TypeOK, Shutdown
  <2>5. ~Past(Shutdown) /\ Stage # Shutdown
    <3>1. InOrder(wf.plan, Stage, Shutdown)
      BY <1>2, <2>2, ProductionAssumption DEF ProductionOK, TypeOK, Shutdown
    <3>2. ~Past(Shutdown)
      BY <1>2, <1>3, <3>1, OrderedPast
    <3> QED
      BY <2>2, <3>2 DEF Shutdown
  <2>6. StateOK' /\ (state.mumuOwned => state'.mumuOwned)
        /\ (q = Success \/ changed => state'.mumuOwned) /\ ours' \in BOOLEAN
    BY <2>2 DEF ShutInv, StateOK, TakenOver
  <2>7. Owning'
    <3>1. j \in 1..(Len(wf.plan) - 1)
      BY <1>3
    <3> QED
      BY <1>2, <2>2, <2>4, <2>6, <3>1 DEF ShutInv, Owning
  <2>8. Tried'
    BY <1>2, <2>5, AdvanceTried DEF ShutInv
  <2> QED
    BY <1>2, <2>2, <2>6, <2>7, <2>8 DEF ShutInv
<1>5. CASE ~(\E q \in {Success, Failed, TimedOut, Cancelled}, changed \in BOOLEAN :
               ReturnStart(q, changed))
  <2>1. /\ StateOK' /\ ours' \in BOOLEAN /\ mumuUp' \in BOOLEAN /\ (ours' => ours)
        /\ ours' => (state.mumuOwned => state'.mumuOwned)
    <3>1. CASE ReturnGated \/ ReturnUnbound \/ ReturnPostcondition
      BY <3>1 DEF ReturnGated, ReturnUnbound, ReturnPostcondition, ShutInv, StateOK, world
    <3>2. ASSUME NEW q \in {Success, Failed, TimedOut, Cancelled},
                 ReturnPlain(q) \/ ReturnStatus(q) \/ ReturnStopFgo(q)
          PROVE  <2>1!:
      <4>1. UNCHANGED << state, mumuUp, ours >>
        BY <3>2 DEF ReturnPlain, ReturnStatus, ReturnStopFgo, world
      <4> QED
        BY <4>1 DEF ShutInv, StateOK
    <3>3. ASSUME NEW q \in {Success, Failed, TimedOut, Cancelled}, ReturnPrepare(q)
          PROVE  <2>1!:
      BY <3>3 DEF ReturnPrepare, ShutInv, StateOK, world
    <3>4. ASSUME NEW q \in {Success, Failed, TimedOut, Cancelled}, ReturnStop(q)
          PROVE  <2>1!:
      BY <3>4 DEF ReturnStop, StopConfirmed, ShutInv, StateOK
    <3>5. ASSUME NEW q \in {Success, Failed, TimedOut, Cancelled}, NEW cleaned \in BOOLEAN,
                 ReturnScript(q, cleaned)
          PROVE  <2>1!:
      BY <3>5 DEF ReturnScript, ShutInv, StateOK
    <3> QED
      BY <1>5, <3>1, <3>2, <3>3, <3>4, <3>5 DEF ReturnStage
  <2>2. Owning'
    BY <1>2, <2>1 DEF ShutInv, Owning
  <2>3. Tried'
    BY <1>2, <2>1, AdvanceTried DEF ShutInv
  <2> QED
    BY <1>2, <2>1, <2>2, <2>3 DEF ShutInv
<1> QED
  BY <1>4, <1>5

(* At the boundary of SHUTDOWN_MUMU an owned instance is shut down, or the   *)
(* run is cancelled, or the parent deadline has passed.                     *)
LEMMA ShutdownBoundary ==
  ASSUME IInv, ShutInv, ours, RunnerOnly, Stage = Shutdown,
         NEW r \in StageReports, reports' = Append(reports, r)
  PROVE  topStatus' = "CANCELLED" \/ r = TimedOut
<1>1. PICK j \in 1..(Len(wf.plan) - 1) : wf.plan[j] = Shutdown
  BY DEF ShutInv, Owning
<1>2. wf \in Workflows /\ TypeOK /\ Len(wf.plan) \in Nat /\ Len(reports) \in Nat
  BY WorkflowFacts DEF IInv, TypeOK
<1>3. Stage \in wf.cleanup /\ wf.deps[Stage] = {}
  <2>1. j \in 1..Len(wf.plan) /\ wf.plan[j] = Stage
    BY <1>1, <1>2
  <2>2. wf.plan[j] \in wf.cleanup /\ wf.deps[wf.plan[j]] = {}
    BY <1>1, <1>2, <2>1, ProductionAssumption DEF ProductionOK, Shutdown
  <2> QED
    BY <2>1, <2>2
<1>4. CleanupRequired(Stage)
  BY DEF CleanupRequired, ShutInv, Owning, Shutdown
<1>5. reports' # reports
  BY <1>2, LedgerGrows DEF TypeOK
<1>6. ~Cancel /\ ~Expire /\ ~Done /\ ~Admit(CleanupRequired(Stage))
  BY <1>5 DEF Cancel, Expire, Done, Admit, vars
<1>7. ~(\E written \in BOOLEAN : WriteReport(written))
  <2>1. SUFFICES ASSUME Len(reports) = Len(wf.plan) - 1
                 PROVE  FALSE
    BY DEF WriteReport, Finished
  <2>2. j \in 1..Len(wf.plan) /\ Len(reports) + 1 \in 1..Len(wf.plan) /\ j # Len(reports) + 1
    BY <1>2, <2>1
  <2> QED
    BY <1>1, <1>2, <2>2, WorkflowFacts DEF Stage
<1>8. ~SkipBlocked(CleanupRequired(Stage))
  BY <1>3 DEF SkipBlocked, Blocked
<1>9. CASE SkipStopped(CleanupRequired(Stage))
  <2>1. stopped /\ topStatus # "FAILURE" /\ UNCHANGED control
    BY <1>3, <1>4, <1>9 DEF SkipStopped, FailureCleanup
  <2>2. topStatus \in {"SUCCESS", "FAILURE", "CANCELLED"} /\ topStatus # "SUCCESS"
    BY <2>1 DEF IInv, TypeOK
  <2> QED
    BY <2>1, <2>2 DEF control
<1>10. CASE ObserveCancel(CleanupRequired(Stage))
  BY <1>10 DEF ObserveCancel
<1>11. CASE ObserveExpiry
  <2>1. reports' = Append(reports, TimedOut) /\ TimedOut \in StageReports
    BY <1>11, ReportTypes DEF ObserveExpiry, Record
  <2>2. reports'[Len(reports) + 1] = TimedOut /\ reports'[Len(reports) + 1] = r
    BY <1>2, <2>1, LedgerGrows DEF TypeOK
  <2> QED
    BY <2>2
<1> QED
  BY <1>6, <1>7, <1>8, <1>9, <1>10, <1>11 DEF RunnerOnly

LEMMA NextKeepsShut == IInv /\ ShutInv /\ [ProductionNext]_prodVars => ShutInv'
<1> SUFFICES ASSUME IInv, ShutInv, [ProductionNext]_prodVars
             PROVE  ShutInv'
  OBVIOUS
<1>0. topStatus = "CANCELLED" => topStatus' = "CANCELLED"
  BY CancelledIsFinal
<1>1. CASE UNCHANGED prodVars
  <2>1. UNCHANGED << wf, pc, reports, state, ours, mumuUp, topStatus, executed >>
    BY <1>1 DEF prodVars, vars, world, control
  <2> QED
    BY <2>1 DEF ShutInv, StateOK, Owning, Tried, Settled, Stage
<1>2. CASE ExecuteStage
  <2>1. /\ pc' = "executing" /\ Stage' \in executed' /\ executed \subseteq executed'
        /\ UNCHANGED << wf, reports, topStatus, ours, mumuUp >>
    BY <1>2 DEF ExecuteStage, Execute, control, Stage
  <2>2. StateOK' /\ state'.mumuOwned = state.mumuOwned
    BY <1>2 DEF ExecuteStage, ShutInv, StateOK
  <2> QED
    BY <2>1, <2>2 DEF ShutInv, Owning, Tried, Settled
<1>3. CASE ReturnStage
  BY <1>0, <1>3, ReturnKeepsShut
<1>4. CASE RunnerOnly
  <2>1. wf' = wf /\ UNCHANGED << state, ours, mumuUp >>
    BY <1>4, RunnerOnlyFacts DEF world
  <2>2. CASE /\ UNCHANGED reports /\ executed' = executed /\ UNCHANGED control
             /\ pc' = "executing" <=> pc = "executing"
    BY <2>1, <2>2 DEF ShutInv, StateOK, Owning, Tried, Settled, Stage, control
  <2>3. ASSUME NEW r \in StageReports, reports' = Append(reports, r),
               pc = "boundary", pc' \in {"boundary", "done"}, executed' = executed
        PROVE  ShutInv'
    <3>1. Tried'
      <4>1. ours' /\ Stage = Shutdown => topStatus' = "CANCELLED" \/ r = TimedOut
        BY <1>4, <2>1, <2>3, ShutdownBoundary
      <4> QED
        BY <1>0, <2>1, <2>3, <4>1, AdvanceTried DEF ShutInv, IInv
    <3> QED
      BY <2>1, <2>3, <3>1 DEF ShutInv, StateOK, Owning
  <2> QED
    BY <1>4, <2>2, <2>3, RunnerOnlyFacts
<1> QED
  BY <1>1, <1>2, <1>3, <1>4 DEF ProductionNext

(* An emulator that a managed run took over, and that is not confirmed as    *)
(* down, has been asked to shut down when the run ends: for every plan that *)
(* orders a SHUTDOWN_MUMU behind its starts, whatever fails before.         *)
THEOREM OwnedIsShutDown == ProductionSpec => []ShutdownReached
<1>1. ProductionInit => ShutInv
  <2>1. ASSUME ProductionInit PROVE ShutInv
    <3>1. StateOK /\ ~ours /\ ours \in BOOLEAN /\ mumuUp \in BOOLEAN /\ pc = "boundary"
      BY <2>1 DEF ProductionInit, FreshState, StateOK, Init
    <3> QED
      BY <3>1 DEF ShutInv, Owning, Tried
  <2> QED
    BY <2>1
<1>2. IInv /\ ShutInv => ShutdownReached
  <2> SUFFICES ASSUME IInv, ShutInv, pc = "done", ours
               PROVE  \/ "SHUTDOWN_MUMU" \in executed
                      \/ topStatus = "CANCELLED"
                      \/ \E i \in 1..Len(reports) : /\ wf.plan[i] = "SHUTDOWN_MUMU"
                                                    /\ reports[i] = TimedOut
    BY DEF ShutdownReached
  <2>1. PICK j \in 1..(Len(wf.plan) - 1) : wf.plan[j] = Shutdown
    BY DEF ShutInv, Owning
  <2>2. Len(reports) = Len(wf.plan) /\ Len(wf.plan) \in Nat
    BY WorkflowFacts DEF IInv, TypeOK
  <2>3. j \in 1..Len(reports)
    BY <2>2
  <2>4. Settled(j)
    BY <2>1, <2>3 DEF ShutInv, Tried
  <2> QED
    BY <2>1, <2>3, <2>4 DEF Settled, Shutdown
<1>3. ProductionSpec => []IInv
  BY ProductionIsRunner, IInvIsInvariant
<1> QED
  BY <1>1, <1>2, <1>3, NextKeepsShut, PTL DEF ProductionSpec
-----------------------------------------------------------------------------
(* A success leaves nothing running.  As long as every report is a success, *)
(* an automation is only alive while its stage executes, the emulator is    *)
(* down once SHUTDOWN_MUMU has been passed, and the FGO app may only run    *)
(* between RUN_MAAFGO and STOP_FGO.                                         *)
Rest ==
  /\ ~wf.external /\ Past(Shutdown) => ~mumuUp
  /\ Past("RUN_MAAFGO") => state.fgoReached
  /\ wf.stopGame /\ fgoApp => Past("RUN_MAAFGO") /\ ~Past("STOP_FGO")

Tidy ==
  AllSucceeded =>
    /\ alive # {} => pc = "executing" /\ ~Gated(Stage) /\ alive = Script(Stage)
    /\ Launched("RUN_MAAFGO") => state.fgoReached
    /\ Rest

TidyInv ==
  /\ StateOK /\ mumuUp \in BOOLEAN /\ fgoApp \in BOOLEAN /\ Tidy

LEMMA OnlySuccess ==
  ASSUME NEW r \in {Success, Failed, TimedOut, Cancelled}
  PROVE  r.outcome = "SUCCESS" <=> r = Success
BY DEF Success, Failed, TimedOut, Cancelled, Report

(* A report that is not a success excuses everything after it. *)
LEMMA UntidyIsExcused ==
  ASSUME TypeOK, NEW r \in StageReports, reports' = Append(reports, r),
         AllSucceeded /\ r.outcome = "SUCCESS" => FALSE
  PROVE  ~AllSucceeded'
<1>1. /\ Len(reports) \in Nat /\ Len(reports') = Len(reports) + 1
      /\ \A i \in 1..Len(reports) : reports'[i] = reports[i]
      /\ reports'[Len(reports) + 1] = r
  BY LedgerGrows DEF TypeOK
<1>2. CASE r.outcome # "SUCCESS"
  BY <1>1, <1>2 DEF AllSucceeded
<1>3. CASE ~AllSucceeded
  <2>1. PICK i \in 1..Len(reports) : reports[i].outcome # "SUCCESS"
    BY <1>3 DEF AllSucceeded
  <2>2. i \in 1..Len(reports')
    BY <1>1
  <2> QED
    BY <1>1, <2>1, <2>2 DEF AllSucceeded
<1> QED
  BY <1>2, <1>3

(* What each executor's success leaves behind. *)
LEMMA SuccessIsTidy ==
  ASSUME IInv, TidyInv, ReturnStage, AllSucceeded, Return(Success),
         \A q \in {Success, Failed, TimedOut, Cancelled} : Return(q) => q = Success
  PROVE  alive' = {} /\ Rest'
<1> DEFINE Goal == alive' = {} /\ Rest'
<1>1. /\ pc = "executing" /\ wf' = wf /\ reports' = Append(reports, Success)
      /\ Success \in StageReports /\ TypeOK /\ Len(reports) < Len(wf.plan)
  <2>1. Len(reports) < Len(wf.plan) - 1 /\ Len(reports) \in Nat /\ Len(wf.plan) \in Nat
    BY ReturnFacts, WorkflowFacts DEF IInv, TypeOK
  <2> QED
    BY <2>1, ReturnFacts DEF IInv
<1>2. /\ alive # {} => ~Gated(Stage) /\ alive = Script(Stage)
      /\ Stage = "RUN_MAAFGO" /\ ~Gated(Stage) => state.fgoReached
      /\ Rest
  BY <1>1 DEF TidyInv, Tidy, Launched, At
<1>3. \A s : Past(s)' <=> Past(s) \/ Stage = s
  BY <1>1, Advance
<1>4. ~Return(Failed)
  <2>1. Failed # Success
    BY DEF Failed, Success, Report
  <2> QED
    BY <2>1
<1>5. ~ReturnGated /\ ~ReturnUnbound
  BY <1>4 DEF ReturnGated, ReturnUnbound
<1>6. ASSUME UNCHANGED << alive, mumuUp, fgoApp >>, state'.fgoReached = state.fgoReached,
             Stage \notin Automations \cup {Shutdown, "STOP_FGO"}
      PROVE  Goal
  <2>1. alive = {}
    BY <1>2, <1>6 DEF Script, Automations
  <2> QED
    BY <1>1, <1>2, <1>3, <1>6, <2>1 DEF Rest, Automations
<1>7. CASE ReturnPostcondition
  BY <1>6, <1>7 DEF ReturnPostcondition, Ungated, world, Automations, Shutdown
<1>8. ASSUME NEW q \in {Success, Failed, TimedOut, Cancelled}, ReturnPlain(q) \/ ReturnStatus(q)
      PROVE  Goal
  BY <1>6, <1>8 DEF ReturnPlain, ReturnStatus, Ungated, world, Automations, Shutdown
<1>9. ASSUME NEW q \in {Success, Failed, TimedOut, Cancelled}, ReturnPrepare(q)
      PROVE  Goal
  <2>1. state'.fgoReached = state.fgoReached
    BY <1>9 DEF ReturnPrepare, TidyInv, StateOK
  <2> QED
    BY <1>6, <1>9, <2>1 DEF ReturnPrepare, Ungated, world, Automations, Shutdown
<1>10. ASSUME NEW q \in {Success, Failed, TimedOut, Cancelled}, ReturnStop(q)
       PROVE  Goal
  <2>1. /\ Stage \in {"STOP_MUMU", "SHUTDOWN_MUMU"} /\ q = Success /\ alive' = alive
        /\ mumuUp' \in {mumuUp, FALSE} /\ ~mumuUp' /\ fgoApp' = (fgoApp /\ mumuUp')
        /\ state'.fgoReached = state.fgoReached
    BY <1>10 DEF ReturnStop, Ungated, StopConfirmed, TidyInv, StateOK
  <2>2. alive = {}
    BY <1>2, <2>1 DEF Script
  <2> QED
    BY <1>1, <1>2, <1>3, <2>1, <2>2 DEF Rest
<1>11. ASSUME NEW q \in {Success, Failed, TimedOut, Cancelled}, NEW changed \in BOOLEAN,
              ReturnStart(q, changed)
       PROVE  Goal
  <2>1. /\ Stage \in {"ENSURE_MUMU_RUNNING", "START_MUMU"} /\ alive' = alive
        /\ q = Success /\ mumuUp' /\ fgoApp' = (fgoApp /\ mumuUp')
        /\ state'.fgoReached = state.fgoReached
    BY <1>11 DEF ReturnStart, Ungated, TidyInv, StateOK
  <2>2. InOrder(wf.plan, Stage, Shutdown)
    BY <1>1, <2>1, ProductionAssumption DEF ProductionOK, TypeOK, Shutdown
  <2>3. ~Past(Shutdown) /\ Stage # Shutdown
    BY <1>1, <2>1, <2>2, OrderedPast DEF Shutdown
  <2>4. alive = {}
    BY <1>2, <2>1 DEF Script
  <2> QED
    BY <1>1, <1>2, <1>3, <2>1, <2>3, <2>4 DEF Rest
<1>12. ASSUME NEW q \in {Success, Failed, TimedOut, Cancelled}, NEW cleaned \in BOOLEAN,
              ReturnScript(q, cleaned)
       PROVE  Goal
  <2>1. /\ Stage \in Automations /\ ~Gated(Stage) /\ mumuUp' = mumuUp
        /\ q = Success /\ state'.fgoReached = state.fgoReached
        /\ fgoApp' \in IF Stage = "RUN_MAAFGO" THEN {fgoApp, mumuUp} ELSE {fgoApp}
    BY <1>12 DEF ReturnScript, Ungated, TidyInv, StateOK, Automations
  <2>2. alive' = {}
    <3>1. cleaned
      BY <1>12, <2>1 DEF ReturnScript, Fault, Success, Failed, TimedOut, Cancelled, Report
    <3>2. alive' = alive \ Script(Stage)
      BY <1>12, <3>1 DEF ReturnScript
    <3> QED
      BY <1>2, <3>2
  <2>3. CASE Stage = "RUN_MAAFGO"
    <3>1. InOrder(wf.plan, Stage, "STOP_FGO")
      BY <1>1, <2>3, ProductionAssumption DEF ProductionOK, TypeOK
    <3>2. ~Past("STOP_FGO")
      BY <1>1, <3>1, OrderedPast
    <3> QED
      BY <1>1, <1>2, <1>3, <2>1, <2>2, <2>3, <3>2 DEF Rest, Shutdown
  <2>4. CASE Stage # "RUN_MAAFGO"
    BY <1>1, <1>2, <1>3, <2>1, <2>2, <2>4 DEF Rest, Automations, Shutdown
  <2> QED
    BY <2>3, <2>4
<1>13. ASSUME NEW q \in {Success, Failed, TimedOut, Cancelled}, ReturnStopFgo(q)
       PROVE  Goal
  <2>1. /\ Stage = "STOP_FGO" /\ q = Success /\ UNCHANGED << state, mumuUp, alive >>
        /\ fgoApp' => fgoApp /\ ((wf.continue /\ ~state.fgoReached) \/ ~wf.stopGame)
    BY <1>13 DEF ReturnStopFgo, Ungated, TidyInv
  <2>2. alive = {}
    BY <1>2, <2>1 DEF Script
  <2> QED
    BY <1>1, <1>2, <1>3, <2>1, <2>2 DEF Rest, Shutdown
<1> QED
  BY <1>5, <1>7, <1>8, <1>9, <1>10, <1>11, <1>12, <1>13 DEF ReturnStage

LEMMA ReturnKeepsTidy ==
  ASSUME IInv, TidyInv, ReturnStage
  PROVE  TidyInv'
<1>1. /\ StateOK' /\ mumuUp' \in BOOLEAN /\ fgoApp' \in BOOLEAN
  <2> DEFINE Typed == StateOK' /\ mumuUp' \in BOOLEAN /\ fgoApp' \in BOOLEAN
  <2>1. CASE ReturnGated \/ ReturnUnbound \/ ReturnPostcondition
    BY <2>1 DEF ReturnGated, ReturnUnbound, ReturnPostcondition, TidyInv, StateOK, world
  <2>2. ASSUME NEW q \in {Success, Failed, TimedOut, Cancelled},
               ReturnPlain(q) \/ ReturnStatus(q) \/ ReturnStopFgo(q)
        PROVE  Typed
    <3>1. /\ UNCHANGED << state, mumuUp >> /\ fgoApp' \in {fgoApp, FALSE}
      BY <2>2 DEF ReturnPlain, ReturnStatus, ReturnStopFgo, world
    <3> QED
      BY <3>1 DEF TidyInv, StateOK
  <2>3. ASSUME NEW q \in {Success, Failed, TimedOut, Cancelled}, ReturnPrepare(q)
        PROVE  Typed
    <3>1. /\ UNCHANGED << mumuUp, fgoApp >>
          /\ state' = [state EXCEPT !.contract = @ \/ q = Success]
      BY <2>3 DEF ReturnPrepare, world
    <3> QED
      BY <3>1 DEF TidyInv, StateOK
  <2>4. ASSUME NEW q \in {Success, Failed, TimedOut, Cancelled}, ReturnStop(q)
        PROVE  Typed
    BY <2>4 DEF ReturnStop, StopConfirmed, TidyInv, StateOK
  <2>5. ASSUME NEW q \in {Success, Failed, TimedOut, Cancelled}, NEW cleaned \in BOOLEAN,
               ReturnScript(q, cleaned)
        PROVE  Typed
    BY <2>5 DEF ReturnScript, TidyInv, StateOK
  <2>6. ASSUME NEW q \in {Success, Failed, TimedOut, Cancelled}, NEW changed \in BOOLEAN,
               ReturnStart(q, changed)
        PROVE  Typed
    BY <2>6 DEF ReturnStart, TakenOver, TidyInv, StateOK
  <2> QED
    BY <2>1, <2>2, <2>3, <2>4, <2>5, <2>6 DEF ReturnStage
<1>2. PICK r \in {Success, Failed, TimedOut, Cancelled} : Return(r)
  BY StageReturns
<1>3. /\ pc' = "boundary" /\ reports' = Append(reports, r) /\ r \in StageReports /\ TypeOK
  BY <1>2, ReturnFacts DEF IInv
<1>4. CASE ~AllSucceeded'
  BY <1>1, <1>4 DEF TidyInv, Tidy
<1>5. CASE AllSucceeded'
  <2>1. AllSucceeded
    BY <1>3, <1>5, UntidyIsExcused
  <2>2. ASSUME NEW q \in {Success, Failed, TimedOut, Cancelled}, Return(q)
        PROVE  q = Success
    <3>1. q \in StageReports /\ reports' = Append(reports, q)
      BY <2>2, ReturnFacts
    <3>2. q.outcome = "SUCCESS"
      BY <1>3, <1>5, <3>1, UntidyIsExcused
    <3> QED
      BY <3>2, OnlySuccess
  <2>3. Return(Success)
    BY <1>2, <2>2
  <2>4. alive' = {} /\ Rest'
    BY <2>1, <2>2, <2>3, SuccessIsTidy
  <2>5. pc' # "executing"
    BY <1>3
  <2> QED
    BY <1>1, <2>4, <2>5 DEF TidyInv, Tidy, Launched, At
<1> QED
  BY <1>4, <1>5

(* Calling an executor: only an automation that passed its gates comes to   *)
(* life, and RUN_MAAFGO is remembered.                                      *)
LEMMA ExecuteKeepsTidy ==
  ASSUME IInv, TidyInv, ExecuteStage
  PROVE  TidyInv'
<1>1. /\ pc = "admitted" /\ UNCHANGED << wf, reports >>
      /\ alive' = IF ~Gated(Stage) THEN alive \cup Script(Stage) ELSE alive
      /\ state' = [state EXCEPT
              !.maaReached = @ \/ (Stage = "RUN_MAA" /\ ~Gated(Stage)),
              !.fgoReached = @ \/ (Stage = "RUN_MAAFGO" /\ ~Gated(Stage))]
      /\ UNCHANGED << mumuUp, ours, fgoApp >>
  BY DEF ExecuteStage, Execute
<1>2. Stage' = Stage /\ (AllSucceeded' <=> AllSucceeded) /\ \A s : Past(s)' <=> Past(s)
  BY <1>1 DEF Stage, AllSucceeded, Past
<1>3. Gated(Stage)' <=> Gated(Stage)
  BY <1>1, <1>2 DEF Gated, StarrailGate, MaaGate, NotPrepared, TidyInv, StateOK
<1>4. StateOK' /\ (state.fgoReached => state'.fgoReached)
      /\ (Stage = "RUN_MAAFGO" /\ ~Gated(Stage) => state'.fgoReached)
  BY <1>1 DEF TidyInv, StateOK, Gated, StarrailGate, MaaGate, NotPrepared
<1>5. ASSUME AllSucceeded
      PROVE  /\ alive' # {} => ~Gated(Stage) /\ alive' = Script(Stage)
             /\ Rest'
  <2>1. alive = {} /\ Rest
    BY <1>1, <1>5 DEF TidyInv, Tidy
  <2> QED
    BY <1>1, <1>2, <1>4, <2>1 DEF Rest
<1>6. Launched("RUN_MAAFGO")' => state'.fgoReached
  BY <1>2, <1>3, <1>4 DEF Launched, At
<1>7. pc' = "executing"
  BY DEF ExecuteStage, Execute
<1>8. mumuUp' \in BOOLEAN /\ fgoApp' \in BOOLEAN
  BY <1>1 DEF TidyInv
<1>9. Tidy'
  BY <1>2, <1>3, <1>5, <1>6, <1>7 DEF Tidy
<1> QED
  BY <1>4, <1>8, <1>9 DEF TidyInv

(* Of the Runner's own reports only that of the report write is a success.  *)
LEMMA OnlyReportWriteSucceeds ==
  ASSUME IInv, RunnerOnly, NEW r \in StageReports, reports' = Append(reports, r),
         r.outcome = "SUCCESS"
  PROVE  Stage = "WRITE_RUN_REPORT"
<1>1. TypeOK /\ Len(reports) \in Nat /\ Len(wf.plan) \in Nat
  BY WorkflowFacts DEF IInv, TypeOK
<1>2. Len(reports') = Len(reports) + 1 /\ reports'[Len(reports) + 1].outcome = "SUCCESS"
  BY <1>1, LedgerGrows DEF TypeOK
<1>3. ~Cancel /\ ~Expire /\ ~Done /\ ~Admit(CleanupRequired(Stage))
  BY <1>1, <1>2 DEF Cancel, Expire, Done, Admit, vars
<1>4. ASSUME NEW q \in StageReports, reports' = Append(reports, q)
      PROVE  q.outcome = "SUCCESS"
  BY <1>1, <1>2, <1>4, LedgerGrows DEF TypeOK
<1>5. Skipped \in StageReports /\ TimedOut \in StageReports
      /\ Skipped.outcome # "SUCCESS" /\ TimedOut.outcome # "SUCCESS"
  BY ReportTypes DEF Skipped, TimedOut, Report
<1>6. ~(reports' = Append(reports, Skipped)) /\ ~(reports' = Append(reports, TimedOut))
  BY <1>4, <1>5
<1>7. \E written \in BOOLEAN : WriteReport(written)
  BY <1>3, <1>6 DEF RunnerOnly, SkipStopped, ObserveCancel, ObserveExpiry, SkipBlocked, Record
<1>8. Len(reports) = Len(wf.plan) - 1
  BY <1>7 DEF WriteReport, Finished
<1>9. wf.plan[Len(wf.plan)] = "WRITE_RUN_REPORT" /\ Len(reports) + 1 = Len(wf.plan)
  BY <1>1, <1>8, WorkflowsAssumption DEF PlanOK, TypeOK
<1> QED
  BY <1>9 DEF Stage

LEMMA NextKeepsTidy == IInv /\ TidyInv /\ [ProductionNext]_prodVars => TidyInv'
<1> SUFFICES ASSUME IInv, TidyInv, [ProductionNext]_prodVars
             PROVE  TidyInv'
  OBVIOUS
<1>1. ASSUME UNCHANGED << wf, reports, state, alive, mumuUp, fgoApp >>,
             pc' = "executing" <=> pc = "executing"
      PROVE  TidyInv'
  <2>1. /\ Stage' = Stage /\ (AllSucceeded' <=> AllSucceeded)
        /\ \A s : Past(s)' <=> Past(s)
    BY <1>1 DEF Stage, AllSucceeded, Past
  <2>2. (Gated(Stage)' <=> Gated(Stage)) /\ (Rest' <=> Rest)
    BY <1>1, <2>1 DEF Gated, StarrailGate, MaaGate, NotPrepared, Rest
  <2> QED
    BY <1>1, <2>1, <2>2 DEF TidyInv, StateOK, Tidy, Launched, At
<1>2. CASE UNCHANGED prodVars
  BY <1>1, <1>2 DEF prodVars, vars, world
<1>3. CASE RunnerOnly
  <2>1. wf' = wf /\ UNCHANGED << state, alive, mumuUp, fgoApp >>
    BY <1>3, RunnerOnlyFacts DEF world
  <2>2. CASE UNCHANGED reports /\ (pc' = "executing" <=> pc = "executing")
    BY <1>1, <2>1, <2>2
  <2>3. ASSUME NEW r \in StageReports, reports' = Append(reports, r),
               pc = "boundary", pc' \in {"boundary", "done"}
        PROVE  TidyInv'
    <3>1. CASE ~AllSucceeded'
      BY <2>1, <3>1 DEF TidyInv, StateOK, Tidy
    <3>2. CASE AllSucceeded'
      <4>1. TypeOK
        BY DEF IInv
      <4>2. AllSucceeded /\ r.outcome = "SUCCESS"
        BY <2>3, <3>2, <4>1, UntidyIsExcused
      <4>3. Stage = "WRITE_RUN_REPORT"
        BY <1>3, <2>3, <4>2, OnlyReportWriteSucceeds
      <4>4. alive = {} /\ Rest
        BY <2>3, <4>2 DEF TidyInv, Tidy
      <4>5. \A s : Past(s)' <=> Past(s) \/ Stage = s
        BY <2>1, <2>3, <4>1, Advance
      <4>6. Rest'
        BY <2>1, <4>3, <4>4, <4>5 DEF Rest, Shutdown
      <4> QED
        BY <2>1, <2>3, <4>4, <4>6 DEF TidyInv, StateOK, Tidy, Launched, At
    <3> QED
      BY <3>1, <3>2
  <2> QED
    BY <1>3, <2>2, <2>3, RunnerOnlyFacts
<1> QED
  BY <1>2, <1>3, ReturnKeepsTidy, ExecuteKeepsTidy DEF ProductionNext

(* A run reported as a success leaves no automation, no managed emulator    *)
(* and, if it was asked to stop it, no FGO app: in every plan that holds    *)
(* the stops of what it starts.                                             *)
THEOREM NothingIsLeftRunning == ProductionSpec => []SuccessLeavesNothingRunning
<1>1. ProductionInit => TidyInv
  <2>1. ASSUME ProductionInit PROVE TidyInv
    <3>1. /\ StateOK /\ mumuUp \in BOOLEAN /\ ~fgoApp /\ fgoApp \in BOOLEAN /\ alive = {}
          /\ pc = "boundary" /\ reports = << >>
      BY <2>1 DEF ProductionInit, FreshState, StateOK, Init
    <3>2. \A s : ~Past(s)
      BY <3>1 DEF Past
    <3> QED
      BY <3>1, <3>2 DEF TidyInv, Tidy, Rest, Launched, At
  <2> QED
    BY <2>1
<1>2. IInv /\ VerdictIsHonest /\ TidyInv => SuccessLeavesNothingRunning
  <2> SUFFICES ASSUME IInv, VerdictIsHonest, TidyInv, pc = "done", runReport.status = "SUCCESS"
               PROVE  /\ alive = {}
                      /\ ~wf.external => ~mumuUp
                      /\ wf.stopGame => ~fgoApp
    BY DEF SuccessLeavesNothingRunning
  <2>1. alive = {} /\ Rest
    BY DEF VerdictIsHonest, TidyInv, Tidy
  <2>2. wf \in Workflows /\ Len(reports) = Len(wf.plan) /\ Len(wf.plan) \in Nat
    BY WorkflowFacts DEF IInv, TypeOK
  <2>3. ~wf.external => Past(Shutdown)
    BY <2>2, ProductionAssumption DEF ProductionOK, Past, Shutdown
  <2>4. Past("RUN_MAAFGO") => Past("STOP_FGO")
    BY <2>2, ProductionAssumption DEF ProductionOK, Past
  <2> QED
    BY <2>1, <2>3, <2>4 DEF Rest, TidyInv
<1>3. ProductionSpec => []IInv
  BY ProductionIsRunner, IInvIsInvariant
<1>4. ProductionSpec => []VerdictIsHonest
  BY ProductionIsRunner, HonestVerdict
<1> QED
  BY <1>1, <1>2, <1>3, <1>4, NextKeepsTidy, PTL DEF ProductionSpec
-----------------------------------------------------------------------------
(* The dialog.  No executor of the composition skips by itself, so the      *)
(* first fault of a fail-fast run is a stage that failed, was stopped, or   *)
(* was not started because the run had been cancelled.                      *)
SkippedFirst(rs) ==
  \E i \in 1..Len(rs) : FirstFault(rs, i) /\ rs[i].outcome = "SKIPPED"

DialogInv ==
  ~wf.continue /\ SkippedFirst(reports) => cancelled /\ topStatus = "CANCELLED"

LEMMA SkippedFirstGrows ==
  ASSUME NEW rs \in Seq(StageReports), NEW r \in StageReports,
         SkippedFirst(Append(rs, r))
  PROVE  \/ SkippedFirst(rs)
         \/ r.outcome = "SKIPPED" /\ \A i \in 1..Len(rs) : rs[i].outcome = "SUCCESS"
<1> DEFINE longer == Append(rs, r)
           n == Len(rs)
<1>1. /\ n \in Nat /\ Len(longer) = n + 1 /\ longer[n + 1] = r
      /\ \A i \in 1..n : longer[i] = rs[i]
  OBVIOUS
<1>2. PICK i \in 1..(n + 1) : FirstFault(longer, i) /\ longer[i].outcome = "SKIPPED"
  BY <1>1 DEF SkippedFirst
<1> HIDE DEF longer, n
<1>3. CASE i \in 1..n
  <2>1. \A j \in 1..(i - 1) : j \in 1..n
    BY <1>1, <1>3
  <2>2. FirstFault(rs, i) /\ rs[i].outcome = "SKIPPED"
    BY <1>1, <1>2, <1>3, <2>1 DEF FirstFault
  <2> QED
    BY <1>3, <2>2 DEF SkippedFirst, n
<1>4. CASE i = n + 1
  <2>1. i - 1 = n
    BY <1>1, <1>4
  <2> QED
    BY <1>1, <1>2, <1>4, <2>1 DEF FirstFault, n
<1> QED
  BY <1>1, <1>2, <1>3, <1>4

LEMMA ProductionKeepsDialog ==
  IInv /\ DialogInv /\ [ProductionNext]_prodVars => DialogInv'
<1> SUFFICES ASSUME IInv, DialogInv, [ProductionNext]_prodVars, wf'.continue # TRUE,
                    SkippedFirst(reports')
             PROVE  cancelled' /\ topStatus' = "CANCELLED"
  BY DEF DialogInv
<1>1. [Next]_vars
  BY ProductionStep
<1>2. wf' = wf /\ wf.continue \in BOOLEAN /\ (cancelled => cancelled')
  <2>1. wf.continue \in BOOLEAN
    BY WorkflowFacts DEF IInv, TypeOK
  <2> QED
    BY <1>1, <2>1 DEF Next, RunnerStep, Cancel, CancelToken, Expire, Boundary, Call, SkipStopped,
       ObserveCancel, SkipBlocked, Admit, FactoryFails, Execute, ObserveExpiry, Return, WriteReport,
       Record, Done, vars, environment
<1>3. topStatus = "CANCELLED" => topStatus' = "CANCELLED"
  BY <1>1, VerdictStep DEF control, vars
<1>4. SkippedFirst(reports) => cancelled' /\ topStatus' = "CANCELLED"
  BY <1>2, <1>3 DEF DialogInv
<1>5. ASSUME NEW r \in StageReports, reports' = Append(reports, r), r.outcome # "SKIPPED"
      PROVE  SkippedFirst(reports)
  BY <1>5, SkippedFirstGrows DEF IInv, TypeOK
<1>6. CASE ExecuteStage \/ UNCHANGED prodVars
  <2>1. reports' = reports
    BY <1>6 DEF ExecuteStage, Execute, prodVars, vars
  <2> QED
    BY <1>4, <2>1
<1>7. CASE ReturnStage
  <2>1. PICK r \in {Success, Failed, TimedOut, Cancelled} : Return(r)
    BY <1>7, StageReturns
  <2>2. r.outcome # "SKIPPED" /\ reports' = Append(reports, r) /\ r \in StageReports
    BY <2>1, ReturnFacts DEF Success, Failed, TimedOut, Cancelled, Report
  <2> QED
    BY <1>4, <1>5, <2>2
<1>8. CASE RunnerOnly
  <2>1. CASE Cancel \/ Expire \/ Done \/ Admit(CleanupRequired(Stage))
    <3>1. reports' = reports
      BY <2>1 DEF Cancel, Expire, Done, Admit, vars
    <3> QED
      BY <1>4, <3>1
  <2>2. CASE ObserveExpiry
    <3>1. reports' = Append(reports, TimedOut)
      BY <2>2 DEF ObserveExpiry, Record
    <3> QED
      BY <1>4, <1>5, <3>1, ReportTypes, Outcome
  <2>3. CASE \E written \in BOOLEAN : WriteReport(written)
    <3>1. PICK r \in StageReports : reports' = Append(reports, r) /\ r.outcome # "SKIPPED"
      BY <2>3 DEF WriteReport, Success, Report, StageReports, Outcomes, Codes
    <3> QED
      BY <1>4, <1>5, <3>1
  <2>4. CASE ObserveCancel(CleanupRequired(Stage))
    BY <1>2, <2>4 DEF ObserveCancel
  <2>5. CASE SkipStopped(CleanupRequired(Stage)) \/ SkipBlocked(CleanupRequired(Stage))
    <3>1. ~AllSucceeded /\ reports' = Append(reports, Skipped)
      <4>1. CASE SkipStopped(CleanupRequired(Stage))
        BY <4>1 DEF SkipStopped, AtBoundary, Record, IInv
      <4>2. CASE SkipBlocked(CleanupRequired(Stage))
        BY <1>2, <4>2 DEF SkipBlocked, InBudget, Reached, Blocked, Record
      <4> QED
        BY <2>5, <4>1, <4>2
    <3>2. SkippedFirst(reports)
      BY <3>1, SkippedFirstGrows, ReportTypes DEF AllSucceeded, IInv, TypeOK
    <3> QED
      BY <1>4, <3>2
  <2> QED
    BY <1>8, <2>1, <2>2, <2>3, <2>4, <2>5 DEF RunnerOnly
<1> QED
  BY <1>6, <1>7, <1>8 DEF ProductionNext

(* The least of a set of places. *)
LEMMA LeastIsMin ==
  ASSUME NEW S \in SUBSET Nat, NEW f \in S, \A i \in S : f <= i
  PROVE  Min(S) = f
<1>1. \A x \in S : (\A i \in S : x <= i) => x = f
  <2> SUFFICES ASSUME NEW x \in S, \A i \in S : x <= i PROVE x = f
    OBVIOUS
  <2>1. x <= f /\ f <= x /\ x \in Nat /\ f \in Nat
    OBVIOUS
  <2> QED
    BY <2>1
<1> QED
  BY <1>1 DEF Min

(* If the first fault is a failed stage, it is the one that is named: what  *)
(* fails behind it is cleanup or the report write, and of these only        *)
(* SHUTDOWN_MUMU and the report come behind a SHUTDOWN_MUMU.                *)
LEMMA FirstFaultIsNamed ==
  ASSUME IInv, LateInv, pc = "done", ~wf.continue,
         NEW f \in 1..Len(reports), FirstFault(reports, f), reports[f].outcome \in Failing
  PROVE  OriginalFailure = f
<1> DEFINE last == {"SHUTDOWN_MUMU", "WRITE_RUN_REPORT"}
           primary == {i \in FailedStages : wf.plan[i] \notin last}
<1>1. /\ wf \in Workflows /\ Len(wf.plan) \in Nat /\ Len(reports) = Len(wf.plan)
      /\ \A i, j \in 1..Len(wf.plan) : wf.plan[i] = wf.plan[j] => i = j
      /\ wf.plan[Len(wf.plan)] = "WRITE_RUN_REPORT"
  BY WorkflowFacts, WorkflowsAssumption DEF IInv, TypeOK, PlanOK
<1>2. f \in FailedStages /\ FailedStages \subseteq 1..Len(wf.plan)
  BY <1>1 DEF FailedStages, Failing
<1>3. \A i \in FailedStages : f <= i
  <2> SUFFICES ASSUME NEW i \in FailedStages, ~(f <= i) PROVE FALSE
    OBVIOUS
  <2>1. i \in 1..(f - 1)
    BY <1>1, <1>2
  <2>2. reports[i].outcome = "SUCCESS"
    BY <2>1 DEF FirstFault
  <2> QED
    BY <2>2 DEF FailedStages
<1>4. Min(FailedStages) = f
  BY <1>2, <1>3, LeastIsMin
<1>5. CASE wf.plan[f] \notin last
  <2>1. f \in primary /\ primary \subseteq FailedStages
    BY <1>2, <1>5
  <2>2. Min(primary) = f
    BY <1>2, <1>3, <2>1, LeastIsMin
  <2> QED
    BY <2>1, <2>2 DEF OriginalFailure
<1>6. CASE wf.plan[f] \in last
  <2>1. primary = {}
    <3> SUFFICES ASSUME NEW i \in FailedStages, wf.plan[i] \notin last PROVE FALSE
      OBVIOUS
    <3>1. /\ f < i /\ i < Len(wf.plan) /\ i \in 1..Len(reports) /\ reports[i].outcome \in Failing
      BY <1>1, <1>2, <1>3, <1>6 DEF FailedStages, Failing
    <3>2. wf.plan[i] = "STOP_FGO"
      <4>1. wf.plan[i] \in wf.cleanup
        BY <3>1 DEF LateInv, FirstFault
      <4> QED
        BY <1>1, <4>1, PlanOrder DEF IInv
    <3>3. wf.plan[f] = "SHUTDOWN_MUMU"
      BY <1>1, <1>2, <1>6, <3>1
    <3>4. InOrder(wf.plan, "STOP_FGO", "SHUTDOWN_MUMU")
      BY <1>1, ProductionAssumption DEF ProductionOK
    <3>5. i < f
      BY <1>1, <3>1, <3>2, <3>3, <3>4 DEF InOrder
    <3> QED
      BY <1>1, <1>2, <3>1, <3>5
  <2> HIDE DEF last
  <2>2. FailedStages # {}
    BY <1>2
  <2> USE DEF last
  <2> QED
    BY <1>4, <2>1, <2>2 DEF OriginalFailure
<1> QED
  BY <1>5, <1>6

(* In fail-fast mode the failure dialog names the stage that stopped the    *)
(* run, and it names one whenever a stage did.                              *)
THEOREM DialogCause == ProductionSpec => []DialogNamesTheCause
<1>1. IInv /\ BlameInv /\ LateInv /\ DialogInv => DialogNamesTheCause
  <2> SUFFICES ASSUME IInv, BlameInv, LateInv, DialogInv, pc = "done", ~wf.continue,
                      runReport.status # "SUCCESS"
               PROVE  /\ OriginalFailure # 0 =>
                           \A i \in 1..(OriginalFailure - 1) :
                             reports[i].outcome = "SUCCESS" \/ cancelled
                      /\ runReport.error \in FailureCodes \cup {"WORKFLOW_STAGE_TIMEOUT"} =>
                           OriginalFailure # 0
    BY DEF DialogNamesTheCause
  <2>1. PICK f \in 1..Len(reports) : FirstFault(reports, f)
    BY DEF IInv, BlameInv
  <2>2. reports[f].outcome \in Failing \cup {"SKIPPED"}
    <3>1. reports[f] \in StageReports
      BY DEF IInv, TypeOK
    <3> QED
      BY <2>1, <3>1 DEF StageReports, Outcomes, Failing, FirstFault
  <2>3. CASE reports[f].outcome \in Failing
    <3>1. OriginalFailure = f /\ f # 0
      BY <2>1, <2>3, FirstFaultIsNamed
    <3> QED
      BY <2>1, <3>1 DEF FirstFault
  <2>4. CASE reports[f].outcome = "SKIPPED"
    <3>1. cancelled /\ topStatus = "CANCELLED"
      BY <2>1, <2>4 DEF DialogInv, SkippedFirst
    <3>2. topError = "WORKFLOW_CANCELLED"
      BY <3>1 DEF BlameInv
    <3>3. runReport.error \in {"WORKFLOW_CANCELLED", "RUN_REPORT_WRITE_ERROR"}
      BY <3>2 DEF BlameInv, FinalVerdict
    <3> QED
      BY <3>1, <3>3 DEF FailureCodes
  <2> QED
    BY <2>2, <2>3, <2>4
<1>2. ProductionInit => DialogInv
  <2>1. ASSUME Init PROVE DialogInv
    <3>1. Len(reports) = 0
      BY <2>1 DEF Init
    <3> QED
      BY <3>1 DEF DialogInv, SkippedFirst
  <2> QED
    BY <2>1 DEF ProductionInit
<1> QED
  BY <1>1, <1>2, ProductionKeepsDialog, ProductionIsRunner, IInvIsInvariant, BlameIsInvariant,
     LateIsInvariant, PTL DEF ProductionSpec

(***************************************************************************)
(* IV. The plans.  Every plan is the ascending sequence of its stages in   *)
(* one order, so that it is determined by the set of its stages, and what  *)
(* the options do to a plan is said by what they do to that set.           *)
(***************************************************************************)
Rank == [VALIDATE_CONFIG |-> 1, SYNC_MAA_CONFIG |-> 2, UPDATE_MAA |-> 3, MERGE_MAA_RESOURCE |-> 4,
         ENSURE_MUMU_RUNNING |-> 5, WAIT_MUMU_ADB_READY |-> 6, RUN_STARRAIL |-> 7,
         STOP_STARRAIL |-> 8, VERIFY_STARRAIL_STOPPED |-> 9, STOP_MUMU |-> 10,
         VERIFY_MUMU_STOPPED |-> 11, START_MUMU |-> 12, WAIT_MUMU_ADB_READY_AFTER_RESTART |-> 13,
         RUN_MAA |-> 14, PREPARE_MAAFGO_RUN |-> 15, RUN_MAAFGO |-> 16, STOP_FGO |-> 17,
         SHUTDOWN_MUMU |-> 18, RUN_BETTERGI |-> 19, WRITE_RUN_REPORT |-> 20]

RealStages == DOMAIN Rank

Ascends(plan) ==
  /\ plan \in Seq(RealStages)
  /\ \A i, j \in 1..Len(plan) : i < j => Rank[plan[i]] < Rank[plan[j]]

LEMMA Least ==
  ASSUME NEW T \in SUBSET Nat, T # {}
  PROVE  \E x \in T : \A y \in T : x <= y
<1> DEFINE R   == StrictSubsetOrdering(Nat)
           Ups == {1..x : x \in T}
<1>1. \A x \in T : x \in Nat /\ 1..x \in SUBSET Nat /\ IsFiniteSet(1..x)
  BY FS_Interval
<1>2. Ups \subseteq FiniteSubsetsOf(Nat) /\ Ups # {}
  BY <1>1 DEF FiniteSubsetsOf
<1>3. IsWellFoundedOn(R, FiniteSubsetsOf(Nat))
  BY FS_StrictSubsetOrderingWellFounded
<1> HIDE DEF R, Ups
<1>4. PICK up \in Ups : \A y \in Ups : ~(<< y, up >> \in R)
  BY <1>2, <1>3, WFMin
<1>5. PICK x \in T : up = 1..x
  BY <1>4 DEF Ups
<1>6. ASSUME NEW y \in T, y < x
      PROVE  FALSE
  <2>1. 1..y \in SUBSET Nat /\ 1..x \in SUBSET Nat /\ 1..y \subseteq 1..x /\ x \in 1..x /\ x \notin 1..y
    BY <1>1, <1>6
  <2>2. << 1..y, 1..x >> \in R
    BY <2>1 DEF R, StrictSubsetOrdering
  <2> QED
    BY <1>4, <1>5, <2>2 DEF Ups
<1> QED
  BY <1>1, <1>6

LEMMA Ranks == \A s \in RealStages : Rank[s] \in Nat /\ Rank[s] \in 1..20
BY DEF RealStages, Rank

LEMMA RangeIs ==
  ASSUME NEW plan \in Seq(RealStages)
  PROVE  /\ Len(plan) \in Nat /\ DOMAIN plan = 1..Len(plan)
         /\ \A i \in 1..Len(plan) : plan[i] \in RealStages
         /\ \A s : s \in Range(plan) <=> \E i \in 1..Len(plan) : plan[i] = s
BY DEF Range

(* A stage comes before those of a higher rank, and is in a plan once.      *)
LEMMA AscendingOrder ==
  ASSUME NEW plan, Ascends(plan), NEW i \in 1..Len(plan), NEW j \in 1..Len(plan)
  PROVE  /\ Rank[plan[i]] < Rank[plan[j]] <=> i < j
         /\ plan[i] = plan[j] => i = j
         /\ Rank[plan[i]] = Rank[plan[j]] => i = j
<1>1. /\ Rank[plan[i]] \in Nat /\ Rank[plan[j]] \in Nat /\ Len(plan) \in Nat
  <2>1. plan \in Seq(RealStages)
    BY DEF Ascends
  <2>2. plan[i] \in RealStages /\ plan[j] \in RealStages /\ Len(plan) \in Nat
    BY <2>1
  <2> QED
    BY <2>2, Ranks
<1>2. i < j \/ j < i \/ i = j
  BY <1>1
<1> QED
  BY <1>1, <1>2 DEF Ascends

(* An ascending plan is determined by its stages.                           *)
LEMMA Agrees ==
  ASSUME NEW p, NEW q, Ascends(p), Ascends(q), Range(p) = Range(q), NEW k \in 1..Len(p)
  PROVE  k \in 1..Len(q) /\ p[k] = q[k]
<1> DEFINE Bad == {n \in 1..Len(p) : ~(n \in 1..Len(q) /\ p[n] = q[n])}
<1>1. Bad = {}
  <2> SUFFICES ASSUME Bad # {} PROVE FALSE
    OBVIOUS
  <2>1. Len(p) \in Nat /\ Len(q) \in Nat
    BY RangeIs DEF Ascends
  <2>2. PICK n \in Bad : \A m \in Bad : n <= m
    <3>1. Bad \in SUBSET Nat
      BY <2>1
    <3> QED
      BY <3>1, Least
  <2>3. \A m \in 1..Len(p) : m < n => m \in 1..Len(q) /\ p[m] = q[m]
    BY <2>1, <2>2
  <2>4. PICK m \in 1..Len(q) : q[m] = p[n]
    BY <2>2, RangeIs DEF Ascends
  <2>5. ~(m < n)
    <3> SUFFICES ASSUME m < n PROVE FALSE
      OBVIOUS
    <3>1. m \in 1..Len(p) /\ p[m] = q[m]
      BY <2>1, <2>2, <2>3
    <3> QED
      BY <2>2, <2>4, <3>1, AscendingOrder
  <2>6. n \in 1..Len(q)
    BY <2>1, <2>2, <2>4, <2>5
  <2>7. PICK l \in 1..Len(p) : p[l] = q[n]
    BY <2>6, RangeIs DEF Ascends
  <2>8. ~(l < n)
    <3> SUFFICES ASSUME l < n PROVE FALSE
      OBVIOUS
    <3>1. q[l] = q[n] /\ l \in 1..Len(q)
      BY <2>3, <2>7
    <3> QED
      BY <2>6, <3>1, AscendingOrder
  <2>9. n \in 1..Len(p) /\ p[n] # q[n]
    BY <2>2, <2>6
  <2>10. n < m /\ n < l
    <3>1. m # n /\ l # n
      BY <2>4, <2>7, <2>9
    <3> QED
      BY <2>1, <2>5, <2>8, <2>9, <3>1
  <2>11. Rank[p[n]] < Rank[p[l]] /\ Rank[q[n]] < Rank[q[m]]
    BY <2>6, <2>9, <2>10 DEF Ascends
  <2>12. Rank[p[n]] \in Nat /\ Rank[q[n]] \in Nat
    <3>1. p[n] \in RealStages /\ q[n] \in RealStages
      BY <2>6, <2>9 DEF Ascends
    <3> QED
      BY <3>1, Ranks
  <2> QED
    BY <2>4, <2>7, <2>11, <2>12
<1> QED
  BY <1>1

LEMMA SamePlan ==
  ASSUME NEW p, NEW q, Ascends(p), Ascends(q), \A s : s \in Range(p) <=> s \in Range(q)
  PROVE  p = q
<1>0. Range(p) = Range(q)
  OBVIOUS
<1>1. Len(p) \in Nat /\ Len(q) \in Nat /\ p \in Seq(RealStages) /\ q \in Seq(RealStages)
  BY RangeIs DEF Ascends
<1>2. \A k \in 1..Len(p) : k \in 1..Len(q) /\ p[k] = q[k]
  BY <1>0, Agrees
<1>3. \A k \in 1..Len(q) : k \in 1..Len(p)
  BY <1>0, Agrees
<1>4. Len(p) = Len(q)
  <2>1. Len(p) > 0 => Len(p) \in 1..Len(q)
    BY <1>1, <1>2
  <2>2. Len(q) > 0 => Len(q) \in 1..Len(p)
    BY <1>1, <1>3
  <2> QED
    BY <1>1, <2>1, <2>2
<1> QED
  BY <1>1, <1>2, <1>4, SeqEqual

(* The elements of a set of positions, counted from the first.              *)
Positions(n)   == SUBSET (1..n)
UpTo(kept, i)  == {x \in kept : x <= i}
Number(kept, i) == Cardinality(UpTo(kept, i))

LEMMA NumberIs ==
  ASSUME NEW n \in Nat, NEW kept \in Positions(n), NEW i \in Nat
  PROVE  /\ IsFiniteSet(kept) /\ Cardinality(kept) \in Nat
         /\ IsFiniteSet(UpTo(kept, i)) /\ Number(kept, i) \in Nat
         /\ Number(kept, i) <= Cardinality(kept)
         /\ n <= i => Number(kept, i) = Cardinality(kept)
<1>0. \A x \in kept : x \in Nat /\ 1 <= x /\ x <= n
  BY DEF Positions
<1>1. IsFiniteSet(1..n)
  BY FS_Interval
<1>2. IsFiniteSet(kept) /\ Cardinality(kept) \in Nat
  BY <1>1, FS_Subset, FS_CardinalityType DEF Positions
<1>3. UpTo(kept, i) \in SUBSET kept
  <2>1. \A x : x \in UpTo(kept, i) => x \in kept
    BY <1>0 DEF UpTo
  <2> QED
    BY <2>1
<1>4. /\ IsFiniteSet(UpTo(kept, i)) /\ Number(kept, i) \in Nat
      /\ Number(kept, i) <= Cardinality(kept)
  BY <1>2, <1>3, FS_Subset, FS_CardinalityType DEF Number
<1>5. n <= i => UpTo(kept, i) = kept
  <2>1. n <= i => \A x : x \in UpTo(kept, i) <=> x \in kept
    BY <1>0 DEF UpTo
  <2> QED
    BY <2>1
<1> QED
  BY <1>2, <1>4, <1>5 DEF Number

LEMMA NumberGrows ==
  ASSUME NEW n \in Nat, NEW kept \in Positions(n), NEW i \in Nat, NEW j \in Nat, i <= j
  PROVE  Number(kept, i) <= Number(kept, j)
<1>0. \A x \in kept : x \in Nat /\ 1 <= x /\ x <= n
  BY DEF Positions
<1>1. UpTo(kept, i) \in SUBSET UpTo(kept, j)
  <2>1. \A x : x \in UpTo(kept, i) => x \in UpTo(kept, j)
    BY <1>0 DEF UpTo
  <2> QED
    BY <2>1
<1>2. IsFiniteSet(UpTo(kept, j))
  BY NumberIs
<1> QED
  BY <1>1, <1>2, FS_Subset DEF Number

LEMMA NumberSteps ==
  ASSUME NEW n \in Nat, NEW kept \in Positions(n), NEW i \in Nat, 0 < i
  PROVE  /\ i \in kept => Number(kept, i) = Number(kept, i - 1) + 1
         /\ i \notin kept => Number(kept, i) = Number(kept, i - 1)
<1>0. \A x \in kept : x \in Nat /\ 1 <= x /\ x <= n
  BY DEF Positions
<1>1. i - 1 \in Nat
  OBVIOUS
<1>2. IsFiniteSet(UpTo(kept, i - 1)) /\ Number(kept, i - 1) \in Nat
  BY <1>1, NumberIs
<1>3. i \notin UpTo(kept, i - 1)
  BY <1>0 DEF UpTo
<1>4. CASE i \in kept
  <2>1. UpTo(kept, i) = UpTo(kept, i - 1) \cup {i}
    <3>1. \A x : x \in UpTo(kept, i) <=> x \in UpTo(kept, i - 1) \/ x = i
      <4>1. \A x \in kept : x <= i <=> x <= i - 1 \/ x = i
        BY <1>0
      <4>2. i - 1 <= i
        OBVIOUS
      <4> QED
        BY <1>4, <4>1, <4>2 DEF UpTo
    <3> QED
      BY <3>1
  <2> QED
    BY <1>2, <1>3, <1>4, <2>1, FS_AddElement DEF Number
<1>5. CASE i \notin kept
  <2>1. UpTo(kept, i) = UpTo(kept, i - 1)
    <3>1. \A x : x \in UpTo(kept, i) <=> x \in UpTo(kept, i - 1)
      BY <1>0, <1>5 DEF UpTo
    <3> QED
      BY <3>1
  <2> QED
    BY <1>5, <2>1 DEF Number
<1> QED
  BY <1>4, <1>5

LEMMA NumberFinds ==
  ASSUME NEW n \in Nat, NEW kept \in Positions(n), NEW k \in 1..Cardinality(kept)
  PROVE  \E i \in kept : Number(kept, i) = k
<1>0. \A x \in kept : x \in Nat /\ 1 <= x /\ x <= n
  BY DEF Positions
<1> DEFINE T == {i \in 1..n : k <= Number(kept, i)}
<1>1. Cardinality(kept) \in Nat /\ k \in Nat /\ 0 < k
  <2>1. Cardinality(kept) \in Nat
    BY NumberIs
  <2> QED
    BY <2>1
<1>2. n \in T
  <2>1. Number(kept, n) = Cardinality(kept)
    BY NumberIs
  <2>2. n # 0
    <3> SUFFICES ASSUME n = 0 PROVE FALSE
      OBVIOUS
    <3>1. kept = {}
      BY DEF Positions
    <3> QED
      BY <1>1, <3>1, FS_EmptySet
  <2> QED
    BY <1>1, <2>1, <2>2
<1>3. PICK i \in T : \A j \in T : i <= j
  <2>1. T \in SUBSET Nat
    OBVIOUS
  <2> QED
    BY <1>2, <2>1, Least
<1>4. Number(kept, i) \in Nat /\ Number(kept, i - 1) \in Nat /\ k <= Number(kept, i)
  <2>1. i \in Nat /\ i - 1 \in Nat
    BY <1>3
  <2> QED
    BY <1>3, <2>1, NumberIs
<1>5. Number(kept, i - 1) < k
  <2>1. CASE i = 1
    <3>1. UpTo(kept, i - 1) = {}
      <4>1. \A x : x \notin UpTo(kept, i - 1)
        BY <1>0, <2>1 DEF UpTo
      <4> QED
        BY <4>1
    <3> QED
      BY <1>1, <3>1, FS_EmptySet DEF Number
  <2>2. CASE i # 1
    <3>1. i - 1 \in 1..n /\ ~(i <= i - 1)
      BY <1>3, <2>2
    <3>2. i - 1 \notin T
      BY <1>3, <3>1
    <3> QED
      BY <1>1, <1>4, <3>1, <3>2
  <2> QED
    BY <2>1, <2>2
<1>6. i \in Nat /\ 0 < i
  BY <1>3
<1>7. /\ i \in kept => Number(kept, i) = Number(kept, i - 1) + 1
      /\ i \notin kept => Number(kept, i) = Number(kept, i - 1)
  BY <1>6, NumberSteps
<1> QED
  BY <1>1, <1>4, <1>5, <1>7

LEMMA SameNumber ==
  ASSUME NEW n \in Nat, NEW kept \in Positions(n), NEW i \in kept, NEW j \in kept,
         Number(kept, i) = Number(kept, j)
  PROVE  i = j
<1>0. \A x \in kept : x \in Nat /\ 1 <= x /\ x <= n
  BY DEF Positions
<1>1. \A x, y \in kept : x < y => Number(kept, x) < Number(kept, y)
  <2> SUFFICES ASSUME NEW x \in kept, NEW y \in kept, x < y
               PROVE  Number(kept, x) < Number(kept, y)
    OBVIOUS
  <2>1. x \in Nat /\ y \in Nat /\ y - 1 \in Nat /\ 0 < y /\ x <= y - 1
    BY <1>0
  <2>2. Number(kept, x) <= Number(kept, y - 1)
    BY <2>1, NumberGrows
  <2>3. Number(kept, y) = Number(kept, y - 1) + 1
    BY <2>1, NumberSteps
  <2>4. Number(kept, x) \in Nat /\ Number(kept, y - 1) \in Nat
    BY <2>1, NumberIs
  <2> QED
    BY <2>2, <2>3, <2>4
<1>2. Number(kept, i) \in Nat /\ i \in Nat /\ j \in Nat
  <2>1. i \in Nat /\ j \in Nat
    BY <1>0
  <2> QED
    BY <2>1, NumberIs
<1> QED
  BY <1>1, <1>2

-----------------------------------------------------------------------------
(* What Without makes of a plan: its other stages, in the same order.       *)
LEMMA WithoutKeeps ==
  ASSUME NEW plan, NEW stages, Ascends(plan)
  PROVE  /\ Ascends(Without(plan, stages))
         /\ \A s : s \in Range(Without(plan, stages)) <=> s \in Range(plan) /\ s \notin stages
<1> DEFINE n      == Len(plan)
           kept   == {i \in DOMAIN plan : plan[i] \notin stages}
           m      == Cardinality(kept)
           nth(k) == CHOOSE i \in kept : Number(kept, i) = k
           rest   == [k \in 1..m |-> plan[nth(k)]]
<1>1. /\ n \in Nat /\ DOMAIN plan = 1..n /\ \A i \in 1..n : plan[i] \in RealStages
      /\ \A s : s \in Range(plan) <=> \E i \in 1..n : plan[i] = s
  BY RangeIs DEF Ascends
<1>2. kept \in Positions(n) /\ \A i : i \in kept <=> i \in 1..n /\ plan[i] \notin stages
  BY <1>1 DEF Positions
<1>3. Without(plan, stages) = rest
  BY DEF Without, Number, UpTo
<1> HIDE DEF kept, n
<1>4. m \in Nat
  BY <1>1, <1>2, NumberIs
<1>5. \A k \in 1..m : nth(k) \in kept /\ Number(kept, nth(k)) = k
  <2> SUFFICES ASSUME NEW k \in 1..m PROVE nth(k) \in kept /\ Number(kept, nth(k)) = k
    OBVIOUS
  <2>1. \E i \in kept : Number(kept, i) = k
    BY <1>1, <1>2, NumberFinds
  <2> QED
    BY <2>1
<1>6. \A i \in kept : Number(kept, i) \in 1..m /\ i = nth(Number(kept, i))
  <2> SUFFICES ASSUME NEW i \in kept
               PROVE  Number(kept, i) \in 1..m /\ i = nth(Number(kept, i))
    OBVIOUS
  <2>1. i \in Nat /\ 0 < i /\ i - 1 \in Nat /\ i \in 1..n
    BY <1>1, <1>2
  <2>2. /\ Number(kept, i) \in Nat /\ Number(kept, i - 1) \in Nat
        /\ Number(kept, i) <= m
    BY <1>1, <1>2, <2>1, NumberIs
  <2>3. Number(kept, i) = Number(kept, i - 1) + 1
    BY <1>1, <1>2, <2>1, NumberSteps
  <2>4. Number(kept, i) \in 1..m
    BY <1>4, <2>2, <2>3
  <2>5. /\ nth(Number(kept, i)) \in kept
        /\ Number(kept, nth(Number(kept, i))) = Number(kept, i)
    BY <1>5, <2>4
  <2> QED
    BY <1>1, <1>2, <2>1, <2>4, <2>5, SameNumber
<1>7. \A k, l \in 1..m : k < l => nth(k) < nth(l)
  <2> SUFFICES ASSUME NEW k \in 1..m, NEW l \in 1..m, k < l, ~(nth(k) < nth(l))
               PROVE  FALSE
    OBVIOUS
  <2>1. /\ nth(k) \in kept /\ Number(kept, nth(k)) = k
        /\ nth(l) \in kept /\ Number(kept, nth(l)) = l
    BY <1>5
  <2> HIDE DEF nth
  <2>2. nth(k) \in Nat /\ nth(l) \in Nat
    BY <1>1, <1>2, <2>1
  <2>3. nth(l) <= nth(k)
    BY <2>2
  <2>4. Number(kept, nth(l)) <= Number(kept, nth(k))
    BY <1>1, <1>2, <2>2, <2>3, NumberGrows
  <2> QED
    BY <1>4, <2>1, <2>4
<1> HIDE DEF nth
<1>8. \A k \in 1..m : nth(k) \in 1..n /\ plan[nth(k)] \in RealStages
  BY <1>1, <1>2, <1>5
<1>9. rest \in Seq(RealStages) /\ Len(rest) = m /\ \A k \in 1..m : rest[k] = plan[nth(k)]
  BY <1>4, <1>8
<1>10. Ascends(rest)
  <2> SUFFICES ASSUME NEW k \in 1..m, NEW l \in 1..m, k < l
               PROVE  Rank[rest[k]] < Rank[rest[l]]
    BY <1>9 DEF Ascends
  <2>1. nth(k) \in 1..n /\ nth(l) \in 1..n /\ nth(k) < nth(l)
    BY <1>7, <1>8
  <2> QED
    BY <1>9, <2>1 DEF Ascends, n
<1>11. \A s : s \in Range(rest) <=> s \in Range(plan) /\ s \notin stages
  <2>1. \A s : s \in Range(rest) <=> \E k \in 1..m : plan[nth(k)] = s
    BY <1>9, RangeIs
  <2>2. \A s : (\E k \in 1..m : plan[nth(k)] = s) <=> \E i \in kept : plan[i] = s
    BY <1>5, <1>6
  <2> HIDE DEF rest
  <2> QED
    BY <1>1, <1>2, <2>1, <2>2
<1> QED
  BY <1>3, <1>10, <1>11

(* Parts of a plan, and plans put together.                                 *)
LEMMA CutKeeps ==
  ASSUME NEW plan, Ascends(plan), NEW m \in Nat, 1 <= m, NEW n \in Nat, n <= Len(plan)
  PROVE  /\ Ascends(SubSeq(plan, m, n))
         /\ \A s : s \in Range(SubSeq(plan, m, n)) <=>
                   \E i \in 1..Len(plan) : m <= i /\ i <= n /\ plan[i] = s
<1> DEFINE part == SubSeq(plan, m, n)
<1>1. /\ Len(plan) \in Nat /\ \A i \in 1..Len(plan) : plan[i] \in RealStages
  BY RangeIs DEF Ascends
<1>2. \A i \in m..n : plan[i] \in RealStages /\ i \in 1..Len(plan)
  BY <1>1
<1>3. m \in Int /\ n \in Int /\ \A i \in m..n : plan[i] \in RealStages
  BY <1>2
<1>4. /\ part \in Seq(RealStages)
      /\ Len(part) = IF m <= n THEN n - m + 1 ELSE 0
      /\ \A i \in 1..(n - m + 1) : part[i] = plan[m + i - 1]
  <2> HIDE DEF part
  <2> QED
    BY ONLY <1>3, SubSeqProperties DEF part
<1> HIDE DEF part
<1>5. \A i \in 1..Len(part) : m + i - 1 \in 1..Len(plan) /\ m + i - 1 <= n
                               /\ m <= m + i - 1 /\ part[i] = plan[m + i - 1]
  BY <1>1, <1>4
<1>6. \A i \in 1..Len(plan) : m <= i /\ i <= n =>
         i - m + 1 \in 1..Len(part) /\ part[i - m + 1] = plan[i]
  <2> SUFFICES ASSUME NEW i \in 1..Len(plan), m <= i, i <= n
               PROVE  i - m + 1 \in 1..Len(part) /\ part[i - m + 1] = plan[i]
    OBVIOUS
  <2>1. i - m + 1 \in 1..Len(part) /\ m + (i - m + 1) - 1 = i
    BY <1>1, <1>4
  <2> QED
    BY <1>5, <2>1
<1>7. Ascends(part)
  <2> SUFFICES ASSUME NEW i \in 1..Len(part), NEW j \in 1..Len(part), i < j
               PROVE  Rank[part[i]] < Rank[part[j]]
    BY <1>4 DEF Ascends
  <2>1. m + i - 1 < m + j - 1
    BY <1>4
  <2> QED
    BY <1>5, <2>1 DEF Ascends
<1>8. \A s : s \in Range(part) <=>
             \E i \in 1..Len(plan) : m <= i /\ i <= n /\ plan[i] = s
  <2>1. \A s : s \in Range(part) <=> \E i \in 1..Len(part) : part[i] = s
    BY <1>4, RangeIs
  <2>2. ASSUME NEW s, NEW k \in 1..Len(part), part[k] = s
        PROVE  \E i \in 1..Len(plan) : m <= i /\ i <= n /\ plan[i] = s
    BY <1>5, <2>2
  <2>3. ASSUME NEW s, NEW i \in 1..Len(plan), m <= i, i <= n, plan[i] = s
        PROVE  \E k \in 1..Len(part) : part[k] = s
    BY <1>6, <2>3
  <2> QED
    BY <2>1, <2>2, <2>3
<1> QED
  BY <1>7, <1>8 DEF part

LEMMA JoinKeeps ==
  ASSUME NEW a, NEW b, Ascends(a), Ascends(b),
         \A s \in Range(a), t \in Range(b) : Rank[s] < Rank[t]
  PROVE  /\ Ascends(a \o b)
         /\ \A s : s \in Range(a \o b) <=> s \in Range(a) \/ s \in Range(b)
<1> DEFINE ab == a \o b
<1>1. a \in Seq(RealStages) /\ b \in Seq(RealStages)
  BY DEF Ascends
<1>2. Len(a) \in Nat /\ Len(b) \in Nat
  BY <1>1
<1>3. /\ ab \in Seq(RealStages) /\ Len(ab) = Len(a) + Len(b)
      /\ \A i \in 1..(Len(a) + Len(b)) :
           ab[i] = IF i <= Len(a) THEN a[i] ELSE b[i - Len(a)]
  BY <1>1, ConcatProperties
<1> HIDE DEF ab
<1>4. /\ \A s : s \in Range(a) <=> \E i \in 1..Len(a) : a[i] = s
      /\ \A s : s \in Range(b) <=> \E i \in 1..Len(b) : b[i] = s
      /\ \A s : s \in Range(ab) <=> \E i \in 1..Len(ab) : ab[i] = s
  BY <1>1, <1>3, RangeIs
<1>5. /\ \A i \in 1..Len(ab) : i <= Len(a) => i \in 1..Len(a) /\ ab[i] = a[i]
      /\ \A i \in 1..Len(ab) : ~(i <= Len(a)) =>
           i - Len(a) \in 1..Len(b) /\ ab[i] = b[i - Len(a)]
  BY <1>2, <1>3
<1>6. /\ \A i \in 1..Len(a) : i \in 1..Len(ab) /\ ab[i] = a[i]
      /\ \A i \in 1..Len(b) : Len(a) + i \in 1..Len(ab) /\ ab[Len(a) + i] = b[i]
  BY <1>2, <1>3
<1>7. Ascends(ab)
  <2> SUFFICES ASSUME NEW i \in 1..Len(ab), NEW j \in 1..Len(ab), i < j
               PROVE  Rank[ab[i]] < Rank[ab[j]]
    BY <1>3 DEF Ascends
  <2>1. CASE j <= Len(a)
    <3>1. i <= Len(a)
      BY <1>2, <1>3, <2>1
    <3> QED
      BY <1>5, <2>1, <3>1 DEF Ascends
  <2>2. CASE i <= Len(a) /\ ~(j <= Len(a))
    BY <1>4, <1>5, <2>2
  <2>3. CASE ~(i <= Len(a))
    <3>1. ~(j <= Len(a)) /\ i - Len(a) < j - Len(a)
      BY <1>2, <1>3, <2>3
    <3> QED
      BY <1>5, <2>3, <3>1 DEF Ascends
  <2> QED
    BY <2>1, <2>2, <2>3
<1>8. \A s : s \in Range(ab) <=> s \in Range(a) \/ s \in Range(b)
  BY <1>4, <1>5, <1>6
<1> QED
  BY <1>7, <1>8 DEF ab

(* Stages inserted after one of a lower rank and before those of a higher.  *)
LEMMA InsertKeeps ==
  ASSUME NEW plan, NEW stage, NEW new, Ascends(plan), Ascends(new), Has(plan, stage),
         \A t \in Range(new) :
           /\ Rank[stage] < Rank[t]
           /\ \A s \in Range(plan) : Rank[stage] < Rank[s] => Rank[t] < Rank[s]
  PROVE  /\ Ascends(InsertAfter(plan, stage, new))
         /\ \A s : s \in Range(InsertAfter(plan, stage, new)) <=>
                   s \in Range(plan) \/ s \in Range(new)
<1> DEFINE n    == Len(plan)
           i    == Position(plan, stage)
           low  == SubSeq(plan, 1, i)
           high == SubSeq(plan, i + 1, n)
<1>1. /\ n \in Nat /\ DOMAIN plan = 1..n /\ \A k \in 1..n : plan[k] \in RealStages
      /\ \A s : s \in Range(plan) <=> \E k \in 1..n : plan[k] = s
      /\ \A s \in Range(new) : s \in RealStages
  BY RangeIs DEF Ascends
<1>2. i \in 1..n /\ plan[i] = stage
  BY <1>1 DEF Has, Position
<1> HIDE DEF n, i
<1>3. i \in Nat /\ 1 <= i /\ i <= n /\ i + 1 \in Nat /\ 1 <= i + 1 /\ 1 \in Nat /\ 1 <= 1
  BY <1>1, <1>2
<1>4. /\ Ascends(low)
      /\ \A s : s \in Range(low) <=> \E k \in 1..n : 1 <= k /\ k <= i /\ plan[k] = s
  BY <1>3, CutKeeps DEF n
<1>5. /\ Ascends(high)
      /\ \A s : s \in Range(high) <=> \E k \in 1..n : i + 1 <= k /\ k <= n /\ plan[k] = s
  BY <1>1, <1>3, CutKeeps DEF n
<1>6. \A k \in 1..n : Rank[plan[k]] \in Nat /\ (i < k => Rank[stage] < Rank[plan[k]])
                       /\ (k <= i => Rank[plan[k]] <= Rank[stage])
  <2> SUFFICES ASSUME NEW k \in 1..n
               PROVE  /\ Rank[plan[k]] \in Nat /\ (i < k => Rank[stage] < Rank[plan[k]])
                      /\ (k <= i => Rank[plan[k]] <= Rank[stage])
    OBVIOUS
  <2>1. Rank[plan[k]] \in Nat /\ Rank[plan[i]] \in Nat
    BY <1>1, <1>2, Ranks
  <2>2. k < i \/ k = i \/ i < k
    BY <1>3
  <2>3. (i < k => Rank[plan[i]] < Rank[plan[k]]) /\ (k < i => Rank[plan[k]] < Rank[plan[i]])
    BY <1>2 DEF Ascends, n
  <2> QED
    BY <1>2, <1>3, <2>1, <2>2, <2>3
<1>7. \A t \in Range(new) : Rank[t] \in Nat
  BY <1>1, Ranks
<1>8. Rank[stage] \in Nat
  BY <1>2, <1>6
<1>9. \A s \in Range(low), t \in Range(new) : Rank[s] < Rank[t]
  <2> SUFFICES ASSUME NEW s \in Range(low), NEW t \in Range(new) PROVE Rank[s] < Rank[t]
    OBVIOUS
  <2>1. Rank[s] \in Nat /\ Rank[s] <= Rank[stage]
    BY <1>4, <1>6
  <2> QED
    BY <1>7, <1>8, <2>1
<1>10. /\ Ascends(low \o new)
       /\ \A s : s \in Range(low \o new) <=> s \in Range(low) \/ s \in Range(new)
  BY <1>4, <1>9, JoinKeeps
<1>11. \A s \in Range(low \o new), t \in Range(high) : Rank[s] < Rank[t]
  <2> SUFFICES ASSUME NEW s \in Range(low \o new), NEW t \in Range(high)
               PROVE  Rank[s] < Rank[t]
    OBVIOUS
  <2>1. PICK k \in 1..n : i + 1 <= k /\ plan[k] = t
    BY <1>5
  <2>2. i < k
    BY <1>3, <2>1
  <2>3. Rank[stage] < Rank[t] /\ Rank[t] \in Nat /\ t \in Range(plan)
    BY <1>1, <1>6, <2>1, <2>2
  <2>4. CASE s \in Range(new)
    BY <2>3, <2>4
  <2>5. CASE s \in Range(low)
    <3>1. Rank[s] \in Nat /\ Rank[s] <= Rank[stage]
      BY <1>4, <1>6, <2>5
    <3> QED
      BY <1>8, <2>3, <3>1
  <2> QED
    BY <1>10, <2>4, <2>5
<1>12. /\ Ascends((low \o new) \o high)
       /\ \A s : s \in Range((low \o new) \o high) <=>
                 s \in Range(low \o new) \/ s \in Range(high)
  BY <1>5, <1>10, <1>11, JoinKeeps
<1>13. InsertAfter(plan, stage, new) = (low \o new) \o high
  BY DEF InsertAfter, i, n
<1>14. \A s : s \in Range(plan) <=> s \in Range(low) \/ s \in Range(high)
  <2>1. \A k \in 1..n : 1 <= k /\ k <= n /\ (k <= i \/ i + 1 <= k)
    BY <1>1, <1>3
  <2> QED
    BY <1>1, <1>4, <1>5, <2>1
<1> QED
  BY <1>10, <1>12, <1>13, <1>14

(* RUN_BETTERGI goes before the report, which ranks highest.                *)
LEMMA BeforeReportKeeps ==
  ASSUME NEW plan, Ascends(plan), "WRITE_RUN_REPORT" \in Range(plan),
         "RUN_BETTERGI" \notin Range(plan)
  PROVE  /\ Ascends(BeforeReport(plan, "RUN_BETTERGI"))
         /\ \A s : s \in Range(BeforeReport(plan, "RUN_BETTERGI")) <=>
                   s \in Range(plan) \/ s = "RUN_BETTERGI"
<1> DEFINE n    == Len(plan)
           low  == SubSeq(plan, 1, n - 1)
           high == << "RUN_BETTERGI", "WRITE_RUN_REPORT" >>
<1>1. /\ n \in Nat /\ \A k \in 1..n : plan[k] \in RealStages
      /\ \A s : s \in Range(plan) <=> \E k \in 1..n : plan[k] = s
  BY RangeIs DEF Ascends
<1>2. /\ Rank["WRITE_RUN_REPORT"] = 20 /\ Rank["RUN_BETTERGI"] = 19
      /\ \A s \in RealStages : s \notin {"RUN_BETTERGI", "WRITE_RUN_REPORT"} => Rank[s] < 19
      /\ "WRITE_RUN_REPORT" \in RealStages /\ "RUN_BETTERGI" \in RealStages
  BY DEF RealStages, Rank
<1>3. n \in 1..n /\ plan[n] = "WRITE_RUN_REPORT"
  <2>1. PICK k \in 1..n : plan[k] = "WRITE_RUN_REPORT"
    BY <1>1
  <2>2. n \in 1..n
    BY <1>1, <2>1
  <2>3. ~(k < n)
    <3>1. Rank[plan[n]] \in 1..20
      BY <1>1, <2>2, Ranks
    <3>2. k < n => Rank[plan[k]] < Rank[plan[n]]
      BY <2>2 DEF Ascends
    <3> QED
      BY <1>2, <2>1, <3>1, <3>2
  <2> QED
    BY <1>1, <2>1, <2>2, <2>3
<1>4. 1 \in Nat /\ 1 <= 1 /\ n - 1 \in Nat /\ n - 1 <= n
  BY <1>1, <1>3
<1>5. /\ Ascends(low)
      /\ \A s : s \in Range(low) <=> \E k \in 1..n : 1 <= k /\ k <= n - 1 /\ plan[k] = s
  BY <1>4, CutKeeps DEF n
<1>6. /\ Ascends(high)
      /\ \A s : s \in Range(high) <=> s \in {"RUN_BETTERGI", "WRITE_RUN_REPORT"}
  BY <1>2 DEF Ascends, Range
<1>7. BeforeReport(plan, "RUN_BETTERGI") = low \o high
  BY <1>3 DEF BeforeReport, Front, Last
<1> HIDE DEF low, high
<1>8. \A s \in Range(low) : s \in RealStages /\ s \notin {"RUN_BETTERGI", "WRITE_RUN_REPORT"}
  <2> SUFFICES ASSUME NEW s \in Range(low)
               PROVE  /\ s \in RealStages /\ s \in Range(plan)
                      /\ s # "WRITE_RUN_REPORT"
    OBVIOUS
  <2>1. PICK k \in 1..n : k <= n - 1 /\ plan[k] = s
    BY <1>5
  <2>2. k # n
    BY <1>1, <2>1
  <2>3. plan[k] # plan[n]
    BY <1>3, <2>2, AscendingOrder DEF n
  <2> QED
    BY <1>1, <1>3, <2>1, <2>3
<1>9. \A s \in Range(low), t \in Range(high) : Rank[s] < Rank[t]
  <2> SUFFICES ASSUME NEW s \in Range(low), NEW t \in Range(high) PROVE Rank[s] < Rank[t]
    OBVIOUS
  <2>1. Rank[s] < 19 /\ Rank[s] \in Nat
    BY <1>2, <1>8, Ranks
  <2>2. Rank[t] = 19 \/ Rank[t] = 20
    BY <1>2, <1>6
  <2> QED
    BY <2>1, <2>2
<1>10. /\ Ascends(low \o high)
       /\ \A s : s \in Range(low \o high) <=> s \in Range(low) \/ s \in Range(high)
  BY <1>5, <1>6, <1>9, JoinKeeps
<1>11. \A s : s \in Range(plan) <=> s \in Range(low) \/ s = "WRITE_RUN_REPORT"
  <2>1. \A k \in 1..n : 1 <= k /\ (k = n \/ k <= n - 1)
    BY <1>1
  <2> QED
    BY <1>1, <1>3, <1>5, <2>1
<1> QED
  BY <1>6, <1>7, <1>10, <1>11

-----------------------------------------------------------------------------
(* The static plans.                                                        *)
LEMMA StaticAscend ==
  /\ Ascends(ManagedPlan) /\ Ascends(ExternalPlan) /\ Ascends(FgoPlan)
  /\ Ascends(FgoExternalPlan) /\ Ascends(FgoStages)
<1>1. Ascends(ManagedPlan)
  BY DEF Ascends, ManagedPlan, RealStages, Rank
<1>2. Ascends(ExternalPlan)
  BY DEF Ascends, ExternalPlan, RealStages, Rank
<1>3. Ascends(FgoPlan)
  BY DEF Ascends, FgoPlan, RealStages, Rank
<1>4. Ascends(FgoExternalPlan)
  BY DEF Ascends, FgoExternalPlan, RealStages, Rank
<1>5. Ascends(FgoStages)
  BY DEF Ascends, FgoStages, RealStages, Rank
<1> QED
  BY <1>1, <1>2, <1>3, <1>4, <1>5

LEMMA StaticStages ==
  /\ \A s : s \in Range(ManagedPlan) <=>
            s \in {"VALIDATE_CONFIG", "SYNC_MAA_CONFIG", "UPDATE_MAA", "MERGE_MAA_RESOURCE",
                  "ENSURE_MUMU_RUNNING", "WAIT_MUMU_ADB_READY", "RUN_STARRAIL",
                  "STOP_STARRAIL", "VERIFY_STARRAIL_STOPPED", "STOP_MUMU",
                  "VERIFY_MUMU_STOPPED", "START_MUMU", "WAIT_MUMU_ADB_READY_AFTER_RESTART",
                  "RUN_MAA", "SHUTDOWN_MUMU", "WRITE_RUN_REPORT"}
  /\ \A s : s \in Range(ExternalPlan) <=> s \in Range(ManagedPlan) /\ s \notin LifecycleStages
  /\ \A s : s \in Range(FgoPlan) <=>
            s \in {"VALIDATE_CONFIG", "ENSURE_MUMU_RUNNING", "WAIT_MUMU_ADB_READY",
                  "PREPARE_MAAFGO_RUN", "RUN_MAAFGO", "STOP_FGO", "SHUTDOWN_MUMU",
                  "WRITE_RUN_REPORT"}
  /\ \A s : s \in Range(FgoExternalPlan) <=> s \in Range(FgoPlan) /\ s \notin LifecycleStages
  /\ \A s : s \in Range(FgoStages) <=> s \in {"PREPARE_MAAFGO_RUN", "RUN_MAAFGO", "STOP_FGO"}
<1>1. \A s : s \in Range(ManagedPlan) <=>
            s \in {"VALIDATE_CONFIG", "SYNC_MAA_CONFIG", "UPDATE_MAA", "MERGE_MAA_RESOURCE",
                  "ENSURE_MUMU_RUNNING", "WAIT_MUMU_ADB_READY", "RUN_STARRAIL",
                  "STOP_STARRAIL", "VERIFY_STARRAIL_STOPPED", "STOP_MUMU",
                  "VERIFY_MUMU_STOPPED", "START_MUMU", "WAIT_MUMU_ADB_READY_AFTER_RESTART",
                  "RUN_MAA", "SHUTDOWN_MUMU", "WRITE_RUN_REPORT"}
  BY DEF Range, ManagedPlan
<1>2. \A s : s \in Range(ExternalPlan) <=>
            s \in {"VALIDATE_CONFIG", "SYNC_MAA_CONFIG", "UPDATE_MAA", "MERGE_MAA_RESOURCE",
                  "ENSURE_MUMU_RUNNING", "WAIT_MUMU_ADB_READY", "RUN_STARRAIL",
                  "STOP_STARRAIL", "VERIFY_STARRAIL_STOPPED", "RUN_MAA", "WRITE_RUN_REPORT"}
  BY DEF Range, ExternalPlan
<1>3. \A s : s \in Range(FgoPlan) <=>
            s \in {"VALIDATE_CONFIG", "ENSURE_MUMU_RUNNING", "WAIT_MUMU_ADB_READY",
                  "PREPARE_MAAFGO_RUN", "RUN_MAAFGO", "STOP_FGO", "SHUTDOWN_MUMU",
                  "WRITE_RUN_REPORT"}
  BY DEF Range, FgoPlan
<1>4. \A s : s \in Range(FgoExternalPlan) <=>
            s \in {"VALIDATE_CONFIG", "ENSURE_MUMU_RUNNING", "WAIT_MUMU_ADB_READY",
                  "PREPARE_MAAFGO_RUN", "RUN_MAAFGO", "STOP_FGO", "WRITE_RUN_REPORT"}
  BY DEF Range, FgoExternalPlan
<1>5. \A s : s \in Range(FgoStages) <=> s \in {"PREPARE_MAAFGO_RUN", "RUN_MAAFGO", "STOP_FGO"}
  BY DEF Range, FgoStages
<1> QED
  BY <1>1, <1>2, <1>3, <1>4, <1>5 DEF LifecycleStages

(* The FGO stages fit after RUN_MAA.                                        *)
LEMMA CombinedKeeps ==
  ASSUME NEW p \in {ManagedPlan, ExternalPlan}
  PROVE  /\ Has(p, "RUN_MAA")
         /\ Ascends(InsertAfter(p, "RUN_MAA", FgoStages))
         /\ \A s : s \in Range(InsertAfter(p, "RUN_MAA", FgoStages)) <=>
                   s \in Range(p) \/ s \in Range(FgoStages)
<1>1. Ascends(p) /\ Ascends(FgoStages)
  BY StaticAscend
<1>2. \A s \in Range(p) : s \in Range(ManagedPlan)
  BY StaticStages
<1>3. "RUN_MAA" \in Range(p)
  BY StaticStages DEF LifecycleStages
<1>4. Has(p, "RUN_MAA")
  BY <1>3 DEF Has, Range
<1>5. \A t \in Range(FgoStages) :
        /\ Rank["RUN_MAA"] < Rank[t]
        /\ \A s \in Range(p) : Rank["RUN_MAA"] < Rank[s] => Rank[t] < Rank[s]
  <2>1. \A t \in Range(FgoStages) : Rank[t] \in {15, 16, 17}
    BY StaticStages DEF Rank
  <2>2. \A s \in Range(ManagedPlan) : Rank[s] \in 1..14 \/ Rank[s] \in {18, 20}
    BY StaticStages DEF Rank
  <2>3. Rank["RUN_MAA"] = 14
    BY DEF Rank
  <2> QED
    BY <1>2, <2>1, <2>2, <2>3
<1> QED
  BY <1>1, <1>4, <1>5, InsertKeeps

(* The stages of the plan that is built for the options.                    *)
StagesFor(o) ==
  {s \in RealStages :
     /\ \/ o.game = "fgo" /\ s \in Range(FgoPlan)
        \/ /\ o.game = "starrail"
           /\ \/ s \in Range(ManagedPlan)
              \/ o.append /\ s \in Range(FgoStages)
              \/ o.bettergi /\ s = "RUN_BETTERGI"
     /\ o.external => s \notin LifecycleStages
     /\ o.skipMaa => s \notin MaaStages}

LEMMA BuiltPlan ==
  ASSUME NEW o \in Options
  PROVE  /\ Ascends(BuildPlan(o))
         /\ \A s : s \in Range(BuildPlan(o)) <=> s \in StagesFor(o)
<1> DEFINE base    == IF o.game = "fgo" THEN FgoPlan ELSE ManagedPlan
           withFgo == IF o.game = "starrail" /\ o.append
                      THEN InsertAfter(base, "RUN_MAA", FgoStages) ELSE base
           mode    == IF o.external THEN Without(withFgo, LifecycleStages) ELSE withFgo
           withBgi == IF RunsBettergi(o) THEN BeforeReport(mode, "RUN_BETTERGI") ELSE mode
           whole   == IF o.skipMaa THEN Without(withBgi, MaaStages) ELSE withBgi
<1>1. BuildPlan(o) = whole
  BY DEF BuildPlan
<1>2. o.game = "starrail" \/ o.game = "fgo"
  BY DEF Options
<1>3. /\ Ascends(base)
      /\ \A s : s \in Range(base) <=> \/ o.game = "fgo" /\ s \in Range(FgoPlan)
                                      \/ o.game = "starrail" /\ s \in Range(ManagedPlan)
  <2>1. CASE o.game = "fgo"
    <3>1. base = FgoPlan /\ o.game # "starrail"
      BY <2>1
    <3> HIDE DEF base
    <3> QED
      BY <2>1, <3>1, StaticAscend
  <2>2. CASE o.game = "starrail"
    <3>1. base = ManagedPlan /\ o.game # "fgo"
      BY <2>2
    <3> HIDE DEF base
    <3> QED
      BY <2>2, <3>1, StaticAscend
  <2> QED
    BY <1>2, <2>1, <2>2
<1>4. /\ Ascends(withFgo)
      /\ \A s : s \in Range(withFgo) <=>
                \/ s \in Range(base)
                \/ o.game = "starrail" /\ o.append /\ s \in Range(FgoStages)
  BY <1>3, CombinedKeeps
<1> HIDE DEF base, withFgo
<1>5. /\ Ascends(mode)
      /\ \A s : s \in Range(mode) <=>
                s \in Range(withFgo) /\ (o.external => s \notin LifecycleStages)
  BY <1>4, WithoutKeeps
<1> HIDE DEF mode
<1>6. /\ Ascends(withBgi)
      /\ \A s : s \in Range(withBgi) <=>
                s \in Range(mode) \/ (RunsBettergi(o) /\ s = "RUN_BETTERGI")
  <2>1. ASSUME RunsBettergi(o)
        PROVE  "WRITE_RUN_REPORT" \in Range(mode) /\ "RUN_BETTERGI" \notin Range(mode)
    BY <1>3, <1>4, <1>5, <2>1, StaticStages DEF RunsBettergi, LifecycleStages
  <2> QED
    BY <1>5, <2>1, BeforeReportKeeps
<1> HIDE DEF withBgi
<1>7. /\ Ascends(whole)
      /\ \A s : s \in Range(whole) <=>
                s \in Range(withBgi) /\ (o.skipMaa => s \notin MaaStages)
  BY <1>6, WithoutKeeps
<1> HIDE DEF whole
<1>8. \A s : s \in Range(whole) => s \in RealStages
  BY <1>7, RangeIs DEF Ascends
<1>9. \A s : s \in Range(whole) <=> s \in StagesFor(o)
  <2> SUFFICES ASSUME NEW s PROVE s \in Range(whole) <=> s \in StagesFor(o)
    OBVIOUS
  <2>1. s \in Range(base) <=> \/ o.game = "fgo" /\ s \in Range(FgoPlan)
                              \/ o.game = "starrail" /\ s \in Range(ManagedPlan)
    BY <1>3
  <2>2. s \in Range(withFgo) <=> \/ s \in Range(base)
                                 \/ o.game = "starrail" /\ o.append /\ s \in Range(FgoStages)
    BY <1>4
  <2>3. s \in Range(mode) <=> s \in Range(withFgo) /\ (o.external => s \notin LifecycleStages)
    BY <1>5
  <2>4. s \in Range(withBgi) <=> \/ s \in Range(mode)
                                 \/ o.game = "starrail" /\ o.bettergi /\ s = "RUN_BETTERGI"
    BY <1>6 DEF RunsBettergi
  <2>5. s \in Range(whole) <=> s \in Range(withBgi) /\ (o.skipMaa => s \notin MaaStages)
    BY <1>7
  <2>6. s = "RUN_BETTERGI" => s \notin LifecycleStages
    BY DEF LifecycleStages
  <2>7. s \in Range(whole) => s \in RealStages
    BY <1>8
  <2>8. s \in StagesFor(o) <=>
          /\ s \in RealStages
          /\ \/ o.game = "fgo" /\ s \in Range(FgoPlan)
             \/ /\ o.game = "starrail"
                /\ \/ s \in Range(ManagedPlan)
                   \/ o.append /\ s \in Range(FgoStages)
                   \/ o.bettergi /\ s = "RUN_BETTERGI"
          /\ o.external => s \notin LifecycleStages
          /\ o.skipMaa => s \notin MaaStages
    BY DEF StagesFor
  <2> QED
    BY ONLY <2>1, <2>2, <2>3, <2>4, <2>5, <2>6, <2>7, <2>8
<1> QED
  BY <1>1, <1>7, <1>9

(* What the gate accepts.                                                   *)
LEMMA AllowedIs ==
  ASSUME NEW p \in {ManagedPlan, ExternalPlan},
         NEW q, q = p \/ q = InsertAfter(p, "RUN_MAA", FgoStages),
         NEW r, r = q \/ r = BeforeReport(q, "RUN_BETTERGI")
  PROVE  r \in AllowedPlans /\ (Has(r, "RUN_MAA") => Without(r, MaaStages) \in AllowedPlans)
<1> DEFINE combined == {InsertAfter(x, "RUN_MAA", FgoStages) : x \in {ExternalPlan, ManagedPlan}}
           bettergi == {BeforeReport(x, "RUN_BETTERGI") :
                          x \in {ExternalPlan, ManagedPlan} \cup combined}
           fixed    == {ExternalPlan, ManagedPlan, FgoPlan, FgoExternalPlan}
           full     == fixed \cup combined \cup bettergi
<1>1. q \in {ExternalPlan, ManagedPlan} \cup combined
  OBVIOUS
<1> HIDE DEF combined
<1>2. r \in full
  BY <1>1
<1> HIDE DEF full
<1>3. AllowedPlans = full \cup {Without(x, MaaStages) : x \in {y \in full : Has(y, "RUN_MAA")}}
  BY DEF AllowedPlans, full, combined
<1> QED
  BY <1>2, <1>3

LEMMA FgoAllowed == FgoPlan \in AllowedPlans /\ FgoExternalPlan \in AllowedPlans
BY DEF AllowedPlans

(* The options turn one static plan into another, or into one that is made  *)
(* from it in the same way.                                                 *)
LEMMA StaticWithout ==
  /\ Without(ManagedPlan, LifecycleStages) = ExternalPlan
  /\ Without(InsertAfter(ManagedPlan, "RUN_MAA", FgoStages), LifecycleStages)
       = InsertAfter(ExternalPlan, "RUN_MAA", FgoStages)
  /\ Without(FgoPlan, LifecycleStages) = FgoExternalPlan
  /\ Without(FgoPlan, MaaStages) = FgoPlan
  /\ Without(FgoExternalPlan, MaaStages) = FgoExternalPlan
<1>1. Without(ManagedPlan, LifecycleStages) = ExternalPlan
  <2>1. /\ Ascends(Without(ManagedPlan, LifecycleStages))
        /\ \A s : s \in Range(Without(ManagedPlan, LifecycleStages)) <=>
                  s \in Range(ManagedPlan) /\ s \notin LifecycleStages
    BY StaticAscend, WithoutKeeps
  <2>2. \A s : s \in Range(Without(ManagedPlan, LifecycleStages)) <=> s \in Range(ExternalPlan)
    BY <2>1, StaticStages
  <2> QED
    BY <2>1, <2>2, StaticAscend, SamePlan
<1>2. Without(InsertAfter(ManagedPlan, "RUN_MAA", FgoStages), LifecycleStages)
        = InsertAfter(ExternalPlan, "RUN_MAA", FgoStages)
  <2> DEFINE im == InsertAfter(ManagedPlan, "RUN_MAA", FgoStages)
             ie == InsertAfter(ExternalPlan, "RUN_MAA", FgoStages)
  <2>1. /\ Ascends(im) /\ \A s : s \in Range(im) <=> s \in Range(ManagedPlan) \/ s \in Range(FgoStages)
        /\ Ascends(ie) /\ \A s : s \in Range(ie) <=> s \in Range(ExternalPlan) \/ s \in Range(FgoStages)
    BY CombinedKeeps
  <2> HIDE DEF im, ie
  <2>2. /\ Ascends(Without(im, LifecycleStages))
        /\ \A s : s \in Range(Without(im, LifecycleStages)) <=>
                  s \in Range(im) /\ s \notin LifecycleStages
    BY <2>1, WithoutKeeps
  <2>3. \A s : s \in Range(FgoStages) => s \notin LifecycleStages
    BY StaticStages DEF LifecycleStages
  <2>4. \A s : s \in Range(Without(im, LifecycleStages)) <=> s \in Range(ie)
    BY <2>1, <2>2, <2>3, StaticStages
  <2>5. Without(im, LifecycleStages) = ie
    BY <2>1, <2>2, <2>4, SamePlan
  <2> QED
    BY <2>5 DEF im, ie
<1>3. Without(FgoPlan, LifecycleStages) = FgoExternalPlan
  <2>1. /\ Ascends(Without(FgoPlan, LifecycleStages))
        /\ \A s : s \in Range(Without(FgoPlan, LifecycleStages)) <=>
                  s \in Range(FgoPlan) /\ s \notin LifecycleStages
    BY StaticAscend, WithoutKeeps
  <2>2. \A s : s \in Range(Without(FgoPlan, LifecycleStages)) <=> s \in Range(FgoExternalPlan)
    BY <2>1, StaticStages
  <2> QED
    BY <2>1, <2>2, StaticAscend, SamePlan
<1>4. ASSUME NEW p \in {FgoPlan, FgoExternalPlan}
      PROVE  Without(p, MaaStages) = p
  <2>1. Ascends(p) /\ \A s : s \in Range(p) => s \in Range(FgoPlan)
    BY StaticAscend, StaticStages
  <2>2. /\ Ascends(Without(p, MaaStages))
        /\ \A s : s \in Range(Without(p, MaaStages)) <=> s \in Range(p) /\ s \notin MaaStages
    BY <2>1, WithoutKeeps
  <2>3. \A s : s \in Range(FgoPlan) => s \notin MaaStages
    BY StaticStages DEF MaaStages
  <2>4. \A s : s \in Range(Without(p, MaaStages)) <=> s \in Range(p)
    BY <2>1, <2>2, <2>3
  <2> QED
    BY <2>1, <2>2, <2>4, SamePlan
<1> QED
  BY <1>1, <1>2, <1>3, <1>4

LEMMA BuiltIsAllowed == \A o \in Options : BuildPlan(o) \in AllowedPlans
<1> SUFFICES ASSUME NEW o \in Options PROVE BuildPlan(o) \in AllowedPlans
  OBVIOUS
<1>1. CASE o.game = "fgo"
  <2> DEFINE mode == IF o.external THEN FgoExternalPlan ELSE FgoPlan
  <2>1. BuildPlan(o) = IF o.skipMaa THEN Without(mode, MaaStages) ELSE mode
    BY <1>1, StaticWithout DEF BuildPlan, RunsBettergi
  <2> QED
    BY <2>1, StaticWithout, FgoAllowed
<1>2. CASE o.game = "starrail"
  <2> DEFINE base == IF o.external THEN ExternalPlan ELSE ManagedPlan
             mode == IF o.append THEN InsertAfter(base, "RUN_MAA", FgoStages) ELSE base
             full == IF o.bettergi THEN BeforeReport(mode, "RUN_BETTERGI") ELSE mode
  <2>1. BuildPlan(o) = IF o.skipMaa THEN Without(full, MaaStages) ELSE full
    BY <1>2, StaticWithout DEF BuildPlan, RunsBettergi
  <2>2. base \in {ManagedPlan, ExternalPlan}
    OBVIOUS
  <2> HIDE DEF base
  <2>3. /\ Ascends(base) /\ "RUN_MAA" \in Range(base) /\ "WRITE_RUN_REPORT" \in Range(base)
        /\ "RUN_BETTERGI" \notin Range(base)
    BY <2>2, StaticAscend, StaticStages DEF LifecycleStages
  <2>4. /\ mode = base \/ mode = InsertAfter(base, "RUN_MAA", FgoStages)
        /\ Ascends(mode) /\ "RUN_MAA" \in Range(mode) /\ "WRITE_RUN_REPORT" \in Range(mode)
        /\ "RUN_BETTERGI" \notin Range(mode)
    <3>1. "RUN_BETTERGI" \notin Range(FgoStages)
      BY StaticStages
    <3> QED
      BY <2>2, <2>3, <3>1, CombinedKeeps
  <2> HIDE DEF mode
  <2>5. /\ full = mode \/ full = BeforeReport(mode, "RUN_BETTERGI")
        /\ Ascends(full) /\ "RUN_MAA" \in Range(full)
    BY <2>4, BeforeReportKeeps
  <2> HIDE DEF full
  <2>6. Has(full, "RUN_MAA")
    BY <2>5 DEF Has, Range
  <2> QED
    BY <2>1, <2>2, <2>4, <2>5, <2>6, AllowedIs
<1> QED
  BY <1>1, <1>2 DEF Options

-----------------------------------------------------------------------------
(* What a plan needs comes before what needs it.                            *)
LEMMA DependsOnLower ==
  ASSUME NEW plan, NEW stage \in RealStages, NEW d \in Dependencies(plan, stage)
  PROVE  d \in Range(plan) /\ Rank[d] < Rank[stage] /\ stage # "SHUTDOWN_MUMU"
<1> DEFINE ready == IF Has(plan, "START_MUMU") THEN "WAIT_MUMU_ADB_READY_AFTER_RESTART"
                                               ELSE "WAIT_MUMU_ADB_READY"
           wanted ==
             CASE stage = "MERGE_MAA_RESOURCE"  -> {"UPDATE_MAA"}
               [] stage = "WAIT_MUMU_ADB_READY" -> {"ENSURE_MUMU_RUNNING"}
               [] stage = "RUN_STARRAIL"        -> {"WAIT_MUMU_ADB_READY"}
               [] stage = "VERIFY_MUMU_STOPPED" -> {"STOP_MUMU"}
               [] stage = "START_MUMU"          -> {"VERIFY_MUMU_STOPPED"}
               [] stage = "WAIT_MUMU_ADB_READY_AFTER_RESTART" -> {"START_MUMU"}
               [] stage = "RUN_MAA" -> {"SYNC_MAA_CONFIG", "UPDATE_MAA",
                                        "MERGE_MAA_RESOURCE", ready}
               [] stage = "PREPARE_MAAFGO_RUN"  -> {ready}
               [] stage = "RUN_MAAFGO"          -> {"PREPARE_MAAFGO_RUN"}
               [] OTHER                         -> {}
<1>1. d \in wanted /\ d \in Range(plan)
  BY DEF Dependencies
<1>2. ready \in {"WAIT_MUMU_ADB_READY_AFTER_RESTART", "WAIT_MUMU_ADB_READY"}
  OBVIOUS
<1> HIDE DEF ready
<1>3. \/ stage = "MERGE_MAA_RESOURCE" /\ d = "UPDATE_MAA"
      \/ stage = "WAIT_MUMU_ADB_READY" /\ d = "ENSURE_MUMU_RUNNING"
      \/ stage = "RUN_STARRAIL" /\ d = "WAIT_MUMU_ADB_READY"
      \/ stage = "VERIFY_MUMU_STOPPED" /\ d = "STOP_MUMU"
      \/ stage = "START_MUMU" /\ d = "VERIFY_MUMU_STOPPED"
      \/ stage = "WAIT_MUMU_ADB_READY_AFTER_RESTART" /\ d = "START_MUMU"
      \/ stage = "RUN_MAA" /\ d \in {"SYNC_MAA_CONFIG", "UPDATE_MAA", "MERGE_MAA_RESOURCE", ready}
      \/ stage = "PREPARE_MAAFGO_RUN" /\ d = ready
      \/ stage = "RUN_MAAFGO" /\ d = "PREPARE_MAAFGO_RUN"
  BY <1>1
<1> HIDE DEF wanted
<1> QED
  BY <1>1, <1>2, <1>3 DEF Rank

(* The first and the last stage of a plan.                                  *)
LEMMA Ends ==
  ASSUME NEW plan, Ascends(plan), "VALIDATE_CONFIG" \in Range(plan),
         "WRITE_RUN_REPORT" \in Range(plan)
  PROVE  /\ Len(plan) \in Nat /\ Len(plan) >= 2
         /\ plan[1] = "VALIDATE_CONFIG" /\ plan[Len(plan)] = "WRITE_RUN_REPORT"
<1> DEFINE n == Len(plan)
<1>1. /\ n \in Nat /\ \A k \in 1..n : plan[k] \in RealStages
      /\ \A s : s \in Range(plan) <=> \E k \in 1..n : plan[k] = s
  BY RangeIs DEF Ascends
<1>2. PICK i \in 1..n : plan[i] = "VALIDATE_CONFIG"
  BY <1>1
<1>3. PICK j \in 1..n : plan[j] = "WRITE_RUN_REPORT"
  BY <1>1
<1>4. 1 \in 1..n /\ n \in 1..n
  BY <1>1, <1>2
<1>5. Rank[plan[1]] \in 1..20 /\ Rank[plan[n]] \in 1..20
  BY <1>1, <1>4, Ranks
<1>6. Rank["VALIDATE_CONFIG"] = 1 /\ Rank["WRITE_RUN_REPORT"] = 20
  BY DEF Rank
<1>7. ~(1 < i) /\ ~(j < n)
  <2>1. 1 < i => Rank[plan[1]] < Rank[plan[i]]
    BY <1>4 DEF Ascends
  <2>2. j < n => Rank[plan[j]] < Rank[plan[n]]
    BY <1>4 DEF Ascends
  <2> QED
    BY <1>2, <1>3, <1>5, <1>6, <2>1, <2>2
<1>8. i = 1 /\ j = n
  BY <1>1, <1>2, <1>3, <1>7
<1>9. n # 1
  BY <1>2, <1>3, <1>8
<1> QED
  BY <1>1, <1>2, <1>3, <1>4, <1>8, <1>9

LEMMA RankOrders ==
  ASSUME NEW plan, Ascends(plan), NEW s, NEW t, Rank[s] < Rank[t]
  PROVE  InOrder(plan, s, t)
<1>1. \A i, j \in 1..Len(plan) : plan[i] = s /\ plan[j] = t => i < j
  BY AscendingOrder
<1> QED
  BY <1>1 DEF InOrder

LEMMA BuiltIsLawful ==
  ASSUME NEW o \in Options, NEW c \in BOOLEAN, NEW stop \in BOOLEAN, RealStages \subseteq Stages,
         NEW w, w = Workflow(o, c, stop)
  PROVE  PlanOK(w.plan) /\ DepsOK(w) /\ w.continue \in BOOLEAN /\ ProductionOK(w)
<1> DEFINE plan == BuildPlan(o)
           n    == Len(plan)
<1>1. /\ Ascends(plan) /\ \A s : s \in Range(plan) <=> s \in StagesFor(o)
  BY BuiltPlan
<1> HIDE DEF plan
<1>2. /\ w.plan = plan /\ w.continue = c /\ w.external = o.external /\ w.stopGame = stop
      /\ w.deps = [s \in Range(plan) |-> Dependencies(plan, s)]
      /\ w.cleanup = CleanupStages(plan, o.external) \cap Range(plan)
  BY DEF Workflow, plan
<1>3. /\ n \in Nat /\ \A k \in 1..n : plan[k] \in RealStages /\ plan[k] \in Range(plan)
      /\ \A s : s \in Range(plan) <=> \E k \in 1..n : plan[k] = s
      /\ plan \in Seq(RealStages)
  BY <1>1, RangeIs DEF Ascends
<1>4. o.game \in {"starrail", "fgo"} /\ o.external \in BOOLEAN
  BY DEF Options
<1>5. "VALIDATE_CONFIG" \in Range(plan) /\ "WRITE_RUN_REPORT" \in Range(plan)
  BY <1>1, <1>4, StaticStages DEF StagesFor, RealStages, Rank, LifecycleStages, MaaStages
<1>6. n >= 2 /\ plan[1] = "VALIDATE_CONFIG" /\ plan[n] = "WRITE_RUN_REPORT"
  BY <1>1, <1>5, Ends
<1>7. PlanOK(w.plan)
  <2>1. plan \in Seq(Stages)
    BY <1>3
  <2>2. \A i, j \in 1..n : plan[i] = plan[j] => i = j
    BY <1>1, AscendingOrder
  <2> QED
    BY <1>2, <1>6, <2>1, <2>2 DEF PlanOK
<1>8. \A k \in 1..n : w.deps[plan[k]] = Dependencies(plan, plan[k])
  BY <1>2, <1>3
<1>9. DepsOK(w)
  <2> SUFFICES ASSUME NEW j \in 1..n, NEW d \in Dependencies(plan, plan[j])
               PROVE  \E i \in 1..(j - 1) : plan[i] = d
    BY <1>2, <1>8 DEF DepsOK
  <2>1. d \in Range(plan) /\ Rank[d] < Rank[plan[j]]
    BY <1>3, DependsOnLower
  <2>2. PICK i \in 1..n : plan[i] = d
    BY <1>3, <2>1
  <2>3. i < j
    BY <1>1, <2>1, <2>2, AscendingOrder DEF n
  <2> QED
    BY <1>3, <2>2, <2>3
<1>10. ProductionOK(w)
  <2>1. /\ InOrder(plan, "RUN_STARRAIL", "RUN_MAA")
        /\ InOrder(plan, "RUN_STARRAIL", "PREPARE_MAAFGO_RUN")
        /\ InOrder(plan, "RUN_MAA", "PREPARE_MAAFGO_RUN")
        /\ InOrder(plan, "RUN_MAAFGO", "STOP_FGO")
        /\ InOrder(plan, "ENSURE_MUMU_RUNNING", "SHUTDOWN_MUMU")
        /\ InOrder(plan, "START_MUMU", "SHUTDOWN_MUMU")
        /\ InOrder(plan, "STOP_FGO", "SHUTDOWN_MUMU")
    <3>1. /\ Rank["RUN_STARRAIL"] < Rank["RUN_MAA"]
          /\ Rank["RUN_STARRAIL"] < Rank["PREPARE_MAAFGO_RUN"]
          /\ Rank["RUN_MAA"] < Rank["PREPARE_MAAFGO_RUN"]
          /\ Rank["RUN_MAAFGO"] < Rank["STOP_FGO"]
          /\ Rank["ENSURE_MUMU_RUNNING"] < Rank["SHUTDOWN_MUMU"]
          /\ Rank["START_MUMU"] < Rank["SHUTDOWN_MUMU"]
          /\ Rank["STOP_FGO"] < Rank["SHUTDOWN_MUMU"]
      BY DEF Rank
    <3> QED
      BY <1>1, <3>1, RankOrders
  <2>2. w.cleanup \subseteq {"STOP_FGO", "SHUTDOWN_MUMU"}
    BY <1>2 DEF CleanupStages
  <2>3. ~o.external => "SHUTDOWN_MUMU" \in Range(plan) /\ "SHUTDOWN_MUMU" \in w.cleanup
    <3>1. ~o.external => "SHUTDOWN_MUMU" \in StagesFor(o)
      BY <1>4, StaticStages DEF StagesFor, RealStages, Rank, MaaStages
    <3> QED
      BY <1>1, <1>2, <3>1 DEF CleanupStages
  <2>4. ~o.external => \E j \in 1..(n - 1) : plan[j] = "SHUTDOWN_MUMU"
    <3> SUFFICES ASSUME ~o.external PROVE \E j \in 1..(n - 1) : plan[j] = "SHUTDOWN_MUMU"
      OBVIOUS
    <3>1. PICK j \in 1..n : plan[j] = "SHUTDOWN_MUMU"
      BY <1>3, <2>3
    <3>2. j # n
      BY <1>6, <3>1
    <3> QED
      BY <1>3, <3>1, <3>2
  <2>5. "RUN_MAAFGO" \in Range(plan) => "STOP_FGO" \in Range(plan)
    <3>1. "RUN_MAAFGO" \in StagesFor(o) => "STOP_FGO" \in StagesFor(o)
      BY StaticStages DEF StagesFor, RealStages, Rank, LifecycleStages, MaaStages
    <3> QED
      BY <1>1, <3>1
  <2>6. "SHUTDOWN_MUMU" \in Range(plan) => ~o.external
    BY <1>1 DEF StagesFor, LifecycleStages
  <2>7. Dependencies(plan, "SHUTDOWN_MUMU") = {}
    <3>1. "SHUTDOWN_MUMU" \in RealStages
      BY DEF RealStages, Rank
    <3> QED
      BY <3>1, DependsOnLower
  <2>8. ASSUME NEW i \in 1..n
        PROVE  /\ plan[i] = "RUN_MAAFGO" => \E j \in 1..n : plan[j] = "STOP_FGO"
               /\ plan[i] = "SHUTDOWN_MUMU" => plan[i] \in w.cleanup /\ w.deps[plan[i]] = {}
    BY <1>3, <1>8, <2>3, <2>5, <2>6, <2>7
  <2> QED
    BY <1>2, <2>1, <2>2, <2>4, <2>8, <1>4 DEF ProductionOK
<1> QED
  BY <1>2, <1>7, <1>9, <1>10

(* What the production composition hands to the Runner is a workflow that   *)
(* the Runner accepts and that has what III assumes of it: each stage       *)
(* depends on earlier ones only, and the stops come after what they stop.   *)
THEOREM PlansAreLawful ==
  ASSUME NEW o \in Options, NEW c \in BOOLEAN, NEW stop \in BOOLEAN, RealStages \subseteq Stages
  PROVE  LET w == Workflow(o, c, stop)
         IN  PlanOK(w.plan) /\ DepsOK(w) /\ w.continue \in BOOLEAN /\ ProductionOK(w)
BY BuiltIsLawful

(* Whatever the configuration, the plan that is built for it passes the     *)
(* gate of validate_external_plan.                                          *)
THEOREM PlansPassTheGate ==
  (\A w \in Workflows : \E o \in Options, c, stop \in BOOLEAN : w = Workflow(o, c, stop))
     => (ProductionSpec => []PlanAccepted)
<1> SUFFICES ASSUME \A w \in Workflows :
                      \E o \in Options, c, stop \in BOOLEAN : w = Workflow(o, c, stop)
             PROVE  ProductionSpec => []PlanAccepted
  OBVIOUS
<1>1. TypeOK => PlanAccepted
  <2> SUFFICES ASSUME TypeOK PROVE wf.plan \in AllowedPlans
    BY DEF PlanAccepted
  <2>1. PICK o \in Options, c \in BOOLEAN, stop \in BOOLEAN : wf = Workflow(o, c, stop)
    BY DEF TypeOK
  <2>2. wf.plan = BuildPlan(o)
    BY <2>1 DEF Workflow
  <2> QED
    BY <2>2, BuiltIsAllowed
<1> QED
  BY <1>1, ProductionIsRunner, TypeCorrect, PTL
=============================================================================
