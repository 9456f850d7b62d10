------------------------- MODULE ProductionWorkflow -------------------------
(***************************************************************************)
(* The production composition: WorkflowRunner over the plans of            *)
(* build_execution_plan, with ProductionStageExecutor behind every stage.  *)
(* Each action is an action of the Runner together with what the stage's   *)
(* executor does to ProductionWorkflowState and to the machine: the MuMu   *)
(* emulator, the automation processes that use it, the FGO app inside it.  *)
(*                                                                         *)
(* A Runtime Adapter is what its result says of it: owned_process_cleaned  *)
(* means that its process is gone, a confirmed stop that the emulator is   *)
(* down.                                                                   *)
(***************************************************************************)
EXTENDS WorkflowRunner, ExecutionPlan

CONSTANT MaxFaults   \* bound: failures and timeouts beyond those the state forces

(* What build_execution_plan and the composition say of the plans: the      *)
(* automations come in one order, MaaFgo is followed by STOP_FGO and that,  *)
(* like the managed starts, by a SHUTDOWN_MUMU that depends on nothing, and *)
(* only these two stops are cleanup.                                        *)
InOrder(plan, stage, next) ==
  \A i, j \in 1..Len(plan) : plan[i] = stage /\ plan[j] = next => i < j

ProductionOK(w) ==
  /\ w.external \in BOOLEAN /\ w.stopGame \in BOOLEAN
  /\ InOrder(w.plan, "RUN_STARRAIL", "RUN_MAA")
  /\ InOrder(w.plan, "RUN_STARRAIL", "PREPARE_MAAFGO_RUN")
  /\ InOrder(w.plan, "RUN_MAA", "PREPARE_MAAFGO_RUN")
  /\ InOrder(w.plan, "RUN_MAAFGO", "STOP_FGO")
  /\ InOrder(w.plan, "ENSURE_MUMU_RUNNING", "SHUTDOWN_MUMU")
  /\ InOrder(w.plan, "START_MUMU", "SHUTDOWN_MUMU")
  /\ InOrder(w.plan, "STOP_FGO", "SHUTDOWN_MUMU")
  /\ w.cleanup \subseteq {"STOP_FGO", "SHUTDOWN_MUMU"}
  /\ ~w.external => \E j \in 1..(Len(w.plan) - 1) : w.plan[j] = "SHUTDOWN_MUMU"
  /\ \A i \in 1..Len(w.plan) :
       /\ w.plan[i] = "RUN_MAAFGO" => \E j \in 1..Len(w.plan) : w.plan[j] = "STOP_FGO"
       /\ w.plan[i] = "SHUTDOWN_MUMU" =>
            w.plan[i] \in w.cleanup /\ w.deps[w.plan[i]] = {}

ASSUME ProductionAssumption == \A w \in Workflows : ProductionOK(w)

VARIABLES
  state,      \* ProductionWorkflowState
  mumuUp,     \* the emulator's ADB port is open
  ours,       \* history: this run issued or adopted the running instance
  alive,      \* automation processes that may still drive the emulator
  fgoApp      \* the FGO app runs in the emulator

world == << mumuUp, ours, alive, fgoApp >>
prodVars == << vars, state, world >>

FreshState == [starrailReached |-> FALSE, starrailCleaned |-> FALSE,
               mumuOwned |-> FALSE, maaReached |-> FALSE, maaCleaned |-> FALSE,
               contract |-> FALSE, fgoReached |-> FALSE]

ProductionInit ==
  /\ Init
  /\ state = FreshState
  /\ mumuUp \in BOOLEAN /\ ours = FALSE
  /\ alive = {} /\ fgoApp = FALSE

Failed    == Report("FAILURE", "WORKFLOW_STAGE_FAILED")
Cancelled == Report("CANCELLED", "WORKFLOW_CANCELLED")

-----------------------------------------------------------------------------
(* failure_cleanup_required *)
CleanupRequired(stage) ==
  \/ stage = "STOP_FGO" /\ state.fgoReached /\ wf.stopGame
  \/ stage = "SHUTDOWN_MUMU" /\ state.mumuOwned

(* The gates inside the executors: no automation starts on an emulator     *)
(* that an earlier one may still hold.                                     *)
StarrailGate(stage) ==
  /\ wf.continue
  /\ stage \in {"START_MUMU", "RUN_MAA", "PREPARE_MAAFGO_RUN"}
  /\ state.starrailReached /\ ~state.starrailCleaned

NoMaaGate(stage) == FALSE                                          \* mutant

MaaGate(stage) ==
  stage = "PREPARE_MAAFGO_RUN" /\ state.maaReached /\ ~state.maaCleaned

NotPrepared(stage) == stage = "RUN_MAAFGO" /\ ~state.contract

Gated(stage) == StarrailGate(stage) \/ MaaGate(stage) \/ NotPrepared(stage)

Script(stage) ==
  CASE stage = "RUN_STARRAIL" -> {"starrail"}
    [] stage = "RUN_MAA"      -> {"maa"}
    [] stage = "RUN_MAAFGO"   -> {"maafgo"}
    [] OTHER                  -> {}

(* Calling an executor: a script that passes its gates is launched.        *)
ExecuteStage ==
  /\ Execute
  /\ LET starts == ~Gated(Stage) IN
     /\ alive' = IF starts THEN alive \cup Script(Stage) ELSE alive
     /\ state' = [state EXCEPT
          !.maaReached = @ \/ (Stage = "RUN_MAA" /\ starts),
          !.fgoReached = @ \/ (Stage = "RUN_MAAFGO" /\ starts)]
  /\ UNCHANGED << mumuUp, ours, fgoApp >>

-----------------------------------------------------------------------------
(* What the executors return.  A stage is cancelled only through the token *)
(* it was given, and cleanup has one of its own that nobody cancels.  Two  *)
(* failure codes that the Runner treats alike are one here.                *)
Faults == Cardinality({i \in 1..Len(reports) :
                         reports[i].outcome \in {"FAILURE", "TIMEOUT"}})
Fault(r) ==
  \/ r \in {Failed, TimedOut} /\ Faults < MaxFaults
  \/ r = Cancelled /\ cancelled /\ ~cleaning

ReturnGated ==
  /\ pc = "executing" /\ Gated(Stage)
  /\ Return(Failed)
  /\ UNCHANGED << state, world >>

Ungated(stages) == pc = "executing" /\ Stage \in stages /\ ~Gated(Stage)

(* Configuration check, MAA sync, update and merge, BetterGI: nothing that *)
(* the other stages see, except through the report.                        *)
ReturnPlain(r) ==
  /\ Ungated({"VALIDATE_CONFIG", "SYNC_MAA_CONFIG", "UPDATE_MAA",
              "MERGE_MAA_RESOURCE", "RUN_BETTERGI"})
  /\ Stage = "VALIDATE_CONFIG" => r \in {Success, Failed}
  /\ r = Success \/ Fault(r)
  /\ Return(r)
  /\ UNCHANGED << state, world >>

(* Managed start.  The instance is taken over when the start succeeded,    *)
(* also if it was already running, or when it changed anything.            *)
TakenOverOnSuccess(r, changed) == r = Success                      \* mutant

TakenOver(r, changed) == r = Success \/ changed

ReturnStart(r, changed) ==
  /\ Ungated({"ENSURE_MUMU_RUNNING", "START_MUMU"}) /\ ~wf.external
  /\ r = Success \/ Fault(r)
  /\ Return(r)
  /\ IF r = Success THEN mumuUp' = TRUE
     ELSE IF changed THEN mumuUp' \in BOOLEAN ELSE UNCHANGED mumuUp
  /\ ours' = (ours \/ r = Success \/ changed)
  /\ fgoApp' = (fgoApp /\ mumuUp')
  /\ state' = [state EXCEPT !.mumuOwned = @ \/ TakenOver(r, changed)]
  /\ UNCHANGED alive

(* Managed stop: only a closed port confirms it.                           *)
DeviceGone(up) == TRUE                                             \* mutant

StopConfirmed(up) == ~up

ReturnStop(r) ==
  /\ Ungated({"STOP_MUMU", "SHUTDOWN_MUMU"})
  /\ r = Success \/ Fault(r)
  /\ Return(r)
  /\ mumuUp' \in {mumuUp, FALSE}
  /\ r = Success => StopConfirmed(mumuUp')
  /\ ours' = (ours /\ mumuUp')
  /\ fgoApp' = (fgoApp /\ mumuUp')
  /\ state' = [state EXCEPT !.mumuOwned = @ /\ r # Success]
  /\ UNCHANGED alive

(* Stages that only look: readiness wants the emulator, the verification   *)
(* of a stop wants it gone.                                                *)
ReturnStatus(r) ==
  LET holds == IF Stage = "VERIFY_MUMU_STOPPED" THEN ~mumuUp ELSE mumuUp IN
  /\ \/ Ungated({"WAIT_MUMU_ADB_READY", "VERIFY_MUMU_STOPPED",
                 "WAIT_MUMU_ADB_READY_AFTER_RESTART"})
     \/ Ungated({"ENSURE_MUMU_RUNNING"}) /\ wf.external
  /\ \/ r = Success /\ holds
     \/ Fault(r)
     \/ r = Failed /\ ~holds
  /\ Return(r)
  /\ UNCHANGED << state, world >>

(* An automation ends.  A success implies that its process is gone; other  *)
(* results say whether it is, and if not it may or may not be alive.       *)
ReturnScript(r, cleaned) ==
  /\ Ungated({"RUN_STARRAIL", "RUN_MAA", "RUN_MAAFGO"})
  /\ (r = Success /\ cleaned) \/ Fault(r)
  /\ Return(r)
  /\ alive' \in {alive \ Script(Stage)} \cup (IF cleaned THEN {} ELSE {alive})
  /\ state' = [state EXCEPT
       !.starrailReached = @ \/ Stage = "RUN_STARRAIL",
       !.starrailCleaned = IF Stage = "RUN_STARRAIL" THEN cleaned ELSE @,
       !.maaCleaned = IF Stage = "RUN_MAA" THEN cleaned ELSE @]
  /\ fgoApp' \in IF Stage = "RUN_MAAFGO" THEN {fgoApp, mumuUp} ELSE {fgoApp}
  /\ UNCHANGED << mumuUp, ours >>

(* The Runtime cannot be constructed: StarRail counts as not reached, MAA  *)
(* as reached and not cleaned.                                             *)
ReturnUnbound ==
  /\ Ungated({"RUN_STARRAIL", "RUN_MAA", "RUN_MAAFGO"})
  /\ Faults < MaxFaults
  /\ Return(Failed)
  /\ alive' = alive \ Script(Stage)
  /\ UNCHANGED << state, mumuUp, ours, fgoApp >>

(* STOP_STARRAIL and VERIFY_STARRAIL_STOPPED stop nothing: they report     *)
(* what RUN_STARRAIL left.                                                 *)
StarrailPostcondition ==
  \/ wf.continue /\ ~state.starrailReached
  \/ state.starrailReached /\ state.starrailCleaned

ReturnPostcondition ==
  /\ Ungated({"STOP_STARRAIL", "VERIFY_STARRAIL_STOPPED"})
  /\ Return(IF StarrailPostcondition THEN Success ELSE Failed)
  /\ UNCHANGED << state, world >>

ReturnPrepare(r) ==
  /\ Ungated({"PREPARE_MAAFGO_RUN"})
  /\ r \in {Success, Failed} /\ (r = Success \/ Fault(r))
  /\ Return(r)
  /\ state' = [state EXCEPT !.contract = @ \/ r = Success]
  /\ UNCHANGED world

ReturnStopFgo(r) ==
  LET skipped == (wf.continue /\ ~state.fgoReached) \/ ~wf.stopGame IN
  /\ Ungated({"STOP_FGO"})
  /\ r = Success \/ (~skipped /\ Fault(r))
  /\ Return(r)
  /\ fgoApp' \in IF skipped THEN {fgoApp}
                 ELSE {FALSE} \cup (IF r = Success THEN {} ELSE {fgoApp})
  /\ UNCHANGED << state, mumuUp, ours, alive >>

ReturnStage ==
  \/ ReturnGated \/ ReturnUnbound \/ ReturnPostcondition
  \/ \E r \in {Success, Failed, TimedOut, Cancelled} :
       \/ ReturnPlain(r) \/ ReturnStop(r) \/ ReturnStatus(r)
       \/ ReturnPrepare(r) \/ ReturnStopFgo(r)
       \/ \E changed \in BOOLEAN : ReturnStart(r, changed)
       \/ \E cleaned \in BOOLEAN : ReturnScript(r, cleaned)

-----------------------------------------------------------------------------
(* Every other step of the Runner leaves state and world alone.            *)
RunnerOnly ==
  /\ \/ Cancel \/ Expire
     \/ SkipStopped(CleanupRequired(Stage))
     \/ ObserveCancel(CleanupRequired(Stage))
     \/ ObserveExpiry
     \/ SkipBlocked(CleanupRequired(Stage))
     \/ Admit(CleanupRequired(Stage))
     \/ \E written \in BOOLEAN : WriteReport(written)
     \/ Done
  /\ UNCHANGED << state, world >>

ProductionNext == ExecuteStage \/ ReturnStage \/ RunnerOnly

ProductionSpec == ProductionInit /\ [][ProductionNext]_prodVars

-----------------------------------------------------------------------------
(* failure_notification: the stage that the dialog of a failed run names   *)
(* (0 for none), SHUTDOWN_MUMU and the report write only as a last resort. *)
FailedStages ==
  {i \in 1..Len(reports) : reports[i].outcome \in {"FAILURE", "TIMEOUT", "CANCELLED"}}

LastFailure ==                                                     \* mutant
  IF FailedStages = {} THEN 0 ELSE Max(FailedStages)

OriginalFailure ==
  LET first(S) == IF S = {} THEN 0 ELSE Min(S)
      primary  == {i \in FailedStages :
                     wf.plan[i] \notin {"SHUTDOWN_MUMU", "WRITE_RUN_REPORT"}}
  IN  IF primary # {} THEN first(primary) ELSE first(FailedStages)
-----------------------------------------------------------------------------
(* The emulator is shared, so at most one automation is ever at work on it. *)
(* In fail-fast mode the Runner ensures it, with continue_on_failure only   *)
(* the executors' own gates do.                                             *)
ExclusiveEmulator == Cardinality(alive) <= 1

(* A run that took a managed emulator over either leaves it confirmed as    *)
(* down or tried SHUTDOWN_MUMU.  The exceptions are a run reported as       *)
(* cancelled and a parent deadline found expired at the boundary of         *)
(* SHUTDOWN_MUMU itself.                                                    *)
ShutdownReached ==
  (pc = "done" /\ ours) =>
    \/ "SHUTDOWN_MUMU" \in executed
    \/ topStatus = "CANCELLED"
    \/ \E i \in 1..Len(reports) : wf.plan[i] = "SHUTDOWN_MUMU" /\ reports[i] = TimedOut

(* A managed run reported as a success leaves no automation behind and the  *)
(* emulator down, and with it the FGO app; an external one stops the app    *)
(* when it was asked to.                                                    *)
SuccessLeavesNothingRunning ==
  (pc = "done" /\ runReport.status = "SUCCESS") =>
    /\ alive = {}
    /\ ~wf.external => ~mumuUp
    /\ wf.stopGame => ~fgoApp

(* In fail-fast mode the failure dialog names the stage that stopped the    *)
(* run: no stage before it failed and every stage before it succeeded or    *)
(* the run had been cancelled between two stages.                           *)
DialogNamesTheCause ==
  (pc = "done" /\ ~wf.continue /\ runReport.status # "SUCCESS") =>
    /\ OriginalFailure # 0 =>
         \A i \in 1..(OriginalFailure - 1) : reports[i].outcome = "SUCCESS" \/ cancelled
    /\ runReport.error \in FailureCodes \cup {"WORKFLOW_STAGE_TIMEOUT"} =>
         OriginalFailure # 0

(* Whatever the configuration, the plan that is built for it passes the     *)
(* closed list of plans a run accepts.                                      *)
PlanAccepted == wf.plan \in AllowedPlans

=============================================================================
