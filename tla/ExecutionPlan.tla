--------------------------- MODULE ExecutionPlan ---------------------------
(***************************************************************************)
(* The stage plans of a run: the static plans of planning.py, the options  *)
(* build_execution_plan applies to them, the dependencies the production   *)
(* composition attaches, the cleanup stages it selects, and the gate       *)
(* validate_external_plan through which a plan must pass to be executed.   *)
(***************************************************************************)
EXTENDS Naturals, Sequences, SequencesExt

Options == [game     : {"starrail", "fgo"},   \* config.game
            append   : BOOLEAN,               \* fgo.append_to_workflow
            external : BOOLEAN,               \* mumu.lifecycle_mode = external
            bettergi : BOOLEAN,               \* bettergi.enabled
            skipMaa  : BOOLEAN]               \* orchestrator.skip_maa

ManagedPlan ==
  << "VALIDATE_CONFIG", "SYNC_MAA_CONFIG", "UPDATE_MAA", "MERGE_MAA_RESOURCE",
     "ENSURE_MUMU_RUNNING", "WAIT_MUMU_ADB_READY", "RUN_STARRAIL",
     "STOP_STARRAIL", "VERIFY_STARRAIL_STOPPED", "STOP_MUMU",
     "VERIFY_MUMU_STOPPED", "START_MUMU", "WAIT_MUMU_ADB_READY_AFTER_RESTART",
     "RUN_MAA", "SHUTDOWN_MUMU", "WRITE_RUN_REPORT" >>

FgoPlan ==
  << "VALIDATE_CONFIG", "ENSURE_MUMU_RUNNING", "WAIT_MUMU_ADB_READY",
     "PREPARE_MAAFGO_RUN", "RUN_MAAFGO", "STOP_FGO", "SHUTDOWN_MUMU",
     "WRITE_RUN_REPORT" >>

FgoStages == << "PREPARE_MAAFGO_RUN", "RUN_MAAFGO", "STOP_FGO" >>
LifecycleStages == {"STOP_MUMU", "VERIFY_MUMU_STOPPED", "START_MUMU",
                    "WAIT_MUMU_ADB_READY_AFTER_RESTART", "SHUTDOWN_MUMU"}
MaaStages == {"SYNC_MAA_CONFIG", "UPDATE_MAA", "MERGE_MAA_RESOURCE", "RUN_MAA"}

Position(plan, stage) == CHOOSE i \in DOMAIN plan : plan[i] = stage
Has(plan, stage) == \E i \in DOMAIN plan : plan[i] = stage

(* The k-th stage that stays is the one with k such up to it.               *)
Without(plan, stages) ==
  LET kept   == {i \in DOMAIN plan : plan[i] \notin stages}
      nth(k) == CHOOSE i \in kept : Cardinality({j \in kept : j <= i}) = k
  IN  [k \in 1..Cardinality(kept) |-> plan[nth(k)]]
InsertAfter(plan, stage, new) ==
  LET i == Position(plan, stage)
  IN  SubSeq(plan, 1, i) \o new \o SubSeq(plan, i + 1, Len(plan))
BeforeReport(plan, stage) == Front(plan) \o << stage, Last(plan) >>

BettergiInAnyGame(o) == o.bettergi                                 \* mutant

RunsBettergi(o) == o.game = "starrail" /\ o.bettergi

(***************************************************************************)
(* build_execution_plan: the options edit the static plan in this order.   *)
(***************************************************************************)
BuildPlan(o) ==
  LET base    == IF o.game = "fgo" THEN FgoPlan ELSE ManagedPlan
      withFgo == IF o.game = "starrail" /\ o.append
                 THEN InsertAfter(base, "RUN_MAA", FgoStages) ELSE base
      mode    == IF o.external THEN Without(withFgo, LifecycleStages) ELSE withFgo
      withBgi == IF RunsBettergi(o) THEN BeforeReport(mode, "RUN_BETTERGI") ELSE mode
  IN  IF o.skipMaa THEN Without(withBgi, MaaStages) ELSE withBgi

(***************************************************************************)
(* production_stage_dependencies: only edges between stages of the plan.   *)
(***************************************************************************)
Dependencies(plan, stage) ==
  LET ready == IF Has(plan, "START_MUMU") THEN "WAIT_MUMU_ADB_READY_AFTER_RESTART"
                                          ELSE "WAIT_MUMU_ADB_READY"
      wanted ==
        CASE stage = "MERGE_MAA_RESOURCE"  -> {"UPDATE_MAA"}
          [] stage = "WAIT_MUMU_ADB_READY" -> {"ENSURE_MUMU_RUNNING"}
          [] stage = "RUN_STARRAIL"        -> {"WAIT_MUMU_ADB_READY"}
          [] stage = "VERIFY_MUMU_STOPPED" -> {"STOP_MUMU"}
          [] stage = "START_MUMU"          -> {"VERIFY_MUMU_STOPPED"}
          [] stage = "WAIT_MUMU_ADB_READY_AFTER_RESTART" -> {"START_MUMU"}
          [] stage = "RUN_MAA" -> {"SYNC_MAA_CONFIG", "UPDATE_MAA",
                                   "MERGE_MAA_RESOURCE", ready}
          [] stage = "PREPARE_MAAFGO_RUN"  -> {ready}
          [] stage = "RUN_MAAFGO"          -> {"PREPARE_MAAFGO_RUN"}
          [] OTHER                         -> {}
  IN  wanted \cap Range(plan)

(***************************************************************************)
(* The cleanup stages _LoggedProductionRunner.run hands to the Runner.     *)
(***************************************************************************)
CleanupStages(plan, external) ==
  (IF Has(plan, "RUN_MAAFGO") THEN {"STOP_FGO"} ELSE {})
     \cup (IF external THEN {} ELSE {"SHUTDOWN_MUMU"})

(***************************************************************************)
(* validate_external_plan: the closed list of plans a run may execute.     *)
(***************************************************************************)
ExternalPlan ==
  << "VALIDATE_CONFIG", "SYNC_MAA_CONFIG", "UPDATE_MAA", "MERGE_MAA_RESOURCE",
     "ENSURE_MUMU_RUNNING", "WAIT_MUMU_ADB_READY", "RUN_STARRAIL",
     "STOP_STARRAIL", "VERIFY_STARRAIL_STOPPED", "RUN_MAA", "WRITE_RUN_REPORT" >>
FgoExternalPlan ==
  << "VALIDATE_CONFIG", "ENSURE_MUMU_RUNNING", "WAIT_MUMU_ADB_READY",
     "PREPARE_MAAFGO_RUN", "RUN_MAAFGO", "STOP_FGO", "WRITE_RUN_REPORT" >>
AllowedPlans ==
  LET fixed    == {ExternalPlan, ManagedPlan, FgoPlan, FgoExternalPlan}
      combined == {InsertAfter(p, "RUN_MAA", FgoStages) : p \in {ExternalPlan, ManagedPlan}}
      bettergi == {BeforeReport(p, "RUN_BETTERGI") :
                     p \in {ExternalPlan, ManagedPlan} \cup combined}
      full     == fixed \cup combined \cup bettergi
  IN  full \cup {Without(p, MaaStages) : p \in {q \in full : Has(q, "RUN_MAA")}}

(***************************************************************************)
(* A workflow: what one WorkflowRunner is constructed with.  The fields    *)
(* external and stopGame (fgo.stop_game_on_exit) are read by the           *)
(* production executors, the others by the Runner itself.                  *)
(***************************************************************************)
Workflow(o, continue, stopGame) ==
  LET plan == BuildPlan(o)
  IN  [plan     |-> plan,
       deps     |-> [s \in Range(plan) |-> Dependencies(plan, s)],
       cleanup  |-> CleanupStages(plan, o.external) \cap Range(plan),
       continue |-> continue,
       external |-> o.external,
       stopGame |-> stopGame]
=============================================================================
