----------------------------- MODULE MCRunEntry -----------------------------
(* The commands around a Runner over one synthetic plan with two cleanup    *)
(* stages and a chain of dependencies, in fail-fast mode and with           *)
(* continue_on_failure.                                                     *)
EXTENDS RunEntry

MCStages == {"VALIDATE_CONFIG", "PREPARE", "GAME", "STOP_GAME", "SHUTDOWN",
             "WRITE_RUN_REPORT"}

MCPlan == << "VALIDATE_CONFIG", "PREPARE", "GAME", "STOP_GAME", "SHUTDOWN",
             "WRITE_RUN_REPORT" >>

MCWorkflows ==
  {[plan     |-> MCPlan,
    deps     |-> [s \in MCStages |-> IF s = "GAME" THEN {"PREPARE"} ELSE {}],
    cleanup  |-> {"STOP_GAME", "SHUTDOWN"},
    continue |-> c] : c \in BOOLEAN}
=============================================================================
