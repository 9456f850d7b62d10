---------------------------- MODULE MCProduction ----------------------------
(* The plans of every configuration, in both modes.  stop_game_on_exit only *)
(* matters to a plan with FGO stages.                                       *)
EXTENDS ProductionWorkflow

MCWorkflows ==
  {Workflow(o, c, s) : o \in Options, c \in BOOLEAN, s \in BOOLEAN}
MCStages == UNION {Range(w.plan) : w \in MCWorkflows}
=============================================================================
