------------------------- MODULE MCProcessLifecycle -------------------------
(* Two processes in one supervisor, one of them a manager command whose     *)
(* children are to survive.                                                 *)
EXTENDS ProcessLifecycle
=============================================================================
