------------------------------ MODULE MCMaaFgoRun ------------------------------
EXTENDS MaaFgoRun

(* Selections that pass the policy, one without the login, one that names a *)
(* task twice.                                                              *)
MCProfiles == { << "login", "farm" >>, << "login", "farm", "event" >>, << "farm" >>,
                << "login", "farm", "farm" >> }
=============================================================================
