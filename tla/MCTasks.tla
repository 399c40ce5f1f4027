-------------------------------- MODULE MCTasks --------------------------------
(***************************************************************************)
(* Tasks for TLC: every constant is given its value by the configurations. *)
(***************************************************************************)
EXTENDS Tasks
=============================================================================
