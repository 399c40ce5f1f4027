------------------------------ MODULE MCScheduling ------------------------------
(***************************************************************************)
(* Scheduling for TLC: every constant is given its value by the            *)
(* configurations.                                                         *)
(***************************************************************************)
EXTENDS Scheduling
=============================================================================
