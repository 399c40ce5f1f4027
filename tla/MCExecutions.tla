------------------------------ MODULE MCExecutions ------------------------------
(***************************************************************************)
(* Executions for TLC: every constant is given its value by the            *)
(* configurations.                                                         *)
(***************************************************************************)
EXTENDS Executions
=============================================================================
