------------------------------ MODULE MCListener ------------------------------
(***************************************************************************)
(* Listener for TLC: the constants are given their values by the           *)
(* configuration.                                                          *)
(***************************************************************************)
EXTENDS Listener

Echoes == {ToolExecuted}
SetOne == {update_product(1)}
=============================================================================
