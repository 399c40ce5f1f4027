-------------------------------- MODULE MCPool --------------------------------
(***************************************************************************)
(* ConnectionPool for TLC: the constants are given their values by the     *)
(* configuration.                                                          *)
(***************************************************************************)
EXTENDS ConnectionPool
=============================================================================
