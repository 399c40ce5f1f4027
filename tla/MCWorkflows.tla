----------------------------- MODULE MCWorkflows -----------------------------
(* Two creators race for one critical and one planned workflow name; one    *)
(* tenant, one entity, two rows (the second can take the key the first lost *)
(* to a cancellation), two faults.                                          *)
EXTENDS Workflows
=============================================================================
