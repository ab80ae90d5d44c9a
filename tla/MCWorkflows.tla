------------------------------ MODULE MCWorkflows ------------------------------
(* A small instance of Workflows for TLC. *)
EXTENDS Workflows

CONSTANTS t1, t2, t3

MCTestFiles == <<t1, t2, t3>>

\* The leader outlives two signals and its child none, or the other way round.
MCResistances == {[leader |-> 2, child |-> 0], [leader |-> 0, child |-> 2]}

=============================================================================
