------------------------------- MODULE MCTurn -------------------------------
(* Instances of AgentLoop for TLC.                                          *)
EXTENDS TurnInvariants, TLC

CONSTANTS w1, w2, rd, no, sh, i1, i2

Symmetry == Permutations(Writes) \union Permutations(CallIds)
=============================================================================
