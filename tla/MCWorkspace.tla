---------------------------- MODULE MCWorkspace ----------------------------
(* Instances of WorkspaceSystem for TLC.                                    *)
EXTENDS WorkspaceInvariants, TLC

CONSTANTS a, b, v1, v2, v3

Symmetry == Permutations(Paths) \union Permutations(Contents)
=============================================================================
