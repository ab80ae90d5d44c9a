-------------------------------- MODULE Places --------------------------------
(***************************************************************************)
(* Places in a sequence: what the modules about text have in common.       *)
(***************************************************************************)
EXTENDS Integers, Sequences, FiniteSets
Seqs == INSTANCE SequencesExt
Sets == INSTANCE FiniteSetsExt

\* The members of a set of numbers, the least first.
Ascending(S) ==
    [k \in 1 .. Cardinality(S) |-> CHOOSE x \in S : Cardinality({y \in S : y < x}) = k - 1]

\* What stands in t at these places, in their order.
Taken(t, places) ==
    LET at == Ascending(places) IN [k \in DOMAIN at |-> t[at[k]]]

=============================================================================
