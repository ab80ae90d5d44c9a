------------------------------ MODULE MCSessions ------------------------------
(* A small instance of Sessions for TLC. *)
EXTENDS Sessions

MCLimits == [system |-> 3, project |-> 1, map |-> 4, history |-> 4, retrieval |-> 5]
MCRetrieved == {<<>>, <<5, 3, 3, 1>>}

=============================================================================
