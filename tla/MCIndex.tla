------------------------------- MODULE MCIndex -------------------------------
(* Small instances of Indexer for TLC. *)
EXTENDS Indexer

CONSTANTS f1, f2, plain, made, blob

\* Two chunks of plain text, none of a generated file.
MCPieces == [t \in Texts |-> CASE t = plain -> 2 [] OTHER -> 0]

=============================================================================
