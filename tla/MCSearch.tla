------------------------------- MODULE MCSearch -------------------------------
(* Small instances of SearchSystem for TLC. *)
EXTENDS SearchSystem

CONSTANTS src, test, cls, method, helper, note

\* A class of one method; the method alone; what it calls; prose.
MCDefines == [t \in Texts |-> CASE t = cls -> <<"C", "run">> [] t = method -> <<"run">>
                                [] t = helper -> <<"aid">> [] t = note -> <<>>]
MCOwner == [t \in Texts |-> IF t = method THEN "C" ELSE NoName]
MCCalls == [t \in Texts |-> IF t \in {cls, method} THEN {"aid"} ELSE {}]
MCSize == [t \in Texts |-> CASE t = cls -> 3 [] t = method -> 2 [] OTHER -> 1]
MCHash == [t \in Texts |-> CASE t = cls -> 4 [] t = method -> 3 [] t = helper -> 1 [] t = note -> 2]
MCDiscount == [p \in Paths |-> IF p = test THEN 6 ELSE 10]
MCWeights == [r \in Range(Retrievers) |-> CASE r = "symbol" -> 15 [] r = "path" -> 8 [] OTHER -> 10]

MCContents == {<<>>, <<cls, method>>, <<helper>>, <<note, helper>>}

Asked(words, near, names, paths, stems) ==
    [words |-> [t \in Texts |-> IF t \in words THEN MCSize[t] ELSE 0],
     near |-> [t \in Texts |-> IF t \in near THEN 2 ELSE 1],
     names |-> names, paths |-> paths, stems |-> stems,
     place |-> [p \in Paths |-> IF p = test THEN 1 ELSE 2]]

MCQueries ==
    {Asked({cls, method, helper}, {helper}, {"run", "C"}, {}, {src, test}),
     Asked({note, helper}, {note}, {}, {test}, {src})}

=============================================================================
