------------------------------- MODULE RepoMap -------------------------------
(***************************************************************************)
(* retrieval/repomap.py after ranking: the definitions, best first, are    *)
(* thinned out file by file, and a binary search finds how many of them    *)
(* are shown.                                                              *)
(*                                                                         *)
(* A rendered map is a set of tokens: those of its file headers, of the    *)
(* enclosing classes it prints, and of its definitions.                    *)
(***************************************************************************)
EXTENDS Integers, Sequences, FiniteSets

CONSTANTS
    MapBudget,      \* tokens the map may cost
    FileCeiling,    \* tokens one file's definitions may claim
    TopLevel        \* the parent of a definition that has none

ASSUME RepoMapAssumption == MapBudget \in Nat \ {0} /\ FileCeiling \in Nat

VARIABLE map        \* the search: its entries, its bounds and the best count so far

\* A definition: its weight in tokens, and the class it is a member of.
Entry(e) ==
    /\ e.weight \in Nat \ {0} /\ e.parentweight \in Nat
    /\ DOMAIN e = {"path", "name", "weight", "parent", "parentweight"}

\* A class's own line and the header printed above its members are the same line.
Tokens(e) ==
    {<<e.path, TopLevel, TopLevel, 0>>}
        \cup {<<e.path, e.parent, e.name, k>> : k \in 1 .. e.weight}
        \cup {<<e.path, TopLevel, e.parent, k>> : k \in 1 .. e.parentweight}

Rendered(entries, n) == UNION {Tokens(entries[i]) : i \in 1 .. n}

Measure(entries, n) == Cardinality(Rendered(entries, n))

Spent(ranked, S) ==
    Cardinality(UNION {{<<i, k>> : k \in 1 .. ranked[i].weight} : i \in S})

\* _cap_per_file: the first definition of a file is always kept.
KeptOf(ranked) ==
    LET kept[i \in 0 .. Len(ranked)] ==
          IF i = 0 THEN {}
          ELSE LET mine == {j \in kept[i - 1] : ranked[j].path = ranked[i].path}
               IN  IF mine # {} /\ Spent(ranked, mine \cup {i}) > FileCeiling
                   THEN kept[i - 1] ELSE kept[i - 1] \cup {i}
    IN  kept[Len(ranked)]

\* What is kept, in order: a set of one sequence.
Capped(ranked) ==
    LET K == KeptOf(ranked)
        orders == {f \in UNION {[1 .. n -> DOMAIN ranked] : n \in 0 .. Len(ranked)} :
                      /\ K = {f[i] : i \in DOMAIN f}
                      /\ \A i, j \in DOMAIN f : i < j => f[i] < f[j]}
    IN  {[i \in DOMAIN f |-> ranked[f[i]]] : f \in orders}

NoMap == [pc |-> "none", entries |-> <<>>, low |-> 0, high |-> 0, best |-> 0]

StartMap(ranked) ==
    \E kept \in Capped(ranked) :
        map' = [pc |-> "probe", entries |-> kept, low |-> 0, high |-> Len(kept), best |-> 0]

Middle == (map.low + map.high) \div 2

\* A slip: a count that fits exactly is taken for one that does not.
ProbeStrictly ==
    /\ map.pc = "probe" /\ map.low <= map.high
    /\ map' = IF Measure(map.entries, Middle) < MapBudget
              THEN [map EXCEPT !.best = Middle, !.low = Middle + 1]
              ELSE [map EXCEPT !.high = Middle - 1]

\* One pass of the binary search.
Probe ==
    /\ map.pc = "probe" /\ map.low <= map.high
    /\ map' = IF Measure(map.entries, Middle) <= MapBudget
              THEN [map EXCEPT !.best = Middle, !.low = Middle + 1]
              ELSE [map EXCEPT !.high = Middle - 1]

EndMap ==
    /\ map.pc = "probe" /\ map.low > map.high
    /\ map' = [map EXCEPT !.pc = "done"]

----------------------------------------------------------------------------
(* The builder alone, over any ranking. *)

CONSTANT Rankings

ASSUME RankingsAssumption ==
    \A r \in Rankings : r \in Seq({r[i] : i \in DOMAIN r}) /\ \A i \in DOMAIN r : Entry(r[i])

MapInit == map = NoMap

MapNext == (map.pc # "probe" /\ \E r \in Rankings : StartMap(r)) \/ Probe \/ EndMap

MapSpec == MapInit /\ [][MapNext]_map

\* The map never costs more than its budget, and one more definition would: halving
\* finds the longest prefix that fits, although what a prefix costs is no sum.
LargestPrefix ==
    map.pc = "done" =>
        /\ Measure(map.entries, map.best) <= MapBudget
        /\ \A n \in 0 .. Len(map.entries) :
             n > map.best => Measure(map.entries, n) > MapBudget

\* What the search knows while it halves.
MapInv ==
    map.pc # "none" =>
        /\ map.low \in 0 .. Len(map.entries) + 1
        /\ map.high \in -1 .. Len(map.entries)
        /\ map.best = (IF map.low = 0 THEN 0 ELSE map.low - 1)
        /\ map.low <= map.high + 1
        /\ Measure(map.entries, map.best) <= MapBudget
        /\ \A n \in 0 .. Len(map.entries) :
             n > map.high => Measure(map.entries, n) > MapBudget

=============================================================================
