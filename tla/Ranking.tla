------------------------------- MODULE Ranking -------------------------------
(***************************************************************************)
(* The pure part of retrieval/: what each retriever returns for a query,   *)
(* how the ranked lists are fused, how many chunks of one file are kept,   *)
(* and what is added around the chunks that are.                           *)
(*                                                                         *)
(* A chunk's text is a name for its content.  What the program computes    *)
(* from characters (which words match, how near a vector is, what a text   *)
(* defines and calls) are functions of that name.                          *)
(***************************************************************************)
EXTENDS Integers, Sequences, FiniteSets, SequencesExt

CONSTANTS
    Paths, Texts,
    Names,          \* identifiers
    Defines,        \* text |-> the names defined in it, its own first
    Owner,          \* text |-> the class its own definition is a member of, or NoName
    Calls,          \* text |-> the names it refers to
    Size,           \* text |-> its length
    Hash,           \* text |-> its place in the order of hashes
    Loose,          \* names a case-insensitive or prefix match also finds
    NoName,
    Discount,       \* path |-> a test file's or document's penalty, in tenths
    Pinned,         \* paths the session pinned
    TopK,           \* candidates of one retriever
    Limit,          \* results of a search
    Spread,         \* how many times Limit survive fusion
    MaxPerFile,
    RrfK, Unit,     \* RRF's constant; a common multiple of RrfK + rank + 1
    Weights,        \* retriever |-> its weight, in tenths
    SymbolBoost,    \* the symbol retriever's weight when the query names a symbol
    MaxCallees, MaxCallers,
    ExpansionBudget

Retrievers == <<"bm25", "symbol", "path", "dense">>

\* Weights may be zero.
ASSUME RankingAssumption ==
    /\ Defines \in [Texts -> Seq(Names)] /\ Size \in [Texts -> Nat \ {0}]
    /\ Hash \in Injection(Texts, Nat)
    /\ Discount \in [Paths -> Nat] /\ Weights \in [Range(Retrievers) -> Nat]
    /\ SymbolBoost \in Nat /\ RrfK \in Nat /\ Unit \in Nat
    /\ TopK \in Nat /\ Limit \in Nat /\ Spread \in Nat /\ MaxPerFile \in Nat

\* words, near: how well a text matches a query, zero for not at all.
\* paths, stems: the paths a query names, and those its words merely occur in.
\* place: the order of the paths by how well they match.
Query ==
    [words : [Texts -> Nat], near : [Texts -> Nat], names : SUBSET Names,
     paths : SUBSET Paths, stems : SUBSET Paths, place : Injection(Paths, Nat)]

\* A row of the index: `part` is its place in its file.
Chunk == [id : Nat, path : Paths, part : Nat, text : Texts]

\* Identifiers that are symbols decide the intent before paths do.
KnownNames(q, rows) == {n \in q.names : \E c \in rows : n \in Range(Defines[c.text])}
SymbolIntent(q, rows) == KnownNames(q, rows) # {}

----------------------------------------------------------------------------
(* The retrievers: sequences of rows, best first. *)

Top(s, n) == SubSeq(s, 1, IF Len(s) < n THEN Len(s) ELSE n)

\* Where two keys first differ, a is the smaller.
Less(a, b) == \E i \in DOMAIN a : a[i] < b[i] /\ \A j \in 1 .. i - 1 : a[j] = b[j]

\* The members of S, the smallest key first.  No two of them have one key.
Sorted(S, key) ==
    [k \in 1 .. Cardinality(S) |->
        CHOOSE x \in S : Cardinality({y \in S : Less(key[y], key[x])}) = k - 1]

\* What s has at the places in I, in its order.
At(s, I) == [k \in 1 .. Cardinality(I) |-> s[Sorted(I, [i \in I |-> <<i>>])[k]]]

Bm25(q, rows) ==
    LET hits == {c \in rows : q.words[c.text] > 0}
    IN  Top(Sorted(hits, [c \in hits |-> <<-q.words[c.text], c.id>>]), TopK)

\* The first tier that finds anything: exact names, then the loose matches.  A chunk
\* comes once for every matching definition in it; shorter chunks come first.
SymbolHits(names, rows) ==
    LET hits == UNION {{c} \X {k \in DOMAIN Defines[c.text] : Defines[c.text][k] \in names} :
                         c \in rows}
    IN  Sorted(hits, [x \in hits |-> <<Size[x[1].text], x[1].id, x[2]>>])

Symbol(q, rows) ==
    LET exact == SymbolHits(q.names, rows)
        loose == SymbolHits({n \in Names : \E m \in q.names : <<m, n>> \in Loose}, rows)
        hits == IF exact # <<>> THEN exact ELSE loose
    IN  Top([i \in DOMAIN hits |-> hits[i][1]], TopK)

\* Only the paths the query names, if it names any.  The rows fetched are the first of
\* their files; they come back file by file.
Path(q, rows) ==
    LET wanted == {c \in rows : c.path \in IF q.paths # {} THEN q.paths ELSE q.stems}
        fetched == Range(Top(Sorted(wanted, [c \in wanted |-> <<c.part, c.id>>]), 4 * TopK))
    IN  Top(Sorted(fetched, [c \in fetched |-> <<q.place[c.path], c.part, c.id>>]), TopK)

\* The vector index: the nearest texts among those it has loaded.
Nearest(q, matrix) ==
    Top(Sorted(matrix, [t \in matrix |-> <<-q.near[t], Hash[t]>>]), 2 * TopK)

\* Of the chunks that share a text only one is kept.
Dense(hits, rows) ==
    LET found == At(hits, {i \in DOMAIN hits : \E c \in rows : c.text = hits[i]})
    IN  Top([i \in DOMAIN found |->
                CHOOSE c \in rows : c.text = found[i] /\
                    \A b \in rows : b.text = found[i] => c.id <= b.id], TopK)

----------------------------------------------------------------------------
(* Reciprocal rank fusion.  `found` is retriever |-> its list. *)

\* The rows in the order they are met.
Met(found) == found["bm25"] \o found["symbol"] \o found["path"] \o found["dense"]

\* A slip: the row met first with the text that was met last under its number.
MixedMet(found, id) ==
    LET places == {i \in DOMAIN Met(found) : Met(found)[i].id = id}
        at(best(_, _)) == Met(found)[CHOOSE i \in places : \A j \in places : best(i, j)]
    IN  [at(LAMBDA i, j : i <= j) EXCEPT !.text = at(LAMBDA i, j : i >= j).text]

FirstMet(found, id) ==
    Met(found)[CHOOSE i \in DOMAIN Met(found) :
                  /\ Met(found)[i].id = id
                  /\ \A j \in 1 .. i - 1 : Met(found)[j].id # id]

RanksOf(found, r, id) == {i \in DOMAIN found[r] : found[r][i].id = id}

BestRank(found, r, id) == CHOOSE i \in RanksOf(found, r, id) : \A j \in RanksOf(found, r, id) : i <= j

WeightOf(r, symbolic) == IF r = "symbol" /\ symbolic THEN SymbolBoost ELSE Weights[r]

\* Ranks here begin with one.
Contribution(found, r, id, symbolic) ==
    IF RanksOf(found, r, id) = {} THEN 0
    ELSE WeightOf(r, symbolic) * (Unit \div (RrfK + BestRank(found, r, id)))

\* Boosts and penalties multiply; ten is no change.
Adjustment(c) ==
    Discount[c.path]
        * (IF c.path \in Pinned THEN 15 ELSE 10)
        * (IF Defines[c.text] # <<>> THEN 11 ELSE 10)

\* A slip: the last retriever's contribution replaces the earlier ones.
LastScore(found, id, symbolic) ==
    Adjustment(FirstMet(found, id))
        * FoldLeft(LAMBDA s, r : IF RanksOf(found, r, id) = {} THEN s
                                 ELSE Contribution(found, r, id, symbolic), 0, Retrievers)

Score(found, id, symbolic) ==
    LET by(r) == Contribution(found, r, id, symbolic)
    IN  Adjustment(FirstMet(found, id)) * (by("bm25") + by("symbol") + by("path") + by("dense"))

\* The best rows of all lists, one for each chunk id, ties in the order they were met.
Fuse(found, symbolic) ==
    LET ids == {c.id : c \in Range(Met(found))}
        place(id) == CHOOSE i \in DOMAIN Met(found) :
                        Met(found)[i].id = id /\ \A j \in 1 .. i - 1 : Met(found)[j].id # id
        order == Sorted(ids, [id \in ids |-> <<-Score(found, id, symbolic), place(id)>>])
    IN  Top([i \in DOMAIN order |-> FirstMet(found, order[i])], Limit * Spread)

\* A row is kept unless MaxPerFile of its file come before it and the query names no such
\* file.
Diversify(rows, named) ==
    Top(At(rows, {i \in DOMAIN rows :
                    \/ rows[i].path \in named
                    \/ Cardinality({j \in 1 .. i - 1 : rows[j].path = rows[i].path}) < MaxPerFile}),
        Limit)

----------------------------------------------------------------------------
(* Expansion: signatures the kept chunks need.  `rows` is the index as it is now. *)

\* Symbols are read by path, so what a chunk's lines now hold is asked for.
Now(rows, c) == {k \in rows : k.path = c.path /\ k.part = c.part}

OwnName(t) == IF Defines[t] = <<>> THEN NoName ELSE Head(Defines[t])

Expansion(kind, path, name, cost) == [kind |-> kind, path |-> path, name |-> name, cost |-> cost]

SeenAt(xs, path, name) == \E i \in DOMAIN xs : xs[i].path = path /\ xs[i].name = name

\* The class around a retrieved member, unless the class was retrieved or given already.
Parents(results, rows) ==
    FoldLeft(LAMBDA xs, c :
        LET class == Owner[c.text]
            covered == \E i \in DOMAIN results :
                          results[i].path = c.path /\ OwnName(results[i].text) = class
            defined == \E k \in rows : k.path = c.path /\ class \in Range(Defines[k.text])
        IN  IF class = NoName \/ covered \/ ~defined \/ SeenAt(xs, c.path, class) THEN xs
            ELSE Append(xs, Expansion("parent", c.path, class, 2)), <<>>, results)

\* Where the names a query gives are referred to; at the lines of a chunk.
Callers(q, rows, given) ==
    LET users == {c \in rows : \E n \in q.names : n \in Calls[c.text]}
        uses == Sorted(users, [c \in users |-> <<c.id>>])
    IN  FoldLeft(LAMBDA xs, c :
            IF SeenAt(given \o xs, c.path, OwnName(c.text)) THEN xs
            ELSE Append(xs, Expansion("caller", c.path, OwnName(c.text), 1)), <<>>, Top(uses, MaxCallers))

\* The chunks outside a path that define a name; the signature is given if there is one.
DefinedElsewhere(name, path, rows) ==
    {k \in rows : k.path # path /\ OwnName(k.text) = name}

CalleesOf(c, results, rows, given) ==
    LET names == UNION {Calls[k.text] : k \in Now(rows, c)}
        usable == {n \in names :
                     /\ Cardinality(DefinedElsewhere(n, c.path, rows)) = 1
                     /\ \A k \in DefinedElsewhere(n, c.path, rows) :
                          /\ ~SeenAt(given, k.path, n)
                          /\ ~\E i \in DOMAIN results :
                                 results[i].path = k.path /\ OwnName(results[i].text) = n}
        targets == UNION {DefinedElsewhere(n, c.path, rows) : n \in usable}
        order == Sorted(targets, [k \in targets |-> <<k.id>>])
    IN  [i \in DOMAIN Top(order, MaxCallees) |->
            Expansion("callee", order[i].path, OwnName(order[i].text), 1)]

Callees(results, rows, given) ==
    FoldLeft(LAMBDA xs, c : xs \o CalleesOf(c, results, rows, given \o xs), <<>>, results)

Cost(xs) == FoldLeft(LAMBDA n, x : n + x.cost, 0, xs)

\* In order of priority; what does not fit is stepped over.
WithinBudget(xs) ==
    FoldLeft(LAMBDA kept, x : IF Cost(kept) + x.cost > ExpansionBudget THEN kept ELSE Append(kept, x),
             <<>>, xs)

Expand(q, results, rows, symbolic) ==
    LET parents == Parents(results, rows)
        callers == IF symbolic THEN Callers(q, rows, parents) ELSE <<>>
        callees == Callees(results, rows, parents \o callers)
    IN  IF results = <<>> THEN <<>> ELSE WithinBudget(parents \o callers \o callees)

=============================================================================
