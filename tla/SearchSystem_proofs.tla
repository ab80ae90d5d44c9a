-------------------------- MODULE SearchSystem_proofs --------------------------
(***************************************************************************)
(* Proofs that the caches of the process that searches tell the truth as   *)
(* long as nobody else writes, that an embedding run which calls itself    *)
(* complete is so, whatever else happens, and that the binary search of    *)
(* the repository map finds the longest prefix that fits, for every        *)
(* budget, every ranking and every overlap of headers.                     *)
(***************************************************************************)
EXTENDS SearchSystem, FunctionTheorems, FiniteSetTheorems, WellFoundedInduction, TLAPS

\* What stays when neither the index nor the caches nor the run are touched.
indexVars == <<chunks, vectors, cache, embed, foreign>>

-----------------------------------------------------------------------------
(* What a prefix costs grows with the prefix. *)

LEMMA ImageFinite ==
  ASSUME NEW S, IsFiniteSet(S), NEW T, NEW f \in [S -> T],
         \A t \in T : \E x \in S : f[x] = t
  PROVE  IsFiniteSet(T)
<1>1. f \in Surjection(S, T)
  BY DEF Surjection
<1> QED
  BY <1>1, FS_Surjection

LEMMA TokensFinite ==
  ASSUME NEW e, Entry(e)
  PROVE  IsFiniteSet(Tokens(e))
<1>1. e.weight \in Nat /\ e.parentweight \in Nat
  BY DEF Entry
<1> DEFINE own == [k \in 1 .. e.weight |-> <<e.path, e.parent, e.name, k>>]
           header == [k \in 1 .. e.parentweight |-> <<e.path, TopLevel, e.parent, k>>]
           A == {own[k] : k \in 1 .. e.weight}
           B == {header[k] : k \in 1 .. e.parentweight}
           C == {<<e.path, TopLevel, TopLevel, 0>>}
<1>2. IsFiniteSet(1 .. e.weight) /\ IsFiniteSet(1 .. e.parentweight)
  <2>1. \A n \in Nat : IsFiniteSet(1 .. n)
    BY FS_Interval
  <2> QED
    BY <1>1, <2>1
<1>3. /\ own \in [1 .. e.weight -> A] /\ \A t \in A : \E k \in 1 .. e.weight : own[k] = t
      /\ header \in [1 .. e.parentweight -> B]
      /\ \A t \in B : \E k \in 1 .. e.parentweight : header[k] = t
  OBVIOUS
<1>4. IsFiniteSet(A) /\ IsFiniteSet(B) /\ IsFiniteSet(C)
  <2>1. IsFiniteSet(C)
    BY FS_Singleton
  <2> HIDE DEF own, header, A, B, C
  <2>2. IsFiniteSet(A) /\ IsFiniteSet(B)
    BY <1>2, <1>3, ImageFinite
  <2> QED
    BY <2>1, <2>2
<1>5. Tokens(e) = (C \cup A) \cup B
  BY DEF Tokens
<1>6. IsFiniteSet((C \cup A) \cup B)
  <2> HIDE DEF A, B, C
  <2>1. IsFiniteSet(C \cup A)
    BY <1>4, FS_Union
  <2> QED
    BY <1>4, <2>1, FS_Union
<1> QED
  BY <1>5, <1>6

LEMMA RenderedFinite ==
  ASSUME NEW entries, \A i \in 1 .. Len(entries) : Entry(entries[i]),
         Len(entries) \in Nat, NEW n \in 0 .. Len(entries)
  PROVE  IsFiniteSet(Rendered(entries, n))
<1> DEFINE tokens == [i \in 1 .. n |-> Tokens(entries[i])]
           S == {tokens[i] : i \in 1 .. n}
<1>1. IsFiniteSet(1 .. n)
  BY FS_Interval
<1>2. tokens \in [1 .. n -> S] /\ \A T \in S : \E i \in 1 .. n : tokens[i] = T
  OBVIOUS
<1>3. IsFiniteSet(S)
  <2> HIDE DEF tokens, S
  <2> QED
    BY <1>1, <1>2, ImageFinite
<1>4. \A T \in S : IsFiniteSet(T)
  BY TokensFinite
<1>5. Rendered(entries, n) = UNION S
  BY DEF Rendered
<1>6. IsFiniteSet(UNION S)
  <2> HIDE DEF S
  <2> QED
    BY <1>3, <1>4, FS_UNION
<1> QED
  BY <1>5, <1>6

LEMMA MeasureGrows ==
  ASSUME NEW entries, \A i \in 1 .. Len(entries) : Entry(entries[i]),
         Len(entries) \in Nat, NEW n \in 0 .. Len(entries), NEW m \in 0 .. n
  PROVE  /\ Measure(entries, m) \in Nat /\ Measure(entries, n) \in Nat
         /\ Measure(entries, m) <= Measure(entries, n)
<1>1. m \in 0 .. Len(entries) /\ 1 .. m \subseteq 1 .. n
  OBVIOUS
<1>2. IsFiniteSet(Rendered(entries, n)) /\ IsFiniteSet(Rendered(entries, m))
  BY <1>1, RenderedFinite
<1>3. Rendered(entries, m) \in SUBSET Rendered(entries, n)
  BY <1>1 DEF Rendered
<1> QED
  BY <1>2, <1>3, FS_Subset, FS_CardinalityType DEF Measure

LEMMA NothingIsFree == ASSUME NEW entries PROVE Measure(entries, 0) = 0
<1>1. Rendered(entries, 0) = {}
  BY DEF Rendered
<1> QED
  BY <1>1, FS_EmptySet DEF Measure

-----------------------------------------------------------------------------
(* The search, over rankings of any set D of definitions. *)

MapType(D) ==
    map \in [pc : {"none", "probe", "done"}, entries : Seq(D), low : Int, high : Int,
             best : Int]

MapInd(D) == MapType(D) /\ MapInv /\ (map.pc = "done" => map.low > map.high)

LEMMA CappedType ==
  ASSUME NEW D, NEW r \in Seq(D), NEW kept \in Capped(r)
  PROVE  kept \in Seq(D)
<1>1. Len(r) \in Nat
  OBVIOUS
<1>2. PICK f \in UNION {[1 .. n -> DOMAIN r] : n \in 0 .. Len(r)} :
         kept = [i \in DOMAIN f |-> r[f[i]]]
  BY DEF Capped
<1>3. \A i \in DOMAIN r : r[i] \in D
  OBVIOUS
<1>4. PICK n \in 0 .. Len(r) : f \in [1 .. n -> DOMAIN r]
  BY <1>2
<1>5. n \in Nat /\ kept \in [1 .. n -> D]
  BY <1>1, <1>2, <1>3, <1>4
<1> QED
  BY <1>5

LEMMA StartKeeps ==
  ASSUME NEW D, NEW r \in Seq(D), StartMap(r)
  PROVE  MapInd(D)'
<1>1. PICK kept \in Capped(r) :
         map' = [pc |-> "probe", entries |-> kept, low |-> 0, high |-> Len(kept), best |-> 0]
  BY DEF StartMap
<1>2. kept \in Seq(D) /\ Len(kept) \in Nat
  BY CappedType
<1>3. MapType(D)'
  BY <1>1, <1>2 DEF MapType
<1>4. Measure(kept, 0) <= MapBudget
  BY NothingIsFree, RepoMapAssumption
<1>5. MapInv'
  BY <1>1, <1>2, <1>4 DEF MapInv
<1> QED
  BY <1>1, <1>3, <1>5 DEF MapInd

LEMMA ProbeKeeps ==
  ASSUME NEW D, \A e \in D : Entry(e), MapInd(D), Probe
  PROVE  MapInd(D)'
<1> DEFINE es == map.entries
           mid == Middle
<1>1. map \in [pc : {"none", "probe", "done"}, entries : Seq(D), low : Int, high : Int,
             best : Int]
  BY DEF MapInd, MapType
<1>2. /\ es \in Seq(D) /\ Len(es) \in Nat /\ map.low \in Int /\ map.high \in Int
      /\ \A i \in 1 .. Len(es) : Entry(es[i])
  BY DEF MapInd, MapType
<1>3. /\ map.pc = "probe" /\ map.low <= map.high
      /\ map.low \in 0 .. Len(es) + 1 /\ map.high \in -1 .. Len(es)
      /\ \A n \in 0 .. Len(es) : n > map.high => Measure(es, n) > MapBudget
  BY DEF MapInd, MapInv, Probe
<1>4. mid \in map.low .. map.high /\ mid \in 0 .. Len(es)
  BY <1>2, <1>3 DEF Middle
<1>5. mid \in Int
  BY <1>2, <1>4
<1>6. \A n \in 0 .. Len(es) : n >= mid => Measure(es, n) >= Measure(es, mid)
  <2>1. ASSUME NEW n \in 0 .. Len(es), n >= mid
        PROVE  Measure(es, n) >= Measure(es, mid)
    <3>1. mid \in 0 .. n
      BY <1>4, <2>1
    <3> HIDE DEF es, mid
    <3> QED
      BY <1>2, <3>1, MeasureGrows
  <2> QED
    BY <2>1
<1>7. MapBudget \in Nat /\ \A n \in 0 .. Len(es) : Measure(es, n) \in Nat
  BY <1>2, MeasureGrows, RepoMapAssumption
<1>8. CASE Measure(es, mid) <= MapBudget
  <2>1. map' = [map EXCEPT !.best = mid, !.low = mid + 1]
    BY <1>8 DEF Probe
  <2>2. /\ map'.pc = "probe" /\ map'.entries = es /\ map'.best = mid
        /\ map'.low = mid + 1 /\ map'.high = map.high
    <3> HIDE DEF mid
    <3> QED
      BY <1>1, <1>3, <2>1
  <2>3. MapType(D)'
    <3> HIDE DEF mid
    <3>1. mid + 1 \in Int
      BY <1>5
    <3> QED
      BY <1>1, <1>5, <2>1, <3>1 DEF MapType
  <2>4. MapInv'
    <3> HIDE DEF es, mid
    <3> QED
      BY <1>2, <1>3, <1>4, <1>8, <2>2 DEF MapInv
  <2> QED
    BY <2>2, <2>3, <2>4 DEF MapInd
<1>9. CASE ~(Measure(es, mid) <= MapBudget)
  <2>1. map' = [map EXCEPT !.high = mid - 1]
    BY <1>9 DEF Probe
  <2>2. /\ map'.pc = "probe" /\ map'.entries = es /\ map'.best = map.best
        /\ map'.low = map.low /\ map'.high = mid - 1
    <3> HIDE DEF mid
    <3> QED
      BY <1>1, <1>3, <2>1
  <2>3. MapType(D)'
    <3> HIDE DEF mid
    <3> QED
      BY <1>1, <1>5, <2>1 DEF MapType
  <2>4. \A n \in 0 .. Len(es) : n > mid - 1 => Measure(es, n) > MapBudget
    <3> HIDE DEF es, mid
    <3> QED
      BY <1>2, <1>4, <1>6, <1>7, <1>9
  <2>5. /\ map.best = (IF map.low = 0 THEN 0 ELSE map.low - 1)
        /\ Measure(es, map.best) <= MapBudget
    BY <1>3 DEF MapInd, MapInv
  <2>6. MapInv'
    <3> HIDE DEF es, mid
    <3> QED
      BY <1>2, <1>3, <1>4, <2>2, <2>4, <2>5 DEF MapInv
  <2> QED
    BY <2>2, <2>3, <2>6 DEF MapInd
<1> QED
  BY <1>8, <1>9

LEMMA EndKeeps ==
  ASSUME NEW D, MapInd(D), EndMap
  PROVE  MapInd(D)'
<1>1. map' = [map EXCEPT !.pc = "done"] /\ map.low > map.high /\ map.pc = "probe"
  BY DEF EndMap
<1>2. MapType(D)' /\ map'.low = map.low /\ map'.high = map.high /\ map'.best = map.best
      /\ map'.entries = map.entries /\ map'.pc = "done"
  BY <1>1 DEF MapInd, MapType
<1> QED
  BY <1>1, <1>2 DEF MapInd, MapInv

LEMMA NoMapYet ==
  ASSUME NEW D, map = NoMap
  PROVE  MapInd(D)
  BY DEF NoMap, MapInd, MapType, MapInv

LEMMA MapStays ==
  ASSUME NEW D, MapInd(D), UNCHANGED map
  PROVE  MapInd(D)'
  BY DEF MapInd, MapType, MapInv

LEMMA MapIsLargest ==
  ASSUME NEW D, MapInd(D)
  PROVE  LargestPrefix
<1> SUFFICES ASSUME map.pc = "done"
             PROVE  /\ Measure(map.entries, map.best) <= MapBudget
                    /\ \A n \in 0 .. Len(map.entries) :
                         n > map.best => Measure(map.entries, n) > MapBudget
  BY DEF LargestPrefix
<1>1. map.low \in Int /\ map.high \in Int /\ Len(map.entries) \in Nat
  BY DEF MapInd, MapType
<1>2. /\ map.low > map.high /\ map.best = (IF map.low = 0 THEN 0 ELSE map.low - 1)
      /\ map.low \in 0 .. Len(map.entries) + 1
      /\ Measure(map.entries, map.best) <= MapBudget
      /\ \A n \in 0 .. Len(map.entries) :
           n > map.high => Measure(map.entries, n) > MapBudget
  BY DEF MapInd, MapInv
<1> QED
  BY <1>1, <1>2

\* The definitions of any ranking.
Defs == UNION {{r[i] : i \in DOMAIN r} : r \in Rankings}

(* The map that is shown fits its budget and one more definition would     *)
(* not fit (repomap.py, _render_within_budget), for the builder alone.     *)
THEOREM MapTheorem == MapSpec => []LargestPrefix
<1>1. \A e \in Defs : Entry(e)
  BY RankingsAssumption DEF Defs
<1>2. ASSUME NEW r \in Rankings
      PROVE  r \in Seq(Defs)
  <2>1. r \in Seq({r[i] : i \in DOMAIN r}) /\ {r[i] : i \in DOMAIN r} \subseteq Defs
    BY RankingsAssumption DEF Defs
  <2> QED
    BY <2>1
<1>3. MapInit => MapInd(Defs)
  BY NoMapYet DEF MapInit
<1>4. MapInd(Defs) /\ [MapNext]_map => MapInd(Defs)'
  BY <1>1, <1>2, StartKeeps, ProbeKeeps, EndKeeps, MapStays DEF MapNext
<1>5. MapInd(Defs) => LargestPrefix
  BY MapIsLargest
<1> QED
  BY <1>3, <1>4, <1>5, PTL DEF MapSpec

-----------------------------------------------------------------------------
(* Sizes. *)

LEMMA TextsSize ==
  ASSUME NEW S \in SUBSET Texts
  PROVE  IsFiniteSet(S) /\ Cardinality(S) \in Nat
  BY SearchAssumption, FS_Subset, FS_CardinalityType

LEMMA SmallerSize ==
  ASSUME NEW S \in SUBSET Texts, NEW T \in SUBSET S
  PROVE  Cardinality(T) <= Cardinality(S)
  BY TextsSize, FS_Subset

(* Texts with others that are not among them. *)
LEMMA JoinedSize ==
  ASSUME NEW S \in SUBSET Texts, NEW T \in SUBSET Texts, S \cap T = {}
  PROVE  Cardinality(S \cup T) = Cardinality(S) + Cardinality(T)
<1>1. IsFiniteSet(S) /\ IsFiniteSet(T) /\ Cardinality(S) \in Nat /\ Cardinality(T) \in Nat
  BY TextsSize
<1>2. Cardinality(S \cup T) = Cardinality(S) + Cardinality(T) - Cardinality(S \cap T)
  BY <1>1, FS_Union
<1>3. Cardinality(S \cap T) = 0
  BY FS_EmptySet
<1> QED
  BY <1>1, <1>2, <1>3

-----------------------------------------------------------------------------
(* Types. *)

LEMMA RowsTyped ==
  ASSUME NEW p \in Paths, NEW s \in Contents, NEW base
  PROVE  \A c \in Rows(p, s, base) : c.path \in Paths /\ c.text \in Texts
<1>1. s \in Seq(Texts)
  BY SearchAssumption
<1> QED
  BY <1>1 DEF Rows

LEMMA InitTyped ==
  ASSUME Init
  PROVE  SearchTypes
<1>1. PICK text \in [Paths -> Contents] : \E base \in [Paths -> 0 .. MaxId] :
        chunks = UNION {Rows(p, text[p], base[p]) : p \in Paths}
  BY DEF Init
<1>2. \A c \in chunks : c.path \in Paths /\ c.text \in Texts
  BY <1>1, RowsTyped
<1>3. vectors \subseteq Texts
  BY <1>2 DEF Init
<1> QED
  BY <1>2, <1>3 DEF Init, SearchTypes, NewCache, NoRun

LEMMA ReplacedTyped ==
  ASSUME SearchTypes, NEW p \in Paths, NEW s \in Contents, ReplaceFile(p, s)
  PROVE  \A c \in chunks' : c.path \in Paths /\ c.text \in Texts
<1> DEFINE rest == {c \in chunks : c.path # p}
           base == IF rest = {} THEN 0 ELSE LargestId(rest)
<1>1. chunks' = rest \cup Rows(p, s, base)
  BY DEF ReplaceFile
<1>2. \A c \in Rows(p, s, base) : c.path \in Paths /\ c.text \in Texts
  BY RowsTyped
<1> QED
  BY <1>1, <1>2 DEF SearchTypes

-----------------------------------------------------------------------------
(* The steps that touch neither the tables, nor the caches, nor the run. *)

LEMMA Elsewhere ==
  ASSUME SearchInv, UNCHANGED indexVars
  PROVE  SearchInv'
  BY DEF SearchInv, SearchTypes, CachesFresh, Counted, Answers, indexVars, CoverageNow, TextsOf

LEMMA SearchMoves ==
  ASSUME SearchInv, NEW q, StartSearch(q)
  PROVE  SearchInv'
<1>1. chunks' = chunks /\ vectors' = vectors /\ embed' = embed /\ CoverageNow' = CoverageNow
  BY DEF StartSearch, CoverageNow, TextsOf
<1>2. SearchTypes'
  BY <1>1 DEF StartSearch, SearchInv, SearchTypes
<1>3. CachesFresh'
  <2>1. cache = NewCache => cache'.dirty /\ cache'.coverage = CoverageNow
    BY DEF StartSearch, NewCache
  <2>2. cache # NewCache => foreign' = foreign
    BY DEF StartSearch
  <2>3. cache.coverage = None =>
          cache'.coverage = CoverageNow /\ cache'.dirty = cache.dirty /\ cache'.matrix = cache.matrix
    BY DEF StartSearch, SearchInv, SearchTypes
  <2>4. cache.coverage # None => cache' = cache
    BY DEF StartSearch
  <2> QED
    BY <1>1, <2>1, <2>2, <2>3, <2>4 DEF CachesFresh, SearchInv
<1>4. Counted'
  BY <1>1 DEF SearchInv, Counted, Answers
<1> QED
  BY <1>2, <1>3, <1>4 DEF SearchInv

LEMMA MatrixLoaded ==
  ASSUME SearchInv, LoadMatrix
  PROVE  SearchInv'
<1>1. UNCHANGED <<chunks, vectors, embed, foreign>> /\ CoverageNow' = CoverageNow
  BY DEF LoadMatrix, CoverageNow, TextsOf
<1>2. cache' = IF cache.dirty THEN [cache EXCEPT !.matrix = vectors, !.dirty = FALSE] ELSE cache
  BY DEF LoadMatrix
<1>3. SearchTypes'
  BY <1>1, <1>2 DEF SearchInv, SearchTypes
<1>4. CachesFresh'
  BY <1>1, <1>2 DEF SearchInv, SearchTypes, CachesFresh
<1>5. Counted'
  BY <1>1 DEF SearchInv, Counted, Answers
<1> QED
  BY <1>3, <1>4, <1>5 DEF SearchInv

-----------------------------------------------------------------------------
(* The embedding run. *)

LEMMA EmbeddingStarted ==
  ASSUME SearchInv, StartEmbedding
  PROVE  SearchInv'
<1> DEFINE missing == TextsOf(chunks) \ vectors
<1>1. PICK P \in Partitions(missing) :
        embed' = [NoRun EXCEPT !.pc = "load", !.missing = missing, !.batches = P]
  BY DEF StartEmbedding
<1>2. UNCHANGED <<chunks, vectors, cache, foreign>> /\ CoverageNow' = CoverageNow
  BY DEF StartEmbedding, CoverageNow, TextsOf
<1>3. missing \subseteq Texts
  BY DEF SearchInv, SearchTypes, TextsOf
<1>4. P \in SUBSET SUBSET missing /\ UNION P = missing /\ \A a, b \in P : a # b => a \cap b = {}
  BY DEF Partitions
<1>5. embed' = [pc |-> "load", missing |-> missing, batches |-> P, storing |-> {},
                embedded |-> 0, failed |-> 0, skipped |-> 0]
  BY <1>1 DEF NoRun
<1>6. SearchTypes'
  BY <1>2, <1>3, <1>4, <1>5 DEF SearchInv, SearchTypes
<1>7. embed.storing = {}
  BY DEF StartEmbedding, Resting, SearchInv, Counted
<1>8. CachesFresh'
  BY <1>2, <1>7 DEF SearchInv, CachesFresh
<1>9. Counted'
  <2>1. Answers' \in SUBSET Texts
    BY <1>6 DEF SearchTypes, Answers
  <2>2. Cardinality(Answers') \in Nat
    BY <2>1, TextsSize
  <2> HIDE DEF missing
  <2> QED
    BY <1>4, <1>5, <2>2 DEF Counted
<1> QED
  BY <1>6, <1>8, <1>9 DEF SearchInv

LEMMA TextsLoaded ==
  ASSUME SearchInv, LoadTexts
  PROVE  SearchInv'
<1> DEFINE kept == {b \cap TextsOf(chunks) : b \in embed.batches} \ {{}}
<1>1. UNCHANGED <<chunks, vectors, cache, foreign>> /\ CoverageNow' = CoverageNow
  BY DEF LoadTexts, CoverageNow, TextsOf
<1>2. embed.missing \ TextsOf(chunks) \in SUBSET Texts
  BY DEF SearchInv, SearchTypes
<1>3. Cardinality(embed.missing \ TextsOf(chunks)) \in Nat
  BY <1>2, TextsSize
<1>4. embed' = [embed EXCEPT !.pc = "run", !.batches = kept,
                             !.skipped = Cardinality(embed.missing \ TextsOf(chunks))]
  BY DEF LoadTexts
<1>5. kept \in SUBSET SUBSET Texts /\ UNION kept \subseteq UNION embed.batches
  BY DEF SearchInv, SearchTypes
<1>6. ASSUME NEW a \in kept, NEW b \in kept, a # b
      PROVE  a \cap b = {}
  <2>1. PICK x \in embed.batches : a = x \cap TextsOf(chunks)
    OBVIOUS
  <2>2. PICK y \in embed.batches : b = y \cap TextsOf(chunks)
    OBVIOUS
  <2>3. x # y
    BY <1>6, <2>1, <2>2
  <2>4. x \cap y = {}
    BY <2>3 DEF SearchInv, Counted
  <2> QED
    BY <2>1, <2>2, <2>4
<1> HIDE DEF kept
<1>7. SearchTypes'
  BY <1>1, <1>3, <1>4, <1>5 DEF SearchInv, SearchTypes
<1>8. /\ embed'.storing = embed.storing /\ embed'.missing = embed.missing
      /\ embed'.batches = kept /\ embed'.embedded = embed.embedded /\ embed'.pc = "run"
  BY <1>4 DEF SearchInv, SearchTypes
<1>9. CachesFresh'
  BY <1>1, <1>8 DEF SearchInv, CachesFresh
<1>10. Counted'
  <2>1. Answers' \in SUBSET Texts /\ Answers \subseteq Answers'
    BY <1>1, <1>5, <1>7, <1>8 DEF SearchTypes, Answers
  <2>2. Cardinality(Answers) <= Cardinality(Answers')
    BY <2>1, SmallerSize
  <2>3. Cardinality(Answers) \in Nat /\ Cardinality(Answers') \in Nat
    BY <2>1, TextsSize
  <2> QED
    BY <1>5, <1>6, <1>7, <1>8, <2>2, <2>3 DEF SearchInv, SearchTypes, Counted
<1> QED
  BY <1>7, <1>9, <1>10 DEF SearchInv

LEMMA BatchAnswered ==
  ASSUME SearchInv, NEW batch \in embed.batches, Answered(batch)
  PROVE  SearchInv'
<1>1. UNCHANGED <<chunks, vectors, cache, foreign>> /\ CoverageNow' = CoverageNow
  BY DEF Answered, CoverageNow, TextsOf
<1>2. batch \in SUBSET Texts
  BY DEF SearchInv, SearchTypes
<1>3. Cardinality(batch) \in Nat
  BY <1>2, TextsSize
<1>4. SearchTypes'
  <2>1. embed \in [pc : {"idle", "load", "run"}, missing : SUBSET Texts,
                   batches : SUBSET SUBSET Texts, storing : SUBSET Texts,
                   embedded : Nat, failed : Nat, skipped : Nat]
    BY DEF SearchInv, SearchTypes
  <2>2. embed.embedded + Cardinality(batch) \in Nat
    BY <1>3, <2>1
  <2>3. embed.batches \ {batch} \in SUBSET SUBSET Texts
    BY <2>1
  <2>4. embed' = [embed EXCEPT !.batches = @ \ {batch}, !.storing = batch,
                              !.embedded = @ + Cardinality(batch)]
    BY DEF Answered
  <2>5. embed' \in [pc : {"idle", "load", "run"}, missing : SUBSET Texts,
                    batches : SUBSET SUBSET Texts, storing : SUBSET Texts,
                    embedded : Nat, failed : Nat, skipped : Nat]
    BY <1>2, <2>1, <2>2, <2>3, <2>4
  <2> QED
    BY <1>1, <2>5 DEF SearchInv, SearchTypes
<1>5. /\ embed.pc = "run" /\ embed.storing = {} /\ embed'.pc = "run"
      /\ embed'.storing = batch /\ embed'.missing = embed.missing
      /\ embed'.batches = embed.batches \ {batch}
      /\ embed'.embedded = embed.embedded + Cardinality(batch)
  BY DEF Answered, SearchInv, SearchTypes
<1>6. CachesFresh'
  BY <1>1, <1>5 DEF SearchInv, CachesFresh
<1>7. Counted'
  <2>1. batch \cap UNION (embed.batches \ {batch}) = {} /\ batch \subseteq embed.missing
    BY DEF SearchInv, Counted
  <2>2. Answers \cap batch = {}
    BY DEF Answers
  <2>3. Answers' \in SUBSET Texts /\ Answers \in SUBSET Texts
    BY <1>4 DEF SearchInv, SearchTypes, Answers
  <2>4. Answers \cup batch \subseteq Answers'
    BY <1>1, <1>5, <2>1 DEF Answers
  <2>5. Cardinality(Answers \cup batch) = Cardinality(Answers) + Cardinality(batch)
    BY <1>2, <2>2, <2>3, JoinedSize
  <2>6. Cardinality(Answers \cup batch) <= Cardinality(Answers')
    BY <2>3, <2>4, SmallerSize
  <2>7. Cardinality(Answers) \in Nat /\ Cardinality(Answers') \in Nat
    BY <2>3, TextsSize
  <2>8. embed'.embedded <= Cardinality(Answers')
    BY <1>3, <1>5, <2>5, <2>6, <2>7 DEF SearchInv, SearchTypes, Counted
  <2> QED
    BY <1>5, <2>1, <2>8 DEF SearchInv, Counted
<1> QED
  BY <1>4, <1>6, <1>7 DEF SearchInv

LEMMA BatchFailed ==
  ASSUME SearchInv, NEW batch \in embed.batches, Failed(batch)
  PROVE  SearchInv'
<1>1. UNCHANGED <<chunks, vectors, cache, foreign>> /\ CoverageNow' = CoverageNow
  BY DEF Failed, CoverageNow, TextsOf
<1>2. Cardinality(batch) \in Nat
  BY TextsSize DEF SearchInv, SearchTypes
<1>3. SearchTypes'
  <2>1. embed \in [pc : {"idle", "load", "run"}, missing : SUBSET Texts,
                   batches : SUBSET SUBSET Texts, storing : SUBSET Texts,
                   embedded : Nat, failed : Nat, skipped : Nat]
    BY DEF SearchInv, SearchTypes
  <2>2. embed.failed + Cardinality(batch) \in Nat
    BY <1>2, <2>1
  <2>3. embed.batches \ {batch} \in SUBSET SUBSET Texts
    BY <2>1
  <2>4. embed' = [embed EXCEPT !.batches = @ \ {batch}, !.failed = @ + Cardinality(batch)]
    BY DEF Failed
  <2>5. embed' \in [pc : {"idle", "load", "run"}, missing : SUBSET Texts,
                    batches : SUBSET SUBSET Texts, storing : SUBSET Texts,
                    embedded : Nat, failed : Nat, skipped : Nat]
    BY <2>1, <2>2, <2>3, <2>4
  <2> QED
    BY <1>1, <2>5 DEF SearchInv, SearchTypes
<1>4. /\ embed.pc = "run" /\ embed'.pc = "run"
      /\ embed'.storing = embed.storing /\ embed'.missing = embed.missing
      /\ embed'.batches = embed.batches \ {batch} /\ embed'.embedded = embed.embedded
  BY DEF Failed, SearchInv, SearchTypes
<1>5. CachesFresh'
  BY <1>1, <1>4 DEF SearchInv, CachesFresh
<1>6. Counted'
  <2>1. Answers' \in SUBSET Texts /\ Answers \in SUBSET Answers'
    BY <1>1, <1>3, <1>4 DEF SearchTypes, Answers
  <2>2. Cardinality(Answers) <= Cardinality(Answers')
    BY <2>1, SmallerSize
  <2>3. Cardinality(Answers) \in Nat /\ Cardinality(Answers') \in Nat
    BY <2>1, TextsSize
  <2> QED
    BY <1>4, <2>2, <2>3 DEF SearchInv, SearchTypes, Counted
<1> QED
  BY <1>3, <1>5, <1>6 DEF SearchInv

LEMMA VectorStored ==
  ASSUME SearchInv, NEW t \in Texts, StoreVector(t)
  PROVE  SearchInv'
<1>1. UNCHANGED <<chunks, foreign>> /\ vectors' = vectors \cup {t} /\ t \in embed.storing
  BY DEF StoreVector
<1>2. cache' = IF embed.storing = {t} THEN Invalidated ELSE cache
  BY DEF StoreVector
<1>3. SearchTypes'
  BY <1>1, <1>2 DEF StoreVector, SearchInv, SearchTypes, Invalidated
<1>4. /\ embed.pc = "run" /\ embed'.pc = "run"
      /\ embed'.storing = embed.storing \ {t} /\ embed'.missing = embed.missing
      /\ embed'.batches = embed.batches /\ embed'.embedded = embed.embedded
  BY DEF StoreVector, SearchInv, SearchTypes
<1>5. CachesFresh'
  BY <1>1, <1>2, <1>4 DEF SearchInv, SearchTypes, CachesFresh, Invalidated
<1>6. Counted'
  <2>1. Answers' = Answers
    BY <1>1, <1>4 DEF SearchInv, Counted, Answers
  <2> QED
    BY <1>4, <2>1 DEF SearchInv, Counted
<1> QED
  BY <1>3, <1>5, <1>6 DEF SearchInv

(* At rest and after a restart nothing is under way. *)
LEMMA EmptyRun ==
  ASSUME SearchTypes', embed' = NoRun
  PROVE  Counted'
<1>1. Answers' \in SUBSET Texts
  BY DEF SearchTypes, Answers
<1>2. Cardinality(Answers') \in Nat
  BY <1>1, TextsSize
<1> QED
  BY <1>2 DEF Counted, NoRun

LEMMA EmbeddingEnded ==
  ASSUME SearchInv, EndEmbedding
  PROVE  SearchInv'
<1>1. UNCHANGED <<chunks, vectors, cache, foreign>> /\ CoverageNow' = CoverageNow
  BY DEF EndEmbedding, CoverageNow, TextsOf
<1>2. embed' = NoRun /\ embed.storing = {}
  BY DEF EndEmbedding
<1>3. SearchTypes'
  BY <1>1, <1>2 DEF SearchInv, SearchTypes, NoRun
<1>4. CachesFresh'
  BY <1>1, <1>2 DEF SearchInv, CachesFresh
<1> QED
  BY <1>2, <1>3, <1>4, EmptyRun DEF SearchInv

LEMMA Restarted ==
  ASSUME SearchInv, Restart
  PROVE  SearchInv'
<1>1. UNCHANGED <<chunks, vectors>> /\ embed' = NoRun /\ cache' = NewCache
  BY DEF Restart
<1>2. SearchTypes'
  BY <1>1 DEF SearchInv, SearchTypes, NoRun, NewCache
<1>3. CachesFresh'
  BY <1>1 DEF CachesFresh, NewCache
<1> QED
  BY <1>1, <1>2, <1>3, EmptyRun DEF SearchInv

-----------------------------------------------------------------------------
(* Other processes. *)

LEMMA FileReplaced ==
  ASSUME SearchInv, NEW p \in Paths, NEW s \in Contents, ReplaceFile(p, s)
  PROVE  SearchInv'
<1>1. UNCHANGED <<vectors, cache, embed>> /\ foreign' = TRUE
  BY DEF ReplaceFile
<1>2. SearchTypes'
  BY <1>1, ReplacedTyped DEF SearchInv, SearchTypes
<1>3. CachesFresh' /\ Counted'
  BY <1>1 DEF SearchInv, CachesFresh, Counted, Answers
<1> QED
  BY <1>2, <1>3 DEF SearchInv

LEMMA StoredElsewhere ==
  ASSUME SearchInv, NEW t \in Texts, StoreElsewhere(t)
  PROVE  SearchInv'
<1>1. UNCHANGED <<chunks, cache, embed>> /\ foreign' = TRUE /\ vectors' = vectors \cup {t}
  BY DEF StoreElsewhere
<1>2. SearchTypes'
  BY <1>1 DEF SearchInv, SearchTypes
<1>3. CachesFresh'
  BY <1>1 DEF CachesFresh
<1>4. Counted'
  <2>1. Answers' \in SUBSET Texts /\ Answers \in SUBSET Answers'
    BY <1>1, <1>2 DEF SearchTypes, Answers
  <2>2. Cardinality(Answers) <= Cardinality(Answers')
    BY <2>1, SmallerSize
  <2>3. Cardinality(Answers) \in Nat /\ Cardinality(Answers') \in Nat
    BY <2>1, TextsSize
  <2> QED
    BY <1>1, <2>2, <2>3 DEF SearchInv, SearchTypes, Counted
<1> QED
  BY <1>2, <1>3, <1>4 DEF SearchInv

-----------------------------------------------------------------------------
LEMMA SearchInit ==
  ASSUME Init
  PROVE  SearchInv
<1>1. SearchTypes
  BY InitTyped
<1>2. CachesFresh
  BY DEF Init, NewCache, CachesFresh
<1>3. Counted
  <2>1. Answers \in SUBSET Texts
    BY <1>1 DEF SearchTypes, Answers
  <2>2. Cardinality(Answers) \in Nat
    BY <2>1, TextsSize
  <2> QED
    BY <2>2 DEF Init, NoRun, Counted
<1> QED
  BY <1>1, <1>2, <1>3 DEF SearchInv

LEMMA SearchStep ==
  ASSUME SearchInv, [Next]_vars
  PROVE  SearchInv'
<1>1. CASE \E q \in Queries : StartSearch(q)
  BY <1>1, SearchMoves
<1>2. CASE \E r \in Range(Retrievers) : Read(r) \/ ReadFails(r)
  BY <1>2, Elsewhere DEF Read, ReadFails, indexVars
<1>3. CASE ReadDense \/ FuseResults \/ ExpandResults \/ EndSearch
  BY <1>3, Elsewhere DEF ReadDense, FuseResults, ExpandResults, EndSearch, indexVars
<1>4. CASE BuildMap \/ SearchMap \/ UseMap \/ UNCHANGED vars
  BY <1>4, Elsewhere DEF BuildMap, SearchMap, UseMap, vars, indexVars
<1>5. CASE LoadMatrix
  BY <1>5, MatrixLoaded
<1>6. CASE StartEmbedding \/ LoadTexts \/ EndEmbedding \/ Restart
  BY <1>6, EmbeddingStarted, TextsLoaded, EmbeddingEnded, Restarted
<1>7. CASE \E b \in embed.batches : Answered(b) \/ Failed(b)
  BY <1>7, BatchAnswered, BatchFailed
<1>8. CASE \E t \in Texts : StoreVector(t) \/ StoreElsewhere(t)
  BY <1>8, VectorStored, StoredElsewhere
<1>9. CASE \E p \in Paths, s \in Contents : ReplaceFile(p, s)
  BY <1>9, FileReplaced
<1> QED
  BY <1>1, <1>2, <1>3, <1>4, <1>5, <1>6, <1>7, <1>8, <1>9 DEF Next

(* The caches and the count of the embedding run, in every behaviour. *)
THEOREM SearchTheorem == Spec => []SearchInv
<1>1. Init => SearchInv
  BY SearchInit
<1>2. SearchInv /\ [Next]_vars => SearchInv'
  BY SearchStep
<1> QED
  BY <1>1, <1>2, PTL DEF Spec

(* As long as nobody else writes the index, the caches tell what it holds. *)
THEOREM CachesTheorem == Spec => []CachesTrue
<1>1. SearchInv => CachesTrue
  BY DEF SearchInv, Counted, CachesFresh, CachesTrue, Resting
<1> QED
  BY <1>1, SearchTheorem, PTL

(* An embedding run that reports itself complete leaves nothing of its     *)
(* work list without a vector.                                             *)
THEOREM CompleteTheorem == Spec => []CompleteMeansEmbedded
<1>1. SearchInv => CompleteMeansEmbedded
  <2> SUFFICES ASSUME SearchInv, embed.batches = {}, embed.storing = {}, Complete
               PROVE  embed.missing \subseteq vectors
    BY DEF CompleteMeansEmbedded
  <2>1. Answers = embed.missing \cap vectors /\ embed.missing \in SUBSET Texts
    BY DEF Answers, SearchInv, SearchTypes
  <2>2. IsFiniteSet(embed.missing) /\ Cardinality(embed.missing) \in Nat /\ Cardinality(Answers) \in Nat
    BY <2>1, TextsSize
  <2>3. Cardinality(embed.missing) <= Cardinality(Answers)
    BY <2>2 DEF Complete, Remaining, SearchInv, SearchTypes, Counted
  <2>4. Answers = embed.missing
    BY <2>1, <2>2, <2>3, FS_Subset
  <2> QED
    BY <2>1, <2>4
<1> QED
  BY <1>1, SearchTheorem, PTL

-----------------------------------------------------------------------------
(* The map within the system. *)

\* The definitions a file's texts may have.
TextDefs == {Definition([path |-> p, text |-> t]) : p \in Paths, t \in Texts}

LEMMA TextDefsAreEntries == \A e \in TextDefs : Entry(e)
BY SearchAssumption, RankingAssumption DEF TextDefs, Definition, Entry

LEMMA TextDefsFinite == IsFiniteSet(TextDefs)
<1> DEFINE define == [x \in Paths \X Texts |-> Definition([path |-> x[1], text |-> x[2]])]
<1>1. IsFiniteSet(Paths \X Texts)
  BY SearchAssumption, FS_Product
<1>2. define \in [Paths \X Texts -> TextDefs]
  BY DEF TextDefs
<1>3. ASSUME NEW e \in TextDefs
      PROVE  \E x \in Paths \X Texts : define[x] = e
  <2>1. PICK p \in Paths, t \in Texts : e = Definition([path |-> p, text |-> t])
    BY DEF TextDefs
  <2>2. <<p, t>> \in Paths \X Texts /\ define[<<p, t>>] = e
    BY <2>1
  <2> QED
    BY <2>2
<1> HIDE DEF define
<1> QED
  BY <1>1, <1>2, <1>3, ImageFinite

LEMMA RankedTyped ==
  ASSUME SearchTypes, NEW s \in RankedOrders(chunks)
  PROVE  s \in Seq(TextDefs)
<1> DEFINE S == {Definition(c) : c \in {k \in chunks : Defines[k.text] # <<>>}}
<1>1. S \subseteq TextDefs
  BY DEF SearchTypes, TextDefs, Definition
<1>2. PICK n \in Nat : s \in [1 .. n -> S]
  <2>1. s \in [1 .. Cardinality(S) -> S]
    BY DEF RankedOrders, SetToSeqs
  <2>2. Cardinality(S) \in Nat
    BY <1>1, TextDefsFinite, FS_Subset, FS_CardinalityType
  <2> HIDE DEF S
  <2> QED
    BY <2>1, <2>2
<1> HIDE DEF S
<1> QED
  BY <1>1, <1>2

(* The same within the system, with rows that others replace while the     *)
(* map is built.                                                           *)
THEOREM LargestTheorem == Spec => []LargestPrefix
<1>1. Init => MapInd(TextDefs)
  BY NoMapYet DEF Init
<1>2. SearchInv /\ MapInd(TextDefs) /\ [Next]_vars => MapInd(TextDefs)'
  <2> SUFFICES ASSUME SearchInv, MapInd(TextDefs), [Next]_vars
               PROVE  MapInd(TextDefs)'
    OBVIOUS
  <2>1. CASE BuildMap
    BY <2>1, RankedTyped, StartKeeps DEF BuildMap, SearchInv
  <2>2. CASE SearchMap
    BY <2>2, TextDefsAreEntries, ProbeKeeps, EndKeeps DEF SearchMap
  <2>3. CASE UseMap
    <3>1. map' = NoMap
      BY <2>3 DEF UseMap
    <3> QED
      BY <3>1 DEF NoMap, MapInd, MapType, MapInv
  <2>4. ASSUME ~ BuildMap, ~ SearchMap, ~ UseMap
        PROVE  UNCHANGED map
    BY <2>4 DEF Next, vars, StartSearch, Read, ReadFails, LoadMatrix, ReadDense, FuseResults,
         ExpandResults, EndSearch, StartEmbedding, LoadTexts, EndEmbedding, Restart, Answered,
         Failed, StoreVector, StoreElsewhere, ReplaceFile
  <2> QED
    BY <2>1, <2>2, <2>3, <2>4, MapStays
<1>3. MapInd(TextDefs) => LargestPrefix
  BY MapIsLargest
<1> QED
  BY <1>1, <1>2, <1>3, SearchTheorem, PTL DEF Spec

-----------------------------------------------------------------------------
(* Sorting by keys: lists of n integers. *)

Keys(n) == [1 .. n -> Int]

LEMMA LeastNatural ==
  ASSUME NEW T \in SUBSET Nat, T # {}
  PROVE  \E x \in T : \A y \in T : x <= y
<1>1. PICK x \in T : \A y \in T : ~ (<<y, x>> \in OpToRel(<, Nat))
  BY WFMin, NatLessThanWellFounded
<1>2. \A y \in T : ~ (y < x)
  BY <1>1 DEF OpToRel
<1> QED
  BY <1>2

LEMMA LessTotal ==
  ASSUME NEW n \in Nat, NEW a \in Keys(n), NEW b \in Keys(n), a # b
  PROVE  Less(a, b) \/ Less(b, a)
<1> DEFINE D == {i \in 1 .. n : a[i] # b[i]}
<1>1. D \in SUBSET Nat /\ D # {}
  BY DEF Keys
<1>2. PICK d \in D : \A i \in D : d <= i
  BY <1>1, LeastNatural
<1>3. d \in 1 .. n /\ a[d] # b[d] /\ \A j \in 1 .. d - 1 : a[j] = b[j]
  BY <1>2
<1>4. a[d] \in Int /\ b[d] \in Int /\ DOMAIN a = 1 .. n /\ DOMAIN b = 1 .. n
  BY <1>3 DEF Keys
<1>5. CASE a[d] < b[d]
  BY <1>3, <1>4, <1>5 DEF Less
<1>6. CASE b[d] < a[d]
  BY <1>3, <1>4, <1>6 DEF Less
<1> QED
  BY <1>3, <1>4, <1>5, <1>6

LEMMA LessOrder ==
  ASSUME NEW n \in Nat, NEW a \in Keys(n), NEW b \in Keys(n), Less(a, b)
  PROVE  ~ Less(b, a) /\ \A c \in Keys(n) : Less(b, c) => Less(a, c)
<1>1. PICK i \in 1 .. n : a[i] < b[i] /\ \A j \in 1 .. i - 1 : a[j] = b[j]
  BY DEF Less, Keys
<1>2. ~ Less(b, a)
  <2> SUFFICES ASSUME NEW k \in 1 .. n, b[k] < a[k], \A j \in 1 .. k - 1 : a[j] = b[j]
               PROVE  FALSE
    BY DEF Less, Keys
  <2>1. a[k] \in Int /\ b[k] \in Int /\ a[i] \in Int /\ b[i] \in Int
    BY DEF Keys
  <2> QED
    BY <1>1, <2>1
<1>3. ASSUME NEW c \in Keys(n), Less(b, c)
      PROVE  Less(a, c)
  <2>1. PICK k \in 1 .. n : b[k] < c[k] /\ \A j \in 1 .. k - 1 : b[j] = c[j]
    BY <1>3 DEF Less, Keys
  <2>2. \A j \in 1 .. n : a[j] \in Int /\ b[j] \in Int /\ c[j] \in Int
    BY DEF Keys
  <2>3. DOMAIN a = 1 .. n
    BY DEF Keys
  <2>4. CASE i <= k
    <3>1. a[i] < c[i] /\ \A j \in 1 .. i - 1 : a[j] = c[j]
      BY <1>1, <2>1, <2>2, <2>4
    <3> QED
      BY <2>3, <3>1 DEF Less
  <2>5. CASE k < i
    <3>1. a[k] < c[k] /\ \A j \in 1 .. k - 1 : a[j] = c[j]
      BY <1>1, <2>1, <2>2, <2>5
    <3> QED
      BY <2>3, <3>1 DEF Less
  <2> QED
    BY <2>4, <2>5
<1> QED
  BY <1>2, <1>3

(* Sorted puts every member into one place, and a smaller key earlier. *)
LEMMA SortedOrder ==
  ASSUME NEW n \in Nat, NEW S, IsFiniteSet(S), NEW key, \A x \in S : key[x] \in Keys(n),
         \A x, y \in S : key[x] = key[y] => x = y
  PROVE  /\ Cardinality(S) \in Nat
         /\ Sorted(S, key) \in [1 .. Cardinality(S) -> S]
         /\ \A x \in S : \E k \in 1 .. Cardinality(S) : Sorted(S, key)[k] = x
         /\ \A i, k \in 1 .. Cardinality(S) : Sorted(S, key)[i] = Sorted(S, key)[k] => i = k
         /\ \A i, k \in 1 .. Cardinality(S) :
              Less(key[Sorted(S, key)[i]], key[Sorted(S, key)[k]]) => i < k
<1> DEFINE m == Cardinality(S)
           below(x) == {y \in S : Less(key[y], key[x])}
           place == [x \in S |-> Cardinality(below(x)) + 1]
<1>1. m \in Nat
  BY FS_CardinalityType
<1>2. ASSUME NEW x \in S
      PROVE  IsFiniteSet(below(x)) /\ Cardinality(below(x)) \in 0 .. m - 1
  <2>1. x \notin below(x)
    BY LessOrder
  <2>2. below(x) \in SUBSET S /\ below(x) # S
    BY <2>1
  <2>3. IsFiniteSet(below(x)) /\ Cardinality(below(x)) <= m /\ Cardinality(below(x)) # m
    <3> HIDE DEF below
    <3> QED
      BY <2>2, FS_Subset
  <2>4. Cardinality(below(x)) \in Nat
    BY <2>3, FS_CardinalityType
  <2> HIDE DEF m, below
  <2> QED
    BY <1>1, <2>3, <2>4
<1>11. \A x \in S : Cardinality(below(x)) \in Int
  <2> HIDE DEF below, m
  <2> QED
    BY <1>1, <1>2
<1>3. ASSUME NEW x \in S, NEW y \in S, Less(key[x], key[y])
      PROVE  place[x] < place[y]
  <2>1. below(x) \in SUBSET below(y) /\ x \in below(y) /\ x \notin below(x)
    BY <1>3, LessOrder
  <2>2. Cardinality(below(x)) <= Cardinality(below(y)) /\ Cardinality(below(x)) # Cardinality(below(y))
    <3>1. IsFiniteSet(below(y))
      BY <1>2
    <3> HIDE DEF below
    <3> QED
      BY <2>1, <3>1, FS_Subset
  <2>3. Cardinality(below(x)) \in Int /\ Cardinality(below(y)) \in Int
    BY <1>11
  <2> HIDE DEF below
  <2> QED
    BY <2>2, <2>3
<1>4. place \in [S -> 1 .. m]
  <2>1. \A x \in S : Cardinality(below(x)) + 1 \in 1 .. m
    <3>1. \A x \in S : Cardinality(below(x)) \in 0 .. m - 1
      BY <1>2
    <3> HIDE DEF below, m
    <3> QED
      BY <1>1, <3>1
  <2> QED
    BY <2>1
<1>5. \A x, y \in S : place[x] = place[y] => x = y
  <2>1. ASSUME NEW x \in S, NEW y \in S, x # y
        PROVE  place[x] # place[y]
    <3>1. Less(key[x], key[y]) \/ Less(key[y], key[x])
      BY <2>1, LessTotal
    <3>2. place[x] < place[y] \/ place[y] < place[x]
      BY <1>3, <3>1
    <3>3. place[x] \in Int /\ place[y] \in Int
      BY <1>4
    <3> QED
      BY <3>2, <3>3
  <2> QED
    BY <2>1
<1>6. \A k \in 1 .. m : \E x \in S : place[x] = k
  <2>1. place \in Injection(S, 1 .. m)
    BY <1>4, <1>5 DEF Injection, IsInjective
  <2>2. IsFiniteSet(1 .. m) /\ Cardinality(1 .. m) = m
    BY <1>1, FS_Interval
  <2>3. place \in Surjection(S, 1 .. m)
    <3> HIDE DEF place
    <3> QED
      BY <2>1, <2>2, FS_Injection
  <2> QED
    BY <2>3 DEF Surjection
<1> DEFINE s == Sorted(S, key)
<1>7. ASSUME NEW k \in 1 .. m
      PROVE  s[k] \in S /\ place[s[k]] = k
  <2>1. PICK x \in S : place[x] = k
    BY <1>6
  <2>2. Cardinality(below(x)) = k - 1
    <3>1. Cardinality(below(x)) \in Int
      BY <1>11
    <3>2. Cardinality(below(x)) + 1 = k
      BY <2>1
    <3> HIDE DEF below
    <3> QED
      BY <3>1, <3>2
  <2>3. s[k] = CHOOSE z \in S : Cardinality(below(z)) = k - 1
    BY DEF Sorted
  <2>4. s[k] \in S /\ Cardinality(below(s[k])) = k - 1
    <3> HIDE DEF s, below
    <3> QED
      BY <2>2, <2>3
  <2>5. place[s[k]] = Cardinality(below(s[k])) + 1
    BY <2>4
  <2> HIDE DEF s, below, place
  <2> QED
    BY <1>1, <2>4, <2>5
<1>8. s \in [1 .. m -> S]
  <2> DEFINE at(k) == CHOOSE x \in S : Cardinality(below(x)) = k - 1
  <2>1. s = [k \in 1 .. m |-> at(k)]
    BY DEF Sorted
  <2> HIDE DEF s, m, at
  <2> QED
    BY <1>7, <2>1
<1>9. \A x \in S : \E k \in 1 .. m : s[k] = x
  <2>1. \A x \in S : s[place[x]] = x /\ place[x] \in 1 .. m
    <3> HIDE DEF s, place, m
    <3> QED
      BY <1>4, <1>5, <1>7
  <2> HIDE DEF s, place, m
  <2> QED
    BY <2>1
<1>10. ASSUME NEW i \in 1 .. m, NEW k \in 1 .. m
       PROVE  /\ s[i] = s[k] => i = k
              /\ Less(key[s[i]], key[s[k]]) => i < k
  <2> HIDE DEF s, place, m
  <2> QED
    BY <1>3, <1>7
<1> QED
  BY <1>1, <1>8, <1>9, <1>10

LEMMA TuplesAreKeys ==
  /\ \A a \in Int : <<a>> \in Keys(1)
  /\ \A a, b \in Int : <<a, b>> \in Keys(2)
  /\ \A a, b, c \in Int : <<a, b, c>> \in Keys(3)
<1>1. ASSUME NEW a \in Int
      PROVE  <<a>> \in Keys(1)
  BY DEF Keys
<1>2. ASSUME NEW a \in Int, NEW b \in Int
      PROVE  <<a, b>> \in Keys(2)
  BY DEF Keys
<1>3. ASSUME NEW a \in Int, NEW b \in Int, NEW c \in Int
      PROVE  <<a, b, c>> \in Keys(3)
  BY DEF Keys
<1> QED
  BY <1>1, <1>2, <1>3

LEMMA LessTwo ==
  ASSUME NEW a \in Int, NEW b \in Int, NEW c \in Int, NEW d \in Int,
         a < c \/ (a = c /\ b < d)
  PROVE  Less(<<a, b>>, <<c, d>>)
<1> DEFINE x == <<a, b>>
           y == <<c, d>>
<1>1. DOMAIN x = 1 .. 2 /\ x[1] = a /\ x[2] = b /\ y[1] = c /\ y[2] = d
  OBVIOUS
<1> HIDE DEF x, y
<1>2. CASE a < c
  <2>1. x[1] < y[1] /\ \A j \in 1 .. 1 - 1 : x[j] = y[j]
    BY <1>1, <1>2
  <2> QED
    BY <1>1, <2>1 DEF Less, x, y
<1>3. CASE a = c /\ b < d
  <2>1. x[2] < y[2] /\ \A j \in 1 .. 2 - 1 : x[j] = y[j]
    BY <1>1, <1>3
  <2>2. Less(x, y)
    BY <1>1, <2>1 DEF Less
  <2> QED
    BY <2>2 DEF x, y
<1> QED
  BY <1>2, <1>3

-----------------------------------------------------------------------------
(* The first n, and what is at some places. *)

LEMMA TopType ==
  ASSUME NEW T, NEW s \in Seq(T), NEW n \in Nat
  PROVE  /\ Top(s, n) \in Seq(T) /\ Len(Top(s, n)) <= n /\ Len(Top(s, n)) <= Len(s)
         /\ \A i \in 1 .. Len(Top(s, n)) : Top(s, n)[i] = s[i]
BY DEF Top

LEMMA SortedSeq ==
  ASSUME NEW n \in Nat, NEW S, IsFiniteSet(S), NEW key, \A x \in S : key[x] \in Keys(n),
         \A x, y \in S : key[x] = key[y] => x = y
  PROVE  Sorted(S, key) \in Seq(S)
<1>1. Cardinality(S) \in Nat /\ Sorted(S, key) \in [1 .. Cardinality(S) -> S]
  BY SortedOrder
<1> QED
  BY <1>1

(* At keeps the order: `o` is the list of places. *)
LEMMA AtType ==
  ASSUME NEW T, NEW s \in Seq(T), NEW I \in SUBSET DOMAIN s
  PROVE  \E o \in [1 .. Cardinality(I) -> I] :
           /\ Cardinality(I) \in Nat
           /\ At(s, I) = [k \in 1 .. Cardinality(I) |-> s[o[k]]]
           /\ At(s, I) \in Seq(T) /\ Len(At(s, I)) = Cardinality(I)
           /\ \A i, k \in 1 .. Cardinality(I) : o[i] = o[k] => i = k
<1> DEFINE key == [i \in I |-> <<i>>]
           o == Sorted(I, key)
<1>1. Len(s) \in Nat /\ I \in SUBSET (1 .. Len(s)) /\ DOMAIN s = 1 .. Len(s)
  OBVIOUS
<1>2. IsFiniteSet(I)
  <2>1. IsFiniteSet(1 .. Len(s))
    BY <1>1, FS_Interval
  <2> QED
    BY <1>1, <2>1, FS_Subset
<1>3. \A i \in I : key[i] = <<i>> /\ i \in Int
  BY <1>1
<1>4. \A i \in I : key[i] \in Keys(1)
  <2> HIDE DEF key
  <2> QED
    BY <1>3, TuplesAreKeys
<1>5. \A i, j \in I : key[i] = key[j] => i = j
  <2>1. \A i, j \in I : <<i>> = <<j>> => i = j
    OBVIOUS
  <2> HIDE DEF key
  <2> QED
    BY <1>3, <2>1
<1>6. /\ Cardinality(I) \in Nat /\ o \in [1 .. Cardinality(I) -> I]
      /\ \A i, k \in 1 .. Cardinality(I) : o[i] = o[k] => i = k
  <2> HIDE DEF key
  <2> QED
    BY <1>2, <1>4, <1>5, SortedOrder
<1>7. At(s, I) = [k \in 1 .. Cardinality(I) |-> s[o[k]]]
  BY DEF At
<1> HIDE DEF o
<1>8. At(s, I) \in [1 .. Cardinality(I) -> T]
  BY <1>1, <1>6, <1>7
<1>9. At(s, I) \in Seq(T) /\ Len(At(s, I)) = Cardinality(I)
  BY <1>6, <1>8
<1> QED
  BY <1>6, <1>7, <1>9

-----------------------------------------------------------------------------
(* The retrievers return rows of the index they read. *)

LEMMA Bm25Type ==
  ASSUME NEW q \in Query, NEW rows, IndexRows(rows)
  PROVE  Bm25(q, rows) \in Seq(rows)
<1> DEFINE hits == {c \in rows : q.words[c.text] > 0}
           key == [c \in hits |-> <<-q.words[c.text], c.id>>]
<1>1. hits \in SUBSET rows /\ IsFiniteSet(hits)
  BY FS_Subset DEF IndexRows
<1>2. \A c \in hits : -q.words[c.text] \in Int /\ c.id \in Int
  BY DEF IndexRows, Chunk, Query
<1>3. \A c \in hits : key[c] \in Keys(2)
  BY <1>2, TuplesAreKeys
<1>4. \A b, c \in hits : key[b] = key[c] => b = c
  BY DEF IndexRows
<1>5. Sorted(hits, key) \in Seq(hits)
  <2> HIDE DEF hits, key
  <2> QED
    BY <1>1, <1>3, <1>4, SortedSeq
<1>6. Sorted(hits, key) \in Seq(rows)
  BY <1>5
<1>7. Bm25(q, rows) = Top(Sorted(hits, key), TopK)
  BY DEF Bm25
<1> HIDE DEF hits, key
<1> QED
  BY <1>6, <1>7, TopType, RankingAssumption

LEMMA SymbolHitsType ==
  ASSUME NEW names, NEW rows, IndexRows(rows)
  PROVE  SymbolHits(names, rows) \in Seq(rows \X Nat)
<1> DEFINE of(c) == {c} \X {k \in DOMAIN Defines[c.text] : Defines[c.text][k] \in names}
           all == [c \in rows |-> of(c)]
           hits == UNION {of(c) : c \in rows}
           key == [x \in hits |-> <<Size[x[1].text], x[1].id, x[2]>>]
<1>1. \A c \in rows : /\ c.id \in Int /\ c.text \in Texts /\ Size[c.text] \in Int
                      /\ Defines[c.text] \in Seq(Names)
  BY RankingAssumption DEF IndexRows, Chunk
<1>2. \A c \in rows : DOMAIN Defines[c.text] = 1 .. Len(Defines[c.text])
                      /\ Len(Defines[c.text]) \in Nat
  BY <1>1
<1>3. hits \in SUBSET (rows \X Nat)
  BY <1>2
<1>4. IsFiniteSet(hits)
  <2>1. ASSUME NEW c \in rows
        PROVE  IsFiniteSet(of(c))
    <3> DEFINE K == {k \in DOMAIN Defines[c.text] : Defines[c.text][k] \in names}
    <3>1. IsFiniteSet(1 .. Len(Defines[c.text]))
      BY <1>2, FS_Interval
    <3>2. IsFiniteSet(K)
      BY <1>2, <3>1, FS_Subset
    <3>3. IsFiniteSet({c})
      BY FS_Singleton
    <3> HIDE DEF K
    <3>4. IsFiniteSet({c} \X K)
      BY <3>2, <3>3, FS_Product
    <3> QED
      BY <3>4 DEF K
  <2> DEFINE pieces == {of(c) : c \in rows}
  <2>2. IsFiniteSet(pieces)
    <3>1. all \in [rows -> pieces] /\ \A t \in pieces : \E c \in rows : all[c] = t
      OBVIOUS
    <3>2. IsFiniteSet(rows)
      BY DEF IndexRows
    <3> HIDE DEF all, pieces
    <3> QED
      BY <3>1, <3>2, ImageFinite
  <2>3. \A t \in pieces : IsFiniteSet(t)
    BY <2>1
  <2> HIDE DEF of
  <2>4. IsFiniteSet(UNION pieces)
    <3> HIDE DEF pieces
    <3> QED
      BY <2>2, <2>3, FS_UNION
  <2> QED
    BY <2>4
<1>5. \A x \in hits : key[x] = <<Size[x[1].text], x[1].id, x[2]>>
  OBVIOUS
<1>6. \A x \in hits : x[1] \in rows /\ x[2] \in Nat /\ x = <<x[1], x[2]>>
  BY <1>3
<1>7. \A x \in hits : key[x] \in Keys(3)
  <2> HIDE DEF hits, key
  <2>1. ASSUME NEW x \in hits
        PROVE  key[x] \in Keys(3)
    <3>1. Size[x[1].text] \in Int /\ x[1].id \in Int /\ x[2] \in Int
      BY <1>1, <1>6
    <3> QED
      BY <1>5, <3>1, TuplesAreKeys
  <2> QED
    BY <2>1
<1>8. ASSUME NEW x \in hits, NEW y \in hits, key[x] = key[y]
      PROVE  x = y
  <2> HIDE DEF hits, key
  <2>1. <<Size[x[1].text], x[1].id, x[2]>> = <<Size[y[1].text], y[1].id, y[2]>>
    BY <1>5, <1>8
  <2>2. x[1].id = y[1].id /\ x[2] = y[2]
    BY <2>1
  <2>3. x[1] = y[1]
    BY <1>6, <2>2 DEF IndexRows
  <2> QED
    BY <1>6, <2>2, <2>3
<1>9. Sorted(hits, key) \in Seq(hits)
  <2> HIDE DEF hits, key
  <2> QED
    BY <1>4, <1>7, <1>8, SortedSeq
<1>10. SymbolHits(names, rows) = Sorted(hits, key)
  BY DEF SymbolHits
<1> HIDE DEF hits, key
<1>11. Seq(hits) \subseteq Seq(rows \X Nat)
  BY <1>3
<1> QED
  BY <1>9, <1>10, <1>11

LEMMA SymbolType ==
  ASSUME NEW q \in Query, NEW rows, IndexRows(rows)
  PROVE  Symbol(q, rows) \in Seq(rows)
<1> DEFINE exact == SymbolHits(q.names, rows)
           loose == SymbolHits({n \in Names : \E m \in q.names : <<m, n>> \in Loose}, rows)
           hits == IF exact # <<>> THEN exact ELSE loose
           first == [i \in DOMAIN hits |-> hits[i][1]]
<1>1. exact \in Seq(rows \X Nat) /\ loose \in Seq(rows \X Nat)
  BY SymbolHitsType
<1>2. hits \in Seq(rows \X Nat)
  BY <1>1
<1>3. Symbol(q, rows) = Top(first, TopK)
  BY DEF Symbol
<1> HIDE DEF hits
<1>4. first \in Seq(rows)
  BY <1>2
<1> HIDE DEF first
<1> QED
  BY <1>3, <1>4, TopType, RankingAssumption

LEMMA PathType ==
  ASSUME NEW q \in Query, NEW rows, IndexRows(rows)
  PROVE  Path(q, rows) \in Seq(rows)
<1> DEFINE wanted == {c \in rows : c.path \in IF q.paths # {} THEN q.paths ELSE q.stems}
           key == [c \in wanted |-> <<c.part, c.id>>]
           top == Top(Sorted(wanted, key), 4 * TopK)
           fetched == Range(top)
           file == [c \in fetched |-> <<q.place[c.path], c.part, c.id>>]
<1>1. \A c \in rows : c.id \in Int /\ c.part \in Int /\ q.place[c.path] \in Int
  BY DEF IndexRows, Chunk, Query, Injection
<1>2. wanted \in SUBSET rows /\ IsFiniteSet(wanted)
  BY FS_Subset DEF IndexRows
<1>3. \A c \in wanted : key[c] \in Keys(2)
  BY <1>1, TuplesAreKeys
<1>4. \A b, c \in wanted : key[b] = key[c] => b = c
  BY DEF IndexRows
<1>5. top \in Seq(wanted)
  <2> HIDE DEF wanted, key
  <2>1. Sorted(wanted, key) \in Seq(wanted)
    BY <1>2, <1>3, <1>4, SortedSeq
  <2>2. 4 * TopK \in Nat
    BY RankingAssumption
  <2> QED
    BY <2>1, <2>2, TopType
<1>6. fetched \in SUBSET wanted
  <2> HIDE DEF top, wanted
  <2> QED
    BY <1>5 DEF Range
<1>7. fetched \in SUBSET rows /\ IsFiniteSet(fetched)
  <2> HIDE DEF fetched, wanted
  <2> QED
    BY <1>2, <1>6, FS_Subset
<1>8. \A c \in fetched : file[c] \in Keys(3)
  <2>1. \A c \in fetched : file[c] = <<q.place[c.path], c.part, c.id>>
    OBVIOUS
  <2> HIDE DEF fetched, file
  <2> QED
    BY <1>1, <1>7, <2>1, TuplesAreKeys
<1>9. \A b, c \in fetched : file[b] = file[c] => b = c
  <2>1. \A c \in fetched : file[c] = <<q.place[c.path], c.part, c.id>>
    OBVIOUS
  <2> HIDE DEF fetched, file
  <2> QED
    BY <1>7, <2>1 DEF IndexRows
<1>10. Path(q, rows) = Top(Sorted(fetched, file), TopK)
  BY DEF Path
<1> HIDE DEF wanted, key, top, fetched, file
<1>11. Sorted(fetched, file) \in Seq(fetched)
  BY <1>7, <1>8, <1>9, SortedSeq
<1>13. TopK \in Nat
  BY RankingAssumption
<1>12. Sorted(fetched, file) \in Seq(rows)
  BY <1>7, <1>11
<1> QED
  BY <1>10, <1>13, <1>12, TopType

LEMMA NearestType ==
  ASSUME NEW q \in Query, NEW matrix \in SUBSET Texts
  PROVE  Nearest(q, matrix) \in Seq(Texts)
<1> DEFINE key == [t \in matrix |-> <<-q.near[t], Hash[t]>>]
<1>1. \A t \in matrix : -q.near[t] \in Int /\ Hash[t] \in Int
  BY RankingAssumption DEF Query, Injection
<1>2. IsFiniteSet(matrix)
  BY SearchAssumption, FS_Subset
<1>3. \A t \in matrix : key[t] \in Keys(2)
  BY <1>1, TuplesAreKeys
<1>4. \A s, t \in matrix : key[s] = key[t] => s = t
  BY RankingAssumption DEF Injection, IsInjective
<1>5. Nearest(q, matrix) = Top(Sorted(matrix, key), 2 * TopK)
  BY DEF Nearest
<1> HIDE DEF key
<1>6. Sorted(matrix, key) \in Seq(matrix)
  BY <1>2, <1>3, <1>4, SortedSeq
<1>7. Sorted(matrix, key) \in Seq(Texts) /\ 2 * TopK \in Nat
  BY <1>6, RankingAssumption
<1> QED
  BY <1>5, <1>7, TopType

LEMMA LeastRow ==
  ASSUME NEW rows, IndexRows(rows), NEW t, \E c \in rows : c.text = t
  PROVE  \E c \in rows : c.text = t /\ \A b \in rows : b.text = t => c.id <= b.id
<1> DEFINE T == {c.id : c \in {b \in rows : b.text = t}}
<1>1. T \in SUBSET Nat /\ T # {}
  BY DEF IndexRows, Chunk
<1>2. PICK n \in T : \A k \in T : n <= k
  BY <1>1, LeastNatural
<1> QED
  BY <1>2

LEMMA DenseType ==
  ASSUME NEW hits \in Seq(Texts), NEW rows, IndexRows(rows)
  PROVE  Dense(hits, rows) \in Seq(rows)
<1> DEFINE I == {i \in DOMAIN hits : \E c \in rows : c.text = hits[i]}
           found == At(hits, I)
           of(t) == CHOOSE c \in rows : c.text = t /\ \A b \in rows : b.text = t => c.id <= b.id
           first == [i \in DOMAIN found |-> of(found[i])]
<1>1. PICK o \in [1 .. Cardinality(I) -> I] :
        /\ Cardinality(I) \in Nat
        /\ found = [k \in 1 .. Cardinality(I) |-> hits[o[k]]]
        /\ found \in Seq(Texts) /\ Len(found) = Cardinality(I)
  <2>1. I \in SUBSET DOMAIN hits
    OBVIOUS
  <2> HIDE DEF I
  <2> QED
    BY <2>1, AtType
<1>2. \A k \in 1 .. Cardinality(I) : \E c \in rows : c.text = found[k]
  <2>1. \A i \in I : \E c \in rows : c.text = hits[i]
    OBVIOUS
  <2> HIDE DEF I, found
  <2> QED
    BY <1>1, <2>1
<1>3. \A k \in 1 .. Cardinality(I) : of(found[k]) \in rows
  <2> HIDE DEF I, found
  <2> QED
    BY <1>2, LeastRow
<1>4. DOMAIN found = 1 .. Cardinality(I)
  <2> HIDE DEF I
  <2> QED
    BY <1>1
<1>5. Dense(hits, rows) = Top(first, TopK)
  BY DEF Dense
<1>6. first \in Seq(rows)
  <2> HIDE DEF found, I, of
  <2>1. first \in [1 .. Cardinality(I) -> rows]
    BY <1>3, <1>4
  <2> HIDE DEF first
  <2> QED
    BY <1>1, <2>1
<1> HIDE DEF first
<1> QED
  BY <1>5, <1>6, TopType, RankingAssumption

-----------------------------------------------------------------------------
(* Fusion. *)

Names4 == {"bm25", "symbol", "path", "dense"}

LEMMA RetrieverNames == Range(Retrievers) = Names4
<1>1. DOMAIN Retrievers = 1 .. 4
  BY DEF Retrievers
<1>2. /\ Retrievers[1] = "bm25" /\ Retrievers[2] = "symbol"
      /\ Retrievers[3] = "path" /\ Retrievers[4] = "dense"
  BY DEF Retrievers
<1>3. 1 .. 4 = {1, 2, 3, 4}
  OBVIOUS
<1>4. Range(Retrievers) = {Retrievers[i] : i \in 1 .. 4}
  BY <1>1 DEF Range
<1> QED
  BY <1>2, <1>3, <1>4 DEF Names4

LEMMA FirstPlace ==
  ASSUME NEW T, NEW s \in Seq(T), NEW id, \E i \in DOMAIN s : s[i].id = id
  PROVE  \E i \in DOMAIN s : s[i].id = id /\ \A j \in 1 .. i - 1 : s[j].id # id
<1> DEFINE D == {i \in DOMAIN s : s[i].id = id}
<1>1. D \in SUBSET Nat /\ D # {} /\ DOMAIN s = 1 .. Len(s) /\ Len(s) \in Nat
  OBVIOUS
<1>2. PICK d \in D : \A i \in D : d <= i
  BY <1>1, LeastNatural
<1>3. d \in DOMAIN s /\ s[d].id = id
  BY <1>2
<1>4. ASSUME NEW j \in 1 .. d - 1
      PROVE  s[j].id # id
  <2>1. j \in DOMAIN s /\ j < d
    BY <1>1, <1>3
  <2>2. j \notin D
    BY <1>2, <2>1, <1>1
  <2> QED
    BY <2>1, <2>2
<1> QED
  BY <1>3, <1>4

(* What is met, piece by piece. *)
LEMMA Joined ==
  ASSUME NEW T, NEW s \in Seq(T), NEW t \in Seq(T)
  PROVE  /\ s \o t \in Seq(T) /\ Len(s \o t) = Len(s) + Len(t)
         /\ \A i \in 1 .. Len(s) : (s \o t)[i] = s[i]
         /\ \A i \in 1 .. Len(t) : (s \o t)[Len(s) + i] = t[i]
OBVIOUS

\* Piece(s, t, off): t is the part of s that begins behind off.
Piece(s, t, off) ==
    off \in Nat /\ off + Len(t) <= Len(s) /\ \A k \in 1 .. Len(t) : s[off + k] = t[k]

LEMMA PieceJoined ==
  ASSUME NEW T, NEW s \in Seq(T), NEW t \in Seq(T), NEW u \in Seq(T), NEW off, Piece(s, u, off)
  PROVE  Piece(s \o t, u, off)
<1>1. /\ Len(s \o t) = Len(s) + Len(t) /\ Len(s) \in Nat /\ Len(t) \in Nat /\ Len(u) \in Nat
      /\ \A i \in 1 .. Len(s) : (s \o t)[i] = s[i]
  BY Joined
<1> PICK w : w = s \o t
  OBVIOUS
<1>2. \A k \in 1 .. Len(u) : off + k \in 1 .. Len(s)
  BY <1>1 DEF Piece
<1> QED
  BY <1>1, <1>2 DEF Piece

LEMMA JoinedPieces ==
  ASSUME NEW T, NEW s \in Seq(T), NEW t \in Seq(T)
  PROVE  Piece(s \o t, s, 0) /\ Piece(s \o t, t, Len(s))
<1>1. /\ Len(s \o t) = Len(s) + Len(t) /\ Len(s) \in Nat /\ Len(t) \in Nat
      /\ \A i \in 1 .. Len(s) : (s \o t)[i] = s[i]
      /\ \A i \in 1 .. Len(t) : (s \o t)[Len(s) + i] = t[i]
  BY Joined
<1> PICK w : w = s \o t
  OBVIOUS
<1> QED
  BY <1>1 DEF Piece

LEMMA MetPieces ==
  ASSUME NEW T, NEW found \in [Names4 -> Seq(T)]
  PROVE  /\ Met(found) \in Seq(T)
         /\ \A r \in Names4 : \E off : Piece(Met(found), found[r], off)
         /\ \A i \in DOMAIN Met(found) : \E r \in Names4 : \E k \in DOMAIN found[r] :
              \E off : i = off + k /\ Piece(Met(found), found[r], off)
<1> PICK a : a = found["bm25"]
  OBVIOUS
<1> PICK b : b = found["symbol"]
  OBVIOUS
<1> PICK c : c = found["path"]
  OBVIOUS
<1> PICK d : d = found["dense"]
  OBVIOUS
<1>1. a \in Seq(T) /\ b \in Seq(T) /\ c \in Seq(T) /\ d \in Seq(T)
  BY DEF Names4
<1>12. PICK x : x = a \o b
  OBVIOUS
<1>13. PICK y : y = x \o c
  OBVIOUS
<1>14. PICK z : z = y \o d
  OBVIOUS
<1>2. x \in Seq(T) /\ y \in Seq(T) /\ z \in Seq(T)
  BY <1>1, <1>12, <1>13, <1>14
<1>3. Met(found) = z
  BY <1>12, <1>13, <1>14 DEF Met
<1>4. Len(x) = Len(a) + Len(b) /\ Len(y) = Len(x) + Len(c) /\ Len(z) = Len(y) + Len(d)
  BY <1>1, <1>2, <1>12, <1>13, <1>14
<1>5. /\ Len(a) \in Nat /\ Len(b) \in Nat /\ Len(c) \in Nat /\ Len(d) \in Nat
      /\ DOMAIN a = 1 .. Len(a) /\ DOMAIN b = 1 .. Len(b)
      /\ DOMAIN c = 1 .. Len(c) /\ DOMAIN d = 1 .. Len(d) /\ DOMAIN z = 1 .. Len(z)
  BY <1>1, <1>2
<1>6. Piece(z, a, 0)
  <2>1. Piece(x, a, 0)
    BY <1>1, <1>12, JoinedPieces
  <2>2. Piece(y, a, 0)
    BY <1>1, <1>2, <1>13, <2>1, PieceJoined
  <2> QED
    BY <1>1, <1>2, <1>14, <2>2, PieceJoined
<1>7. Piece(z, b, Len(a))
  <2>1. Piece(x, b, Len(a))
    BY <1>1, <1>12, JoinedPieces
  <2>2. Piece(y, b, Len(a))
    BY <1>1, <1>2, <1>13, <2>1, PieceJoined
  <2> QED
    BY <1>1, <1>2, <1>14, <2>2, PieceJoined
<1>8. Piece(z, c, Len(x))
  <2>1. Piece(y, c, Len(x))
    BY <1>1, <1>2, <1>13, JoinedPieces
  <2> QED
    BY <1>1, <1>2, <1>14, <2>1, PieceJoined
<1>9. Piece(z, d, Len(y))
  BY <1>1, <1>2, <1>14, JoinedPieces
<1>10. ASSUME NEW i \in DOMAIN z
       PROVE  \E r \in Names4 : \E k \in DOMAIN found[r] :
                \E off : i = off + k /\ Piece(z, found[r], off)
  <2>1. i \in 1 .. Len(z) /\ i \in Nat
    BY <1>5
  <2>2. CASE i <= Len(a)
    <3>1. i \in DOMAIN a /\ i = 0 + i
      BY <1>5, <2>1, <2>2
    <3> QED
      BY <1>6, <3>1 DEF Names4
  <2>3. CASE Len(a) < i /\ i <= Len(x)
    <3>1. PICK k : k = i - Len(a)
      OBVIOUS
    <3>2. Len(a) \in Nat /\ Len(b) \in Nat /\ i <= Len(a) + Len(b) /\ Len(a) < i
      BY ONLY <1>4, <1>5, <2>1, <2>3
    <3>3. k \in 1 .. Len(b) /\ i = Len(a) + k
      BY ONLY <2>1, <3>1, <3>2
    <3>4. k \in DOMAIN b
      BY <1>5, <3>3
    <3> QED
      BY <1>7, <3>3, <3>4 DEF Names4
  <2>4. CASE Len(x) < i /\ i <= Len(y)
    <3>1. PICK k : k = i - Len(x)
      OBVIOUS
    <3>2. Len(x) \in Nat /\ Len(c) \in Nat /\ i <= Len(x) + Len(c) /\ Len(x) < i
      BY ONLY <1>4, <1>5, <2>1, <2>4
    <3>3. k \in 1 .. Len(c) /\ i = Len(x) + k
      BY ONLY <2>1, <3>1, <3>2
    <3>4. k \in DOMAIN c
      BY <1>5, <3>3
    <3> QED
      BY <1>8, <3>3, <3>4 DEF Names4
  <2>5. CASE Len(y) < i
    <3>1. PICK k : k = i - Len(y)
      OBVIOUS
    <3>2. Len(y) \in Nat /\ Len(d) \in Nat /\ i <= Len(y) + Len(d) /\ Len(y) < i
      BY ONLY <1>4, <1>5, <2>1, <2>5
    <3>3. k \in 1 .. Len(d) /\ i = Len(y) + k
      BY ONLY <2>1, <3>1, <3>2
    <3>4. k \in DOMAIN d
      BY <1>5, <3>3
    <3> QED
      BY <1>9, <3>3, <3>4 DEF Names4
  <2> QED
    BY <1>5, <2>1, <2>2, <2>3, <2>4, <2>5
<1>11. \A r \in Names4 : \E off : Piece(z, found[r], off)
  BY <1>6, <1>7, <1>8, <1>9 DEF Names4
<1> QED
  <2> HIDE DEF Piece
  <2> QED
    BY <1>2, <1>3, <1>10, <1>11

\* The place at which a number is met first.
Place(found, id) ==
    CHOOSE i \in DOMAIN Met(found) :
        Met(found)[i].id = id /\ \A j \in 1 .. i - 1 : Met(found)[j].id # id

Ids(found) == {c.id : c \in Range(Met(found))}

LEMMA PlaceType ==
  ASSUME NEW T, NEW found \in [Names4 -> Seq(T)], NEW id \in Ids(found)
  PROVE  /\ Place(found, id) \in DOMAIN Met(found) /\ Place(found, id) \in Nat
         /\ Met(found)[Place(found, id)].id = id
         /\ \A j \in 1 .. Place(found, id) - 1 : Met(found)[j].id # id
         /\ FirstMet(found, id) = Met(found)[Place(found, id)]
         /\ FirstMet(found, id) \in T /\ FirstMet(found, id).id = id
<1> PICK m : m = Met(found)
  OBVIOUS
<1>1. m \in Seq(T)
  BY MetPieces
<1>2. \E i \in DOMAIN m : m[i].id = id
  BY DEF Ids, Range
<1>3. \E i \in DOMAIN m : m[i].id = id /\ \A j \in 1 .. i - 1 : m[j].id # id
  BY ONLY <1>1, <1>2, FirstPlace
<1>4. Place(found, id) = CHOOSE i \in DOMAIN m : m[i].id = id /\ \A j \in 1 .. i - 1 : m[j].id # id
  BY DEF Place
<1> PICK p : p = Place(found, id)
  OBVIOUS
<1>5. p \in DOMAIN m /\ m[p].id = id /\ \A j \in 1 .. p - 1 : m[j].id # id
  BY <1>3, <1>4
<1>6. FirstMet(found, id) = m[p]
  BY <1>4 DEF FirstMet
<1>7. p \in Nat /\ m[p] \in T
  BY <1>1, <1>5
<1> QED
  BY <1>5, <1>6, <1>7

LEMMA BestRankIs ==
  ASSUME NEW T, NEW found \in [Names4 -> Seq(T)], NEW r \in Names4, NEW id,
         RanksOf(found, r, id) # {}
  PROVE  /\ BestRank(found, r, id) \in RanksOf(found, r, id)
         /\ \A j \in RanksOf(found, r, id) : BestRank(found, r, id) <= j
         /\ BestRank(found, r, id) \in Nat \ {0}
<1>1. found[r] \in Seq(T)
  OBVIOUS
<1>2. RanksOf(found, r, id) \in SUBSET Nat /\ 0 \notin RanksOf(found, r, id)
  BY <1>1 DEF RanksOf
<1>3. \E i \in RanksOf(found, r, id) : \A j \in RanksOf(found, r, id) : i <= j
  BY <1>2, LeastNatural
<1>4. /\ BestRank(found, r, id) \in RanksOf(found, r, id)
      /\ \A j \in RanksOf(found, r, id) : BestRank(found, r, id) <= j
  <2> PICK R : R = RanksOf(found, r, id)
    OBVIOUS
  <2>1. BestRank(found, r, id) = CHOOSE i \in R : \A j \in R : i <= j
    BY DEF BestRank
  <2> QED
    BY <1>3, <2>1
<1> QED
  BY <1>2, <1>4

LEMMA Quotient ==
  ASSUME NEW u \in Nat, NEW x \in Nat \ {0}, NEW y \in Nat \ {0}, x <= y
  PROVE  u \div x \in Nat /\ u \div y \in Nat /\ u \div y <= u \div x
<1> PICK p : p = u \div x
  OBVIOUS
<1> PICK q : q = u \div y
  OBVIOUS
<1>1. p \in Nat /\ q \in Nat
  OBVIOUS
<1>2. x * p <= u /\ u < x * (p + 1) /\ y * q <= u
  OBVIOUS
<1>3. ASSUME q >= p + 1
      PROVE  FALSE
  <2>1. x * (p + 1) <= x * q
    BY <1>1, <1>3
  <2>2. x * q <= y * q
    BY <1>1
  <2> QED
    BY <1>1, <1>2, <2>1, <2>2
<1> QED
  BY <1>1, <1>3

LEMMA WeightType ==
  ASSUME NEW r \in Names4, NEW symbolic
  PROVE  WeightOf(r, symbolic) \in Nat
BY RetrieverNames, RankingAssumption DEF WeightOf

LEMMA Product ==
  ASSUME NEW w \in Nat, NEW x \in Nat, NEW y \in Nat, x <= y
  PROVE  w * x \in Nat /\ w * y \in Nat /\ w * x <= w * y
OBVIOUS

LEMMA ContributionType ==
  ASSUME NEW T, NEW found \in [Names4 -> Seq(T)], NEW r \in Names4, NEW id, NEW symbolic
  PROVE  Contribution(found, r, id, symbolic) \in Nat
<1>1. CASE RanksOf(found, r, id) = {}
  BY <1>1 DEF Contribution
<1>2. CASE RanksOf(found, r, id) # {}
  <2> PICK k : k = RrfK + BestRank(found, r, id)
    OBVIOUS
  <2>0. RrfK \in Nat /\ Unit \in Nat
    BY RankingAssumption
  <2>1. k \in Nat \ {0}
    <3>1. BestRank(found, r, id) \in Nat \ {0}
      BY <1>2, BestRankIs
    <3> QED
      BY <2>0, <3>1
  <2>2. Unit \div k \in Nat
    <3>1. k <= k
      BY <2>1
    <3> QED
      BY ONLY <2>0, <2>1, <3>1, Quotient
  <2>3. WeightOf(r, symbolic) * (Unit \div k) \in Nat
    BY <2>2, WeightType
  <2> QED
    BY <1>2, <2>3 DEF Contribution
<1> QED
  BY <1>1, <1>2

LEMMA AdjustmentType ==
  ASSUME NEW c \in Chunk
  PROVE  Adjustment(c) \in Nat
<1> PICK d : d = Discount[c.path]
  OBVIOUS
<1> PICK x : x = IF c.path \in Pinned THEN 15 ELSE 10
  OBVIOUS
<1> PICK y : y = IF Defines[c.text] # <<>> THEN 11 ELSE 10
  OBVIOUS
<1>1. d \in Nat /\ x \in Nat /\ y \in Nat
  BY RankingAssumption DEF Chunk
<1>2. (d * x) * y \in Nat
  BY <1>1
<1> QED
  BY <1>2 DEF Adjustment

LEMMA ScoreType ==
  ASSUME NEW T \in SUBSET Chunk, NEW found \in [Names4 -> Seq(T)], NEW id \in Ids(found),
         NEW symbolic
  PROVE  Score(found, id, symbolic) \in Nat
<1>1. FirstMet(found, id) \in Chunk
  BY PlaceType
<1>2. Adjustment(FirstMet(found, id)) \in Nat
  BY <1>1, AdjustmentType
<1>3. /\ Contribution(found, "bm25", id, symbolic) \in Nat
      /\ Contribution(found, "symbol", id, symbolic) \in Nat
      /\ Contribution(found, "path", id, symbolic) \in Nat
      /\ Contribution(found, "dense", id, symbolic) \in Nat
  BY ContributionType DEF Names4
<1> QED
  BY <1>2, <1>3 DEF Score

(* One row for each number that was met, the best first. *)
LEMMA FuseIs ==
  ASSUME NEW T \in SUBSET Chunk, NEW found \in [Names4 -> Seq(T)], NEW symbolic
  PROVE  LET fused == Fuse(found, symbolic)
             id(i) == fused[i].id
         IN  /\ fused \in Seq(T)
             /\ \A i \in DOMAIN fused : id(i) \in Ids(found) /\ fused[i] = FirstMet(found, id(i))
             /\ \A i, k \in DOMAIN fused : id(i) = id(k) => i = k
             /\ \A i, k \in DOMAIN fused :
                  Less(<<-Score(found, id(i), symbolic), Place(found, id(i))>>,
                       <<-Score(found, id(k), symbolic), Place(found, id(k))>>) => i < k
<1> DEFINE ids == Ids(found)
           key == [id \in ids |-> <<-Score(found, id, symbolic), Place(found, id)>>]
           order == Sorted(ids, key)
           rows == [i \in DOMAIN order |-> FirstMet(found, order[i])]
<1>1. IsFiniteSet(ids)
  <2> PICK m : m = Met(found)
    OBVIOUS
  <2>1. m \in Seq(T)
    BY MetPieces
  <2>2. IsFiniteSet(DOMAIN m)
    <3>1. DOMAIN m = 1 .. Len(m) /\ Len(m) \in Nat
      BY <2>1
    <3> QED
      BY <3>1, FS_Interval
  <2> DEFINE f == [i \in DOMAIN m |-> m[i].id]
  <2>3. f \in [DOMAIN m -> ids] /\ \A x \in ids : \E i \in DOMAIN m : f[i] = x
    BY DEF Ids, Range
  <2> HIDE DEF f, ids
  <2> QED
    BY <2>2, <2>3, ImageFinite
<1>2. \A id \in ids : /\ Score(found, id, symbolic) \in Nat
                      /\ Place(found, id) \in Nat
                      /\ Met(found)[Place(found, id)].id = id
  BY ScoreType, PlaceType
<1>3. \A id \in ids : key[id] = <<-Score(found, id, symbolic), Place(found, id)>>
  OBVIOUS
<1> HIDE DEF ids, key
<1>4. \A id \in ids : key[id] \in Keys(2)
  <2>1. ASSUME NEW id \in ids
        PROVE  key[id] \in Keys(2)
    <3>1. -Score(found, id, symbolic) \in Int /\ Place(found, id) \in Int
      BY <1>2
    <3> QED
      BY <1>3, <3>1, TuplesAreKeys
  <2> QED
    BY <2>1
<1>5. \A a, b \in ids : key[a] = key[b] => a = b
  <2>1. ASSUME NEW a \in ids, NEW b \in ids, key[a] = key[b]
        PROVE  a = b
    <3>1. Place(found, a) = Place(found, b)
      BY <1>3, <2>1
    <3> QED
      BY <1>2, <3>1
  <2> QED
    BY <2>1
<1>6. /\ Cardinality(ids) \in Nat
      /\ order \in [1 .. Cardinality(ids) -> ids]
      /\ \A i, k \in 1 .. Cardinality(ids) : order[i] = order[k] => i = k
      /\ \A i, k \in 1 .. Cardinality(ids) : Less(key[order[i]], key[order[k]]) => i < k
  BY <1>1, <1>4, <1>5, SortedOrder
<1>7. Fuse(found, symbolic) = Top(rows, Limit * Spread)
  BY DEF Fuse, Place, Ids, ids, key
<1> HIDE DEF order
<1>8. \A i \in 1 .. Cardinality(ids) :
        rows[i] = FirstMet(found, order[i]) /\ rows[i] \in T /\ rows[i].id = order[i]
  <2>1. \A i \in 1 .. Cardinality(ids) : rows[i] = FirstMet(found, order[i]) /\ order[i] \in ids
    BY <1>6
  <2> HIDE DEF rows
  <2> QED
    BY <2>1, PlaceType DEF ids
<1>9. rows \in Seq(T) /\ Len(rows) = Cardinality(ids)
  <2>1. rows = [i \in 1 .. Cardinality(ids) |-> rows[i]]
    BY <1>6
  <2> HIDE DEF rows
  <2>2. rows \in [1 .. Cardinality(ids) -> T]
    BY <1>8, <2>1
  <2> QED
    BY <1>6, <2>2
<1> HIDE DEF rows
<1> PICK fused : fused = Fuse(found, symbolic)
  OBVIOUS
<1>10. /\ fused \in Seq(T) /\ Len(fused) <= Cardinality(ids)
       /\ \A i \in 1 .. Len(fused) : fused[i] = rows[i]
  <2>1. Limit * Spread \in Nat
    BY RankingAssumption
  <2> PICK n : n = Limit * Spread
    OBVIOUS
  <2>2. n \in Nat
    BY <2>1
  <2>3. /\ Top(rows, n) \in Seq(T) /\ Len(Top(rows, n)) <= Len(rows)
        /\ \A i \in 1 .. Len(Top(rows, n)) : Top(rows, n)[i] = rows[i]
    BY ONLY <1>9, <2>2, TopType
  <2>4. fused = Top(rows, n)
    BY <1>7
  <2> QED
    BY <1>9, <2>3, <2>4
<1>11. DOMAIN fused = 1 .. Len(fused) /\ Len(fused) \in Nat
  BY <1>10
<1>12. \A i \in DOMAIN fused : /\ i \in 1 .. Cardinality(ids) /\ fused[i].id = order[i]
                               /\ fused[i] = FirstMet(found, order[i]) /\ order[i] \in ids
  BY <1>6, <1>8, <1>10, <1>11
<1>13. \A i, k \in DOMAIN fused :
         Less(<<-Score(found, fused[i].id, symbolic), Place(found, fused[i].id)>>,
              <<-Score(found, fused[k].id, symbolic), Place(found, fused[k].id)>>) => i < k
  <2>1. ASSUME NEW i \in DOMAIN fused
        PROVE  /\ i \in 1 .. Cardinality(ids)
               /\ key[order[i]] = <<-Score(found, fused[i].id, symbolic), Place(found, fused[i].id)>>
    <3>1. i \in 1 .. Cardinality(ids) /\ fused[i].id = order[i] /\ order[i] \in ids
      BY <1>12
    <3> QED
      BY <1>3, <3>1
  <2>2. ASSUME NEW i \in DOMAIN fused, NEW k \in DOMAIN fused,
               Less(<<-Score(found, fused[i].id, symbolic), Place(found, fused[i].id)>>,
                    <<-Score(found, fused[k].id, symbolic), Place(found, fused[k].id)>>)
        PROVE  i < k
    <3>1. Less(key[order[i]], key[order[k]])
      BY <2>1, <2>2
    <3> QED
      BY <1>6, <2>1, <3>1
  <2> QED
    BY <2>2
<1> QED
  BY <1>6, <1>10, <1>12, <1>13 DEF ids

(* What every list prefers is met earlier and scores no less for its ranks. *)
LEMMA DominantIsAhead ==
  ASSUME NEW T \in SUBSET Chunk, NEW found \in [Names4 -> Seq(T)], NEW symbolic,
         NEW a \in Ids(found), NEW b \in Ids(found), Dominates(found, a, b)
  PROVE  /\ Place(found, a) < Place(found, b)
         /\ \A r \in Names4 : Contribution(found, r, b, symbolic) <= Contribution(found, r, a, symbolic)
<1>1. /\ \A r \in Names4 : RanksOf(found, r, b) # {} =>
           RanksOf(found, r, a) # {} /\ BestRank(found, r, a) <= BestRank(found, r, b)
      /\ \E r \in Names4 :
           /\ RanksOf(found, r, a) # {}
           /\ RanksOf(found, r, b) # {} => BestRank(found, r, a) < BestRank(found, r, b)
  <2>1. DOMAIN found = Names4
    OBVIOUS
  <2> QED
    BY <2>1 DEF Dominates, RanksOf, BestRank
<1>2. a # b
  <2> SUFFICES ASSUME a = b
               PROVE  FALSE
    OBVIOUS
  <2>1. PICK r \in Names4 : RanksOf(found, r, a) # {} /\ BestRank(found, r, a) < BestRank(found, r, a)
    BY <1>1
  <2>2. BestRank(found, r, a) \in Nat
    BY <2>1, BestRankIs
  <2> QED
    BY <2>1, <2>2
<1>3. Place(found, a) < Place(found, b)
  <2> PICK m : m = Met(found)
    OBVIOUS
  <2> PICK p : p = Place(found, a)
    OBVIOUS
  <2> PICK q : q = Place(found, b)
    OBVIOUS
  <2>1. /\ m \in Seq(T)
        /\ p \in Nat /\ q \in DOMAIN m /\ q \in Nat /\ m[q].id = b
        /\ \A j \in 1 .. p - 1 : m[j].id # a
        /\ \A j \in 1 .. q - 1 : m[j].id # b
    BY MetPieces, PlaceType
  <2>2. PICK r \in Names4 : \E k \in DOMAIN found[r] :
          \E off : q = off + k /\ Piece(m, found[r], off)
    BY <2>1, MetPieces
  <2>3. PICK k \in DOMAIN found[r] : \E off : q = off + k /\ Piece(m, found[r], off)
    BY <2>2
  <2>4. PICK off : q = off + k /\ Piece(m, found[r], off)
    BY <2>3
  <2> PICK s : s = found[r]
    OBVIOUS
  <2>5. s \in Seq(T) /\ DOMAIN s = 1 .. Len(s) /\ Len(s) \in Nat
    OBVIOUS
  <2>6. k \in 1 .. Len(s) /\ off \in Nat /\ \A i \in 1 .. Len(s) : m[off + i] = s[i]
    BY <2>3, <2>4, <2>5 DEF Piece
  <2>7. s[k].id = b
    BY <2>1, <2>4, <2>6
  <2>8. k \in RanksOf(found, r, b)
    BY <2>3, <2>7 DEF RanksOf
  <2> PICK i : i = BestRank(found, r, a)
    OBVIOUS
  <2>9. i \in RanksOf(found, r, a) /\ i <= k
    <3>1. RanksOf(found, r, a) # {} /\ i <= BestRank(found, r, b) /\ RanksOf(found, r, b) # {}
      BY <1>1, <2>8
    <3>2. BestRank(found, r, b) <= k /\ BestRank(found, r, b) \in Nat
      BY <2>8, BestRankIs
    <3>3. i \in RanksOf(found, r, a) /\ i \in Nat
      BY <3>1, BestRankIs
    <3> QED
      BY <2>6, <3>1, <3>2, <3>3
  <2>10. i \in 1 .. Len(s) /\ s[i].id = a
    BY <2>5, <2>9 DEF RanksOf
  <2>11. i # k
    BY <1>2, <2>7, <2>10
  <2>12. m[off + i].id = a /\ off + i < q /\ off + i >= 1 /\ off + i \in Nat
    BY <2>4, <2>6, <2>9, <2>10, <2>11
  <2>13. p <= off + i
    BY <2>1, <2>12
  <2> QED
    BY <2>1, <2>12, <2>13
<1>4. ASSUME NEW r \in Names4
      PROVE  Contribution(found, r, b, symbolic) <= Contribution(found, r, a, symbolic)
  <2>1. CASE RanksOf(found, r, b) = {}
    <3>1. Contribution(found, r, b, symbolic) = 0 /\ Contribution(found, r, a, symbolic) \in Nat
      BY <2>1, ContributionType DEF Contribution
    <3> QED
      BY <3>1
  <2>2. CASE RanksOf(found, r, b) # {}
    <3>1. RanksOf(found, r, a) # {} /\ BestRank(found, r, a) <= BestRank(found, r, b)
      BY <1>1, <2>2
    <3> PICK x : x = RrfK + BestRank(found, r, a)
      OBVIOUS
    <3> PICK y : y = RrfK + BestRank(found, r, b)
      OBVIOUS
    <3> PICK w : w = WeightOf(r, symbolic)
      OBVIOUS
    <3>2. x \in Nat \ {0} /\ y \in Nat \ {0} /\ x <= y
      <4>1. BestRank(found, r, a) \in Nat \ {0} /\ BestRank(found, r, b) \in Nat \ {0}
        BY <2>2, <3>1, BestRankIs
      <4> QED
        BY <3>1, <4>1, RankingAssumption
    <3>3. Unit \div y \in Nat /\ Unit \div x \in Nat /\ Unit \div y <= Unit \div x
      BY <3>2, Quotient, RankingAssumption
    <3>4. w \in Nat
      BY WeightType
    <3>5. w * (Unit \div y) <= w * (Unit \div x)
      <4> PICK u : u = Unit \div y
        OBVIOUS
      <4> PICK v : v = Unit \div x
        OBVIOUS
      <4>1. u \in Nat /\ v \in Nat /\ u <= v
        BY <3>3
      <4>2. w * u <= w * v
        BY ONLY <3>4, <4>1, Product
      <4> QED
        BY <4>2
    <3> QED
      BY <2>2, <3>1, <3>5 DEF Contribution
  <2> QED
    BY <2>1, <2>2
<1> QED
  BY <1>3, <1>4

LEMMA DominanceKept ==
  ASSUME NEW T \in SUBSET Chunk, NEW found \in [Names4 -> Seq(T)], NEW symbolic,
         NEW i \in DOMAIN Fuse(found, symbolic), NEW k \in DOMAIN Fuse(found, symbolic),
         Dominates(found, Fuse(found, symbolic)[i].id, Fuse(found, symbolic)[k].id),
         Adjustment(Fuse(found, symbolic)[i]) >= Adjustment(Fuse(found, symbolic)[k])
  PROVE  i < k
<1> PICK fused : fused = Fuse(found, symbolic)
  OBVIOUS
<1> PICK a : a = fused[i].id
  OBVIOUS
<1> PICK b : b = fused[k].id
  OBVIOUS
<1>1. /\ a \in Ids(found) /\ fused[i] = FirstMet(found, a)
      /\ b \in Ids(found) /\ fused[k] = FirstMet(found, b)
      /\ Less(<<-Score(found, a, symbolic), Place(found, a)>>,
              <<-Score(found, b, symbolic), Place(found, b)>>) => i < k
  BY FuseIs
<1>2. /\ Place(found, a) < Place(found, b)
      /\ \A r \in Names4 : Contribution(found, r, b, symbolic) <= Contribution(found, r, a, symbolic)
  BY <1>1, DominantIsAhead
<1>3. \A r \in Names4 : /\ Contribution(found, r, a, symbolic) \in Nat
                        /\ Contribution(found, r, b, symbolic) \in Nat
  BY ContributionType
<1> DEFINE sum(id) == Contribution(found, "bm25", id, symbolic) + Contribution(found, "symbol", id, symbolic)
                        + Contribution(found, "path", id, symbolic) + Contribution(found, "dense", id, symbolic)
<1> PICK u : u = sum(a)
  OBVIOUS
<1> PICK v : v = sum(b)
  OBVIOUS
<1>4. u \in Nat /\ v \in Nat /\ v <= u
  <2>1. "bm25" \in Names4 /\ "symbol" \in Names4 /\ "path" \in Names4 /\ "dense" \in Names4
    BY DEF Names4
  <2> PICK x1 : x1 = Contribution(found, "bm25", a, symbolic)
    OBVIOUS
  <2> PICK y1 : y1 = Contribution(found, "bm25", b, symbolic)
    OBVIOUS
  <2> PICK x2 : x2 = Contribution(found, "symbol", a, symbolic)
    OBVIOUS
  <2> PICK y2 : y2 = Contribution(found, "symbol", b, symbolic)
    OBVIOUS
  <2> PICK x3 : x3 = Contribution(found, "path", a, symbolic)
    OBVIOUS
  <2> PICK y3 : y3 = Contribution(found, "path", b, symbolic)
    OBVIOUS
  <2> PICK x4 : x4 = Contribution(found, "dense", a, symbolic)
    OBVIOUS
  <2> PICK y4 : y4 = Contribution(found, "dense", b, symbolic)
    OBVIOUS
  <2>2. /\ x1 \in Nat /\ x2 \in Nat /\ x3 \in Nat /\ x4 \in Nat
        /\ y1 \in Nat /\ y2 \in Nat /\ y3 \in Nat /\ y4 \in Nat
        /\ y1 <= x1 /\ y2 <= x2 /\ y3 <= x3 /\ y4 <= x4
    BY <1>2, <1>3, <2>1
  <2>3. u = x1 + x2 + x3 + x4 /\ v = y1 + y2 + y3 + y4
    OBVIOUS
  <2> QED
    BY ONLY <2>2, <2>3
<1> PICK x : x = Adjustment(FirstMet(found, a))
  OBVIOUS
<1> PICK y : y = Adjustment(FirstMet(found, b))
  OBVIOUS
<1>5. x \in Nat /\ y \in Nat /\ y <= x
  <2>1. FirstMet(found, a) \in Chunk /\ FirstMet(found, b) \in Chunk
    BY <1>1, PlaceType
  <2> QED
    BY <1>1, <2>1, AdjustmentType
<1>6. Score(found, a, symbolic) = x * u /\ Score(found, b, symbolic) = y * v
  BY DEF Score
<1>7. y * v <= x * u /\ x * u \in Nat /\ y * v \in Nat
  <2>1. u \in Nat /\ v \in Nat /\ v <= u
    BY <1>4
  <2>2. y * v <= y * u /\ y * v \in Nat /\ y * u \in Nat
    BY ONLY <1>5, <2>1, Product
  <2>3. u * y <= u * x /\ u * x \in Nat /\ u * y \in Nat
    BY ONLY <1>5, <2>1, Product
  <2>4. u * y = y * u /\ u * x = x * u
    BY <1>5, <2>1
  <2> QED
    BY <2>2, <2>3, <2>4
<1> HIDE DEF sum
<1> PICK sa : sa = Score(found, a, symbolic)
  OBVIOUS
<1> PICK sb : sb = Score(found, b, symbolic)
  OBVIOUS
<1>8. sa \in Nat /\ sb \in Nat /\ sb <= sa
  BY <1>6, <1>7
<1> PICK pa : pa = Place(found, a)
  OBVIOUS
<1> PICK pb : pb = Place(found, b)
  OBVIOUS
<1>9. pa \in Nat /\ pb \in Nat /\ pa < pb
  BY <1>1, <1>2, PlaceType
<1>10. Less(<<-sa, pa>>, <<-sb, pb>>)
  <2>1. -sa \in Int /\ -sb \in Int /\ (-sa < -sb \/ (-sa = -sb /\ pa < pb))
    BY <1>8, <1>9
  <2> QED
    BY <1>9, <2>1, LessTwo
<1> QED
  BY <1>1, <1>10

-----------------------------------------------------------------------------
(* Diversity. *)

LEMMA DiversifyIs ==
  ASSUME NEW T, NEW rows \in Seq(T), NEW named,
         \A i, k \in DOMAIN rows : rows[i].id = rows[k].id => i = k
  PROVE  LET kept == Diversify(rows, named)
         IN  /\ kept \in Seq(T) /\ Len(kept) <= Limit
             /\ \A i, k \in DOMAIN kept : kept[i].id = kept[k].id => i = k
             /\ \A p : p \notin named =>
                  Cardinality({i \in DOMAIN kept : kept[i].path = p}) <= MaxPerFile
<1> DEFINE before(i) == {j \in 1 .. i - 1 : rows[j].path = rows[i].path}
           I == {i \in DOMAIN rows : rows[i].path \in named \/ Cardinality(before(i)) < MaxPerFile}
           n == Cardinality(I)
<1>1. Len(rows) \in Nat /\ DOMAIN rows = 1 .. Len(rows)
  OBVIOUS
<1>2. PICK o \in [1 .. n -> I] :
        /\ n \in Nat /\ At(rows, I) = [k \in 1 .. n |-> rows[o[k]]]
        /\ At(rows, I) \in Seq(T) /\ Len(At(rows, I)) = n
        /\ \A i, k \in 1 .. n : o[i] = o[k] => i = k
  <2>1. I \in SUBSET DOMAIN rows
    OBVIOUS
  <2> HIDE DEF I
  <2> QED
    BY <2>1, AtType
<1>3. Diversify(rows, named) = Top(At(rows, I), Limit)
  BY DEF Diversify
<1>4. \A i \in I : i \in DOMAIN rows /\ (rows[i].path \in named \/ Cardinality(before(i)) < MaxPerFile)
  OBVIOUS
<1> HIDE DEF I, n, before
<1> PICK kept : kept = Diversify(rows, named)
  OBVIOUS
<1> PICK at : at = At(rows, I)
  OBVIOUS
<1>5. /\ kept \in Seq(T) /\ Len(kept) <= Limit /\ Len(kept) <= n
      /\ \A i \in 1 .. Len(kept) : kept[i] = at[i]
  <2>1. Limit \in Nat
    BY RankingAssumption
  <2>2. at \in Seq(T) /\ Len(at) = n
    BY <1>2
  <2>3. kept = Top(at, Limit)
    BY <1>3
  <2> QED
    BY ONLY <2>1, <2>2, <2>3, TopType
<1>6. Len(kept) \in Nat /\ DOMAIN kept = 1 .. Len(kept)
  BY <1>5
<1>7. \A i \in DOMAIN kept : i \in 1 .. n /\ kept[i] = rows[o[i]] /\ o[i] \in I
  <2>1. ASSUME NEW i \in DOMAIN kept
        PROVE  i \in 1 .. n /\ kept[i] = rows[o[i]] /\ o[i] \in I
    <3>1. i \in 1 .. n /\ kept[i] = at[i]
      <4>1. i \in 1 .. Len(kept)
        BY <1>6, <2>1
      <4>2. n \in Nat /\ Len(kept) \in Nat /\ Len(kept) <= n
        BY <1>2, <1>5, <1>6
      <4>3. i \in 1 .. n
        BY ONLY <4>1, <4>2
      <4> QED
        BY <1>5, <4>1, <4>3
    <3>2. at[i] = rows[o[i]]
      BY <1>2, <3>1
    <3> QED
      BY <1>2, <3>1, <3>2
  <2> QED
    BY <2>1
<1>8. \A i, k \in DOMAIN kept : kept[i].id = kept[k].id => i = k
  <2>1. ASSUME NEW i \in DOMAIN kept, NEW k \in DOMAIN kept, kept[i].id = kept[k].id
        PROVE  i = k
    <3>1. rows[o[i]].id = rows[o[k]].id /\ o[i] \in DOMAIN rows /\ o[k] \in DOMAIN rows
      BY <1>4, <1>7, <2>1
    <3>2. o[i] = o[k]
      BY <3>1
    <3> QED
      BY <1>2, <1>7, <3>2
  <2> QED
    BY <2>1
<1>9. ASSUME NEW p, p \notin named
      PROVE  Cardinality({i \in DOMAIN kept : kept[i].path = p}) <= MaxPerFile
  <2> DEFINE P == {i \in DOMAIN kept : kept[i].path = p}
             nth == [i \in P |-> Cardinality(before(o[i]))]
  <2>1. MaxPerFile \in Nat
    BY RankingAssumption
  <2>2. \A i \in P : /\ i \in 1 .. n /\ o[i] \in 1 .. Len(rows) /\ rows[o[i]].path = p
                     /\ Cardinality(before(o[i])) < MaxPerFile
    BY <1>1, <1>4, <1>7, <1>9
  <2>3. ASSUME NEW j \in 1 .. Len(rows)
        PROVE  IsFiniteSet(before(j)) /\ Cardinality(before(j)) \in Nat
               /\ \A k \in before(j) : k \in 1 .. j - 1
    <3>1. IsFiniteSet(1 .. j - 1)
      BY <2>3, FS_Interval
    <3>2. before(j) \in SUBSET (1 .. j - 1)
      BY DEF before
    <3> QED
      BY <3>1, <3>2, FS_Subset, FS_CardinalityType
  <2>4. ASSUME NEW j \in 1 .. Len(rows), NEW k \in 1 .. Len(rows), j < k,
               rows[j].path = rows[k].path
        PROVE  Cardinality(before(j)) < Cardinality(before(k))
    <3>1. before(j) \in SUBSET before(k) /\ j \in before(k)
      BY <2>4 DEF before
    <3>2. j \notin before(j)
      BY <2>3
    <3>3. IsFiniteSet(before(k)) /\ Cardinality(before(k)) \in Nat /\ Cardinality(before(j)) \in Nat
      BY <2>3
    <3>4. Cardinality(before(j)) <= Cardinality(before(k)) /\ Cardinality(before(j)) # Cardinality(before(k))
      BY <3>1, <3>2, <3>3, FS_Subset
    <3> QED
      BY <3>3, <3>4
  <2>5. nth \in [P -> 0 .. MaxPerFile - 1]
    <3>1. \A i \in P : Cardinality(before(o[i])) \in 0 .. MaxPerFile - 1
      <4>1. \A i \in P : Cardinality(before(o[i])) \in Nat /\ Cardinality(before(o[i])) < MaxPerFile
        <5> HIDE DEF P
        <5> QED
          BY <2>2, <2>3
      <4> HIDE DEF P
      <4> QED
        BY <2>1, <4>1
    <3> HIDE DEF P
    <3> QED
      BY <3>1
  <2>6. ASSUME NEW i \in P, NEW k \in P, nth[i] = nth[k]
        PROVE  i = k
    <3>1. Cardinality(before(o[i])) = Cardinality(before(o[k]))
      BY <2>6
    <3> PICK x : x = o[i]
      OBVIOUS
    <3> PICK y : y = o[k]
      OBVIOUS
    <3>2. /\ x \in 1 .. Len(rows) /\ y \in 1 .. Len(rows) /\ rows[x].path = rows[y].path
          /\ i \in 1 .. n /\ k \in 1 .. n
      BY <2>2
    <3>3. ~ (x < y) /\ ~ (y < x)
      <4>1. Cardinality(before(x)) = Cardinality(before(y)) /\ Cardinality(before(x)) \in Nat
        BY <2>3, <3>1, <3>2
      <4> QED
        BY <2>4, <3>2, <4>1
    <3>4. x = y
      BY <3>2, <3>3
    <3> QED
      BY <1>2, <3>2, <3>4
  <2>7. nth \in Injection(P, 0 .. MaxPerFile - 1)
    <3> HIDE DEF nth, P
    <3> QED
      BY <2>5, <2>6 DEF Injection, IsInjective
  <2>8. IsFiniteSet(0 .. MaxPerFile - 1) /\ Cardinality(0 .. MaxPerFile - 1) = MaxPerFile
    BY <2>1, FS_Interval
  <2> HIDE DEF nth, P
  <2>9. Cardinality(P) <= MaxPerFile
    BY <2>7, <2>8, FS_Injection
  <2> QED
    BY <2>9 DEF P
<1> QED
  BY <1>5, <1>8, <1>9

-----------------------------------------------------------------------------
(* The rows of the index. *)

LEMMA RowsAre ==
  ASSUME NEW p \in Paths, NEW s \in Contents, NEW base \in Nat
  PROVE  /\ IndexRows(Rows(p, s, base)) /\ Len(s) \in Nat
         /\ \A c \in Rows(p, s, base) : c.id > base /\ c.id <= base + Len(s)
<1> DEFINE row == [k \in DOMAIN s |-> [id |-> base + k, path |-> p, part |-> k, text |-> s[k]]]
           R == Rows(p, s, base)
<1>1. s \in Seq(Texts) /\ Len(s) \in Nat /\ DOMAIN s = 1 .. Len(s)
  BY SearchAssumption
<1>2. \A k \in DOMAIN s : row[k] = [id |-> base + k, path |-> p, part |-> k, text |-> s[k]]
  OBVIOUS
<1>3. row \in [DOMAIN s -> R] /\ \A c \in R : \E k \in DOMAIN s : row[k] = c
  BY DEF Rows
<1> HIDE DEF row, R
<1>4. IsFiniteSet(R)
  <2>1. IsFiniteSet(DOMAIN s)
    BY <1>1, FS_Interval
  <2> QED
    BY <1>3, <2>1, ImageFinite
<1>5. ASSUME NEW c \in R
      PROVE  \E k \in 1 .. Len(s) : c = [id |-> base + k, path |-> p, part |-> k, text |-> s[k]]
  BY <1>1, <1>2, <1>3
<1>6. \A c \in R : c \in Chunk /\ c.id > base /\ c.id <= base + Len(s)
  <2>1. ASSUME NEW c \in R
        PROVE  c \in Chunk /\ c.id > base /\ c.id <= base + Len(s)
    <3>1. PICK k \in 1 .. Len(s) : c = [id |-> base + k, path |-> p, part |-> k, text |-> s[k]]
      BY <1>5
    <3>2. s[k] \in Texts /\ base + k \in Nat /\ k \in Nat /\ base + k > base /\ base + k <= base + Len(s)
      BY <1>1
    <3> QED
      BY <3>1, <3>2 DEF Chunk
  <2> QED
    BY <2>1
<1>7. ASSUME NEW b \in R, NEW c \in R, b.id = c.id
      PROVE  b = c
  <2>1. PICK j \in 1 .. Len(s) : b = [id |-> base + j, path |-> p, part |-> j, text |-> s[j]]
    BY <1>5
  <2>2. PICK k \in 1 .. Len(s) : c = [id |-> base + k, path |-> p, part |-> k, text |-> s[k]]
    BY <1>5
  <2>3. base + j = base + k
    BY <1>7, <2>1, <2>2
  <2>4. j = k
    BY <1>1, <2>3
  <2> QED
    BY <2>1, <2>2, <2>4
<1>8. R \subseteq Chunk
  BY <1>6
<1> QED
  BY <1>1, <1>4, <1>6, <1>7, <1>8 DEF IndexRows, R

LEMMA LargestIdIs ==
  ASSUME NEW rows, rows \subseteq Chunk, rows # {}, \A c \in rows : c.id <= MaxId
  PROVE  LargestId(rows) \in 0 .. MaxId /\ \A c \in rows : c.id <= LargestId(rows)
<1> DEFINE gaps == {MaxId - c.id : c \in rows}
<1>1. MaxId \in Nat /\ \A c \in rows : c.id \in Nat /\ c.id <= MaxId
  BY SearchAssumption DEF Chunk
<1>2. gaps \in SUBSET Nat /\ gaps # {}
  <2>1. \A c \in rows : MaxId - c.id \in Nat
    BY <1>1
  <2> QED
    BY <2>1
<1>3. PICK g \in gaps : \A h \in gaps : g <= h
  BY <1>2, LeastNatural
<1>4. PICK k \in rows : g = MaxId - k.id
  BY <1>3
<1>5. \A c \in rows : MaxId - k.id <= MaxId - c.id
  BY <1>3, <1>4
<1>6. \A c \in rows : c.id <= k.id
  BY <1>1, <1>5
<1>7. k.id \in 0 .. MaxId
  BY <1>1
<1>8. \E n \in 0 .. MaxId : \A c \in rows : c.id <= n /\ (n = 0 \/ \E b \in rows : b.id = n)
  BY <1>6, <1>7
<1> QED
  BY <1>8 DEF LargestId

LEMMA ReplacedRows ==
  ASSUME NEW p \in Paths, NEW s \in Contents, ReplaceFile(p, s),
         IndexRows(chunks), \A c \in chunks : c.id <= MaxId
  PROVE  IndexRows(chunks)' /\ (\A c \in chunks : c.id <= MaxId)'
<1> DEFINE rest == {c \in chunks : c.path # p}
           base == IF rest = {} THEN 0 ELSE LargestId(rest)
           new == Rows(p, s, base)
<1>1. chunks' = rest \cup new /\ base + Len(s) <= MaxId
  BY DEF ReplaceFile
<1>2. rest \in SUBSET chunks /\ rest \subseteq Chunk /\ \A c \in rest : c.id <= MaxId
  BY DEF IndexRows
<1> HIDE DEF rest
<1>3. base \in Nat /\ \A c \in rest : c.id <= base
  <2>1. CASE rest = {}
    BY <2>1
  <2>2. CASE rest # {}
    <3>1. LargestId(rest) \in 0 .. MaxId /\ \A c \in rest : c.id <= LargestId(rest)
      BY <1>2, <2>2, LargestIdIs
    <3>2. base = LargestId(rest)
      BY <2>2
    <3> HIDE DEF base
    <3> QED
      BY <3>1, <3>2, SearchAssumption
  <2> QED
    BY <2>1, <2>2
<1> HIDE DEF base
<1>4. /\ IndexRows(new) /\ Len(s) \in Nat
      /\ \A c \in new : c.id > base /\ c.id <= base + Len(s)
  BY <1>3, RowsAre
<1> HIDE DEF new
<1>5. \A c \in rest \cup new : c \in Chunk /\ c.id \in Nat
  BY <1>2, <1>4 DEF IndexRows, Chunk
<1>6. IsFiniteSet(rest \cup new)
  <2>1. IsFiniteSet(rest)
    BY <1>2, FS_Subset DEF IndexRows
  <2>2. IsFiniteSet(new)
    BY <1>4 DEF IndexRows
  <2> QED
    BY <2>1, <2>2, FS_Union
<1>7. ASSUME NEW b \in rest \cup new, NEW c \in rest \cup new, b.id = c.id
      PROVE  b = c
  <2>1. CASE b \in rest /\ c \in rest
    BY <1>2, <1>7, <2>1 DEF IndexRows
  <2>2. CASE b \in new /\ c \in new
    BY <1>4, <1>7, <2>2 DEF IndexRows
  <2>3. CASE b \in rest /\ c \in new
    <3>1. b.id <= base /\ c.id > base /\ b.id \in Nat
      BY <1>3, <1>4, <1>5, <2>3
    <3> QED
      BY <1>3, <1>7, <3>1
  <2>4. CASE b \in new /\ c \in rest
    <3>1. c.id <= base /\ b.id > base /\ b.id \in Nat
      BY <1>3, <1>4, <1>5, <2>4
    <3> QED
      BY <1>3, <1>7, <3>1
  <2> QED
    BY <2>1, <2>2, <2>3, <2>4
<1>8. \A c \in rest \cup new : c.id <= MaxId
  <2>1. \A c \in new : c.id <= MaxId
    <3>1. \A c \in new : c.id \in Nat /\ c.id <= base + Len(s)
      BY <1>4, <1>5
    <3> QED
      BY <1>1, <1>3, <1>4, <3>1, SearchAssumption
  <2> QED
    BY <1>2, <2>1
<1>9. IndexRows(rest \cup new)
  BY <1>5, <1>6, <1>7 DEF IndexRows
<1> QED
  BY <1>1, <1>8, <1>9 DEF IndexRows

LEMMA FirstRows ==
  ASSUME Init
  PROVE  IndexRows(chunks) /\ \A c \in chunks : c.id <= MaxId
<1>1. PICK text \in [Paths -> Contents] : \E base \in [Paths -> 0 .. MaxId] :
        chunks = UNION {Rows(p, text[p], base[p]) : p \in Paths}
  BY DEF Init
<1>2. PICK base \in [Paths -> 0 .. MaxId] :
        chunks = UNION {Rows(p, text[p], base[p]) : p \in Paths}
  BY <1>1
<1> DEFINE of == [p \in Paths |-> Rows(p, text[p], base[p])]
           pieces == {of[p] : p \in Paths}
<1>3. \A p \in Paths : IndexRows(of[p])
  <2>1. ASSUME NEW p \in Paths
        PROVE  IndexRows(Rows(p, text[p], base[p]))
    <3>1. text[p] \in Contents /\ base[p] \in Nat
      BY SearchAssumption
    <3> QED
      BY <3>1, RowsAre
  <2> QED
    BY <2>1
<1>4. chunks = UNION pieces
  BY <1>2
<1> HIDE DEF of
<1>5. IsFiniteSet(pieces) /\ \A t \in pieces : IsFiniteSet(t)
  <2>1. of \in [Paths -> pieces] /\ \A t \in pieces : \E p \in Paths : of[p] = t
    <3>1. of = [p \in Paths |-> of[p]]
      BY DEF of
    <3> QED
      BY <3>1
  <2>2. \A t \in pieces : IsFiniteSet(t)
    BY <1>3 DEF IndexRows
  <2> HIDE DEF pieces
  <2> QED
    BY <2>1, <2>2, ImageFinite, SearchAssumption
<1>6. chunks \subseteq Chunk
  BY <1>3, <1>4 DEF IndexRows
<1>7. IsFiniteSet(chunks)
  <2> HIDE DEF pieces
  <2> QED
    BY <1>4, <1>5, FS_UNION
<1> QED
  BY <1>6, <1>7 DEF Init, IndexRows

-----------------------------------------------------------------------------
(* The search under way. *)

LEMMA FoundInit ==
  ASSUME Init
  PROVE  FoundInv
<1>1. IndexRows(chunks) /\ \A c \in chunks : c.id <= MaxId
  BY FirstRows
<1>2. search = NoSearch /\ lived = {} /\ cache.matrix = {}
  BY DEF Init, NewCache
<1>3. SearchShape
  BY <1>2 DEF SearchShape, NoSearch
<1> QED
  BY <1>1, <1>2, <1>3 DEF FoundInv, ResultsExisted, NoSearch

\* The steps that leave the search as it is, or end it, and write no row.
LEMMA FoundStays ==
  ASSUME FoundInv, UNCHANGED <<chunks, search, lived>>, (cache.matrix \subseteq Texts)'
  PROVE  FoundInv'
BY DEF FoundInv, SearchShape, ResultsExisted

LEMMA SearchEnded ==
  ASSUME FoundInv, UNCHANGED chunks, search' = NoSearch, lived' = {}, (cache.matrix \subseteq Texts)'
  PROVE  FoundInv'
<1>1. SearchShape'
  BY DEF SearchShape, NoSearch
<1> QED
  BY <1>1 DEF FoundInv, ResultsExisted, NoSearch

LEMMA SearchStarted ==
  ASSUME FoundInv, NEW q \in Queries, StartSearch(q)
  PROVE  FoundInv'
<1>1. search' = [NoSearch EXCEPT
         !.pc = "read", !.query = q, !.symbolic = SymbolIntent(q, chunks),
         !.todo = {"bm25", "symbol", "path"}
                    \cup (IF HasVectors /\ vectors # {} THEN {"dense"} ELSE {})]
  BY DEF StartSearch
<1>2. lived' = chunks /\ chunks' = chunks /\ cache'.matrix = cache.matrix
  <2>1. cache' = IF cache.coverage = None THEN [cache EXCEPT !.coverage = CoverageNow] ELSE cache
    BY DEF StartSearch
  <2> PICK n : n = CoverageNow
    OBVIOUS
  <2>2. cache' = IF cache.coverage = None THEN [cache EXCEPT !.coverage = n] ELSE cache
    BY <2>1
  <2>3. [cache EXCEPT !.coverage = n].matrix = cache.matrix
    OBVIOUS
  <2> QED
    BY <2>2, <2>3 DEF StartSearch
<1>3. q \in Query
  BY SearchAssumption
<1> PICK sym : sym = SymbolIntent(q, chunks)
  OBVIOUS
<1> PICK todo : todo = {"bm25", "symbol", "path"}
                    \cup (IF HasVectors /\ vectors # {} THEN {"dense"} ELSE {})
  OBVIOUS
<1>4. todo \in SUBSET Names4
  BY DEF Names4
<1>5. search' = [pc |-> "read", query |-> q, symbolic |-> sym, todo |-> todo, hits |-> None,
                 found |-> [r \in Range(Retrievers) |-> <<>>], results |-> <<>>,
                 expansions |-> <<>>]
  BY <1>1 DEF NoSearch
<1>6. SearchShape'
  BY <1>3, <1>4, <1>5, RetrieverNames DEF SearchShape
<1> QED
  BY <1>2, <1>3, <1>5, <1>6 DEF FoundInv, ResultsExisted, IndexRows

\* What one retriever found.
LEMMA ListRead ==
  ASSUME FoundInv, search.pc = "read", NEW r \in Names4, NEW s \in Seq(chunks),
         search' = [search EXCEPT !.todo = @ \ {r}, !.found[r] = s],
         UNCHANGED <<chunks, lived, cache>>
  PROVE  FoundInv'
<1>1. s \in Seq(lived)
  BY DEF FoundInv
<1>2. search \in [pc : {"idle", "read", "expand", "done"}, query : Query \cup {None},
                symbolic : {search.symbolic}, todo : SUBSET Names4,
                hits : Seq(Texts) \cup {None}, found : [Names4 -> Seq(lived)],
                results : Seq(lived), expansions : {search.expansions}]
  BY RetrieverNames DEF FoundInv, SearchShape
<1>3. /\ search'.pc = search.pc /\ search'.query = search.query /\ search'.symbolic = search.symbolic
      /\ search'.expansions = search.expansions /\ search'.results = search.results
  BY <1>2
<1>4. search' \in [pc : {"idle", "read", "expand", "done"}, query : Query \cup {None},
                symbolic : {search.symbolic}, todo : SUBSET Names4,
                hits : Seq(Texts) \cup {None}, found : [Names4 -> Seq(lived)],
                results : Seq(lived), expansions : {search.expansions}]
  BY <1>1, <1>2
<1>5. SearchShape'
  BY <1>3, <1>4, RetrieverNames DEF SearchShape
<1> QED
  BY <1>3, <1>5 DEF FoundInv, ResultsExisted

LEMMA RetrieverRead ==
  ASSUME FoundInv, NEW r \in Range(Retrievers), Read(r)
  PROVE  FoundInv'
<1>1. r \in {"bm25", "symbol", "path"} /\ r \in Names4 /\ search.pc = "read"
  BY RetrieverNames DEF Read, Names4
<1>2. search.query \in Query /\ IndexRows(chunks)
  BY <1>1 DEF FoundInv
<1> PICK s : s = CASE r = "bm25" -> Bm25(search.query, chunks)
                   [] r = "symbol" -> Symbol(search.query, chunks)
                   [] r = "path" -> Path(search.query, chunks)
  OBVIOUS
<1>3. s \in Seq(chunks)
  BY <1>1, <1>2, Bm25Type, SymbolType, PathType
<1>4. search' = [search EXCEPT !.todo = @ \ {r}, !.found[r] = s]
  BY DEF Read
<1> QED
  BY <1>1, <1>3, <1>4, ListRead DEF Read

LEMMA RetrieverFailed ==
  ASSUME FoundInv, NEW r, ReadFails(r)
  PROVE  FoundInv'
<1>1. search' = [search EXCEPT !.todo = @ \ {r}] /\ UNCHANGED <<chunks, lived, cache>>
  BY DEF ReadFails
<1>2. SearchShape'
  BY <1>1 DEF FoundInv, SearchShape
<1>3. search'.pc = search.pc /\ search'.query = search.query /\ search'.results = search.results
  BY <1>1 DEF FoundInv, SearchShape
<1> QED
  BY <1>1, <1>2, <1>3 DEF FoundInv, ResultsExisted

LEMMA MatrixRead ==
  ASSUME FoundInv, vectors \subseteq Texts, LoadMatrix
  PROVE  FoundInv'
<1>1. UNCHANGED <<chunks, lived>> /\ search' = [search EXCEPT !.hits = Nearest(search.query, cache'.matrix)]
      /\ search.pc = "read"
  BY DEF LoadMatrix
<1>2. cache'.matrix \subseteq Texts
  <2>1. cache'.matrix = cache.matrix \/ cache'.matrix = [cache EXCEPT !.matrix = vectors, !.dirty = FALSE].matrix
    BY DEF LoadMatrix
  <2>2. ASSUME NEW D, D = DOMAIN cache
        PROVE  [cache EXCEPT !.matrix = vectors, !.dirty = FALSE].matrix \in {vectors, cache.matrix}
    BY <2>2
  <2> QED
    BY <2>1, <2>2 DEF FoundInv
<1>3. search.query \in Query
  BY <1>1 DEF FoundInv
<1> PICK h : h = Nearest(search.query, cache'.matrix)
  OBVIOUS
<1>4. h \in Seq(Texts)
  BY <1>2, <1>3, NearestType
<1>5. search' = [search EXCEPT !.hits = h]
  BY <1>1
<1>6. SearchShape'
  BY <1>1, <1>4, <1>5 DEF FoundInv, SearchShape
<1>7. search'.pc = search.pc /\ search'.query = search.query /\ search'.results = search.results
  BY <1>5 DEF FoundInv, SearchShape
<1> QED
  BY <1>1, <1>2, <1>6, <1>7 DEF FoundInv, ResultsExisted

LEMMA TextsLookedUp ==
  ASSUME FoundInv, ReadDense
  PROVE  FoundInv'
<1>1. search.pc = "read" /\ search.hits # None /\ IndexRows(chunks) /\ "dense" \in Names4
  BY DEF ReadDense, FoundInv, Names4
<1>2. search.hits \in Seq(Texts)
  BY <1>1 DEF FoundInv, SearchShape
<1> PICK s : s = Dense(search.hits, chunks)
  OBVIOUS
<1>3. s \in Seq(chunks)
  BY <1>1, <1>2, DenseType
<1>4. search' = [search EXCEPT !.todo = @ \ {"dense"}, !.found["dense"] = s]
  BY DEF ReadDense
<1> QED
  BY <1>1, <1>3, <1>4, ListRead DEF ReadDense

LEMMA ResultsFused ==
  ASSUME FoundInv, FuseResults
  PROVE  FoundInv'
<1> PICK found : found = search.found
  OBVIOUS
<1> PICK fused : fused = Fuse(found, search.symbolic)
  OBVIOUS
<1> PICK named : named = search.query.paths
  OBVIOUS
<1> PICK kept : kept = Diversify(fused, named)
  OBVIOUS
<1>1. /\ search' = [search EXCEPT !.pc = "expand", !.results = kept]
      /\ search.pc = "read" /\ UNCHANGED <<chunks, lived, cache>>
  BY DEF FuseResults
<1>2. found \in [Names4 -> Seq(lived)] /\ lived \in SUBSET Chunk
  BY RetrieverNames DEF FoundInv, SearchShape
<1>3. fused \in Seq(lived) /\ \A i, k \in DOMAIN fused : fused[i].id = fused[k].id => i = k
  BY <1>2, FuseIs
<1>4. /\ kept \in Seq(lived) /\ Len(kept) <= Limit
      /\ \A i, k \in DOMAIN kept : kept[i].id = kept[k].id => i = k
      /\ \A p : p \notin named => Cardinality({i \in DOMAIN kept : kept[i].path = p}) <= MaxPerFile
  BY <1>3, DiversifyIs
<1>5. SearchShape'
  BY <1>1, <1>4 DEF FoundInv, SearchShape
<1>6. search'.pc = "expand" /\ search'.query = search.query /\ search'.results = kept
  BY <1>1 DEF FoundInv, SearchShape
<1>7. Range(kept) \subseteq lived
  BY <1>4 DEF Range
<1>8. ResultsExisted'
  BY <1>1, <1>4, <1>6, <1>7 DEF ResultsExisted
<1> QED
  BY <1>1, <1>5, <1>6, <1>8 DEF FoundInv

LEMMA ResultsExpanded ==
  ASSUME FoundInv, ExpandResults
  PROVE  FoundInv'
<1> PICK xs : xs = Expand(search.query, search.results, chunks, search.symbolic)
  OBVIOUS
<1>1. /\ search' = [search EXCEPT !.pc = "done", !.expansions = xs]
      /\ search.pc = "expand" /\ UNCHANGED <<chunks, lived, cache>>
  BY DEF ExpandResults
<1>2. SearchShape'
  BY <1>1 DEF FoundInv, SearchShape
<1>3. search'.pc = "done" /\ search'.query = search.query /\ search'.results = search.results
  BY <1>1 DEF FoundInv, SearchShape
<1> QED
  BY <1>1, <1>2, <1>3 DEF FoundInv, ResultsExisted

LEMMA RowsReplaced ==
  ASSUME FoundInv, NEW p \in Paths, NEW s \in Contents, ReplaceFile(p, s)
  PROVE  FoundInv'
<1>1. IndexRows(chunks)' /\ (\A c \in chunks : c.id <= MaxId)'
  BY ReplacedRows DEF FoundInv
<1>2. /\ UNCHANGED <<search, cache>> /\ lived \subseteq lived'
      /\ lived' = IF search.pc = "idle" THEN lived ELSE lived \cup chunks'
  BY DEF ReplaceFile
<1>3. lived' \subseteq Chunk
  BY <1>1, <1>2 DEF FoundInv, IndexRows
<1>4. Seq(lived) \subseteq Seq(lived')
  BY <1>2
<1>5. SearchShape'
  <2> PICK A : A = Seq(lived)
    OBVIOUS
  <2> PICK B : B = Seq(lived')
    OBVIOUS
  <2>1. A \subseteq B
    BY <1>4
  <2>2. search \in [pc : {"idle", "read", "expand", "done"}, query : Query \cup {None},
                symbolic : {search.symbolic}, todo : SUBSET Range(Retrievers),
                hits : Seq(Texts) \cup {None}, found : [Range(Retrievers) -> A],
                results : A, expansions : {search.expansions}]
    BY DEF FoundInv, SearchShape
  <2>3. search \in [pc : {"idle", "read", "expand", "done"}, query : Query \cup {None},
                symbolic : {search.symbolic}, todo : SUBSET Range(Retrievers),
                hits : Seq(Texts) \cup {None}, found : [Range(Retrievers) -> B],
                results : B, expansions : {search.expansions}]
    BY <2>1, <2>2
  <2> QED
    BY <1>2, <2>3 DEF SearchShape
<1>6. search.pc # "idle" => chunks' \subseteq lived'
  BY <1>2
<1>7. ResultsExisted'
  BY <1>2 DEF FoundInv, ResultsExisted
<1> QED
  BY <1>1, <1>2, <1>3, <1>5, <1>6, <1>7 DEF FoundInv

LEMMA FoundStep ==
  ASSUME SearchInv, FoundInv, [Next]_vars
  PROVE  FoundInv'
<1>1. CASE \E q \in Queries : StartSearch(q)
  BY <1>1, SearchStarted
<1>2. CASE \E r \in Range(Retrievers) : Read(r) \/ ReadFails(r)
  BY <1>2, RetrieverRead, RetrieverFailed
<1>3. CASE LoadMatrix
  BY <1>3, MatrixRead DEF SearchInv, SearchTypes
<1>4. CASE ReadDense \/ FuseResults \/ ExpandResults
  BY <1>4, TextsLookedUp, ResultsFused, ResultsExpanded
<1>5. CASE EndSearch
  BY <1>5, SearchEnded DEF EndSearch, FoundInv
<1>6. CASE Restart
  <2>1. cache'.matrix = {}
    BY <1>6 DEF Restart, NewCache
  <2> QED
    BY <1>6, <2>1, SearchEnded DEF Restart
<1>7. CASE StartEmbedding \/ LoadTexts \/ EndEmbedding \/ BuildMap \/ SearchMap \/ UseMap \/ UNCHANGED vars
  BY <1>7, FoundStays DEF StartEmbedding, LoadTexts, EndEmbedding, BuildMap, SearchMap, UseMap, vars, FoundInv
<1>8. CASE \E b \in embed.batches : Answered(b) \/ Failed(b)
  BY <1>8, FoundStays DEF Answered, Failed, FoundInv
<1>9. CASE \E t \in Texts : StoreVector(t) \/ StoreElsewhere(t)
  <2>1. PICK t \in Texts : StoreVector(t) \/ StoreElsewhere(t)
    BY <1>9
  <2>2. UNCHANGED <<chunks, search, lived>>
    BY <2>1 DEF StoreVector, StoreElsewhere
  <2>3. cache'.matrix = cache.matrix
    <3>1. cache' = cache \/ cache' = Invalidated
      BY <2>1 DEF StoreVector, StoreElsewhere
    <3>2. Invalidated.matrix = cache.matrix
      BY DEF Invalidated
    <3> QED
      BY <3>1, <3>2
  <2> QED
    BY <2>2, <2>3, FoundStays DEF FoundInv
<1>10. CASE \E p \in Paths, s \in Contents : ReplaceFile(p, s)
  BY <1>10, RowsReplaced
<1> QED
  BY <1>1, <1>2, <1>3, <1>4, <1>5, <1>6, <1>7, <1>8, <1>9, <1>10 DEF Next

(* What a search holds while others replace rows and reuse their numbers.  *)
THEOREM FoundTheorem == Spec => []FoundInv
<1>1. Init => FoundInv
  BY FoundInit
<1>2. SearchInv /\ FoundInv /\ [Next]_vars => FoundInv'
  BY FoundStep
<1> QED
  BY <1>1, <1>2, SearchTheorem, PTL DEF Spec

(* Every result was a row of the index at some moment of its search, no    *)
(* row comes twice, and no file too often (engine.py, retrieve; fusion.py).*)
THEOREM ExistedTheorem == Spec => []ResultsExisted
<1>1. FoundInv => ResultsExisted
  BY DEF FoundInv
<1> QED
  BY <1>1, FoundTheorem, PTL

(* Fusion never puts a row before one that every signal prefers, for any   *)
(* weights, zero among them (fusion.py, fuse).                             *)
THEOREM DominanceTheorem == Spec => []FusionKeepsDominance
<1>1. FoundInv => FusionKeepsDominance
  <2> SUFFICES ASSUME FoundInv, search.pc = "expand",
                      NEW i \in DOMAIN Fuse(search.found, search.symbolic),
                      NEW k \in DOMAIN Fuse(search.found, search.symbolic),
                      Dominates(search.found, Fuse(search.found, search.symbolic)[i].id,
                                Fuse(search.found, search.symbolic)[k].id),
                      Adjustment(Fuse(search.found, search.symbolic)[i])
                        >= Adjustment(Fuse(search.found, search.symbolic)[k])
               PROVE  i < k
    BY DEF FusionKeepsDominance
  <2>1. search.found \in [Names4 -> Seq(lived)] /\ lived \in SUBSET Chunk
    BY RetrieverNames DEF FoundInv, SearchShape
  <2> QED
    BY <2>1, DominanceKept
<1> QED
  BY <1>1, FoundTheorem, PTL

=============================================================================
