----------------------------- MODULE SearchSystem -----------------------------
(***************************************************************************)
(* retrieval/engine.py, storage/vector_index.py and indexing/embedder.py   *)
(* over one database that other processes write.                           *)
(*                                                                         *)
(* One process searches, embeds and builds repo maps, one thing at a time, *)
(* through its own vector index object and that object's caches.  Each     *)
(* retriever reads on a connection of its own, at a moment of its own.     *)
(* Meanwhile `hearth index` elsewhere replaces files' chunks and stores    *)
(* vectors.                                                                *)
(***************************************************************************)
EXTENDS Ranking, RepoMap

CONSTANTS
    Queries,
    Contents,       \* bound: the texts a file may be cut into
    None,           \* nothing cached, no error
    BatchSize,      \* texts in one call to the embedding model
    MaxId,          \* bound: the largest chunk id
    MaxCommits,     \* bound: commits of other processes
    MaxSearches,    \* bound: searches and embedding runs
    HasVectors      \* the query can be embedded

ASSUME SearchAssumption ==
    /\ Queries \subseteq Query /\ Contents \subseteq Seq(Texts)
    /\ IsFiniteSet(Paths) /\ IsFiniteSet(Texts) /\ MaxId \in Nat

VARIABLES
    chunks,      \* the committed chunks
    vectors,     \* texts with a committed vector
    cache,       \* the vector index object: matrix, dirty flag, coverage
    search,      \* the search under way, and its results
    embed,       \* the embedding run under way
    foreign,     \* other processes committed since the caches were filled
    lived,       \* chunks that were committed at some moment of the search
    commits, tries

vars == <<chunks, vectors, cache, search, embed, foreign, lived, commits, tries, map>>

NoSearch ==
    [pc |-> "idle", query |-> None, symbolic |-> FALSE, todo |-> {}, hits |-> None,
     found |-> [r \in Range(Retrievers) |-> <<>>], results |-> <<>>, expansions |-> <<>>]

NoRun ==
    [pc |-> "idle", missing |-> {}, batches |-> {}, storing |-> {},
     embedded |-> 0, failed |-> 0, skipped |-> 0]

\* A vector index object as it is made.
NewCache == [matrix |-> {}, dirty |-> TRUE, coverage |-> None]

\* The rows of a file cut into the texts of s, the first numbered `base` + 1.
Rows(p, s, base) == {[id |-> base + k, path |-> p, part |-> k, text |-> s[k]] : k \in DOMAIN s}

\* The files' rows are numbered one after another; an earlier replacement may have left
\* the smallest number unused.
Init ==
    /\ \E text \in [Paths -> Contents], base \in [Paths -> 0 .. MaxId] :
         chunks = UNION {Rows(p, text[p], base[p]) : p \in Paths}
    /\ \E gap \in 0 .. 1 : {c.id : c \in chunks} = gap + 1 .. gap + Cardinality(chunks)
    /\ \A b, c \in chunks : c.id <= MaxId /\ (b.id = c.id => b = c)
    /\ vectors \in {{}, {c.text : c \in chunks}}
    /\ cache = NewCache /\ search = NoSearch /\ embed = NoRun
    /\ foreign = FALSE /\ lived = {} /\ commits = 0 /\ tries = 0
    /\ map = NoMap

Resting == search.pc = "idle" /\ embed.pc = "idle" /\ map.pc = "none"

TextsOf(rows) == {c.text : c \in rows}
CoverageNow == <<Cardinality(TextsOf(chunks) \cap vectors), Cardinality(TextsOf(chunks))>>

----------------------------------------------------------------------------
(* A search. *)

\* A slip: the matrix is loaded again, the coverage that was counted is kept.
KeepCoverage == [cache EXCEPT !.dirty = TRUE]

\* A write through the object empties both caches.
Invalidated == [cache EXCEPT !.dirty = TRUE, !.coverage = None]

\* analyze, the coverage report, and which retrievers are to run.
StartSearch(q) ==
    /\ Resting /\ tries < MaxSearches
    /\ tries' = tries + 1
    /\ search' = [NoSearch EXCEPT
         !.pc = "read", !.query = q, !.symbolic = SymbolIntent(q, chunks),
         !.todo = {"bm25", "symbol", "path"}
                    \cup (IF HasVectors /\ vectors # {} THEN {"dense"} ELSE {})]
    /\ cache' = IF cache.coverage = None THEN [cache EXCEPT !.coverage = CoverageNow] ELSE cache
    /\ lived' = chunks
    /\ foreign' = IF cache = NewCache THEN FALSE ELSE foreign
    /\ UNCHANGED <<chunks, vectors, embed, commits, map>>

\* The retriever that stays on the engine's own connection.
Primary == IF "dense" \in search.todo \/ search.hits # None THEN "dense" ELSE "bm25"

\* A retriever on a thread of its own whose database cannot be read finds nothing.
ReadFails(r) ==
    /\ search.pc = "read" /\ r \in search.todo \ {"dense", Primary}
    /\ search' = [search EXCEPT !.todo = @ \ {r}]
    /\ UNCHANGED <<chunks, vectors, cache, embed, foreign, lived, commits, tries, map>>

\* One retriever reads what is committed now.
Read(r) ==
    /\ search.pc = "read" /\ r \in search.todo \ {"dense"}
    /\ search' = [search EXCEPT
         !.todo = @ \ {r},
         !.found[r] = CASE r = "bm25" -> Bm25(search.query, chunks)
                        [] r = "symbol" -> Symbol(search.query, chunks)
                        [] r = "path" -> Path(search.query, chunks)]
    /\ UNCHANGED <<chunks, vectors, cache, embed, foreign, lived, commits, tries, map>>

\* The dense retriever loads the matrix if a write made it stale ...
LoadMatrix ==
    /\ search.pc = "read" /\ "dense" \in search.todo /\ search.hits = None
    /\ cache' = IF cache.dirty THEN [cache EXCEPT !.matrix = vectors, !.dirty = FALSE] ELSE cache
    /\ search' = [search EXCEPT !.hits = Nearest(search.query, cache'.matrix)]
    /\ UNCHANGED <<chunks, vectors, embed, foreign, lived, commits, tries, map>>

\* ... and then looks the nearest texts up among the chunks.
ReadDense ==
    /\ search.pc = "read" /\ "dense" \in search.todo /\ search.hits # None
    /\ search' = [search EXCEPT !.todo = @ \ {"dense"},
                                !.found["dense"] = Dense(search.hits, chunks)]
    /\ UNCHANGED <<chunks, vectors, cache, embed, foreign, lived, commits, tries, map>>

FuseResults ==
    /\ search.pc = "read" /\ search.todo = {}
    /\ search' = [search EXCEPT
         !.pc = "expand",
         !.results = Diversify(Fuse(search.found, search.symbolic), search.query.paths)]
    /\ UNCHANGED <<chunks, vectors, cache, embed, foreign, lived, commits, tries, map>>

ExpandResults ==
    /\ search.pc = "expand"
    /\ search' = [search EXCEPT
         !.pc = "done",
         !.expansions = Expand(search.query, search.results, chunks, search.symbolic)]
    /\ UNCHANGED <<chunks, vectors, cache, embed, foreign, lived, commits, tries, map>>

EndSearch ==
    /\ search.pc = "done"
    /\ search' = NoSearch /\ lived' = {}
    /\ UNCHANGED <<chunks, vectors, cache, embed, foreign, commits, tries, map>>

----------------------------------------------------------------------------
(* An embedding run. *)

Partitions(S) ==
    {P \in SUBSET SUBSET S :
        /\ UNION P = S
        /\ \A a \in P : Cardinality(a) \in 1 .. BatchSize
        /\ \A a, b \in P : a # b => a \cap b = {}
        /\ Cardinality({a \in P : Cardinality(a) < BatchSize}) <= 1}

\* The work list is what is missing now, cut into batches.
StartEmbedding ==
    /\ Resting /\ tries < MaxSearches
    /\ tries' = tries + 1
    /\ \E P \in Partitions(TextsOf(chunks) \ vectors) :
          embed' = [NoRun EXCEPT !.pc = "load", !.missing = TextsOf(chunks) \ vectors,
                                 !.batches = P]
    /\ UNCHANGED <<chunks, vectors, cache, search, foreign, lived, commits, map>>

\* _load_texts: a text whose chunks are gone by now is skipped.
LoadTexts ==
    /\ embed.pc = "load"
    /\ embed' = [embed EXCEPT
         !.pc = "run",
         !.batches = {b \cap TextsOf(chunks) : b \in @} \ {{}},
         !.skipped = Cardinality(embed.missing \ TextsOf(chunks))]
    /\ UNCHANGED <<chunks, vectors, cache, search, foreign, lived, commits, tries, map>>

\* The model answers for a batch; zip stops at the shorter of the two lists.
Answered(batch) ==
    /\ embed.pc = "run" /\ embed.storing = {} /\ batch \in embed.batches
    /\ embed' = [embed EXCEPT !.batches = @ \ {batch}, !.storing = batch,
                              !.embedded = @ + Cardinality(batch)]
    /\ UNCHANGED <<chunks, vectors, cache, search, foreign, lived, commits, tries, map>>

\* A slip: a failed batch is not counted.
FailedUncounted(batch) ==
    /\ embed.pc = "run" /\ embed.storing = {} /\ batch \in embed.batches
    /\ embed' = [embed EXCEPT !.batches = @ \ {batch}, !.embedded = @ + Cardinality(batch)]
    /\ UNCHANGED <<chunks, vectors, cache, search, foreign, lived, commits, tries, map>>

\* A failed batch is counted and left to the next run.
Failed(batch) ==
    /\ embed.pc = "run" /\ embed.storing = {} /\ batch \in embed.batches
    /\ embed' = [embed EXCEPT !.batches = @ \ {batch}, !.failed = @ + Cardinality(batch)]
    /\ UNCHANGED <<chunks, vectors, cache, search, foreign, lived, commits, tries, map>>

\* executemany in autocommit mode: every row is committed by itself.
StoreVector(t) ==
    /\ embed.pc = "run" /\ t \in embed.storing
    /\ vectors' = vectors \cup {t}
    /\ embed' = [embed EXCEPT !.storing = @ \ {t}]
    /\ cache' = IF embed.storing = {t} THEN Invalidated ELSE cache
    /\ UNCHANGED <<chunks, search, foreign, lived, commits, tries, map>>

Remaining == Cardinality(embed.missing) - embed.embedded - embed.failed
Complete == Remaining <= 0 /\ embed.failed = 0

EndEmbedding ==
    /\ embed.pc = "run" /\ embed.batches = {} /\ embed.storing = {}
    /\ embed' = NoRun
    /\ UNCHANGED <<chunks, vectors, cache, search, foreign, lived, commits, tries, map>>

\* The process is killed, and a new one is started: only what was committed is left.
Restart ==
    /\ search.pc # "idle" \/ embed.pc # "idle"
    /\ search' = NoSearch /\ embed' = NoRun /\ cache' = NewCache /\ lived' = {}
    /\ foreign' = FALSE
    /\ UNCHANGED <<chunks, vectors, commits, tries, map>>

----------------------------------------------------------------------------
(* Other processes. *)

LargestId(rows) == CHOOSE n \in 0 .. MaxId : \A c \in rows : c.id <= n /\ (n = 0 \/ \E k \in rows : k.id = n)

\* A file is indexed again: its rows go, the new ones are numbered from the largest id
\* in use, so that numbers come back.
ReplaceFile(p, s) ==
    /\ commits < MaxCommits
    /\ LET rest == {c \in chunks : c.path # p}
           base == IF rest = {} THEN 0 ELSE LargestId(rest)
       IN  base + Len(s) <= MaxId /\ chunks' = rest \cup Rows(p, s, base)
    /\ chunks' # chunks
    /\ lived' = IF search.pc = "idle" THEN lived ELSE lived \cup chunks'
    /\ commits' = commits + 1 /\ foreign' = TRUE
    /\ UNCHANGED <<vectors, cache, search, embed, tries, map>>

StoreElsewhere(t) ==
    /\ commits < MaxCommits /\ t \in TextsOf(chunks) \ vectors
    /\ vectors' = vectors \cup {t}
    /\ commits' = commits + 1 /\ foreign' = TRUE
    /\ UNCHANGED <<chunks, cache, search, embed, lived, tries, map>>

----------------------------------------------------------------------------
(* The repo map. *)

Definition(c) ==
    [path |-> c.path, name |-> OwnName(c.text), weight |-> Size[c.text],
     parent |-> IF Owner[c.text] = NoName THEN TopLevel ELSE Owner[c.text],
     parentweight |-> IF Owner[c.text] = NoName THEN 0 ELSE 1]

\* _build_graph, _rank and _score: any order PageRank may give.
RankedOrders(rows) ==
    SetToSeqs({Definition(c) : c \in {k \in rows : Defines[k.text] # <<>>}})

BuildMap ==
    /\ Resting
    /\ \E s \in RankedOrders(chunks) : StartMap(s)
    /\ UNCHANGED <<chunks, vectors, cache, search, embed, foreign, lived, commits, tries>>

SearchMap ==
    /\ Probe \/ EndMap
    /\ UNCHANGED <<chunks, vectors, cache, search, embed, foreign, lived, commits, tries>>

\* The map goes into the prompt.
UseMap ==
    /\ map.pc = "done" /\ map' = NoMap
    /\ UNCHANGED <<chunks, vectors, cache, search, embed, foreign, lived, commits, tries>>

----------------------------------------------------------------------------
Next ==
    \/ \E q \in Queries : StartSearch(q)
    \/ \E r \in Range(Retrievers) : Read(r) \/ ReadFails(r)
    \/ LoadMatrix \/ ReadDense \/ FuseResults \/ ExpandResults \/ EndSearch
    \/ StartEmbedding \/ LoadTexts \/ EndEmbedding \/ Restart
    \/ \E b \in embed.batches : Answered(b) \/ Failed(b)
    \/ \E t \in Texts : StoreVector(t) \/ StoreElsewhere(t)
    \/ \E p \in Paths, s \in Contents : ReplaceFile(p, s)
    \/ BuildMap \/ SearchMap \/ UseMap

Spec == Init /\ [][Next]_vars

----------------------------------------------------------------------------
(* Properties. *)

SearchOK ==
    /\ chunks \subseteq Chunk /\ vectors \subseteq Texts /\ lived \subseteq Chunk
    /\ cache.matrix \subseteq Texts
    /\ embed.missing \subseteq Texts /\ embed.storing \subseteq embed.missing
    /\ \A b, c \in chunks : b.id = c.id => b = c

\* Every result was a chunk of the index at some moment of the search, path, place and
\* text together, although the retrievers read at different moments, rows are replaced
\* and their numbers given again between them.  No chunk comes twice, and no file more
\* often than it may.
ResultsExisted ==
    search.pc \in {"expand", "done"} =>
        LET results == search.results
        IN  /\ Range(results) \subseteq lived /\ Len(results) <= Limit
            /\ \A i, j \in DOMAIN results : results[i].id = results[j].id => i = j
            /\ \A p \in Paths \ search.query.paths :
                 Cardinality({i \in DOMAIN results : results[i].path = p}) <= MaxPerFile

\* Wherever a retriever found b it found a no later, and somewhere earlier.
Dominates(found, a, b) ==
    LET places(r, id) == {i \in DOMAIN found[r] : found[r][i].id = id}
        first(r, id) == CHOOSE i \in places(r, id) : \A j \in places(r, id) : i <= j
    IN  /\ \A r \in DOMAIN found :
             places(r, b) # {} => places(r, a) # {} /\ first(r, a) <= first(r, b)
        /\ \E r \in DOMAIN found :
             places(r, a) # {} /\ (places(r, b) # {} => first(r, a) < first(r, b))

\* Fusion never puts a chunk before one that every signal prefers and no penalty holds
\* back.
FusionKeepsDominance ==
    search.pc = "expand" =>
        LET fused == Fuse(search.found, search.symbolic)
            adjust(i) == Adjustment(fused[i])
        IN  \A i, j \in DOMAIN fused :
              Dominates(search.found, fused[i].id, fused[j].id) /\ adjust(i) >= adjust(j) => i < j

\* As long as nobody else writes the index, the caches tell what it holds: a search
\* after an embedding run sees its vectors, and the coverage it reports is the true one.
CachesTrue ==
    Resting /\ ~foreign =>
        /\ cache.coverage # None => cache.coverage = CoverageNow
        /\ ~cache.dirty => cache.matrix = vectors

\* A run that reports itself complete leaves no chunk of its work list without a vector,
\* whatever batches failed, whatever was replaced meanwhile or stored by a killed run.
CompleteMeansEmbedded ==
    embed.pc = "run" /\ embed.batches = {} /\ embed.storing = {} /\ Complete =>
        embed.missing \cap TextsOf(chunks) \subseteq vectors

\* What is added around the results stays within its budget, gives no definition twice,
\* and no class that was itself retrieved.
ExpansionsSound ==
    search.pc = "done" =>
        LET xs == search.expansions
        IN  /\ Cost(xs) <= ExpansionBudget
            /\ \A i, j \in DOMAIN xs :
                 xs[i].path = xs[j].path /\ xs[i].name = xs[j].name => i = j
            /\ \A i \in DOMAIN xs : xs[i].kind = "parent" =>
                 ~\E k \in DOMAIN search.results :
                     /\ search.results[k].path = xs[i].path
                     /\ OwnName(search.results[k].text) = xs[i].name

-----------------------------------------------------------------------------
(* The inductive invariant behind CachesTrue and CompleteMeansEmbedded. *)

SearchTypes ==
    /\ \A c \in chunks : c.path \in Paths /\ c.text \in Texts
    /\ vectors \subseteq Texts
    /\ DOMAIN cache = {"matrix", "dirty", "coverage"}
    /\ embed \in [pc : {"idle", "load", "run"}, missing : SUBSET Texts,
                  batches : SUBSET SUBSET Texts, storing : SUBSET Texts,
                  embedded : Nat, failed : Nat, skipped : Nat]

\* Between the first vector of a batch and its last the caches may be behind, and then
\* only this process's run is under way.
CachesFresh ==
    ~foreign /\ embed.storing = {} =>
        /\ cache.coverage # None => cache.coverage = CoverageNow
        /\ ~cache.dirty => cache.matrix = vectors

\* The texts counted as embedded have a vector or are about to have one, and are in no
\* batch that is still to come.
Answers == ((embed.missing \cap vectors) \cup embed.storing) \ UNION embed.batches

Counted ==
    /\ embed.pc # "run" => embed.storing = {}
    /\ embed.storing \subseteq embed.missing /\ UNION embed.batches \subseteq embed.missing
    /\ \A a, b \in embed.batches : a # b => a \cap b = {}
    /\ embed.embedded <= Cardinality(Answers)

SearchInv == SearchTypes /\ CachesFresh /\ Counted

-----------------------------------------------------------------------------
(* The inductive invariant behind ResultsExisted and FusionKeepsDominance. *)

\* Numbers tell the rows of an index apart.
IndexRows(rows) ==
    /\ rows \subseteq Chunk /\ IsFiniteSet(rows)
    /\ \A b, c \in rows : b.id = c.id => b = c

SearchShape ==
    search \in [pc : {"idle", "read", "expand", "done"}, query : Query \cup {None},
                symbolic : {search.symbolic}, todo : SUBSET Range(Retrievers),
                hits : Seq(Texts) \cup {None}, found : [Range(Retrievers) -> Seq(lived)],
                results : Seq(lived), expansions : {search.expansions}]

\* Every list holds rows that were committed at some moment of the search, and what is
\* committed now counts among them.
FoundInv ==
    /\ IndexRows(chunks) /\ \A c \in chunks : c.id <= MaxId
    /\ cache.matrix \subseteq Texts /\ lived \subseteq Chunk
    /\ SearchShape
    /\ search.pc # "idle" => search.query \in Query /\ chunks \subseteq lived
    /\ ResultsExisted

=============================================================================
