----------------------------- MODULE IndexStore -----------------------------
(***************************************************************************)
(* The tables of index.db and the writes of storage/index_repo.py: one row *)
(* for each indexed file, the chunks cut from it, and chunks_fts, the      *)
(* contentless full-text table that SQLite keeps in step with nothing.     *)
(*                                                                         *)
(* A write is an operator from tables to tables, so that a transaction can *)
(* work on a copy which is published by COMMIT or dropped by a crash.      *)
(* Symbols, references and imports follow their file by ON DELETE CASCADE  *)
(* exactly as chunks do, and are left out.                                 *)
(***************************************************************************)
EXTENDS Naturals, FiniteSets

CONSTANTS
    Paths,       \* workspace-relative paths
    Texts,       \* what a file may contain; stands for its bytes and their hash
    Binary,      \* the texts _build_payload skips: binary or over the size limit
    Generated,   \* the texts kept as metadata only
    Pieces,      \* text |-> how many chunks it is cut into
    Optional,    \* paths in a language whose grammar is an extra
    NoRow,       \* a path the index does not hold
    MaxId        \* bound: the largest chunk id

ASSUME StoreAssumption ==
    /\ Binary \subseteq Texts
    /\ Generated \subseteq Texts \ Binary
    /\ Pieces \in [Texts -> Nat]
    /\ Optional \subseteq Paths
    /\ MaxId \in Nat
    /\ \A t \in Generated : Pieces[t] = 0

ASSUME RowAssumption == NoRow \notin [stamp : Nat, text : Texts, logic : Nat, status : {"ok", "skipped"}]

\* A row of `files`.  `logic` is no column: it is the extraction logic that cut
\* the row's chunks, which the database does not know file by file.
FileRow ==
    [stamp : Nat, text : Texts, logic : Nat, status : {"ok", "skipped"}]

Chunk == [id : 1 .. MaxId, path : Paths, text : Texts, part : Nat]

\* `version` is meta's extraction_version, zero when it was never stamped.
Database ==
    [files : [Paths -> FileRow \cup {NoRow}],
     chunks : SUBSET Chunk,
     fts : SUBSET (1 .. MaxId),
     version : Nat]

EmptyDatabase ==
    [files |-> [p \in Paths |-> NoRow], chunks |-> {}, fts |-> {}, version |-> 0]

Indexed(d) == {p \in Paths : d.files[p] # NoRow}

IdsOf(d, ps) == {c.id : c \in {k \in d.chunks : k.path \in ps}}

\* Rows of chunks_fts go first: their ids are found through `chunks`.
DropFts(d, ps) == [d EXCEPT !.fts = @ \ IdsOf(d, ps)]

\* DELETE FROM files, with the cascade to chunks.
DropFiles(d, ps) ==
    [d EXCEPT !.files = [p \in Paths |-> IF p \in ps THEN NoRow ELSE @[p]],
              !.chunks = {c \in @ : c.path \notin ps}]

\* A slip: the cascade runs first, and then no FTS row is found to delete.
CascadeFirst(d, ps) == DropFts(DropFiles(d, ps), ps)

DeleteFiles(d, ps) == DropFiles(DropFts(d, ps), ps)

\* INTEGER PRIMARY KEY without AUTOINCREMENT: a number no row has exceeded.  TLC
\* takes the least one, which is the largest id in use, as SQLite does.
LastId(d) == CHOOSE n \in 0 .. MaxId : \A c \in d.chunks : c.id <= n

NewChunks(d, p, t) ==
    {[id |-> LastId(d) + k, path |-> p, text |-> t, part |-> k] : k \in 1 .. Pieces[t]}

InsertFile(d, p, row) == [d EXCEPT !.files[p] = row]

InsertChunks(d, p, t) ==
    [d EXCEPT !.chunks = @ \cup NewChunks(d, p, t),
              !.fts = @ \cup {c.id : c \in NewChunks(d, p, t)}]

Fits(d, t) == LastId(d) + Pieces[t] <= MaxId

ReplaceFile(d, p, row) ==
    InsertChunks(InsertFile(DeleteFiles(d, {p}), p, row), p, row.text)

\* The search index and the chunks name each other exactly, ids are unique, and
\* chunks belong to files that are indexed.
Mirrored(d) ==
    /\ d.fts = {c.id : c \in d.chunks}
    /\ \A b, c \in d.chunks : b.id = c.id => b = c
    /\ \A c \in d.chunks : d.files[c.path] # NoRow
=============================================================================
