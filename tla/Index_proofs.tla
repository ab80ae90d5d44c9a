------------------------------ MODULE Index_proofs ------------------------------
(***************************************************************************)
(* Proofs about IndexStore and Indexer, for every number of processes,     *)
(* files, saves and batches: that rows and search tables stay in step,     *)
(* what a full run that nobody disturbs leaves in the index, and which     *)
(* rows a batch may remove.                                                *)
(***************************************************************************)
EXTENDS Indexer, Integers, TLAPS

-----------------------------------------------------------------------------
(* The writes of index_repo.py keep the tables in step. *)

LEMMA EmptyMirrored == EmptyDatabase \in Database /\ Mirrored(EmptyDatabase)
BY DEF EmptyDatabase, Database, Mirrored

LEMMA DeleteKeeps ==
  ASSUME NEW d \in Database, Mirrored(d), NEW ps
  PROVE  /\ DeleteFiles(d, ps) \in Database /\ Mirrored(DeleteFiles(d, ps))
         /\ DeleteFiles(d, ps).version = d.version
         /\ \A p \in Paths : DeleteFiles(d, ps).files[p] = IF p \in ps THEN NoRow ELSE d.files[p]
<1> DEFINE e == DeleteFiles(d, ps)
<1>1. /\ e.files = [p \in Paths |-> IF p \in ps THEN NoRow ELSE d.files[p]]
      /\ e.chunks = {c \in d.chunks : c.path \notin ps}
      /\ e.fts = d.fts \ {c.id : c \in {k \in d.chunks : k.path \in ps}}
      /\ e.version = d.version
  BY DEF DeleteFiles, DropFiles, DropFts, IdsOf, Database
<1>2. e = [files |-> e.files, chunks |-> e.chunks, fts |-> e.fts, version |-> e.version]
  <2> DEFINE f == [d EXCEPT !.fts = @ \ IdsOf(d, ps)]
  <2>1. DOMAIN f = {"files", "chunks", "fts", "version"} /\ f = [x \in DOMAIN f |-> f[x]]
    BY DEF Database
  <2>2. e = [f EXCEPT !.files = [p \in Paths |-> IF p \in ps THEN NoRow ELSE @[p]],
                      !.chunks = {c \in @ : c.path \notin ps}]
    BY DEF DeleteFiles, DropFiles, DropFts
  <2> HIDE DEF f, e
  <2> QED
    BY <2>1, <2>2
<1>3. /\ d.files \in [Paths -> FileRow \cup {NoRow}] /\ d.chunks \subseteq Chunk
      /\ d.fts \subseteq 1 .. MaxId /\ d.version \in Nat
  BY DEF Database
<1> HIDE DEF e
<1>4. e \in Database
  <2>1. e.files \in [Paths -> FileRow \cup {NoRow}]
    BY <1>1, <1>3
  <2>2. e.chunks \subseteq Chunk /\ e.fts \subseteq 1 .. MaxId /\ e.version \in Nat
    BY <1>1, <1>3
  <2> QED
    BY <1>2, <2>1, <2>2 DEF Database
<1>5. Mirrored(e)
  <2>1. e.fts = {c.id : c \in e.chunks}
    BY <1>1 DEF Mirrored
  <2>2. \A b, c \in e.chunks : b.id = c.id => b = c
    BY <1>1 DEF Mirrored
  <2>3. \A c \in e.chunks : e.files[c.path] # NoRow
    BY <1>1, <1>3 DEF Mirrored, Chunk
  <2> QED
    BY <2>1, <2>2, <2>3 DEF Mirrored
<1> QED
  BY <1>1, <1>4, <1>5 DEF e

LEMMA LastIdBounds ==
  ASSUME NEW d \in Database
  PROVE  LastId(d) \in 0 .. MaxId /\ \A c \in d.chunks : c.id <= LastId(d)
<1>1. MaxId \in 0 .. MaxId /\ \A c \in d.chunks : c.id <= MaxId
  BY StoreAssumption DEF Database, Chunk
<1> QED
  BY <1>1 DEF LastId

LEMMA ReplaceKeeps ==
  ASSUME NEW d \in Database, Mirrored(d), NEW p \in Paths, NEW row \in FileRow,
         Fits(DeleteFiles(d, {p}), row.text)
  PROVE  /\ ReplaceFile(d, p, row) \in Database /\ Mirrored(ReplaceFile(d, p, row))
         /\ ReplaceFile(d, p, row).version = d.version
         /\ \A q \in Paths : ReplaceFile(d, p, row).files[q] = IF q = p THEN row ELSE d.files[q]
<1> DEFINE a == DeleteFiles(d, {p})
           b == InsertFile(a, p, row)
           new == NewChunks(b, p, row.text)
           e == InsertChunks(b, p, row.text)
<1>1. /\ a \in Database /\ Mirrored(a) /\ a.version = d.version
      /\ \A q \in Paths : a.files[q] = IF q \in {p} THEN NoRow ELSE d.files[q]
  BY DeleteKeeps
<1> HIDE DEF a
<1>2. /\ b \in Database /\ b.version = a.version /\ b.chunks = a.chunks /\ b.fts = a.fts
      /\ b.files = [a.files EXCEPT ![p] = row]
  BY <1>1 DEF InsertFile, Database
<1>3. LastId(b) = LastId(a)
  BY <1>2 DEF LastId
<1>4. /\ LastId(b) \in 0 .. MaxId /\ \A c \in b.chunks : c.id <= LastId(b)
  BY <1>2, LastIdBounds
<1>5. row.text \in Texts /\ Pieces[row.text] \in Nat /\ LastId(b) + Pieces[row.text] <= MaxId
  BY <1>3, StoreAssumption DEF a, Fits, FileRow
<1> HIDE DEF b
<1>6. new = {[id |-> LastId(b) + k, path |-> p, text |-> row.text, part |-> k] : k \in 1 .. Pieces[row.text]}
  BY DEF NewChunks
<1>7. /\ new \subseteq Chunk
      /\ \A c \in new : c.id > LastId(b) /\ c.path = p
      /\ \A c, k \in new : c.id = k.id => c = k
  <2>1. ASSUME NEW c \in new
        PROVE  c \in Chunk /\ c.id > LastId(b) /\ c.path = p /\ c.text = row.text
               /\ c.part = c.id - LastId(b)
    <3>1. PICK k \in 1 .. Pieces[row.text] :
             c = [id |-> LastId(b) + k, path |-> p, text |-> row.text, part |-> k]
      BY <1>6, <2>1
    <3>2. LastId(b) + k \in 1 .. MaxId /\ k \in Nat
      BY <1>4, <1>5, StoreAssumption
    <3> QED
      BY <1>4, <1>5, <3>1, <3>2 DEF Chunk
  <2>2. ASSUME NEW c \in new, NEW k \in new, c.id = k.id
        PROVE  c = k
    <3>1. c \in Chunk /\ k \in Chunk /\ c.path = k.path /\ c.text = k.text /\ c.part = k.part
      BY <2>1, <2>2
    <3> QED
      BY <2>2, <3>1 DEF Chunk
  <2> QED
    BY <2>1, <2>2
<1> HIDE DEF new
<1>8. /\ e = [b EXCEPT !.chunks = @ \cup new, !.fts = @ \cup {c.id : c \in new}]
  BY DEF InsertChunks, new
<1>9. /\ e.chunks = b.chunks \cup new /\ e.fts = b.fts \cup {c.id : c \in new}
      /\ e.files = b.files /\ e.version = b.version
      /\ e = [files |-> e.files, chunks |-> e.chunks, fts |-> e.fts, version |-> e.version]
  BY <1>2, <1>8 DEF Database
<1> HIDE DEF e
<1>10. e \in Database
  <2>1. b.files \in [Paths -> FileRow \cup {NoRow}] /\ b.chunks \subseteq Chunk
        /\ b.fts \subseteq 1 .. MaxId /\ b.version \in Nat
    BY <1>2 DEF Database
  <2>2. {c.id : c \in new} \subseteq 1 .. MaxId
    BY <1>7 DEF Chunk
  <2> QED
    BY <1>7, <1>9, <2>1, <2>2 DEF Database
<1>11. Mirrored(e)
  <2>1. b.fts = {c.id : c \in b.chunks} /\ \A c, k \in b.chunks : c.id = k.id => c = k
    BY <1>1, <1>2 DEF Mirrored
  <2>2. e.fts = {c.id : c \in e.chunks}
    BY <1>9, <2>1
  <2>3. \A c \in b.chunks, k \in new : c.id # k.id
    <3>1. \A c \in b.chunks : c.id \in Int
      BY <1>2 DEF Database, Chunk
    <3>2. \A c \in new : c.id \in Int
      BY <1>7 DEF Chunk
    <3> QED
      BY <1>4, <1>7, <3>1, <3>2
  <2>4. \A c, k \in e.chunks : c.id = k.id => c = k
    BY <1>7, <1>9, <2>1, <2>3
  <2>5. \A c \in e.chunks : e.files[c.path] # NoRow
    <3>1. a.files \in [Paths -> FileRow \cup {NoRow}]
      BY <1>1 DEF Database
    <3>2. \A q \in Paths : e.files[q] = IF q = p THEN row ELSE a.files[q]
      BY <1>2, <1>9, <3>1
    <3>3. \A c \in b.chunks : c.path \in Paths /\ a.files[c.path] # NoRow
      BY <1>1, <1>2 DEF Mirrored, Database, Chunk
    <3>4. row # NoRow
      BY RowAssumption DEF FileRow
    <3> QED
      BY <1>7, <1>9, <3>2, <3>3, <3>4
  <2> QED
    BY <2>2, <2>4, <2>5 DEF Mirrored
<1>12. ReplaceFile(d, p, row) = e
  BY DEF ReplaceFile, e, b, a
<1>13. \A q \in Paths : e.files[q] = IF q = p THEN row ELSE d.files[q]
  <2>1. a.files \in [Paths -> FileRow \cup {NoRow}]
    BY <1>1 DEF Database
  <2> QED
    BY <1>1, <1>2, <1>9, <2>1
<1> QED
  BY <1>1, <1>2, <1>9, <1>10, <1>11, <1>12, <1>13

-----------------------------------------------------------------------------
(* The invariant, taken apart into what holds of the store and of each run.*)

StoreOK ==
    /\ disk \in [Paths -> File \cup {Absent}] /\ ignored \in SUBSET Paths
    /\ clock \in 0 .. MaxStamp /\ hearth \in [logic : 1 .. MaxLogic, grammar : BOOLEAN]
    /\ db \in Database /\ work \in Database /\ writer \in Indexers \cup {Nobody}
    /\ Mirrored(db) /\ Mirrored(work)
    /\ \A p \in Present : disk[p].stamp <= clock
    /\ \A p \in Indexed(db) : db.files[p].stamp <= clock /\ Truthful(p, db.files[p])
    /\ \A p \in Indexed(work) : work.files[p].stamp <= clock /\ Truthful(p, work.files[p])
    /\ writer = Nobody => work = EmptyDatabase
    /\ writer # Nobody =>
         /\ work.version = db.version
         /\ \A p \in Indexed(work) :
              work.files[p] = db.files[p] \/ work.files[p].logic = hearth.logic
    /\ db.version <= hearth.logic /\ work.version <= hearth.logic
    /\ db.version = hearth.logic => Outdated(db) = {}

Awaited(i) == run[i].todo \cup run[i].gone \cup {b.path : b \in run[i].batch}

Written(i) == {p \in Indexed(work) : writer = i /\ work.files[p].logic = hearth.logic}

RunOK(i) ==
    /\ run[i] \in Runs
    /\ \A p \in Seen(i) : run[i].seen[p] <= clock
    /\ \A b \in run[i].batch :
         b.row.stamp <= clock /\ b.row.logic = hearth.logic /\ Truthful(b.path, b.row)
    /\ run[i].pc = "build" => run[i].gone = {}
    /\ run[i].pc = "detect" /\ run[i].kind = "full" => run[i].wanted = Paths
    /\ run[i].pc = "idle" => run[i].batch = {}
    /\ run[i].todo \subseteq Seen(i)
    /\ writer = i => run[i].pc = "build"
    /\ run[i].kind = "full" /\ run[i].pc \in {"delete", "build"} =>
         Outdated(db) \subseteq Awaited(i) \cup Written(i)

RunsOK == run \in [Indexers -> Runs] /\ \A i \in Indexers : RunOK(i)

LEMMA InvApart == IndexInv => StoreOK /\ RunsOK
<1> SUFFICES ASSUME IndexInv PROVE StoreOK /\ RunsOK
  OBVIOUS
<1> USE DEF IndexInv
<1>1. StoreOK
  BY DEF TypeOK, StampsGiven, RowsTrue, TransactionShaped, Covered, StoreOK
<1>2. ASSUME NEW i \in Indexers
      PROVE  RunOK(i)
  <2>1. run[i] \in Runs
    BY DEF TypeOK
  <2>2. \A p \in Seen(i) : run[i].seen[p] <= clock
    BY DEF StampsGiven
  <2>3. \A b \in run[i].batch :
         b.row.stamp <= clock /\ b.row.logic = hearth.logic /\ Truthful(b.path, b.row)
    BY DEF StampsGiven, RowsTrue, RunsShaped
  <2>4. writer = i => run[i].pc = "build"
    BY IndexerAssumption DEF TransactionShaped
  <2>5. run[i].kind = "full" /\ run[i].pc \in {"delete", "build"} =>
         Outdated(db) \subseteq Awaited(i) \cup Written(i)
    BY DEF Covered, Ahead, Awaited, Written
  <2> QED
    BY <2>1, <2>2, <2>3, <2>4, <2>5 DEF RunOK, RunsShaped
<1> QED
  BY <1>1, <1>2 DEF RunsOK, TypeOK

LEMMA InvTogether == StoreOK /\ RunsOK => IndexInv
<1> SUFFICES ASSUME StoreOK, RunsOK PROVE IndexInv
  OBVIOUS
<1>1. TypeOK
  BY DEF StoreOK, RunsOK, TypeOK
<1>2. Mirrored(db) /\ Mirrored(work)
  BY DEF StoreOK
<1>3. StampsGiven
  BY DEF StoreOK, RunsOK, RunOK, StampsGiven
<1>4. RowsTrue
  BY DEF StoreOK, RunsOK, RunOK, RowsTrue
<1>5. RunsShaped
  BY DEF RunsOK, RunOK, RunsShaped
<1>6. TransactionShaped
  BY DEF StoreOK, RunsOK, RunOK, TransactionShaped
<1>7. Covered
  <2>1. ASSUME NEW i \in Indexers, run[i].kind = "full", run[i].pc \in {"delete", "build"}
        PROVE  Outdated(db) \subseteq Ahead(i)
    BY <2>1 DEF RunsOK, RunOK, Ahead, Awaited, Written
  <2> QED
    BY <2>1 DEF StoreOK, Covered
<1> QED
  BY <1>1, <1>2, <1>3, <1>4, <1>5, <1>6, <1>7 DEF IndexInv

(* A file may go, or come back under a stamp nobody has noted. *)
DiskMoves ==
    /\ disk' \in [Paths -> File \cup {Absent}]
    /\ clock' \in 0 .. MaxStamp /\ clock <= clock'
    /\ \A p \in Paths : \/ disk'[p] = disk[p]
                        \/ disk'[p] = Absent
                        \/ disk'[p].stamp > clock /\ disk'[p].stamp <= clock'

Alike(r, s) ==
    /\ r.pc = s.pc /\ r.kind = s.kind /\ r.wanted = s.wanted /\ r.seen = s.seen
    /\ r.gone = s.gone /\ r.todo = s.todo /\ r.batch = s.batch

LEMMA TruthLasts ==
  ASSUME StoreOK, DiskMoves, NEW p \in Paths, NEW row, row.stamp \in Nat, row.stamp <= clock,
         Truthful(p, row)
  PROVE  Truthful(p, row)'
<1>1. clock \in Nat
  BY DEF StoreOK
<1>2. CASE disk'[p] = disk[p]
  BY <1>2 DEF Truthful, Present
<1>3. CASE disk'[p] = Absent
  BY <1>3 DEF Truthful, Present
<1>4. CASE disk'[p].stamp > clock /\ p \in Present'
  <2>1. disk'[p].stamp \in Nat
    BY <1>4 DEF DiskMoves, Present, File
  <2>2. disk'[p].stamp # row.stamp
    BY <1>1, <1>4, <2>1
  <2> QED
    BY <2>2 DEF Truthful
<1> QED
  BY <1>2, <1>3, <1>4 DEF DiskMoves, Truthful, Present

LEMMA OutdatedShrinks ==
  ASSUME StoreOK, DiskMoves, hearth'.logic = hearth.logic,
         \A p \in Indexed(db)' : p \in Indexed(db) /\ db'.files[p] = db.files[p]
  PROVE  Outdated(db)' \subseteq Outdated(db)
<1> SUFFICES ASSUME NEW p \in Paths, p \in Outdated(db)' PROVE p \in Outdated(db)
  BY DEF Outdated, Indexed
<1>1. p \in Indexed(db) /\ db'.files[p] = db.files[p] /\ p \in Present'
  BY DEF Outdated
<1>2. db.files[p].stamp <= clock /\ db.files[p].stamp \in Nat /\ clock \in Nat
  BY <1>1 DEF StoreOK, Database, Indexed, FileRow
<1>3. disk'[p].stamp = db.files[p].stamp /\ disk'[p].stamp \in Nat
  BY <1>1, <1>2 DEF Outdated
<1>4. disk'[p] = disk[p]
  BY <1>1, <1>2, <1>3 DEF DiskMoves, Present
<1> QED
  BY <1>1, <1>3, <1>4 DEF Outdated, Present

(* What another actor's step leaves of a run. *)
LEMMA RunKept ==
  ASSUME StoreOK, NEW j \in Indexers, RunOK(j),
         run'[j] \in Runs, Alike(run'[j], run[j]),
         DiskMoves, hearth'.logic = hearth.logic,
         Outdated(db)' \subseteq Outdated(db),
         UNCHANGED <<work, writer>> \/ (writer # j /\ writer' # j)
  PROVE  RunOK(j)'
<1> USE DEF Alike
<1>1. Seen(j)' = Seen(j) /\ Awaited(j)' = Awaited(j)
  BY DEF Seen, Awaited
<1>2. \A p \in Seen(j)' : run'[j].seen[p] <= clock'
  <2>1. \A p \in Seen(j) : run[j].seen[p] \in Nat
    BY DEF RunOK, Runs, Seen
  <2> QED
    BY <1>1, <2>1 DEF RunOK, StoreOK, DiskMoves
<1>3. ASSUME NEW b \in run'[j].batch
      PROVE  b.row.stamp <= clock' /\ b.row.logic = hearth'.logic /\ Truthful(b.path, b.row)'
  <2>1. b \in run[j].batch /\ b.path \in Paths /\ b.row.stamp \in Nat
    BY DEF RunOK, Runs, Payload, FileRow
  <2>2. b.row.stamp <= clock /\ b.row.logic = hearth.logic /\ Truthful(b.path, b.row)
    BY <2>1 DEF RunOK
  <2>3. b.row.stamp <= clock'
    BY <2>1, <2>2 DEF StoreOK, DiskMoves
  <2> QED
    BY <2>1, <2>2, <2>3, TruthLasts
<1>4. writer' = j => run'[j].pc = "build"
  BY DEF RunOK
<1>5. Written(j)' = Written(j)
  BY DEF Written, Indexed
<1> QED
  BY <1>1, <1>2, <1>3, <1>4, <1>5 DEF RunOK

(* A step of the world that leaves the index alone. *)
LEMMA StoreKept ==
  ASSUME StoreOK, DiskMoves, hearth' \in [logic : 1 .. MaxLogic, grammar : BOOLEAN],
         hearth'.logic = hearth.logic, ignored' \in SUBSET Paths, UNCHANGED <<db, work, writer>>
  PROVE  StoreOK'
<1>1. Outdated(db)' \subseteq Outdated(db)
  BY OutdatedShrinks DEF Indexed
<1>2. clock \in Nat /\ clock' \in Nat
  BY DEF StoreOK, DiskMoves
<1>3. ASSUME NEW d \in Database, NEW p \in Indexed(d),
             d.files[p].stamp <= clock, Truthful(p, d.files[p])
      PROVE  d.files[p].stamp <= clock' /\ Truthful(p, d.files[p])'
  <2>1. p \in Paths /\ d.files[p].stamp \in Nat
    BY <1>3 DEF Indexed, Database, FileRow
  <2>2. d.files[p].stamp <= clock'
    BY <1>2, <1>3, <2>1 DEF DiskMoves
  <2>3. Truthful(p, d.files[p])'
    BY <1>3, <2>1, TruthLasts
  <2> QED
    BY <2>2, <2>3
<1>4. \A p \in Indexed(db)' : db'.files[p].stamp <= clock' /\ Truthful(p, db.files[p])'
  BY <1>3 DEF StoreOK, Indexed
<1>5. \A p \in Indexed(work)' : work'.files[p].stamp <= clock' /\ Truthful(p, work.files[p])'
  BY <1>3 DEF StoreOK, Indexed
<1>6. \A p \in Present' : disk'[p].stamp <= clock'
  <2>1. ASSUME NEW p \in Present'
        PROVE  disk'[p].stamp <= clock'
    <3>1. CASE disk'[p] = disk[p]
      <4>1. disk[p].stamp \in Nat /\ disk[p].stamp <= clock
        BY <2>1, <3>1 DEF StoreOK, Present, File
      <4> QED
        BY <1>2, <3>1, <4>1 DEF DiskMoves
    <3> QED
      BY <2>1, <3>1 DEF DiskMoves, Present
  <2> QED
    BY <2>1
<1>7. Mirrored(db)' /\ Mirrored(work)'
  BY DEF StoreOK, Mirrored
<1> QED
  BY <1>1, <1>4, <1>5, <1>6, <1>7 DEF StoreOK, DiskMoves, Indexed

-----------------------------------------------------------------------------
(* Steps of a run that write nothing. *)

(* Where nothing else changes, one run's own part is all there is to show. *)
LEMMA OnlyRun ==
  ASSUME StoreOK, RunsOK, UNCHANGED <<world, store>>, NEW i \in Indexers,
         run' \in [Indexers -> Runs], \A j \in Indexers \ {i} : run'[j] = run[j], RunOK(i)'
  PROVE  StoreOK' /\ RunsOK'
<1>1. DiskMoves /\ hearth'.logic = hearth.logic
  BY DEF StoreOK, DiskMoves, world
<1>2. StoreOK'
  BY <1>1, StoreKept DEF StoreOK, world, store
<1>3. Outdated(db)' \subseteq Outdated(db)
  BY <1>1, OutdatedShrinks DEF Indexed, store
<1>4. ASSUME NEW j \in Indexers \ {i}
      PROVE  RunOK(j)'
  <2>1. run'[j] \in Runs /\ Alike(run'[j], run[j]) /\ RunOK(j)
    BY <1>4 DEF Alike, RunsOK
  <2> QED
    BY <1>1, <1>3, <2>1, RunKept DEF store
<1> QED
  BY <1>2, <1>4 DEF RunsOK

LEMMA IdleRun ==
  /\ Idle \in Runs
  /\ Idle.pc = "idle" /\ Idle.kind = "full" /\ Idle.gone = {} /\ Idle.todo = {} /\ Idle.batch = {}
  /\ \A p \in Paths : Idle.seen[p] = Absent
BY DEF Idle, Runs

LEMMA StampsType ==
  ASSUME StoreOK, NEW ps \in SUBSET Present
  PROVE  /\ StampsOf(ps) \in [Paths -> Nat \cup {Absent}]
         /\ \A p \in Paths : StampsOf(ps)[p] # Absent => p \in ps /\ StampsOf(ps)[p] = disk[p].stamp
         /\ \A p \in ps : StampsOf(ps)[p] # Absent
         /\ \A p \in Paths : StampsOf(ps)[p] # Absent => StampsOf(ps)[p] <= clock
<1>1. \A p \in Present : p \in Paths /\ disk[p].stamp \in Nat /\ disk[p].stamp <= clock
  BY DEF StoreOK, Present, File
<1>2. StampsOf(ps) \in [Paths -> Nat \cup {Absent}]
  BY <1>1 DEF StampsOf
<1>3. \A p \in ps : StampsOf(ps)[p] = disk[p].stamp /\ StampsOf(ps)[p] # Absent
  BY <1>1, IndexerAssumption DEF StampsOf
<1>4. \A p \in Paths : p \notin ps => StampsOf(ps)[p] = Absent
  BY DEF StampsOf
<1> QED
  BY <1>1, <1>2, <1>3, <1>4

(* A run that has just looked at the stamps of some files. *)
LEMMA FreshRun ==
  ASSUME StoreOK, RunsOK, UNCHANGED <<world, store>>, NEW i \in Indexers, run[i].pc = "idle",
         NEW ps \in SUBSET Present, NEW r \in Runs,
         r.pc = "detect" \/ (r.pc = "build" /\ r.kind = "one"),
         r.kind = "full" => r.wanted = Paths,
         r.seen = StampsOf(ps), r.todo \subseteq ps, r.gone = {}, r.batch = {},
         run' = [run EXCEPT ![i] = r]
  PROVE  StoreOK' /\ RunsOK'
<1>1. StampsOf(ps) \in [Paths -> Nat \cup {Absent}] /\ ps \subseteq Paths
  BY StampsType DEF Present
<1>2. run' \in [Indexers -> Runs] /\ run'[i] = r /\ \A j \in Indexers \ {i} : run'[j] = run[j]
  BY DEF RunsOK
<1>3. writer' # i
  BY DEF RunsOK, RunOK, store
<1>4. \A p \in Seen(i)' : run'[i].seen[p] <= clock'
  BY <1>2, StampsType DEF Seen, world
<1>5. run'[i].todo \subseteq Seen(i)'
  BY <1>1, <1>2, StampsType DEF Seen
<1>6. RunOK(i)'
  BY <1>2, <1>3, <1>4, <1>5 DEF RunOK
<1> QED
  BY <1>2, <1>6, OnlyRun

LEMMA ListingKeeps ==
  ASSUME StoreOK, RunsOK, NEW i \in Indexers,
         \/ Scan(i) \/ \E events \in SUBSET Paths : WatchBatch(i, events)
         \/ \E p \in Paths : RefreshOne(i, p)
  PROVE  StoreOK' /\ RunsOK'
<1>1. \A ps \in SUBSET Present : StampsOf(ps) \in [Paths -> Nat \cup {Absent}] /\ ps \subseteq Paths
  BY StampsType DEF Present
<1>2. ASSUME NEW kind \in {"full", "paths"}, NEW wanted \in SUBSET Paths, NEW ps \in SUBSET Present,
             NEW fresh \in BOOLEAN, kind = "full" => wanted = Paths,
             UNCHANGED <<world, store>>, run[i].pc = "idle",
             run' = [run EXCEPT ![i] = [Idle EXCEPT !.pc = "detect", !.kind = kind, !.wanted = wanted,
                                         !.seen = StampsOf(ps), !.quiet = TRUE, !.fresh = fresh]]
      PROVE  StoreOK' /\ RunsOK'
  <2> DEFINE r == [Idle EXCEPT !.pc = "detect", !.kind = kind, !.wanted = wanted,
                               !.seen = StampsOf(ps), !.quiet = TRUE, !.fresh = fresh]
  <2>1. /\ r \in Runs /\ r.pc = "detect" /\ r.kind = kind /\ r.wanted = wanted
        /\ r.seen = StampsOf(ps) /\ r.todo = {} /\ r.gone = {} /\ r.batch = {}
    BY <1>1, IdleRun DEF Runs
  <2>2. run' = [run EXCEPT ![i] = r] /\ UNCHANGED <<world, store>> /\ run[i].pc = "idle"
    BY <1>2
  <2> HIDE DEF r
  <2>3. r.kind = "full" => r.wanted = Paths
    BY <1>2, <2>1
  <2>4. r.todo \subseteq ps
    BY <2>1
  <2> QED
    BY <2>1, <2>2, <2>3, <2>4, FreshRun
<1>3. (InSync /\ db.version = hearth.logic) \in BOOLEAN
  BY Zenon
<1>4. CASE Scan(i)
  <2>1. Listed \in SUBSET Present /\ Paths \in SUBSET Paths
    BY DEF Listed
  <2> QED
    BY <1>2, <1>3, <1>4, <2>1 DEF Scan, Start
<1>5. ASSUME NEW events \in SUBSET Paths, WatchBatch(i, events)
      PROVE  StoreOK' /\ RunsOK'
  <2> DEFINE ps == events \cap Present
             fresh == InSync /\ db.version = hearth.logic
  <2>1. ps \in SUBSET Present /\ fresh \in BOOLEAN
    BY <1>3
  <2>2. /\ UNCHANGED <<world, store>> /\ run[i].pc = "idle"
        /\ run' = [run EXCEPT ![i] = [Idle EXCEPT !.pc = "detect", !.kind = "paths", !.wanted = events,
                                       !.seen = StampsOf(ps), !.quiet = TRUE, !.fresh = fresh]]
    BY <1>5 DEF WatchBatch, Start
  <2> HIDE DEF ps, fresh
  <2> QED
    BY <1>2, <2>1, <2>2
<1>6. ASSUME NEW p \in Paths, RefreshOne(i, p)
      PROVE  StoreOK' /\ RunsOK'
  <2> DEFINE ps == {p}
             r == [Idle EXCEPT !.pc = "build", !.kind = "one", !.wanted = ps,
                               !.seen = StampsOf(ps), !.todo = ps]
  <2>1. ps \in SUBSET Present
    BY <1>6 DEF RefreshOne
  <2>2. /\ r \in Runs /\ r.pc = "build" /\ r.kind = "one" /\ r.wanted = ps
        /\ r.seen = StampsOf(ps) /\ r.todo = ps /\ r.gone = {} /\ r.batch = {}
    <3> HIDE DEF ps
    <3> QED
      BY <1>1, <2>1, IdleRun DEF Runs
  <2>3. UNCHANGED <<world, store>> /\ run[i].pc = "idle" /\ run' = [run EXCEPT ![i] = r]
    BY <1>6 DEF RefreshOne
  <2> HIDE DEF ps, r
  <2> QED
    BY <2>1, <2>2, <2>3, FreshRun
<1> QED
  BY <1>4, <1>5, <1>6

(* A full run over an index another logic has cut lists every row that     *)
(* looks current for another look or for removal.                          *)
LEMMA DetectKeeps ==
  ASSUME StoreOK, RunsOK, NEW i \in Indexers, Detect(i)
  PROVE  StoreOK' /\ RunsOK'
<1> DEFINE seen == Seen(i)
           gone == (Indexed(db) \cap run[i].wanted) \ seen
           todo == {p \in seen : Changed(i, p)}
           pc == IF gone = {} THEN "build" ELSE "delete"
<1>1. /\ run' = [run EXCEPT ![i].todo = todo, ![i].gone = gone, ![i].pc = pc]
      /\ run[i].pc = "detect" /\ UNCHANGED <<world, store>>
  BY DEF Detect
<1>2. run[i] \in Runs /\ RunOK(i) /\ run \in [Indexers -> Runs]
  BY DEF RunsOK
<1>3. todo \in SUBSET Paths /\ gone \in SUBSET Paths /\ pc \in {"delete", "build"}
  BY DEF Seen, Indexed
<1>4. /\ run'[i] \in Runs /\ run'[i].pc = pc /\ run'[i].todo = todo /\ run'[i].gone = gone
      /\ run'[i].kind = run[i].kind /\ run'[i].seen = run[i].seen /\ run'[i].batch = run[i].batch
      /\ run'[i].wanted = run[i].wanted
      /\ run' \in [Indexers -> Runs] /\ \A j \in Indexers \ {i} : run'[j] = run[j]
  <2> HIDE DEF todo, gone, pc
  <2>1. run'[i] = [run[i] EXCEPT !.todo = todo, !.gone = gone, !.pc = pc]
    BY <1>1, <1>2
  <2>2. run'[i] \in Runs
    BY <1>2, <1>3, <2>1 DEF Runs
  <2> QED
    BY <1>1, <1>2, <2>1, <2>2 DEF Runs
<1>5. Seen(i)' = Seen(i) /\ writer # i /\ writer' = writer /\ clock' = clock /\ hearth' = hearth
  <2>1. writer # i
    BY <1>1, <1>2 DEF RunOK
  <2>2. Seen(i)' = Seen(i)
    BY <1>4 DEF Seen
  <2> QED
    BY <1>1, <2>1, <2>2 DEF store, world
<1>6. \A b \in run'[i].batch :
         b.row.stamp <= clock' /\ b.row.logic = hearth'.logic /\ Truthful(b.path, b.row)'
  <2>1. disk' = disk /\ run'[i].batch = run[i].batch
    BY <1>1, <1>4 DEF world
  <2>2. \A b \in run[i].batch :
         b.row.stamp <= clock /\ b.row.logic = hearth.logic /\ Truthful(b.path, b.row)
    BY <1>2 DEF RunOK
  <2> QED
    BY <1>5, <2>1, <2>2 DEF Truthful, Present
<1>7. ASSUME run[i].kind = "full"
      PROVE  Outdated(db) \subseteq todo \cup gone
  <2>1. ASSUME NEW p \in Outdated(db)
        PROVE  p \in todo \cup gone
    <3>1. run[i].wanted = Paths /\ p \in Paths /\ p \in Indexed(db)
      BY <1>1, <1>2, <1>7, <2>1 DEF RunOK, Outdated, Indexed
    <3>2. OutOfDate(db)
      BY <2>1, <3>1 DEF OutOfDate, StoreOK
    <3>3. CASE p \in seen
      BY <1>7, <3>2, <3>3 DEF Changed
    <3>4. CASE p \notin seen
      BY <3>1, <3>4
    <3> QED
      BY <3>3, <3>4
  <2> QED
    BY <2>1
<1>8. Outdated(db)' = Outdated(db)
  BY <1>1 DEF Outdated, Indexed, Present, world, store
<1>9. run'[i].kind = "full" => Outdated(db)' \subseteq Awaited(i)'
  BY <1>4, <1>7, <1>8 DEF Awaited
<1>10. RunOK(i)'
  <2>1. run'[i].todo \subseteq Seen(i)'
    BY <1>4, <1>5
  <2>2. run'[i].pc = "build" => run'[i].gone = {}
    BY <1>4
  <2>3. \A p \in Seen(i)' : run'[i].seen[p] <= clock'
    BY <1>2, <1>4, <1>5 DEF RunOK
  <2>4. run'[i].pc # "idle" /\ run'[i].pc # "detect"
    BY <1>3, <1>4
  <2> QED
    BY <1>4, <1>5, <1>6, <1>9, <2>1, <2>2, <2>3, <2>4 DEF RunOK
<1> QED
  BY <1>1, <1>4, <1>10, OnlyRun

(* A payload is read after its stamp was taken, and never before: so it    *)
(* tells the truth under that stamp.                                       *)
LEMMA ReadKeeps ==
  ASSUME StoreOK, RunsOK, NEW i \in Indexers, NEW p \in Paths, ReadFile(i, p)
  PROVE  StoreOK' /\ RunsOK'
<1> DEFINE usable == p \in Present /\ disk[p].text \notin Binary
           load == [path |-> p, row |-> RowFor(i, p)]
           todo == run[i].todo \ {p}
           batch == IF usable THEN run[i].batch \cup {load} ELSE run[i].batch
           parsed == IF usable /\ StatusOf(p, disk[p].text) = "ok" THEN run[i].parsed \cup {p}
                     ELSE run[i].parsed
<1>1. /\ run' = [run EXCEPT ![i].todo = todo, ![i].batch = batch, ![i].parsed = parsed]
      /\ run[i].pc = "build" /\ writer # i /\ p \in run[i].todo /\ UNCHANGED <<world, store>>
  BY DEF ReadFile
<1>2. run[i] \in Runs /\ RunOK(i) /\ run \in [Indexers -> Runs]
  BY DEF RunsOK
<1>3. /\ p \in Seen(i) /\ run[i].seen[p] \in Nat /\ run[i].seen[p] <= clock
  BY <1>1, <1>2 DEF RunOK, Runs, Seen
<1>4. usable => load \in Payload
  <2>1. ASSUME usable
        PROVE  RowFor(i, p) \in FileRow
    <3>1. disk[p].text \in Texts
      BY <2>1 DEF StoreOK, Present, File
    <3>2. hearth.logic \in Nat
      BY DEF StoreOK
    <3>3. StatusOf(p, disk[p].text) \in {"ok", "skipped"}
      BY DEF StatusOf
    <3> QED
      BY <1>3, <3>1, <3>2, <3>3 DEF RowFor, FileRow
  <2> QED
    BY <2>1 DEF Payload
<1>5. /\ load.path = p /\ load.row.stamp = run[i].seen[p] /\ load.row.text = disk[p].text
      /\ load.row.logic = hearth.logic
  BY DEF RowFor
<1>6. usable => Truthful(p, load.row)
  BY <1>5 DEF Truthful
<1>7. todo \in SUBSET Paths /\ batch \in SUBSET Payload /\ parsed \in SUBSET Paths
  <2> HIDE DEF usable, load
  <2> QED
    BY <1>2, <1>4 DEF Runs
<1>8. /\ run'[i] \in Runs /\ run'[i].pc = "build" /\ run'[i].todo = todo /\ run'[i].gone = run[i].gone
      /\ run'[i].kind = run[i].kind /\ run'[i].seen = run[i].seen /\ run'[i].batch = batch
      /\ run'[i].wanted = run[i].wanted
      /\ run' \in [Indexers -> Runs] /\ \A j \in Indexers \ {i} : run'[j] = run[j]
  <2> HIDE DEF todo, batch, parsed
  <2>1. run'[i] = [run[i] EXCEPT !.todo = todo, !.batch = batch, !.parsed = parsed]
    BY <1>1, <1>2
  <2>2. run'[i] \in Runs
    BY <1>2, <1>7, <2>1 DEF Runs
  <2> QED
    BY <1>1, <1>2, <2>1, <2>2 DEF Runs
<1>9. /\ writer' = writer /\ clock' = clock /\ hearth' = hearth /\ disk' = disk
      /\ db' = db /\ work' = work
  BY <1>1 DEF world, store
<1>10. Seen(i)' = Seen(i)
  BY <1>8 DEF Seen
<1>11. ASSUME NEW b \in batch
       PROVE  b.row.stamp <= clock' /\ b.row.logic = hearth'.logic /\ Truthful(b.path, b.row)'
  <2>1. b.row.stamp <= clock /\ b.row.logic = hearth.logic /\ Truthful(b.path, b.row)
    <3> HIDE DEF load
    <3> QED
      BY <1>2, <1>3, <1>5, <1>6, <1>11 DEF RunOK
  <2> QED
    BY <1>9, <2>1 DEF Truthful, Present
<1>12. Outdated(db)' = Outdated(db) /\ Written(i)' = Written(i)
  BY <1>9 DEF Outdated, Written, Indexed, Present
<1>13. ASSUME run[i].kind = "full"
       PROVE  Outdated(db)' \subseteq Awaited(i)' \cup Written(i)'
  <2>1. ASSUME NEW q \in Outdated(db)
        PROVE  q \in Awaited(i)' \cup Written(i)'
    <3>1. q \in Awaited(i) \cup Written(i)
      BY <1>1, <1>2, <1>13, <2>1 DEF RunOK
    <3>2. CASE q # p
      BY <1>8, <1>12, <3>1, <3>2 DEF Awaited
    <3>3. CASE q = p
      <4>1. p \in Indexed(db) /\ p \in Present /\ db.files[p].stamp = disk[p].stamp
        BY <2>1, <3>3 DEF Outdated
      <4>2. Truthful(p, db.files[p])
        BY <4>1 DEF StoreOK
      <4>3. usable
        BY <4>1, <4>2 DEF Truthful
      <4>4. load \in run'[i].batch /\ load.path = p
        BY <1>5, <1>8, <4>3
      <4> QED
        BY <3>3, <4>4 DEF Awaited
    <3> QED
      BY <3>2, <3>3
  <2> QED
    BY <1>12, <2>1
<1>14. RunOK(i)'
  <2>1. \A q \in Seen(i)' : run'[i].seen[q] <= clock'
    BY <1>2, <1>8, <1>9, <1>10 DEF RunOK
  <2>2. run'[i].gone = {} /\ run'[i].todo \subseteq Seen(i)'
    BY <1>1, <1>2, <1>8, <1>10 DEF RunOK
  <2> HIDE DEF batch, todo
  <2> QED
    BY <1>8, <1>11, <1>13, <2>1, <2>2 DEF RunOK
<1> QED
  BY <1>1, <1>8, <1>14, OnlyRun

(* A killed run takes its transaction with it. *)
LEMMA CrashKeeps ==
  ASSUME StoreOK, RunsOK, NEW i \in Indexers, Crash(i)
  PROVE  StoreOK' /\ RunsOK'
<1>1. /\ run' = [run EXCEPT ![i] = Idle] /\ UNCHANGED <<disk, ignored, clock, hearth, db>>
      /\ \/ writer = i /\ writer' = Nobody /\ work' = EmptyDatabase
         \/ writer # i /\ writer' = writer /\ work' = work
  BY DEF Crash, world
<1>2. run' \in [Indexers -> Runs] /\ run'[i] = Idle /\ \A j \in Indexers \ {i} : run'[j] = run[j]
  BY <1>1, IdleRun DEF RunsOK
<1>3. writer' # i
  BY <1>1, IndexerAssumption
<1>4. RunOK(i)'
  <2>1. Seen(i)' = {}
    BY <1>2, IdleRun DEF Seen
  <2> QED
    BY <1>2, <1>3, <2>1, IdleRun DEF RunOK
<1>5. DiskMoves /\ hearth'.logic = hearth.logic
  BY <1>1 DEF DiskMoves, StoreOK
<1>6. Outdated(db)' = Outdated(db)
  BY <1>1 DEF Outdated, Indexed, Present
<1>7. ASSUME NEW j \in Indexers \ {i}
      PROVE  RunOK(j)'
  <2>1. run'[j] \in Runs /\ Alike(run'[j], run[j]) /\ RunOK(j)
    BY <1>2, <1>7 DEF Alike, RunsOK
  <2>2. UNCHANGED <<work, writer>> \/ (writer # j /\ writer' # j)
    BY <1>1, IndexerAssumption
  <2> QED
    BY <1>5, <1>6, <2>1, <2>2, RunKept
<1>8. StoreOK'
  <2>1. CASE writer # i
    <3>1. UNCHANGED <<db, work, writer>> /\ ignored' \in SUBSET Paths
          /\ hearth' \in [logic : 1 .. MaxLogic, grammar : BOOLEAN]
      BY <1>1, <2>1 DEF StoreOK
    <3> QED
      BY <1>5, <3>1, StoreKept
  <2>2. CASE writer = i
    <3>1. writer' = Nobody /\ work' = EmptyDatabase
      BY <1>1, <2>2
    <3>2. Indexed(work)' = {} /\ work'.version = 0
      BY <3>1 DEF Indexed, EmptyDatabase
    <3>3. Mirrored(work)' /\ work' \in Database
      BY <3>1, EmptyMirrored DEF Mirrored
    <3>4. Mirrored(db)' /\ Present' = Present /\ Indexed(db)' = Indexed(db)
      BY <1>1 DEF StoreOK, Mirrored, Present, Indexed
    <3>5. \A p \in Indexed(db)' : db'.files[p].stamp <= clock' /\ Truthful(p, db.files[p])'
      BY <1>1, <3>4 DEF StoreOK, Truthful, Present
    <3>6. 0 <= hearth'.logic
      BY <1>1 DEF StoreOK
    <3> QED
      BY <1>1, <1>6, <3>1, <3>2, <3>3, <3>4, <3>5, <3>6 DEF StoreOK
  <2> QED
    BY <2>1, <2>2
<1> QED
  BY <1>2, <1>4, <1>7, <1>8 DEF RunsOK

-----------------------------------------------------------------------------
(* Steps that write the index. *)

LEMMA QuietAlike ==
  ASSUME NEW r \in Runs
  PROVE  [r EXCEPT !.quiet = FALSE] \in Runs /\ Alike([r EXCEPT !.quiet = FALSE], r)
BY DEF Runs, Alike

LEMMA OthersOfRun ==
  ASSUME RunsOK, NEW i \in Indexers
  PROVE  /\ Others(i) \in [Indexers -> Runs] /\ Others(i)[i] = run[i]
         /\ \A j \in Indexers \ {i} : Alike(Others(i)[j], run[j])
BY QuietAlike DEF Others, RunsOK

(* Rows that go, while no transaction is open. *)
LEMMA StoreLoses ==
  ASSUME StoreOK, writer = Nobody, UNCHANGED <<disk, ignored, clock, hearth, work, writer>>,
         db' \in Database, Mirrored(db)', db'.version = db.version \/ db'.version = 0,
         \A p \in Indexed(db)' : p \in Indexed(db) /\ db'.files[p] = db.files[p]
  PROVE  StoreOK' /\ DiskMoves /\ Outdated(db)' \subseteq Outdated(db)
<1>1. DiskMoves
  BY DEF DiskMoves, StoreOK
<1>2. Outdated(db)' \subseteq Outdated(db)
  BY <1>1, OutdatedShrinks
<1>3. Present' = Present /\ Indexed(work)' = Indexed(work)
  BY DEF Present, Indexed
<1>4. \A p \in Indexed(db)' : db'.files[p].stamp <= clock' /\ Truthful(p, db.files[p])'
  BY <1>3 DEF StoreOK, Truthful
<1>5. \A p \in Indexed(work)' : work'.files[p].stamp <= clock' /\ Truthful(p, work.files[p])'
  BY <1>3 DEF StoreOK, Truthful
<1>6. Mirrored(work)' /\ work' = EmptyDatabase
  BY DEF StoreOK, Mirrored
<1>7. /\ db'.version <= hearth'.logic
      /\ db'.version = hearth'.logic => db'.version = db.version
  BY DEF StoreOK
<1>8. db'.version = hearth'.logic => Outdated(db)' = {}
  BY <1>2, <1>7 DEF StoreOK
<1>9. StoreOK'
  BY <1>3, <1>4, <1>5, <1>6, <1>7, <1>8 DEF StoreOK
<1> QED
  BY <1>1, <1>2, <1>9

LEMMA OthersKept ==
  ASSUME StoreOK, RunsOK, NEW i \in Indexers, DiskMoves, hearth'.logic = hearth.logic,
         Outdated(db)' \subseteq Outdated(db),
         run' \in [Indexers -> Runs], \A j \in Indexers \ {i} : Alike(run'[j], run[j]),
         UNCHANGED <<work, writer>> \/ (writer \in {i, Nobody} /\ writer' \in {i, Nobody}),
         RunOK(i)'
  PROVE  RunsOK'
<1>1. ASSUME NEW j \in Indexers \ {i}
      PROVE  RunOK(j)'
  <2>1. run'[j] \in Runs /\ Alike(run'[j], run[j]) /\ RunOK(j)
    BY DEF RunsOK
  <2>2. UNCHANGED <<work, writer>> \/ (writer # j /\ writer' # j)
    BY IndexerAssumption
  <2> QED
    BY <2>1, <2>2, RunKept
<1> QED
  BY <1>1 DEF RunsOK

LEMMA RebuildKeeps ==
  ASSUME StoreOK, RunsOK, NEW i \in Indexers, Rebuild(i)
  PROVE  StoreOK' /\ RunsOK'
<1> DEFINE r == [Idle EXCEPT !.pc = "detect", !.wanted = Paths, !.seen = StampsOf(Listed),
                             !.quiet = TRUE]
<1>1. /\ \A j \in Indexers : run[j].pc = "idle"
      /\ db' = EmptyDatabase /\ run' = [run EXCEPT ![i] = r]
      /\ UNCHANGED <<disk, ignored, clock, hearth, work, writer>>
  BY DEF Rebuild, world
<1>2. writer = Nobody
  BY <1>1 DEF RunsOK, RunOK, StoreOK
<1>3. Listed \in SUBSET Present /\ Listed \subseteq Paths
  BY DEF Listed, Present
<1>4. /\ r \in Runs /\ r.pc = "detect" /\ r.kind = "full" /\ r.wanted = Paths
      /\ r.seen = StampsOf(Listed) /\ r.todo = {} /\ r.gone = {} /\ r.batch = {}
  BY <1>3, StampsType, IdleRun DEF Runs
<1> HIDE DEF r
<1>5. Indexed(db)' = {} /\ Mirrored(db)' /\ db' \in Database /\ db'.version = 0
  BY <1>1, EmptyMirrored DEF EmptyDatabase, Indexed, Mirrored
<1>6. StoreOK' /\ DiskMoves /\ Outdated(db)' \subseteq Outdated(db)
  BY <1>1, <1>2, <1>5, StoreLoses
<1>7. /\ run' \in [Indexers -> Runs] /\ run'[i] = r
      /\ \A j \in Indexers \ {i} : Alike(run'[j], run[j])
  BY <1>1, <1>4 DEF RunsOK, Alike
<1>8. RunOK(i)'
  <2>1. \A p \in Seen(i)' : run'[i].seen[p] <= clock'
    BY <1>1, <1>3, <1>4, <1>7, StampsType DEF Seen
  <2>2. writer' # i
    BY <1>1, <1>2, IndexerAssumption
  <2> QED
    BY <1>4, <1>7, <2>1, <2>2 DEF RunOK
<1> QED
  BY <1>1, <1>6, <1>7, <1>8, OthersKept

LEMMA RemoveDeletedKeeps ==
  ASSUME StoreOK, RunsOK, NEW i \in Indexers, RemoveDeleted(i)
  PROVE  StoreOK' /\ RunsOK'
<1> DEFINE gone == run[i].gone
<1>1. /\ run[i].pc = "delete" /\ writer = Nobody /\ db' = DeleteFiles(db, gone)
      /\ run' = [Others(i) EXCEPT ![i].gone = {}, ![i].pc = "build"]
      /\ UNCHANGED <<disk, ignored, clock, hearth, work, writer>>
  BY DEF RemoveDeleted, world
<1>2. run[i] \in Runs /\ RunOK(i) /\ db \in Database /\ Mirrored(db)
  BY DEF RunsOK, StoreOK
<1>3. /\ db' \in Database /\ Mirrored(db') /\ db'.version = db.version
      /\ \A p \in Paths : db'.files[p] = IF p \in gone THEN NoRow ELSE db.files[p]
  BY <1>1, <1>2, DeleteKeeps
<1>4. Mirrored(db)' /\ \A p \in Indexed(db)' : p \in Indexed(db) /\ db'.files[p] = db.files[p] /\ p \notin gone
  BY <1>3 DEF Indexed, Mirrored
<1>5. StoreOK' /\ DiskMoves /\ Outdated(db)' \subseteq Outdated(db)
  BY <1>1, <1>3, <1>4, StoreLoses
<1>6. /\ run' \in [Indexers -> Runs] /\ run'[i] = [run[i] EXCEPT !.gone = {}, !.pc = "build"]
      /\ \A j \in Indexers \ {i} : Alike(run'[j], run[j])
  <2>1. [run[i] EXCEPT !.gone = {}, !.pc = "build"] \in Runs
    BY <1>2 DEF Runs
  <2>2. run' = [Others(i) EXCEPT ![i] = [Others(i)[i] EXCEPT !.gone = {}, !.pc = "build"]]
    BY <1>1
  <2> QED
    BY <2>1, <2>2, OthersOfRun
<1>7. /\ run'[i] \in Runs /\ run'[i].pc = "build" /\ run'[i].gone = {} /\ run'[i].kind = run[i].kind
      /\ run'[i].todo = run[i].todo /\ run'[i].batch = run[i].batch /\ run'[i].seen = run[i].seen
  BY <1>2, <1>6 DEF Runs
<1>8. RunOK(i)'
  <2>1. Seen(i)' = Seen(i) /\ run'[i].todo \subseteq Seen(i)' /\ \A p \in Seen(i)' : run'[i].seen[p] <= clock'
    BY <1>1, <1>2, <1>7 DEF Seen, RunOK
  <2>2. \A b \in run'[i].batch :
          b.row.stamp <= clock' /\ b.row.logic = hearth'.logic /\ Truthful(b.path, b.row)'
    BY <1>1, <1>2, <1>7 DEF RunOK, Truthful, Present
  <2>3. Written(i) = {}
    BY <1>1, IndexerAssumption DEF Written
  <2>4. ASSUME run[i].kind = "full", NEW q \in Outdated(db)'
        PROVE  q \in Awaited(i)'
    <3>1. q \in Awaited(i) /\ q \notin gone
      BY <1>1, <1>2, <1>4, <1>5, <2>3, <2>4 DEF RunOK, Outdated
    <3> QED
      BY <1>7, <3>1 DEF Awaited
  <2>5. run'[i].kind = "full" => Outdated(db)' \subseteq Awaited(i)'
    BY <1>7, <2>4
  <2> QED
    BY <1>7, <2>1, <2>2, <2>5 DEF RunOK
<1> QED
  BY <1>1, <1>5, <1>6, <1>8, OthersKept

LEMMA ForgetOneKeeps ==
  ASSUME StoreOK, RunsOK, NEW i \in Indexers, NEW p \in Paths, ForgetOne(i, p)
  PROVE  StoreOK' /\ RunsOK'
<1>1. /\ run[i].pc = "idle" /\ writer = Nobody /\ db' = DeleteFiles(db, {p}) /\ run' = Others(i)
      /\ UNCHANGED <<disk, ignored, clock, hearth, work, writer>>
  BY DEF ForgetOne, world
<1>2. db \in Database /\ Mirrored(db) /\ RunOK(i)
  BY DEF RunsOK, StoreOK
<1>3. /\ db' \in Database /\ Mirrored(db') /\ db'.version = db.version
      /\ \A q \in Paths : db'.files[q] = IF q \in {p} THEN NoRow ELSE db.files[q]
  BY <1>1, <1>2, DeleteKeeps
<1>4. Mirrored(db)' /\ \A q \in Indexed(db)' : q \in Indexed(db) /\ db'.files[q] = db.files[q]
  BY <1>3 DEF Indexed, Mirrored
<1>5. StoreOK' /\ DiskMoves /\ Outdated(db)' \subseteq Outdated(db)
  BY <1>1, <1>3, <1>4, StoreLoses
<1>6. /\ run' \in [Indexers -> Runs] /\ run'[i] = run[i]
      /\ \A j \in Indexers \ {i} : Alike(run'[j], run[j])
  BY <1>1, OthersOfRun
<1>7. RunOK(i)'
  <2>1. run'[i] \in Runs /\ Alike(run'[i], run[i])
    BY <1>6 DEF Alike
  <2> QED
    BY <1>1, <1>2, <1>5, <2>1, RunKept
<1> QED
  BY <1>1, <1>5, <1>6, <1>7, OthersKept

(* Writing one file of a batch moves it from what is awaited to what is    *)
(* written.                                                                *)
LEMMA WriteFileKeeps ==
  ASSUME StoreOK, RunsOK, NEW i \in Indexers, NEW load \in run[i].batch, WriteFile(i, load)
  PROVE  StoreOK' /\ RunsOK'
<1> DEFINE base == IF writer = i THEN work ELSE db
           path == load.path
           row == load.row
<1>1. /\ run[i].pc = "build" /\ (writer = i \/ writer = Nobody)
      /\ Fits(DeleteFiles(base, {path}), row.text) /\ work' = ReplaceFile(base, path, row)
      /\ writer' = i /\ run' = [run EXCEPT ![i].batch = @ \ {load}]
      /\ UNCHANGED <<disk, ignored, clock, hearth, db>>
  BY DEF WriteFile, world
<1>2. run[i] \in Runs /\ RunOK(i) /\ run \in [Indexers -> Runs]
  BY DEF RunsOK
<1>3. path \in Paths /\ row \in FileRow
  BY <1>2 DEF Runs, Payload
<1>4. row.stamp <= clock /\ row.logic = hearth.logic /\ Truthful(path, row)
  BY <1>2 DEF RunOK
<1>5. /\ base \in Database /\ Mirrored(base) /\ base.version = db.version
      /\ \A p \in Indexed(base) : base.files[p].stamp <= clock /\ Truthful(p, base.files[p])
      /\ \A p \in Indexed(base) : base.files[p] = db.files[p] \/ base.files[p].logic = hearth.logic
  BY IndexerAssumption DEF StoreOK
<1> HIDE DEF base
<1>6. /\ work' \in Database /\ Mirrored(work') /\ work'.version = db.version
      /\ \A p \in Paths : work'.files[p] = IF p = path THEN row ELSE base.files[p]
  BY <1>1, <1>3, <1>5, ReplaceKeeps
<1>7. Present' = Present /\ Indexed(db)' = Indexed(db) /\ Outdated(db)' = Outdated(db) /\ Mirrored(db)'
  BY <1>1 DEF Present, Indexed, Outdated, StoreOK, Mirrored
<1>8. ASSUME NEW p \in Indexed(work)'
      PROVE  /\ work'.files[p].stamp <= clock' /\ Truthful(p, work.files[p])'
             /\ work'.files[p] = db'.files[p] \/ work'.files[p].logic = hearth'.logic
  <2>1. CASE p = path
    BY <1>1, <1>3, <1>4, <1>6, <1>7, <2>1 DEF Truthful
  <2>2. CASE p # path
    <3>1. p \in Indexed(base) /\ work'.files[p] = base.files[p]
      BY <1>6, <2>2 DEF Indexed
    <3> QED
      BY <1>1, <1>5, <1>7, <3>1 DEF Truthful
  <2> QED
    BY <2>1, <2>2
<1>9. StoreOK'
  <2>1. Mirrored(work)'
    BY <1>6 DEF Mirrored
  <2>2. \A p \in Indexed(db)' : db'.files[p].stamp <= clock' /\ Truthful(p, db.files[p])'
    BY <1>1, <1>7 DEF StoreOK, Truthful
  <2>3. writer' # Nobody /\ writer' \in Indexers
    BY <1>1, IndexerAssumption
  <2>4. work'.version <= hearth'.logic
    BY <1>1, <1>6 DEF StoreOK
  <2> QED
    BY <1>1, <1>6, <1>7, <1>8, <2>1, <2>2, <2>3, <2>4 DEF StoreOK
<1>10. /\ run' \in [Indexers -> Runs] /\ run'[i] = [run[i] EXCEPT !.batch = @ \ {load}]
       /\ \A j \in Indexers \ {i} : Alike(run'[j], run[j])
  <2>1. [run[i] EXCEPT !.batch = @ \ {load}] \in Runs
    BY <1>2 DEF Runs
  <2>2. run' = [run EXCEPT ![i] = [run[i] EXCEPT !.batch = @ \ {load}]]
    BY <1>1
  <2> QED
    BY <1>2, <2>1, <2>2 DEF Alike
<1>11. /\ run'[i] \in Runs /\ run'[i].pc = "build" /\ run'[i].gone = run[i].gone
       /\ run'[i].kind = run[i].kind /\ run'[i].todo = run[i].todo /\ run'[i].seen = run[i].seen
       /\ run'[i].batch = run[i].batch \ {load}
  BY <1>1, <1>2, <1>10 DEF Runs
<1>12. RunOK(i)'
  <2>1. Seen(i)' = Seen(i) /\ run'[i].todo \subseteq Seen(i)' /\ \A p \in Seen(i)' : run'[i].seen[p] <= clock'
    BY <1>1, <1>2, <1>11 DEF Seen, RunOK
  <2>2. \A b \in run'[i].batch :
          b.row.stamp <= clock' /\ b.row.logic = hearth'.logic /\ Truthful(b.path, b.row)'
    BY <1>1, <1>2, <1>11 DEF RunOK, Truthful, Present
  <2>3. ASSUME run[i].kind = "full", NEW q \in Outdated(db)'
        PROVE  q \in Awaited(i)' \cup Written(i)'
    <3>1. q \in Awaited(i) \cup Written(i) /\ q \in Paths
      BY <1>1, <1>2, <1>7, <2>3 DEF RunOK, Outdated, Indexed
    <3>2. CASE q = path
      <4>1. work'.files[q] = row /\ row # NoRow
        BY <1>3, <1>6, <3>2, RowAssumption DEF FileRow
      <4> QED
        BY <1>1, <1>4, <3>1, <4>1 DEF Written, Indexed
    <3>3. CASE q # path /\ q \in Awaited(i)
      BY <1>11, <3>3 DEF Awaited
    <3>4. CASE q # path /\ q \in Written(i)
      <4>1. writer = i /\ q \in Indexed(work) /\ work.files[q].logic = hearth.logic
        BY <3>4 DEF Written
      <4>2. work'.files[q] = work.files[q]
        BY <1>6, <3>1, <3>4, <4>1 DEF base
      <4> QED
        BY <1>1, <3>1, <4>1, <4>2 DEF Written, Indexed
    <3> QED
      BY <3>1, <3>2, <3>3, <3>4
  <2>4. run'[i].gone = {} /\ (run'[i].kind = "full" => Outdated(db)' \subseteq Awaited(i)' \cup Written(i)')
    BY <1>1, <1>2, <1>11, <2>3 DEF RunOK
  <2> QED
    BY <1>11, <2>1, <2>2, <2>4 DEF RunOK
<1>13. DiskMoves
  BY <1>1 DEF DiskMoves, StoreOK
<1> QED
  BY <1>1, <1>7, <1>9, <1>10, <1>12, <1>13, OthersKept

(* Publishing a transaction cannot bring back a row another logic has cut. *)
LEMMA CommitKeeps ==
  ASSUME StoreOK, RunsOK, NEW i \in Indexers, Commit(i)
  PROVE  StoreOK' /\ RunsOK'
<1>1. /\ writer = i /\ run[i].batch = {} /\ db' = work /\ work' = EmptyDatabase /\ writer' = Nobody
      /\ run' = Others(i) /\ UNCHANGED <<disk, ignored, clock, hearth>>
  BY DEF Commit, world
<1>2. writer # Nobody /\ writer' # i
  BY <1>1, IndexerAssumption
<1>3. Present' = Present
  BY <1>1 DEF Present
<1>4. Outdated(db)' \subseteq Outdated(db) \ Written(i)
  <2>1. ASSUME NEW q \in Outdated(db)'
        PROVE  q \in Outdated(db) /\ q \notin Written(i)
    <3>1. q \in Paths /\ q \in Indexed(work) /\ work.files[q].logic # hearth.logic
          /\ work.files[q].stamp = disk[q].stamp /\ q \in Present
      BY <1>1, <1>3, <2>1 DEF Outdated, Indexed
    <3>2. work.files[q] = db.files[q]
      BY <1>2, <3>1 DEF StoreOK
    <3> QED
      BY <3>1, <3>2 DEF Outdated, Indexed, Written
  <2> QED
    BY <2>1
<1>5. StoreOK'
  <2>1. /\ db' \in Database /\ work' \in Database /\ Mirrored(db)' /\ Mirrored(work)'
        /\ Indexed(work)' = {} /\ work'.version = 0 /\ db'.version = db.version
    BY <1>1, <1>2, EmptyMirrored DEF StoreOK, Mirrored, EmptyDatabase, Indexed
  <2>2. \A p \in Indexed(db)' : db'.files[p].stamp <= clock' /\ Truthful(p, db.files[p])'
    BY <1>1, <1>3 DEF StoreOK, Truthful, Indexed
  <2>3. db'.version = hearth'.logic => Outdated(db)' = {}
    BY <1>1, <1>4, <2>1 DEF StoreOK
  <2>4. 0 <= hearth'.logic /\ db'.version <= hearth'.logic
    BY <1>1, <2>1 DEF StoreOK
  <2>5. \A p \in Present' : disk'[p].stamp <= clock'
    BY <1>1, <1>3 DEF StoreOK
  <2> QED
    BY <1>1, <2>1, <2>2, <2>3, <2>4, <2>5 DEF StoreOK
<1>6. run' \in [Indexers -> Runs] /\ run'[i] = run[i] /\ \A j \in Indexers \ {i} : Alike(run'[j], run[j])
  BY <1>1, OthersOfRun
<1>7. RunOK(i)'
  <2>1. RunOK(i) /\ Seen(i)' = Seen(i) /\ Awaited(i)' = Awaited(i)
    BY <1>6 DEF RunsOK, Seen, Awaited
  <2>2. run[i].kind = "full" /\ run[i].pc \in {"delete", "build"} => Outdated(db)' \subseteq Awaited(i)'
    BY <1>4, <2>1 DEF RunOK
  <2> QED
    BY <1>1, <1>2, <1>6, <2>1, <2>2 DEF RunOK
<1>8. DiskMoves /\ Outdated(db)' \subseteq Outdated(db)
  BY <1>1, <1>4 DEF DiskMoves, StoreOK
<1> QED
  BY <1>1, <1>5, <1>6, <1>7, <1>8, OthersKept

(* The stamp of the program's logic is given when nothing older is left.   *)
LEMMA FinishKeeps ==
  ASSUME StoreOK, RunsOK, NEW i \in Indexers, Finish(i)
  PROVE  StoreOK' /\ RunsOK'
<1>1. /\ run[i].pc = "build" /\ writer # i /\ run[i].todo = {} /\ run[i].batch = {}
      /\ run[i].kind = "full" => writer = Nobody
      /\ db' = IF run[i].kind = "full" THEN [db EXCEPT !.version = hearth.logic] ELSE db
      /\ run' = [Others(i) EXCEPT ![i] = Idle]
      /\ UNCHANGED <<disk, ignored, clock, hearth, work, writer>>
  BY DEF Finish, world
<1>2. db \in Database /\ hearth.logic \in Nat
  BY DEF StoreOK
<1>3. /\ db' \in Database /\ db'.files = db.files /\ db'.chunks = db.chunks /\ db'.fts = db.fts
      /\ db'.version = IF run[i].kind = "full" THEN hearth.logic ELSE db.version
  BY <1>1, <1>2 DEF Database
<1>4. /\ Present' = Present /\ Indexed(db)' = Indexed(db) /\ Outdated(db)' = Outdated(db)
      /\ Indexed(work)' = Indexed(work)
  BY <1>1, <1>3 DEF Present, Indexed, Outdated
<1>5. run[i].kind = "full" => Outdated(db) = {}
  BY <1>1 DEF RunsOK, RunOK, Awaited, Written
<1>6. StoreOK'
  <2>1. Mirrored(db)' /\ Mirrored(work)'
    BY <1>1, <1>3 DEF StoreOK, Mirrored
  <2>2. \A p \in Indexed(db)' : db'.files[p].stamp <= clock' /\ Truthful(p, db.files[p])'
    BY <1>1, <1>3, <1>4 DEF StoreOK, Truthful
  <2>3. \A p \in Indexed(work)' : work'.files[p].stamp <= clock' /\ Truthful(p, work.files[p])'
    BY <1>1, <1>4 DEF StoreOK, Truthful
  <2>4. db'.version <= hearth'.logic /\ (db'.version = hearth'.logic => Outdated(db)' = {})
    BY <1>1, <1>2, <1>3, <1>4, <1>5 DEF StoreOK
  <2>5. writer' # Nobody =>
         /\ work'.version = db'.version
         /\ \A p \in Indexed(work)' :
              work'.files[p] = db'.files[p] \/ work'.files[p].logic = hearth'.logic
    BY <1>1, <1>3, <1>4 DEF StoreOK
  <2>6. \A p \in Present' : disk'[p].stamp <= clock'
    BY <1>1, <1>4 DEF StoreOK
  <2>7. work'.version <= hearth'.logic /\ (writer' = Nobody => work' = EmptyDatabase')
    BY <1>1 DEF StoreOK, EmptyDatabase
  <2> QED
    BY <1>1, <1>3, <2>1, <2>2, <2>3, <2>4, <2>5, <2>6, <2>7 DEF StoreOK
<1>7. run' \in [Indexers -> Runs] /\ run'[i] = Idle /\ \A j \in Indexers \ {i} : Alike(run'[j], run[j])
  BY <1>1, OthersOfRun, IdleRun
<1>8. RunOK(i)'
  <2>1. Seen(i)' = {}
    BY <1>7, IdleRun DEF Seen
  <2> QED
    BY <1>1, <1>7, <2>1, IdleRun DEF RunOK
<1>9. DiskMoves
  BY <1>1 DEF DiskMoves, StoreOK
<1> QED
  BY <1>1, <1>4, <1>6, <1>7, <1>8, <1>9, OthersKept

-----------------------------------------------------------------------------
(* The world. *)

LEMMA WorldKeeps ==
  ASSUME StoreOK, RunsOK, DiskMoves, ignored' \in SUBSET Paths, UNCHANGED <<hearth, db, work, writer>>,
         Disturb
  PROVE  StoreOK' /\ RunsOK'
<1>1. StoreOK'
  BY StoreKept DEF StoreOK
<1>2. Outdated(db)' \subseteq Outdated(db)
  BY OutdatedShrinks DEF Indexed
<1>3. ASSUME NEW j \in Indexers
      PROVE  run'[j] \in Runs /\ RunOK(j)'
  <2>1. run'[j] \in Runs /\ Alike(run'[j], run[j]) /\ RunOK(j)
    BY QuietAlike DEF Disturb, RunsOK
  <2> QED
    BY <1>2, <2>1, RunKept
<1>4. run' \in [Indexers -> Runs]
  BY <1>3 DEF Disturb
<1> QED
  BY <1>1, <1>3, <1>4 DEF RunsOK

LEMMA EnvironmentKeeps ==
  ASSUME StoreOK, RunsOK, Environment
  PROVE  StoreOK' /\ RunsOK'
<1>1. ASSUME NEW p \in Paths, NEW t \in Texts, Save(p, t)
      PROVE  StoreOK' /\ RunsOK'
  <2>1. /\ clock < MaxStamp /\ clock' = clock + 1 /\ disk' = [disk EXCEPT ![p] = [text |-> t, stamp |-> clock + 1]]
        /\ Disturb /\ UNCHANGED <<ignored, hearth, db, work, writer>>
    BY <1>1 DEF Save, store
  <2>2. clock \in Nat /\ clock' \in 0 .. MaxStamp /\ MaxStamp \in Nat
    BY <2>1, IndexerAssumption DEF StoreOK
  <2>3. [text |-> t, stamp |-> clock + 1] \in File
    BY <2>2 DEF File
  <2>4. \A q \in Paths : disk'[q] = IF q = p THEN [text |-> t, stamp |-> clock + 1] ELSE disk[q]
    BY <2>1 DEF StoreOK
  <2>5. disk' \in [Paths -> File \cup {Absent}]
    BY <2>1, <2>3 DEF StoreOK
  <2>6. DiskMoves
    BY <2>1, <2>2, <2>4, <2>5 DEF DiskMoves
  <2> QED
    BY <2>1, <2>6, WorldKeeps DEF StoreOK
<1>2. ASSUME NEW p \in Paths, Remove(p)
      PROVE  StoreOK' /\ RunsOK'
  <2>1. disk' = [disk EXCEPT ![p] = Absent] /\ Disturb /\ UNCHANGED <<clock, ignored, hearth, db, work, writer>>
    BY <1>2 DEF Remove, store
  <2>2. DiskMoves
    BY <2>1 DEF DiskMoves, StoreOK
  <2> QED
    BY <2>1, <2>2, WorldKeeps DEF StoreOK
<1>3. ASSUME NEW p \in Paths, ChangeIgnored(p)
      PROVE  StoreOK' /\ RunsOK'
  <2>1. Disturb /\ UNCHANGED <<disk, clock, hearth, db, work, writer>> /\ ignored' \in SUBSET Paths
    BY <1>3 DEF ChangeIgnored, store, StoreOK
  <2>2. DiskMoves
    BY <2>1 DEF DiskMoves, StoreOK
  <2> QED
    BY <2>1, <2>2, WorldKeeps
<1>4. CASE Upgrade
  <2>1. /\ \A j \in Indexers : run[j].pc = "idle"
        /\ UNCHANGED <<disk, ignored, clock, db, work, writer, run>>
    BY <1>4 DEF Upgrade, store
  <2>2. hearth' \in [logic : 1 .. MaxLogic, grammar : BOOLEAN] /\ hearth'.logic >= hearth.logic
        /\ hearth.logic \in Nat /\ hearth'.logic \in Nat
    <3>1. hearth \in [logic : 1 .. MaxLogic, grammar : BOOLEAN] /\ MaxLogic \in Nat
      BY IndexerAssumption DEF StoreOK
    <3>2. CASE hearth.logic < MaxLogic /\ hearth' = [hearth EXCEPT !.logic = @ + 1]
      <4>1. hearth.logic + 1 \in 1 .. MaxLogic
        BY <3>1, <3>2
      <4>2. hearth' = [logic |-> hearth.logic + 1, grammar |-> hearth.grammar]
        BY <3>1, <3>2
      <4> QED
        BY <3>1, <4>1, <4>2
    <3>3. CASE hearth' = [hearth EXCEPT !.grammar = TRUE]
      <4>1. hearth' = [logic |-> hearth.logic, grammar |-> TRUE] /\ hearth.logic \in 1 .. MaxLogic
        BY <3>1, <3>3
      <4> QED
        BY <3>1, <4>1
    <3> QED
      BY <1>4, <3>2, <3>3 DEF Upgrade
  <2>3. writer = Nobody
    BY <2>1 DEF StoreOK, RunsOK, RunOK
  <2>4. /\ Present' = Present /\ Indexed(db)' = Indexed(db) /\ Indexed(work)' = Indexed(work)
        /\ Mirrored(db)' /\ Mirrored(work)'
    BY <2>1 DEF Present, Indexed, StoreOK, Mirrored
  <2>5. /\ \A p \in Indexed(db)' : db'.files[p].stamp <= clock' /\ Truthful(p, db.files[p])'
        /\ \A p \in Indexed(work)' : work'.files[p].stamp <= clock' /\ Truthful(p, work.files[p])'
    BY <2>1, <2>4 DEF StoreOK, Truthful
  <2>6. db.version \in Nat /\ work.version \in Nat /\ db.version <= hearth.logic /\ work.version <= hearth.logic
    BY DEF StoreOK, Database
  <2>7. db'.version = hearth'.logic => Outdated(db)' = {}
    <3>1. ASSUME db'.version = hearth'.logic
          PROVE  hearth'.logic = hearth.logic
      BY <2>1, <2>2, <2>6, <3>1
    <3> QED
      BY <2>1, <2>4, <3>1 DEF StoreOK, Outdated
  <2>8. db'.version <= hearth'.logic /\ work'.version <= hearth'.logic
    BY <2>1, <2>2, <2>6
  <2>9. StoreOK'
    BY <2>1, <2>2, <2>3, <2>4, <2>5, <2>7, <2>8 DEF StoreOK
  <2>10. ASSUME NEW j \in Indexers
         PROVE  RunOK(j)'
    BY <2>1, IndexerAssumption DEF RunsOK, RunOK, Seen
  <2> QED
    BY <2>1, <2>9, <2>10 DEF RunsOK
<1> QED
  BY <1>1, <1>2, <1>3, <1>4 DEF Environment

-----------------------------------------------------------------------------
(* The theorems. *)

LEMMA InitIndex == Init => IndexInv
<1> SUFFICES ASSUME Init PROVE IndexInv
  OBVIOUS
<1>1. disk \in [Paths -> File \cup {Absent}] /\ \A p \in Present : disk[p].stamp = 0
  BY DEF Init, File, Present
<1>2. Indexed(EmptyDatabase) = {} /\ Outdated(EmptyDatabase) = {} /\ EmptyDatabase.version = 0
  BY DEF Indexed, EmptyDatabase, Outdated
<1>3. StoreOK
  BY <1>1, <1>2, EmptyMirrored, IndexerAssumption DEF Init, StoreOK
<1>4. ASSUME NEW i \in Indexers
      PROVE  RunOK(i)
  <2>1. run[i] = Idle /\ Seen(i) = {} /\ writer # i
    BY IdleRun, IndexerAssumption DEF Init, Seen
  <2> QED
    BY <2>1, IdleRun DEF RunOK
<1>5. RunsOK
  BY <1>4, IdleRun DEF RunsOK, Init
<1> QED
  BY <1>3, <1>5, InvTogether

LEMMA NextIndex == IndexInv /\ [Next]_vars => IndexInv'
<1> SUFFICES ASSUME IndexInv, [Next]_vars PROVE StoreOK' /\ RunsOK'
  <2>1. StoreOK' /\ RunsOK' => IndexInv'
    BY InvTogether, PTL
  <2> QED
    BY <2>1
<1>1. StoreOK /\ RunsOK
  BY InvApart
<1>2. ASSUME NEW i \in Indexers, Step(i)
      PROVE  StoreOK' /\ RunsOK'
  <2>1. CASE \/ Scan(i) \/ \E events \in SUBSET Paths : WatchBatch(i, events)
             \/ \E p \in Paths : RefreshOne(i, p)
    BY <1>1, <2>1, ListingKeeps
  <2>2. CASE Rebuild(i)
    BY <1>1, <2>2, RebuildKeeps
  <2>3. CASE Detect(i)
    BY <1>1, <2>3, DetectKeeps
  <2>4. CASE RemoveDeleted(i)
    BY <1>1, <2>4, RemoveDeletedKeeps
  <2>5. CASE \E p \in Paths : ForgetOne(i, p)
    BY <1>1, <2>5, ForgetOneKeeps
  <2>6. CASE \E p \in Paths : ReadFile(i, p)
    BY <1>1, <2>6, ReadKeeps
  <2>7. CASE \E payload \in run[i].batch : WriteFile(i, payload)
    BY <1>1, <2>7, WriteFileKeeps
  <2>8. CASE Commit(i)
    BY <1>1, <2>8, CommitKeeps
  <2>9. CASE Finish(i)
    BY <1>1, <2>9, FinishKeeps
  <2>10. CASE Crash(i)
    BY <1>1, <2>10, CrashKeeps
  <2> QED
    BY <1>2, <2>1, <2>2, <2>3, <2>4, <2>5, <2>6, <2>7, <2>8, <2>9, <2>10 DEF Step
<1>3. CASE Environment
  BY <1>1, <1>3, EnvironmentKeeps
<1>4. CASE UNCHANGED vars
  <2>1. UNCHANGED <<disk, ignored, clock, hearth, db, work, writer, run>>
    BY <1>4 DEF vars, world, store
  <2>2. StoreOK'
    BY <1>1, <2>1 DEF StoreOK, Mirrored, Present, Indexed, Truthful, Outdated
  <2>3. RunsOK'
    BY <1>1, <2>1 DEF RunsOK, RunOK, Seen, Truthful, Present, Outdated, Indexed, Awaited, Written
  <2> QED
    BY <2>2, <2>3
<1> QED
  BY <1>2, <1>3, <1>4 DEF Next

(* What the rows, the transactions and the runs keep to, in every state.   *)
THEOREM IndexTheorem == Spec => []IndexInv
BY InitIndex, NextIndex, PTL DEF Spec

(* The search tables mirror the chunks after any interleaving of runs,     *)
(* commits and crashes (index_repo.py, delete_files and replace_file).     *)
THEOREM FtsTheorem == Spec => []FtsMirrorsChunks
<1>1. IndexInv => FtsMirrorsChunks
  BY DEF IndexInv, FtsMirrorsChunks
<1> QED
  BY <1>1, IndexTheorem, PTL

(* A row that is stale can be told from its stamp, whatever was saved      *)
(* between the look at the stamp and the reading of the bytes, and         *)
(* whichever runs were killed (change_detector.py, pipeline.py run).       *)
THEOREM StaleTheorem == Spec => []StaleIsDetectable
<1>1. IndexInv => StaleIsDetectable
  BY InvApart DEF StoreOK, StaleIsDetectable, Outdated, Truthful
<1> QED
  BY <1>1, IndexTheorem, PTL

-----------------------------------------------------------------------------
(* Runs that do not act keep their part of SyncInv. *)

LEMMA Startled ==
  ASSUME NEW j \in Indexers, run[j] \in Runs, RunInStep(j), hearth' = hearth,
         run'[j] = [run[j] EXCEPT !.quiet = FALSE]
  PROVE  RunInStep(j)'
<1>1. /\ run'[j].gone = run[j].gone /\ run'[j].wanted = run[j].wanted /\ run'[j].seen = run[j].seen
      /\ run'[j].batch = run[j].batch /\ run'[j].quiet = FALSE
  BY DEF Runs
<1>2. Seen(j)' = Seen(j)
  BY <1>1 DEF Seen
<1>3. \A b \in run'[j].batch : StatusLasts(b.path, b.row)'
  BY <1>1 DEF RunInStep, StatusLasts, Parseable
<1> QED
  BY <1>1, <1>2, <1>3 DEF RunInStep

LEMMA StillIdle ==
  ASSUME NEW j \in Indexers, RunOK(j), RunInStep(j), run[j].pc = "idle", run'[j] = run[j]
  PROVE  RunInStep(j)'
<1>1. Seen(j)' = Seen(j) /\ run'[j].batch = {}
  BY DEF Seen, RunOK
<1> QED
  BY <1>1 DEF RunInStep

LEMMA Unaffected ==
  ASSUME NEW j \in Indexers, RunInStep(j), UNCHANGED world, run'[j] = run[j],
         Base(j)'.files = Base(j).files
  PROVE  RunInStep(j)'
<1>1. Listed' = Listed /\ StampsOf(Listed)' = StampsOf(Listed) /\ Seen(j)' = Seen(j)
  BY DEF Listed, Present, StampsOf, Seen, world
<1>2. disk' = disk /\ hearth' = hearth
  BY DEF world
<1>3. Progress(j) => Progress(j)'
  BY <1>1, <1>2 DEF Progress, Tells, StatusOf, Parseable
<1>4. Undisturbed(j) => Undisturbed(j)'
  BY <1>1, <1>2, <1>3 DEF Undisturbed, Tells, StatusOf, Parseable
<1>5. \A b \in run'[j].batch : StatusLasts(b.path, b.row)'
  BY <1>2 DEF RunInStep, StatusLasts, Parseable
<1> QED
  BY <1>1, <1>4, <1>5 DEF RunInStep

LEMMA Bystander ==
  ASSUME NEW j \in Indexers, run[j] \in Runs, RunInStep(j), UNCHANGED world,
         \/ run'[j] = run[j] /\ Base(j)'.files = Base(j).files
         \/ run'[j] = [run[j] EXCEPT !.quiet = FALSE]
  PROVE  RunInStep(j)'
BY Startled, Unaffected DEF world

RowsLast ==
    /\ \A p \in Indexed(db) : StatusLasts(p, db.files[p])
    /\ \A p \in Indexed(work) : StatusLasts(p, work.files[p])

LEMMA OneActs ==
  ASSUME RunsOK, SyncInv, UNCHANGED world, NEW i \in Indexers, RunInStep(i)', RowsLast',
         \A j \in Indexers \ {i} :
             \/ run'[j] = run[j] /\ Base(j)'.files = Base(j).files
             \/ run'[j] = [run[j] EXCEPT !.quiet = FALSE]
  PROVE  SyncInv'
<1>1. \A j \in Indexers \ {i} : RunInStep(j)'
  <2>1. \A j \in Indexers : run[j] \in Runs /\ RunInStep(j)
    BY DEF RunsOK, SyncInv
  <2> QED
    BY <2>1, Bystander
<1> QED
  BY <1>1 DEF SyncInv, RowsLast

LEMMA RowsKept ==
  ASSUME SyncInv, UNCHANGED <<world, store>>
  PROVE  RowsLast'
BY DEF SyncInv, RowsLast, StatusLasts, Parseable, Indexed, world, store

(* A run that stops, or has not begun, has nothing to keep. *)
LEMMA IdleInStep ==
  ASSUME NEW i \in Indexers, run'[i] = Idle
  PROVE  RunInStep(i)'
BY IdleRun DEF RunInStep, Undisturbed

-----------------------------------------------------------------------------
(* Looking at the files. *)

LEMMA ListingInStep ==
  ASSUME StoreOK, RunsOK, SyncInv, NEW i \in Indexers,
         \/ Scan(i) \/ \E events \in SUBSET Paths : WatchBatch(i, events)
         \/ \E p \in Paths : RefreshOne(i, p)
  PROVE  SyncInv'
<1> USE DEF RunsOK
<1>1. UNCHANGED <<world, store>> /\ \A j \in Indexers \ {i} : run'[j] = run[j]
  BY DEF Scan, WatchBatch, RefreshOne, Start
<1>2. \A j \in Indexers \ {i} : run'[j] = run[j] /\ Base(j)'.files = Base(j).files
  BY <1>1 DEF Base, store
<1>3. run'[i].gone = {} /\ run'[i].batch = {}
  <2>1. CASE Scan(i)
    BY <2>1 DEF Scan, Start, Idle
  <2>2. CASE \E events \in SUBSET Paths : WatchBatch(i, events)
    <3>1. PICK events \in SUBSET Paths : WatchBatch(i, events)
      BY <2>2
    <3> DEFINE seen == StampsOf(events \cap Present)
               fresh == InSync /\ db.version = hearth.logic
               r == [Idle EXCEPT !.pc = "detect", !.kind = "paths", !.wanted = events,
                                 !.seen = seen, !.quiet = TRUE, !.fresh = fresh]
    <3>2. run' = [run EXCEPT ![i] = r]
      BY <3>1 DEF WatchBatch, Start
    <3> HIDE DEF seen, fresh
    <3>3. r.gone = {} /\ r.batch = {}
      BY DEF Idle
    <3> HIDE DEF r
    <3> QED
      BY <3>2, <3>3 DEF RunsOK
  <2>3. CASE \E p \in Paths : RefreshOne(i, p)
    BY <2>3 DEF RefreshOne, Idle
  <2> QED
    BY <2>1, <2>2, <2>3
<1>4. CASE Scan(i)
  <2>1. run'[i].pc = "detect" /\ run'[i].seen = StampsOf(Listed)
    BY <1>4 DEF Scan, Start, Idle
  <2>2. StampsOf(Listed)' = StampsOf(Listed)
    BY <1>1 DEF StampsOf, Listed, Present, world
  <2> QED
    BY <1>3, <2>1, <2>2, <1>1, <1>2, OneActs, RowsKept DEF RunInStep, Undisturbed
<1>5. CASE \E events \in SUBSET Paths : WatchBatch(i, events)
  <2>1. run'[i].kind = "paths"
    BY <1>5 DEF WatchBatch, Start, Idle
  <2> QED
    BY <1>3, <2>1, <1>1, <1>2, OneActs, RowsKept DEF RunInStep
<1>6. CASE \E p \in Paths : RefreshOne(i, p)
  <2>1. run'[i].kind = "one"
    BY <1>6 DEF RefreshOne, Idle
  <2> QED
    BY <1>3, <2>1, <1>1, <1>2, OneActs, RowsKept DEF RunInStep
<1> QED
  BY <1>4, <1>5, <1>6

(* What change detection leaves out is in step already: the stamp tells    *)
(* the bytes, and a row that was skipped is rechecked once it could be     *)
(* parsed.                                                                 *)
LEMMA UnchangedTells ==
  ASSUME StoreOK, SyncInv, NEW i \in Indexers, run[i].kind = "full", run[i].seen = StampsOf(Listed),
         NEW p \in Listed, ~Changed(i, p)
  PROVE  Tells(db.files[p], p)
<1>1. p \in Paths /\ p \in Present
  BY DEF Listed, Present
<1>2. run[i].seen[p] = disk[p].stamp
  BY <1>1 DEF StampsOf
<1>3. p \in Indexed(db) /\ db.files[p] \in FileRow
  BY <1>1 DEF Changed, Indexed, StoreOK, Database
<1>4. db.files[p].text = disk[p].text
  <2>1. db.files[p].stamp = disk[p].stamp \/ disk[p].text = db.files[p].text
    BY <1>1, <1>2 DEF Changed, Present
  <2>2. Truthful(p, db.files[p])
    BY <1>3 DEF StoreOK
  <2> QED
    BY <1>1, <2>1, <2>2 DEF Truthful
<1>5. db.files[p].status = StatusOf(p, disk[p].text)
  <2>1. db.files[p].status \in {"ok", "skipped"}
    BY <1>3 DEF FileRow
  <2>2. CASE db.files[p].status = "ok"
    <3>1. db.files[p].text \notin Generated /\ Parseable(p)
      BY <1>3, <2>2 DEF SyncInv, StatusLasts
    <3> QED
      BY <1>4, <2>2, <3>1 DEF StatusOf
  <2>3. CASE db.files[p].status = "skipped"
    <3>1. ~Parseable(p)
      BY <1>3, <2>3 DEF Changed, Recheck
    <3> QED
      BY <2>3, <3>1 DEF StatusOf
  <2> QED
    BY <2>1, <2>2, <2>3
<1> QED
  BY <1>3, <1>4, <1>5 DEF Tells, Indexed

LEMMA DetectInStep ==
  ASSUME StoreOK, RunsOK, SyncInv, NEW i \in Indexers, Detect(i)
  PROVE  SyncInv'
<1> DEFINE gone == (Indexed(db) \cap run[i].wanted) \ Seen(i)
           todo == {p \in Seen(i) : Changed(i, p)}
           pc == IF gone = {} THEN "build" ELSE "delete"
<1>1. /\ run' = [run EXCEPT ![i].todo = todo, ![i].gone = gone, ![i].pc = pc]
      /\ run[i].pc = "detect" /\ UNCHANGED <<world, store>>
  BY DEF Detect
<1>2. run[i] \in Runs /\ RunOK(i) /\ RunInStep(i) /\ run \in [Indexers -> Runs]
  BY DEF RunsOK, SyncInv
<1>3. /\ run'[i].todo = todo /\ run'[i].gone = gone /\ run'[i].kind = run[i].kind
      /\ run'[i].seen = run[i].seen /\ run'[i].batch = run[i].batch
      /\ run'[i].wanted = run[i].wanted /\ run'[i].quiet = run[i].quiet
      /\ \A j \in Indexers \ {i} : run'[j] = run[j]
  <2> HIDE DEF todo, gone, pc
  <2>1. run'[i] = [run[i] EXCEPT !.todo = todo, !.gone = gone, !.pc = pc]
    BY <1>1, <1>2
  <2> QED
    BY <1>1, <1>2, <2>1 DEF Runs
<1>4. Seen(i)' = Seen(i) /\ Listed' = Listed /\ StampsOf(Listed)' = StampsOf(Listed)
  BY <1>1, <1>3 DEF Seen, Listed, Present, StampsOf, world
<1>5. \A b \in run'[i].batch : StatusLasts(b.path, b.row)'
  BY <1>1, <1>2, <1>3 DEF RunInStep, StatusLasts, Parseable, world
<1>6. ASSUME run[i].quiet, run[i].kind = "full"
      PROVE  Undisturbed(i)'
  <2>1. run[i].seen = StampsOf(Listed) /\ \A b \in run[i].batch : b.path \in Listed /\ Tells(b.row, b.path)
    BY <1>1, <1>2, <1>6 DEF RunInStep, Undisturbed
  <2>2. Seen(i) = Listed
    BY <2>1, StampsType DEF Seen, Listed, Present
  <2>3. \A b \in run'[i].batch : b.path \in Listed' /\ Tells(b.row, b.path)'
    BY <1>1, <1>3, <1>4, <2>1 DEF Tells, StatusOf, Parseable, world
  <2>4. Base(i) = db /\ Base(i)' = db
    BY <1>1, <1>2 DEF RunOK, Base, store
  <2>5. ASSUME NEW p \in Listed, p \notin todo
        PROVE  Tells(Base(i).files[p], p)'
    <3>1. Tells(db.files[p], p)
      BY <1>6, <2>1, <2>2, <2>5, UnchangedTells
    <3> QED
      BY <1>1, <2>4, <3>1 DEF Tells, StatusOf, Parseable, world
  <2>6. ASSUME NEW p \in Paths \ Listed
        PROVE  Base(i)'.files[p] = NoRow \/ p \in gone
    BY <1>1, <1>2, <1>6, <2>2, <2>4 DEF Indexed, RunOK
  <2>7. Progress(i)'
    BY <1>3, <1>4, <2>5, <2>6 DEF Progress
  <2> QED
    BY <1>3, <1>4, <2>1, <2>3, <2>7 DEF Undisturbed
<1>7. RunInStep(i)'
  BY <1>3, <1>4, <1>5, <1>6 DEF RunInStep
<1> QED
  BY <1>1, <1>3, <1>7, OneActs, RowsKept DEF Base, store

LEMMA RowKnown ==
  ASSUME StoreOK, RunsOK, NEW i \in Indexers, NEW p \in run[i].todo, p \in Present
  PROVE  RowFor(i, p) # NoRow
<1>1. run[i].seen[p] \in Nat
  BY DEF RunsOK, RunOK, Runs, Seen
<1>2. disk[p].text \in Texts /\ hearth.logic \in Nat
  BY DEF StoreOK, Present, File
<1>3. RowFor(i, p) \in FileRow
  BY <1>1, <1>2 DEF RowFor, FileRow, StatusOf
<1> QED
  BY <1>3, RowAssumption DEF FileRow

(* A file that was read tells what it is; one that yields nothing is binary. *)
LEMMA ReadInStep ==
  ASSUME StoreOK, RunsOK, SyncInv, NEW i \in Indexers, NEW p \in Paths, ReadFile(i, p)
  PROVE  SyncInv'
<1> DEFINE usable == p \in Present /\ disk[p].text \notin Binary
           load == [path |-> p, row |-> RowFor(i, p)]
           todo == run[i].todo \ {p}
           batch == IF usable THEN run[i].batch \cup {load} ELSE run[i].batch
           parsed == IF usable /\ StatusOf(p, disk[p].text) = "ok" THEN run[i].parsed \cup {p}
                     ELSE run[i].parsed
<1>1. /\ run' = [run EXCEPT ![i].todo = todo, ![i].batch = batch, ![i].parsed = parsed]
      /\ run[i].pc = "build" /\ writer # i /\ p \in run[i].todo /\ UNCHANGED <<world, store>>
  BY DEF ReadFile
<1>2. run[i] \in Runs /\ RunOK(i) /\ RunInStep(i) /\ run \in [Indexers -> Runs]
  BY DEF RunsOK, SyncInv
<1>3. /\ run'[i].pc = "build" /\ run'[i].todo = todo /\ run'[i].gone = run[i].gone
      /\ run'[i].kind = run[i].kind /\ run'[i].seen = run[i].seen /\ run'[i].batch = batch
      /\ run'[i].wanted = run[i].wanted /\ run'[i].quiet = run[i].quiet
      /\ \A j \in Indexers \ {i} : run'[j] = run[j]
  <2> HIDE DEF todo, batch, parsed
  <2>1. run'[i] = [run[i] EXCEPT !.todo = todo, !.batch = batch, !.parsed = parsed]
    BY <1>1, <1>2
  <2> QED
    BY <1>1, <1>2, <2>1 DEF Runs
<1>4. Seen(i)' = Seen(i) /\ Listed' = Listed /\ StampsOf(Listed)' = StampsOf(Listed)
      /\ disk' = disk /\ hearth' = hearth
  BY <1>1, <1>3 DEF Seen, Listed, Present, StampsOf, world
<1>5. load.path = p /\ (usable => Tells(load.row, p) /\ StatusLasts(p, load.row))
  <2>1. load.row.text = disk[p].text /\ load.row.status = StatusOf(p, disk[p].text)
    BY DEF RowFor
  <2>2. usable => load.row # NoRow
    BY <1>1, RowKnown
  <2> QED
    BY <2>1, <2>2 DEF Tells, StatusLasts, StatusOf
<1> HIDE DEF load
<1>6. \A b \in run'[i].batch : StatusLasts(b.path, b.row)'
  BY <1>2, <1>3, <1>4, <1>5 DEF RunInStep, StatusLasts, Parseable
<1>7. ASSUME run[i].quiet, run[i].kind = "full"
      PROVE  Undisturbed(i)'
  <2>1. Undisturbed(i) /\ Progress(i)
    BY <1>1, <1>2, <1>7 DEF RunInStep, Undisturbed
  <2>2. p \in Listed
    BY <1>1, <1>2, <2>1, StampsType DEF RunOK, Seen, Undisturbed, Listed
  <2>3. \A b \in run'[i].batch : b.path \in Listed' /\ Tells(b.row, b.path)'
    BY <1>3, <1>4, <1>5, <2>1, <2>2 DEF Undisturbed, Tells, StatusOf, Parseable
  <2>4. Base(i)' = Base(i)
    BY <1>1 DEF Base, store
  <2>5. ASSUME NEW q \in Listed, q \notin run'[i].todo \cup {b.path : b \in run'[i].batch},
               disk[q].text \notin Binary
        PROVE  Tells(Base(i).files[q], q)
    <3>1. q # p
      BY <1>3, <1>5, <2>2, <2>5 DEF Listed
    <3>2. q \notin run[i].todo \cup {b.path : b \in run[i].batch}
      BY <1>3, <2>5, <3>1
    <3> QED
      BY <2>1, <2>5, <3>2 DEF Progress
  <2>6. Progress(i)'
    BY <1>3, <1>4, <2>1, <2>4, <2>5 DEF Progress, Tells, StatusOf, Parseable
  <2> QED
    BY <1>3, <1>4, <2>1, <2>3, <2>6 DEF Undisturbed
<1>8. RunInStep(i)'
  BY <1>2, <1>3, <1>4, <1>6, <1>7 DEF RunInStep
<1> QED
  BY <1>1, <1>3, <1>8, OneActs, RowsKept DEF Base, store

-----------------------------------------------------------------------------
(* Writing. *)

LEMMA WriteInStep ==
  ASSUME StoreOK, RunsOK, SyncInv, NEW i \in Indexers, NEW load \in run[i].batch, WriteFile(i, load)
  PROVE  SyncInv'
<1> DEFINE path == load.path
           row == load.row
<1>1. /\ run[i].pc = "build" /\ (writer = i \/ writer = Nobody)
      /\ Fits(DeleteFiles(Base(i), {path}), row.text) /\ work' = ReplaceFile(Base(i), path, row)
      /\ writer' = i /\ run' = [run EXCEPT ![i].batch = @ \ {load}]
      /\ UNCHANGED <<disk, ignored, clock, hearth, db>>
  BY DEF WriteFile, Base, world
<1>2. run[i] \in Runs /\ RunOK(i) /\ RunInStep(i) /\ run \in [Indexers -> Runs]
  BY DEF RunsOK, SyncInv
<1>3. path \in Paths /\ row \in FileRow
  BY <1>2 DEF Runs, Payload
<1>4. /\ Base(i) \in Database /\ Mirrored(Base(i))
      /\ \A p \in Indexed(Base(i)) : StatusLasts(p, Base(i).files[p])
  BY DEF StoreOK, SyncInv, Base
<1>5. \A p \in Paths : work'.files[p] = IF p = path THEN row ELSE Base(i).files[p]
  BY <1>1, <1>3, <1>4, ReplaceKeeps
<1>6. /\ run'[i].batch = run[i].batch \ {load} /\ run'[i].todo = run[i].todo
      /\ run'[i].gone = run[i].gone /\ run'[i].wanted = run[i].wanted /\ run'[i].seen = run[i].seen
      /\ run'[i].pc = run[i].pc /\ run'[i].kind = run[i].kind /\ run'[i].quiet = run[i].quiet
      /\ \A j \in Indexers \ {i} : run'[j] = run[j]
  <2>1. run'[i] = [run[i] EXCEPT !.batch = @ \ {load}]
    BY <1>1, <1>2
  <2> QED
    BY <1>1, <1>2, <2>1 DEF Runs
<1>7. Seen(i)' = Seen(i) /\ Listed' = Listed /\ StampsOf(Listed)' = StampsOf(Listed)
  BY <1>1, <1>6 DEF Seen, Listed, Present, StampsOf
<1>8. Base(i)' = work'
  BY <1>1 DEF Base
<1>9. StatusLasts(path, row)
  BY <1>2 DEF RunInStep
<1>10. RowsLast'
  <2>1. \A p \in Indexed(db)' : StatusLasts(p, db.files[p])'
    BY <1>1 DEF SyncInv, Indexed, StatusLasts, Parseable
  <2>2. \A p \in Indexed(work)' : StatusLasts(p, work.files[p])'
    BY <1>1, <1>4, <1>5, <1>9 DEF Indexed, StatusLasts, Parseable
  <2> QED
    BY <2>1, <2>2 DEF RowsLast
<1>11. \A j \in Indexers \ {i} : Base(j)' = Base(j)
  BY <1>1, IndexerAssumption DEF Base
<1>12. ASSUME run[i].quiet, run[i].kind = "full"
       PROVE  Undisturbed(i)'
  <2>1. Undisturbed(i) /\ Progress(i) /\ path \in Listed /\ Tells(row, path)
    BY <1>1, <1>2, <1>12 DEF RunInStep, Undisturbed
  <2>2. \A b \in run'[i].batch : b.path \in Listed' /\ Tells(b.row, b.path)'
    BY <1>1, <1>6, <1>7, <2>1 DEF Undisturbed, Tells, StatusOf, Parseable
  <2>3. ASSUME NEW q \in Listed, q \notin run'[i].todo \cup {b.path : b \in run'[i].batch},
               disk[q].text \notin Binary
        PROVE  Tells(work'.files[q], q)
    <3>1. CASE q = path
      BY <1>3, <1>5, <2>1, <3>1
    <3>2. CASE q # path
      <4>1. q \notin run[i].todo \cup {b.path : b \in run[i].batch} /\ q \in Paths
        BY <1>6, <2>3, <3>2 DEF Listed, Present
      <4>2. Tells(Base(i).files[q], q)
        BY <2>1, <2>3, <4>1 DEF Progress
      <4> QED
        BY <1>5, <3>2, <4>1, <4>2
    <3> QED
      BY <3>1, <3>2
  <2>4. ASSUME NEW q \in Paths \ Listed
        PROVE  work'.files[q] = NoRow \/ q \in run'[i].gone
    BY <1>5, <1>6, <2>1 DEF Progress
  <2>5. Progress(i)'
    BY <1>1, <1>7, <1>8, <2>3, <2>4 DEF Progress, Tells, StatusOf, Parseable
  <2> QED
    BY <1>6, <1>7, <2>1, <2>2, <2>5 DEF Undisturbed
<1>13. \A b \in run'[i].batch : StatusLasts(b.path, b.row)'
  BY <1>1, <1>2, <1>6 DEF RunInStep, StatusLasts, Parseable
<1>14. RunInStep(i)'
  BY <1>2, <1>6, <1>7, <1>12, <1>13 DEF RunInStep
<1> QED
  BY <1>1, <1>6, <1>10, <1>11, <1>14, OneActs DEF world

LEMMA CommitInStep ==
  ASSUME StoreOK, RunsOK, SyncInv, NEW i \in Indexers, Commit(i)
  PROVE  SyncInv'
<1>1. /\ writer = i /\ db' = work /\ work' = EmptyDatabase /\ writer' = Nobody /\ run' = Others(i)
      /\ UNCHANGED world
  BY DEF Commit
<1>2. run'[i] = run[i] /\ \A j \in Indexers \ {i} : run'[j] = [run[j] EXCEPT !.quiet = FALSE]
  BY <1>1 DEF Others
<1>3. Base(i)' = Base(i)
  BY <1>1, IndexerAssumption DEF Base
<1>4. RunInStep(i)'
  BY <1>1, <1>2, <1>3, Unaffected DEF SyncInv
<1>5. RowsLast'
  BY <1>1 DEF RowsLast, SyncInv, StatusLasts, Parseable, Indexed, EmptyDatabase, world
<1> QED
  BY <1>1, <1>2, <1>4, <1>5, OneActs

(* The rows removed are of files the run did not see, and it has seen all  *)
(* that are listed.                                                        *)
LEMMA RemoveInStep ==
  ASSUME StoreOK, RunsOK, SyncInv, NEW i \in Indexers, RemoveDeleted(i)
  PROVE  SyncInv'
<1>1. /\ run[i].pc = "delete" /\ writer = Nobody /\ db' = DeleteFiles(db, run[i].gone)
      /\ run' = [Others(i) EXCEPT ![i].gone = {}, ![i].pc = "build"]
      /\ UNCHANGED <<disk, ignored, clock, hearth, work, writer>>
  BY DEF RemoveDeleted, world
<1>2. run[i] \in Runs /\ RunOK(i) /\ RunInStep(i)
  BY DEF RunsOK, SyncInv
<1>3. \A p \in Paths : db'.files[p] = IF p \in run[i].gone THEN NoRow ELSE db.files[p]
  BY <1>1, DeleteKeeps DEF StoreOK
<1>4. \A j \in Indexers \ {i} : run'[j] = [run[j] EXCEPT !.quiet = FALSE]
  BY <1>1 DEF Others
<1>5. run'[i] = [run[i] EXCEPT !.gone = {}, !.pc = "build"]
  BY <1>1 DEF Others
<1>6. /\ run'[i].batch = run[i].batch /\ run'[i].todo = run[i].todo
      /\ run'[i].gone = {} /\ run'[i].seen = run[i].seen
      /\ run'[i].pc = "build" /\ run'[i].kind = run[i].kind /\ run'[i].quiet = run[i].quiet
  BY <1>2, <1>5 DEF Runs
<1>7. Listed' = Listed /\ StampsOf(Listed)' = StampsOf(Listed)
  BY <1>1 DEF Listed, Present, StampsOf
<1>8. Base(i) = db /\ Base(i)' = db'
  BY <1>1, IndexerAssumption DEF Base
<1>9. RowsLast'
  BY <1>1, <1>3 DEF RowsLast, SyncInv, StatusLasts, Parseable, Indexed
<1>10. ASSUME run[i].quiet, run[i].kind = "full"
       PROVE  Undisturbed(i)'
  <2>1. Undisturbed(i) /\ Progress(i)
    BY <1>1, <1>2, <1>10 DEF RunInStep, Undisturbed
  <2>2. Listed \subseteq Seen(i)
    BY <2>1, StampsType DEF Undisturbed, Seen, Listed, Present
  <2>3. \A p \in Listed : p \in Paths /\ db'.files[p] = db.files[p]
    BY <1>2, <1>3, <2>2 DEF RunInStep, Listed, Present
  <2>4. \A p \in Paths \ Listed : db'.files[p] = NoRow
    BY <1>3, <1>8, <2>1 DEF Progress
  <2>5. ASSUME NEW p \in Listed, p \notin run'[i].todo \cup {b.path : b \in run'[i].batch},
               disk[p].text \notin Binary
        PROVE  Tells(db'.files[p], p)
    BY <1>6, <1>8, <2>1, <2>3, <2>5 DEF Progress
  <2>6. Progress(i)'
    BY <1>1, <1>7, <1>8, <2>4, <2>5 DEF Progress, Tells, StatusOf, Parseable
  <2> QED
    BY <1>1, <1>6, <1>7, <2>1, <2>6 DEF Undisturbed, Tells, StatusOf, Parseable
<1>11. \A b \in run'[i].batch : StatusLasts(b.path, b.row)'
  BY <1>1, <1>2, <1>6 DEF RunInStep, StatusLasts, Parseable
<1>12. RunInStep(i)'
  BY <1>6, <1>10, <1>11 DEF RunInStep
<1> QED
  BY <1>1, <1>4, <1>9, <1>12, OneActs DEF world

LEMMA ForgetInStep ==
  ASSUME StoreOK, RunsOK, SyncInv, NEW i \in Indexers, NEW p \in Paths, ForgetOne(i, p)
  PROVE  SyncInv'
<1>1. /\ run[i].pc = "idle" /\ db' = DeleteFiles(db, {p}) /\ run' = Others(i)
      /\ UNCHANGED <<disk, ignored, clock, hearth, work, writer>>
  BY DEF ForgetOne, world
<1>2. run'[i] = run[i] /\ \A j \in Indexers \ {i} : run'[j] = [run[j] EXCEPT !.quiet = FALSE]
  BY <1>1 DEF Others
<1>3. RunInStep(i)'
  BY <1>1, <1>2, StillIdle DEF RunsOK, SyncInv
<1>4. \A q \in Paths : db'.files[q] = IF q \in {p} THEN NoRow ELSE db.files[q]
  BY <1>1, DeleteKeeps DEF StoreOK
<1>5. RowsLast'
  BY <1>1, <1>4 DEF RowsLast, SyncInv, StatusLasts, Parseable, Indexed
<1> QED
  BY <1>1, <1>2, <1>3, <1>5, OneActs DEF world

LEMMA FinishInStep ==
  ASSUME StoreOK, RunsOK, SyncInv, NEW i \in Indexers, Finish(i)
  PROVE  SyncInv'
<1>1. /\ db' = IF run[i].kind = "full" THEN [db EXCEPT !.version = hearth.logic] ELSE db
      /\ run' = [Others(i) EXCEPT ![i] = Idle]
      /\ UNCHANGED <<disk, ignored, clock, hearth, work, writer>>
  BY DEF Finish, world
<1>2. run'[i] = Idle /\ \A j \in Indexers \ {i} : run'[j] = [run[j] EXCEPT !.quiet = FALSE]
  BY <1>1 DEF Others
<1>3. db'.files = db.files
  BY <1>1 DEF StoreOK, Database
<1>4. RowsLast'
  BY <1>1, <1>3 DEF RowsLast, SyncInv, StatusLasts, Parseable, Indexed
<1> QED
  BY <1>1, <1>2, <1>4, IdleInStep, OneActs DEF world

LEMMA CrashInStep ==
  ASSUME StoreOK, RunsOK, SyncInv, NEW i \in Indexers, Crash(i)
  PROVE  SyncInv'
<1>1. /\ run' = [run EXCEPT ![i] = Idle] /\ UNCHANGED <<disk, ignored, clock, hearth, db>>
      /\ \/ writer = i /\ writer' = Nobody /\ work' = EmptyDatabase
         \/ writer # i /\ writer' = writer /\ work' = work
  BY DEF Crash, world
<1>2. run'[i] = Idle /\ \A j \in Indexers \ {i} : run'[j] = run[j]
  BY <1>1, IdleRun DEF RunsOK
<1>3. \A j \in Indexers \ {i} : Base(j)' = Base(j)
  BY <1>1, IndexerAssumption DEF Base
<1>4. RowsLast'
  BY <1>1 DEF RowsLast, SyncInv, StatusLasts, Parseable, Indexed, EmptyDatabase
<1> QED
  BY <1>1, <1>2, <1>3, <1>4, IdleInStep, OneActs DEF world

LEMMA RebuildInStep ==
  ASSUME StoreOK, RunsOK, SyncInv, NEW i \in Indexers, Rebuild(i)
  PROVE  SyncInv'
<1>1. /\ \A j \in Indexers : run[j].pc = "idle"
      /\ db' = EmptyDatabase
      /\ run' = [run EXCEPT ![i] = [Idle EXCEPT !.pc = "detect", !.wanted = Paths,
                                                !.seen = StampsOf(Listed), !.quiet = TRUE]]
      /\ UNCHANGED <<disk, ignored, clock, hearth, work, writer>>
  BY DEF Rebuild, world
<1>2. /\ run'[i].pc = "detect" /\ run'[i].gone = {} /\ run'[i].batch = {}
      /\ run'[i].seen = StampsOf(Listed)
      /\ \A j \in Indexers \ {i} : run'[j] = run[j]
  BY <1>1 DEF Idle, RunsOK
<1>3. StampsOf(Listed)' = StampsOf(Listed)
  BY <1>1 DEF Listed, Present, StampsOf
<1>4. RunInStep(i)'
  BY <1>2, <1>3 DEF RunInStep, Undisturbed
<1>5. \A j \in Indexers \ {i} : RunInStep(j)'
  BY <1>1, <1>2, StillIdle DEF RunsOK, SyncInv
<1>6. RowsLast'
  BY <1>1 DEF RowsLast, SyncInv, StatusLasts, Parseable, Indexed, EmptyDatabase
<1> QED
  BY <1>4, <1>5, <1>6 DEF SyncInv, RowsLast

-----------------------------------------------------------------------------
(* The world: it disturbs every run, or changes the program while none is  *)
(* under way.                                                              *)

LEMMA WorldInStep ==
  ASSUME StoreOK, RunsOK, SyncInv, Environment
  PROVE  SyncInv'
<1>1. CASE Disturb /\ UNCHANGED <<hearth, db, work, writer>>
  <2>1. \A j \in Indexers : RunInStep(j)'
    BY <1>1, Startled DEF Disturb, RunsOK, SyncInv
  <2>2. RowsLast'
    BY <1>1 DEF RowsLast, SyncInv, StatusLasts, Parseable, Indexed
  <2> QED
    BY <2>1, <2>2 DEF SyncInv, RowsLast
<1>2. CASE Upgrade
  <2>1. (\A j \in Indexers : run[j].pc = "idle") /\ run' = run /\ db' = db /\ work' = work
    BY <1>2 DEF Upgrade, store
  <2>2. \A j \in Indexers : RunInStep(j)'
    BY <2>1, StillIdle DEF RunsOK, SyncInv
  <2>3. \A p : Parseable(p) => Parseable(p)'
    <3>1. hearth.grammar => hearth'.grammar
      BY <1>2 DEF Upgrade, StoreOK
    <3> QED
      BY <3>1 DEF Parseable
  <2>4. RowsLast'
    BY <2>1, <2>3 DEF RowsLast, SyncInv, StatusLasts, Indexed
  <2> QED
    BY <2>2, <2>4 DEF SyncInv, RowsLast
<1> QED
  BY <1>1, <1>2 DEF Environment, Save, Remove, ChangeIgnored, store

-----------------------------------------------------------------------------
(* The theorems. *)

LEMMA InitSync == Init => SyncInv
BY IdleRun DEF Init, SyncInv, RunInStep, EmptyDatabase, Indexed

LEMMA NextSync == IndexInv /\ SyncInv /\ [Next]_vars => SyncInv'
<1> SUFFICES ASSUME IndexInv, SyncInv, [Next]_vars PROVE SyncInv'
  OBVIOUS
<1>1. StoreOK /\ RunsOK
  BY InvApart
<1>2. ASSUME NEW i \in Indexers, Step(i)
      PROVE  SyncInv'
  <2>1. CASE \/ Scan(i) \/ \E events \in SUBSET Paths : WatchBatch(i, events)
             \/ \E p \in Paths : RefreshOne(i, p)
    BY <1>1, <2>1, ListingInStep
  <2>2. CASE Rebuild(i)
    BY <1>1, <2>2, RebuildInStep
  <2>3. CASE Detect(i)
    BY <1>1, <2>3, DetectInStep
  <2>4. CASE RemoveDeleted(i)
    BY <1>1, <2>4, RemoveInStep
  <2>5. CASE \E p \in Paths : ForgetOne(i, p)
    BY <1>1, <2>5, ForgetInStep
  <2>6. CASE \E p \in Paths : ReadFile(i, p)
    BY <1>1, <2>6, ReadInStep
  <2>7. CASE \E payload \in run[i].batch : WriteFile(i, payload)
    BY <1>1, <2>7, WriteInStep
  <2>8. CASE Commit(i)
    BY <1>1, <2>8, CommitInStep
  <2>9. CASE Finish(i)
    BY <1>1, <2>9, FinishInStep
  <2>10. CASE Crash(i)
    BY <1>1, <2>10, CrashInStep
  <2> QED
    BY <1>2, <2>1, <2>2, <2>3, <2>4, <2>5, <2>6, <2>7, <2>8, <2>9, <2>10 DEF Step
<1>3. CASE Environment
  BY <1>1, <1>3, WorldInStep
<1>4. CASE UNCHANGED vars
  <2>1. UNCHANGED <<world, store>> /\ run' = run
    BY <1>4 DEF vars
  <2>2. \A j \in Indexers : RunInStep(j)'
    BY <2>1, Unaffected DEF SyncInv, Base, store
  <2> QED
    BY <2>1, <2>2, RowsKept DEF SyncInv, RowsLast
<1> QED
  BY <1>2, <1>3, <1>4 DEF Next

(* How far an undisturbed full run has come, in every state: what it has   *)
(* passed over, read or written is in step with the workspace.             *)
THEOREM SyncTheorem == Spec => []SyncInv
BY IndexTheorem, InitSync, NextSync, PTL DEF Spec

LEMMA FinishLeavesSync ==
  ASSUME StoreOK, RunsOK, SyncInv, NEW i \in Indexers, Finish(i), run[i].kind = "full", run[i].quiet
  PROVE  InSync'
<1>1. /\ run[i].pc = "build" /\ writer # i /\ run[i].todo = {} /\ run[i].batch = {}
      /\ db' = [db EXCEPT !.version = hearth.logic]
      /\ UNCHANGED <<disk, ignored, hearth>>
  BY DEF Finish, world
<1>2. Progress(i) /\ run[i].gone = {}
  BY <1>1 DEF RunsOK, RunOK, SyncInv, RunInStep, Undisturbed
<1>3. /\ \A p \in Listed : disk[p].text \notin Binary => Tells(db.files[p], p)
      /\ \A p \in Paths \ Listed : db.files[p] = NoRow
  BY <1>1, <1>2 DEF Progress, Base
<1>4. db'.files = db.files /\ Listed' = Listed
  BY <1>1 DEF StoreOK, Database, Listed, Present
<1> QED
  BY <1>1, <1>3, <1>4 DEF InSync, Tells, StatusOf, Parseable

(* A full run nobody disturbed leaves the index in step with the workspace *)
(* (pipeline.py run, change_detector.py), whatever ran or was killed       *)
(* before it.                                                              *)
THEOREM FinishedTheorem == Spec => FinishedRunInSync
<1>1. IndexInv /\ SyncInv /\ [Next]_vars =>
        [\A i \in Indexers : Finish(i) /\ run[i].kind = "full" /\ run[i].quiet => InSync']_vars
  BY InvApart, FinishLeavesSync
<1> QED
  BY <1>1, IndexTheorem, SyncTheorem, PTL DEF Spec, FinishedRunInSync

(* A batch of the watcher removes no row but those of its own paths that   *)
(* were not found (pipeline.py index_paths), whoever else writes meanwhile.*)
THEOREM BatchTheorem == Spec => BatchRemovesOnlyItsOwn
<1>1. ASSUME StoreOK, SyncInv, NEW i \in Indexers, RemoveDeleted(i)
      PROVE  Indexed(db) \ Indexed(db)' \subseteq run[i].wanted \ Seen(i)
  <2>1. \A p \in Paths : db'.files[p] = IF p \in run[i].gone THEN NoRow ELSE db.files[p]
    BY <1>1, DeleteKeeps DEF RemoveDeleted, StoreOK
  <2> QED
    BY <1>1, <2>1 DEF SyncInv, RunInStep, Indexed
<1>2. IndexInv /\ SyncInv /\ [Next]_vars =>
        [\A i \in Indexers : RemoveDeleted(i) /\ run[i].kind = "paths" =>
            Indexed(db) \ Indexed(db)' \subseteq run[i].wanted \ Seen(i)]_vars
  BY <1>1, InvApart
<1> QED
  BY <1>2, IndexTheorem, SyncTheorem, PTL DEF Spec, BatchRemovesOnlyItsOwn

=============================================================================
