------------------------------- MODULE Indexer -------------------------------
(***************************************************************************)
(* indexing/pipeline.py with its scanner and change detector, as run by    *)
(* several processes over one database: `hearth index`, the watcher's      *)
(* batches and the single-file refresh after a write.                      *)
(*                                                                         *)
(* A run looks at the files' stamps first and reads their bytes later, one *)
(* at a time, while an editor goes on saving; it commits batch by batch and*)
(* may be killed anywhere.  A stamp is a file's size and mtime: every save *)
(* gives a new one.                                                        *)
(***************************************************************************)
EXTENDS IndexStore

CONSTANTS
    Indexers,    \* the processes that may run the pipeline
    Absent,      \* no such file
    Nobody,      \* no transaction is open
    Volatile,    \* bound: the paths that are saved and removed on disk
    Ignorable,   \* bound: the paths an ignore file may name
    BatchSize,   \* files written in one transaction
    MaxStamp,    \* bound: how many times files are saved
    MaxLogic     \* bound: how many versions of the extraction logic there are

ASSUME IndexerAssumption ==
    /\ BatchSize \in Nat \ {0}
    /\ MaxStamp \in Nat /\ MaxLogic \in Nat \ {0}
    /\ Nobody \notin Indexers /\ Absent \notin Nat /\ Ignorable \subseteq Paths

VARIABLES
    disk,        \* path |-> the file's text and stamp, or Absent
    ignored,     \* paths the filter's layers exclude
    clock,       \* the last stamp given
    hearth,      \* the installed program: its extraction logic and grammars
    db,          \* the committed database
    work,        \* the copy an open transaction works on, empty when there is none
    writer,      \* who holds the write lock
    run          \* process |-> where its run is and what it has gathered

store == <<db, work, writer>>
world == <<disk, ignored, clock, hearth>>
vars == <<world, store, run>>

File == [text : Texts, stamp : Nat]

Idle ==
    [pc |-> "idle", kind |-> "full", wanted |-> {}, seen |-> [p \in Paths |-> Absent],
     gone |-> {}, todo |-> {}, batch |-> {}, parsed |-> {},
     quiet |-> FALSE, fresh |-> FALSE]

Init ==
    /\ disk \in [Paths -> {[text |-> t, stamp |-> 0] : t \in Texts} \cup {Absent}]
    /\ ignored = {}
    /\ clock = 0
    /\ hearth = [logic |-> 1, grammar |-> FALSE]
    /\ db = EmptyDatabase /\ work = EmptyDatabase /\ writer = Nobody
    /\ run = [i \in Indexers |-> Idle]

----------------------------------------------------------------------------
(* What a file becomes in the index. *)

Parseable(p) == p \notin Optional \/ hearth.grammar

\* The status of a row: generated files and files without a grammar are skipped.
StatusOf(p, t) == IF t \in Generated \/ ~Parseable(p) THEN "skipped" ELSE "ok"

Present == {p \in Paths : disk[p] # Absent}

\* What scan returns: files that exist and that the filter lets through.
Listed == Present \ ignored

StampsOf(ps) == [p \in Paths |-> IF p \in ps THEN disk[p].stamp ELSE Absent]

\* The files a run has seen.
Seen(i) == {p \in Paths : run[i].seen[p] # Absent}

\* The index says of every file what a run now would say.
InSync ==
    /\ \A p \in Listed :
         disk[p].text \notin Binary =>
            /\ db.files[p] # NoRow
            /\ db.files[p].text = disk[p].text
            /\ db.files[p].status = StatusOf(p, disk[p].text)
    /\ \A p \in Paths \ Listed : db.files[p] = NoRow

Start(i, kind, wanted, seen, pc) ==
    run' = [run EXCEPT ![i] = [Idle EXCEPT !.pc = pc, !.kind = kind, !.wanted = wanted,
                                           !.seen = seen, !.quiet = TRUE,
                                           !.fresh = InSync /\ db.version = hearth.logic]]

----------------------------------------------------------------------------
(* A full run. *)

\* `hearth index`: list the workspace, stat every file that passes the filter.
Scan(i) ==
    /\ run[i].pc = "idle"
    /\ Start(i, "full", Paths, StampsOf(Listed), "detect")
    /\ UNCHANGED <<world, store>>

\* `hearth index --rebuild` removes the database first.  Nobody else has it open.
Rebuild(i) ==
    /\ \A j \in Indexers : run[j].pc = "idle"
    /\ db # EmptyDatabase
    /\ db' = EmptyDatabase
    /\ run' = [run EXCEPT ![i] = [Idle EXCEPT !.pc = "detect", !.wanted = Paths,
                                              !.seen = StampsOf(Listed), !.quiet = TRUE]]
    /\ UNCHANGED <<world, work, writer>>

\* The watcher: one settled burst of events, over the paths its filter lets through.
WatchBatch(i, events) ==
    /\ run[i].pc = "idle"
    /\ events # {} /\ events \cap ignored = {}
    /\ Start(i, "paths", events, StampsOf(events \cap Present), "detect")
    /\ UNCHANGED <<world, store>>

\* A stored version other than the program's, or none, over a filled index.
OutOfDate(d) == d.version # hearth.logic /\ Indexed(d) # {}

\* A slip: files that only a grammar makes worth another look are not looked at.
NoRecheck(d) == {}

\* A grammar installed since makes rows that were skipped worth another look.
Recheck(d) == {p \in Indexed(d) : d.files[p].status = "skipped" /\ Parseable(p)}

\* detect_changes for one file that was seen: no row, forced, or a stamp that
\* differs and bytes that differ now (or cannot be read any more).
Changed(i, p) ==
    \/ db.files[p] = NoRow
    \/ run[i].kind = "full" /\ (OutOfDate(db) \/ p \in Recheck(db))
    \/ /\ db.files[p].stamp # run[i].seen[p]
       /\ disk[p] = Absent \/ disk[p].text # db.files[p].text

\* A slip: the deletions of a batch are taken from the whole index.
DetectUnscoped(i) ==
    /\ run[i].pc = "detect"
    /\ LET seen == Seen(i)
           gone == Indexed(db) \ seen
       IN  run' = [run EXCEPT ![i].todo = {p \in seen : Changed(i, p)},
                              ![i].gone = gone,
                              ![i].pc = IF gone = {} THEN "build" ELSE "delete"]
    /\ UNCHANGED <<world, store>>

Detect(i) ==
    /\ run[i].pc = "detect"
    /\ LET seen == Seen(i)
           gone == (Indexed(db) \cap run[i].wanted) \ seen
       IN  run' = [run EXCEPT ![i].todo = {p \in seen : Changed(i, p)},
                              ![i].gone = gone,
                              ![i].pc = IF gone = {} THEN "build" ELSE "delete"]
    /\ UNCHANGED <<world, store>>

----------------------------------------------------------------------------
(* Writing. *)

Others(i) == [j \in Indexers |-> IF j = i THEN run[j] ELSE [run[j] EXCEPT !.quiet = FALSE]]

\* delete_files: one transaction.
RemoveDeleted(i) ==
    /\ run[i].pc = "delete" /\ writer = Nobody
    /\ db' = DeleteFiles(db, run[i].gone)
    /\ run' = [Others(i) EXCEPT ![i].gone = {}, ![i].pc = "build"]
    /\ UNCHANGED <<world, work, writer>>

\* index_one on a path that is no file (any more) deletes its row and is done.
ForgetOne(i, p) ==
    /\ run[i].pc = "idle" /\ writer = Nobody
    /\ p \notin Present
    /\ db' = DeleteFiles(db, {p})
    /\ run' = Others(i)
    /\ UNCHANGED <<world, work, writer>>

\* index_one on a file: no change detection, and no filter either.
RefreshOne(i, p) ==
    /\ run[i].pc = "idle"
    /\ p \in Present
    /\ run' = [run EXCEPT ![i] = [Idle EXCEPT !.pc = "build", !.kind = "one", !.wanted = {p},
                                              !.seen = StampsOf({p}), !.todo = {p}]]
    /\ UNCHANGED <<world, store>>

\* The row carries the stamp the file had when it was listed, not the one it has
\* while it is read.
RowFor(i, p) ==
    [stamp |-> run[i].seen[p], text |-> disk[p].text, logic |-> hearth.logic,
     status |-> StatusOf(p, disk[p].text)]

\* _build_payload: a file that is gone, binary or too large yields nothing.
ReadFile(i, p) ==
    /\ run[i].pc = "build" /\ writer # i
    /\ Cardinality(run[i].batch) < BatchSize
    /\ p \in run[i].todo
    /\ LET usable == p \in Present /\ disk[p].text \notin Binary
       IN  run' = [run EXCEPT
             ![i].todo = @ \ {p},
             ![i].batch = IF usable THEN @ \cup {[path |-> p, row |-> RowFor(i, p)]} ELSE @,
             ![i].parsed = IF usable /\ StatusOf(p, disk[p].text) = "ok" THEN @ \cup {p} ELSE @]
    /\ UNCHANGED <<world, store>>

\* A batch is written when it is full or no file is left.
Due(i) == Cardinality(run[i].batch) >= BatchSize \/ run[i].todo = {}

\* A slip: the row carries the stamp the file has when the row is written.
StampWhenWritten(i, payload) ==
    /\ run[i].pc = "build"
    /\ payload \in run[i].batch /\ payload.path \in Present
    /\ writer = i \/ (writer = Nobody /\ Due(i))
    /\ LET base == IF writer = i THEN work ELSE db
           row == [payload.row EXCEPT !.stamp = disk[payload.path].stamp]
       IN  work' = ReplaceFile(base, payload.path, row)
    /\ writer' = i
    /\ run' = [run EXCEPT ![i].batch = @ \ {payload}]
    /\ UNCHANGED <<world, db>>

\* replace_file for one payload of the batch, in the batch's transaction.  The first
\* write takes the lock, or waits for it; the commit publishes them together.
WriteFile(i, payload) ==
    /\ run[i].pc = "build"
    /\ payload \in run[i].batch
    /\ writer = i \/ (writer = Nobody /\ Due(i))
    /\ LET base == IF writer = i THEN work ELSE db
       IN  /\ Fits(DeleteFiles(base, {payload.path}), payload.row.text)
           /\ work' = ReplaceFile(base, payload.path, payload.row)
    /\ writer' = i
    /\ run' = [run EXCEPT ![i].batch = @ \ {payload}]
    /\ UNCHANGED <<world, db>>

Commit(i) ==
    /\ writer = i
    /\ run[i].batch = {}
    /\ db' = work /\ work' = EmptyDatabase /\ writer' = Nobody
    /\ run' = Others(i)
    /\ UNCHANGED world

\* The end of a run; only a full run stamps the extraction version.
Finish(i) ==
    /\ run[i].pc = "build" /\ writer # i
    /\ run[i].todo = {} /\ run[i].batch = {}
    /\ run[i].kind = "full" => writer = Nobody
    /\ db' = IF run[i].kind = "full" THEN [db EXCEPT !.version = hearth.logic] ELSE db
    /\ run' = [Others(i) EXCEPT ![i] = Idle]
    /\ UNCHANGED <<world, work, writer>>

\* Ctrl+C, a kill, or a lock that could not be had: the transaction is rolled back.
Crash(i) ==
    /\ run[i].pc # "idle"
    /\ run' = [run EXCEPT ![i] = Idle]
    /\ IF writer = i THEN writer' = Nobody /\ work' = EmptyDatabase
                     ELSE UNCHANGED <<writer, work>>
    /\ UNCHANGED <<world, db>>

----------------------------------------------------------------------------
(* The world. *)

Disturb == run' = [j \in Indexers |-> [run[j] EXCEPT !.quiet = FALSE]]

Save(p, t) ==
    /\ p \in Volatile /\ clock < MaxStamp
    /\ clock' = clock + 1
    /\ disk' = [disk EXCEPT ![p] = [text |-> t, stamp |-> clock + 1]]
    /\ Disturb
    /\ UNCHANGED <<ignored, hearth, store>>

Remove(p) ==
    /\ p \in Present \cap Volatile
    /\ disk' = [disk EXCEPT ![p] = Absent]
    /\ Disturb
    /\ UNCHANGED <<ignored, clock, hearth, store>>

\* The user edits an ignore file.
ChangeIgnored(p) ==
    /\ p \in Ignorable
    /\ ignored' = IF p \in ignored THEN ignored \ {p} ELSE ignored \cup {p}
    /\ Disturb
    /\ UNCHANGED <<disk, clock, hearth, store>>

\* A new Hearth, or a grammar wheel, is installed while nothing runs.
Upgrade ==
    /\ \A j \in Indexers : run[j].pc = "idle"
    /\ \/ hearth.logic < MaxLogic /\ hearth' = [hearth EXCEPT !.logic = @ + 1]
       \/ ~hearth.grammar /\ hearth' = [hearth EXCEPT !.grammar = TRUE]
    /\ UNCHANGED <<disk, ignored, clock, store, run>>

----------------------------------------------------------------------------
Step(i) ==
    \/ Scan(i) \/ Rebuild(i) \/ Detect(i) \/ RemoveDeleted(i)
    \/ \E events \in SUBSET Paths : WatchBatch(i, events)
    \/ \E p \in Paths : ForgetOne(i, p) \/ RefreshOne(i, p) \/ ReadFile(i, p)
    \/ \E payload \in run[i].batch : WriteFile(i, payload)
    \/ Commit(i) \/ Finish(i) \/ Crash(i)

Environment ==
    \/ \E p \in Paths, t \in Texts : Save(p, t)
    \/ \E p \in Paths : Remove(p) \/ ChangeIgnored(p)
    \/ Upgrade

Next == (\E i \in Indexers : Step(i)) \/ Environment

Spec == Init /\ [][Next]_vars

----------------------------------------------------------------------------
(* Properties. *)

Payload == [path : Paths, row : FileRow]

Runs ==
    [pc : {"idle", "detect", "delete", "build"}, kind : {"full", "paths", "one"},
     wanted : SUBSET Paths, seen : [Paths -> Nat \cup {Absent}],
     gone : SUBSET Paths, todo : SUBSET Paths, batch : SUBSET Payload,
     parsed : SUBSET Paths, quiet : BOOLEAN, fresh : BOOLEAN]

TypeOK ==
    /\ disk \in [Paths -> File \cup {Absent}]
    /\ ignored \in SUBSET Paths
    /\ clock \in 0 .. MaxStamp
    /\ hearth \in [logic : 1 .. MaxLogic, grammar : BOOLEAN]
    /\ db \in Database /\ work \in Database
    /\ writer \in Indexers \cup {Nobody}
    /\ run \in [Indexers -> Runs]

\* The full-text rows are those of the chunks, whatever was killed and whoever
\* wrote last: index_repo.py calls this the invariant the module exists to hold.
FtsMirrorsChunks == Mirrored(db)

\* A row that no longer tells the truth about its file can be told from its stamp:
\* in an index stamped with the program's version, a row with the stamp its file
\* has now holds the file's bytes, cut by the program's own logic.  So the run
\* that trusts a matching stamp never keeps a stale row, although stamps and bytes
\* are read at different times and runs overlap.
StaleIsDetectable ==
    db.version = hearth.logic =>
        \A p \in Indexed(db) \cap Present :
            db.files[p].stamp = disk[p].stamp =>
                db.files[p].text = disk[p].text /\ db.files[p].logic = hearth.logic

\* A full run that nobody disturbed leaves the index in step with the workspace:
\* new logic, new grammars, new ignore rules, deletions and all.
FinishedRunInSync ==
    [][\A i \in Indexers :
          Finish(i) /\ run[i].kind = "full" /\ run[i].quiet => InSync']_vars

\* Indexing what is indexed parses nothing, the first acceptance criterion of the
\* pipeline.
NoopParsesNothing ==
    \A i \in Indexers :
        run[i].quiet /\ run[i].fresh => run[i].parsed = {}

\* A watcher's batch removes no row but those of paths in it that it did not find.
BatchRemovesOnlyItsOwn ==
    [][\A i \in Indexers :
          RemoveDeleted(i) /\ run[i].kind = "paths" =>
              Indexed(db) \ Indexed(db)' \subseteq run[i].wanted \ Seen(i)]_vars

----------------------------------------------------------------------------
(* The inductive invariant behind FtsMirrorsChunks and StaleIsDetectable. *)

\* Stamps already given: a later save gives another one.
StampsGiven ==
    /\ \A p \in Present : disk[p].stamp <= clock
    /\ \A p \in Indexed(db) : db.files[p].stamp <= clock
    /\ \A p \in Indexed(work) : work.files[p].stamp <= clock
    /\ \A i \in Indexers :
         /\ \A p \in Seen(i) : run[i].seen[p] <= clock
         /\ \A b \in run[i].batch : b.row.stamp <= clock

\* A row tells the bytes its file has under the row's stamp.
Truthful(p, row) ==
    /\ row.text \notin Binary
    /\ p \in Present /\ disk[p].stamp = row.stamp => disk[p].text = row.text

RowsTrue ==
    /\ \A p \in Indexed(db) : Truthful(p, db.files[p])
    /\ \A p \in Indexed(work) : Truthful(p, work.files[p])
    /\ \A i \in Indexers : \A b \in run[i].batch : Truthful(b.path, b.row)

\* What a run keeps in its several variables hangs together.
RunsShaped ==
    \A i \in Indexers :
        /\ run[i].pc = "build" => run[i].gone = {}
        /\ run[i].pc = "detect" /\ run[i].kind = "full" => run[i].wanted = Paths
        /\ run[i].pc = "idle" => run[i].batch = {}
        /\ run[i].todo \subseteq Seen(i)
        /\ \A b \in run[i].batch : b.row.logic = hearth.logic

\* An open transaction differs from what is committed in rows the program's logic
\* has cut, and nobody commits beside it.
TransactionShaped ==
    /\ writer # Nobody => run[writer].pc = "build"
    /\ writer = Nobody => work = EmptyDatabase
    /\ writer # Nobody =>
         \A p \in Indexed(work) :
             work.files[p] = db.files[p] \/ work.files[p].logic = hearth.logic

\* Rows change detection takes for current although another logic cut them.
Outdated(d) ==
    {p \in Indexed(d) \cap Present :
        d.files[p].stamp = disk[p].stamp /\ d.files[p].logic # hearth.logic}

\* What a run is still going to replace or remove.
Ahead(i) ==
    run[i].todo \cup run[i].gone \cup {b.path : b \in run[i].batch}
    \cup {p \in Indexed(work) : writer = i /\ work.files[p].logic = hearth.logic}

\* Before its run ends and stamps the index, every such row is on some full run's list.
Covered ==
    /\ db.version <= hearth.logic
    /\ work.version <= hearth.logic
    /\ writer # Nobody => work.version = db.version
    /\ db.version = hearth.logic => Outdated(db) = {}
    /\ \A i \in Indexers :
         run[i].kind = "full" /\ run[i].pc \in {"delete", "build"} => Outdated(db) \subseteq Ahead(i)

IndexInv ==
    /\ TypeOK /\ Mirrored(db) /\ Mirrored(work)
    /\ StampsGiven /\ RowsTrue /\ RunsShaped /\ TransactionShaped /\ Covered

----------------------------------------------------------------------------
(* The inductive invariant behind FinishedRunInSync and BatchRemovesOnlyItsOwn. *)

\* A row that says of its file what a run now would say.
Tells(row, p) ==
    row # NoRow /\ row.text = disk[p].text /\ row.status = StatusOf(p, disk[p].text)

\* Grammars are only added: a file that was parsed still can be.
StatusLasts(p, row) == row.status = "ok" => row.text \notin Generated /\ Parseable(p)

\* The tables as a run sees them: in its own transaction, else committed.
Base(i) == IF writer = i THEN work ELSE db

\* An undisturbed full run: rows it is not going to write or remove are in step.
Progress(i) ==
    LET left == run[i].todo \cup {b.path : b \in run[i].batch}
    IN  /\ \A p \in Listed \ left : disk[p].text \notin Binary => Tells(Base(i).files[p], p)
        /\ \A p \in Paths \ Listed : Base(i).files[p] = NoRow \/ p \in run[i].gone

Undisturbed(i) ==
    /\ run[i].seen = StampsOf(Listed)
    /\ \A b \in run[i].batch : b.path \in Listed /\ Tells(b.row, b.path)
    /\ run[i].pc # "detect" => Progress(i)

RunInStep(i) ==
    /\ run[i].gone \subseteq run[i].wanted \ Seen(i)
    /\ \A b \in run[i].batch : StatusLasts(b.path, b.row)
    /\ run[i].quiet /\ run[i].kind = "full" /\ run[i].pc # "idle" => Undisturbed(i)

SyncInv ==
    /\ \A p \in Indexed(db) : StatusLasts(p, db.files[p])
    /\ \A p \in Indexed(work) : StatusLasts(p, work.files[p])
    /\ \A i \in Indexers : RunInStep(i)

=============================================================================
