------------------------------ MODULE Workspace ------------------------------
(***************************************************************************)
(* The state every writer of a Hearth workspace shares: the files on disk, *)
(* the content-addressed blob store, the `checkpoints` table of state.db   *)
(* and Hearth's trash.  The write tools (WriteTools) and the undo commands *)
(* (UndoCommands) act on it; the user's editor acts on `disk` alone.       *)
(*                                                                         *)
(* A file's bytes are one member of Contents: the properties compare       *)
(* contents, they never look inside them, and a blob's digest is identified*)
(* with the bytes it names.                                                *)
(***************************************************************************)
EXTENDS Naturals

CONSTANTS
  Paths,      (* workspace-relative paths                                  *)
  Contents,   (* the byte strings a file may hold                          *)
  NoFile,     (* "there is no file": None in the code, NULL in the table   *)
  MaxStep,    (* bound: agent steps in one turn                            *)
  MaxRows,    (* bound: checkpoint rows a behaviour records                *)
  MaxClock    (* bound: seconds the wall clock advances                    *)

ASSUME WorkspaceAssumption ==
  /\ NoFile \notin Contents
  /\ MaxStep \in Nat \ {0}
  /\ MaxRows \in Nat
  /\ MaxClock \in Nat

VARIABLES
  disk,       (* path -> bytes, or NoFile                                  *)
  blobs,      (* the bytes BlobStore holds                                 *)
  rows,       (* the checkpoints table                                     *)
  nextId,     (* AUTOINCREMENT of the table                                *)
  trash,      (* what delete_file and undo have moved aside                *)
  now         (* the wall clock, in the seconds _trash stamps with         *)

workspaceVars == <<disk, blobs, rows, nextId, trash, now>>

File == Contents \union {NoFile}

Steps == 1 .. MaxStep

(* One file's before/after within one write step. *)
CheckpointEntry ==
  [id : 1 .. MaxRows, step : Steps, path : Paths,
   before : File, after : File, reverted : BOOLEAN]

Trashed ==
  [by : {"delete", "undo"}, stamp : 0 .. MaxClock, path : Paths, bytes : Contents]

WorkspaceTypeOK ==
  /\ disk \in [Paths -> File]
  /\ blobs \subseteq Contents
  /\ rows \subseteq CheckpointEntry
  /\ nextId \in 1 .. MaxRows + 1
  /\ trash \subseteq Trashed
  /\ now \in 0 .. MaxClock

WorkspaceInit ==
  /\ disk \in [Paths -> File]
  /\ blobs = {}
  /\ rows = {}
  /\ nextId = 1
  /\ trash = {}
  /\ now = 0

(* Seconds pass: the only clock the model reads is the trash stamp. *)
Tick ==
  /\ now < MaxClock
  /\ now' = now + 1
  /\ UNCHANGED <<disk, blobs, rows, nextId, trash>>

-----------------------------------------------------------------------------
(* CheckpointStore.record: the blobs are put before the row names them.    *)

\* A slip: only the bytes being replaced are kept.
PutReplacedBytes(before, after) ==
  blobs' = blobs \union ({before} \ {NoFile})

PutBlobs(before, after) ==
  blobs' = blobs \union ({before, after} \ {NoFile})

AddCheckpoint(step, path, before, after) ==
  /\ rows' = rows \union {[id |-> nextId, step |-> step, path |-> path,
                           before |-> before, after |-> after,
                           reverted |-> FALSE]}
  /\ nextId' = nextId + 1

(* entries_for_step / steps / latest_step. *)
EntriesForStep(s) == {r \in rows : r.step = s}

StepReverted(s) == \A r \in EntriesForStep(s) : r.reverted

WriteSteps == {r.step : r \in rows}

OpenSteps == {s \in WriteSteps : ~ StepReverted(s)}

\* A slip: the list is read oldest first.
IsEarliestStep(s) == s \in OpenSteps /\ \A t \in OpenSteps : s <= t

(* latest_step: what a bare /undo acts on. *)
IsLatestStep(s) == s \in OpenSteps /\ \A t \in OpenSteps : t <= s

\* A slip: the update reaches the later steps as well.
MarkFromStepReverted(s) ==
  rows' = {IF r.step >= s THEN [r EXCEPT !.reverted = TRUE] ELSE r : r \in rows}

MarkStepReverted(s) ==
  rows' = {IF r.step = s THEN [r EXCEPT !.reverted = TRUE] ELSE r : r \in rows}

\* A slip: only a missing file is a conflict.
ConflictIfMissing(r) ==
  disk[r.path] = NoFile /\ r.after # NoFile /\ r.before # NoFile

(* _conflict_for: does disk still hold what Hearth wrote?                  *)
Conflict(r) ==
  IF disk[r.path] = NoFile
  THEN r.after # NoFile /\ r.before # NoFile
  ELSE r.after # NoFile /\ disk[r.path] # r.after

(* Every blob a row names is in the store, so undo never restores a file   *)
(* from a blob that is not there (BlobStore.get would raise half way       *)
(* through a revert).  Holds because record() puts the blobs first.        *)
RowBlobsStored ==
  \A r \in rows : {r.before, r.after} \ {NoFile} \subseteq blobs
=============================================================================
