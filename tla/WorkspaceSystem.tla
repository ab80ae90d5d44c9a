--------------------------- MODULE WorkspaceSystem ---------------------------
(***************************************************************************)
(* The write tools, the undo commands, the user's editor and crashes over  *)
(* one workspace and one session: who may change a file, in which order,   *)
(* and what the checkpoints are worth afterwards.                          *)
(***************************************************************************)
EXTENDS UndoCommands

CONSTANTS
  UserPaths,     (* files somebody edits outside Hearth                    *)
  EditorRaces,   (* such an edit may fall inside execute() or a revert     *)
  Crashes        (* the process may die at any step                        *)

ASSUME EnvironmentAssumption ==
  /\ UserPaths \subseteq Paths
  /\ EditorRaces \in BOOLEAN
  /\ Crashes \in BOOLEAN

vars == <<workspaceVars, toolVars, undo>>

TypeOK == WorkspaceTypeOK /\ ToolsTypeOK /\ UndoTypeOK

Init == WorkspaceInit /\ ToolsInit /\ UndoInit

-----------------------------------------------------------------------------
(* The environment. *)

(* Between the re-verifying read and the rename, or the conflict check and *)
(* the last file put back, lie microseconds; without EditorRaces nobody    *)
(* saves a file in them.                                                   *)
Quiet ==
  /\ call.phase \in {"idle", "approving"}
  /\ undo.phase \in {"idle", "asking"}

UserEdit(p) ==
  /\ EditorRaces \/ Quiet
  /\ \E c \in File \ {disk[p]} : disk' = [disk EXCEPT ![p] = c]
  /\ UNCHANGED <<toolVars, undo, blobs, rows, nextId, trash, now>>

(* The session's process dies: the call, the turn and the read registry    *)
(* are memory; files, blobs, rows and trash are not.  `hearth resume`      *)
(* opens the same session again.  An undo typed into it dies with it, and  *)
(* an OSError in the middle of a revert ends the process just the same.    *)
Crash ==
  /\ Crashes
  /\ step' = 0
  /\ call' = NoCall
  /\ known' = [p \in Paths |-> Unread]
  /\ undo' = IF External THEN undo ELSE NoUndo
  /\ UNCHANGED <<workspaceVars, turn, seen>>

CrashUndo ==
  /\ Crashes
  /\ External
  /\ undo.phase # "idle"
  /\ undo' = NoUndo
  /\ UNCHANGED <<workspaceVars, toolVars>>

(* In one process a slash command is over before the next turn begins. *)
Scheduled == External \/ undo.phase = "idle"

Next ==
  \/ Scheduled /\ ToolsNext /\ UNCHANGED undo
  \/ UndoNext
  \/ Tick /\ UNCHANGED <<toolVars, undo>>
  \/ \E p \in UserPaths : UserEdit(p)
  \/ Crash
  \/ CrashUndo

Spec == Init /\ [][Next]_vars

(* A revert pass is one synchronous call, and the console prompt is answered. *)
Fairness ==
  /\ WF_vars(UndoPass)
  /\ WF_vars(Decline \/ Retry)

FairSpec == Spec /\ Fairness

-----------------------------------------------------------------------------
(* Safety of the write protocol.                                           *)

ToolStep == call' # call /\ disk' # disk

(* A tool that changes a file leaves an open checkpoint of exactly that    *)
(* change: the bytes it replaced and the bytes it wrote, under the current *)
(* step (write_fs.py "The order is the contract", safety-and-tool-use.md   *)
(* principle 7, "File writes are checkpointed").                           *)
Recorded(p, before, after) ==
  \E r \in rows : /\ r.path = p /\ r.step = step /\ ~ r.reverted
                  /\ r.before = before /\ r.after = after

EveryWriteCheckpointed ==
  [][ToolStep =>
       \A p \in Paths : disk'[p] # disk[p] => Recorded(p, disk[p], disk'[p])]_vars

(* A write lands only on the file its approved preview was computed from,  *)
(* however long the prompt stayed open and whoever wrote meanwhile.        *)
LandsOnPreview ==
  [][ToolStep =>
       /\ disk[call.path] = call.expected
       /\ call.tool = "move" => disk[call.dst] = NoFile]_vars

(* An edit or an overwrite replaces only bytes the model has been shown or *)
(* has itself written ("Read before write", write_fs.py).                  *)
ReadBeforeWrite ==
  [][(ToolStep /\ call.tool \in {"edit", "write"} /\ disk[call.path] # NoFile)
       => disk[call.path] \in seen]_vars

-----------------------------------------------------------------------------
(* Safety of undo.                                                         *)

Kept(b) == b \in blobs' \/ \E t \in trash' : t.bytes = b

HearthStep == call' # call \/ undo' # undo

(* No step of Hearth leaves a file's bytes nowhere, unless the user said   *)
(* to overwrite: what it replaces is in the blob store or in the trash     *)
(* ("Hearth reports the conflict and writes nothing unless told to").      *)
NothingDestroyedUnasked ==
  [][(HearthStep /\ ~ undo.force) =>
       \A p \in Paths : (disk'[p] # disk[p] /\ disk[p] # NoFile) => Kept(disk[p])]_vars

(* The entries of step s for p follow one another: each starts from what   *)
(* the one before it wrote, so nothing else changed the file in between.   *)
EntriesFor(p) == {r \in undo.planned : r.path = p}

Consecutive(r, q) ==
  r.id < q.id /\ \A x \in EntriesFor(r.path) : ~(r.id < x.id /\ x.id < q.id)

Chained(p) ==
  \A r, q \in EntriesFor(p) : Consecutive(r, q) => r.after = q.before

FirstEntry(p, r) == r \in EntriesFor(p) /\ \A q \in EntriesFor(p) : r.id <= q.id

(* A revert puts back every file the step has one entry for, byte for byte *)
(* or by moving the created file away, and it does so for all of them.     *)
UndoRestoresStep ==
  [][MarkReverted =>
       \A r \in undo.planned : EntriesFor(r.path) = {r} => disk[r.path] = r.before]_vars

(* A revert that was not forced leaves each file of the step as it was     *)
(* before the step touched it ("can be undone, exactly").                  *)
UndoIsExact ==
  [][(MarkReverted /\ ~ undo.force) =>
       \A p \in Paths : \A r \in EntriesFor(p) :
         (Chained(p) /\ FirstEntry(p, r)) => disk[p] = r.before]_vars

(* Only rows whose file was put back are marked reverted, so /undo never   *)
(* gives up on a write it has not undone.                                  *)
MarkedMeansRestored ==
  [][\A r \in rows : (~ r.reverted /\ r \notin rows') => r \in undo.planned]_vars

(* The step /undo picks holds the most recent write that is still open     *)
(* ("Revert all file changes from the most recent write step").            *)
UndoTakesMostRecentWrite ==
  \A r \in rows :
    (~ r.reverted /\ \A q \in rows : ~ q.reverted => q.id <= r.id)
      => IsLatestStep(r.step)

(* A revert that has started comes to an end.                              *)
RevertSettles == undo.phase # "idle" ~> undo.phase = "idle"
=============================================================================
