----------------------------- MODULE WriteTools -----------------------------
(***************************************************************************)
(* tools/write_fs.py: edit_file, multi_edit, write_file, move_file and     *)
(* delete_file, as the gateway drives them: prepare, wait for the user,    *)
(* re-verify, checkpoint, mutate.  The model has one call in flight at a   *)
(* time: writes are not concurrent_safe and the loop runs them in order.   *)
(*                                                                         *)
(* Execute is split where another process can see or touch the workspace:  *)
(* after the re-verifying read, after each blob, after each row.           *)
(***************************************************************************)
EXTENDS Workspace

CONSTANTS
  Unread,     (* no entry in ToolContext.read_hashes                       *)
  Tools,      (* the write tools the mode exposes                          *)
  MaxTurns    (* bound: turns taken in the session                         *)

ASSUME ToolsAssumption ==
  /\ Unread \notin File
  /\ Tools \subseteq {"edit", "write", "move", "delete"}
  /\ MaxTurns \in Nat

VARIABLES
  turn,       (* turns started                                             *)
  step,       (* context.step: 0 between turns                             *)
  known,      (* context.read_hashes: path -> bytes last read, or Unread   *)
  seen,       (* history: the bytes the model has been shown or has written*)
  call        (* the tool call in flight                                   *)

toolVars == <<turn, step, known, seen, call>>

NoCall == [phase |-> "idle"]

Call ==
  [phase : {"approving", "putting", "inserting", "mutating"},
   tool : Tools, path : Paths, dst : Paths,
   expected : File, new : File, recorded : {0, 1}]

ToolsTypeOK ==
  /\ turn \in 0 .. MaxTurns
  /\ step \in 0 .. MaxStep
  /\ known \in [Paths -> Contents \union {Unread}]
  /\ seen \subseteq Contents
  /\ call \in Call \union {NoCall}

ToolsInit ==
  /\ turn = 0
  /\ step = 0
  /\ known = [p \in Paths |-> Unread]
  /\ seen = {}
  /\ call = NoCall

InTurn == step > 0

Idle == call.phase = "idle"

-----------------------------------------------------------------------------
(* The turn: AgentLoop.run makes a new StepTracker, whose count begins at  *)
(* zero, so the first step of every turn is step 1.                        *)

BeginTurn ==
  /\ ~ InTurn
  /\ turn < MaxTurns
  /\ turn' = turn + 1
  /\ step' = 1
  /\ UNCHANGED <<known, seen, call, workspaceVars>>

NextStep ==
  /\ InTurn
  /\ Idle
  /\ step < MaxStep
  /\ step' = step + 1
  /\ UNCHANGED <<turn, known, seen, call, workspaceVars>>

EndTurn ==
  /\ InTurn
  /\ Idle
  /\ step' = 0
  /\ UNCHANGED <<turn, known, seen, call, workspaceVars>>

\* A slip: the registry is written before the read has succeeded.
ReadFileUnchecked(p) ==
  /\ InTurn
  /\ Idle
  /\ known' = [known EXCEPT ![p] = disk[p]]
  /\ UNCHANGED <<turn, step, seen, call, workspaceVars>>

(* read_file registers the hash of the whole file. *)
ReadFile(p) ==
  /\ InTurn
  /\ Idle
  /\ disk[p] # NoFile
  /\ known' = [known EXCEPT ![p] = disk[p]]
  /\ seen' = seen \union {disk[p]}
  /\ UNCHANGED <<turn, step, call, workspaceVars>>

-----------------------------------------------------------------------------
(* prepare(): a call it refuses changes nothing and is not an action.      *)

Fresh(p) == known[p] = disk[p]      \* _staleness is None

Propose(tool, p, dst, new) ==
  /\ InTurn
  /\ Idle
  /\ tool \in Tools
  /\ nextId + (IF tool = "move" THEN 1 ELSE 0) <= MaxRows
  /\ call' = [phase |-> "approving", tool |-> tool, path |-> p, dst |-> dst,
              expected |-> disk[p], new |-> new, recorded |-> 0]
  /\ UNCHANGED <<turn, step, known, seen, workspaceVars>>

(* edit_file and multi_edit. *)
PrepareEdit(p) ==
  /\ disk[p] # NoFile
  /\ Fresh(p)
  /\ \E c \in Contents : Propose("edit", p, p, c)

\* A slip: overwriting needs no read either.
PrepareWriteUnread(p) ==
  \E c \in Contents \ {disk[p]} : Propose("write", p, p, c)

(* write_file: creating needs no read, overwriting does. *)
PrepareWrite(p) ==
  /\ disk[p] # NoFile => Fresh(p)
  /\ \E c \in Contents \ {disk[p]} : Propose("write", p, p, c)

PrepareMove(p, q) ==
  /\ p # q
  /\ disk[p] # NoFile
  /\ disk[q] = NoFile
  /\ Propose("move", p, q, disk[p])

PrepareDelete(p) ==
  /\ disk[p] # NoFile
  /\ Propose("delete", p, p, NoFile)

-----------------------------------------------------------------------------
(* The user (or policy) refuses: nothing happens. *)
Reject ==
  /\ call.phase = "approving"
  /\ call' = NoCall
  /\ UNCHANGED <<turn, step, known, seen, workspaceVars>>

\* A slip: a move looks at its source only.
SourceAsPrepared == disk[call.path] = call.expected

(* execute() reads the file again before anything is touched. *)
StillAsPrepared ==
  /\ disk[call.path] = call.expected
  /\ call.tool = "move" => disk[call.dst] = NoFile

Verify ==
  /\ call.phase = "approving"
  /\ call' = IF StillAsPrepared THEN [call EXCEPT !.phase = "putting"] ELSE NoCall
  /\ UNCHANGED <<turn, step, known, seen, workspaceVars>>

(* The entry a call records next: a move records its source, then its      *)
(* destination; every other call records one.                              *)
Entry(c) ==
  IF c.tool # "move"
  THEN [path |-> c.path, before |-> c.expected, after |-> c.new]
  ELSE IF c.recorded = 0
       THEN [path |-> c.path, before |-> c.expected, after |-> NoFile]
       ELSE [path |-> c.dst, before |-> NoFile, after |-> c.expected]

StoreBlobs ==
  /\ call.phase = "putting"
  /\ PutBlobs(Entry(call).before, Entry(call).after)
  /\ call' = [call EXCEPT !.phase = "inserting"]
  /\ UNCHANGED <<turn, step, known, seen, disk, rows, nextId, trash, now>>

\* A slip: a move records its source twice, never its destination.
RecordSourceOnly ==
  /\ call.phase = "inserting"
  /\ AddCheckpoint(step, call.path, call.expected, Entry(call).after)
  /\ call' = IF call.tool = "move" /\ call.recorded = 0
             THEN [call EXCEPT !.phase = "putting", !.recorded = 1]
             ELSE [call EXCEPT !.phase = "mutating"]
  /\ UNCHANGED <<turn, step, known, seen, disk, blobs, trash, now>>

RecordCheckpoint ==
  /\ call.phase = "inserting"
  /\ AddCheckpoint(step, Entry(call).path, Entry(call).before, Entry(call).after)
  /\ call' = IF call.tool = "move" /\ call.recorded = 0
             THEN [call EXCEPT !.phase = "putting", !.recorded = 1]
             ELSE [call EXCEPT !.phase = "mutating"]
  /\ UNCHANGED <<turn, step, known, seen, disk, blobs, trash, now>>

(* _commit: temp file and rename, then the read registry moves forward. *)
Commit ==
  /\ call.phase = "mutating"
  /\ call.tool \in {"edit", "write"}
  /\ disk' = [disk EXCEPT ![call.path] = call.new]
  /\ known' = [known EXCEPT ![call.path] = call.new]
  /\ seen' = seen \union {call.new}
  /\ call' = NoCall
  /\ UNCHANGED <<turn, step, blobs, rows, nextId, trash, now>>

(* move_file: the hash follows the file, whether or not it was ever read.  *)
Move ==
  /\ call.phase = "mutating"
  /\ call.tool = "move"
  /\ disk[call.path] # NoFile
  /\ disk' = [disk EXCEPT ![call.dst] = disk[call.path], ![call.path] = NoFile]
  /\ known' = [known EXCEPT ![call.dst] = call.expected]
  /\ call' = NoCall
  /\ UNCHANGED <<turn, step, seen, blobs, rows, nextId, trash, now>>

(* _trash names the copy by the second and the path: a second delete of    *)
(* the path within that second replaces the first copy.                    *)
IntoTrash(p, bytes) ==
  trash' = {t \in trash : ~(t.by = "delete" /\ t.stamp = now /\ t.path = p)}
           \union {[by |-> "delete", stamp |-> now, path |-> p, bytes |-> bytes]}

Delete ==
  /\ call.phase = "mutating"
  /\ call.tool = "delete"
  /\ disk[call.path] # NoFile
  /\ IntoTrash(call.path, disk[call.path])
  /\ disk' = [disk EXCEPT ![call.path] = NoFile]
  /\ known' = [known EXCEPT ![call.path] = Unread]
  /\ call' = NoCall
  /\ UNCHANGED <<turn, step, seen, blobs, rows, nextId, now>>

(* The mutation raises OSError: a failed result, and the row stays.  A     *)
(* delete across filesystems may have copied the bytes before it failed.   *)
MutationFails ==
  /\ call.phase = "mutating"
  /\ call' = NoCall
  /\ \/ UNCHANGED trash
     \/ call.tool = "delete" /\ IntoTrash(call.path, call.expected)
  /\ UNCHANGED <<turn, step, known, seen, disk, blobs, rows, nextId, now>>

Mutate == Commit \/ Move \/ Delete

ToolsNext ==
  \/ BeginTurn \/ NextStep \/ EndTurn
  \/ \E p \in Paths : ReadFile(p) \/ PrepareEdit(p) \/ PrepareWrite(p) \/ PrepareDelete(p)
  \/ \E p, q \in Paths : PrepareMove(p, q)
  \/ Reject \/ Verify \/ StoreBlobs \/ RecordCheckpoint
  \/ Mutate \/ MutationFails
=============================================================================
