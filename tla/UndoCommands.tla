---------------------------- MODULE UndoCommands ----------------------------
(***************************************************************************)
(* /undo, /rewind and `hearth undo` (cli/checkpoint_commands.py) over      *)
(* CheckpointStore.revert_step and revert_after (safety/checkpoints.py).   *)
(*                                                                         *)
(* A command works through `todoSteps`, newest first.  Each step is first  *)
(* checked whole, then its files are put back one at a time in row order,  *)
(* then its rows are marked.  If anything conflicted the user is asked,    *)
(* and a yes runs the command again with force.                            *)
(***************************************************************************)
EXTENDS WriteTools

CONSTANTS
  Commands,      (* the revert commands in use: {"undo", "rewind"}         *)
  ExternalUndo   (* `hearth undo` may run beside the session's own process *)

ASSUME CommandsAssumption ==
  /\ Commands \subseteq {"undo", "rewind"}
  /\ ExternalUndo \in BOOLEAN

VARIABLE undo

Undo ==
  [phase : {"idle", "checking", "restoring", "asking"},
   kind : {"undo", "rewind"},
   arg : 0 .. MaxStep,                 \* the step named on the command line
   force : BOOLEAN,
   todoSteps : SUBSET Steps,           \* steps this pass has still to revert
   current : Steps,                    \* the step being put back
   planned : SUBSET CheckpointEntry,   \* its entries, as they were read
   todo : SUBSET CheckpointEntry,      \* those not yet put back
   conflicts : BOOLEAN]                \* RevertReport.conflicts is not empty

NoUndo ==
  [phase |-> "idle", kind |-> "undo", arg |-> 0, force |-> FALSE,
   todoSteps |-> {}, current |-> 1, planned |-> {}, todo |-> {},
   conflicts |-> FALSE]

UndoTypeOK == undo \in Undo

UndoInit == undo = NoUndo

(* `hearth undo` runs in a process of its own.                             *)
External == ExternalUndo /\ undo.kind = "undo"

(* A slash command is handled between turns; the standalone command is not,*)
(* and there is no standalone rewind.                                      *)
MayCommand(kind) ==
  /\ kind \in Commands
  /\ undo.phase = "idle"
  /\ ~ InTurn \/ (ExternalUndo /\ kind = "undo")

Begin(kind, arg, targets, force) ==
  undo' = [NoUndo EXCEPT !.phase = "checking", !.kind = kind, !.arg = arg,
                         !.force = force, !.todoSteps = targets]

(* revert_after reads the step list once, before it reverts any of them.   *)
StepsAfter(n) == {s \in OpenSteps : s > n}

(* undo() with the latest step, or with a step named by the user.  When    *)
(* nothing is recorded for it, or all of it is reverted, nothing happens.  *)
UndoStep(s) ==
  /\ MayCommand("undo")
  /\ s \in OpenSteps
  /\ Begin("undo", s, {s}, FALSE)
  /\ UNCHANGED <<toolVars, workspaceVars>>

UndoLatest == \E s \in Steps : IsLatestStep(s) /\ UndoStep(s)

RewindTo(n) ==
  /\ MayCommand("rewind")
  /\ StepsAfter(n) # {}
  /\ Begin("rewind", n, StepsAfter(n), FALSE)
  /\ UNCHANGED <<toolVars, workspaceVars>>

-----------------------------------------------------------------------------
IsNext(s) == s \in undo.todoSteps /\ \A t \in undo.todoSteps : t <= s

HasConflict(s) == \E r \in EntriesForStep(s) : Conflict(r)

\* A slip: the conflict is noted and the loop does not advance.
ReportConflictAgain(s) ==
  /\ undo.phase = "checking"
  /\ IsNext(s)
  /\ ~ undo.force
  /\ HasConflict(s)
  /\ undo' = [undo EXCEPT !.conflicts = TRUE]
  /\ UNCHANGED <<toolVars, workspaceVars>>

(* Nothing of a step is planned while any file of it conflicts. *)
ReportConflict(s) ==
  /\ undo.phase = "checking"
  /\ IsNext(s)
  /\ ~ undo.force
  /\ HasConflict(s)
  /\ undo' = [undo EXCEPT !.todoSteps = @ \ {s}, !.conflicts = TRUE]
  /\ UNCHANGED <<toolVars, workspaceVars>>

(* Every entry of the step is planned, the reverted ones among them.       *)
PlanStep(s) ==
  /\ undo.phase = "checking"
  /\ IsNext(s)
  /\ undo.force \/ ~ HasConflict(s)
  /\ undo' = [undo EXCEPT !.phase = "restoring", !.current = s,
                          !.planned = EntriesForStep(s), !.todo = EntriesForStep(s)]
  /\ UNCHANGED <<toolVars, workspaceVars>>

IsFirst(r) == r \in undo.todo /\ \A q \in undo.todo : r.id <= q.id

RestoreDone(r) == undo' = [undo EXCEPT !.todo = @ \ {r}]

(* _remove: a created file is moved aside, if it is still there. *)
RemoveCreated(r) ==
  /\ undo.phase = "restoring"
  /\ IsFirst(r)
  /\ r.before = NoFile
  /\ disk' = [disk EXCEPT ![r.path] = NoFile]
  /\ trash' = trash \union
       {[by |-> "undo", stamp |-> now, path |-> r.path, bytes |-> b] : b \in {disk[r.path]} \ {NoFile}}
  /\ RestoreDone(r)
  /\ UNCHANGED <<toolVars, blobs, rows, nextId, now>>

(* blobs.get(before_blob), then an atomic write. *)
RestoreFile(r) ==
  /\ undo.phase = "restoring"
  /\ IsFirst(r)
  /\ r.before # NoFile
  /\ r.before \in blobs
  /\ disk' = [disk EXCEPT ![r.path] = r.before]
  /\ RestoreDone(r)
  /\ UNCHANGED <<toolVars, blobs, rows, nextId, trash, now>>

\* A slip: the rows are marked before the files are back.
MarkBeforeRestoring ==
  /\ undo.phase = "restoring"
  /\ MarkStepReverted(undo.current)
  /\ undo' = [undo EXCEPT !.phase = "checking", !.todoSteps = @ \ {undo.current},
                          !.planned = {}]
  /\ UNCHANGED <<toolVars, disk, blobs, nextId, trash, now>>

(* mark_step_reverted updates every row of the step the table now holds.   *)
MarkReverted ==
  /\ undo.phase = "restoring"
  /\ undo.todo = {}
  /\ MarkStepReverted(undo.current)
  /\ undo' = [undo EXCEPT !.phase = "checking", !.todoSteps = @ \ {undo.current},
                          !.planned = {}]
  /\ UNCHANGED <<toolVars, disk, blobs, nextId, trash, now>>

(* _settle: announce the report, or ask about the conflicts. *)
Finish ==
  /\ undo.phase = "checking"
  /\ undo.todoSteps = {}
  /\ undo' = IF undo.conflicts THEN [undo EXCEPT !.phase = "asking"] ELSE NoUndo
  /\ UNCHANGED <<toolVars, workspaceVars>>

(* "Overwrite them anyway?"  No leaves everything as it is. *)
Decline ==
  /\ undo.phase = "asking"
  /\ undo' = NoUndo
  /\ UNCHANGED <<toolVars, workspaceVars>>

Retry ==
  /\ undo.phase = "asking"
  /\ Begin(undo.kind, undo.arg,
           IF undo.kind = "undo" THEN {undo.arg} ELSE StepsAfter(undo.arg), TRUE)
  /\ UNCHANGED <<toolVars, workspaceVars>>

UndoPass ==
  \/ \E s \in Steps : ReportConflict(s) \/ PlanStep(s)
  \/ \E r \in undo.todo : RemoveCreated(r) \/ RestoreFile(r)
  \/ MarkReverted \/ Finish

UndoNext ==
  \/ UndoLatest
  \/ \E s \in Steps : UndoStep(s)
  \/ \E n \in 0 .. MaxStep : RewindTo(n)
  \/ UndoPass
  \/ Decline \/ Retry
=============================================================================
