----------------------- MODULE WorkspaceSystem_proofs -----------------------
(***************************************************************************)
(* Proofs about WorkspaceSystem, for every set of paths and contents and   *)
(* every value of the bounds.                                              *)
(***************************************************************************)
EXTENDS WorkspaceInvariants, TLAPS

LEMMA InitIInv == Init => IInv
<1> SUFFICES ASSUME Init PROVE IInv
  OBVIOUS
<1> USE WorkspaceAssumption, ToolsAssumption DEF Init, WorkspaceInit, ToolsInit, UndoInit, NoCall
<1>1. WorkspaceTypeOK
  BY DEF WorkspaceTypeOK
<1>2. ToolsTypeOK
  BY DEF ToolsTypeOK
<1>3. UndoTypeOK
  BY DEF UndoTypeOK, Undo, NoUndo, Steps
<1>4. CallShape /\ BlobsBeforeRow /\ NamedStep /\ RowBlobsStored
  BY DEF CallShape, BlobsBeforeRow, NamedStep, NoUndo, RowBlobsStored
<1> QED
  BY <1>1, <1>2, <1>3, <1>4 DEF IInv, TypeOK

-----------------------------------------------------------------------------
(* A call in flight is one of the calls prepare() builds. *)
LEMMA CallInFlight ==
  ASSUME ToolsTypeOK, call.phase # "idle"
  PROVE  call \in Call
BY DEF ToolsTypeOK, NoCall

(* The row a call records next has the type of a checkpoint. *)
LEMMA EntryType ==
  ASSUME ToolsTypeOK, CallShape, call.phase # "idle"
  PROVE  Entry(call) \in [path : Paths, before : File, after : File]
<1>1. call \in Call
  BY CallInFlight
<1> QED
  BY <1>1 DEF Entry, Call, File

(* The tools preserve the invariant: one step per action. *)
LEMMA ToolsPreserve ==
  ASSUME IInv, ToolsNext, UNCHANGED undo
  PROVE  IInv'
<1> USE WorkspaceAssumption, ToolsAssumption
<1>0. UndoTypeOK' /\ NamedStep'
  BY DEF IInv, TypeOK, UndoTypeOK, NamedStep
<1> USE DEF IInv, TypeOK
<1>1. CASE BeginTurn \/ NextStep \/ EndTurn
  <2>1. WorkspaceTypeOK' /\ RowBlobsStored'
    BY <1>1 DEF BeginTurn, NextStep, EndTurn, workspaceVars, WorkspaceTypeOK, RowBlobsStored
  <2>2. ToolsTypeOK'
    BY <1>1 DEF BeginTurn, NextStep, EndTurn, InTurn, ToolsTypeOK
  <2>3. CallShape' /\ BlobsBeforeRow'
    BY <1>1 DEF BeginTurn, NextStep, EndTurn, InTurn, Idle, workspaceVars, CallShape, BlobsBeforeRow,
                Owed, Steps, Entry
  <2> QED
    BY <1>0, <2>1, <2>2, <2>3
<1>2. ASSUME NEW p \in Paths, ReadFile(p)
      PROVE  IInv'
  <2>1. WorkspaceTypeOK' /\ RowBlobsStored'
    BY <1>2 DEF ReadFile, workspaceVars, WorkspaceTypeOK, RowBlobsStored
  <2>2. ToolsTypeOK'
    BY <1>2 DEF ReadFile, ToolsTypeOK, WorkspaceTypeOK, File
  <2>3. CallShape' /\ BlobsBeforeRow'
    BY <1>2 DEF ReadFile, Idle, CallShape, BlobsBeforeRow
  <2> QED
    BY <1>0, <2>1, <2>2, <2>3
<1>3. ASSUME NEW tool, NEW p \in Paths, NEW q \in Paths, NEW new \in File,
             Propose(tool, p, q, new),
             tool \in {"edit", "write"} => new \in Contents,
             tool \in {"move", "delete"} => disk[p] \in Contents,
             tool = "delete" => new = NoFile,
             tool = "move" => p # q
      PROVE  IInv'
  <2>1. WorkspaceTypeOK' /\ RowBlobsStored'
    BY <1>3 DEF Propose, workspaceVars, WorkspaceTypeOK, RowBlobsStored
  <2>2. ToolsTypeOK'
    BY <1>3 DEF Propose, ToolsTypeOK, WorkspaceTypeOK, Call
  <2>3. CallShape' /\ BlobsBeforeRow'
    BY <1>3 DEF Propose, workspaceVars, InTurn, CallShape, BlobsBeforeRow, Owed, Steps, ToolsTypeOK,
                WorkspaceTypeOK
  <2> QED
    BY <1>0, <2>1, <2>2, <2>3
<1>4. ASSUME NEW p \in Paths, PrepareEdit(p) \/ PrepareWrite(p) \/ PrepareDelete(p)
      PROVE  IInv'
  BY <1>3, <1>4 DEF PrepareEdit, PrepareWrite, PrepareDelete, File, WorkspaceTypeOK
<1>5. ASSUME NEW p \in Paths, NEW q \in Paths, PrepareMove(p, q)
      PROVE  IInv'
  BY <1>3, <1>5 DEF PrepareMove, File, WorkspaceTypeOK
<1>6. CASE Reject \/ Verify
  <2>1. WorkspaceTypeOK' /\ RowBlobsStored'
    BY <1>6 DEF Reject, Verify, workspaceVars, WorkspaceTypeOK, RowBlobsStored
  <2>2. call.phase = "approving" /\ call \in Call
    BY <1>6, CallInFlight DEF Reject, Verify
  <2>3. call' \in {NoCall, [call EXCEPT !.phase = "putting"]}
    BY <1>6 DEF Reject, Verify
  <2>4. ToolsTypeOK'
    BY <1>6, <2>2, <2>3 DEF Reject, Verify, ToolsTypeOK, Call
  <2>5. CallShape' /\ BlobsBeforeRow'
    BY <1>6, <2>2, <2>3 DEF Reject, Verify, workspaceVars, CallShape, BlobsBeforeRow, Owed, NoCall, Call
  <2> QED
    BY <1>0, <2>1, <2>4, <2>5
<1>7. CASE StoreBlobs
  <2>1. call.phase = "putting" /\ call \in Call
    BY <1>7, CallInFlight DEF StoreBlobs
  <2>2. Entry(call) \in [path : Paths, before : File, after : File]
    BY <2>1, EntryType
  <2>3. WorkspaceTypeOK' /\ RowBlobsStored'
    BY <1>7, <2>2 DEF StoreBlobs, PutBlobs, File, WorkspaceTypeOK, RowBlobsStored
  <2>4. ToolsTypeOK'
    BY <1>7, <2>1 DEF StoreBlobs, ToolsTypeOK, Call
  <2>5. CallShape'
    BY <1>7, <2>1 DEF StoreBlobs, CallShape, Owed, Call
  <2>6. Entry(call)' = Entry(call)
    BY <1>7, <2>1 DEF StoreBlobs, Entry, Call
  <2>7. BlobsBeforeRow'
    BY <1>7, <2>6 DEF StoreBlobs, PutBlobs, BlobsBeforeRow
  <2> QED
    BY <1>0, <2>3, <2>4, <2>5, <2>7
<1>8. CASE RecordCheckpoint
  <2>1. call.phase = "inserting" /\ call \in Call
    BY <1>8, CallInFlight DEF RecordCheckpoint
  <2>2. Entry(call) \in [path : Paths, before : File, after : File]
    BY <2>1, EntryType
  <2> DEFINE row == [id |-> nextId, step |-> step, path |-> Entry(call).path,
                     before |-> Entry(call).before, after |-> Entry(call).after,
                     reverted |-> FALSE]
  <2>3. nextId \in 1 .. MaxRows /\ step \in Steps /\ nextId + Owed <= MaxRows + 1
    BY <2>1 DEF CallShape, Owed, WorkspaceTypeOK
  <2>4. row \in CheckpointEntry /\ row.before = Entry(call).before /\ row.after = Entry(call).after
    BY <2>2, <2>3 DEF CheckpointEntry
  <2>5. rows' = rows \union {row} /\ nextId' = nextId + 1
    BY <1>8 DEF RecordCheckpoint, AddCheckpoint
  <2> HIDE DEF row
  <2>6. WorkspaceTypeOK'
    <3>1. rows' \subseteq CheckpointEntry
      BY <2>4, <2>5 DEF WorkspaceTypeOK
    <3>2. nextId' \in 1 .. MaxRows + 1
      BY <2>3, <2>5
    <3> QED
      BY <1>8, <3>1, <3>2 DEF RecordCheckpoint, WorkspaceTypeOK
  <2>7. RowBlobsStored'
    BY <1>8, <2>1, <2>4, <2>5 DEF RecordCheckpoint, RowBlobsStored, BlobsBeforeRow
  <2>8. ToolsTypeOK'
    BY <1>8, <2>1 DEF RecordCheckpoint, ToolsTypeOK, Call
  <2>9. CallShape' /\ BlobsBeforeRow'
    <3>1. CASE call.tool = "move" /\ call.recorded = 0
      <4>1. call' = [call EXCEPT !.phase = "putting", !.recorded = 1] /\ step' = step
        BY <1>8, <3>1 DEF RecordCheckpoint
      <4>2. Owed = 2 /\ Owed' = 1
        BY <2>1, <3>1, <4>1 DEF Owed, Call
      <4> QED
        BY <2>1, <2>3, <2>5, <3>1, <4>1, <4>2 DEF CallShape, BlobsBeforeRow, Call, WorkspaceTypeOK
    <3>2. CASE ~(call.tool = "move" /\ call.recorded = 0)
      <4>1. call' = [call EXCEPT !.phase = "mutating"] /\ step' = step
        BY <1>8, <3>2 DEF RecordCheckpoint
      <4> QED
        BY <2>1, <4>1 DEF CallShape, BlobsBeforeRow, Call
    <3> QED
      BY <3>1, <3>2
  <2> QED
    BY <1>0, <2>6, <2>7, <2>8, <2>9
<1>9. CASE Mutate \/ MutationFails
  <2>1. call.phase = "mutating" /\ call \in Call /\ call' = NoCall
    BY <1>9, CallInFlight DEF Mutate, Commit, Move, Delete, MutationFails
  <2>2. RowBlobsStored'
    BY <1>9 DEF Mutate, Commit, Move, Delete, MutationFails, RowBlobsStored
  <2>3. CallShape' /\ BlobsBeforeRow'
    BY <2>1 DEF CallShape, BlobsBeforeRow, NoCall
  <2>4. ASSUME NEW b \in Contents, IntoTrash(call.path, b)
        PROVE  trash' \subseteq Trashed
    BY <2>1, <2>4 DEF IntoTrash, Trashed, Call, WorkspaceTypeOK
  <2>5. WorkspaceTypeOK' /\ ToolsTypeOK'
    <3>1. CASE Commit
      BY <2>1, <3>1 DEF Commit, CallShape, Call, File, WorkspaceTypeOK, ToolsTypeOK
    <3>2. CASE Move
      BY <2>1, <3>2 DEF Move, CallShape, Call, File, WorkspaceTypeOK, ToolsTypeOK
    <3>3. CASE Delete
      <4>1. disk[call.path] \in Contents
        BY <2>1, <3>3 DEF Delete, Call, File, WorkspaceTypeOK
      <4>2. trash' \subseteq Trashed
        BY <2>4, <3>3, <4>1 DEF Delete
      <4> QED
        BY <2>1, <3>3, <4>2 DEF Delete, Call, File, WorkspaceTypeOK, ToolsTypeOK
    <3>4. CASE MutationFails
      <4>1. trash' \subseteq Trashed
        BY <2>1, <2>4, <3>4 DEF MutationFails, CallShape, WorkspaceTypeOK
      <4> QED
        BY <2>1, <3>4, <4>1 DEF MutationFails, WorkspaceTypeOK, ToolsTypeOK
    <3> QED
      BY <1>9, <3>1, <3>2, <3>3, <3>4 DEF Mutate
  <2> QED
    BY <1>0, <2>2, <2>3, <2>5
<1> QED
  BY <1>1, <1>2, <1>4, <1>5, <1>6, <1>7, <1>8, <1>9 DEF ToolsNext

(* The undo commands write no blob and insert no row.  First, what each    *)
(* way of writing the undo record makes of it.                             *)
LEMMA NoUndoType == NoUndo \in Undo
BY WorkspaceAssumption DEF NoUndo, Undo, Steps

LEMMA BeginType ==
  ASSUME NEW kind \in {"undo", "rewind"}, NEW arg \in 0 .. MaxStep,
         NEW targets \in SUBSET Steps, NEW force \in BOOLEAN, Begin(kind, arg, targets, force),
         kind = "undo" => arg \in Steps
  PROVE  UndoTypeOK' /\ NamedStep'
<1>1. undo' = [phase |-> "checking", kind |-> kind, arg |-> arg, force |-> force,
               todoSteps |-> targets, current |-> 1, planned |-> {}, todo |-> {},
               conflicts |-> FALSE]
  BY DEF Begin, NoUndo
<1>2. 1 \in Steps
  BY WorkspaceAssumption DEF Steps
<1> QED
  BY <1>1, <1>2 DEF UndoTypeOK, NamedStep, Undo

LEMMA SubsetType ==
  ASSUME NEW u \in Undo, NEW S \in SUBSET Steps, NEW E \in SUBSET CheckpointEntry
  PROVE  /\ [u EXCEPT !.todoSteps = S] \in Undo
         /\ [u EXCEPT !.todoSteps = S, !.conflicts = TRUE] \in Undo
         /\ [u EXCEPT !.todo = E] \in Undo
         /\ [u EXCEPT !.phase = "checking", !.todoSteps = S, !.planned = {}] \in Undo
         /\ [u EXCEPT !.phase = "asking"] \in Undo
BY DEF Undo

LEMMA PlanType ==
  ASSUME NEW u \in Undo, NEW s \in Steps, NEW E \in SUBSET CheckpointEntry
  PROVE  [u EXCEPT !.phase = "restoring", !.current = s, !.planned = E, !.todo = E] \in Undo
BY DEF Undo

LEMMA UndoFields ==
  ASSUME UndoTypeOK
  PROVE  /\ undo.kind \in {"undo", "rewind"}
         /\ undo.arg \in 0 .. MaxStep
         /\ undo.todoSteps \subseteq Steps
         /\ undo.current \in Steps
         /\ undo.planned \subseteq CheckpointEntry
         /\ undo.todo \subseteq CheckpointEntry
BY DEF UndoTypeOK, Undo

LEMMA StepsAfterType ==
  ASSUME WorkspaceTypeOK, NEW n
  PROVE  StepsAfter(n) \in SUBSET Steps
BY DEF StepsAfter, OpenSteps, WriteSteps, WorkspaceTypeOK, CheckpointEntry

(* A step of a running command keeps what it was asked to do.              *)
LEMMA NamedStepKept ==
  ASSUME UndoTypeOK, NamedStep, UndoPass \/ Decline
  PROVE  NamedStep'
<1>1. undo.phase # "idle"
  BY DEF UndoPass, ReportConflict, PlanStep, RemoveCreated, RestoreFile, MarkReverted,
         Finish, Decline
<1>2. CASE undo' = NoUndo
  BY <1>2 DEF NoUndo, NamedStep
<1>3. CASE undo' # NoUndo
  BY <1>1, <1>3 DEF UndoTypeOK, Undo, NamedStep, UndoPass, ReportConflict, PlanStep,
         RemoveCreated, RestoreFile, RestoreDone, MarkReverted, Finish, Decline
<1> QED
  BY <1>2, <1>3

LEMMA UndoPreserves ==
  ASSUME IInv, UndoNext
  PROVE  IInv'
<1>0. WorkspaceTypeOK /\ ToolsTypeOK /\ UndoTypeOK /\ NamedStep /\ RowBlobsStored
  BY DEF IInv, TypeOK
<1>1. ToolsTypeOK' /\ CallShape' /\ BlobsBeforeRow'
  <2>1. UNCHANGED <<turn, step, known, seen, call, blobs, nextId>>
    BY DEF UndoNext, UndoLatest, UndoStep, RewindTo, UndoPass, ReportConflict, PlanStep,
           RemoveCreated, RestoreFile, MarkReverted, Finish, Decline, Retry, toolVars, workspaceVars
  <2> QED
    BY <2>1 DEF IInv, TypeOK, ToolsTypeOK, CallShape, Owed, BlobsBeforeRow, Entry
<1>2. ASSUME WorkspaceTypeOK', RowBlobsStored', UndoTypeOK', NamedStep'
      PROVE  IInv'
  BY <1>1, <1>2 DEF IInv, TypeOK
<1>3. ASSUME UNCHANGED workspaceVars, UndoTypeOK', NamedStep'
      PROVE  IInv'
  BY <1>0, <1>2, <1>3 DEF workspaceVars, WorkspaceTypeOK, RowBlobsStored
<1>4. ASSUME NEW s \in Steps, UndoStep(s)
      PROVE  IInv'
  <2>1. Begin("undo", s, {s}, FALSE) /\ UNCHANGED workspaceVars
    BY <1>4 DEF UndoStep
  <2>2. s \in 0 .. MaxStep /\ {s} \in SUBSET Steps
    BY DEF Steps
  <2> QED
    BY <1>3, <2>1, <2>2, BeginType
<1>5. ASSUME NEW n \in 0 .. MaxStep, RewindTo(n)
      PROVE  IInv'
  <2>1. Begin("rewind", n, StepsAfter(n), FALSE) /\ UNCHANGED workspaceVars
    BY <1>5 DEF RewindTo
  <2> QED
    BY <1>0, <1>3, <2>1, BeginType, StepsAfterType
<1>6. ASSUME NEW s \in Steps, ReportConflict(s) \/ PlanStep(s)
      PROVE  IInv'
  <2>1. EntriesForStep(s) \in SUBSET CheckpointEntry
    BY <1>0 DEF EntriesForStep, WorkspaceTypeOK
  <2>2. undo.todoSteps \ {s} \in SUBSET Steps
    BY <1>0, UndoFields
  <2>3. \/ undo' = [undo EXCEPT !.todoSteps = undo.todoSteps \ {s}]
        \/ undo' = [undo EXCEPT !.todoSteps = undo.todoSteps \ {s}, !.conflicts = TRUE]
        \/ undo' = [undo EXCEPT !.phase = "restoring", !.current = s,
                                !.planned = EntriesForStep(s), !.todo = EntriesForStep(s)]
    BY <1>6 DEF ReportConflict, PlanStep
  <2>4. UndoTypeOK'
    <3>1. undo \in Undo
      BY <1>0 DEF UndoTypeOK
    <3>2. /\ [undo EXCEPT !.todoSteps = undo.todoSteps \ {s}] \in Undo
          /\ [undo EXCEPT !.todoSteps = undo.todoSteps \ {s}, !.conflicts = TRUE] \in Undo
      BY <3>1, <2>1, <2>2, SubsetType
    <3>3. [undo EXCEPT !.phase = "restoring", !.current = s,
                       !.planned = EntriesForStep(s), !.todo = EntriesForStep(s)] \in Undo
      BY <3>1, <2>1, PlanType
    <3> QED
      BY <2>3, <3>2, <3>3 DEF UndoTypeOK
  <2> QED
    BY <1>0, <1>3, <1>6, <2>4, NamedStepKept DEF UndoPass, ReportConflict, PlanStep
<1>7. ASSUME NEW r \in undo.todo, RemoveCreated(r) \/ RestoreFile(r)
      PROVE  IInv'
  <2>1. r \in CheckpointEntry /\ undo.todo \ {r} \in SUBSET CheckpointEntry
    BY <1>0, UndoFields
  <2>2. undo' = [undo EXCEPT !.todo = undo.todo \ {r}]
    BY <1>7 DEF RemoveCreated, RestoreFile, RestoreDone
  <2>3. UndoTypeOK'
    BY <1>0, <2>1, <2>2, SubsetType DEF UndoTypeOK
  <2>4. RowBlobsStored'
    BY <1>0, <1>7 DEF RemoveCreated, RestoreFile, RowBlobsStored
  <2>8. NamedStep'
    BY <1>0, <1>7, NamedStepKept DEF UndoPass
  <2>5. r.path \in Paths /\ r.before \in File
    BY <2>1 DEF CheckpointEntry
  <2>6. CASE RemoveCreated(r)
    <3>1. disk[r.path] \in Contents \union {NoFile}
      BY <1>0, <2>5 DEF WorkspaceTypeOK, File
    <3>2. trash' \subseteq Trashed
      BY <1>0, <2>5, <2>6, <3>1 DEF RemoveCreated, WorkspaceTypeOK, Trashed
    <3> QED
      BY <1>0, <1>2, <2>3, <2>4, <2>5, <2>6, <2>8, <3>2 DEF RemoveCreated, WorkspaceTypeOK, File
  <2>7. CASE RestoreFile(r)
    BY <1>0, <1>2, <2>3, <2>4, <2>5, <2>7, <2>8 DEF RestoreFile, WorkspaceTypeOK
  <2> QED
    BY <1>7, <2>6, <2>7
<1>8. CASE MarkReverted
  <2>1. rows' \subseteq CheckpointEntry /\ RowBlobsStored'
    BY <1>0, <1>8 DEF MarkReverted, MarkStepReverted, WorkspaceTypeOK, CheckpointEntry, RowBlobsStored
  <2>2. undo' = [undo EXCEPT !.phase = "checking", !.todoSteps = undo.todoSteps \ {undo.current},
                             !.planned = {}]
    BY <1>8 DEF MarkReverted
  <2>3. undo.todoSteps \ {undo.current} \in SUBSET Steps
    BY <1>0, UndoFields
  <2>4. UndoTypeOK'
    BY <1>0, <2>2, <2>3, SubsetType DEF UndoTypeOK
  <2> QED
    BY <1>0, <1>2, <1>8, <2>1, <2>4, NamedStepKept DEF UndoPass, MarkReverted, WorkspaceTypeOK
<1>9. CASE Finish \/ Decline
  <2>1. undo' = NoUndo \/ undo' = [undo EXCEPT !.phase = "asking"]
    BY <1>9 DEF Finish, Decline
  <2>2. UndoTypeOK'
    BY <1>0, <2>1, NoUndoType, SubsetType DEF UndoTypeOK
  <2> QED
    BY <1>0, <1>3, <1>9, <2>2, NamedStepKept DEF UndoPass, Finish, Decline
<1>10. CASE Retry
  <2> DEFINE targets == IF undo.kind = "undo" THEN {undo.arg} ELSE StepsAfter(undo.arg)
  <2>1. targets \in SUBSET Steps
    BY <1>0, <1>10, StepsAfterType DEF Retry, NamedStep
  <2>2. Begin(undo.kind, undo.arg, targets, TRUE) /\ UNCHANGED workspaceVars
    BY <1>10 DEF Retry
  <2> QED
    BY <1>0, <1>3, <1>10, <2>1, <2>2, BeginType, UndoFields DEF Retry, NamedStep
<1> QED
  BY <1>4, <1>5, <1>6, <1>7, <1>8, <1>9, <1>10 DEF UndoNext, UndoLatest, UndoPass

(* The clock, the editor and crashes. *)
LEMMA EnvironmentPreserves ==
  ASSUME IInv,
         \/ Tick /\ UNCHANGED <<toolVars, undo>>
         \/ \E p \in UserPaths : UserEdit(p)
         \/ Crash
         \/ CrashUndo
  PROVE  IInv'
<1> USE WorkspaceAssumption, ToolsAssumption DEF IInv, TypeOK
<1>1. CASE Tick /\ UNCHANGED <<toolVars, undo>>
  BY <1>1 DEF Tick, toolVars, WorkspaceTypeOK, ToolsTypeOK, UndoTypeOK, CallShape, Owed, BlobsBeforeRow,
              NamedStep, Entry, RowBlobsStored
<1>2. ASSUME NEW p \in UserPaths, UserEdit(p)
      PROVE  IInv'
  <2>1. disk' \in [Paths -> File]
    BY <1>2 DEF UserEdit, WorkspaceTypeOK
  <2> QED
    BY <1>2, <2>1 DEF UserEdit, toolVars, WorkspaceTypeOK, ToolsTypeOK, UndoTypeOK, CallShape, Owed,
                      NamedStep, BlobsBeforeRow, Entry, RowBlobsStored
<1>3. CASE Crash
  <2>1. ToolsTypeOK' /\ UndoTypeOK' /\ NamedStep'
    BY <1>3, NoUndoType DEF Crash, ToolsTypeOK, UndoTypeOK, NamedStep, NoUndo
  <2> QED
    BY <1>3, <2>1 DEF Crash, workspaceVars, NoCall, WorkspaceTypeOK, CallShape, BlobsBeforeRow, RowBlobsStored
<1>4. CASE CrashUndo
  <2>1. UndoTypeOK' /\ NamedStep'
    BY <1>4, NoUndoType DEF CrashUndo, UndoTypeOK, NamedStep, NoUndo
  <2> QED
    BY <1>4, <2>1 DEF CrashUndo, workspaceVars, toolVars, WorkspaceTypeOK, ToolsTypeOK, CallShape, Owed,
                      BlobsBeforeRow, Entry, RowBlobsStored
<1> QED
  BY <1>1, <1>2, <1>3, <1>4

-----------------------------------------------------------------------------
LEMMA NextIInv ==
  ASSUME IInv, [Next]_vars
  PROVE  IInv'
<1>1. CASE Scheduled /\ ToolsNext /\ UNCHANGED undo
  BY <1>1, ToolsPreserve
<1>2. CASE UndoNext
  BY <1>2, UndoPreserves
<1>3. CASE Tick /\ UNCHANGED <<toolVars, undo>>
  BY <1>3, EnvironmentPreserves
<1>4. CASE (\E p \in UserPaths : UserEdit(p)) \/ Crash \/ CrashUndo
  BY <1>4, EnvironmentPreserves
<1>5. CASE UNCHANGED vars
  BY <1>5 DEF vars, workspaceVars, toolVars, IInv, TypeOK, WorkspaceTypeOK, ToolsTypeOK, UndoTypeOK,
              CallShape, Owed, BlobsBeforeRow, NamedStep, Entry, RowBlobsStored
<1> QED
  BY <1>1, <1>2, <1>3, <1>4, <1>5 DEF Next

(* The type invariant and the blob invariant, in every behaviour. *)
THEOREM InvariantIInv == Spec => []IInv
<1>1. IInv /\ [Next]_vars => IInv'
  BY NextIInv
<1> QED
  BY InitIInv, <1>1, PTL DEF Spec

(* No row ever names a blob that is not stored, with `hearth undo` beside  *)
(* the session, saves at any moment and crashes.                           *)
THEOREM StoredTheorem == Spec => []RowBlobsStored
BY InvariantIInv, PTL DEF IInv

-----------------------------------------------------------------------------
(* A row goes into the table with the highest id, under the running step. *)
LEMMA RecordKeepsOrder ==
  ASSUME IInv, StepsInOrder, RecordCheckpoint
  PROVE  StepsInOrder'
<1>1. InTurn /\ step \in Nat /\ nextId \in Nat /\ rows \subseteq CheckpointEntry
  BY WorkspaceAssumption, ToolsAssumption
     DEF RecordCheckpoint, IInv, TypeOK, CallShape, WorkspaceTypeOK, ToolsTypeOK, InTurn, Steps
<1> DEFINE e == [id |-> nextId, step |-> step, path |-> Entry(call).path, before |-> Entry(call).before,
                 after |-> Entry(call).after, reverted |-> FALSE]
<1>2. rows' = rows \union {e} /\ nextId' = nextId + 1
  BY DEF RecordCheckpoint, AddCheckpoint
<1>6. e.id = nextId /\ e.step = step
  OBVIOUS
<1> HIDE DEF e
<1>3. \A r \in rows : r.id \in Nat /\ r.step \in Nat /\ r.id < nextId /\ r.step <= step
  BY <1>1, WorkspaceAssumption DEF StepsInOrder, CheckpointEntry, Steps
<1>4. step' = step /\ turn' = turn
  BY DEF RecordCheckpoint
<1>5. turn' # 0
  BY <1>1, <1>4 DEF StepsInOrder, InTurn
<1> QED
  BY <1>1, <1>2, <1>3, <1>4, <1>5, <1>6 DEF StepsInOrder, InTurn

(* Marking changes neither the ids nor the steps of the rows. *)
LEMMA MarkKeepsOrder ==
  ASSUME StepsInOrder, rows \subseteq CheckpointEntry, NEW s, MarkStepReverted(s),
         UNCHANGED <<turn, step, nextId>>
  PROVE  StepsInOrder'
<1>1. \A r \in rows' : \E q \in rows : r.id = q.id /\ r.step = q.step
  BY DEF MarkStepReverted, CheckpointEntry
<1> QED
  BY <1>1 DEF StepsInOrder, InTurn

(* What leaves the table and the turn alone. *)
LEMMA OthersKeepOrder ==
  ASSUME StepsInOrder, UNCHANGED <<rows, nextId, turn, step>>
  PROVE  StepsInOrder'
BY DEF StepsInOrder, InTurn

LEMMA NextStepsInOrder ==
  ASSUME MaxTurns = 1, IInv, StepsInOrder, [Next]_vars
  PROVE  StepsInOrder'
<1>1. rows \subseteq CheckpointEntry /\ turn \in 0 .. 1 /\ step \in Nat
  BY WorkspaceAssumption DEF IInv, TypeOK, WorkspaceTypeOK, ToolsTypeOK
<1>2. CASE RecordCheckpoint
  BY <1>2, RecordKeepsOrder
<1>3. CASE MarkReverted
  BY <1>1, <1>3, MarkKeepsOrder DEF MarkReverted, toolVars
<1>4. CASE BeginTurn
  <2>1. rows = {}
    BY <1>1, <1>4 DEF BeginTurn, StepsInOrder
  <2> QED
    BY <1>1, <1>4, <2>1 DEF BeginTurn, workspaceVars, StepsInOrder
<1>5. CASE NextStep
  <2>1. \A r \in rows : r.step \in Nat
    BY <1>1, WorkspaceAssumption DEF CheckpointEntry, Steps
  <2> QED
    BY <1>1, <1>5, <2>1 DEF NextStep, InTurn, workspaceVars, StepsInOrder
<1>6. CASE EndTurn \/ Crash
  BY <1>1, <1>6 DEF EndTurn, Crash, InTurn, workspaceVars, StepsInOrder
<1>7. CASE \/ \E p \in Paths : ReadFile(p) \/ PrepareEdit(p) \/ PrepareWrite(p) \/ PrepareDelete(p)
           \/ \E p, q \in Paths : PrepareMove(p, q)
           \/ Reject \/ Verify \/ StoreBlobs \/ Mutate \/ MutationFails
  BY <1>7, OthersKeepOrder
     DEF ReadFile, PrepareEdit, PrepareWrite, PrepareDelete, PrepareMove, Propose, Reject, Verify,
         StoreBlobs, Mutate, Commit, Move, Delete, MutationFails, workspaceVars
<1>8. CASE UndoNext /\ ~ MarkReverted
  BY <1>8, OthersKeepOrder
     DEF UndoNext, UndoLatest, UndoStep, RewindTo, UndoPass, ReportConflict, PlanStep, RemoveCreated,
         RestoreFile, Finish, Decline, Retry, toolVars, workspaceVars
<1>9. CASE \/ Tick /\ UNCHANGED <<toolVars, undo>>
           \/ \E p \in UserPaths : UserEdit(p)
           \/ CrashUndo
           \/ UNCHANGED vars
  BY <1>9, OthersKeepOrder DEF Tick, UserEdit, CrashUndo, vars, toolVars, workspaceVars
<1> QED
  BY <1>2, <1>3, <1>4, <1>5, <1>6, <1>7, <1>8, <1>9 DEF Next, ToolsNext

(* In a session of one turn a bare /undo takes the step of the most recent *)
(* write that is still open, however many steps the turn has and whatever  *)
(* was reverted, edited or cut off before.                                 *)
THEOREM LatestTheorem ==
  ASSUME MaxTurns = 1
  PROVE  Spec => []UndoTakesMostRecentWrite
<1>1. Init => StepsInOrder
  BY DEF Init, WorkspaceInit, ToolsInit, StepsInOrder, InTurn
<1>2. IInv /\ StepsInOrder /\ [Next]_vars => StepsInOrder'
  BY NextStepsInOrder
<1>3. IInv /\ StepsInOrder => UndoTakesMostRecentWrite
  <2> SUFFICES ASSUME IInv, StepsInOrder, NEW r \in rows, ~ r.reverted,
                      \A q \in rows : ~ q.reverted => q.id <= r.id
               PROVE  IsLatestStep(r.step)
    BY DEF UndoTakesMostRecentWrite
  <2>1. r.step \in OpenSteps
    BY DEF OpenSteps, WriteSteps, StepReverted, EntriesForStep
  <2>2. ASSUME NEW t \in OpenSteps
        PROVE  t <= r.step
    <3>1. PICK q \in rows : q.step = t /\ ~ q.reverted
      BY DEF OpenSteps, WriteSteps, StepReverted, EntriesForStep
    <3> QED
      BY <3>1 DEF StepsInOrder
  <2> QED
    BY <2>1, <2>2 DEF IsLatestStep
<1> QED
  BY InvariantIInv, <1>1, <1>2, <1>3, PTL DEF Spec

-----------------------------------------------------------------------------
(* The write protocol and the revert, proved for a session that no second  *)
(* process reverts under and no editor races: the three action properties  *)
(* EveryWriteCheckpointed, LandsOnPreview and UndoRestoresStep.            *)

LEMMA InitSInv == Init => SInv
<1> SUFFICES ASSUME Init PROVE SInv
  OBVIOUS
<1>1. IInv
  BY InitIInv
<1>2. call.phase = "idle" /\ undo.phase = "idle"
  BY DEF Init, ToolsInit, UndoInit, NoCall, NoUndo
<1> QED
  BY <1>1, <1>2 DEF SInv, TurnOrUndo, QuietCall, EntryRecorded, RestoredSoFar

(* With no call in flight and no revert in progress there is nothing to    *)
(* show but the exclusion.                                                 *)
LEMMA IdleSInv ==
  ASSUME IInv', call'.phase = "idle", undo'.phase = "idle"
  PROVE  SInv'
BY DEF SInv, TurnOrUndo, QuietCall, EntryRecorded, RestoredSoFar

(* The tools, one step per action that starts or advances a call.          *)
LEMMA ToolsSafe ==
  ASSUME SInv, IInv', undo.phase = "idle", ToolsNext, UNCHANGED undo
  PROVE  SInv'
<1>1. IInv /\ CallShape /\ ToolsTypeOK /\ QuietCall /\ EntryRecorded
  BY DEF SInv, IInv, TypeOK
<1>2. TurnOrUndo' /\ RestoredSoFar'
  BY DEF TurnOrUndo, RestoredSoFar
<1>3. ASSUME QuietCall', EntryRecorded'
      PROVE  SInv'
  BY <1>2, <1>3 DEF SInv
<1>4. CASE BeginTurn \/ NextStep \/ EndTurn \/ \E p \in Paths : ReadFile(p)
  <2>1. call.phase = "idle" /\ call' = call
    BY <1>1, <1>4 DEF BeginTurn, NextStep, EndTurn, ReadFile, InTurn, Idle, CallShape, Steps
  <2> QED
    BY <2>1, IdleSInv
<1>5. ASSUME NEW tool, NEW p, NEW q, NEW new, Propose(tool, p, q, new)
      PROVE  SInv'
  <2>1. call'.phase = "approving" /\ call'.recorded = 0
    BY <1>5 DEF Propose
  <2> QED
    BY <1>3, <2>1 DEF QuietCall, EntryRecorded
<1>6. CASE Reject \/ Mutate \/ MutationFails
  <2>1. call' = NoCall
    BY <1>6 DEF Reject, Mutate, Commit, Move, Delete, MutationFails
  <2> QED
    BY <2>1, IdleSInv DEF NoCall
<1>7. CASE Verify
  <2>1. call.phase = "approving" /\ call \in Call /\ call.recorded = 0
    BY <1>1, <1>7, CallInFlight DEF Verify, CallShape
  <2>2. CASE StillAsPrepared
    <3>1. call' = [call EXCEPT !.phase = "putting"] /\ disk' = disk
      BY <1>7, <2>2 DEF Verify, workspaceVars
    <3> QED
      BY <1>3, <2>1, <2>2, <3>1 DEF QuietCall, StillAsPrepared, EntryRecorded, Call
  <2>3. CASE ~ StillAsPrepared
    BY <1>7, <2>3, IdleSInv DEF Verify, NoCall
  <2> QED
    BY <2>2, <2>3
<1>8. CASE StoreBlobs
  <2>1. call.phase = "putting" /\ call \in Call
    BY <1>1, <1>8, CallInFlight DEF StoreBlobs
  <2>2. call' = [call EXCEPT !.phase = "inserting"] /\ UNCHANGED <<disk, rows, step>>
    BY <1>8 DEF StoreBlobs
  <2> QED
    BY <1>1, <1>3, <2>1, <2>2 DEF QuietCall, StillAsPrepared, EntryRecorded, Recorded, Call
<1>9. CASE RecordCheckpoint
  <2>1. call.phase = "inserting" /\ call \in Call /\ UNCHANGED <<disk, step>>
    BY <1>1, <1>9, CallInFlight DEF RecordCheckpoint
  <2>2. rows \subseteq rows' /\ \E r \in rows' : /\ r.path = Entry(call).path /\ r.step = step'
                                              /\ r.before = Entry(call).before
                                              /\ r.after = Entry(call).after /\ ~ r.reverted
    <3> DEFINE row == [id |-> nextId, step |-> step, path |-> Entry(call).path,
                       before |-> Entry(call).before, after |-> Entry(call).after,
                       reverted |-> FALSE]
    <3>1. rows' = rows \union {row}
      BY <1>9 DEF RecordCheckpoint, AddCheckpoint
    <3>2. /\ row.path = Entry(call).path /\ row.step = step /\ row.before = Entry(call).before
          /\ row.after = Entry(call).after /\ ~ row.reverted
      OBVIOUS
    <3> HIDE DEF row
    <3> QED
      BY <2>1, <3>1, <3>2
  <2>3. CASE call.tool = "move" /\ call.recorded = 0
    <3>1. call' = [call EXCEPT !.phase = "putting", !.recorded = 1]
      BY <1>9, <2>3 DEF RecordCheckpoint
    <3>2. Recorded(call.path, call.expected, NoFile)'
      BY <2>1, <2>2, <2>3, <3>1 DEF Entry, Recorded, Call
    <3> QED
      BY <1>1, <1>3, <2>1, <2>3, <3>1, <3>2 DEF QuietCall, StillAsPrepared, EntryRecorded, Call
  <2>4. CASE call.tool = "move" /\ call.recorded = 1
    <3>1. call' = [call EXCEPT !.phase = "mutating"]
      BY <1>9, <2>4 DEF RecordCheckpoint
    <3>2. Recorded(call.path, call.expected, NoFile)'
      BY <1>1, <2>1, <2>2, <2>4, <3>1 DEF EntryRecorded, Recorded, Call
    <3>3. Recorded(call.dst, NoFile, call.expected)'
      BY <2>1, <2>2, <2>4, <3>1 DEF Entry, Recorded, Call
    <3> QED
      BY <1>1, <1>3, <2>1, <2>4, <3>1, <3>2, <3>3 DEF QuietCall, StillAsPrepared, EntryRecorded, Call
  <2>5. CASE call.tool # "move"
    <3>1. call' = [call EXCEPT !.phase = "mutating"]
      BY <1>9, <2>5 DEF RecordCheckpoint
    <3>2. Recorded(call.path, call.expected, call.new)'
      BY <2>1, <2>2, <2>5, <3>1 DEF Entry, Recorded, Call
    <3> QED
      BY <1>1, <1>3, <2>1, <2>5, <3>1, <3>2 DEF QuietCall, StillAsPrepared, EntryRecorded, Call
  <2> QED
    BY <2>1, <2>3, <2>4, <2>5 DEF Call
<1> QED
  BY <1>4, <1>5, <1>6, <1>7, <1>8, <1>9
  DEF ToolsNext, PrepareEdit, PrepareWrite, PrepareMove, PrepareDelete

(* The undo commands: between turns there is no call, so only the files    *)
(* put back so far are at stake.                                           *)
LEMMA UndoSafe ==
  ASSUME ~ ExternalUndo, SInv, IInv', UndoNext
  PROVE  SInv'
<1>1. CallShape /\ UndoTypeOK /\ RestoredSoFar /\ ToolsTypeOK
  BY DEF SInv, IInv, TypeOK
<1>2. step = 0 /\ step' = 0 /\ call' = call
  <2>1. ~ InTurn
    BY DEF SInv, TurnOrUndo, MayCommand, UndoNext, UndoLatest, UndoStep, RewindTo, UndoPass, ReportConflict, PlanStep, RemoveCreated, RestoreFile, MarkReverted, Finish, Decline, Retry
  <2>2. step' = step /\ call' = call
    BY DEF UndoNext, UndoLatest, UndoStep, RewindTo, UndoPass, ReportConflict, PlanStep,
           RemoveCreated, RestoreFile, MarkReverted, Finish, Decline, Retry, toolVars
  <2> QED
    BY <1>1, <2>1, <2>2, WorkspaceAssumption DEF InTurn, ToolsTypeOK
<1>3. call.phase = "idle"
  BY <1>1, <1>2 DEF CallShape, Steps
<1>4. TurnOrUndo' /\ QuietCall' /\ EntryRecorded'
  BY <1>2, <1>3 DEF TurnOrUndo, InTurn, QuietCall, EntryRecorded
<1>5. ASSUME RestoredSoFar'
      PROVE  SInv'
  BY <1>4, <1>5 DEF SInv
<1>6. ASSUME undo'.phase # "restoring"
      PROVE  SInv'
  BY <1>5, <1>6 DEF RestoredSoFar
<1>7. ASSUME NEW s \in Steps, UndoStep(s)
      PROVE  SInv'
  BY <1>6, <1>7 DEF UndoStep, Begin, NoUndo
<1>8. ASSUME NEW n, RewindTo(n)
      PROVE  SInv'
  BY <1>6, <1>8 DEF RewindTo, Begin, NoUndo
<1>9. CASE Retry
  BY <1>6, <1>9 DEF Retry, Begin, NoUndo
<1>10. CASE Decline \/ Finish
  <2>1. undo' = NoUndo \/ undo' = [undo EXCEPT !.phase = "asking"]
    BY <1>10 DEF Decline, Finish
  <2> QED
    BY <1>1, <1>6, <2>1 DEF NoUndo, UndoTypeOK, Undo
<1>11. ASSUME NEW s \in Steps, ReportConflict(s)
       PROVE  SInv'
  BY <1>1, <1>6, <1>11 DEF ReportConflict, UndoTypeOK, Undo
<1>12. ASSUME NEW s \in Steps, PlanStep(s)
       PROVE  SInv'
  <2>1. undo'.todo = EntriesForStep(s) /\ undo'.planned = EntriesForStep(s)
    BY <1>1, <1>12 DEF PlanStep, UndoTypeOK, Undo
  <2> QED
    BY <1>5, <2>1 DEF RestoredSoFar
<1>13. CASE MarkReverted
  <2>1. undo'.phase = "checking"
    BY <1>1, <1>13 DEF MarkReverted, UndoTypeOK, Undo
  <2> QED
    BY <1>6, <2>1
<1>14. ASSUME NEW r \in undo.todo, RemoveCreated(r) \/ RestoreFile(r)
       PROVE  SInv'
  <2>1. undo.phase = "restoring" /\ disk' = [disk EXCEPT ![r.path] = r.before]
    BY <1>14 DEF RemoveCreated, RestoreFile
  <2>2. /\ undo'.todo = undo.todo \ {r} /\ undo'.planned = undo.planned
        /\ undo'.phase = "restoring"
    BY <1>1, <1>14, <2>1 DEF RemoveCreated, RestoreFile, RestoreDone, UndoTypeOK, Undo
  <2>3. undo.todo \subseteq undo.planned
    BY <1>1, <2>1 DEF RestoredSoFar
  <2>4. r.path \in Paths /\ disk \in [Paths -> File]
    BY <1>1, UndoFields DEF SInv, IInv, TypeOK, WorkspaceTypeOK, CheckpointEntry
  <2>5. ASSUME NEW x \in undo.planned \ undo'.todo, EntriesFor(x.path) = {x}
        PROVE  disk'[x.path] = x.before
    <3>1. CASE x = r
      BY <2>1, <2>4, <3>1
    <3>2. CASE x # r
      <4>1. r.path # x.path
        BY <2>3, <2>5, <3>2 DEF EntriesFor
      <4>2. disk[x.path] = x.before
        BY <1>1, <2>1, <2>2, <2>5, <3>2 DEF RestoredSoFar
      <4> QED
        BY <2>1, <2>4, <4>1, <4>2
    <3> QED
      BY <3>1, <3>2
  <2>6. \A x : EntriesFor(x)' = EntriesFor(x)
    BY <2>2 DEF EntriesFor
  <2> QED
    BY <1>5, <2>2, <2>3, <2>5, <2>6 DEF RestoredSoFar
<1> QED
  BY <1>7, <1>8, <1>9, <1>10, <1>11, <1>12, <1>13, <1>14 DEF UndoNext, UndoLatest, UndoPass

(* The environment: an edit falls only where nothing is at stake.          *)
LEMMA EnvironmentSafe ==
  ASSUME ~ EditorRaces, ~ ExternalUndo, SInv, IInv',
         \/ Tick /\ UNCHANGED <<toolVars, undo>>
         \/ \E p \in UserPaths : UserEdit(p)
         \/ Crash
         \/ CrashUndo
  PROVE  SInv'
<1>1. CASE Tick /\ UNCHANGED <<toolVars, undo>>
  BY <1>1 DEF Tick, toolVars, SInv, TurnOrUndo, InTurn, QuietCall, StillAsPrepared, EntryRecorded,
              Recorded, RestoredSoFar, EntriesFor
<1>2. ASSUME NEW p \in UserPaths, UserEdit(p)
      PROVE  SInv'
  <2>1. Quiet /\ UNCHANGED <<toolVars, undo, rows>>
    BY <1>2 DEF UserEdit
  <2> QED
    BY <2>1 DEF Quiet, toolVars, SInv, IInv, CallShape, TurnOrUndo, InTurn, QuietCall, EntryRecorded,
                RestoredSoFar
<1>3. CASE Crash
  BY <1>3, IdleSInv DEF Crash, External, NoCall, NoUndo
<1>4. CASE CrashUndo
  BY <1>4 DEF CrashUndo, External
<1> QED
  BY <1>1, <1>2, <1>3, <1>4

LEMMA NextSInv ==
  ASSUME ~ EditorRaces, ~ ExternalUndo, SInv, [Next]_vars
  PROVE  SInv'
<1>1. IInv'
  BY NextIInv DEF SInv
<1>2. CASE Scheduled /\ ToolsNext /\ UNCHANGED undo
  BY <1>1, <1>2, ToolsSafe DEF Scheduled, External
<1>3. CASE UndoNext
  BY <1>1, <1>3, UndoSafe
<1>4. CASE \/ Tick /\ UNCHANGED <<toolVars, undo>>
           \/ \E p \in UserPaths : UserEdit(p)
           \/ Crash
           \/ CrashUndo
  BY <1>1, <1>4, EnvironmentSafe
<1>5. CASE UNCHANGED vars
  BY <1>1, <1>5 DEF vars, workspaceVars, toolVars, SInv, TurnOrUndo, InTurn, QuietCall, StillAsPrepared,
                    EntryRecorded, Recorded, RestoredSoFar, EntriesFor
<1> QED
  BY <1>2, <1>3, <1>4, <1>5 DEF Next

-----------------------------------------------------------------------------
(* A step that ends a call and changes the disk is one of the mutations.   *)
LEMMA OnlyMutate ==
  ASSUME [Next]_vars, ToolStep
  PROVE  Mutate
BY DEF ToolStep, Next, vars, toolVars, workspaceVars, ToolsNext, BeginTurn, NextStep, EndTurn, ReadFile,
       PrepareEdit, PrepareWrite, PrepareMove, PrepareDelete, Propose, Reject, Verify, StoreBlobs,
       RecordCheckpoint, MutationFails, UndoNext, UndoLatest, UndoStep, RewindTo, UndoPass, ReportConflict, PlanStep, RemoveCreated, RestoreFile, MarkReverted, Finish, Decline, Retry, Tick,
       UserEdit, Crash, CrashUndo

(* The strengthened invariant, in every behaviour of the quiet session.    *)
THEOREM InvariantSInv ==
  ASSUME ~ EditorRaces, ~ ExternalUndo
  PROVE  Spec => []SInv
<1>1. SInv /\ [Next]_vars => SInv'
  BY NextSInv
<1> QED
  BY InitSInv, <1>1, PTL DEF Spec

(* A write lands only on the file its approved preview was computed from.  *)
THEOREM PreviewTheorem ==
  ASSUME ~ EditorRaces, ~ ExternalUndo
  PROVE  Spec => LandsOnPreview
<1>1. SInv /\ [Next]_vars =>
        [ToolStep => /\ disk[call.path] = call.expected
                     /\ call.tool = "move" => disk[call.dst] = NoFile]_vars
  <2> SUFFICES ASSUME SInv, [Next]_vars, ToolStep
               PROVE  /\ disk[call.path] = call.expected
                      /\ call.tool = "move" => disk[call.dst] = NoFile
    OBVIOUS
  <2>1. call.phase = "mutating"
    BY OnlyMutate DEF Mutate, Commit, Move, Delete
  <2> QED
    BY <2>1 DEF SInv, QuietCall, StillAsPrepared
<1> QED
  BY InvariantSInv, <1>1, PTL DEF Spec, LandsOnPreview

(* A tool that changes a file leaves an open checkpoint of that change.    *)
THEOREM CheckpointTheorem ==
  ASSUME ~ EditorRaces, ~ ExternalUndo
  PROVE  Spec => EveryWriteCheckpointed
<1>1. SInv /\ [Next]_vars =>
        [ToolStep => \A p \in Paths : disk'[p] # disk[p] => Recorded(p, disk[p], disk'[p])]_vars
  <2> SUFFICES ASSUME SInv, [Next]_vars, ToolStep, NEW p \in Paths, disk'[p] # disk[p]
               PROVE  Recorded(p, disk[p], disk'[p])
    OBVIOUS
  <2>1. Mutate /\ call.phase = "mutating"
    BY OnlyMutate DEF Mutate, Commit, Move, Delete
  <2>2. CallShape /\ call \in Call /\ disk \in [Paths -> File]
    BY <2>1, CallInFlight DEF SInv, IInv, TypeOK, WorkspaceTypeOK
  <2>3. StillAsPrepared /\ EntryRecorded
    BY <2>1 DEF SInv, QuietCall
  <2>4. CASE Commit
    BY <2>1, <2>2, <2>3, <2>4 DEF Commit, StillAsPrepared, EntryRecorded, Call
  <2>5. CASE Delete
    BY <2>1, <2>2, <2>3, <2>5 DEF Delete, StillAsPrepared, EntryRecorded, CallShape, Call
  <2>6. CASE Move
    <3>1. p = call.path \/ p = call.dst
      BY <2>2, <2>6 DEF Move, Call
    <3>2. CASE p = call.path
      BY <2>1, <2>2, <2>3, <2>6, <3>2 DEF Move, StillAsPrepared, EntryRecorded, CallShape, Call
    <3>3. CASE p = call.dst
      BY <2>1, <2>2, <2>3, <2>6, <3>3 DEF Move, StillAsPrepared, EntryRecorded, CallShape, Call
    <3> QED
      BY <3>1, <3>2, <3>3
  <2> QED
    BY <2>1, <2>4, <2>5, <2>6 DEF Mutate
<1> QED
  BY InvariantSInv, <1>1, PTL DEF Spec, EveryWriteCheckpointed

(* When a step is marked reverted, every file it has one entry for is back.*)
THEOREM RestoreTheorem ==
  ASSUME ~ EditorRaces, ~ ExternalUndo
  PROVE  Spec => UndoRestoresStep
<1>1. SInv =>
        (MarkReverted =>
           \A r \in undo.planned : EntriesFor(r.path) = {r} => disk[r.path] = r.before)
  BY DEF SInv, RestoredSoFar, MarkReverted
<1> QED
  BY InvariantSInv, <1>1, PTL DEF Spec, UndoRestoresStep

-----------------------------------------------------------------------------
(* Only a record and a mark change the table, and only a plan begins to    *)
(* put files back.                                                         *)
LEMMA RowsMove ==
  ASSUME [Next]_vars
  PROVE  rows' = rows \/ RecordCheckpoint \/ MarkReverted
BY DEF Next, vars, toolVars, workspaceVars, ToolsNext, BeginTurn, NextStep, EndTurn, ReadFile,
       PrepareEdit, PrepareWrite, PrepareMove, PrepareDelete, Propose, Reject, Verify, StoreBlobs,
       Mutate, Commit, Move, Delete, MutationFails, UndoNext, UndoLatest, UndoStep, RewindTo, UndoPass,
       ReportConflict, PlanStep, RemoveCreated, RestoreFile, Finish, Decline, Retry, Tick, UserEdit,
       Crash, CrashUndo

LEMMA UndoMoves ==
  ASSUME ~ ExternalUndo, UndoTypeOK, [Next]_vars
  PROVE  \/ undo' = undo /\ ~ MarkReverted
         \/ undo'.phase # "restoring"
         \/ \E s \in Steps : PlanStep(s)
         \/ \E r \in undo.todo : RemoveCreated(r) \/ RestoreFile(r)
<1>1. undo \in Undo
  BY DEF UndoTypeOK
<1>2. ASSUME MarkReverted \/ Finish \/ Decline \/ Retry \/ \E s \in Steps : ReportConflict(s)
      PROVE  undo'.phase # "restoring"
  <2>1. CASE MarkReverted
    BY <1>1, <2>1 DEF MarkReverted, Undo
  <2>2. CASE Finish \/ Decline
    BY <1>1, <2>2 DEF Finish, Decline, NoUndo, Undo
  <2>3. CASE Retry
    BY <2>3 DEF Retry, Begin, NoUndo
  <2>4. ASSUME NEW s \in Steps, ReportConflict(s)
        PROVE  undo'.phase # "restoring"
    BY <1>1, <2>4 DEF ReportConflict, Undo
  <2> QED
    BY <1>2, <2>1, <2>2, <2>3, <2>4
<1>3. ASSUME UndoLatest \/ (\E s \in Steps : UndoStep(s)) \/ \E n \in 0 .. MaxStep : RewindTo(n)
      PROVE  undo'.phase # "restoring"
  BY <1>3 DEF UndoLatest, UndoStep, RewindTo, Begin, NoUndo
<1>4. ASSUME Crash \/ CrashUndo
      PROVE  undo'.phase # "restoring"
  BY <1>4 DEF Crash, CrashUndo, External, NoUndo
<1>5. ASSUME \/ Scheduled /\ ToolsNext /\ UNCHANGED undo
             \/ Tick /\ UNCHANGED <<toolVars, undo>>
             \/ \E p \in UserPaths : UserEdit(p)
             \/ UNCHANGED vars
      PROVE  undo' = undo
  BY <1>5 DEF UserEdit, vars
<1>6. CASE MarkReverted
  BY <1>2, <1>6
<1>7. CASE ~ MarkReverted
  BY <1>2, <1>3, <1>4, <1>5, <1>7 DEF Next, UndoNext, UndoPass
<1> QED
  BY <1>6, <1>7

(* No call records while a revert is under way.                            *)
LEMMA NoRecordBeside ==
  ASSUME SInv, undo.phase = "restoring", [Next]_vars, ~ MarkReverted
  PROVE  rows' = rows
<1>1. call.phase = "idle"
  BY WorkspaceAssumption DEF SInv, IInv, TurnOrUndo, InTurn, CallShape, Steps
<1> QED
  BY <1>1, RowsMove DEF RecordCheckpoint

LEMMA PlannedKept ==
  ASSUME ~ ExternalUndo, SInv, PlannedWhole, [Next]_vars
  PROVE  PlannedWhole'
<1> SUFFICES ASSUME undo'.phase = "restoring"
             PROVE  undo'.planned = {r \in rows' : r.step = undo'.current}
  BY DEF PlannedWhole, EntriesForStep
<1>1. undo \in Undo
  BY DEF SInv, IInv, TypeOK, UndoTypeOK
<1>2. CASE undo' = undo /\ ~ MarkReverted
  BY <1>2, NoRecordBeside DEF PlannedWhole, EntriesForStep
<1>3. ASSUME NEW s \in Steps, PlanStep(s)
      PROVE  undo'.planned = {r \in rows' : r.step = undo'.current}
  BY <1>1, <1>3 DEF PlanStep, EntriesForStep, workspaceVars, Undo
<1>4. ASSUME NEW r \in undo.todo, RemoveCreated(r) \/ RestoreFile(r)
      PROVE  undo'.planned = {q \in rows' : q.step = undo'.current}
  BY <1>1, <1>4 DEF RemoveCreated, RestoreFile, RestoreDone, EntriesForStep, PlannedWhole, Undo
<1> QED
  BY <1>1, <1>2, <1>3, <1>4, UndoMoves DEF UndoTypeOK

(* Only rows whose file was put back are marked reverted.                  *)
THEOREM MarkedTheorem ==
  ASSUME ~ EditorRaces, ~ ExternalUndo
  PROVE  Spec => MarkedMeansRestored
<1>1. Init => PlannedWhole
  BY DEF Init, UndoInit, NoUndo, PlannedWhole
<1>2. SInv /\ PlannedWhole /\ [Next]_vars => PlannedWhole'
  BY PlannedKept
<1>3. SInv /\ PlannedWhole /\ [Next]_vars =>
        [\A r \in rows : (~ r.reverted /\ r \notin rows') => r \in undo.planned]_vars
  <2> SUFFICES ASSUME SInv, PlannedWhole, [Next]_vars, NEW r \in rows, ~ r.reverted, r \notin rows'
               PROVE  r \in undo.planned
    OBVIOUS
  <2>1. MarkReverted
    BY RowsMove DEF RecordCheckpoint, AddCheckpoint
  <2>2. r.step = undo.current
    BY <2>1 DEF MarkReverted, MarkStepReverted
  <2> QED
    BY <2>1, <2>2 DEF MarkReverted, PlannedWhole, EntriesForStep
<1> QED
  BY InvariantSInv, <1>1, <1>2, <1>3, PTL DEF Spec, MarkedMeansRestored

-----------------------------------------------------------------------------
(* What the model has seen only grows, and the registry is set from it.    *)
LEMMA KnownKept ==
  ASSUME "move" \notin Tools, SInv, KnownIsSeen, [Next]_vars
  PROVE  KnownIsSeen'
<1>1. /\ disk \in [Paths -> File] /\ known \in [Paths -> Contents \union {Unread}]
      /\ call \in Call \union {NoCall} /\ Unread \notin File
  BY ToolsAssumption DEF SInv, IInv, TypeOK, WorkspaceTypeOK, ToolsTypeOK
<1>2. ASSUME known' = known, seen' = seen, call' = call \/ call'.phase = "idle"
      PROVE  KnownIsSeen'
  BY <1>2 DEF KnownIsSeen
<1>3. ASSUME NEW p \in Paths, ReadFile(p)
      PROVE  KnownIsSeen'
  BY <1>1, <1>3 DEF ReadFile, KnownIsSeen
<1>4. ASSUME NEW p \in Paths, NEW q \in Paths, NEW tool, NEW new, Propose(tool, p, q, new),
             tool \in {"edit", "write"} => disk[p] \in seen \union {NoFile}
      PROVE  KnownIsSeen'
  <2>1. call'.tool = tool /\ call'.expected = disk[p] /\ UNCHANGED <<known, seen>>
    BY <1>4 DEF Propose
  <2> QED
    BY <1>4, <2>1 DEF KnownIsSeen
<1>5. ASSUME NEW p \in Paths, Fresh(p), disk[p] # NoFile
      PROVE  disk[p] \in seen
  <2>1. known[p] = disk[p] /\ disk[p] # Unread
    BY <1>1, <1>5 DEF Fresh
  <2> QED
    BY <2>1 DEF KnownIsSeen
<1>6. ASSUME NEW p \in Paths, PrepareEdit(p) \/ PrepareWrite(p) \/ PrepareDelete(p)
      PROVE  KnownIsSeen'
  BY <1>4, <1>5, <1>6 DEF PrepareEdit, PrepareWrite, PrepareDelete
<1>7. ASSUME NEW p \in Paths, NEW q \in Paths, PrepareMove(p, q)
      PROVE  KnownIsSeen'
  BY <1>7 DEF PrepareMove, Propose
<1>8. CASE Verify \/ StoreBlobs \/ RecordCheckpoint
  <2>1. call \in Call
    BY <1>1, <1>8 DEF Verify, StoreBlobs, RecordCheckpoint, NoCall
  <2>2. UNCHANGED <<known, seen>>
    BY <1>8 DEF Verify, StoreBlobs, RecordCheckpoint
  <2>3. \/ call'.phase = "idle"
        \/ call.phase # "idle" /\ call'.tool = call.tool /\ call'.expected = call.expected
    BY <1>8, <2>1 DEF Verify, StoreBlobs, RecordCheckpoint, NoCall, Call
  <2> QED
    BY <2>2, <2>3 DEF KnownIsSeen
<1>9. CASE Commit
  <2>1. /\ known' = [known EXCEPT ![call.path] = call.new] /\ seen' = seen \union {call.new}
        /\ call'.phase = "idle"
    BY <1>9 DEF Commit, NoCall
  <2> QED
    BY <1>1, <2>1 DEF KnownIsSeen
<1>10. CASE Move
  <2>1. call \in Call
    BY <1>1, <1>10 DEF Move, NoCall
  <2> QED
    BY <1>10, <2>1 DEF Move, Call
<1>11. CASE Delete
  BY <1>1, <1>11 DEF Delete, NoCall, KnownIsSeen
<1>12. CASE Crash
  BY <1>12 DEF Crash, NoCall, KnownIsSeen
<1>13. CASE BeginTurn \/ NextStep \/ EndTurn \/ Reject \/ MutationFails \/ CrashUndo \/ UNCHANGED vars
  BY <1>2, <1>13 DEF BeginTurn, NextStep, EndTurn, Reject, MutationFails, CrashUndo, vars, toolVars, NoCall
<1>14. CASE \/ UndoNext
            \/ Tick /\ UNCHANGED <<toolVars, undo>>
            \/ \E p \in UserPaths : UserEdit(p)
  <2>1. UNCHANGED toolVars
    BY <1>14 DEF UndoNext, UndoLatest, UndoStep, RewindTo, UndoPass, ReportConflict, PlanStep,
                 RemoveCreated, RestoreFile, MarkReverted, Finish, Decline, Retry, UserEdit
  <2> QED
    BY <1>2, <2>1 DEF toolVars
<1>15. CASE ToolsNext
  BY <1>3, <1>6, <1>7, <1>8, <1>9, <1>10, <1>11, <1>13, <1>15 DEF ToolsNext, Mutate
<1> QED
  BY <1>12, <1>13, <1>14, <1>15 DEF Next

(* An edit or an overwrite replaces only bytes the model has been shown or *)
(* has itself written.  A move takes the registry's entry along unread.    *)
THEOREM ReadTheorem ==
  ASSUME ~ EditorRaces, ~ ExternalUndo, "move" \notin Tools
  PROVE  Spec => ReadBeforeWrite
<1>1. Init => KnownIsSeen
  BY DEF Init, ToolsInit, NoCall, KnownIsSeen
<1>2. SInv /\ KnownIsSeen /\ [Next]_vars => KnownIsSeen'
  BY KnownKept
<1>3. SInv /\ KnownIsSeen /\ [Next]_vars =>
        [(ToolStep /\ call.tool \in {"edit", "write"} /\ disk[call.path] # NoFile)
           => disk[call.path] \in seen]_vars
  <2> SUFFICES ASSUME SInv, KnownIsSeen, [Next]_vars, ToolStep, call.tool \in {"edit", "write"},
                      disk[call.path] # NoFile
               PROVE  disk[call.path] \in seen
    OBVIOUS
  <2>1. call.phase = "mutating"
    BY OnlyMutate DEF Mutate, Commit, Move, Delete
  <2>2. disk[call.path] = call.expected
    BY <2>1 DEF SInv, QuietCall, StillAsPrepared
  <2> QED
    BY <2>1, <2>2 DEF KnownIsSeen
<1> QED
  BY InvariantSInv, <1>1, <1>2, <1>3, PTL DEF Spec, ReadBeforeWrite

-----------------------------------------------------------------------------
(* A step that changes the disk is a mutation, a file put back, or the     *)
(* user's edit.                                                            *)
LEMMA DiskMoves ==
  ASSUME [Next]_vars, disk' # disk
  PROVE  \/ Mutate
         \/ \E r \in undo.todo : RemoveCreated(r) \/ RestoreFile(r)
         \/ \E p \in UserPaths : UserEdit(p)
BY DEF Next, vars, toolVars, workspaceVars, ToolsNext, BeginTurn, NextStep, EndTurn, ReadFile,
       PrepareEdit, PrepareWrite, PrepareMove, PrepareDelete, Propose, Reject, Verify, StoreBlobs,
       RecordCheckpoint, MutationFails, UndoNext, UndoLatest, UndoStep, RewindTo, UndoPass,
       ReportConflict, PlanStep, MarkReverted, Finish, Decline, Retry, Tick, Crash, CrashUndo

(* The store only grows.                                                   *)
LEMMA BlobsGrow ==
  ASSUME [Next]_vars
  PROVE  blobs \subseteq blobs'
<1>1. CASE StoreBlobs
  BY <1>1 DEF StoreBlobs, PutBlobs
<1> QED
  BY <1>1 DEF Next, vars, toolVars, workspaceVars, ToolsNext, BeginTurn, NextStep, EndTurn, ReadFile,
       PrepareEdit, PrepareWrite, PrepareMove, PrepareDelete, Propose, Reject, Verify, RecordCheckpoint,
       Mutate, Commit, Move, Delete, MutationFails, UndoNext, UndoLatest, UndoStep, RewindTo, UndoPass,
       ReportConflict, PlanStep, RemoveCreated, RestoreFile, MarkReverted, Finish, Decline, Retry, Tick,
       UserEdit, Crash, CrashUndo

(* Every row of an edit or an overwrite has an after-image.                *)
LEMMA AfterImages ==
  ASSUME Tools \subseteq {"edit", "write"}, SInv, \A r \in rows : r.after # NoFile, [Next]_vars
  PROVE  \A r \in rows' : r.after # NoFile
<1>1. CASE RecordCheckpoint
  <2>1. call \in Call /\ call.tool \in {"edit", "write"} /\ call.new \in Contents
    <3>1. call \in Call
      BY <1>1, CallInFlight DEF RecordCheckpoint, SInv, IInv, TypeOK
    <3> QED
      BY <1>1, <3>1 DEF RecordCheckpoint, SInv, IInv, CallShape, Call
  <2>2. Entry(call).after # NoFile
    BY <2>1, WorkspaceAssumption DEF Entry
  <2> QED
    BY <1>1, <2>2 DEF RecordCheckpoint, AddCheckpoint
<1>2. CASE MarkReverted
  <2>1. rows \subseteq CheckpointEntry
    BY DEF SInv, IInv, TypeOK, WorkspaceTypeOK
  <2>2. \A r \in rows : [r EXCEPT !.reverted = TRUE].after = r.after
    BY <2>1 DEF CheckpointEntry
  <2>3. ASSUME NEW r \in rows'
        PROVE  r.after # NoFile
    <3>1. PICK q \in rows : r = q \/ r = [q EXCEPT !.reverted = TRUE]
      BY <1>2 DEF MarkReverted, MarkStepReverted
    <3> QED
      BY <2>2, <3>1
  <2> QED
    BY <2>3
<1> QED
  BY <1>1, <1>2, RowsMove

LEMMA OverKeptStays ==
  ASSUME ~ EditorRaces, ~ ExternalUndo, Tools \subseteq {"edit", "write"},
         SInv, OverKeptBytes, [Next]_vars
  PROVE  OverKeptBytes'
<1> SUFFICES ASSUME undo'.phase = "restoring", ~ undo'.force
             PROVE  \A r \in undo'.todo : disk'[r.path] \in blobs' \union {NoFile}
  BY AfterImages DEF OverKeptBytes
<1>1. /\ undo \in Undo /\ disk \in [Paths -> File] /\ blobs \subseteq blobs'
      /\ rows \subseteq CheckpointEntry /\ RowBlobsStored
  BY BlobsGrow DEF SInv, IInv, TypeOK, UndoTypeOK, WorkspaceTypeOK
<1>2. CASE undo' = undo /\ ~ MarkReverted
  <2>1. disk' = disk
    <3>1. ~ Mutate
      <4>1. call.phase = "idle"
        BY <1>2, WorkspaceAssumption DEF SInv, IInv, TurnOrUndo, InTurn, CallShape, Steps
      <4> QED
        BY <4>1 DEF Mutate, Commit, Move, Delete
    <3>2. ASSUME NEW r \in undo.todo, RemoveCreated(r) \/ RestoreFile(r)
          PROVE  FALSE
      <4>1. undo'.todo = undo.todo \ {r}
        BY <1>1, <3>2 DEF RemoveCreated, RestoreFile, RestoreDone, Undo
      <4> QED
        BY <1>2, <3>2, <4>1
    <3>3. ASSUME NEW p \in UserPaths, UserEdit(p)
          PROVE  FALSE
      BY <1>2, <3>3 DEF UserEdit, Quiet
    <3> QED
      BY <3>1, <3>2, <3>3, DiskMoves
  <2> QED
    BY <1>1, <1>2, <2>1 DEF OverKeptBytes
<1>3. ASSUME NEW s \in Steps, PlanStep(s)
      PROVE  \A r \in undo'.todo : disk'[r.path] \in blobs' \union {NoFile}
  <2>1. /\ undo'.todo = EntriesForStep(s) /\ undo'.force = undo.force /\ disk' = disk
        /\ undo.force \/ ~ HasConflict(s)
    BY <1>1, <1>3 DEF PlanStep, Undo, workspaceVars
  <2>2. ASSUME NEW r \in EntriesForStep(s)
        PROVE  disk[r.path] \in blobs \union {NoFile}
    <3>1. r \in rows /\ ~ Conflict(r)
      BY <2>1, <2>2 DEF HasConflict, EntriesForStep
    <3>2. r.after # NoFile
      BY <3>1 DEF OverKeptBytes
    <3>3. disk[r.path] = NoFile \/ disk[r.path] = r.after
      BY <3>1, <3>2 DEF Conflict
    <3>4. r.after \in blobs
      BY <1>1, <3>1, <3>2 DEF RowBlobsStored
    <3> QED
      BY <3>3, <3>4
  <2> QED
    BY <1>1, <2>1, <2>2
<1>4. ASSUME NEW r \in undo.todo, RemoveCreated(r) \/ RestoreFile(r)
      PROVE  \A q \in undo'.todo : disk'[q.path] \in blobs' \union {NoFile}
  <2>1. /\ undo.phase = "restoring" /\ disk' = [disk EXCEPT ![r.path] = r.before]
        /\ r.before \in blobs \union {NoFile}
    BY <1>4 DEF RemoveCreated, RestoreFile
  <2>2. undo'.todo = undo.todo \ {r} /\ undo'.force = undo.force
    BY <1>1, <1>4 DEF RemoveCreated, RestoreFile, RestoreDone, Undo
  <2>3. \A q \in undo.todo : disk[q.path] \in blobs \union {NoFile} /\ q.path \in Paths
    BY <1>1, <2>1, <2>2 DEF OverKeptBytes, Undo, CheckpointEntry
  <2> QED
    BY <1>1, <2>1, <2>2, <2>3
<1> QED
  BY <1>1, <1>2, <1>3, <1>4, UndoMoves DEF UndoTypeOK

(* No step of Hearth leaves a file's bytes nowhere unless the user said to *)
(* overwrite, as long as files are edited and overwritten only: an entry   *)
(* of a deletion or a move has no after-image and never conflicts.         *)
THEOREM NothingDestroyedTheorem ==
  ASSUME ~ EditorRaces, ~ ExternalUndo, Tools \subseteq {"edit", "write"}
  PROVE  Spec => NothingDestroyedUnasked
<1>1. Init => OverKeptBytes
  BY DEF Init, WorkspaceInit, UndoInit, NoUndo, OverKeptBytes
<1>2. SInv /\ OverKeptBytes /\ [Next]_vars => OverKeptBytes'
  BY OverKeptStays
<1>3. SInv /\ OverKeptBytes /\ [Next]_vars =>
        [(HearthStep /\ ~ undo.force) =>
           \A p \in Paths : (disk'[p] # disk[p] /\ disk[p] # NoFile) => Kept(disk[p])]_vars
  <2> SUFFICES ASSUME SInv, OverKeptBytes, [Next]_vars, HearthStep, ~ undo.force,
                      NEW p \in Paths, disk'[p] # disk[p], disk[p] # NoFile
               PROVE  Kept(disk[p])
    OBVIOUS
  <2>1. /\ undo \in Undo /\ disk \in [Paths -> File] /\ blobs \subseteq blobs' /\ RowBlobsStored
    BY BlobsGrow DEF SInv, IInv, TypeOK, UndoTypeOK, WorkspaceTypeOK
  <2>2. CASE Mutate
    <3>1. call.phase = "mutating" /\ call \in Call
      BY <2>2, CallInFlight DEF Mutate, Commit, Move, Delete, SInv, IInv, TypeOK
    <3>2. Commit /\ call.tool \in {"edit", "write"}
      BY <2>2, <3>1 DEF Mutate, Move, Delete, Call
    <3>3. p = call.path /\ disk[p] = call.expected
      BY <2>1, <3>1, <3>2 DEF Commit, SInv, QuietCall, StillAsPrepared
    <3>4. Recorded(call.path, call.expected, call.new)
      BY <3>1, <3>2 DEF SInv, EntryRecorded
    <3>5. disk[p] \in blobs
      BY <2>1, <3>3, <3>4 DEF Recorded, RowBlobsStored
    <3> QED
      BY <2>1, <3>5 DEF Kept
  <2>3. ASSUME NEW r \in undo.todo, RestoreFile(r)
        PROVE  Kept(disk[p])
    <3>1. p = r.path /\ disk[p] \in blobs
      BY <2>1, <2>3 DEF RestoreFile, OverKeptBytes
    <3> QED
      BY <2>1, <3>1 DEF Kept
  <2>4. ASSUME NEW r \in undo.todo, RemoveCreated(r)
        PROVE  Kept(disk[p])
    <3>1. p = r.path
      BY <2>1, <2>4 DEF RemoveCreated
    <3>2. [by |-> "undo", stamp |-> now, path |-> p, bytes |-> disk[p]] \in trash'
      BY <2>4, <3>1 DEF RemoveCreated
    <3> QED
      BY <3>2 DEF Kept
  <2>5. ASSUME NEW q \in UserPaths, UserEdit(q)
        PROVE  FALSE
    BY <2>5 DEF UserEdit, HearthStep, toolVars
  <2> QED
    BY <2>2, <2>3, <2>4, <2>5, DiskMoves
<1> QED
  BY InvariantSInv, <1>1, <1>2, <1>3, PTL DEF Spec, NothingDestroyedUnasked

=============================================================================
