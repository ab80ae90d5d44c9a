------------------------ MODULE WorkspaceInvariants ------------------------
(***************************************************************************)
(* The strengthenings that make the safety of WorkspaceSystem inductive.   *)
(* They stand apart from the proofs so that TLC checks them too.           *)
(***************************************************************************)
EXTENDS WorkspaceSystem

(* What a call in flight carries, by tool and phase.  `Owed` counts the    *)
(* rows the call has still to insert; the bound on ids follows from it.    *)
Owed == IF call.tool = "move" /\ call.recorded = 0 THEN 2 ELSE 1

CallShape ==
  call.phase # "idle" =>
    /\ step \in Steps
    /\ call.tool \in {"edit", "write"} => call.new \in Contents
    /\ call.tool \in {"move", "delete"} => call.expected \in Contents
    /\ call.tool = "delete" => call.new = NoFile
    /\ call.tool = "move" => call.path # call.dst
    /\ call.tool # "move" => call.recorded = 0
    /\ call.phase = "approving" => call.recorded = 0
    /\ call.phase # "mutating" => nextId + Owed <= MaxRows + 1

(* Between the two halves of record(), the blobs are there and the row is  *)
(* not yet.                                                                *)
BlobsBeforeRow ==
  call.phase = "inserting" =>
    {Entry(call).before, Entry(call).after} \ {NoFile} \subseteq blobs

(* A running /undo has a step to go back to, also when it starts again.    *)
NamedStep ==
  undo.phase # "idle" /\ undo.kind = "undo" => undo.arg \in Steps

(* The type invariant and the blob invariant, made inductive: a row is only*)
(* inserted with blobs that StoreBlobs has put.                            *)
IInv == TypeOK /\ CallShape /\ BlobsBeforeRow /\ NamedStep /\ RowBlobsStored

(* Within one turn the steps of the rows never go back, so the highest     *)
(* open step is the latest write's.                                        *)
StepsInOrder ==
  /\ \A r \in rows : r.id < nextId
  /\ \A r, q \in rows : r.id <= q.id => r.step <= q.step
  /\ InTurn => \A r \in rows : r.step <= step
  /\ turn = 0 => rows = {} /\ step = 0

-----------------------------------------------------------------------------
(* What also holds when `hearth undo` does not run beside the session and  *)
(* no editor saves inside the windows of Quiet.                            *)

(* One process: a turn and an undo command exclude each other.             *)
TurnOrUndo == undo.phase # "idle" => ~ InTurn

(* From the re-verifying read on, the files are as they were previewed.    *)
QuietCall == call.phase \in {"putting", "inserting", "mutating"} => StillAsPrepared

(* A call has its rows in the table before it mutates; a move has its      *)
(* source's row before it records its destination.                         *)
EntryRecorded ==
  /\ call.phase = "mutating" /\ call.tool # "move" =>
       Recorded(call.path, call.expected, call.new)
  /\ call.phase # "idle" /\ call.tool = "move" =>
       /\ call.recorded = 1 => Recorded(call.path, call.expected, NoFile)
       /\ call.phase = "mutating" => call.recorded = 1 /\ Recorded(call.dst, NoFile, call.expected)

(* A revert has put back the planned entries it is done with.              *)
RestoredSoFar ==
  undo.phase = "restoring" =>
    /\ undo.todo \subseteq undo.planned
    /\ \A r \in undo.planned \ undo.todo : EntriesFor(r.path) = {r} => disk[r.path] = r.before

SInv == IInv /\ TurnOrUndo /\ QuietCall /\ EntryRecorded /\ RestoredSoFar

-----------------------------------------------------------------------------
(* What else the safety of the single steps rests on.                      *)

(* A revert works through the entries its step has, and no other.          *)
PlannedWhole ==
  undo.phase = "restoring" => undo.planned = EntriesForStep(undo.current)

(* Without moves, what the registry holds the model has seen, and a write  *)
(* in flight was prepared over nothing else.                               *)
KnownIsSeen ==
  /\ \A p \in Paths : known[p] \in seen \union {Unread}
  /\ call.phase # "idle" /\ call.tool \in {"edit", "write"} =>
       call.expected \in seen \union {NoFile}

(* Without deletions and moves every row has an after-image, so a revert   *)
(* that was not forced goes over bytes the store keeps.                    *)
OverKeptBytes ==
  /\ \A r \in rows : r.after # NoFile
  /\ undo.phase = "restoring" /\ ~ undo.force =>
       \A r \in undo.todo : disk[r.path] \in blobs \union {NoFile}
=============================================================================
