------------------------------- MODULE Transcript -------------------------------
(***************************************************************************)
(* What the messages table promises of one session (storage/state_repo.py) *)
(* whatever the prompt, its workflows and their cancellations do: rows are *)
(* added at the end, one at a time, each message at most once, and go only *)
(* all together.                                                           *)
(***************************************************************************)
EXTENDS SequencesExt

VARIABLE rows

Init == rows = <<>>

\* One more row, with a message no row has.
append_message ==
    /\ rows' # <<>>
    /\ Front(rows') = rows
    /\ Last(rows') \notin ToSet(rows)

clear_messages == rows' = <<>>

Next == append_message \/ clear_messages

Spec == Init /\ [][Next]_rows

=============================================================================
