----------------------------- MODULE OutboxItem -----------------------------
(***************************************************************************)
(* The states of a publication item (internal/outbox/outbox.go) and the    *)
(* life of one item as its readers see it: each append moves it along a    *)
(* valid transition; an item whose log cannot be read is blocked for good. *)
(* Module OutboxLog implements this.                                       *)
(***************************************************************************)

PendingStates == {"queued", "attempt-failed"}
EventStates == PendingStates \cup {"submitted", "merged"}

\* validTransition; "none" is an item without events.
ValidTransition(from, to) ==
  \/ from = "none" /\ to = "queued"
  \/ from \in PendingStates /\ to \in {"attempt-failed", "submitted", "merged"}
  \/ from = "submitted" /\ to = "merged"

VARIABLE state   \* "none", a state of the last event, or "blocked"

Init == state = "none"

Append(to) == ValidTransition(state, to) /\ state' = to

Block == state' = "blocked"

Next == Block \/ \E to \in EventStates : Append(to)

Spec == Init /\ [][Next]_state
=============================================================================
