---------------------------- MODULE RecordPolicy ----------------------------
(* What docs/records-lifecycle.md promises of one document, with no        *)
(* requests, revisions or transactions: its status moves only along the    *)
(* table of transitions, at most one legal hold protects it, and it is not *)
(* disposed of while the hold is there.  RecordLifecycle implements this.  *)
EXTENDS RecordStates

VARIABLES status,   \* the document's record status
          held      \* an ACTIVE legal hold protects it

vars == <<status, held>>

Init == status \in Statuses /\ held = FALSE

ChangeStatus(to) ==
    /\ to \in transitions[status]
    /\ to = "DISPOSED" => ~held
    /\ status' = to
    /\ UNCHANGED held

PlaceHold == ~held /\ held' = TRUE /\ UNCHANGED status

ReleaseHold == held /\ held' = FALSE /\ UNCHANGED status

Next == (\E to \in Statuses : ChangeStatus(to)) \/ PlaceHold \/ ReleaseHold

Spec == Init /\ [][Next]_vars

=============================================================================
