---------------------------- MODULE RecordServer ----------------------------
(* What a page relies on of RecordsService: the document as the responses  *)
(* carry it, and the changes a call can make to it by the revision that it *)
(* names.  Between this and the code are RecordLifecycle's requests and    *)
(* transactions, which implement it for clients that name only revisions   *)
(* they were given; WebClient's pages are such clients.                    *)
EXTENDS Naturals, Sequences, RecordStates

VARIABLE record   \* the document, with its holds

\* At most one hold is ACTIVE, and its row has revision 0 until its release.
HoldStatuses == {"ACTIVE", "RELEASED"}

Documents == [status : Statuses, revision : Nat, holds : Seq(HoldStatuses)]

Protected == \E h \in DOMAIN record.holds : record.holds[h] = "ACTIVE"

\* Mutant of Claimed: the last write wins.
ClaimedAnyRevision(expected) == expected \in Nat

Claimed(expected) == expected = record.revision

\* A claim counts the change that it belongs to.
Changed(status, holds) ==
    record' = [status |-> status, revision |-> record.revision + 1,
               holds |-> holds]

PlaceHold(expected) ==
    /\ Claimed(expected)
    /\ ~Protected
    /\ Changed(record.status, Append(record.holds, "ACTIVE"))

ReleaseHold(expected, h) ==
    /\ Claimed(expected)
    /\ h \in DOMAIN record.holds /\ record.holds[h] = "ACTIVE"
    /\ Changed(record.status, [record.holds EXCEPT ![h] = "RELEASED"])

ChangeStatus(expected, to) ==
    /\ Claimed(expected)
    /\ to \in transitions[record.status]
    /\ to = "DISPOSED" => ~Protected
    /\ Changed(to, record.holds)

\* What a call asks for, with the revision it names.
Serve(op, expected, hold, to) ==
    \/ op = "placeHold" /\ PlaceHold(expected)
    \/ op = "releaseHold" /\ ReleaseHold(expected, hold)
    \/ op = "changeStatus" /\ ChangeStatus(expected, to)

ServerInit == record \in [status : Statuses, revision : {0}, holds : {<<>>}]

=============================================================================
