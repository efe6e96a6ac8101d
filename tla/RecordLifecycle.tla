-------------------------- MODULE RecordLifecycle --------------------------
(* One document's record status and legal holds, and the requests that     *)
(* change them: RecordsService.placeHold, releaseHold and changeStatus.    *)
(* A request is a few database steps with awaits between them, so requests *)
(* of several users interleave: authorize reads the document, changeStatus *)
(* looks for an active hold, and only then a transaction claims the        *)
(* document by the revision that the CLIENT sent.  The module asks whether *)
(* that revision is enough to make the earlier reads safe.                 *)
EXTENDS Naturals, Sequences, FiniteSets, RecordStates

CONSTANTS Requests,        \* request slots, each serving one call at a time
          ClientPredicts,  \* clients may send a revision no GET returned yet
          MaxRevision,     \* bound: commits explored
          MaxDenials       \* bound: denied or blocked requests explored

ASSUME BoundsAssumption == MaxRevision \in Nat /\ MaxDenials \in Nat
ASSUME ClientAssumption == ClientPredicts \in BOOLEAN

VARIABLES doc,      \* the row of documents: [status, revision]
          holds,    \* its rows of legal_holds, in the order of creation
          req,      \* what each slot is doing
          custody,  \* custody_events of the document, oldest first
          audit     \* audit_events, counted per action (AuditChain has order)

vars == <<doc, holds, req, custody, audit>>

-----------------------------------------------------------------------------
(* Types. *)

\* "transaction": every check is passed and the transaction is next.
Phases == {"idle", "sent", "findHold", "checkHold", "transaction",
           "blocked", "blockedInCustody"}

Request == [phase : Phases, op : Operations, expected : Nat, to : Statuses,
            hold : Nat, holdRevision : Nat, current : Statuses]

Idle == [phase |-> "idle", op |-> "none", expected |-> 0, to |-> "DRAFT",
         hold |-> 0, holdRevision |-> 0, current |-> "DRAFT"]

Hold == [status : {"ACTIVE", "RELEASED"}, revision : Nat]

CustodyEvent ==
    [type : {"RECORD_STATUS_CHANGED"}, from : Statuses, to : Statuses]
    \cup [type : {"HOLD_PLACED", "HOLD_RELEASED", "DISPOSITION_BLOCKED"},
          hold : Nat]

AuditActions == {"ACCESS_DENIED", "LEGAL_HOLD_PLACED", "LEGAL_HOLD_RELEASED",
                 "RECORD_STATUS_CHANGED", "RECORD_DISPOSITION_BLOCKED"}

Held == \E h \in DOMAIN holds : holds[h].status = "ACTIVE"

-----------------------------------------------------------------------------
(* The client.  A revision it sends is one that a GET returned to it, now  *)
(* or earlier (records.dto.ts); with ClientPredicts it may also name the   *)
(* revision that an operation still in flight is going to produce.         *)

Sendable == 0 .. (IF ClientPredicts THEN doc.revision + 1 ELSE doc.revision)

Send(r, message) ==
    /\ req[r].phase = "idle"
    /\ req' = [req EXCEPT ![r] = message]
    /\ UNCHANGED <<doc, holds, custody, audit>>

SendPlaceHold(r) ==
    \E e \in Sendable :
        Send(r, [Idle EXCEPT !.phase = "sent", !.op = "placeHold",
                             !.expected = e])

SendReleaseHold(r) ==
    \E e \in Sendable, h \in DOMAIN holds :
        \E hr \in 0 .. holds[h].revision :
            Send(r, [Idle EXCEPT !.phase = "sent", !.op = "releaseHold",
                                 !.expected = e, !.hold = h,
                                 !.holdRevision = hr])

SendChangeStatus(r) ==
    \E e \in Sendable, s \in Statuses :
        Send(r, [Idle EXCEPT !.phase = "sent", !.op = "changeStatus",
                             !.expected = e, !.to = s])

-----------------------------------------------------------------------------
(* The service, up to the transaction. *)

Goto(r, phase) == req' = [req EXCEPT ![r].phase = phase]

Answer(r) == req' = [req EXCEPT ![r] = Idle]

Refusals == {i \in DOMAIN custody : custody[i].type = "DISPOSITION_BLOCKED"}

Denials == audit["ACCESS_DENIED"] + Cardinality(Refusals)

\* authorize denies: the denial is audited and the request ends.
Deny(r) ==
    /\ req[r].phase = "sent"
    /\ Denials < MaxDenials
    /\ audit' = [audit EXCEPT !["ACCESS_DENIED"] = @ + 1]
    /\ Answer(r)
    /\ UNCHANGED <<doc, holds, custody>>

\* authorize allows, and placeHold or releaseHold goes on.
AuthorizeHold(r) ==
    /\ req[r].phase = "sent"
    /\ \/ req[r].op = "placeHold" /\ Goto(r, "transaction")
       \/ req[r].op = "releaseHold" /\ Goto(r, "findHold")
    /\ UNCHANGED <<doc, holds, custody, audit>>

\* Mutant of AuthorizeStatus: the table of transitions is not consulted.
AuthorizeStatusAnyTransition(r) ==
    /\ req[r].phase = "sent"
    /\ req[r].op = "changeStatus"
    /\ req' = [req EXCEPT ![r] = [@ EXCEPT
           !.current = doc.status,
           !.phase = IF req[r].to = "DISPOSED" THEN "checkHold"
                                               ELSE "transaction"]]
    /\ UNCHANGED <<doc, holds, custody, audit>>

\* authorize returns the document that changeStatus checks the table with;
\* 400 for the same status, 409 for a transition outside the table.
AuthorizeStatus(r) ==
    /\ req[r].phase = "sent"
    /\ req[r].op = "changeStatus"
    /\ IF req[r].to \in transitions[doc.status]
         THEN req' = [req EXCEPT ![r] = [@ EXCEPT
                !.current = doc.status,
                !.phase = IF req[r].to = "DISPOSED" THEN "checkHold"
                                                    ELSE "transaction"]]
         ELSE Answer(r)
    /\ UNCHANGED <<doc, holds, custody, audit>>

\* releaseHold's findFirst; holds are never deleted, so a known id is found.
FindHold(r) ==
    /\ req[r].phase = "findHold"
    /\ IF req[r].hold \in DOMAIN holds THEN Goto(r, "transaction")
                                       ELSE Answer(r)
    /\ UNCHANGED <<doc, holds, custody, audit>>

\* Mutant of CheckHold: the hold is not looked for.
CheckHoldOmitted(r) ==
    /\ req[r].phase = "checkHold"
    /\ Goto(r, "transaction")
    /\ UNCHANGED <<doc, holds, custody, audit>>

\* A disposition looks for an active hold before it opens its transaction.
CheckHold(r) ==
    /\ req[r].phase = "checkHold"
    /\ IF Held
         THEN \E h \in DOMAIN holds :
                /\ holds[h].status = "ACTIVE"
                /\ req' = [req EXCEPT ![r] = [@ EXCEPT !.phase = "blocked",
                                                    !.hold = h]]
         ELSE Goto(r, "transaction")
    /\ UNCHANGED <<doc, holds, custody, audit>>

\* Mutant of BlockInCustody: the custody event is not awaited, and may fail.
BlockInCustodyUnawaited(r) ==
    /\ req[r].phase = "blocked"
    /\ Denials < MaxDenials
    /\ custody' \in {custody, Append(custody, [type |-> "DISPOSITION_BLOCKED",
                                              hold |-> req[r].hold])}
    /\ Goto(r, "blockedInCustody")
    /\ UNCHANGED <<doc, holds, audit>>

\* A blocked disposition is recorded by two writes outside any transaction.
BlockInCustody(r) ==
    /\ req[r].phase = "blocked"
    /\ Denials < MaxDenials
    /\ custody' = Append(custody, [type |-> "DISPOSITION_BLOCKED",
                                   hold |-> req[r].hold])
    /\ Goto(r, "blockedInCustody")
    /\ UNCHANGED <<doc, holds, audit>>

BlockInAudit(r) ==
    /\ req[r].phase = "blockedInCustody"
    /\ audit' = [audit EXCEPT !["RECORD_DISPOSITION_BLOCKED"] = @ + 1]
    /\ Answer(r)
    /\ UNCHANGED <<doc, holds, custody>>

-----------------------------------------------------------------------------
(* The transactions.  Each is one atomic step: the conditional update of   *)
(* the document takes its row lock, and the transaction commits or rolls   *)
(* back as a whole.                                                        *)

\* Mutant of ClaimDocument: the update is not conditional on the revision.
ClaimDocumentUnconditionally(r) == doc.revision < MaxRevision

ClaimDocument(r) ==
    req[r].expected = doc.revision /\ doc.revision < MaxRevision

\* The partial unique index refuses a second ACTIVE hold (P2002, 409).
CommitPlaceHold(r) ==
    /\ req[r].phase = "transaction" /\ req[r].op = "placeHold"
    /\ ClaimDocument(r)
    /\ ~Held
    /\ doc' = [doc EXCEPT !.revision = @ + 1]
    /\ holds' = Append(holds, [status |-> "ACTIVE", revision |-> 0])
    /\ custody' = Append(custody, [type |-> "HOLD_PLACED",
                                   hold |-> Len(holds) + 1])
    /\ audit' = [audit EXCEPT !["LEGAL_HOLD_PLACED"] = @ + 1]
    /\ Answer(r)

\* Mutant of ClaimHold: the update names the hold by its id only.
ClaimHoldById(r) == req[r].hold \in DOMAIN holds

ClaimHold(r) ==
    /\ req[r].hold \in DOMAIN holds
    /\ holds[req[r].hold] = [status |-> "ACTIVE",
                             revision |-> req[r].holdRevision]

CommitReleaseHold(r) ==
    /\ req[r].phase = "transaction" /\ req[r].op = "releaseHold"
    /\ ClaimDocument(r)
    /\ ClaimHold(r)
    /\ doc' = [doc EXCEPT !.revision = @ + 1]
    /\ holds' = [holds EXCEPT ![req[r].hold] =
                    [status |-> "RELEASED", revision |-> @.revision + 1]]
    /\ custody' = Append(custody, [type |-> "HOLD_RELEASED",
                                   hold |-> req[r].hold])
    /\ audit' = [audit EXCEPT !["LEGAL_HOLD_RELEASED"] = @ + 1]
    /\ Answer(r)

CommitStatus(r) ==
    /\ req[r].phase = "transaction" /\ req[r].op = "changeStatus"
    /\ ClaimDocument(r)
    /\ doc' = [status |-> req[r].to, revision |-> doc.revision + 1]
    /\ custody' = Append(custody, [type |-> "RECORD_STATUS_CHANGED",
                                   from |-> req[r].current,
                                   to |-> req[r].to])
    /\ audit' = [audit EXCEPT !["RECORD_STATUS_CHANGED"] = @ + 1]
    /\ Answer(r)
    /\ UNCHANGED holds

\* Mutant of Conflict: the claim of the document survives the failed claim
\* of the hold, as it would outside a transaction.
ConflictWithoutRollback(r) ==
    /\ req[r].phase = "transaction"
    /\ \/ req[r].expected # doc.revision
       \/ req[r].op = "placeHold" /\ Held
       \/ req[r].op = "releaseHold" /\ ~ClaimHold(r)
    /\ doc' = IF ClaimDocument(r) THEN [doc EXCEPT !.revision = @ + 1]
                                  ELSE doc
    /\ Answer(r)
    /\ UNCHANGED <<holds, custody, audit>>

\* The transaction rolls back: stale document, a hold already there, or a
\* hold that is not the one the client saw.  Nothing is written.
Conflict(r) ==
    /\ req[r].phase = "transaction"
    /\ \/ req[r].expected # doc.revision
       \/ req[r].op = "placeHold" /\ Held
       \/ req[r].op = "releaseHold" /\ ~ClaimHold(r)
    /\ Answer(r)
    /\ UNCHANGED <<doc, holds, custody, audit>>

\* The API process dies, or a database call fails: the request stops where
\* it is, an open transaction with it.
Abandon(r) ==
    /\ req[r].phase # "idle"
    /\ Answer(r)
    /\ UNCHANGED <<doc, holds, custody, audit>>

-----------------------------------------------------------------------------

\* A document that existed when the revision column was added starts at
\* revision 0 with whatever status it had; a new one starts as a DRAFT.
Init ==
    /\ doc \in [status : Statuses, revision : {0}]
    /\ holds = <<>>
    /\ req = [r \in Requests |-> Idle]
    /\ custody = <<>>
    /\ audit = [a \in AuditActions |-> 0]

Step(r) ==
    \/ SendPlaceHold(r) \/ SendReleaseHold(r) \/ SendChangeStatus(r)
    \/ Deny(r) \/ AuthorizeHold(r) \/ AuthorizeStatus(r)
    \/ FindHold(r) \/ CheckHold(r)
    \/ BlockInCustody(r) \/ BlockInAudit(r)
    \/ CommitPlaceHold(r) \/ CommitReleaseHold(r) \/ CommitStatus(r)
    \/ Conflict(r) \/ Abandon(r)

Next == \E r \in Requests : Step(r)

Spec == Init /\ [][Next]_vars

-----------------------------------------------------------------------------
(* Properties. *)

\* The rows, the slots and the trails have the types the schema gives them.
TypeOK ==
    /\ doc \in [status : Statuses, revision : Nat]
    /\ holds \in Seq(Hold)
    /\ req \in [Requests -> Request]
    /\ custody \in Seq(CustodyEvent)
    /\ audit \in [AuditActions -> Nat]

\* No document becomes DISPOSED while a legal hold protects it, although
\* changeStatus looks for the hold before its transaction begins.
HeldNeverDisposed ==
    [][doc.status # "DISPOSED" /\ doc'.status = "DISPOSED" => ~Held]_vars

\* Places of the custody trail, and the order of those in a set E of places.
StatusEvents ==
    {i \in DOMAIN custody : custody[i].type = "RECORD_STATUS_CHANGED"}
HoldEvents ==
    {i \in DOMAIN custody : custody[i].type \in {"HOLD_PLACED", "HOLD_RELEASED"}}
FirstOf(E, i) == \A k \in E : i <= k
LastOf(E, i) == \A k \in E : k <= i
Follows(E, i, j) == i < j /\ \A k \in E : k <= i \/ j <= k

\* Read back, the custody trail tells the document's history: every status
\* event starts from the status the event before it reached, and the last
\* one reached the status the document has.  The "from" of an event was
\* read by authorize, long before the transaction that writes it.
CustodyTellsTheStatus ==
    /\ \A i, j \in StatusEvents :
          Follows(StatusEvents, i, j) => custody[i].to = custody[j].from
    /\ \A i \in StatusEvents :
          LastOf(StatusEvents, i) => custody[i].to = doc.status

Placed(h) == [type |-> "HOLD_PLACED", hold |-> h]
Released(h) == [type |-> "HOLD_RELEASED", hold |-> h]

\* The hold events of the trail alternate, each release names the hold that
\* was placed last, and the document is held exactly when the trail ends
\* with a placement: at most one hold is ACTIVE at a time.
CustodyTellsTheHolds ==
    /\ \A i \in HoldEvents : FirstOf(HoldEvents, i) => custody[i] = Placed(1)
    /\ \A i, j \in HoldEvents :
          Follows(HoldEvents, i, j) =>
              custody[j] = IF custody[i].type = "HOLD_PLACED"
                             THEN Released(custody[i].hold)
                             ELSE Placed(custody[i].hold + 1)
    /\ Held <=> \E i \in HoldEvents :
                   LastOf(HoldEvents, i) /\ custody[i].type = "HOLD_PLACED"

\* Each revision of the document stands for exactly one recorded change: a
\* transaction that fails halfway leaves neither a bumped revision nor an
\* event, and no change is committed without its events.
EveryRevisionIsRecorded ==
    /\ doc.revision = Cardinality(DOMAIN custody \ Refusals)
    /\ doc.revision = audit["LEGAL_HOLD_PLACED"]
                      + audit["LEGAL_HOLD_RELEASED"]
                      + audit["RECORD_STATUS_CHANGED"]

\* The requests, revisions and transactions implement the promise made of
\* the document itself.
Policy == INSTANCE RecordPolicy WITH status <- doc.status, held <- Held
ImplementsPolicy == Policy!Spec

\* The same document as its responses carry it: what the pages rely on.  Each
\* change is that of one call, which claimed by the revision it was sent with,
\* and nothing of its reads, its transaction or the other calls shows.
HoldsServed == [h \in DOMAIN holds |-> holds[h].status]
Served == [status |-> doc.status, revision |-> doc.revision,
           holds |-> HoldsServed]
Server == INSTANCE RecordServer WITH record <- Served
Serves(m) == Server!Serve(m.op, m.expected, m.hold, m.to)
ImplementsServer == /\ Server!ServerInit
                    /\ [][\E r \in Requests : Serves(req[r])]_Served

\* The two histories of a refused disposition are written apart.  The audit
\* trail never tells of a refusal that custody lacks: each refusal in custody
\* is audited, about to be, or its request stopped in between.
DenialsReachCustodyFirst ==
    audit["RECORD_DISPOSITION_BLOCKED"]
    + Cardinality({r \in Requests : req[r].phase = "blockedInCustody"})
        <= Cardinality(Refusals)

=============================================================================
