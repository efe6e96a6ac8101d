-------------------------- MODULE DocumentVersions --------------------------
(* One document's versions: DocumentsService.create and createVersion, and *)
(* the reads (download, preview, verify).  An upload writes its object to   *)
(* storage first and the rows afterwards, in a transaction, and removes the *)
(* object when the transaction throws; nothing else ever removes one.  The  *)
(* version that createVersion names as parent was read by authorize, before *)
(* the upload; the number is computed inside the transaction.  The module   *)
(* asks what rows and objects still say of each other.                      *)
EXTENDS Naturals, Sequences, FiniteSetsExt

CONSTANTS Requests,    \* request slots, each serving one call at a time
          MaxUploads,  \* bound: uploads explored
          MaxReads     \* bound: audit events of reads explored

ASSUME BoundsAssumption == MaxUploads \in Nat /\ MaxReads \in Nat

VARIABLES versions,   \* the rows of document_versions, in commit order
          current,    \* documents.current_version_id
          objects,    \* the keys that storage holds an object for
          uploads,    \* how many keys were made so far (history)
          abandoned,  \* keys whose request died or could not clean up (history)
          unacked,    \* keys whose commit the request was not told of (history)
          reads,      \* events of reads, and answers with a version (history)
          work        \* what each slot is doing

vars == <<versions, current, objects, uploads, abandoned, unacked, reads, work>>

-----------------------------------------------------------------------------
(* Types. *)

\* A version and its object have one fresh name each, made together (the
\* storage key ends in the version's id); here both are the upload's number.
\* 0 is null, Unknown an id that is no version of the document.
Unknown == MaxUploads + 1
Ids == 0 .. Unknown

Keys == 1 .. MaxUploads

Version == [id : Keys, number : Nat, parent : Keys \cup {0},
            source : Keys \cup {0}]

Operations == {"none", "create", "createVersion", "read", "verify"}

\* Uploads go from "source" to "cleanup", reads from "resolve" to "recorded".
Phases == {"idle", "source", "put", "number", "insert", "cleanup",
           "resolve", "fetch", "fetched", "unreadable", "audited", "recorded"}

Request == [phase : Phases, op : Operations, key : Keys \cup {0},
            seen : Keys \cup {0}, derived : BOOLEAN, source : Ids,
            number : Nat, target : Ids]

Idle == [phase |-> "idle", op |-> "none", key |-> 0, seen |-> 0,
         derived |-> FALSE, source |-> 0, number |-> 0, target |-> 0]

\* INTEGRITY_FAILED of a read, the other audit events of reads and
\* verifications, their custody events, and the answers that were sent.
ReadEvents == {"failed", "audited", "recorded", "answered"}

Rows == DOMAIN versions
RowIds == {versions[i].id : i \in Rows}
Numbers == {versions[i].number : i \in Rows}

Goto(r, phase) == work' = [work EXCEPT ![r].phase = phase]

Answer(r) == work' = [work EXCEPT ![r] = Idle]

-----------------------------------------------------------------------------
(* Uploads, up to the transaction. *)

\* create, past its checks.  Each call makes a document of its own; the one
\* of this module is the first whose transaction commits.
ReceiveCreate(r) ==
    /\ work[r].phase = "idle"
    /\ versions = <<>> /\ \A q \in Requests : work[q].op # "create"
    /\ work' = [work EXCEPT ![r] = [Idle EXCEPT
           !.phase = "put", !.op = "create", !.number = 1]]
    /\ UNCHANGED <<versions, current, objects, uploads, abandoned, unacked,
                   reads>>

\* authorize returns the document, with the current version of that moment.
\* The client names a source version it has seen, none, or a wrong one.
AuthorizeVersion(r) ==
    /\ work[r].phase = "idle"
    /\ versions # <<>>
    /\ \E derived \in BOOLEAN, source \in RowIds \cup {0, Unknown} :
           work' = [work EXCEPT ![r] = [Idle EXCEPT
               !.phase = "source", !.op = "createVersion", !.seen = current,
               !.derived = derived, !.source = source]]
    /\ UNCHANGED <<versions, current, objects, uploads, abandoned, unacked,
                   reads>>

\* DERIVED and REDACTED versions name a source, the others none.
Consistent(m) == m.derived <=> m.source # 0

\* The source is a version of this document.  The kind is not needed again.
CheckSource(r) ==
    /\ work[r].phase = "source"
    /\ Consistent(work[r])
    /\ work[r].source \in RowIds \cup {0}
    /\ work' = [work EXCEPT ![r] = [@ EXCEPT !.phase = "put", !.derived = FALSE]]
    /\ UNCHANGED <<versions, current, objects, uploads, abandoned, unacked,
                   reads>>

\* 400 or 404.
RejectSource(r) ==
    /\ work[r].phase = "source"
    /\ ~Consistent(work[r]) \/ work[r].source \notin RowIds \cup {0}
    /\ Answer(r)
    /\ UNCHANGED <<versions, current, objects, uploads, abandoned, unacked,
                   reads>>

\* Mutant of Put: the storage key names the document and not the version.
PutUnderOneKey(r) ==
    /\ work[r].phase = "put"
    /\ uploads < MaxUploads
    /\ uploads' = uploads + 1
    /\ objects' = objects \cup {1}
    /\ work' = [work EXCEPT ![r] = [@ EXCEPT
           !.phase = IF work[r].op = "create" THEN "insert" ELSE "number",
           !.key = 1]]
    /\ UNCHANGED <<versions, current, abandoned, unacked, reads>>

\* A fresh key gets its object; create needs no number, its version is first.
Put(r) ==
    /\ work[r].phase = "put"
    /\ uploads < MaxUploads
    /\ uploads' = uploads + 1
    /\ objects' = objects \cup {uploads + 1}
    /\ work' = [work EXCEPT ![r] = [@ EXCEPT
           !.phase = IF work[r].op = "create" THEN "insert" ELSE "number",
           !.key = uploads + 1]]
    /\ UNCHANGED <<versions, current, abandoned, unacked, reads>>

\* put throws, and it is outside of the try: nobody cleans up, also when the
\* object arrived and only the answer was lost.
PutFails(r) ==
    /\ work[r].phase = "put"
    /\ \/ UNCHANGED <<objects, uploads, abandoned>>
       \/ /\ uploads < MaxUploads
          /\ uploads' = uploads + 1
          /\ objects' = objects \cup {uploads + 1}
          /\ abandoned' = abandoned \cup {uploads + 1}
    /\ Answer(r)
    /\ UNCHANGED <<versions, current, unacked, reads>>

-----------------------------------------------------------------------------
(* The transaction of an upload: the highest number is read in a statement  *)
(* of its own, and two transactions may read the same one.  What follows is *)
(* one step: the insert waits for an uncommitted row of the same number, so *)
(* that the unique index decides by what is committed.                      *)

AggregateNumber(r) ==
    /\ work[r].phase = "number"
    /\ work' = [work EXCEPT ![r] = [@ EXCEPT
           !.phase = "insert", !.number = Max(Numbers \cup {0}) + 1]]
    /\ UNCHANGED <<versions, current, objects, uploads, abandoned, unacked,
                   reads>>

\* Mutant of NumberIsFree: without @@unique([documentId, versionNumber]).
NumberIsFreeAlways(r) == work[r].number \in Nat

NumberIsFree(r) == work[r].number \notin Numbers

\* Mutant of NewVersion: the parent is left out.
NewVersionUnlinked(m) ==
    [id |-> m.key, number |-> m.number, parent |-> 0, source |-> m.source]

NewVersion(m) ==
    [id |-> m.key, number |-> m.number, parent |-> m.seen, source |-> m.source]

\* The commit, of which the request may not be told: then it throws.
Commit(r) ==
    /\ work[r].phase = "insert"
    /\ NumberIsFree(r)
    /\ versions' = Append(versions, NewVersion(work[r]))
    /\ current' = work[r].key
    /\ \/ Answer(r) /\ UNCHANGED unacked
       \/ Goto(r, "cleanup") /\ unacked' = unacked \cup {work[r].key}
    /\ UNCHANGED <<objects, uploads, abandoned, reads>>

\* Mutant of Conflict: P2002 is answered with 409 and nothing else.
ConflictWithoutCleanup(r) ==
    /\ work[r].phase = "insert"
    /\ ~NumberIsFree(r)
    /\ Answer(r)
    /\ UNCHANGED <<versions, current, objects, uploads, abandoned, unacked,
                   reads>>

\* P2002: the transaction is rolled back.
Conflict(r) ==
    /\ work[r].phase = "insert"
    /\ ~NumberIsFree(r)
    /\ Goto(r, "cleanup")
    /\ UNCHANGED <<versions, current, objects, uploads, abandoned, unacked,
                   reads>>

\* Any other failure in the transaction.
Rollback(r) ==
    /\ work[r].phase \in {"number", "insert"}
    /\ Goto(r, "cleanup")
    /\ UNCHANGED <<versions, current, objects, uploads, abandoned, unacked,
                   reads>>

Cleanup(r) ==
    /\ work[r].phase = "cleanup"
    /\ objects' = objects \ {work[r].key}
    /\ Answer(r)
    /\ UNCHANGED <<versions, current, uploads, abandoned, unacked, reads>>

\* Clean-up is best effort: its failure is swallowed.
CleanupFails(r) ==
    /\ work[r].phase = "cleanup"
    /\ abandoned' = abandoned \cup {work[r].key}
    /\ Answer(r)
    /\ UNCHANGED <<versions, current, objects, uploads, unacked, reads>>

-----------------------------------------------------------------------------
(* Reads.  download and preview are "read"; verify answers also when the    *)
(* bytes cannot be had, with a mismatch.                                    *)

ReadsLeft == reads["failed"] + reads["audited"] < MaxReads

\* authorize; target 0 asks for the current version.
AuthorizeRead(r) ==
    /\ work[r].phase = "idle"
    /\ versions # <<>> /\ ReadsLeft
    /\ \E op \in {"read", "verify"}, target \in RowIds \cup {0, Unknown} :
           work' = [work EXCEPT ![r] = [Idle EXCEPT
               !.phase = "resolve", !.op = op, !.seen = current,
               !.target = target]]
    /\ UNCHANGED <<versions, current, objects, uploads, abandoned, unacked,
                   reads>>

Requested(r) == IF work[r].target = 0 THEN work[r].seen ELSE work[r].target

\* resolveVersion: a row of this document, or 404.
Resolve(r) ==
    /\ work[r].phase = "resolve"
    /\ \/ /\ Requested(r) \in RowIds
          /\ work' = [work EXCEPT ![r] = [@ EXCEPT
                 !.phase = "fetch", !.target = Requested(r), !.seen = 0]]
       \/ /\ Requested(r) \notin RowIds
          /\ Answer(r)
    /\ UNCHANGED <<versions, current, objects, uploads, abandoned, unacked,
                   reads>>

\* storage.get, decrypt and the digest.  A missing object and a storage that
\* does not answer look the same to the caller.
Fetch(r) ==
    /\ work[r].phase = "fetch"
    /\ \E outcome \in {"fetched", "unreadable"} :
           /\ outcome = "fetched" => work[r].target \in objects
           /\ work' = [work EXCEPT ![r] = [@ EXCEPT !.phase = outcome,
                                                    !.target = 0]]
    /\ UNCHANGED <<versions, current, objects, uploads, abandoned, unacked,
                   reads>>

\* INTEGRITY_FAILED, and 409.
AuditUnreadable(r) ==
    /\ work[r].phase = "unreadable" /\ work[r].op = "read"
    /\ ReadsLeft
    /\ reads' = [reads EXCEPT !["failed"] = @ + 1]
    /\ Answer(r)
    /\ UNCHANGED <<versions, current, objects, uploads, abandoned, unacked>>

\* DOCUMENT_DOWNLOADED, DOCUMENT_VIEWED, INTEGRITY_VERIFIED; a verification
\* that failed is INTEGRITY_FAILED and goes on all the same.
AuditRead(r) ==
    /\ \/ work[r].phase = "fetched"
       \/ work[r].phase = "unreadable" /\ work[r].op = "verify"
    /\ ReadsLeft
    /\ reads' = [reads EXCEPT !["audited"] = @ + 1]
    /\ Goto(r, "audited")
    /\ UNCHANGED <<versions, current, objects, uploads, abandoned, unacked>>

\* Mutant of RecordRead: the answer does not wait for the custody event.
RecordReadUnawaited(r) ==
    /\ work[r].phase = "audited"
    /\ reads' \in {[reads EXCEPT !["recorded"] = @ + 1], reads}
    /\ Goto(r, "recorded")
    /\ UNCHANGED <<versions, current, objects, uploads, abandoned, unacked>>

\* The custody event, in a transaction of its own.
RecordRead(r) ==
    /\ work[r].phase = "audited"
    /\ reads' = [reads EXCEPT !["recorded"] = @ + 1]
    /\ Goto(r, "recorded")
    /\ UNCHANGED <<versions, current, objects, uploads, abandoned, unacked>>

AnswerRead(r) ==
    /\ work[r].phase = "recorded"
    /\ reads' = [reads EXCEPT !["answered"] = @ + 1]
    /\ Answer(r)
    /\ UNCHANGED <<versions, current, objects, uploads, abandoned, unacked>>

-----------------------------------------------------------------------------

\* The process dies, or an append to a history throws: an upload leaves its
\* object behind, if it is stored.
Crash(r) ==
    /\ work[r].phase # "idle"
    /\ abandoned' = abandoned \cup (objects \cap {work[r].key})
    /\ Answer(r)
    /\ UNCHANGED <<versions, current, objects, uploads, unacked, reads>>

Init ==
    /\ versions = <<>> /\ current = 0
    /\ objects = {} /\ uploads = 0 /\ abandoned = {} /\ unacked = {}
    /\ reads = [e \in ReadEvents |-> 0]
    /\ work = [r \in Requests |-> Idle]

Step(r) ==
    \/ ReceiveCreate(r) \/ AuthorizeVersion(r) \/ CheckSource(r)
    \/ RejectSource(r) \/ Put(r) \/ PutFails(r) \/ AggregateNumber(r)
    \/ Commit(r) \/ Conflict(r) \/ Rollback(r) \/ Cleanup(r) \/ CleanupFails(r)
    \/ AuthorizeRead(r) \/ Resolve(r) \/ Fetch(r) \/ AuditUnreadable(r)
    \/ AuditRead(r) \/ RecordRead(r) \/ AnswerRead(r) \/ Crash(r)

Next == \E r \in Requests : Step(r)

Spec == Init /\ [][Next]_vars

-----------------------------------------------------------------------------
(* Properties. *)

\* Rows, keys, histories and slots have their types.
TypeOK ==
    /\ versions \in Seq(Version) /\ current \in Keys \cup {0}
    /\ uploads \in 0 .. MaxUploads
    /\ objects \subseteq 1 .. uploads
    /\ abandoned \subseteq 1 .. uploads /\ unacked \subseteq 1 .. uploads
    /\ reads \in [ReadEvents -> Nat]
    /\ work \in [Requests -> Request]

\* Version numbers count the commits from 1 with no gap and no repetition, and
\* the document's current version is the one with the highest number, although
\* concurrent transactions compute the same next number and set the pointer
\* without looking at it.
NumbersAreConsecutive ==
    /\ \A i \in Rows : versions[i].number = i
    /\ current = IF versions = <<>> THEN 0 ELSE versions[Len(versions)].id

\* Parents and sources are committed versions of the same document that are
\* older than the version that names them, and only the first has no parent:
\* following parents from any version ends at the original.
LineageIsOlder ==
    \A i \in Rows :
        LET older == {versions[j].id : j \in 1 .. (i - 1)}
        IN  /\ versions[i].parent \in older \cup {0}
            /\ versions[i].source \in older \cup {0}
            /\ versions[i].parent = 0 <=> i = 1

\* A committed version has its object, through every failure, crash and
\* clean-up of other uploads, except when its own commit was not acknowledged
\* and the catch removed what it had stored.
MissingOnlyAfterLostAck == \A id \in RowIds : id \in objects \cup unacked

Stored(r) == work[r].phase \in {"number", "insert", "cleanup"}

\* An object that no row names belongs to an upload in flight, or to one that
\* died or failed to clean up: a conflict between uploads leaves no orphan.
OrphansHaveACause ==
    \A k \in objects \ RowIds :
        k \in abandoned \/ \E r \in Requests : Stored(r) /\ work[r].key = k

\* Nobody gets a version, or a verdict on it, that is not in both histories;
\* the two are written apart, the audit first.
ReadsAreInBothHistories ==
    reads["answered"] <= reads["recorded"] /\ reads["recorded"] <= reads["audited"]

\* Uploads, storage and clean-ups implement the history that is promised to
\* readers: every commit adds the next version to the others with its content
\* in place, and no step of any upload takes back or brings back anything but
\* the content of a version whose commit was not acknowledged.
History == INSTANCE VersionHistory WITH stored <- objects \cap RowIds,
                                        doubtful <- unacked
ImplementsHistory == History!Spec

=============================================================================
