------------------------------ MODULE LockOrder ------------------------------
(* The database transactions that change documents, grants and histories, as *)
(* sequences of lock requests.                                               *)
(* A transaction keeps what it locked until it ends.  It locks rows it       *)
(* updates, entries of unique indexes it inserts, and, by the foreign keys,  *)
(* rows that an inserted row refers to.  Every transaction that writes an    *)
(* audit event also takes the advisory lock of the trail, and the event      *)
(* refers to its document.  No order of locks is agreed upon between the     *)
(* services: PostgreSQL ends a deadlock by aborting one of its transactions. *)
(*                                                                           *)
(* Left out are locks that nobody can wait for (fresh rows; users, cases and *)
(* versions, which are only ever referred to) and locks a transaction asks   *)
(* for when it has the same or a stronger one; a hold is locked by whoever   *)
(* has its document.  So are the rows of jobs, OCR results, summaries and    *)
(* the idempotency ledger: only statements of their own lock them, and one   *)
(* transaction that deletes a summary and its result, in that order; nobody  *)
(* who has such a lock wants one that is modelled here.                      *)
EXTENDS Naturals, Sequences

CONSTANTS Slots,       \* database sessions that may be in a transaction
          Docs,        \* documents
          Principals   \* whom a grant may be given to

VARIABLE tx            \* what each session is doing

vars == <<tx>>

-----------------------------------------------------------------------------
(* Lock requests, in the order of the statements. *)

\* FOR KEY SHARE on a document, for a row that refers to it.
Refer == [on |-> "document", mode |-> "share"]

\* FOR NO KEY UPDATE: the claim by revision.
Revise == [on |-> "document", mode |-> "revise"]

\* FOR UPDATE, as current_version_id has a unique index.
Repoint == [on |-> "document", mode |-> "exclusive"]

\* pg_advisory_xact_lock(26190).
Trail == [on |-> "trail", mode |-> "exclusive"]

\* A version's number within its document; a grant of one principal.
Number == [on |-> "number", mode |-> "exclusive"]
Grant == [on |-> "grant", mode |-> "exclusive"]

UploadLocks == <<Number, Refer, Repoint, Trail>>

LifecycleLocks == <<Revise, Trail>>

\* Mutant of GrantLocks: the audit event is written before the grant.
GrantLocksAuditFirst == <<Trail, Grant, Refer>>

GrantLocks == <<Grant, Refer, Trail>>

RevokeLocks == <<Grant, Trail, Refer>>

\* EXPIRED is written by a statement of its own.
ExpireLocks == <<Grant>>

\* An audit event of its own: a denial, a read, a step of the processing.
AppendLocks == <<Trail, Refer>>

\* A custody event of its own, after a read's audit event.
CustodyLocks == <<Refer>>

\* A login, a search, a new case or a new document: no older row is referred
\* to that anybody locks.
NewLocks == <<Trail>>

Script == [upload |-> UploadLocks, lifecycle |-> LifecycleLocks,
           grant |-> GrantLocks, revoke |-> RevokeLocks,
           expire |-> ExpireLocks, append |-> AppendLocks,
           custody |-> CustodyLocks, new |-> NewLocks, none |-> <<>>]

-----------------------------------------------------------------------------

None == "none"

Requests ==
    [op : {"upload", "lifecycle", "append", "custody"},
     doc : Docs, principal : {None}]
    \cup [op : {"grant", "revoke", "expire"},
          doc : Docs, principal : Principals]
    \cup [op : {"new"}, doc : {None}, principal : {None}]

NoRequest == [op |-> None, doc |-> None, principal |-> None]

\* "next" is the lock a transaction asks for; it has the ones before.
Idle == [request |-> NoRequest, next |-> 1]

Locks(s) == Script[tx[s].request.op]

InFlight(s) == tx[s] # Idle

Asked(s) == Locks(s)[tx[s].next]

Wants(s, lock) == tx[s].next <= Len(Locks(s)) /\ Asked(s) = lock

Has(s, lock) == \E i \in 1 .. tx[s].next - 1 : Locks(s)[i] = lock

SameRow(s, t, on) ==
    \/ on = "trail"
    \/ /\ tx[s].request.doc = tx[t].request.doc
       /\ on = "grant" => tx[s].request.principal = tx[t].request.principal

\* The conflict table of PostgreSQL's row locks, for the modes used here.
Conflict(l, m) ==
    /\ l.on = m.on
    /\ "share" \in {l.mode, m.mode} => "exclusive" \in {l.mode, m.mode}

Waits(s, t) ==
    /\ s # t
    /\ tx[s].next <= Len(Locks(s))
    /\ SameRow(s, t, Asked(s).on)
    /\ \E i \in 1 .. tx[t].next - 1 : Conflict(Asked(s), Locks(t)[i])

\* Each waits for another of them: none will go on.
Deadlocked(S) == S # {} /\ \A s \in S : \E t \in S : Waits(s, t)

Cycle(S) == Deadlocked(S) /\ \A T \in SUBSET S : Deadlocked(T) => T = S

-----------------------------------------------------------------------------

Begin(s) ==
    /\ ~InFlight(s)
    /\ \E r \in Requests : tx' = [tx EXCEPT ![s] = [request |-> r, next |-> 1]]

Acquire(s) ==
    /\ tx[s].next <= Len(Locks(s))
    /\ \A t \in Slots : ~Waits(s, t)
    /\ tx' = [tx EXCEPT ![s].next = @ + 1]

\* Mutant of Commit: the session keeps the trail's lock (pg_advisory_lock).
CommitKeepsTrail(s) ==
    /\ InFlight(s)
    /\ tx[s].next > Len(Locks(s))
    /\ tx' = [tx EXCEPT ![s] =
         IF Has(s, Trail)
           THEN [request |-> [NoRequest EXCEPT !.op = "new"], next |-> 2]
           ELSE Idle]

Commit(s) ==
    /\ InFlight(s)
    /\ tx[s].next > Len(Locks(s))
    /\ tx' = [tx EXCEPT ![s] = Idle]

\* A stale claim, a unique index, Prisma's time limit, a lost connection.
Rollback(s) ==
    /\ InFlight(s)
    /\ tx' = [tx EXCEPT ![s] = Idle]

\* After deadlock_timeout PostgreSQL aborts a transaction of the cycle.
AbortVictim ==
    \E S \in SUBSET Slots :
        /\ Cycle(S)
        /\ \E s \in S : tx' = [tx EXCEPT ![s] = Idle]

Init == tx = [s \in Slots |-> Idle]

Next ==
    \/ \E s \in Slots : Begin(s) \/ Acquire(s) \/ Commit(s) \/ Rollback(s)
    \/ AbortVictim

\* A lock that becomes free again and again is granted at last (PostgreSQL
\* queues its waiters); commits and the deadlock detector do not wait.
Fairness ==
    /\ \A s \in Slots : SF_vars(Acquire(s)) /\ WF_vars(Commit(s))
    /\ WF_vars(AbortVictim)

Spec == Init /\ [][Next]_vars /\ Fairness

-----------------------------------------------------------------------------
(* Properties. *)

\* Transactions are requests with a place in their script.
TypeOK ==
    /\ tx \in [Slots -> [request : Requests \cup {NoRequest}, next : Nat \ {0}]]
    /\ \A s \in Slots : tx[s].next <= Len(Locks(s)) + 1

\* However many transactions block each other, there are two among them that
\* block one another directly: the upload of a version, which replaced the
\* document's pointer and wants the trail, and a transaction that took the
\* trail first and whose event refers to the same document.  Lifecycle
\* changes and grants, in any number and order, never deadlock by themselves.
DeadlockNeedsUpload ==
    \A S \in SUBSET Slots : Deadlocked(S) =>
        \E u, a \in S :
            /\ Waits(u, a) /\ Waits(a, u)
            /\ Has(u, Repoint) /\ Wants(u, Trail)
            /\ Has(a, Trail) /\ Wants(a, Refer)

\* Nobody keeps the trail, which every service needs, or a document from
\* everybody else: who has one of them commits or is rolled back.
ExclusiveLocksAreFreed ==
    \A s \in Slots :
        (\E l \in {Trail, Repoint, Revise} : Has(s, l)) ~> ~InFlight(s)

=============================================================================
