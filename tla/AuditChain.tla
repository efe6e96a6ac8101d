----------------------------- MODULE AuditChain -----------------------------
(* The hash-linked audit trail: AuditService.append, inside the transaction *)
(* of the operation it records or in one of its own.  Transactions of all   *)
(* API processes take one advisory lock, look for the newest event by       *)
(* (createdAt, id), link a new one to it, and hold the lock until they end. *)
(* The id is a random UUID and createdAt is the process's clock, in         *)
(* milliseconds.  The module asks when "the newest event" is the event      *)
(* that was appended last.                                                  *)
EXTENDS Naturals, Sequences

CONSTANTS Transactions, \* transactions that may be open at the same time
          Nobody,       \* the lock is free
          Ids,          \* UUIDs, in the order PostgreSQL gives them
          MaxSkew,      \* how far one process's clock may be behind
          MaxClock      \* bound: ticks (milliseconds) explored

ASSUME IdAssumption == Ids \subseteq Nat \ {0}
ASSUME NobodyAssumption == Nobody \notin Transactions
ASSUME ClockAssumption == MaxSkew \in Nat
ASSUME BoundAssumption == MaxClock \in Nat

VARIABLES events, \* committed rows of audit_events, in the order of commits
          tx,     \* what each transaction is doing, and the row it inserted
          lock,   \* holder of the advisory lock 26190
          clock

vars == <<events, tx, lock, clock>>

-----------------------------------------------------------------------------

\* An event is known by its id; previousHash is the hash of one event, so the
\* id of that event stands for it, and 0 for null.
Event == [id : Ids, at : Nat, previous : Ids \cup {0}]

NoEvent == [id |-> 0, at |-> 0, previous |-> 0]

Phases == {"idle", "open", "locked", "found", "appended"}

Transaction == [phase : Phases, previous : Ids \cup {0},
                row : Event \cup {NoEvent}]

Idle == [phase |-> "idle", previous |-> 0, row |-> NoEvent]

\* READ COMMITTED: a statement sees what was committed when it starts.
Newest(i) ==
    /\ i \in DOMAIN events
    /\ \A j \in DOMAIN events :
          \/ j = i
          \/ events[j].at < events[i].at
          \/ events[j].at = events[i].at /\ events[j].id < events[i].id

UsedIds == {events[i].id : i \in DOMAIN events}
           \cup {tx[t].row.id : t \in Transactions}

-----------------------------------------------------------------------------

\* A transaction begins; what it does before its append is not of interest.
Begin(t) ==
    /\ tx[t].phase = "idle"
    /\ tx' = [tx EXCEPT ![t].phase = "open"]
    /\ UNCHANGED <<events, lock, clock>>

\* Mutant of Lock: the advisory lock is not taken.
LockOmitted(t) ==
    /\ tx[t].phase = "open"
    /\ tx' = [tx EXCEPT ![t].phase = "locked"]
    /\ UNCHANGED <<events, lock, clock>>

Lock(t) ==
    /\ tx[t].phase = "open"
    /\ lock = Nobody
    /\ lock' = t
    /\ tx' = [tx EXCEPT ![t].phase = "locked"]
    /\ UNCHANGED <<events, clock>>

FindPrevious(t) ==
    /\ tx[t].phase = "locked"
    /\ \/ events = <<>> /\ tx' = [tx EXCEPT ![t].phase = "found"]
       \/ \E i \in DOMAIN events :
            /\ Newest(i)
            /\ tx' = [tx EXCEPT ![t] = [@ EXCEPT
                         !.phase = "found", !.previous = events[i].id]]
    /\ UNCHANGED <<events, lock, clock>>

\* new Date() in one of the API's processes.
ClockReadings == {at \in 0 .. clock : clock <= at + MaxSkew}

\* Mutant of CreateEvent: the lock ends with the statement, as a session lock
\* that is released by hand would.
CreateEventAndUnlock(t) ==
    /\ tx[t].phase = "found"
    /\ \E id \in Ids \ UsedIds, at \in ClockReadings :
          tx' = [tx EXCEPT ![t] = [@ EXCEPT
                    !.phase = "appended",
                    !.row = [id |-> id, at |-> at,
                             previous |-> tx[t].previous]]]
    /\ lock' = Nobody
    /\ UNCHANGED <<events, clock>>

CreateEvent(t) ==
    /\ tx[t].phase = "found"
    /\ \E id \in Ids \ UsedIds, at \in ClockReadings :
          tx' = [tx EXCEPT ![t] = [@ EXCEPT
                    !.phase = "appended",
                    !.row = [id |-> id, at |-> at,
                             previous |-> tx[t].previous]]]
    /\ UNCHANGED <<events, lock, clock>>

\* The lock belongs to the transaction and is released with it.
End(t) ==
    /\ tx' = [tx EXCEPT ![t] = Idle]
    /\ lock' = IF lock = t THEN Nobody ELSE lock

Commit(t) ==
    /\ tx[t].phase = "appended"
    /\ events' = Append(events, tx[t].row)
    /\ End(t)
    /\ UNCHANGED clock

\* The operation fails after its append, or before it; or the process dies.
Rollback(t) ==
    /\ tx[t].phase # "idle"
    /\ End(t)
    /\ UNCHANGED <<events, clock>>

Tick ==
    /\ clock < MaxClock
    /\ clock' = clock + 1
    /\ UNCHANGED <<events, tx, lock>>

-----------------------------------------------------------------------------

Init ==
    /\ events = <<>>
    /\ tx = [t \in Transactions |-> Idle]
    /\ lock = Nobody
    /\ clock = 0

Step(t) ==
    \/ Begin(t) \/ Lock(t) \/ FindPrevious(t) \/ CreateEvent(t)
    \/ Commit(t) \/ Rollback(t)

Next == Tick \/ \E t \in Transactions : Step(t)

Spec == Init /\ [][Next]_vars

-----------------------------------------------------------------------------
(* Properties. *)

\* The trail, the transactions and the lock have their types.
TypeOK ==
    /\ events \in Seq(Event)
    /\ tx \in [Transactions -> Transaction]
    /\ lock \in Transactions \cup {Nobody}
    /\ clock \in Nat

\* Whatever the clocks say, the links form one tree that starts at the first
\* event: no link leads to an event that was rolled back or is to come, and
\* no second event claims to be the first.
OneTree ==
    \A i \in DOMAIN events :
        IF i = 1 THEN events[i].previous = 0
        ELSE \E j \in 1 .. i - 1 : events[i].previous = events[j].id

\* The trail, in the order of the commits, is one chain: every event links to
\* the event committed just before it.
LinksToThePrevious ==
    \A i \in DOMAIN events :
        events[i].previous = IF i = 1 THEN 0 ELSE events[i - 1].id

TimesIncrease ==
    \A i, j \in DOMAIN events : i < j => events[i].at < events[j].at

\* What the look-up by (createdAt, id) is good for: as long as no event has
\* a timestamp as early as that of one committed before it, there is a chain.
ChainWhenTimesIncrease == TimesIncrease => LinksToThePrevious

\* The timestamps follow the order of the commits, but for the skew between
\* clocks, although a transaction takes its timestamp long before it commits.
TimestampsFollowCommits ==
    \A i, j \in DOMAIN events : i < j => events[i].at <= events[j].at + MaxSkew

=============================================================================
