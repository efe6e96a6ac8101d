-------------------------- MODULE AuditChainProofs --------------------------
(* Proofs about AuditChain, for any number of transactions and any skew of  *)
(* their clocks.  The lock keeps the links a tree (OneTree) and the stamps  *)
(* close to the order of the commits; the tree is a chain as long as the    *)
(* stamps strictly increase, which nothing in the code ensures.             *)
EXTENDS AuditChain, TLAPS

Locking == {"locked", "found", "appended"}

Linked == {"found", "appended"}

\* The transaction that is in its append holds the lock.
LockIsHeld == \A t \in Transactions : tx[t].phase \in Locking => lock = t

\* A transaction that has not looked for the newest event has no link, and
\* the row that it inserted carries the link that it found.
RowCarriesLink ==
    \A t \in Transactions :
        /\ tx[t].phase \in {"idle", "open", "locked"} => tx[t].previous = 0
        /\ tx[t].phase = "appended" =>
              tx[t].row \in Event /\ tx[t].row.previous = tx[t].previous

\* The link of an append under way leads to a committed event, or is null
\* while there is none.
LinkIsCommitted ==
    \A t \in Transactions :
        tx[t].phase \in Linked =>
            IF events = <<>> THEN tx[t].previous = 0
            ELSE \E j \in DOMAIN events : tx[t].previous = events[j].id

TypeInv == TypeOK /\ RowCarriesLink

TreeInv == LockIsHeld /\ LinkIsCommitted /\ OneTree

-----------------------------------------------------------------------------

\* The types, and with them what a transaction keeps, hold in every
\* reachable state.
LEMMA TypeInvariant == Spec => []TypeInv
<1>1. Init => TypeInv
  BY DEF Init, TypeInv, TypeOK, RowCarriesLink, Idle, NoEvent, Transaction,
         Phases
<1>2. TypeInv /\ [Next]_vars => TypeInv'
  <2> SUFFICES ASSUME TypeInv, [Next]_vars PROVE TypeInv'
    OBVIOUS
  <2> USE DEF TypeInv, TypeOK
  <2>i. Idle \in Transaction /\ Idle.phase = "idle" /\ Idle.previous = 0
    BY DEF Idle, NoEvent, Transaction, Phases
  <2>1. CASE Tick
    BY <2>1, BoundAssumption DEF Tick, RowCarriesLink
  <2>2. ASSUME NEW t \in Transactions, Step(t) PROVE TypeInv'
    <3>t. /\ tx[t] \in Transaction
          /\ tx[t].phase \in Phases
          /\ tx[t].previous \in Ids \cup {0}
          /\ tx[t].row \in Event \cup {NoEvent}
      BY DEF Transaction
    <3>1. CASE Begin(t)
      <4>1. [tx[t] EXCEPT !.phase = "open"] \in Transaction
        BY <3>t DEF Transaction, Phases
      <4> QED BY <3>1, <4>1 DEF Begin, RowCarriesLink, Transaction
    <3>2. CASE Lock(t)
      <4>1. [tx[t] EXCEPT !.phase = "locked"] \in Transaction
        BY <3>t DEF Transaction, Phases
      <4> QED BY <3>2, <4>1 DEF Lock, RowCarriesLink, Transaction
    <3>3. CASE FindPrevious(t)
      <4>0. "found" \in Phases
        BY DEF Phases
      <4>1. [tx[t] EXCEPT !.phase = "found"] \in Transaction
        BY <3>t, <4>0 DEF Transaction
      <4>2. ASSUME NEW i \in DOMAIN events
            PROVE [tx[t] EXCEPT !.phase = "found",
                                !.previous = events[i].id] \in Transaction
        <5>1. events[i] \in Event
          OBVIOUS
        <5>2. events[i].id \in Ids
          BY <5>1 DEF Event
        <5> QED BY <3>t, <4>0, <5>2 DEF Transaction
      <4>3. CASE events = <<>> /\ tx' = [tx EXCEPT ![t].phase = "found"]
        BY <3>3, <4>1, <4>3 DEF FindPrevious, RowCarriesLink, Transaction
      <4>4. ASSUME NEW i \in DOMAIN events,
                   tx' = [tx EXCEPT ![t] = [@ EXCEPT
                            !.phase = "found", !.previous = events[i].id]]
            PROVE TypeInv'
        <5>1. tx' \in [Transactions -> Transaction]
          BY <4>2, <4>4
        <5>2. tx'[t].phase = "found"
          BY <4>4, <3>t DEF Transaction
        <5>3. \A u \in Transactions \ {t} : tx'[u] = tx[u]
          BY <4>4
        <5>4. RowCarriesLink'
          BY <5>2, <5>3 DEF RowCarriesLink
        <5> QED BY <3>3, <5>1, <5>4 DEF FindPrevious
      <4> QED BY <3>3, <4>3, <4>4 DEF FindPrevious
    <3>4. CASE CreateEvent(t)
      <4>1. PICK id \in Ids \ UsedIds, at \in ClockReadings :
              tx' = [tx EXCEPT ![t] = [@ EXCEPT
                        !.phase = "appended",
                        !.row = [id |-> id, at |-> at,
                                 previous |-> tx[t].previous]]]
        BY <3>4 DEF CreateEvent
      <4> DEFINE row == [id |-> id, at |-> at, previous |-> tx[t].previous]
      <4>2. at \in Nat
        BY DEF ClockReadings
      <4>4. row \in Event /\ row.previous = tx[t].previous
        BY <4>2, <3>t DEF Event
      <4> HIDE DEF row
      <4>5. [tx[t] EXCEPT !.phase = "appended", !.row = row] \in Transaction
        BY <3>t, <4>4 DEF Transaction, Phases
      <4>6. tx' = [tx EXCEPT ![t] = [tx[t] EXCEPT !.phase = "appended",
                                                  !.row = row]]
        BY <4>1 DEF row
      <4> QED
        BY <3>4, <4>4, <4>5, <4>6, <3>t
        DEF CreateEvent, RowCarriesLink, Transaction
    <3>5. CASE Commit(t)
      <4>1. tx[t].row \in Event
        BY <3>5 DEF Commit, RowCarriesLink
      <4>2. PICK e \in Event : e = tx[t].row
        BY <4>1
      <4>3. events' \in Seq(Event)
        BY <3>5, <4>2 DEF Commit
      <4> QED BY <3>5, <2>i, <4>3 DEF Commit, End, RowCarriesLink
    <3>6. CASE Rollback(t)
      BY <3>6, <2>i DEF Rollback, End, RowCarriesLink
    <3> QED BY <2>2, <3>1, <3>2, <3>3, <3>4, <3>5, <3>6 DEF Step
  <2>3. CASE UNCHANGED vars
    BY <2>3 DEF vars, RowCarriesLink
  <2> QED BY <2>1, <2>2, <2>3 DEF Next
<1> QED BY <1>1, <1>2, PTL DEF Spec

\* A commit appends the transaction's row, and nothing else changes the
\* trail; the other actions leave it and every other transaction alone.
LEMMA CommitAppends ==
  ASSUME TypeInv, NEW t \in Transactions, Commit(t)
  PROVE  /\ tx[t].row \in Event
         /\ Len(events') = Len(events) + 1
         /\ DOMAIN events' = 1 .. Len(events) + 1
         /\ \A i \in DOMAIN events : events'[i] = events[i]
         /\ events'[Len(events) + 1] = tx[t].row
<1>1. tx[t].row \in Event
  BY DEF Commit, TypeInv, RowCarriesLink
<1>2. PICK e \in Event : e = tx[t].row
  BY <1>1
<1>3. events \in Seq(Event) /\ events' = Append(events, e)
  BY <1>2 DEF Commit, TypeInv, TypeOK
<1> QED BY <1>1, <1>2, <1>3

\* docs/architecture.md, the hash chain: the advisory lock is enough for
\* the links to form one tree, for every behaviour of the clocks.
THEOREM TrailIsOneTree == Spec => []OneTree
<1>1. Init => TreeInv
  BY DEF Init, TreeInv, LockIsHeld, LinkIsCommitted, OneTree, Idle, Locking,
         Linked
<1>2. TypeInv /\ TreeInv /\ [Next]_vars => TreeInv'
  <2> SUFFICES ASSUME TypeInv, TreeInv, [Next]_vars PROVE TreeInv'
    OBVIOUS
  <2> USE DEF TreeInv
  <2>i. Idle.phase = "idle"
    BY DEF Idle
  <2>t. events \in Seq(Event) /\ tx \in [Transactions -> Transaction]
    BY DEF TypeInv, TypeOK
  <2>p. Linked \subseteq Locking /\ Locking = {"locked"} \cup Linked
    BY DEF Linked, Locking
  <2>1. CASE Tick
    BY <2>1 DEF Tick, LockIsHeld, LinkIsCommitted, OneTree
  <2>2. ASSUME NEW t \in Transactions, Step(t) PROVE TreeInv'
    <3>t. tx[t] \in Transaction
      BY <2>t
    <3>1. CASE Begin(t)
      BY <3>1, <2>t, <3>t DEF Begin, LockIsHeld, LinkIsCommitted, OneTree,
         Locking, Linked, Transaction
    <3>2. CASE Lock(t)
      <4>1. LockIsHeld'
        BY <3>2, <2>t, <3>t, NobodyAssumption
        DEF Lock, LockIsHeld, Locking, Transaction
      <4>2. LinkIsCommitted' /\ OneTree'
        BY <3>2, <2>t, <3>t
        DEF Lock, LinkIsCommitted, OneTree, Linked, Transaction
      <4> QED BY <4>1, <4>2
    <3>3. CASE FindPrevious(t)
      <4>1. tx[t].previous = 0
        BY <3>3 DEF FindPrevious, TypeInv, RowCarriesLink
      <4>2. LockIsHeld' /\ OneTree'
        BY <3>3, <2>t, <3>t
        DEF FindPrevious, LockIsHeld, OneTree, Locking, Transaction
      <4>3. LinkIsCommitted'
        <5>1. events' = events /\ \A u \in Transactions \ {t} : tx'[u] = tx[u]
          BY <3>3, <2>t DEF FindPrevious
        <5>2. IF events = <<>> THEN tx'[t].previous = 0
              ELSE \E j \in DOMAIN events : tx'[t].previous = events[j].id
          <6>1. CASE events = <<>> /\ tx' = [tx EXCEPT ![t].phase = "found"]
            BY <4>1, <6>1, <2>t, <3>t DEF Transaction
          <6>2. ASSUME NEW i \in DOMAIN events,
                       tx' = [tx EXCEPT ![t] = [@ EXCEPT
                                !.phase = "found", !.previous = events[i].id]]
                PROVE  events # <<>> /\ tx'[t].previous = events[i].id
            BY <6>2, <2>t, <3>t DEF Transaction
          <6> QED BY <3>3, <6>1, <6>2 DEF FindPrevious
        <5> QED BY <5>1, <5>2 DEF LinkIsCommitted
      <4> QED BY <4>2, <4>3
    <3>4. CASE CreateEvent(t)
      BY <3>4, <2>t, <3>t
      DEF CreateEvent, LockIsHeld, LinkIsCommitted, OneTree, Locking, Linked,
          Transaction
    <3>5. CASE Commit(t)
      <4>1. /\ tx[t].row.previous = tx[t].previous
            /\ lock = t /\ tx[t].phase \in Linked
        BY <3>5 DEF Commit, TypeInv, RowCarriesLink, LockIsHeld, Locking, Linked
      <4>2. \A u \in Transactions : tx'[u].phase \notin Locking
        BY <3>5, <2>i, <2>t, <4>1 DEF Commit, End, LockIsHeld, Locking
      <4>3. OneTree'
        <5>1. ASSUME NEW i \in DOMAIN events'
              PROVE IF i = 1 THEN events'[i].previous = 0
                    ELSE \E j \in 1 .. i - 1 :
                            events'[i].previous = events'[j].id
          <6>1. CASE i \in DOMAIN events
            BY <3>5, <6>1, <2>t, CommitAppends DEF OneTree
          <6>2. CASE i = Len(events) + 1
            <7>1. CASE events = <<>>
              BY <3>5, <4>1, <6>2, <7>1, CommitAppends DEF LinkIsCommitted
            <7>2. CASE events # <<>>
              <8>1. PICK j \in DOMAIN events : tx[t].previous = events[j].id
                BY <4>1, <7>2 DEF LinkIsCommitted
              <8>2. i # 1 /\ j \in 1 .. i - 1
                BY <6>2, <7>2, <2>t
              <8> QED BY <3>5, <4>1, <6>2, <8>1, <8>2, CommitAppends
            <7> QED BY <7>1, <7>2
          <6> QED BY <3>5, <5>1, <6>1, <6>2, <2>t, CommitAppends
        <5> QED BY <5>1 DEF OneTree
      <4> QED BY <4>2, <4>3, <2>p DEF LockIsHeld, LinkIsCommitted
    <3>6. CASE Rollback(t)
      <4>1. LockIsHeld'
        BY <3>6, <2>i, <2>t DEF Rollback, End, LockIsHeld, Locking
      <4>2. LinkIsCommitted' /\ OneTree'
        BY <3>6, <2>i, <2>t DEF Rollback, End, LinkIsCommitted, OneTree, Linked
      <4> QED BY <4>1, <4>2
    <3> QED BY <2>2, <3>1, <3>2, <3>3, <3>4, <3>5, <3>6 DEF Step
  <2>3. CASE UNCHANGED vars
    BY <2>3 DEF vars, LockIsHeld, LinkIsCommitted, OneTree
  <2> QED BY <2>1, <2>2, <2>3 DEF Next
<1>3. TreeInv => OneTree
  BY DEF TreeInv
<1> QED BY <1>1, <1>2, <1>3, TypeInvariant, PTL DEF Spec

-----------------------------------------------------------------------------

LastId == IF events = <<>> THEN 0 ELSE events[Len(events)].id

\* While times increase the newest event is the one committed last, so that
\* an append under way has its id.
LinkIsLast ==
    \A t \in Transactions : tx[t].phase \in Linked => tx[t].previous = LastId

ChainInv == LockIsHeld /\ (TimesIncrease => LinkIsLast /\ LinksToThePrevious)

\* No event, committed or not yet, is stamped later than the clock, and an
\* append under way is not stamped earlier than a committed event, but for
\* the skew.
TimeInv ==
    /\ LockIsHeld
    /\ TimestampsFollowCommits
    /\ \A i \in DOMAIN events : events[i].at <= clock
    /\ \A t \in Transactions :
          tx[t].phase = "appended" =>
              /\ tx[t].row.at <= clock
              /\ \A i \in DOMAIN events :
                    events[i].at <= tx[t].row.at + MaxSkew

\* The newest event by (createdAt, id) is the last one when times increase.
LEMMA NewestIsLast ==
  ASSUME TypeOK, TimesIncrease, NEW i \in DOMAIN events, Newest(i)
  PROVE  i = Len(events) /\ events # <<>>
<1>1. events \in Seq(Event) /\ Len(events) \in DOMAIN events /\ events # <<>>
  BY DEF TypeOK
<1>2. \A k \in DOMAIN events : events[k] \in Event
  BY <1>1
<1>3. \A k \in DOMAIN events : events[k].at \in Nat
  BY <1>2 DEF Event
<1>4. SUFFICES ASSUME i # Len(events) PROVE FALSE
  BY <1>1
<1>5. i < Len(events)
  BY <1>1, <1>4
<1>6. events[i].at < events[Len(events)].at
  BY <1>1, <1>5 DEF TimesIncrease
<1>7. \/ events[Len(events)].at < events[i].at
      \/ events[Len(events)].at = events[i].at
  BY <1>1, <1>4 DEF Newest
<1> QED BY <1>1, <1>3, <1>6, <1>7

\* docs/architecture.md: each event hashes the previous one.  As long as the
\* timestamps increase, the trail in the order of the commits is one chain.
THEOREM ChainsWhenTimesIncrease == Spec => []ChainWhenTimesIncrease
<1>1. Init => ChainInv
  BY DEF Init, ChainInv, LockIsHeld, TimesIncrease, LinkIsLast,
         LinksToThePrevious, Idle, Locking, Linked
<1>2. TypeInv /\ ChainInv /\ [Next]_vars => ChainInv'
  <2> SUFFICES ASSUME TypeInv, ChainInv, [Next]_vars PROVE ChainInv'
    OBVIOUS
  <2> USE DEF ChainInv
  <2>i. Idle.phase = "idle"
    BY DEF Idle
  <2>t. events \in Seq(Event) /\ tx \in [Transactions -> Transaction]
    BY DEF TypeInv, TypeOK
  <2>p. Linked \subseteq Locking /\ "appended" \in Linked
    BY DEF Linked, Locking
  <2>1. CASE Tick
    BY <2>1 DEF Tick, LockIsHeld, TimesIncrease, LinkIsLast,
       LinksToThePrevious, LastId
  <2>2. ASSUME NEW t \in Transactions, Step(t) PROVE ChainInv'
    <3>t. tx[t] \in Transaction
      BY <2>t
    <3>1. CASE Begin(t)
      <4>1. LockIsHeld' /\ (LinkIsLast => LinkIsLast')
        BY <3>1, <2>t, <3>t
        DEF Begin, LockIsHeld, LinkIsLast, LastId, Locking, Linked, Transaction
      <4> QED BY <3>1, <4>1 DEF Begin, TimesIncrease, LinksToThePrevious
    <3>2. CASE Lock(t)
      <4>1. LockIsHeld'
        BY <3>2, <2>t, <3>t, NobodyAssumption
        DEF Lock, LockIsHeld, Locking, Transaction
      <4>2. LinkIsLast => LinkIsLast'
        BY <3>2, <2>t, <3>t
        DEF Lock, LinkIsLast, LastId, Linked, Transaction
      <4> QED BY <3>2, <4>1, <4>2 DEF Lock, TimesIncrease, LinksToThePrevious
    <3>3. CASE FindPrevious(t)
      <4>0. tx[t].previous = 0 /\ TypeOK
        BY <3>3 DEF FindPrevious, TypeInv, RowCarriesLink
      <4>1. /\ events' = events /\ lock' = lock
            /\ \A u \in Transactions \ {t} : tx'[u] = tx[u]
        BY <3>3, <2>t DEF FindPrevious
      <4>2. /\ tx'[t].phase = "found"
            /\ TimesIncrease => tx'[t].previous = LastId
        <5>1. CASE events = <<>> /\ tx' = [tx EXCEPT ![t].phase = "found"]
          BY <4>0, <5>1, <2>t, <3>t DEF LastId, Transaction
        <5>2. ASSUME NEW i \in DOMAIN events, Newest(i),
                     tx' = [tx EXCEPT ![t] = [@ EXCEPT
                              !.phase = "found", !.previous = events[i].id]]
              PROVE  /\ tx'[t].phase = "found"
                     /\ TimesIncrease => tx'[t].previous = LastId
          <6>1. TimesIncrease => i = Len(events) /\ events # <<>>
            BY <4>0, <5>2, NewestIsLast
          <6> QED BY <5>2, <6>1, <2>t, <3>t DEF LastId, Transaction
        <5> QED BY <3>3, <5>1, <5>2 DEF FindPrevious
      <4>3. LockIsHeld'
        BY <3>3, <4>1, <4>2 DEF FindPrevious, LockIsHeld, Locking
      <4>4. TimesIncrease /\ LinkIsLast => LinkIsLast'
        BY <4>1, <4>2 DEF LinkIsLast, LastId
      <4> QED BY <4>1, <4>3, <4>4 DEF TimesIncrease, LinksToThePrevious
    <3>4. CASE CreateEvent(t)
      <4>1. PICK id \in Ids \ UsedIds, at \in ClockReadings :
              tx' = [tx EXCEPT ![t] = [@ EXCEPT
                        !.phase = "appended",
                        !.row = [id |-> id, at |-> at,
                                 previous |-> tx[t].previous]]]
        BY <3>4 DEF CreateEvent
      <4>2. /\ tx'[t].phase = "appended"
            /\ tx'[t].previous = tx[t].previous
            /\ \A u \in Transactions \ {t} : tx'[u] = tx[u]
        BY <4>1, <2>t, <3>t DEF Transaction
      <4>3. events' = events /\ lock' = lock /\ tx[t].phase = "found"
        BY <3>4 DEF CreateEvent
      <4>4. LockIsHeld' /\ (LinkIsLast => LinkIsLast')
        BY <4>2, <4>3 DEF LockIsHeld, LinkIsLast, LastId, Locking, Linked
      <4> QED BY <4>3, <4>4 DEF TimesIncrease, LinksToThePrevious
    <3>5. CASE Commit(t)
      <4>1. /\ tx[t].row.previous = tx[t].previous /\ lock = t
            /\ LinkIsLast => tx[t].previous = LastId
        BY <3>5 DEF Commit, TypeInv, RowCarriesLink, LockIsHeld, LinkIsLast,
           Locking, Linked
      <4>2. \A u \in Transactions : tx'[u].phase \notin Locking
        BY <3>5, <2>i, <2>t, <4>1 DEF Commit, End, LockIsHeld, Locking
      <4>3. TimesIncrease' => TimesIncrease
        BY <3>5, <2>t, CommitAppends DEF TimesIncrease
      <4>4. LinkIsLast /\ LinksToThePrevious => LinksToThePrevious'
        <5>1. ASSUME LinkIsLast, LinksToThePrevious, NEW i \in DOMAIN events'
              PROVE events'[i].previous =
                        IF i = 1 THEN 0 ELSE events'[i - 1].id
          <6>1. CASE i \in DOMAIN events
            <7>1. i # 1 => i - 1 \in DOMAIN events
              BY <6>1, <2>t
            <7> QED
              BY <3>5, <5>1, <6>1, <7>1, CommitAppends DEF LinksToThePrevious
          <6>2. CASE i = Len(events) + 1
            <7>1. CASE events = <<>>
              BY <3>5, <4>1, <5>1, <6>2, <7>1, CommitAppends DEF LastId
            <7>2. CASE events # <<>>
              <8>1. i # 1 /\ i - 1 = Len(events) /\ i - 1 \in DOMAIN events
                BY <6>2, <7>2, <2>t
              <8> QED
                BY <3>5, <4>1, <5>1, <6>2, <7>2, <8>1, CommitAppends
                DEF LastId
            <7> QED BY <7>1, <7>2
          <6> QED BY <3>5, <5>1, <6>1, <6>2, <2>t, CommitAppends
        <5> QED BY <5>1 DEF LinksToThePrevious
      <4> QED BY <4>2, <4>3, <4>4, <2>p DEF LockIsHeld, LinkIsLast
    <3>6. CASE Rollback(t)
      <4>1. LockIsHeld'
        BY <3>6, <2>i, <2>t DEF Rollback, End, LockIsHeld, Locking
      <4>2. LinkIsLast => LinkIsLast'
        BY <3>6, <2>i, <2>t DEF Rollback, End, LinkIsLast, LastId, Linked
      <4> QED BY <3>6, <4>1, <4>2
          DEF Rollback, TimesIncrease, LinksToThePrevious
    <3> QED BY <2>2, <3>1, <3>2, <3>3, <3>4, <3>5, <3>6 DEF Step
  <2>3. CASE UNCHANGED vars
    BY <2>3 DEF vars, LockIsHeld, TimesIncrease, LinkIsLast,
       LinksToThePrevious, LastId
  <2> QED BY <2>1, <2>2, <2>3 DEF Next
<1>3. ChainInv => ChainWhenTimesIncrease
  BY DEF ChainInv, ChainWhenTimesIncrease
<1> QED BY <1>1, <1>2, <1>3, TypeInvariant, PTL DEF Spec

\* The lock is held from before the clock is read until the commit, so that
\* timestamps follow the commits as closely as the clocks follow each other.
THEOREM StampsFollowCommits == Spec => []TimestampsFollowCommits
<1>1. Init => TimeInv
  BY DEF Init, TimeInv, LockIsHeld, TimestampsFollowCommits, Idle, Locking
<1>2. TypeInv /\ TimeInv /\ [Next]_vars => TimeInv'
  <2> SUFFICES ASSUME TypeInv, TimeInv, [Next]_vars PROVE TimeInv'
    OBVIOUS
  <2> USE DEF TimeInv
  <2>i. Idle.phase = "idle"
    BY DEF Idle
  <2>t. /\ events \in Seq(Event) /\ tx \in [Transactions -> Transaction]
        /\ clock \in Nat /\ MaxSkew \in Nat
    BY ClockAssumption DEF TypeInv, TypeOK
  <2>e. \A i \in DOMAIN events : events[i].at \in Nat
    <3>1. \A i \in DOMAIN events : events[i] \in Event
      BY <2>t
    <3> QED BY <3>1 DEF Event
  <2>r. \A u \in Transactions : tx[u].phase = "appended" => tx[u].row.at \in Nat
    BY DEF TypeInv, RowCarriesLink, Event
  <2>1. CASE Tick
    BY <2>1, <2>t, <2>e, <2>r, BoundAssumption
    DEF Tick, LockIsHeld, TimestampsFollowCommits
  <2>2. ASSUME NEW t \in Transactions, Step(t) PROVE TimeInv'
    <3>t. tx[t] \in Transaction
      BY <2>t
    <3>1. CASE Begin(t)
      BY <3>1, <2>t, <3>t
      DEF Begin, LockIsHeld, TimestampsFollowCommits, Locking, Transaction
    <3>2. CASE Lock(t)
      <4>1. LockIsHeld'
        BY <3>2, <2>t, <3>t, NobodyAssumption
        DEF Lock, LockIsHeld, Locking, Transaction
      <4> QED BY <3>2, <4>1, <2>t, <3>t
          DEF Lock, TimestampsFollowCommits, Transaction
    <3>3. CASE FindPrevious(t)
      <4>1. /\ UNCHANGED <<events, lock, clock>> /\ tx[t].phase = "locked"
            /\ \A u \in Transactions \ {t} : tx'[u] = tx[u]
        BY <3>3, <2>t DEF FindPrevious
      <4>2. tx'[t].phase = "found"
        <5>1. CASE tx' = [tx EXCEPT ![t].phase = "found"]
          BY <5>1, <2>t, <3>t DEF Transaction
        <5>2. ASSUME NEW i \in DOMAIN events,
                     tx' = [tx EXCEPT ![t] = [@ EXCEPT
                              !.phase = "found", !.previous = events[i].id]]
              PROVE  tx'[t].phase = "found"
          BY <5>2, <2>t, <3>t DEF Transaction
        <5> QED BY <3>3, <5>1, <5>2 DEF FindPrevious
      <4> QED BY <4>1, <4>2 DEF LockIsHeld, TimestampsFollowCommits, Locking
    <3>4. CASE CreateEvent(t)
      <4>1. PICK id \in Ids \ UsedIds, at \in ClockReadings :
              tx' = [tx EXCEPT ![t] = [@ EXCEPT
                        !.phase = "appended",
                        !.row = [id |-> id, at |-> at,
                                 previous |-> tx[t].previous]]]
        BY <3>4 DEF CreateEvent
      <4>2. at \in Nat /\ at <= clock /\ clock <= at + MaxSkew
        BY <2>t DEF ClockReadings
      <4>3. /\ tx'[t].phase = "appended" /\ tx'[t].row.at = at
            /\ \A u \in Transactions \ {t} : tx'[u] = tx[u]
        BY <4>1, <2>t, <3>t DEF Transaction
      <4>4. UNCHANGED <<events, lock, clock>> /\ tx[t].phase = "found"
        BY <3>4 DEF CreateEvent
      <4>5. LockIsHeld'
        BY <4>3, <4>4 DEF LockIsHeld, Locking
      <4>6. \A i \in DOMAIN events : events[i].at <= at + MaxSkew
        BY <4>2, <2>t, <2>e
      <4> QED BY <4>2, <4>3, <4>4, <4>5, <4>6 DEF TimestampsFollowCommits
    <3>5. CASE Commit(t)
      <4>1. /\ lock = t /\ tx[t].row.at <= clock /\ tx[t].row.at \in Nat
            /\ \A i \in DOMAIN events : events[i].at <= tx[t].row.at + MaxSkew
        BY <3>5, <2>r DEF Commit, LockIsHeld, Locking
      <4>2. \A u \in Transactions : tx'[u].phase \notin Locking
        BY <3>5, <2>i, <2>t, <4>1 DEF Commit, End, LockIsHeld, Locking
      <4>3. TimestampsFollowCommits'
        BY <3>5, <4>1, <2>t, CommitAppends DEF TimestampsFollowCommits
      <4>4. \A i \in DOMAIN events' : events'[i].at <= clock'
        BY <3>5, <4>1, <2>t, CommitAppends DEF Commit
      <4> QED BY <4>2, <4>3, <4>4 DEF LockIsHeld, Locking
    <3>6. CASE Rollback(t)
      BY <3>6, <2>i, <2>t
      DEF Rollback, End, LockIsHeld, TimestampsFollowCommits, Locking
    <3> QED BY <2>2, <3>1, <3>2, <3>3, <3>4, <3>5, <3>6 DEF Step
  <2>3. CASE UNCHANGED vars
    BY <2>3 DEF vars, LockIsHeld, TimestampsFollowCommits
  <2> QED BY <2>1, <2>2, <2>3 DEF Next
<1>3. TimeInv => TimestampsFollowCommits
  BY DEF TimeInv
<1> QED BY <1>1, <1>2, <1>3, TypeInvariant, PTL DEF Spec

\* The types, for every value of the constants.
THEOREM TrailTypes == Spec => []TypeOK
<1>1. TypeInv => TypeOK
  BY DEF TypeInv
<1> QED BY <1>1, TypeInvariant, PTL

=============================================================================
