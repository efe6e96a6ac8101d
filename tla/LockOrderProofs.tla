--------------------------- MODULE LockOrderProofs ---------------------------
(* Proofs about LockOrder, for any sessions, documents and principals: an    *)
(* upload takes part in every deadlock.                                      *)
EXTENDS LockOrder, TLAPS

-----------------------------------------------------------------------------
(* The scripts, unfolded. *)

\* Every request is of one of the operations.
LEMMA RequestOps ==
    ASSUME NEW r \in Requests \cup {NoRequest}
    PROVE  r.op \in {"upload", "lifecycle", "append", "custody", "grant",
                     "revoke", "expire", "new", "none"}
BY DEF Requests, NoRequest, None

LEMMA SessionOps ==
    ASSUME TypeOK, NEW s \in Slots
    PROVE  /\ tx[s].request.op \in
                {"upload", "lifecycle", "append", "custody", "grant",
                 "revoke", "expire", "new", "none"}
           /\ tx[s].next \in Nat \ {0}
           /\ tx[s].next <= Len(Locks(s)) + 1
<1>1. tx[s] \in [request : Requests \cup {NoRequest}, next : Nat \ {0}]
  BY DEF TypeOK
<1>2. tx[s].request \in Requests \cup {NoRequest} /\ tx[s].next \in Nat \ {0}
  BY <1>1
<1> QED
  BY <1>2, RequestOps DEF TypeOK

\* The lock asked for at each place of each script.
Place(s) ==
    \/ /\ tx[s].request.op = "upload"
       /\ Locks(s) = <<Number, Refer, Repoint, Trail>>
    \/ /\ tx[s].request.op = "lifecycle"
       /\ Locks(s) = <<Revise, Trail>>
    \/ /\ tx[s].request.op = "grant"
       /\ Locks(s) = <<Grant, Refer, Trail>>
    \/ /\ tx[s].request.op = "revoke"
       /\ Locks(s) = <<Grant, Trail, Refer>>
    \/ /\ tx[s].request.op = "expire"
       /\ Locks(s) = <<Grant>>
    \/ /\ tx[s].request.op = "append"
       /\ Locks(s) = <<Trail, Refer>>
    \/ /\ tx[s].request.op = "custody"
       /\ Locks(s) = <<Refer>>
    \/ /\ tx[s].request.op = "new"
       /\ Locks(s) = <<Trail>>
    \/ /\ tx[s].request.op = "none"
       /\ Locks(s) = <<>>

LEMMA Places ==
    ASSUME TypeOK, NEW s \in Slots
    PROVE  Place(s)
BY SessionOps
   DEF Place, Locks, Script, UploadLocks, LifecycleLocks, GrantLocks,
       RevokeLocks, ExpireLocks, AppendLocks, CustodyLocks, NewLocks

\* A request in the middle of its script waits for one of its locks.
Waiting(s) == tx[s].next <= Len(Locks(s))

AllLocks == {Refer, Revise, Repoint, Trail, Number, Grant}

LEMMA AskedLocks ==
    ASSUME TypeOK, NEW s \in Slots
    PROVE  /\ Waiting(s) => Asked(s) \in AllLocks
           /\ \A i \in 1 .. tx[s].next - 1 : Locks(s)[i] \in AllLocks
<1> DEFINE n == tx[s].next
<1>1. Place(s)
  BY Places
<1>2. n \in Nat \ {0} /\ n <= Len(Locks(s)) + 1
  BY SessionOps
<1>3. \A i \in 1 .. Len(Locks(s)) : Locks(s)[i] \in AllLocks
  BY <1>1 DEF Place, AllLocks
<1>4. Len(Locks(s)) \in Nat
  BY <1>1 DEF Place
<1> QED
  BY <1>2, <1>3, <1>4 DEF Waiting, Asked

\* The locks are different from one another.
LEMMA LocksDiffer ==
    /\ Refer # Revise /\ Refer # Repoint /\ Refer # Trail /\ Refer # Number
    /\ Refer # Grant /\ Revise # Repoint /\ Revise # Trail
    /\ Revise # Number /\ Revise # Grant /\ Repoint # Trail
    /\ Repoint # Number /\ Repoint # Grant /\ Trail # Number
    /\ Trail # Grant /\ Number # Grant
BY DEF Refer, Revise, Repoint, Trail, Number, Grant

\* What a waiting transaction wants, by a lock that it has.
LEMMA WantsByHas ==
    ASSUME TypeOK, NEW s \in Slots, Waiting(s)
    PROVE  /\ Has(s, Trail) => Wants(s, Refer)
           /\ Has(s, Repoint) => Wants(s, Trail)
           /\ Has(s, Revise) => Wants(s, Trail)
           /\ Has(s, Refer) =>
                \/ Wants(s, Trail)
                \/ Wants(s, Repoint)
           /\ Has(s, Grant) => Wants(s, Refer) \/ Wants(s, Trail)
           /\ Has(s, Number) =>
                Wants(s, Refer) \/ Wants(s, Repoint) \/ Wants(s, Trail)
           /\ Wants(s, Repoint) => Has(s, Number)
<1> DEFINE n == tx[s].next
<1>1. Place(s) /\ n \in Nat \ {0} /\ n <= Len(Locks(s))
  BY Places, SessionOps DEF Waiting
<1>2. CASE Locks(s) = <<Number, Refer, Repoint, Trail>>
  <2>1. n \in 1 .. 4
    BY <1>1, <1>2
  <2>2. CASE n = 1
    BY <1>2, <2>2, LocksDiffer DEF Has, Wants, Asked
  <2>3. CASE n = 2
    BY <1>2, <2>3, LocksDiffer DEF Has, Wants, Asked
  <2>4. CASE n = 3
    BY <1>2, <2>4, LocksDiffer DEF Has, Wants, Asked
  <2>5. CASE n = 4
    BY <1>2, <2>5, LocksDiffer DEF Has, Wants, Asked
  <2> QED
    BY <2>1, <2>2, <2>3, <2>4, <2>5
<1>3. CASE Locks(s) = <<Revise, Trail>>
  BY <1>1, <1>3, LocksDiffer DEF Has, Wants, Asked
<1>4. CASE Locks(s) = <<Grant, Refer, Trail>>
  BY <1>1, <1>4, LocksDiffer DEF Has, Wants, Asked
<1>5. CASE Locks(s) = <<Grant, Trail, Refer>>
  BY <1>1, <1>5, LocksDiffer DEF Has, Wants, Asked
<1>6. CASE Locks(s) = <<Grant>>
  BY <1>1, <1>6, LocksDiffer DEF Has, Wants, Asked
<1>7. CASE Locks(s) = <<Trail, Refer>>
  BY <1>1, <1>7, LocksDiffer DEF Has, Wants, Asked
<1>8. CASE Locks(s) = <<Refer>>
  BY <1>1, <1>8, LocksDiffer DEF Has, Wants, Asked
<1>9. CASE Locks(s) = <<Trail>>
  BY <1>1, <1>9, LocksDiffer DEF Has, Wants, Asked
<1>10. CASE Locks(s) = <<>>
  BY <1>1, <1>10
<1> QED
  BY <1>1, <1>2, <1>3, <1>4, <1>5, <1>6, <1>7, <1>8, <1>9, <1>10 DEF Place

\* What the holder of a lock may have that is in the way of a wanted one.
LEMMA InTheWay ==
    ASSUME NEW l \in AllLocks, NEW m \in AllLocks, Conflict(l, m)
    PROVE  /\ l = Trail => m = Trail
           /\ l = Refer => m = Repoint
           /\ l = Revise => m \in {Revise, Repoint}
           /\ l = Repoint => m \in {Refer, Revise, Repoint}
           /\ l = Grant => m = Grant
           /\ l = Number => m = Number
BY DEF Conflict, AllLocks, Refer, Revise, Repoint, Trail, Number, Grant

LEMMA SameRowSymmetric ==
    ASSUME NEW s \in Slots, NEW t \in Slots, NEW on, SameRow(s, t, on)
    PROVE  SameRow(t, s, on)
BY DEF SameRow

-----------------------------------------------------------------------------
(* No two transactions have conflicting locks. *)

Exclusive ==
    \A s, t \in Slots :
        s # t =>
          \A i \in 1 .. tx[s].next - 1, j \in 1 .. tx[t].next - 1 :
             ~ (/\ SameRow(s, t, Locks(s)[i].on)
                /\ Conflict(Locks(s)[i], Locks(t)[j]))

IInv == TypeOK /\ Exclusive

\* Ending a transaction, or beginning one, takes no lock from anybody.
LEMMA ResetKeeps ==
    ASSUME IInv, NEW s \in Slots, NEW r \in Requests \cup {NoRequest},
           tx' = [tx EXCEPT ![s] = [request |-> r, next |-> 1]]
    PROVE  IInv'
<1>0. TypeOK /\ Exclusive
  BY DEF IInv
<1>1. tx' \in [Slots -> [request : Requests \cup {NoRequest}, next : Nat \ {0}]]
  <2>1. [request |-> r, next |-> 1]
          \in [request : Requests \cup {NoRequest}, next : Nat \ {0}]
    OBVIOUS
  <2> QED
    BY <1>0, <2>1 DEF TypeOK
<1>2. tx'[s] = [request |-> r, next |-> 1]
  BY <1>0 DEF TypeOK
<1>3. \A t \in Slots : t # s => tx'[t] = tx[t]
  BY <1>0 DEF TypeOK
<1>4. \A t \in Slots : tx'[t].next <= Len(Script[tx'[t].request.op]) + 1
  <2> SUFFICES ASSUME NEW t \in Slots
               PROVE  tx'[t].next <= Len(Script[tx'[t].request.op]) + 1
    OBVIOUS
  <2>1. CASE t # s
    BY <1>0, <1>3, <2>1 DEF TypeOK, Locks
  <2>2. CASE t = s
    <3>1. r.op \in {"upload", "lifecycle", "append", "custody", "grant",
                    "revoke", "expire", "new", "none"}
      BY RequestOps
    <3>2. Len(Script[r.op]) \in Nat
      BY <3>1
         DEF Script, UploadLocks, LifecycleLocks, GrantLocks, RevokeLocks,
             ExpireLocks, AppendLocks, CustodyLocks, NewLocks
    <3> QED
      BY <1>2, <2>2, <3>2
  <2> QED
    BY <2>1, <2>2
<1>5. TypeOK'
  BY <1>1, <1>4 DEF TypeOK, Locks
<1>6. Exclusive'
  <2> SUFFICES ASSUME NEW u \in Slots, NEW v \in Slots, u # v,
                      NEW i \in 1 .. tx'[u].next - 1,
                      NEW j \in 1 .. tx'[v].next - 1
               PROVE  ~ (/\ SameRow(u, v, Locks(u)[i].on)
                         /\ Conflict(Locks(u)[i], Locks(v)[j]))'
    BY DEF Exclusive
  <2>1. u # s /\ v # s
    BY <1>2
  <2>2. tx'[u] = tx[u] /\ tx'[v] = tx[v]
    BY <1>3, <2>1
  <2> QED
    BY <1>0, <2>2 DEF Exclusive, SameRow, Locks
<1> QED
  BY <1>5, <1>6 DEF IInv

\* A lock is acquired only when nobody has a conflicting one.
LEMMA AcquireKeeps ==
    ASSUME IInv, NEW s \in Slots, Acquire(s)
    PROVE  IInv'
<1> DEFINE n == tx[s].next
<1>0. TypeOK /\ Exclusive
  BY DEF IInv
<1>1. tx[s] \in [request : Requests \cup {NoRequest}, next : Nat \ {0}]
  BY <1>0 DEF TypeOK
<1>2. tx' = [tx EXCEPT ![s] = [tx[s] EXCEPT !.next = n + 1]]
  BY <1>0 DEF Acquire, TypeOK
<1>3. /\ tx'[s].next = n + 1 /\ tx'[s].request = tx[s].request
      /\ n \in Nat \ {0} /\ n <= Len(Locks(s)) /\ Len(Locks(s)) \in Nat
  <2>1. Len(Locks(s)) \in Nat
    BY <1>0, Places DEF Place
  <2> QED
    BY <1>0, <1>1, <1>2, <2>1 DEF Acquire, TypeOK
<1>4. \A t \in Slots : t # s => tx'[t] = tx[t]
  BY <1>0, <1>2 DEF TypeOK
<1>5. TypeOK'
  <2>1. [tx[s] EXCEPT !.next = n + 1]
          \in [request : Requests \cup {NoRequest}, next : Nat \ {0}]
    BY <1>1
  <2>2. tx' \in [Slots -> [request : Requests \cup {NoRequest},
                           next : Nat \ {0}]]
    BY <1>0, <1>2, <2>1 DEF TypeOK
  <2>3. \A t \in Slots : tx'[t].next <= Len(Script[tx'[t].request.op]) + 1
    <3> SUFFICES ASSUME NEW t \in Slots
                 PROVE  tx'[t].next <= Len(Script[tx'[t].request.op]) + 1
      OBVIOUS
    <3>1. CASE t # s
      BY <1>0, <1>4, <3>1 DEF TypeOK, Locks
    <3>2. CASE t = s
      BY <1>3, <3>2 DEF Locks
    <3> QED
      BY <3>1, <3>2
  <2> QED
    BY <2>2, <2>3 DEF TypeOK, Locks
<1>6. \A t \in Slots : tx'[t].request = tx[t].request
  BY <1>3, <1>4
<1>7. \A t \in Slots, u \in Slots : \A on :
         SameRow(t, u, on)' <=> SameRow(t, u, on)
  BY <1>6 DEF SameRow
<1>8. ASSUME NEW t \in Slots, t # s, NEW j \in 1 .. tx[t].next - 1,
             SameRow(s, t, Asked(s).on), Conflict(Asked(s), Locks(t)[j])
      PROVE  FALSE
  BY <1>3, <1>8 DEF Acquire, Waits
<1>9. Exclusive'
  <2> SUFFICES ASSUME NEW u \in Slots, NEW v \in Slots, u # v,
                      NEW i \in 1 .. tx'[u].next - 1,
                      NEW j \in 1 .. tx'[v].next - 1,
                      SameRow(u, v, Script[tx[u].request.op][i].on),
                      Conflict(Script[tx[u].request.op][i],
                               Script[tx[v].request.op][j])
               PROVE  FALSE
    BY <1>6, <1>7 DEF Exclusive, Locks
  <2>1. CASE u # s /\ v # s
    BY <1>0, <1>4, <2>1 DEF Exclusive, Locks
  <2>2. CASE u = s
    <3>1. tx'[v] = tx[v] /\ v # s
      BY <1>4, <2>2
    <3>2. CASE i = n
      BY <1>8, <2>2, <3>1, <3>2 DEF Asked, Locks
    <3>3. CASE i # n
      <4>1. i \in 1 .. n - 1
        BY <1>3, <2>2, <3>3
      <4> QED
        BY <1>0, <2>2, <3>1, <4>1 DEF Exclusive, Locks
    <3> QED
      BY <3>2, <3>3
  <2>3. CASE v = s
    <3>1. tx'[u] = tx[u] /\ u # s
      BY <1>4, <2>3
    <3>2. CASE j = n
      <4>1. /\ SameRow(s, u, Locks(u)[i].on)
            /\ Asked(s).on = Locks(u)[i].on
            /\ Conflict(Asked(s), Locks(u)[i])
        BY <2>3, <3>2, SameRowSymmetric DEF Conflict, Asked, Locks
      <4> QED
        BY <1>8, <3>1, <4>1
    <3>3. CASE j # n
      <4>1. j \in 1 .. n - 1
        BY <1>3, <2>3, <3>3
      <4> QED
        BY <1>0, <2>3, <3>1, <4>1 DEF Exclusive, Locks
    <3> QED
      BY <3>2, <3>3
  <2> QED
    BY <2>1, <2>2, <2>3
<1> QED
  BY <1>5, <1>9 DEF IInv

LEMMA InitIInv == Init => IInv
<1> SUFFICES ASSUME Init
             PROVE  IInv
  OBVIOUS
<1>1. \A s \in Slots : /\ tx[s].next = 1 /\ tx[s].request = NoRequest
                       /\ Locks(s) = <<>>
  BY DEF Init, Idle, Locks, Script, NoRequest, None
<1>2. Idle \in [request : Requests \cup {NoRequest}, next : Nat \ {0}]
  BY DEF Idle
<1>3. TypeOK
  BY <1>1, <1>2 DEF Init, TypeOK
<1>4. Exclusive
  BY <1>1 DEF Exclusive
<1> QED
  BY <1>3, <1>4 DEF IInv

LEMMA NextIInv ==
    ASSUME IInv, [Next]_vars
    PROVE  IInv'
<1>1. CASE UNCHANGED vars
  BY <1>1 DEF vars, IInv, TypeOK, Exclusive, Locks, SameRow
<1>2. ASSUME NEW s \in Slots, Begin(s)
      PROVE  IInv'
  BY <1>2, ResetKeeps DEF Begin
<1>3. ASSUME NEW s \in Slots, Acquire(s)
      PROVE  IInv'
  BY <1>3, AcquireKeeps
<1>4. ASSUME NEW s \in Slots, Commit(s) \/ Rollback(s)
      PROVE  IInv'
  BY <1>4, ResetKeeps DEF Commit, Rollback, Idle
<1>5. ASSUME AbortVictim
      PROVE  IInv'
  BY <1>5, ResetKeeps DEF AbortVictim, Idle
<1> QED
  BY <1>1, <1>2, <1>3, <1>4, <1>5 DEF Next

\* The types hold, and no two transactions have conflicting locks.
THEOREM LockTypes == Spec => []TypeOK
<1>1. IInv => TypeOK
  BY DEF IInv
<1> QED
  BY <1>1, InitIInv, NextIInv, PTL DEF Spec

-----------------------------------------------------------------------------
(* Every deadlock has an upload in it. *)

LEMMA WaitsForHolder ==
    ASSUME TypeOK, NEW s \in Slots, NEW t \in Slots, Waits(s, t)
    PROVE  /\ Waiting(s) /\ s # t /\ SameRow(s, t, Asked(s).on)
           /\ Asked(s) \in AllLocks
           /\ \E m \in AllLocks : Has(t, m) /\ Conflict(Asked(s), m)
BY AskedLocks DEF Waits, Waiting, Has

\* A transaction that has the trail and wants its document is in a deadlock
\* only with the upload that has the document and wants the trail.
LEMMA TrailHolderMeetsUpload ==
    ASSUME IInv, NEW S \in SUBSET Slots, Deadlocked(S),
           NEW a \in S, Has(a, Trail)
    PROVE  \E u \in S :
              /\ Waits(u, a) /\ Waits(a, u)
              /\ Has(u, Repoint) /\ Wants(u, Trail)
              /\ Has(a, Trail) /\ Wants(a, Refer)
<1>0. TypeOK /\ Exclusive /\ a \in Slots
  BY DEF IInv
<1>1. PICK u \in S : Waits(a, u)
  BY DEF Deadlocked
<1>2. Waiting(a) /\ Wants(a, Refer)
  BY <1>0, <1>1, WaitsForHolder, WantsByHas
<1>3. Has(u, Repoint)
  BY <1>0, <1>1, <1>2, WaitsForHolder, InTheWay DEF Wants
<1>4. PICK b \in S : Waits(u, b)
  BY DEF Deadlocked
<1>5. Waiting(u) /\ Wants(u, Trail)
  BY <1>0, <1>3, <1>4, WaitsForHolder, WantsByHas
<1>6. Has(b, Trail)
  BY <1>0, <1>4, <1>5, WaitsForHolder, InTheWay DEF Wants
<1>7. b = a
  <2>1. PICK i \in 1 .. tx[a].next - 1 : Locks(a)[i] = Trail
    BY DEF Has
  <2>2. PICK j \in 1 .. tx[b].next - 1 : Locks(b)[j] = Trail
    BY <1>6 DEF Has
  <2>3. SameRow(a, b, Trail.on) /\ Conflict(Trail, Trail)
    BY DEF SameRow, Conflict, Trail
  <2> QED
    BY <1>0, <2>1, <2>2, <2>3 DEF Exclusive
<1> QED
  BY <1>1, <1>2, <1>3, <1>4, <1>5, <1>7

\* Whoever waits in a deadlock waits, in the end, for the trail's holder.
LEMMA DeadlockHasTrailHolder ==
    ASSUME IInv, NEW S \in SUBSET Slots, Deadlocked(S)
    PROVE  \E a \in S : Has(a, Trail)
<1>0. TypeOK /\ Exclusive /\ S \subseteq Slots
  BY DEF IInv
<1>1. ASSUME NEW s \in S
      PROVE  \E t \in S : Waits(s, t)
  BY DEF Deadlocked
<1>2. ASSUME NEW s \in S
      PROVE  Waiting(s)
  BY <1>0, <1>1, WaitsForHolder
<1>3. ASSUME NEW s \in S, Wants(s, Trail)
      PROVE  \E a \in S : Has(a, Trail)
  BY <1>0, <1>1, <1>3, WaitsForHolder, InTheWay DEF Wants
<1>4. ASSUME NEW s \in S, Wants(s, Refer)
      PROVE  \E a \in S : Has(a, Trail)
  <2>1. PICK t \in S : Waits(s, t)
    BY <1>1
  <2>2. Has(t, Repoint)
    BY <1>0, <1>4, <2>1, WaitsForHolder, InTheWay DEF Wants
  <2>3. Wants(t, Trail)
    BY <1>0, <1>2, <2>2, WantsByHas
  <2> QED
    BY <1>3, <2>3
<1>5. ASSUME NEW s \in S, Wants(s, Revise)
      PROVE  \E a \in S : Has(a, Trail)
  <2>1. PICK t \in S : Waits(s, t)
    BY <1>1
  <2>2. Has(t, Revise) \/ Has(t, Repoint)
    BY <1>0, <1>5, <2>1, WaitsForHolder, InTheWay DEF Wants
  <2>3. Wants(t, Trail)
    BY <1>0, <1>2, <2>2, WantsByHas
  <2> QED
    BY <1>3, <2>3
<1>6. ASSUME NEW s \in S, Wants(s, Repoint)
      PROVE  \E a \in S : Has(a, Trail)
  <2>1. PICK t \in S : Waits(s, t)
    BY <1>1
  <2>2. Has(t, Revise) \/ Has(t, Repoint) \/ Has(t, Refer)
    BY <1>0, <1>6, <2>1, WaitsForHolder, InTheWay DEF Wants
  <2>3. Wants(t, Trail) \/ Wants(t, Repoint)
    BY <1>0, <1>2, <2>2, WantsByHas
  <2>4. ASSUME Wants(t, Repoint)
        PROVE  FALSE
    <3>1. Has(s, Number) /\ Has(t, Number)
      BY <1>0, <1>2, <1>6, <2>4, WantsByHas
    <3>2. PICK i \in 1 .. tx[s].next - 1 : Locks(s)[i] = Number
      BY <3>1 DEF Has
    <3>3. PICK j \in 1 .. tx[t].next - 1 : Locks(t)[j] = Number
      BY <3>1 DEF Has
    <3>4. s # t /\ SameRow(s, t, "document")
      BY <1>0, <1>6, <2>1, WaitsForHolder DEF Wants, Repoint
    <3>5. SameRow(s, t, Number.on) /\ Conflict(Number, Number)
      BY <3>4 DEF SameRow, Conflict, Number
    <3> QED
      BY <1>0, <3>2, <3>3, <3>4, <3>5 DEF Exclusive
  <2> QED
    BY <1>3, <2>3, <2>4
<1>7. ASSUME NEW s \in S, Wants(s, Grant)
      PROVE  \E a \in S : Has(a, Trail)
  <2>1. PICK t \in S : Waits(s, t)
    BY <1>1
  <2>2. Has(t, Grant)
    BY <1>0, <1>7, <2>1, WaitsForHolder, InTheWay DEF Wants
  <2>3. Wants(t, Refer) \/ Wants(t, Trail)
    BY <1>0, <1>2, <2>2, WantsByHas
  <2> QED
    BY <1>3, <1>4, <2>3
<1>8. ASSUME NEW s \in S, Wants(s, Number)
      PROVE  \E a \in S : Has(a, Trail)
  <2>1. PICK t \in S : Waits(s, t)
    BY <1>1
  <2>2. Has(t, Number)
    BY <1>0, <1>8, <2>1, WaitsForHolder, InTheWay DEF Wants
  <2>3. Wants(t, Refer) \/ Wants(t, Repoint) \/ Wants(t, Trail)
    BY <1>0, <1>2, <2>2, WantsByHas
  <2> QED
    BY <1>3, <1>4, <1>6, <2>3
<1>9. PICK s \in S : TRUE
  BY DEF Deadlocked
<1>10. Wants(s, Asked(s)) /\ Asked(s) \in AllLocks
  BY <1>0, <1>2, AskedLocks DEF Wants, Waiting
<1> QED
  BY <1>3, <1>4, <1>5, <1>6, <1>7, <1>8, <1>10 DEF AllLocks

\* Among transactions that block each other, however many, an upload and an
\* appender to the trail block one another directly.
THEOREM DeadlocksNeedUploads == Spec => []DeadlockNeedsUpload
<1>1. IInv => DeadlockNeedsUpload
  BY TrailHolderMeetsUpload, DeadlockHasTrailHolder DEF DeadlockNeedsUpload
<1> QED
  BY <1>1, InitIInv, NextIInv, PTL DEF Spec

=============================================================================
