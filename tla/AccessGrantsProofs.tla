------------------------- MODULE AccessGrantsProofs -------------------------
(* Proofs about AccessGrants, for any users, departments, roles, numbers of  *)
(* requests and windows.  What a slot keeps across its awaits stays true,    *)
(* because a row never changes but for its status and revision, and because  *)
(* a time that is over stays over.                                           *)
EXTENDS AccessGrants, TLAPS

\* The grantor had the authority when the grant was asked for.
Derived(g) ==
    /\ canAccessClassification(g.grantor, Classification)
    /\ \/ g.grantor = Creator
       \/ \E j \in Rows : /\ grants[j].permission = "SHARE"
                          /\ Covers(grants[j], g.grantor)

Slot(m) ==
    /\ m.phase \in {"find", "expire", "insert"} =>
          /\ Derived(m.new)
          /\ m.new.status = "ACTIVE" /\ m.new.revision = 0
    /\ m.phase = "expire" => m.target \in Rows /\ Over(grants[m.target])
    /\ m.phase = "claim" => m.target \in Rows

Slots == \A r \in Requests : Slot(work[r])

IInv == /\ TypeOK /\ Slots /\ OneActiveGrant /\ RevokedOnce /\ ExpiredIsOver
        /\ AuthorityDerivesFromCreator

-----------------------------------------------------------------------------

LEMMA IdleType == Idle \in Request /\ Slot(Idle)
<1>1. NoGrant \in Grant
  BY UsersAssumption DEF NoGrant, Grant, Principals, Permissions
<1> QED
  BY <1>1 DEF Idle, Request, Phases, Slot

\* A slot that goes on or ends while the rows stay as they are.
LEMMA SlotMoves ==
  ASSUME IInv, NEW r \in Requests, NEW m \in Request, Slot(m),
         work' = [work EXCEPT ![r] = m],
         UNCHANGED <<grants, clock, revocations>>
  PROVE  IInv'
<1>1. work'[r] = m /\ \A q \in Requests \ {r} : work'[q] = work[q]
  BY DEF IInv, TypeOK
<1>2. Rows' = Rows
  BY DEF Rows
<1>3. Slots'
  <2> SUFFICES ASSUME NEW q \in Requests PROVE Slot(work[q])'
    BY DEF Slots
  <2>1. CASE q = r
    BY <1>1, <1>2, <2>1 DEF Slot, Derived, Over
  <2>2. CASE q # r
    <3>1. Slot(work[q])
      BY DEF IInv, Slots
    <3> QED
      BY <1>1, <1>2, <2>2, <3>1 DEF Slot, Derived, Over
  <2> QED
    BY <2>1, <2>2
<1>4. TypeOK'
  <2>1. \A q \in Requests :
          work'[q].phase \in {"expire", "claim"} => work'[q].target \in Rows'
    BY <1>1, <1>2 DEF IInv, TypeOK, Slot
  <2> QED
    BY <2>1 DEF IInv, TypeOK
<1>5. OneActiveGrant' /\ RevokedOnce' /\ ExpiredIsOver'
      /\ AuthorityDerivesFromCreator'
  BY <1>2 DEF IInv, OneActiveGrant, RevokedOnce, ExpiredIsOver, Over,
              AuthorityDerivesFromCreator
<1> QED
  BY <1>3, <1>4, <1>5 DEF IInv

LEMMA SlotEnds ==
  ASSUME IInv, NEW r \in Requests, Answer(r),
         UNCHANGED <<grants, clock, revocations>>
  PROVE  IInv'
<1>1. work' = [work EXCEPT ![r] = Idle]
  BY DEF Answer
<1> QED
  BY <1>1, IdleType, SlotMoves

\* Who may share is the creator, or has a row that says so.
LEMMA SharersAreDerived ==
  ASSUME TypeOK, NEW u \in Users, NEW g, g.grantor = u, Authorized(u, "SHARE")
  PROVE  Derived(g)
<1>1. CASE u = Creator
  BY <1>1 DEF Authorized, Derived
<1>2. CASE u # Creator
  <2>1. PICK j \in Rows : j \in Permitting(u, "SHARE")
    BY <1>2 DEF Authorized, Permitting
  <2>2. grants[j].permission = "SHARE" /\ Covers(grants[j], u)
    BY <2>1 DEF Permitting, permissionImplications, Permissions, InForce
  <2> QED
    BY <2>2 DEF Authorized, Derived
<1> QED
  BY <1>1, <1>2

LEMMA WantedType ==
  ASSUME NEW u \in Users, NEW a \in Grantable, NEW w \in Windows
  PROVE  /\ Wanted(u, a, w) \in Grant /\ Wanted(u, a, w).grantor = u
         /\ Wanted(u, a, w).status = "ACTIVE" /\ Wanted(u, a, w).revision = 0
<1>1. a[1] \in Principals /\ a[2] \in Permissions
  BY BoundsAssumption
<1>2. w[1] \in Nat /\ w[2] \in Nat
  BY BoundsAssumption
<1> QED
  BY <1>1, <1>2 DEF Wanted, NoGrant, Grant

LEMMA SlotFacts ==
  ASSUME IInv, NEW r \in Requests
  PROVE  /\ work[r] \in Request /\ Slot(work[r]) /\ work[r].new \in Grant
         /\ work[r].target \in Nat /\ work[r].expected \in Nat
  BY DEF IInv, TypeOK, Slots, Request

\* The steps that only read.
LEMMA ReadingSteps ==
  ASSUME IInv, NEW r \in Requests,
         \/ AuthorizeGrant(r) \/ FindExisting(r) \/ Conflict(r)
         \/ AuthorizeRevoke(r) \/ RevokeConflict(r) \/ Crash(r)
  PROVE  IInv'
<1>1. CASE AuthorizeGrant(r)
  <2>1. PICK u \in Users, a \in Grantable, w \in Windows :
          /\ Authorized(u, "SHARE")
          /\ work' = [work EXCEPT ![r] = [Idle EXCEPT
                 !.phase = "find", !.new = Wanted(u, a, w)]]
    BY <1>1 DEF AuthorizeGrant
  <2> DEFINE g == Wanted(u, a, w)
             m == [Idle EXCEPT !.phase = "find", !.new = g]
  <2>2. /\ g \in Grant /\ g.status = "ACTIVE" /\ g.revision = 0
        /\ g.grantor = u
    BY WantedType
  <2>3. Derived(g)
    BY <2>1, <2>2, SharersAreDerived DEF IInv
  <2> HIDE DEF g
  <2>4. m \in Request /\ m.phase = "find" /\ m.new = g
    BY <2>2, IdleType DEF Request, Phases, Idle
  <2> HIDE DEF m
  <2>5. Slot(m)
    BY <2>2, <2>3, <2>4 DEF Slot
  <2> QED
    BY <1>1, <2>1, <2>4, <2>5, SlotMoves DEF AuthorizeGrant, m, g
<1>2. CASE FindExisting(r)
  <2>1. CASE Answer(r)
    BY <1>2, <2>1, SlotEnds DEF FindExisting
  <2>2. CASE work' = [work EXCEPT ![r].phase = "insert"]
    <3> DEFINE m == [work[r] EXCEPT !.phase = "insert"]
    <3>1. m \in Request /\ m.phase = "insert" /\ m.new = work[r].new
      BY SlotFacts DEF Request, Phases
    <3>2. work' = [work EXCEPT ![r] = m]
      BY <2>2 DEF IInv, TypeOK
    <3> HIDE DEF m
    <3>3. Slot(m)
      BY <1>2, <3>1, SlotFacts DEF FindExisting, Slot
    <3> QED
      BY <1>2, <3>1, <3>2, <3>3, SlotMoves DEF FindExisting
  <2>3. ASSUME NEW i \in Existing(r), Over(grants[i]),
               work' = [work EXCEPT ![r] = [@ EXCEPT
                            !.phase = "expire", !.target = i]]
        PROVE  IInv'
    <3> DEFINE m == [work[r] EXCEPT !.phase = "expire", !.target = i]
    <3>1. i \in Rows /\ i \in Nat
      BY DEF Existing, Rows, IInv, TypeOK
    <3>2. m \in Request /\ m.phase = "expire" /\ m.new = work[r].new
          /\ m.target = i
      BY <3>1, SlotFacts DEF Request, Phases
    <3>3. work' = [work EXCEPT ![r] = m]
      BY <2>3
    <3> HIDE DEF m
    <3>4. Slot(m)
      BY <1>2, <2>3, <3>1, <3>2, SlotFacts DEF FindExisting, Slot
    <3> QED
      BY <1>2, <3>2, <3>3, <3>4, SlotMoves DEF FindExisting
  <2> QED
    BY <1>2, <2>1, <2>2, <2>3 DEF FindExisting
<1>3. CASE Conflict(r) \/ RevokeConflict(r) \/ Crash(r)
  BY <1>3, SlotEnds DEF Conflict, RevokeConflict, Crash
<1>4. CASE AuthorizeRevoke(r)
  <2>0. PICK i \in Rows : \E e \in 0 .. grants[i].revision :
          work' = [work EXCEPT ![r] = [Idle EXCEPT
                      !.phase = "claim", !.target = i, !.expected = e]]
    BY <1>4 DEF AuthorizeRevoke
  <2>1. PICK e \in 0 .. grants[i].revision :
          work' = [work EXCEPT ![r] = [Idle EXCEPT
                      !.phase = "claim", !.target = i, !.expected = e]]
    BY <2>0
  <2> DEFINE m == [Idle EXCEPT !.phase = "claim", !.target = i, !.expected = e]
  <2>2. i \in Nat /\ e \in Nat
    BY DEF Rows, IInv, TypeOK
  <2>3. m \in Request /\ m.phase = "claim" /\ m.target = i
    BY <2>2, IdleType DEF Request, Phases, Idle
  <2>4. work' = [work EXCEPT ![r] = m]
    BY <2>1
  <2> HIDE DEF m
  <2>5. Slot(m)
    BY <2>3 DEF Slot
  <2> QED
    BY <1>4, <2>3, <2>4, <2>5, SlotMoves DEF AuthorizeRevoke
<1> QED
  BY <1>1, <1>2, <1>3, <1>4

-----------------------------------------------------------------------------
(* The steps that write. *)

\* A row that is closed keeps everything but its status and revision.
LEMMA RowCloses ==
  ASSUME IInv, NEW r \in Requests, NEW m \in Request,
         NEW i \in Rows, NEW row \in Grant,
         row.principal = grants[i].principal, row.until = grants[i].until,
         row.permission = grants[i].permission, row.grantor = grants[i].grantor,
         row.status # "ACTIVE", row.revision <= 1,
         row.status = "EXPIRED" => Over(row),
         grants' = [grants EXCEPT ![i] = row],
         revocations' \in Seq(Nat), Len(revocations') = Len(revocations),
         revocations'[i] = row.revision,
         \A j \in Rows \ {i} : revocations'[j] = revocations[j],
         work' = [work EXCEPT ![r] = m], clock' = clock,
         m.phase \in {"idle", "insert"},
         m.phase = "insert" => /\ Derived(m.new) /\ m.new.status = "ACTIVE"
                               /\ m.new.revision = 0
  PROVE  IInv'
<1>1. work'[r] = m /\ \A q \in Requests \ {r} : work'[q] = work[q]
  BY DEF IInv, TypeOK
<1>2. /\ Rows' = Rows /\ Len(grants') = Len(grants) /\ grants' \in Seq(Grant)
      /\ grants'[i] = row /\ \A j \in Rows \ {i} : grants'[j] = grants[j]
  BY DEF Rows, IInv, TypeOK
<1>3. \A j \in Rows : /\ grants'[j].principal = grants[j].principal
                      /\ grants'[j].permission = grants[j].permission
                      /\ grants'[j].grantor = grants[j].grantor
                      /\ grants'[j].until = grants[j].until
  BY <1>2
<1>4. Slots'
  <2> SUFFICES ASSUME NEW q \in Requests PROVE Slot(work[q])'
    BY DEF Slots
  <2>1. CASE q = r
    BY <1>1, <1>2, <1>3, <2>1 DEF Slot, Derived, Covers
  <2>2. CASE q # r
    <3>1. Slot(work[q])
      BY DEF IInv, Slots
    <3> QED
      BY <1>1, <1>2, <1>3, <2>2, <3>1 DEF Slot, Derived, Over, Covers
  <2> QED
    BY <2>1, <2>2
<1>5. TypeOK'
  <2>1. \A q \in Requests :
          work'[q].phase \in {"expire", "claim"} => work'[q].target \in Rows'
    BY <1>1, <1>2 DEF IInv, TypeOK
  <2> QED
    BY <1>2, <2>1 DEF IInv, TypeOK
<1>6. OneActiveGrant'
  BY <1>2 DEF IInv, OneActiveGrant, SameAccess
<1>7. RevokedOnce'
  BY <1>2 DEF IInv, RevokedOnce
<1>8. ExpiredIsOver'
  BY <1>2 DEF IInv, ExpiredIsOver, Over
<1>9. AuthorityDerivesFromCreator'
  <2>1. ASSUME NEW j \in Rows
        PROVE  /\ canAccessClassification(grants'[j].grantor, Classification)
               /\ \/ grants'[j].grantor = Creator
                  \/ \E k \in 1 .. (j - 1) :
                        /\ grants'[k].permission = "SHARE"
                        /\ Covers(grants'[k], grants'[j].grantor)
    <3>1. \A k \in 1 .. (j - 1) : k \in Rows
      BY DEF Rows, IInv, TypeOK
    <3>2. /\ canAccessClassification(grants[j].grantor, Classification)
          /\ \/ grants[j].grantor = Creator
             \/ \E k \in 1 .. (j - 1) : /\ grants[k].permission = "SHARE"
                                        /\ Covers(grants[k], grants[j].grantor)
      BY DEF IInv, AuthorityDerivesFromCreator
    <3>3. \A k \in Rows, u \in {grants[j].grantor} :
            Covers(grants[k], u) => Covers(grants'[k], u)
      BY <1>3 DEF Covers
    <3>4. grants'[j].grantor = grants[j].grantor
      BY <1>3
    <3> HIDE DEF Covers
    <3> QED
      BY <1>3, <3>1, <3>2, <3>3, <3>4
  <2>2. Rows' = Rows
    BY <1>2
  <2> QED
    BY <2>1, <2>2 DEF AuthorityDerivesFromCreator
<1> QED
  BY <1>4, <1>5, <1>6, <1>7, <1>8, <1>9 DEF IInv

LEMMA ExpireStep ==
  ASSUME IInv, NEW r \in Requests, Expire(r)
  PROVE  IInv'
<1> DEFINE i == work[r].target
           row == [grants[i] EXCEPT !.status = "EXPIRED"]
<1>1. i \in Rows /\ Over(grants[i]) /\ grants[i] \in Grant
  BY SlotFacts DEF Expire, Slot, Rows, IInv, TypeOK
<1>2. /\ row \in Grant /\ row.status = "EXPIRED"
      /\ row.principal = grants[i].principal /\ row.until = grants[i].until
      /\ row.permission = grants[i].permission
      /\ row.grantor = grants[i].grantor /\ row.revision = grants[i].revision
  BY <1>1 DEF Grant
<1>3. grants' = [grants EXCEPT ![i] = row]
  BY <1>1 DEF Expire, IInv, TypeOK, Rows
<1>4. revocations[i] = grants[i].revision /\ grants[i].revision <= 1
  BY <1>1 DEF IInv, RevokedOnce
<1>5. PICK m \in Request :
        /\ work' = [work EXCEPT ![r] = m]
        /\ m.phase = "insert" /\ m.new = work[r].new
  <2> DEFINE s == [work[r] EXCEPT !.phase = "insert", !.target = 0]
  <2>1. s \in Request /\ s.phase = "insert" /\ s.new = work[r].new
    BY SlotFacts DEF Request, Phases
  <2>2. work' = [work EXCEPT ![r] = s]
    BY DEF Expire
  <2> HIDE DEF s
  <2> QED
    BY <2>1, <2>2
<1>6. Derived(m.new) /\ m.new.status = "ACTIVE" /\ m.new.revision = 0
  BY <1>5, SlotFacts DEF Expire, Slot
<1>7. /\ revocations' = revocations /\ clock' = clock
      /\ revocations \in Seq(Nat)
  BY DEF Expire, IInv, TypeOK
<1>8. PICK k \in Rows : k = i
  BY <1>1
<1>9. PICK n \in Grant : n = row
  BY <1>2
<1>10. Over(n)
  BY <1>1, <1>2, <1>9 DEF Over
<1> HIDE DEF row, i
<1> QED
  BY <1>2, <1>3, <1>4, <1>5, <1>6, <1>7, <1>8, <1>9, <1>10, RowCloses

LEMMA RevokeStep ==
  ASSUME IInv, NEW r \in Requests, Revoke(r)
  PROVE  IInv'
<1> DEFINE i == work[r].target
           row == Revoked(grants[i])
<1>1. i \in Rows /\ grants[i] \in Grant /\ grants[i].status = "ACTIVE"
  BY SlotFacts DEF Revoke, MayClaim, Slot, Rows, IInv, TypeOK
<1>2. grants[i].revision = 0 /\ revocations[i] = 0
  <2>1. revocations[i] = grants[i].revision /\ grants[i].revision <= 1
        /\ grants[i].revision # 1
    BY <1>1 DEF IInv, RevokedOnce
  <2>2. grants[i].revision \in Nat
    BY <1>1 DEF Grant
  <2> QED
    BY <2>1, <2>2
<1>3. /\ row \in Grant /\ row.status = "REVOKED"
      /\ row.principal = grants[i].principal /\ row.until = grants[i].until
      /\ row.permission = grants[i].permission
      /\ row.grantor = grants[i].grantor /\ row.revision = 1
  <2>1. PICK g \in Grant : g = grants[i] /\ g.revision = 0
    BY <1>1, <1>2
  <2>2. [g EXCEPT !.status = "REVOKED", !.revision = g.revision + 1] \in Grant
    <3> DEFINE h == [g EXCEPT !.status = "REVOKED"]
    <3>1. h \in Grant
      BY DEF Grant
    <3>2. [h EXCEPT !.revision = 1] \in Grant
      <4> HIDE DEF h
      <4> QED
        BY <3>1 DEF Grant
    <3>3. [h EXCEPT !.revision = 1]
            = [g EXCEPT !.status = "REVOKED", !.revision = g.revision + 1]
      BY <2>1
    <3> QED
      BY <3>2, <3>3
  <2>3. row = [g EXCEPT !.status = "REVOKED", !.revision = g.revision + 1]
    BY <2>1 DEF Revoked
  <2>4. /\ row.status = "REVOKED" /\ row.revision = 1
        /\ row.principal = g.principal /\ row.until = g.until
        /\ row.permission = g.permission /\ row.grantor = g.grantor
    BY <2>1, <2>3 DEF Grant
  <2> QED
    BY <2>1, <2>2, <2>3, <2>4
<1>4. grants' = [grants EXCEPT ![i] = row]
  BY DEF Revoke
<1>5. /\ revocations' \in Seq(Nat) /\ Len(revocations') = Len(revocations)
      /\ revocations'[i] = 1 /\ clock' = clock
      /\ \A j \in Rows \ {i} : revocations'[j] = revocations[j]
  BY <1>1, <1>2 DEF Revoke, IInv, TypeOK, Rows
<1>6. work' = [work EXCEPT ![r] = Idle] /\ Idle.phase = "idle"
  BY DEF Revoke, Answer, Idle
<1>7. PICK k \in Rows : k = i
  BY <1>1
<1>8. PICK n \in Grant : n = row
  BY <1>3
<1>9. PICK m \in Request : m = Idle
  BY IdleType
<1>10. /\ m.phase \in {"idle", "insert"} /\ m.phase # "insert"
       /\ n.status # "ACTIVE" /\ n.status # "EXPIRED" /\ n.revision <= 1
  BY <1>3, <1>6, <1>8, <1>9
<1> HIDE DEF row, i
<1> QED
  BY <1>3, <1>4, <1>5, <1>6, <1>7, <1>8, <1>9, <1>10, RowCloses

LEMMA InsertStep ==
  ASSUME IInv, NEW r \in Requests, Insert(r)
  PROVE  IInv'
<1>1. PICK row \in Grant :
        /\ row = work[r].new /\ grants' = Append(grants, row)
        /\ Derived(row) /\ row.status = "ACTIVE" /\ row.revision = 0
  BY SlotFacts DEF Insert, Slot
<1> DEFINE n == Len(grants) + 1
<1>2. /\ Len(grants) \in Nat /\ Rows = 1 .. Len(grants)
      /\ Rows' = 1 .. n /\ grants'[n] = row /\ grants' \in Seq(Grant)
      /\ Len(grants') = n /\ \A i \in Rows : grants'[i] = grants[i]
  BY <1>1 DEF Rows, IInv, TypeOK
<1>3. /\ revocations' \in Seq(Nat) /\ Len(revocations') = n
      /\ revocations'[n] = 0 /\ clock' = clock
      /\ \A i \in Rows : revocations'[i] = revocations[i]
  BY <1>2 DEF Insert, IInv, TypeOK
<1>4. work'[r] = Idle /\ \A q \in Requests \ {r} : work'[q] = work[q]
  BY DEF Insert, Answer, IInv, TypeOK
<1>5. Rows' = Rows \cup {n} /\ n \notin Rows
  BY <1>2
<1> HIDE DEF n
<1>6. Slots'
  <2> SUFFICES ASSUME NEW q \in Requests PROVE Slot(work[q])'
    BY DEF Slots
  <2>1. CASE q = r
    BY <1>4, <2>1 DEF Slot, Idle
  <2>2. CASE q # r
    <3>1. Slot(work[q])
      BY DEF IInv, Slots
    <3>2. work'[q] = work[q]
      BY <1>4, <2>2
    <3>3. PICK t : t = work[q]
      OBVIOUS
    <3>4. Derived(t.new) => Derived(t.new)'
      BY <1>2, <1>5 DEF Derived
    <3>5. t.target \in Rows =>
            /\ t.target \in Rows'
            /\ Over(grants[t.target]) => Over(grants[t.target])'
      BY <1>2, <1>3, <1>5 DEF Over
    <3>6. Slot(t)'
      BY <3>1, <3>3, <3>4, <3>5 DEF Slot
    <3> QED
      BY <3>2, <3>3, <3>6
  <2> QED
    BY <2>1, <2>2
<1>7. TypeOK'
  <2>1. work' \in [Requests -> Request]
    BY IdleType DEF Insert, Answer, IInv, TypeOK
  <2>2. \A q \in Requests :
          work'[q].phase \in {"expire", "claim"} => work'[q].target \in Rows'
    BY <1>4, <1>5 DEF IInv, TypeOK, Idle
  <2> QED
    BY <1>2, <1>3, <2>1, <2>2 DEF IInv, TypeOK
<1>8. OneActiveGrant'
  <2>1. \A i \in Rows : grants[i].status = "ACTIVE" => ~SameAccess(grants[i], row)
    BY <1>1 DEF Insert, IndexAllows, Existing
  <2> QED
    BY <1>2, <1>5, <2>1 DEF IInv, OneActiveGrant, SameAccess
<1>9. RevokedOnce'
  BY <1>1, <1>2, <1>3, <1>5 DEF IInv, RevokedOnce
<1>10. ExpiredIsOver'
  <2>1. \A i \in Rows' : grants'[i].status = "EXPIRED" => i \in Rows
    BY <1>1, <1>2, <1>5
  <2> QED
    BY <1>2, <1>3, <2>1 DEF IInv, ExpiredIsOver, Over
<1>11. AuthorityDerivesFromCreator'
  <2> SUFFICES ASSUME NEW i \in Rows \cup {n}
               PROVE  /\ canAccessClassification(grants'[i].grantor, Classification)
                      /\ \/ grants'[i].grantor = Creator
                         \/ \E j \in 1 .. (i - 1) :
                               /\ grants'[j].permission = "SHARE"
                               /\ Covers(grants'[j], grants'[i].grantor)
    BY <1>5 DEF AuthorityDerivesFromCreator, Covers
  <2>1. CASE i \in Rows
    <3>1. \A j \in 1 .. (i - 1) : grants'[j] = grants[j]
      BY <1>2, <2>1
    <3> QED
      BY <1>2, <2>1, <3>1 DEF IInv, AuthorityDerivesFromCreator
  <2>2. CASE i = n
    <3>1. 1 .. (n - 1) = Rows
      BY <1>2 DEF n
    <3> QED
      BY <1>1, <1>2, <2>2, <3>1 DEF Derived
  <2> QED
    BY <2>1, <2>2
<1> QED
  BY <1>6, <1>7, <1>8, <1>9, <1>10, <1>11 DEF IInv

LEMMA TickStep ==
  ASSUME IInv, Tick
  PROVE  IInv'
<1>1. Rows' = Rows /\ clock' = clock + 1 /\ clock \in Nat
      /\ UNCHANGED <<grants, revocations, work>>
  BY DEF Tick, Rows, IInv, TypeOK
<1>2. \A g \in Grant : Over(g) => Over(g)'
  BY <1>1 DEF Over, Grant
<1>3. \A i \in Rows : grants[i] \in Grant
  BY DEF IInv, TypeOK, Rows
<1>4. Slots'
  <2> SUFFICES ASSUME NEW q \in Requests PROVE Slot(work[q])'
    BY DEF Slots
  <2>1. Slot(work[q])
    BY DEF IInv, Slots
  <2> QED
    BY <1>1, <1>2, <1>3, <2>1 DEF Slot, Derived, Over
<1>5. ExpiredIsOver'
  BY <1>1, <1>2, <1>3 DEF IInv, ExpiredIsOver, Over
<1> QED
  BY <1>1, <1>4, <1>5
  DEF IInv, TypeOK, OneActiveGrant, RevokedOnce, AuthorityDerivesFromCreator

-----------------------------------------------------------------------------
(* The theorems. *)

LEMMA InitIInv == Init => IInv
<1> SUFFICES ASSUME Init PROVE IInv
  OBVIOUS
<1>1. grants = <<>> /\ revocations = <<>> /\ clock = 0 /\ Rows = {}
  BY DEF Init, Rows
<1>2. \A r \in Requests : work[r] = Idle
  BY DEF Init
<1>3. work \in [Requests -> Request]
  BY IdleType DEF Init
<1>4. TypeOK /\ Slots
  BY <1>1, <1>2, <1>3, IdleType DEF TypeOK, Slots, Idle
<1> QED
  BY <1>1, <1>4 DEF IInv, OneActiveGrant, RevokedOnce, ExpiredIsOver,
                    AuthorityDerivesFromCreator

LEMMA StepIInv == IInv /\ [Next]_vars => IInv'
<1> SUFFICES ASSUME IInv, [Next]_vars PROVE IInv'
  OBVIOUS
<1>1. CASE Tick
  BY <1>1, TickStep
<1>2. ASSUME NEW r \in Requests, Step(r) PROVE IInv'
  BY <1>2, ReadingSteps, ExpireStep, InsertStep, RevokeStep DEF Step
<1>3. CASE UNCHANGED vars
  <2>1. Rows' = Rows
    BY <1>3 DEF vars, Rows
  <2>2. Slots'
    BY <1>3, <2>1 DEF IInv, vars, Slots, Slot, Derived, Over
  <2> QED
    BY <1>3, <2>1, <2>2
    DEF IInv, vars, TypeOK, OneActiveGrant, RevokedOnce, ExpiredIsOver, Over,
        AuthorityDerivesFromCreator
<1> QED
  BY <1>1, <1>2, <1>3 DEF Next

\* What grantAccess and revokeAccess keep true between any two of their steps.
THEOREM InductiveInvariant == Spec => []IInv
BY InitIInv, StepIInv, PTL DEF Spec

\* The rows of document_permissions and the slots have their types.
THEOREM GrantTypes == Spec => []TypeOK
BY InductiveInvariant, PTL DEF IInv

\* The partial unique index leaves a principal one active grant of each
\* permission, for any number of concurrent requests.
THEOREM OnlyOneActive == Spec => []OneActiveGrant
BY InductiveInvariant, PTL DEF IInv

\* A grant is claimed by at most one revocation, and custody tells of it once.
THEOREM RevokedAtMostOnce == Spec => []RevokedOnce
BY InductiveInvariant, PTL DEF IInv

\* A grant that grantAccess marked EXPIRED had reached its end.
THEOREM ExpiredOnlyAtTheEnd == Spec => []ExpiredIsOver
BY InductiveInvariant, PTL DEF IInv

\* Whoever granted access was the creator, or was given SHARE before, although
\* the authority was looked up several steps before the row was inserted.
THEOREM AuthorityIsDerived == Spec => []AuthorityDerivesFromCreator
BY InductiveInvariant, PTL DEF IInv

-----------------------------------------------------------------------------
(* The copies of the policy. *)

LEMMA ScopeIsView ==
  ASSUME TypeOK, NEW u \in Users
  PROVE  InScope(u) <=> Authorized(u, "VIEW")
<1>1. \A i \in Rows : grants[i].permission \in Permissions
  <2>1. \A i \in Rows : grants[i] \in Grant
    BY DEF Rows, TypeOK
  <2> QED
    BY <2>1 DEF Grant
<1>2. permissionImplications["VIEW"] = Permissions
  BY DEF permissionImplications, Permissions
<1>3. Permitting(u, "VIEW") # {} <=> \E i \in Rows : InForce(grants[i], u)
  BY <1>1, <1>2 DEF Permitting
<1>4. RoleOf[u] \in Roles /\ Classification \in Classifications
  BY UsersAssumption
<1>5. classificationRank[roleClearance[RoleOf[u]]] \in Nat
      /\ classificationRank[Classification] \in Nat
  BY <1>4 DEF classificationRank, roleClearance, Roles, Classifications
<1>6. Classification \in allowedClassifications(u)
        <=> canAccessClassification(u, Classification)
  BY <1>4, <1>5 DEF allowedClassifications, canAccessClassification
<1> QED
  BY <1>3, <1>6 DEF InScope, Authorized

LEMMA CapabilityIsAuthority ==
  ASSUME TypeOK, NEW u \in Users, NEW p \in Permissions, Authorized(u, "VIEW")
  PROVE  Capability(u, p) <=> Authorized(u, p)
<1>1. \A i \in Rows : grants[i].permission \in Permissions
  <2>1. \A i \in Rows : grants[i] \in Grant
    BY DEF Rows, TypeOK
  <2> QED
    BY <2>1 DEF Grant
<1>2. CASE p = "VIEW"
  BY <1>2 DEF Authorized, Capability
<1>3. CASE p # "VIEW"
  <2>1. /\ permissionImplications[p] = {p}
        /\ permissionImplications["VIEW"] = Permissions
    BY <1>3 DEF permissionImplications, Permissions
  <2>2. p \in {grants[i].permission : i \in Permitting(u, "VIEW")}
          <=> Permitting(u, p) # {}
    BY <1>1, <2>1 DEF Permitting
  <2> QED
    BY <1>3, <2>2 DEF Authorized, Capability
<1> QED
  BY <1>2, <1>3

\* Lists, searches and capabilities decide as authorize does, whatever the
\* users, their roles and departments, and the rows.
THEOREM PoliciesAlwaysAgree == Spec => []PoliciesAgree
<1>1. TypeOK => PoliciesAgree
  BY ScopeIsView, CapabilityIsAuthority DEF PoliciesAgree
<1> QED
  BY <1>1, GrantTypes, PTL
=============================================================================
