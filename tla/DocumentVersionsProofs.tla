----------------------- MODULE DocumentVersionsProofs -----------------------
(* Proofs about DocumentVersions, for any number of requests and uploads.  A *)
(* number is taken from the committed rows and inserted only while it is     *)
(* free, so that it is the next one; a key belongs to one slot or one row,   *)
(* so that no clean-up removes the object of another upload.  A read in      *)
(* flight accounts for one event more in the first history than in the next.*)
EXTENDS DocumentVersions, FiniteSetTheorems, TLAPS

Uploading == {"source", "put", "number", "insert"}

Keeping == {"number", "insert", "cleanup"}

\* What a slot with the record m may rely on.
Slot(m) ==
    /\ m.phase \in Keeping => m.key \in 1 .. uploads
    /\ m.phase \notin Keeping => m.key = 0
    /\ m.phase \in {"number", "insert"} =>
          m.key \in objects /\ m.key \notin RowIds
    /\ m.phase = "cleanup" => m.key \notin RowIds \/ m.key \in unacked
    /\ m.phase \in {"source", "number"} => m.op = "createVersion"
    /\ m.phase \in {"put", "insert"} => m.op \in {"create", "createVersion"}
    /\ m.phase \in Uploading /\ m.op = "createVersion" => m.seen \in RowIds
    /\ m.phase \in Uploading /\ m.op = "create" =>
          m.seen = 0 /\ m.source = 0 /\ m.number = 1
    /\ m.phase \in {"put", "number", "insert"} => m.source \in RowIds \cup {0}
    /\ m.phase = "insert" => m.number \in 1 .. (Len(versions) + 1)

Slots == \A r \in Requests : Slot(work[r])

KeysAreUsed == RowIds \subseteq 1 .. uploads

KeysHaveOneOwner ==
    \A q, r \in Requests :
        Stored(q) /\ Stored(r) /\ work[q].key = work[r].key => q = r

IInv == /\ TypeOK /\ Slots /\ KeysAreUsed /\ KeysHaveOneOwner
        /\ NumbersAreConsecutive /\ LineageIsOlder
        /\ MissingOnlyAfterLostAck /\ OrphansHaveACause

-----------------------------------------------------------------------------
(* Steps that leave rows and objects alone. *)

LEMMA IdleType == Idle \in Request
  BY BoundsAssumption DEF Idle, Request, Phases, Operations, Ids, Unknown, Keys

\* A slot that goes on, or ends, changes nothing for the others as long as it
\* keeps its key and does not leave an object without a cause.
LEMMA SlotMoves ==
  ASSUME IInv, NEW r \in Requests, NEW m \in Request,
         work' = [work EXCEPT ![r] = m],
         UNCHANGED <<versions, current, objects, uploads, unacked>>,
         abandoned \subseteq abandoned', abandoned' \subseteq 1 .. uploads,
         reads' \in [ReadEvents -> Nat],
         Slot(m),
         m.phase \in Keeping => Stored(r) /\ m.key = work[r].key,
         Stored(r) /\ m.phase \notin Keeping =>
             work[r].key \notin objects \/ work[r].key \in RowIds \cup abandoned'
  PROVE  IInv'
<1>1. TypeOK'
  BY DEF IInv, TypeOK
<1>2. /\ Rows' = Rows /\ RowIds' = RowIds /\ Numbers' = Numbers
  BY DEF Rows, RowIds, Numbers
<1>3. work'[r] = m /\ \A q \in Requests \ {r} : work'[q] = work[q]
  BY DEF IInv, TypeOK
<1>4. Slots'
  <2> SUFFICES ASSUME NEW q \in Requests PROVE Slot(work[q])'
    BY DEF Slots
  <2>1. CASE q = r
    BY <1>2, <1>3, <2>1 DEF Slot
  <2>2. CASE q # r
    <3>1. Slot(work[q])
      BY DEF IInv, Slots
    <3> QED
      BY <1>2, <1>3, <2>2, <3>1 DEF Slot
  <2> QED
    BY <2>1, <2>2
<1>5. KeysAreUsed'
  BY <1>2 DEF IInv, KeysAreUsed
<1>6. KeysHaveOneOwner'
  BY <1>3 DEF IInv, KeysHaveOneOwner, Stored, Keeping
<1>7. NumbersAreConsecutive' /\ LineageIsOlder' /\ MissingOnlyAfterLostAck'
  BY <1>2 DEF IInv, NumbersAreConsecutive, LineageIsOlder,
              MissingOnlyAfterLostAck
<1>8. OrphansHaveACause'
  <2> SUFFICES ASSUME NEW k \in objects \ RowIds, k \notin abandoned'
               PROVE  \E q \in Requests :
                          work'[q].phase \in Keeping /\ work'[q].key = k
    BY <1>2 DEF OrphansHaveACause, Stored, Keeping
  <2>1. PICK q \in Requests : Stored(q) /\ work[q].key = k
    BY DEF IInv, OrphansHaveACause
  <2>2. CASE q = r
    BY <1>3, <2>1, <2>2 DEF Stored, Keeping
  <2>3. CASE q # r
    BY <1>3, <2>1, <2>3 DEF Stored, Keeping
  <2> QED
    BY <2>2, <2>3
<1> QED
  BY <1>1, <1>4, <1>5, <1>6, <1>7, <1>8 DEF IInv

\* What the invariant says of one slot, and of the numbers of the rows.
LEMMA SlotFacts ==
  ASSUME IInv, NEW r \in Requests
  PROVE  /\ work[r] \in Request /\ Slot(work[r])
         /\ objects \subseteq 1 .. uploads /\ abandoned \subseteq 1 .. uploads
         /\ unacked \subseteq 1 .. uploads /\ uploads \in Nat
         /\ uploads <= MaxUploads /\ MaxUploads \in Nat
         /\ RowIds \subseteq 1 .. uploads /\ current \in RowIds \cup {0}
         /\ versions # <<>> => current \in RowIds
         /\ Len(versions) \in Nat /\ Rows = 1 .. Len(versions)
         /\ Numbers = 1 .. Len(versions)
<1>1. Len(versions) \in Nat /\ Rows = 1 .. Len(versions)
  BY DEF IInv, TypeOK, Rows
<1>2. Numbers = 1 .. Len(versions)
  BY <1>1 DEF IInv, NumbersAreConsecutive, Numbers
<1>3. versions # <<>> => current \in RowIds
  <2>1. versions # <<>> => Len(versions) \in Rows
    BY <1>1 DEF IInv, TypeOK
  <2> QED
    BY <2>1 DEF IInv, NumbersAreConsecutive, RowIds
<1>4. current \in RowIds \cup {0}
  BY <1>3 DEF IInv, NumbersAreConsecutive
<1> QED
  BY <1>1, <1>2, <1>3, <1>4, BoundsAssumption
  DEF IInv, TypeOK, Slots, KeysAreUsed

\* Ending a slot: its key has no object, a row, or a cause.
LEMMA SlotEnds ==
  ASSUME IInv, NEW r \in Requests, Answer(r),
         UNCHANGED <<versions, current, objects, uploads, unacked>>,
         abandoned \subseteq abandoned', abandoned' \subseteq 1 .. uploads,
         reads' \in [ReadEvents -> Nat],
         Stored(r) =>
             work[r].key \notin objects \/ work[r].key \in RowIds \cup abandoned'
  PROVE  IInv'
<1>1. Slot(Idle) /\ Idle.phase \notin Keeping
  BY DEF Slot, Idle, Keeping, Uploading
<1>2. work' = [work EXCEPT ![r] = Idle]
  BY DEF Answer
<1> QED
  BY <1>1, <1>2, IdleType, SlotMoves DEF Idle

\* Going on to another phase.
LEMMA SlotGoes ==
  ASSUME IInv, NEW r \in Requests, NEW p \in Phases, Goto(r, p),
         UNCHANGED <<versions, current, objects, uploads, unacked, abandoned>>,
         reads' \in [ReadEvents -> Nat],
         Slot([work[r] EXCEPT !.phase = p]),
         Stored(r) <=> p \in Keeping
  PROVE  IInv'
<1> DEFINE m == [work[r] EXCEPT !.phase = p]
<1>1. m \in Request /\ m.phase = p /\ m.key = work[r].key
  BY SlotFacts DEF Request
<1>2. work' = [work EXCEPT ![r] = m]
  BY DEF Goto, IInv, TypeOK
<1>3. abandoned' \subseteq 1 .. uploads
  BY SlotFacts
<1> HIDE DEF m
<1> QED
  BY <1>1, <1>2, <1>3, SlotMoves DEF m

LEMMA ReadCounted ==
  ASSUME IInv, NEW e \in ReadEvents, reads' = [reads EXCEPT ![e] = @ + 1]
  PROVE  reads' \in [ReadEvents -> Nat]
  BY DEF IInv, TypeOK

LEMMA UploadSteps ==
  ASSUME IInv, NEW r \in Requests,
         \/ ReceiveCreate(r) \/ AuthorizeVersion(r) \/ CheckSource(r)
         \/ RejectSource(r) \/ AggregateNumber(r) \/ Conflict(r)
         \/ Rollback(r) \/ CleanupFails(r)
  PROVE  IInv'
<1>f. /\ work[r] \in Request /\ Slot(work[r])
      /\ RowIds \subseteq 1 .. uploads /\ uploads <= MaxUploads
      /\ uploads \in Nat /\ MaxUploads \in Nat
      /\ versions # <<>> => current \in RowIds
      /\ Len(versions) \in Nat /\ Numbers = 1 .. Len(versions)
      /\ abandoned \subseteq 1 .. uploads
      /\ reads \in [ReadEvents -> Nat]
  BY SlotFacts DEF IInv, TypeOK
<1>1. CASE ReceiveCreate(r)
  <2> DEFINE m == [Idle EXCEPT !.phase = "put", !.op = "create", !.number = 1]
  <2>1. m \in Request
    BY IdleType DEF Request, Phases, Operations
  <2>2. Slot(m) /\ m.phase \notin Keeping
    BY DEF Slot, Idle, Keeping, Uploading
  <2>3. work' = [work EXCEPT ![r] = m] /\ ~Stored(r)
    BY <1>1 DEF ReceiveCreate, Stored
  <2> HIDE DEF m
  <2> QED
    BY <1>1, <1>f, <2>1, <2>2, <2>3, SlotMoves DEF ReceiveCreate
<1>2. CASE AuthorizeVersion(r)
  <2>1. PICK d \in BOOLEAN, s \in RowIds \cup {0, Unknown} :
          work' = [work EXCEPT ![r] = [Idle EXCEPT
               !.phase = "source", !.op = "createVersion", !.seen = current,
               !.derived = d, !.source = s]]
    BY <1>2 DEF AuthorizeVersion
  <2> DEFINE m == [Idle EXCEPT
               !.phase = "source", !.op = "createVersion", !.seen = current,
               !.derived = d, !.source = s]
  <2>0. \A k \in RowIds : k \in Keys /\ k \in Ids
    BY <1>f DEF Keys, Ids, Unknown
  <2>2. s \in Ids /\ current \in RowIds /\ current \in Keys \cup {0}
    <3>1. 0 \in Ids /\ Unknown \in Ids
      BY <1>f DEF Ids, Unknown
    <3>2. current \in RowIds
      BY <1>2, <1>f DEF AuthorizeVersion
    <3> QED
      BY <2>0, <3>1, <3>2
  <2>3. m \in Request
    BY <2>2, IdleType DEF Request, Phases, Operations
  <2>4. Slot(m) /\ m.phase \notin Keeping
    BY <2>2 DEF Slot, Idle, Keeping, Uploading
  <2>5. work' = [work EXCEPT ![r] = m] /\ ~Stored(r)
    BY <1>2, <2>1 DEF AuthorizeVersion, Stored
  <2> HIDE DEF m
  <2> QED
    BY <1>2, <1>f, <2>3, <2>4, <2>5, SlotMoves DEF AuthorizeVersion
<1>3. CASE CheckSource(r)
  <2> DEFINE m == [work[r] EXCEPT !.phase = "put", !.derived = FALSE]
  <2>1. m \in Request
    BY <1>f DEF Request, Phases
  <2>2. Slot(m) /\ m.phase \notin Keeping
    BY <1>3, <1>f DEF CheckSource, Slot, Keeping, Uploading, Request
  <2>3. work' = [work EXCEPT ![r] = m] /\ ~Stored(r)
    BY <1>3 DEF CheckSource, Stored
  <2> HIDE DEF m
  <2> QED
    BY <1>3, <1>f, <2>1, <2>2, <2>3, SlotMoves DEF CheckSource
<1>4. CASE RejectSource(r)
  BY <1>4, <1>f, SlotEnds DEF RejectSource, Stored
<1>5. CASE AggregateNumber(r)
  <2> DEFINE n == Max(Numbers \cup {0}) + 1
             m == [work[r] EXCEPT !.phase = "insert", !.number = n]
  <2>1. n = Len(versions) + 1
    <3>1. \A y \in Numbers \cup {0} : Len(versions) >= y
      BY <1>f
    <3>2. Len(versions) \in Numbers \cup {0}
      BY <1>f
    <3>3. \A x \in Numbers \cup {0} :
            (\A y \in Numbers \cup {0} : x >= y) => x = Len(versions)
      BY <1>f, <3>2
    <3> QED
      BY <3>1, <3>2, <3>3 DEF Max
  <2> HIDE DEF n
  <2>2. m \in Request /\ m.phase = "insert" /\ m.key = work[r].key
    <3>1. n \in Nat /\ "insert" \in Phases
      BY <1>f, <2>1 DEF Phases
    <3> QED
      BY <1>f, <3>1 DEF Request
  <2>3. Slot(m)
    BY <1>5, <1>f, <2>1 DEF AggregateNumber, Slot, Keeping, Uploading, Request
  <2>4. work' = [work EXCEPT ![r] = m] /\ Stored(r)
    BY <1>5 DEF AggregateNumber, Stored, n
  <2> HIDE DEF m
  <2> QED
    BY <1>5, <1>f, <2>2, <2>3, <2>4, SlotMoves DEF AggregateNumber, Keeping
<1>6. CASE Conflict(r) \/ Rollback(r)
  <2>1. Slot([work[r] EXCEPT !.phase = "cleanup"])
    BY <1>6, <1>f DEF Conflict, Rollback, Slot, Keeping, Uploading, Request
  <2>2. Stored(r) /\ "cleanup" \in Keeping /\ "cleanup" \in Phases
    BY <1>6 DEF Conflict, Rollback, Stored, Keeping, Phases
  <2> QED
    BY <1>6, <1>f, <2>1, <2>2, SlotGoes DEF Conflict, Rollback
<1>7. CASE CleanupFails(r)
  <2>1. work[r].key \in 1 .. uploads
    BY <1>7, <1>f DEF CleanupFails, Slot, Keeping
  <2>2. abandoned' = abandoned \cup {work[r].key}
    BY <1>7 DEF CleanupFails
  <2> QED
    BY <1>7, <1>f, <2>1, <2>2, SlotEnds DEF CleanupFails
<1> QED
  BY <1>1, <1>2, <1>3, <1>4, <1>5, <1>6, <1>7

LEMMA ReadSteps ==
  ASSUME IInv, NEW r \in Requests,
         \/ AuthorizeRead(r) \/ Resolve(r) \/ Fetch(r) \/ AuditUnreadable(r)
         \/ AuditRead(r) \/ RecordRead(r) \/ AnswerRead(r) \/ Crash(r)
  PROVE  IInv'
<1>f. /\ work[r] \in Request /\ Slot(work[r])
      /\ RowIds \subseteq 1 .. uploads /\ uploads <= MaxUploads
      /\ uploads \in Nat /\ MaxUploads \in Nat
      /\ versions # <<>> => current \in RowIds
      /\ objects \subseteq 1 .. uploads /\ abandoned \subseteq 1 .. uploads
      /\ reads \in [ReadEvents -> Nat]
  BY SlotFacts DEF IInv, TypeOK
<1>1. CASE AuthorizeRead(r)
  <2>1. PICK op \in {"read", "verify"}, t \in RowIds \cup {0, Unknown} :
          work' = [work EXCEPT ![r] = [Idle EXCEPT
               !.phase = "resolve", !.op = op, !.seen = current, !.target = t]]
    BY <1>1 DEF AuthorizeRead
  <2> DEFINE m == [Idle EXCEPT
               !.phase = "resolve", !.op = op, !.seen = current, !.target = t]
  <2>0. \A k \in RowIds : k \in Keys /\ k \in Ids
    BY <1>f DEF Keys, Ids, Unknown
  <2>2. t \in Ids /\ current \in Keys \cup {0}
    <3>1. 0 \in Ids /\ Unknown \in Ids
      BY <1>f DEF Ids, Unknown
    <3>2. current \in RowIds
      BY <1>1, <1>f DEF AuthorizeRead
    <3> QED
      BY <2>0, <3>1, <3>2
  <2>3. m \in Request
    BY <2>2, IdleType DEF Request, Phases, Operations
  <2>4. Slot(m) /\ m.phase \notin Keeping
    BY DEF Slot, Idle, Keeping, Uploading
  <2>5. work' = [work EXCEPT ![r] = m] /\ ~Stored(r)
    BY <1>1, <2>1 DEF AuthorizeRead, Stored
  <2> HIDE DEF m
  <2> QED
    BY <1>1, <1>f, <2>3, <2>4, <2>5, SlotMoves DEF AuthorizeRead
<1>2. CASE Resolve(r)
  <2>1. CASE Answer(r)
    BY <1>2, <1>f, <2>1, SlotEnds DEF Resolve, Stored
  <2>2. CASE work' = [work EXCEPT ![r] = [@ EXCEPT
                 !.phase = "fetch", !.target = Requested(r), !.seen = 0]]
    <3> DEFINE t == Requested(r)
               m == [work[r] EXCEPT !.phase = "fetch", !.target = t,
                                    !.seen = 0]
    <3>1. t \in Ids
      BY <1>f DEF Requested, Request, Ids, Keys, Unknown
    <3> HIDE DEF t
    <3>2. m \in Request
      BY <1>f, <3>1 DEF Request, Phases
    <3>3. Slot(m) /\ m.phase \notin Keeping
      BY <1>2, <1>f DEF Resolve, Slot, Keeping, Uploading, Request
    <3>4. work' = [work EXCEPT ![r] = m] /\ ~Stored(r)
      BY <1>2, <2>2 DEF Resolve, Stored, t
    <3> HIDE DEF m
    <3> QED
      BY <1>2, <1>f, <3>2, <3>3, <3>4, SlotMoves DEF Resolve
  <2> QED
    BY <1>2, <2>1, <2>2 DEF Resolve
<1>3. ASSUME NEW p \in {"audited", "recorded"},
             Goto(r, p), work[r].phase \notin Keeping,
             UNCHANGED <<versions, current, objects, uploads, unacked, abandoned>>,
             reads' \in [ReadEvents -> Nat]
      PROVE  IInv'
  <2>1. Slot([work[r] EXCEPT !.phase = p])
    BY <1>3, <1>f DEF Slot, Keeping, Uploading, Request
  <2>2. ~Stored(r) /\ p \notin Keeping /\ p \in Phases
    BY <1>3 DEF Stored, Keeping, Phases
  <2> QED
    BY <1>3, <2>1, <2>2, SlotGoes
<1>4. CASE Fetch(r)
  <2>1. PICK p \in {"fetched", "unreadable"} :
          work' = [work EXCEPT ![r] = [@ EXCEPT !.phase = p, !.target = 0]]
    BY <1>4 DEF Fetch
  <2> DEFINE m == [work[r] EXCEPT !.phase = p, !.target = 0]
  <2>2. m \in Request
    <3>1. 0 \in Ids
      BY <1>f DEF Ids, Unknown
    <3> QED
      BY <1>f, <3>1 DEF Request, Phases
  <2>3. Slot(m) /\ m.phase \notin Keeping
    BY <1>4, <1>f DEF Fetch, Slot, Keeping, Uploading, Request
  <2>4. work' = [work EXCEPT ![r] = m] /\ ~Stored(r)
    BY <1>4, <2>1 DEF Fetch, Stored
  <2> HIDE DEF m
  <2> QED
    BY <1>4, <1>f, <2>2, <2>3, <2>4, SlotMoves DEF Fetch
<1>5. CASE AuditRead(r)
  <2>1. reads' \in [ReadEvents -> Nat]
    BY <1>5, ReadCounted DEF AuditRead, ReadEvents
  <2> QED
    BY <1>3, <1>5, <2>1 DEF AuditRead, Keeping
<1>6. CASE RecordRead(r)
  <2>1. reads' \in [ReadEvents -> Nat]
    BY <1>6, ReadCounted DEF RecordRead, ReadEvents
  <2> QED
    BY <1>3, <1>6, <2>1 DEF RecordRead, Keeping
<1>7. CASE AuditUnreadable(r) \/ AnswerRead(r)
  <2>1. reads' \in [ReadEvents -> Nat]
    BY <1>7, ReadCounted DEF AuditUnreadable, AnswerRead, ReadEvents
  <2> QED
    BY <1>7, <1>f, <2>1, SlotEnds DEF AuditUnreadable, AnswerRead, Stored
<1>8. CASE Crash(r)
  <2>1. abandoned' = abandoned \cup (objects \cap {work[r].key})
    BY <1>8 DEF Crash
  <2> QED
    BY <1>8, <1>f, <2>1, SlotEnds DEF Crash
<1> QED
  BY <1>1, <1>2, <1>4, <1>5, <1>6, <1>7, <1>8

-----------------------------------------------------------------------------
(* Steps that change objects or rows. *)

\* A key that was never used is nobody's.
LEMMA FreshKey ==
  ASSUME IInv, uploads < MaxUploads
  PROVE  /\ uploads + 1 \in Keys /\ uploads + 1 \notin RowIds
         /\ uploads + 1 \notin objects
         /\ \A q \in Requests : Stored(q) => work[q].key # uploads + 1
         /\ \A q \in Requests : work[q].key \in 0 .. uploads
<1>1. uploads \in Nat /\ RowIds \subseteq 1 .. uploads
      /\ objects \subseteq 1 .. uploads /\ MaxUploads \in Nat
  BY BoundsAssumption DEF IInv, TypeOK, KeysAreUsed
<1>2. \A q \in Requests : work[q].key \in 0 .. uploads
  BY <1>1 DEF IInv, Slots, Slot
<1>3. \A q \in Requests : Stored(q) => work[q].key \in 1 .. uploads
  BY <1>1 DEF IInv, Slots, Slot, Stored, Keeping
<1> QED
  BY <1>1, <1>2, <1>3 DEF Keys

\* A new object appears, and the slot either keeps its key or gives it up.
LEMMA ObjectAppears ==
  ASSUME IInv, NEW r \in Requests, NEW m \in Request,
         uploads < MaxUploads, uploads' = uploads + 1,
         objects' = objects \cup {uploads + 1},
         work' = [work EXCEPT ![r] = m],
         UNCHANGED <<versions, current, unacked, reads>>,
         abandoned \subseteq abandoned',
         abandoned' \subseteq abandoned \cup {uploads + 1},
         Slot(m)', ~Stored(r),
         m.phase \in Keeping => m.key = uploads + 1,
         m.phase \in Keeping \/ uploads + 1 \in abandoned'
  PROVE  IInv'
<1>0. /\ uploads \in Nat /\ MaxUploads \in Nat /\ uploads' \in 0 .. MaxUploads
      /\ 1 .. uploads \subseteq 1 .. uploads' /\ uploads + 1 \in 1 .. uploads'
  BY BoundsAssumption DEF IInv, TypeOK
<1>1. TypeOK'
  BY <1>0 DEF IInv, TypeOK
<1>2. /\ Rows' = Rows /\ RowIds' = RowIds /\ Numbers' = Numbers
  BY DEF Rows, RowIds, Numbers
<1>3. work'[r] = m /\ \A q \in Requests \ {r} : work'[q] = work[q]
  BY DEF IInv, TypeOK
<1>4. Slots'
  <2> SUFFICES ASSUME NEW q \in Requests PROVE Slot(work[q])'
    BY DEF Slots
  <2>1. CASE q = r
    BY <1>2, <1>3, <2>1 DEF Slot
  <2>2. CASE q # r
    <3>1. Slot(work[q])
      BY DEF IInv, Slots
    <3> QED
      BY <1>0, <1>2, <1>3, <2>2, <3>1 DEF Slot
  <2> QED
    BY <2>1, <2>2
<1>5. KeysAreUsed'
  BY <1>0, <1>2 DEF IInv, KeysAreUsed
<1>6. KeysHaveOneOwner'
  BY <1>3, FreshKey DEF IInv, KeysHaveOneOwner, Stored, Keeping
<1>7. NumbersAreConsecutive' /\ LineageIsOlder' /\ MissingOnlyAfterLostAck'
  BY <1>2 DEF IInv, NumbersAreConsecutive, LineageIsOlder,
              MissingOnlyAfterLostAck
<1>8. OrphansHaveACause'
  <2> SUFFICES ASSUME NEW k \in objects' \ RowIds, k \notin abandoned'
               PROVE  \E q \in Requests :
                          work'[q].phase \in Keeping /\ work'[q].key = k
    BY <1>2 DEF OrphansHaveACause, Stored, Keeping
  <2>1. CASE k = uploads + 1
    BY <1>3, <2>1
  <2>2. CASE k # uploads + 1
    <3>1. PICK q \in Requests : Stored(q) /\ work[q].key = k
      BY <2>2 DEF IInv, OrphansHaveACause
    <3> QED
      BY <1>3, <3>1 DEF Stored, Keeping
  <2> QED
    BY <2>1, <2>2
<1> QED
  BY <1>1, <1>4, <1>5, <1>6, <1>7, <1>8 DEF IInv

LEMMA PutSteps ==
  ASSUME IInv, NEW r \in Requests, Put(r) \/ PutFails(r)
  PROVE  IInv'
<1>f. /\ work[r] \in Request /\ Slot(work[r]) /\ ~Stored(r)
      /\ work[r].phase = "put" /\ uploads \in Nat
  BY SlotFacts DEF Put, PutFails, Stored
<1>r. /\ UNCHANGED versions => RowIds' = RowIds
      /\ UNCHANGED versions => Len(versions') = Len(versions)
  BY DEF RowIds, Rows
<1>1. CASE Put(r)
  <2>1. PICK p \in Phases :
          /\ p = IF work[r].op = "create" THEN "insert" ELSE "number"
          /\ p = "insert" => work[r].op = "create"
          /\ p = "number" => work[r].op = "createVersion"
          /\ p \in {"insert", "number"}
    BY <1>f DEF Slot, Phases
  <2>2. uploads + 1 \in Keys /\ uploads + 1 \notin RowIds
    BY <1>1, FreshKey DEF Put
  <2>3. PICK m \in Request :
          /\ m = [work[r] EXCEPT !.phase = p, !.key = uploads + 1]
          /\ m.phase = p /\ m.key = uploads + 1 /\ m.op = work[r].op
          /\ m.seen = work[r].seen /\ m.source = work[r].source
          /\ m.number = work[r].number
    <3> DEFINE s == [work[r] EXCEPT !.phase = p, !.key = uploads + 1]
    <3>1. /\ s \in Request /\ s.phase = p /\ s.key = uploads + 1
          /\ s.op = work[r].op /\ s.seen = work[r].seen
          /\ s.source = work[r].source /\ s.number = work[r].number
      BY <2>2, <1>f DEF Request
    <3> HIDE DEF s
    <3> QED
      BY <3>1 DEF s
  <2>4. work' = [work EXCEPT ![r] = m]
    BY <1>1, <2>1, <2>3 DEF Put
  <2>5. PICK o \in Operations, seen \in RowIds \cup {0},
             source \in RowIds \cup {0} :
          /\ m.op = o /\ m.seen = seen /\ m.source = source
          /\ o = "createVersion" => seen \in RowIds
          /\ o = "create" => seen = 0 /\ source = 0 /\ m.number = 1
          /\ o \in {"create", "createVersion"}
    BY <1>f, <2>3 DEF Slot, Uploading, Request
  <2>6. Slot(m)'
    <3>1. uploads' = uploads + 1 /\ objects' = objects \cup {uploads + 1}
          /\ unacked' = unacked /\ versions' = versions
      BY <1>1 DEF Put
    <3>2. Len(versions) \in Nat /\ RowIds' = RowIds
      BY <1>r, <3>1, SlotFacts
    <3> QED
      BY <1>f, <2>1, <2>2, <2>3, <2>5, <3>1, <3>2
      DEF Slot, Keeping, Uploading
  <2> QED
    BY <1>1, <1>f, <2>1, <2>3, <2>4, <2>6, ObjectAppears DEF Put, Keeping
<1>2. CASE PutFails(r) /\ UNCHANGED <<objects, uploads, abandoned>>
  <2>1. abandoned \subseteq 1 .. uploads /\ reads \in [ReadEvents -> Nat]
    BY DEF IInv, TypeOK
  <2> QED
    BY <1>2, <1>f, <2>1, SlotEnds DEF PutFails
<1>3. CASE /\ PutFails(r) /\ uploads < MaxUploads /\ uploads' = uploads + 1
           /\ objects' = objects \cup {uploads + 1}
           /\ abandoned' = abandoned \cup {uploads + 1}
  <2>1. Slot(Idle)' /\ Idle.phase \notin Keeping
    BY DEF Slot, Idle, Keeping, Uploading
  <2>2. work' = [work EXCEPT ![r] = Idle]
    BY <1>3 DEF PutFails, Answer
  <2> QED
    BY <1>3, <1>f, <2>1, <2>2, IdleType, ObjectAppears DEF PutFails
<1> QED
  BY <1>1, <1>2, <1>3 DEF PutFails

\* The object of this upload goes, and no other upload or row relied on it.
LEMMA CleanupStep ==
  ASSUME IInv, NEW r \in Requests, Cleanup(r)
  PROVE  IInv'
<1>f. /\ Slot(work[r]) /\ Stored(r) /\ work[r].phase = "cleanup"
      /\ objects' = objects \ {work[r].key}
      /\ UNCHANGED <<versions, current, uploads, abandoned, unacked, reads>>
  BY SlotFacts DEF Cleanup, Stored
<1>1. TypeOK'
  BY <1>f, IdleType DEF IInv, TypeOK, Cleanup, Answer
<1>2. Rows' = Rows /\ RowIds' = RowIds
  BY <1>f DEF Rows, RowIds
<1>3. work'[r] = Idle /\ \A q \in Requests \ {r} : work'[q] = work[q]
  BY DEF IInv, TypeOK, Cleanup, Answer
<1>4. Slots'
  <2> SUFFICES ASSUME NEW q \in Requests PROVE Slot(work[q])'
    BY DEF Slots
  <2>1. CASE q = r
    BY <1>3, <2>1 DEF Slot, Idle, Keeping, Uploading
  <2>2. CASE q # r
    <3>1. Slot(work[q])
      BY DEF IInv, Slots
    <3>2. Stored(q) => work[q].key # work[r].key
      BY <1>f, <2>2 DEF IInv, KeysHaveOneOwner
    <3> QED
      BY <1>f, <1>2, <1>3, <2>2, <3>1, <3>2 DEF Slot, Stored
  <2> QED
    BY <2>1, <2>2
<1>5. KeysAreUsed'
  BY <1>f, <1>2 DEF IInv, KeysAreUsed
<1>6. KeysHaveOneOwner'
  BY <1>3 DEF IInv, KeysHaveOneOwner, Stored, Idle
<1>7. NumbersAreConsecutive' /\ LineageIsOlder'
  BY <1>f, <1>2 DEF IInv, NumbersAreConsecutive, LineageIsOlder
<1>8. MissingOnlyAfterLostAck'
  BY <1>f, <1>2 DEF IInv, MissingOnlyAfterLostAck, Slot
<1>9. OrphansHaveACause'
  <2> SUFFICES ASSUME NEW k \in objects' \ RowIds, k \notin abandoned
               PROVE  \E q \in Requests :
                          work'[q].phase \in Keeping /\ work'[q].key = k
    BY <1>f, <1>2 DEF OrphansHaveACause, Stored, Keeping
  <2>1. PICK q \in Requests : Stored(q) /\ work[q].key = k
    BY <1>f DEF IInv, OrphansHaveACause
  <2>2. q # r
    BY <1>f, <2>1
  <2> QED
    BY <1>3, <2>1, <2>2 DEF Stored, Keeping
<1> QED
  BY <1>1, <1>4, <1>5, <1>6, <1>7, <1>8, <1>9 DEF IInv

\* A number that is free is the next one; parent and source are rows already.
LEMMA CommitStep ==
  ASSUME IInv, NEW r \in Requests, Commit(r)
  PROVE  IInv'
<1> DEFINE n == Len(versions) + 1
           v == NewVersion(work[r])
           k == work[r].key
<1>f. /\ work[r] \in Request /\ Slot(work[r])
      /\ work[r].phase = "insert" /\ Stored(r)
      /\ Len(versions) \in Nat /\ Rows = 1 .. Len(versions)
      /\ Numbers = 1 .. Len(versions) /\ RowIds \subseteq 1 .. uploads
      /\ uploads \in Nat /\ uploads <= MaxUploads /\ MaxUploads \in Nat
      /\ unacked \subseteq 1 .. uploads /\ versions \in Seq(Version)
  BY SlotFacts DEF Commit, Stored, IInv, TypeOK
<1>u. UNCHANGED <<objects, uploads, abandoned, reads>> /\ current' = k
  BY DEF Commit
<1>k. k \in 1 .. uploads /\ k \in Keys /\ k \in objects /\ k \notin RowIds
  BY <1>f DEF Slot, Keeping, Keys
<1>1. /\ v.id = k /\ v.number = n
      /\ v.source \in RowIds \cup {0} /\ v.parent \in RowIds \cup {0}
      /\ v.parent = 0 <=> versions = <<>>
  <2>1. work[r].number = n
    BY <1>f DEF Commit, NumberIsFree, Slot
  <2>2. work[r].op = "create" => versions = <<>> /\ work[r].seen = 0
    BY <1>f, <2>1 DEF Slot, Uploading
  <2>3. work[r].op = "createVersion" =>
            work[r].seen \in RowIds /\ versions # <<>> /\ work[r].seen # 0
    BY <1>f DEF Slot, Uploading, RowIds, Rows
  <2>4. work[r].op \in {"create", "createVersion"}
        /\ work[r].source \in RowIds \cup {0}
    BY <1>f DEF Slot
  <2> QED
    BY <2>1, <2>2, <2>3, <2>4 DEF NewVersion
<1>2. v \in Version
  <2>1. work[r].source \in Keys \cup {0} /\ work[r].seen \in Keys \cup {0}
        /\ work[r].number \in Nat
    <3>1. \A i \in RowIds : i \in Keys
      BY <1>f DEF Keys
    <3>2. v.source = work[r].source /\ v.parent = work[r].seen
      BY DEF NewVersion
    <3> HIDE DEF v
    <3> QED
      BY <1>f, <1>1, <3>1, <3>2 DEF Request
  <2> QED
    BY <1>k, <2>1 DEF NewVersion, Version
<1>3. versions' = Append(versions, v)
  BY DEF Commit
<1>4. PICK row \in Version :
        /\ versions' = Append(versions, row) /\ row.id = k /\ row.number = n
        /\ row.source \in RowIds \cup {0} /\ row.parent \in RowIds \cup {0}
        /\ row.parent = 0 <=> versions = <<>>
  BY <1>1, <1>2, <1>3
<1> HIDE DEF v
<1>5. /\ versions' \in Seq(Version) /\ Len(versions') = n
      /\ Rows' = 1 .. n /\ versions'[n] = row
      /\ \A i \in Rows : versions'[i] = versions[i]
      /\ versions' # <<>>
  BY <1>f, <1>4 DEF Rows
<1>6. RowIds' = RowIds \cup {k}
  <2>1. \A i \in Rows : versions'[i].id = versions[i].id
    BY <1>5
  <2>2. Rows' = Rows \cup {n}
    BY <1>f, <1>5
  <2>3. n \notin Rows /\ n \in Rows' /\ versions'[n].id = k
    BY <1>f, <1>4, <1>5
  <2> HIDE DEF n, k
  <2> QED
    BY <2>1, <2>2, <2>3 DEF RowIds
<1>7. PICK m \in Request :
        /\ work' = [work EXCEPT ![r] = m] /\ m.phase \in {"idle", "cleanup"}
        /\ m.phase = "idle" => m.key = 0
        /\ m.phase = "cleanup" => m.key = k /\ unacked' = unacked \cup {k}
        /\ unacked \subseteq unacked' /\ unacked' \subseteq 1 .. uploads
  <2>1. CASE Answer(r) /\ UNCHANGED unacked
    BY <1>f, <2>1, IdleType DEF Answer, Idle
  <2>2. CASE Goto(r, "cleanup") /\ unacked' = unacked \cup {k}
    <3> DEFINE s == [work[r] EXCEPT !.phase = "cleanup"]
    <3>1. s \in Request /\ s.phase = "cleanup" /\ s.key = k
      BY <1>f DEF Request, Phases
    <3>2. work' = [work EXCEPT ![r] = s]
      BY <2>2 DEF Goto, IInv, TypeOK
    <3> HIDE DEF s
    <3> QED
      BY <1>f, <1>k, <2>2, <3>1, <3>2
  <2> QED
    BY <2>1, <2>2 DEF Commit
<1>8. work'[r] = m /\ \A q \in Requests \ {r} : work'[q] = work[q]
  BY <1>7 DEF IInv, TypeOK
<1>9. TypeOK'
  BY <1>u, <1>k, <1>5, <1>7 DEF IInv, TypeOK
<1>10. Slots'
  <2> SUFFICES ASSUME NEW q \in Requests PROVE Slot(work[q])'
    BY DEF Slots
  <2>1. CASE q = r
    BY <1>u, <1>k, <1>6, <1>7, <1>8, <2>1 DEF Slot, Keeping, Uploading
  <2>2. CASE q # r
    <3>1. Slot(work[q])
      BY DEF IInv, Slots
    <3>2. Stored(q) => work[q].key # k
      BY <1>f, <2>2 DEF IInv, KeysHaveOneOwner
    <3>3. 1 .. (Len(versions) + 1) \subseteq 1 .. (Len(versions') + 1)
      BY <1>f, <1>5
    <3>4. unacked \subseteq unacked'
      BY <1>7
    <3> HIDE DEF k
    <3> QED
      BY <1>u, <1>6, <1>8, <2>2, <3>1, <3>2, <3>3, <3>4
      DEF Slot, Stored, Keeping, Uploading
  <2> QED
    BY <2>1, <2>2
<1>11. KeysAreUsed'
  BY <1>u, <1>f, <1>k, <1>6 DEF KeysAreUsed
<1>12. KeysHaveOneOwner'
  BY <1>f, <1>7, <1>8 DEF IInv, KeysHaveOneOwner, Stored
<1>13. NumbersAreConsecutive'
  <2>1. \A i \in Rows' : versions'[i].number = i
    BY <1>f, <1>4, <1>5 DEF IInv, NumbersAreConsecutive
  <2> QED
    BY <1>u, <1>4, <1>5, <2>1 DEF NumbersAreConsecutive
<1>14. LineageIsOlder'
  <2> SUFFICES ASSUME NEW i \in 1 .. n
               PROVE  LET older == {versions'[j].id : j \in 1 .. (i - 1)}
                      IN  /\ versions'[i].parent \in older \cup {0}
                          /\ versions'[i].source \in older \cup {0}
                          /\ versions'[i].parent = 0 <=> i = 1
    BY <1>5 DEF LineageIsOlder
  <2> DEFINE older == {versions'[j].id : j \in 1 .. (i - 1)}
  <2>1. older = {versions[j].id : j \in 1 .. (i - 1)}
    BY <1>f, <1>5
  <2>2. CASE i \in Rows
    <3>1. /\ versions[i].parent \in older \cup {0}
          /\ versions[i].source \in older \cup {0}
          /\ versions[i].parent = 0 <=> i = 1
      BY <2>1, <2>2 DEF IInv, LineageIsOlder
    <3> QED
      BY <1>5, <2>2, <3>1
  <2>3. CASE i = n
    <3>1. older = RowIds
      <4>1. 1 .. (i - 1) = Rows
        BY <1>f, <2>3
      <4> QED
        BY <2>1, <4>1 DEF RowIds
    <3>2. versions = <<>> <=> n = 1
      BY <1>f
    <3> QED
      BY <1>4, <1>5, <2>3, <3>1, <3>2
  <2> QED
    BY <1>f, <2>2, <2>3
<1>15. MissingOnlyAfterLostAck'
  BY <1>u, <1>k, <1>6, <1>7 DEF IInv, MissingOnlyAfterLostAck
<1>16. OrphansHaveACause'
  <2> SUFFICES ASSUME NEW o \in objects \ RowIds, o # k, o \notin abandoned
               PROVE  \E q \in Requests :
                          work'[q].phase \in Keeping /\ work'[q].key = o
    BY <1>u, <1>6 DEF OrphansHaveACause, Stored, Keeping
  <2>1. PICK q \in Requests : Stored(q) /\ work[q].key = o
    BY DEF IInv, OrphansHaveACause
  <2> QED
    BY <1>8, <2>1 DEF Stored, Keeping
<1> QED
  BY <1>9, <1>10, <1>11, <1>12, <1>13, <1>14, <1>15, <1>16 DEF IInv

-----------------------------------------------------------------------------

LEMMA InitIInv == Init => IInv
<1> SUFFICES ASSUME Init PROVE IInv
  OBVIOUS
<1>1. Rows = {} /\ RowIds = {}
  BY DEF Init, Rows, RowIds
<1>2. TypeOK
  BY IdleType, BoundsAssumption DEF Init, TypeOK
<1>3. Slots
  BY DEF Init, Slots, Slot, Idle, Keeping, Uploading
<1> QED
  BY <1>1, <1>2, <1>3
  DEF Init, IInv, KeysAreUsed, KeysHaveOneOwner, Stored, Idle, LineageIsOlder,
      NumbersAreConsecutive, MissingOnlyAfterLostAck, OrphansHaveACause

LEMMA StepIInv == IInv /\ [Next]_vars => IInv'
<1>1. ASSUME IInv, NEW r \in Requests, Step(r) PROVE IInv'
  BY <1>1, UploadSteps, ReadSteps, PutSteps, CleanupStep, CommitStep DEF Step
<1>2. ASSUME IInv, UNCHANGED vars PROVE IInv'
  BY <1>2
  DEF IInv, vars, TypeOK, Slots, Slot, KeysAreUsed, KeysHaveOneOwner, Stored,
      RowIds, Rows, NumbersAreConsecutive, LineageIsOlder,
      MissingOnlyAfterLostAck, OrphansHaveACause
<1> QED
  BY <1>1, <1>2 DEF Next

THEOREM InductiveInvariant == Spec => []IInv
  BY InitIInv, StepIInv, PTL DEF Spec

\* The types hold for any number of requests and uploads.
THEOREM VersionTypes == Spec => []TypeOK
<1>1. IInv => TypeOK
  BY DEF IInv
<1> QED
  BY <1>1, InductiveInvariant, PTL

\* Numbers count the commits, and the current version has the highest.
THEOREM NumbersCountTheCommits == Spec => []NumbersAreConsecutive
<1>1. IInv => NumbersAreConsecutive
  BY DEF IInv
<1> QED
  BY <1>1, InductiveInvariant, PTL

\* Parents and sources are older versions of the same document.
THEOREM LineageEndsAtTheOriginal == Spec => []LineageIsOlder
<1>1. IInv => LineageIsOlder
  BY DEF IInv
<1> QED
  BY <1>1, InductiveInvariant, PTL

\* A committed version lacks its object only if its own commit was not
\* acknowledged.
THEOREM CommittedObjectsStay == Spec => []MissingOnlyAfterLostAck
<1>1. IInv => MissingOnlyAfterLostAck
  BY DEF IInv
<1> QED
  BY <1>1, InductiveInvariant, PTL

\* Conflicts and failures of the transaction leave no orphan behind.
THEOREM NoOrphanWithoutCause == Spec => []OrphansHaveACause
<1>1. IInv => OrphansHaveACause
  BY DEF IInv
<1> QED
  BY <1>1, InductiveInvariant, PTL

-----------------------------------------------------------------------------
(* The two histories of reads.  Each read that waits to be recorded, or to   *)
(* be answered, is owed by the count before.                                 *)

At(p) == {r \in Requests : work[r].phase = p}

Owed(p, made, next) ==
    IsFiniteSet(At(p)) /\ reads[next] + Cardinality(At(p)) <= reads[made]

ReadsInv == /\ Owed("audited", "audited", "recorded")
            /\ Owed("recorded", "recorded", "answered")

\* A step changes one slot, and so it changes the number in a phase by one at
\* the most.
LEMMA OneSlotMoves ==
  ASSUME NEW r \in Requests, \A q \in Requests \ {r} : work'[q] = work[q],
         NEW p, IsFiniteSet(At(p))
  PROVE  /\ IsFiniteSet(At(p)')
         /\ Cardinality(At(p)) \in Nat
         /\ (work[r].phase = p <=> work'[r].phase = p) =>
               Cardinality(At(p)') = Cardinality(At(p))
         /\ work[r].phase # p /\ work'[r].phase = p =>
               Cardinality(At(p)') = Cardinality(At(p)) + 1
         /\ work[r].phase = p /\ work'[r].phase # p =>
               Cardinality(At(p)') = Cardinality(At(p)) - 1
<1> DEFINE S == At(p)
           T == At(p)'
<1>1. CASE work[r].phase = p <=> work'[r].phase = p
  <2>1. T = S
    BY <1>1 DEF At
  <2> QED
    BY <1>1, <2>1, FS_CardinalityType
<1>2. CASE work[r].phase # p /\ work'[r].phase = p
  <2>1. T = S \cup {r} /\ r \notin S
    BY <1>2 DEF At
  <2>2. /\ IsFiniteSet(T) /\ Cardinality(S) \in Nat
        /\ Cardinality(T) = Cardinality(S) + 1
    <3> HIDE DEF S, T
    <3>1. IsFiniteSet(S)
      BY DEF S
    <3> QED
      BY <2>1, <3>1, FS_AddElement, FS_CardinalityType
  <2> QED
    BY <1>2, <2>2
<1>3. CASE work[r].phase = p /\ work'[r].phase # p
  <2>1. T = S \ {r} /\ r \in S
    BY <1>3 DEF At
  <2>2. /\ IsFiniteSet(T) /\ Cardinality(S) \in Nat
        /\ Cardinality(T) = Cardinality(S) - 1
    <3> HIDE DEF S, T
    <3>1. IsFiniteSet(S)
      BY DEF S
    <3> QED
      BY <2>1, <3>1, FS_RemoveElement, FS_CardinalityType
  <2> QED
    BY <1>3, <2>2
<1> QED
  BY <1>1, <1>2, <1>3

\* A slot that enters none of the two phases, and may leave one for nothing.
LEMMA ReadsKept ==
  ASSUME TypeOK, ReadsInv, NEW r \in Requests,
         \A q \in Requests \ {r} : work'[q] = work[q],
         \A e \in {"audited", "recorded", "answered"} : reads'[e] = reads[e],
         work'[r].phase \notin {"audited", "recorded"}
  PROVE  ReadsInv'
<1> DEFINE A == Cardinality(At("audited"))
           R == Cardinality(At("recorded"))
<1>1. /\ reads["audited"] \in Nat /\ reads["recorded"] \in Nat
      /\ reads["answered"] \in Nat
  BY DEF TypeOK, ReadEvents
<1>2. IsFiniteSet(At("audited")) /\ IsFiniteSet(At("recorded"))
  BY DEF ReadsInv, Owed
<1>3. /\ IsFiniteSet(At("audited")') /\ A \in Nat
      /\ Cardinality(At("audited")') \in {A, A - 1}
  BY <1>2, OneSlotMoves
<1>4. /\ IsFiniteSet(At("recorded")') /\ R \in Nat
      /\ Cardinality(At("recorded")') \in {R, R - 1}
  BY <1>2, OneSlotMoves
<1> QED
  BY <1>1, <1>3, <1>4 DEF ReadsInv, Owed

LEMMA ReadsStep ==
  ASSUME TypeOK, ReadsInv, NEW r \in Requests, Step(r)
  PROVE  ReadsInv'
<1> DEFINE A == Cardinality(At("audited"))
           R == Cardinality(At("recorded"))
<1>1. /\ reads \in [ReadEvents -> Nat]
      /\ reads["audited"] \in Nat /\ reads["recorded"] \in Nat
      /\ reads["answered"] \in Nat
  BY DEF TypeOK, ReadEvents
<1>2. /\ IsFiniteSet(At("audited")) /\ IsFiniteSet(At("recorded"))
      /\ A \in Nat /\ R \in Nat
      /\ reads["recorded"] + A <= reads["audited"]
      /\ reads["answered"] + R <= reads["recorded"]
  BY FS_CardinalityType DEF ReadsInv, Owed
<1>m. work[r] \in Request /\ work \in [Requests -> Request]
  BY DEF TypeOK
<1>3. CASE AuditRead(r)
  <2>1. /\ work'[r].phase = "audited"
        /\ \A q \in Requests \ {r} : work'[q] = work[q]
    BY <1>3, <1>m DEF AuditRead, Goto, Request
  <2>2. work[r].phase \notin {"audited", "recorded"}
    BY <1>3 DEF AuditRead
  <2>3. /\ IsFiniteSet(At("audited")') /\ IsFiniteSet(At("recorded")')
        /\ Cardinality(At("audited")') = A + 1
        /\ Cardinality(At("recorded")') = R
    BY <1>2, <2>1, <2>2, OneSlotMoves
  <2>4. /\ reads'["audited"] = reads["audited"] + 1
        /\ reads'["recorded"] = reads["recorded"]
        /\ reads'["answered"] = reads["answered"]
    BY <1>1, <1>3 DEF AuditRead, ReadEvents
  <2> QED
    BY <1>1, <1>2, <2>3, <2>4 DEF ReadsInv, Owed
<1>4. CASE RecordRead(r)
  <2>1. /\ work'[r].phase = "recorded"
        /\ \A q \in Requests \ {r} : work'[q] = work[q]
    BY <1>4, <1>m DEF RecordRead, Goto, Request
  <2>2. work[r].phase = "audited"
    BY <1>4 DEF RecordRead
  <2>3. /\ IsFiniteSet(At("audited")') /\ IsFiniteSet(At("recorded")')
        /\ Cardinality(At("audited")') = A - 1
        /\ Cardinality(At("recorded")') = R + 1
    BY <1>2, <2>1, <2>2, OneSlotMoves
  <2>4. /\ reads'["audited"] = reads["audited"]
        /\ reads'["recorded"] = reads["recorded"] + 1
        /\ reads'["answered"] = reads["answered"]
    BY <1>1, <1>4 DEF RecordRead, ReadEvents
  <2> QED
    BY <1>1, <1>2, <2>3, <2>4 DEF ReadsInv, Owed
<1>5. CASE AnswerRead(r)
  <2>1. /\ work'[r].phase = "idle"
        /\ \A q \in Requests \ {r} : work'[q] = work[q]
    BY <1>5, <1>m DEF AnswerRead, Answer, Idle
  <2>2. work[r].phase = "recorded"
    BY <1>5 DEF AnswerRead
  <2>3. /\ IsFiniteSet(At("audited")') /\ IsFiniteSet(At("recorded")')
        /\ Cardinality(At("audited")') = A
        /\ Cardinality(At("recorded")') = R - 1
    BY <1>2, <2>1, <2>2, OneSlotMoves
  <2>4. /\ reads'["audited"] = reads["audited"]
        /\ reads'["recorded"] = reads["recorded"]
        /\ reads'["answered"] = reads["answered"] + 1
    BY <1>1, <1>5 DEF AnswerRead, ReadEvents
  <2> QED
    BY <1>1, <1>2, <2>3, <2>4 DEF ReadsInv, Owed
<1>6. CASE AuditUnreadable(r)
  <2>1. /\ work'[r].phase = "idle"
        /\ \A q \in Requests \ {r} : work'[q] = work[q]
    BY <1>6, <1>m DEF AuditUnreadable, Answer, Idle
  <2>2. \A e \in {"audited", "recorded", "answered"} : reads'[e] = reads[e]
    BY <1>1, <1>6 DEF AuditUnreadable, ReadEvents
  <2> QED
    BY <2>1, <2>2, ReadsKept
<1>7. CASE \/ ReceiveCreate(r) \/ AuthorizeVersion(r) \/ CheckSource(r)
           \/ RejectSource(r) \/ Put(r) \/ PutFails(r) \/ AggregateNumber(r)
           \/ Commit(r) \/ Conflict(r) \/ Rollback(r) \/ Cleanup(r)
           \/ CleanupFails(r) \/ AuthorizeRead(r) \/ Resolve(r) \/ Fetch(r)
           \/ Crash(r)
  <2>1. reads' = reads
    BY <1>7
    DEF ReceiveCreate, AuthorizeVersion, CheckSource, RejectSource, Put,
        PutFails, AggregateNumber, Commit, Conflict, Rollback, Cleanup,
        CleanupFails, AuthorizeRead, Resolve, Fetch, Crash
  <2>2. /\ work'[r].phase \notin {"audited", "recorded"}
        /\ \A q \in Requests \ {r} : work'[q] = work[q]
    <3>1. Idle.phase = "idle"
      BY DEF Idle
    <3>2. CASE \/ RejectSource(r) \/ PutFails(r) \/ Cleanup(r)
               \/ CleanupFails(r) \/ Crash(r)
      BY <1>m, <3>1, <3>2
      DEF RejectSource, PutFails, Cleanup, CleanupFails, Crash, Answer
    <3>3. CASE Conflict(r) \/ Rollback(r) \/ Commit(r)
      BY <1>m, <3>1, <3>3 DEF Conflict, Rollback, Commit, Goto, Answer, Request
    <3>4. CASE ReceiveCreate(r)
      BY <1>m, <3>4 DEF ReceiveCreate, Idle
    <3>5. CASE CheckSource(r) \/ Put(r) \/ AggregateNumber(r)
      <4> DEFINE n == Max(Numbers \cup {0}) + 1
      <4> HIDE DEF n
      <4>1. CASE CheckSource(r)
        BY <1>m, <4>1 DEF CheckSource, Request
      <4>2. CASE Put(r)
        BY <1>m, <4>2 DEF Put, Request
      <4>3. CASE AggregateNumber(r)
        <5>1. work' = [work EXCEPT ![r] = [work[r] EXCEPT
                          !.phase = "insert", !.number = n]]
          BY <4>3 DEF AggregateNumber, n
        <5> QED
          BY <1>m, <5>1 DEF Request
      <4> QED
        BY <3>5, <4>1, <4>2, <4>3
    <3>6. CASE AuthorizeVersion(r)
      BY <1>m, <3>6 DEF AuthorizeVersion, Idle
    <3>7. CASE AuthorizeRead(r)
      BY <1>m, <3>7 DEF AuthorizeRead, Idle
    <3>8. CASE Resolve(r)
      BY <1>m, <3>1, <3>8 DEF Resolve, Answer, Request
    <3>9. CASE Fetch(r)
      BY <1>m, <3>9 DEF Fetch, Request
    <3> QED
      BY <1>7, <3>2, <3>3, <3>4, <3>5, <3>6, <3>7, <3>8, <3>9
  <2> QED
    BY <2>1, <2>2, ReadsKept
<1> QED
  BY <1>3, <1>4, <1>5, <1>6, <1>7 DEF Step

\* A version, or a verdict on it, is answered only after both histories have
\* the read, for any number of reads in flight.
THEOREM ReadsReachBothHistories == Spec => []ReadsAreInBothHistories
<1>1. Init => ReadsInv
  <2> SUFFICES ASSUME Init PROVE ReadsInv
    OBVIOUS
  <2>1. At("audited") = {} /\ At("recorded") = {}
    BY DEF Init, At, Idle
  <2>2. \A e \in ReadEvents : reads[e] = 0
    BY DEF Init
  <2> QED
    BY <2>1, <2>2, FS_EmptySet DEF ReadsInv, Owed, ReadEvents
<1>2. TypeOK /\ ReadsInv /\ [Next]_vars => ReadsInv'
  <2>1. CASE UNCHANGED vars
    BY <2>1 DEF vars, ReadsInv, Owed, At
  <2> QED
    BY <2>1, ReadsStep DEF Next
<1>3. TypeOK /\ ReadsInv => ReadsAreInBothHistories
  <2> SUFFICES ASSUME TypeOK, ReadsInv PROVE ReadsAreInBothHistories
    OBVIOUS
  <2>1. /\ Cardinality(At("audited")) \in Nat
        /\ Cardinality(At("recorded")) \in Nat
    BY FS_CardinalityType DEF ReadsInv, Owed
  <2>2. /\ reads["audited"] \in Nat /\ reads["recorded"] \in Nat
        /\ reads["answered"] \in Nat
    BY DEF TypeOK, ReadEvents
  <2> QED
    BY <2>1, <2>2 DEF ReadsInv, Owed, ReadsAreInBothHistories
<1> QED
  BY <1>1, <1>2, <1>3, VersionTypes, PTL DEF Spec

-----------------------------------------------------------------------------
(* The history that readers are promised.                                    *)

LEMMA SameIds == History!Ids = RowIds
  BY DEF History!Ids, RowIds, Rows

\* A commit adds the next version, with its content.
LEMMA CommitRevises ==
  ASSUME IInv, NEW r \in Requests, Commit(r)
  PROVE  History!Revise(work[r].key)
<1> DEFINE k == work[r].key
           v == NewVersion(work[r])
<1>f. /\ work[r] \in Request /\ Slot(work[r]) /\ work[r].phase = "insert"
      /\ Len(versions) \in Nat /\ Rows = 1 .. Len(versions)
      /\ Numbers = 1 .. Len(versions) /\ RowIds \subseteq 1 .. uploads
      /\ versions \in Seq(Version)
  BY SlotFacts DEF Commit, IInv, TypeOK
<1>k. k \in objects /\ k \notin RowIds
  BY <1>f DEF Slot
<1>1. work[r].number = Len(versions) + 1
  BY <1>f DEF Commit, NumberIsFree, Slot
<1>2. /\ work[r].source \in RowIds \cup {0} /\ work[r].seen \in RowIds \cup {0}
      /\ work[r].seen = 0 <=> versions = <<>>
  <2>1. work[r].op = "create" => versions = <<>> /\ work[r].seen = 0
    BY <1>f, <1>1 DEF Slot, Uploading
  <2>2. work[r].op = "createVersion" =>
            work[r].seen \in RowIds /\ versions # <<>> /\ work[r].seen # 0
    BY <1>f DEF Slot, Uploading, RowIds, Rows
  <2> QED
    BY <1>f, <2>1, <2>2 DEF Slot
<1>3. /\ versions' = Append(versions, v) /\ current' = k
      /\ UNCHANGED objects /\ unacked' \in {unacked, unacked \cup {k}}
  BY DEF Commit
<1>4. v = [id |-> k, number |-> Len(versions) + 1,
           parent |-> work[r].seen, source |-> work[r].source]
  BY <1>1 DEF NewVersion
<1>5. RowIds' = RowIds \cup {k}
  <2>1. v.id = k
    BY <1>4
  <2> HIDE DEF v
  <2>2. /\ Rows' = Rows \cup {Len(versions) + 1}
        /\ Len(versions) + 1 \notin Rows
        /\ versions'[Len(versions) + 1] = v
        /\ \A i \in Rows : versions'[i] = versions[i]
    BY <1>f, <1>3 DEF Rows
  <2> HIDE DEF k
  <2> QED
    BY <2>1, <2>2 DEF RowIds
<1>6. (objects \cap RowIds)' = (objects \cap RowIds) \cup {k}
  BY <1>k, <1>3, <1>5
<1> HIDE DEF k, v
<1>7. \E parent, source \in RowIds \cup {0} :
        /\ parent = 0 <=> versions = <<>>
        /\ versions' = Append(versions,
                              [id |-> k, number |-> Len(versions) + 1,
                               parent |-> parent, source |-> source])
  BY <1>2, <1>3, <1>4
<1>8. History!Revise(k)
  BY <1>k, <1>3, <1>6, <1>7, SameIds DEF History!Revise
<1> QED
  BY <1>8 DEF k

\* A clean-up removes what no version has, or what nobody was told of.
LEMMA CleanupLoses ==
  ASSUME IInv, NEW r \in Requests, Cleanup(r)
  PROVE  \/ History!Lose(work[r].key)
         \/ UNCHANGED <<versions, current, objects \cap RowIds, unacked>>
<1> DEFINE k == work[r].key
<1>1. k \notin RowIds \/ k \in unacked
  BY SlotFacts DEF Cleanup, Slot
<1>2. /\ objects' = objects \ {k} /\ UNCHANGED <<versions, current, unacked>>
      /\ RowIds' = RowIds
  BY DEF Cleanup, RowIds, Rows
<1>3. CASE k \in objects /\ k \in RowIds
  BY <1>1, <1>2, <1>3 DEF History!Lose
<1>4. CASE k \notin objects \/ k \notin RowIds
  BY <1>2, <1>4
<1> QED
  BY <1>3, <1>4

\* A new object is no version's yet.
LEMMA PutIsUnseen ==
  ASSUME IInv, NEW r \in Requests, Put(r) \/ PutFails(r)
  PROVE  UNCHANGED <<versions, current, objects \cap RowIds, unacked>>
<1>1. /\ UNCHANGED <<versions, current, unacked>> /\ RowIds' = RowIds
      /\ objects' = objects \/ objects' = objects \cup {uploads + 1}
  BY DEF Put, PutFails, RowIds, Rows
<1>2. uploads + 1 \notin RowIds
  BY DEF IInv, TypeOK, KeysAreUsed
<1> QED
  BY <1>1, <1>2

\* For any number of requests, uploads and failures: a version is never
\* changed, withdrawn, or left without its content, but for the content of one
\* whose commit was not acknowledged, and such content never comes back.
THEOREM VersionsImplementHistory == Spec => ImplementsHistory
<1>1. Init => History!Init
  BY DEF Init, History!Init
<1>2. IInv /\ [Next]_vars => [History!Next]_(History!vars)
  <2> SUFFICES ASSUME IInv, [Next]_vars
               PROVE  \/ \E id \in Keys : History!Revise(id) \/ History!Lose(id)
                      \/ UNCHANGED <<versions, current, objects \cap RowIds, unacked>>
    BY DEF History!Next, History!vars
  <2>1. CASE UNCHANGED vars
    BY <2>1 DEF vars, RowIds, Rows
  <2>2. ASSUME NEW r \in Requests, Step(r)
        PROVE  \/ \E id \in Keys : History!Revise(id) \/ History!Lose(id)
               \/ UNCHANGED <<versions, current, objects \cap RowIds, unacked>>
    <3>1. CASE Commit(r)
      <4>1. work[r].key \in Keys
        BY <3>1, SlotFacts DEF Commit, Slot, Keeping, Keys, IInv, TypeOK
      <4> QED
        BY <3>1, <4>1, CommitRevises
    <3>2. CASE Cleanup(r)
      <4>1. work[r].key \in Keys
        BY <3>2, SlotFacts DEF Cleanup, Slot, Keeping, Keys, IInv, TypeOK
      <4> QED
        BY <3>2, <4>1, CleanupLoses
    <3>3. CASE Put(r) \/ PutFails(r)
      BY <3>3, PutIsUnseen
    <3>4. CASE UNCHANGED <<versions, current, objects, unacked>>
      BY <3>4 DEF RowIds, Rows
    <3> QED
      BY <2>2, <3>1, <3>2, <3>3, <3>4
      DEF Step, ReceiveCreate, AuthorizeVersion, CheckSource, RejectSource,
          AggregateNumber, Conflict, Rollback, CleanupFails, AuthorizeRead,
          Resolve, Fetch, AuditUnreadable, AuditRead, RecordRead, AnswerRead,
          Crash
  <2> QED
    BY <2>1, <2>2 DEF Next
<1> QED
  BY InductiveInvariant, <1>1, <1>2, PTL DEF Spec, ImplementsHistory, History!Spec

=============================================================================
