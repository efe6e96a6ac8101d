----------------------- MODULE RecordLifecycleProofs -----------------------
(* Proofs about RecordLifecycle for every set of requests and every bound. *)
(* The argument: a client that sends only revisions it was given cannot be *)
(* ahead of the document, so a request whose expected revision still is    *)
(* the document's revision has missed no commit since it was sent, and     *)
(* what it read before its transaction is still true inside it.            *)
(*                                                                         *)
(* Both sides of the service follow: it implements RecordServer, and the   *)
(* pages of WebClient in front of that server are such clients.            *)
EXTENDS RecordLifecycle, WebClient, FiniteSetTheorems, TLAPS

\* A request in flight does not expect a revision the document has not
\* reached.
NotAhead(m) == m.expected <= doc.revision

\* A request whose revision is still current read the status that is still
\* current, and asks for a transition the table allows from it.
ReadIsCurrent(m) ==
    /\ m.phase = "findHold" => m.op = "releaseHold"
    /\ m.phase = "checkHold" => m.op = "changeStatus" /\ m.to = "DISPOSED"
    /\ /\ m.op = "changeStatus"
       /\ m.phase \in {"checkHold", "transaction"}
       /\ m.expected = doc.revision
       => /\ m.current = doc.status
          /\ m.to \in transitions[doc.status]

\* A disposition that found no hold, and whose revision is still current,
\* still has none.
NoHoldIsCurrent(m) ==
    /\ m.op = "changeStatus"
    /\ m.phase = "transaction"
    /\ m.to = "DISPOSED"
    /\ m.expected = doc.revision
    => ~Held

Slot(m) == NotAhead(m) /\ ReadIsCurrent(m) /\ NoHoldIsCurrent(m)

\* The partial unique index of legal_holds.
OneActiveHold ==
    \A g, h \in DOMAIN holds :
        holds[g].status = "ACTIVE" /\ holds[h].status = "ACTIVE" => g = h

IInv == TypeOK /\ (\A r \in Requests : Slot(req[r])) /\ OneActiveHold

-----------------------------------------------------------------------------

\* The table of transitions stays within the statuses.
LEMMA TransitionsType == \A s \in Statuses : transitions[s] \subseteq Statuses
  BY DEF Statuses, transitions

\* A free slot's record is a request.
LEMMA IdleType == Idle \in Request
  BY DEF Idle, Request, Phases, Operations, Statuses

LEMMA InitTypeOK == Init => TypeOK
  BY IdleType DEF Init, TypeOK

\* A client's message keeps the types.
LEMMA SendTypeOK ==
  ASSUME TypeOK, NEW r \in Requests,
         SendPlaceHold(r) \/ SendReleaseHold(r) \/ SendChangeStatus(r)
  PROVE  TypeOK'
<1>1. Sendable \subseteq Nat
  BY DEF Sendable, TypeOK
<1>2. ASSUME NEW m \in Request, Send(r, m) PROVE TypeOK'
  BY <1>2 DEF Send, TypeOK
<1>3. CASE SendPlaceHold(r)
  <2>1. PICK e \in Sendable :
          Send(r, [Idle EXCEPT !.phase = "sent", !.op = "placeHold",
                               !.expected = e])
    BY <1>3 DEF SendPlaceHold
  <2>2. [Idle EXCEPT !.phase = "sent", !.op = "placeHold", !.expected = e]
          \in Request
    BY <1>1, IdleType DEF Request, Phases, Operations
  <2> QED
    BY <1>2, <2>1, <2>2
<1>4. CASE SendReleaseHold(r)
  <2>1. PICK e \in Sendable, h \in DOMAIN holds :
          \E hr \in 0 .. holds[h].revision :
            Send(r, [Idle EXCEPT !.phase = "sent", !.op = "releaseHold",
                                 !.expected = e, !.hold = h,
                                 !.holdRevision = hr])
    BY <1>4 DEF SendReleaseHold
  <2>2. h \in Nat /\ holds[h] \in Hold
    BY DEF TypeOK
  <2>3. PICK hr \in 0 .. holds[h].revision :
            Send(r, [Idle EXCEPT !.phase = "sent", !.op = "releaseHold",
                                 !.expected = e, !.hold = h,
                                 !.holdRevision = hr])
    BY <2>1
  <2>4. hr \in Nat
    BY <2>2 DEF Hold
  <2>5. [Idle EXCEPT !.phase = "sent", !.op = "releaseHold", !.expected = e,
                     !.hold = h, !.holdRevision = hr] \in Request
    BY <1>1, <2>2, <2>4, IdleType DEF Request, Phases, Operations
  <2> QED
    BY <1>2, <2>3, <2>5
<1>5. CASE SendChangeStatus(r)
  <2>1. PICK e \in Sendable, s \in Statuses :
          Send(r, [Idle EXCEPT !.phase = "sent", !.op = "changeStatus",
                               !.expected = e, !.to = s])
    BY <1>5 DEF SendChangeStatus
  <2>2. [Idle EXCEPT !.phase = "sent", !.op = "changeStatus",
                     !.expected = e, !.to = s] \in Request
    BY <1>1, IdleType DEF Request, Phases, Operations
  <2> QED
    BY <1>2, <2>1, <2>2
<1> QED
  BY <1>3, <1>4, <1>5

\* So does a step of the service.
LEMMA StepTypeOK ==
  ASSUME TypeOK, NEW r \in Requests, Step(r)
  PROVE  TypeOK'
<1>a. req[r] \in Request
  BY DEF TypeOK
<1>b. ASSUME Answer(r) PROVE req' \in [Requests -> Request]
  BY <1>b, IdleType DEF Answer, TypeOK
<1>c. ASSUME NEW p \in Phases, Goto(r, p) PROVE req' \in [Requests -> Request]
  BY <1>c, <1>a DEF Goto, Request, TypeOK
<1>d. ASSUME NEW a \in AuditActions, audit' = [audit EXCEPT ![a] = @ + 1]
      PROVE  audit' \in [AuditActions -> Nat]
  BY <1>d DEF TypeOK
<1>e. ASSUME NEW e \in CustodyEvent, custody' = Append(custody, e)
      PROVE  custody' \in Seq(CustodyEvent)
  BY <1>e DEF TypeOK
<1>f. ASSUME NEW m \in Request, req' = [req EXCEPT ![r] = m]
      PROVE  req' \in [Requests -> Request]
  BY <1>f DEF TypeOK
<1>1. CASE SendPlaceHold(r) \/ SendReleaseHold(r) \/ SendChangeStatus(r)
  BY <1>1, SendTypeOK
<1>2. CASE Deny(r)
  BY <1>2, <1>b, <1>d DEF Deny, AuditActions, TypeOK
<1>3. CASE AuthorizeHold(r)
  BY <1>3, <1>c DEF AuthorizeHold, Phases, TypeOK
<1>4. CASE AuthorizeStatus(r)
  <2>1. doc.status \in Statuses
    BY DEF TypeOK
  <2>2. ASSUME NEW p \in {"checkHold", "transaction"}
        PROVE  [req[r] EXCEPT !.current = doc.status, !.phase = p] \in Request
    BY <1>a, <2>1 DEF Request, Phases
  <2>3. (IF req[r].to = "DISPOSED" THEN "checkHold" ELSE "transaction")
          \in {"checkHold", "transaction"}
    OBVIOUS
  <2>4. req' \in [Requests -> Request]
    BY <1>4, <1>b, <1>f, <2>2, <2>3 DEF AuthorizeStatus
  <2> QED
    BY <1>4, <2>4 DEF AuthorizeStatus, TypeOK
<1>5. CASE FindHold(r)
  BY <1>5, <1>b, <1>c DEF FindHold, Phases, TypeOK
<1>6. CASE CheckHold(r)
  <2>1. ASSUME NEW h \in DOMAIN holds
        PROVE  [req[r] EXCEPT !.phase = "blocked", !.hold = h] \in Request
    <3>1. h \in Nat
      BY DEF TypeOK
    <3> QED
      BY <1>a, <3>1 DEF Request, Phases
  <2>2. req' \in [Requests -> Request]
    BY <1>6, <1>c, <1>f, <2>1 DEF CheckHold, Phases
  <2> QED
    BY <1>6, <2>2 DEF CheckHold, TypeOK
<1>7. CASE BlockInCustody(r)
  <2>1. [type |-> "DISPOSITION_BLOCKED", hold |-> req[r].hold] \in CustodyEvent
    BY <1>a DEF CustodyEvent, Request
  <2> QED
    BY <1>7, <1>c, <1>e, <2>1 DEF BlockInCustody, Phases, TypeOK
<1>8. CASE BlockInAudit(r)
  BY <1>8, <1>b, <1>d DEF BlockInAudit, AuditActions, TypeOK
<1>9. CASE CommitPlaceHold(r)
  <2>1. [type |-> "HOLD_PLACED", hold |-> Len(holds) + 1] \in CustodyEvent
    BY DEF CustodyEvent, TypeOK
  <2>2. [status |-> "ACTIVE", revision |-> 0] \in Hold
    BY DEF Hold
  <2>3. holds' \in Seq(Hold)
    BY <1>9, <2>2 DEF CommitPlaceHold, TypeOK
  <2>4. doc' \in [status : Statuses, revision : Nat]
    <3>1. doc' = [doc EXCEPT !.revision = @ + 1]
      BY <1>9 DEF CommitPlaceHold
    <3> QED
      BY <3>1 DEF TypeOK
  <2>5. custody' \in Seq(CustodyEvent)
    BY <1>9, <1>e, <2>1 DEF CommitPlaceHold
  <2>6. req' \in [Requests -> Request] /\ audit' \in [AuditActions -> Nat]
    BY <1>9, <1>b, <1>d DEF CommitPlaceHold, AuditActions
  <2> QED
    BY <2>3, <2>4, <2>5, <2>6 DEF TypeOK
<1>10. CASE CommitReleaseHold(r)
  <2>1. [type |-> "HOLD_RELEASED", hold |-> req[r].hold] \in CustodyEvent
    BY <1>a DEF CustodyEvent, Request
  <2>2. req[r].hold \in DOMAIN holds /\ holds[req[r].hold] \in Hold
    BY <1>10 DEF CommitReleaseHold, ClaimHold, TypeOK
  <2>3. [status |-> "RELEASED", revision |-> holds[req[r].hold].revision + 1]
          \in Hold
    BY <2>2 DEF Hold
  <2>4. holds' \in Seq(Hold)
    BY <1>10, <2>2, <2>3 DEF CommitReleaseHold, TypeOK
  <2>5. doc' \in [status : Statuses, revision : Nat]
    BY <1>10 DEF CommitReleaseHold, TypeOK
  <2>6. custody' \in Seq(CustodyEvent)
    BY <1>10, <1>e, <2>1 DEF CommitReleaseHold
  <2>7. req' \in [Requests -> Request] /\ audit' \in [AuditActions -> Nat]
    BY <1>10, <1>b, <1>d DEF CommitReleaseHold, AuditActions
  <2> QED
    BY <2>4, <2>5, <2>6, <2>7 DEF TypeOK
<1>11. CASE CommitStatus(r)
  <2>1. [type |-> "RECORD_STATUS_CHANGED", from |-> req[r].current,
         to |-> req[r].to] \in CustodyEvent
    BY <1>a DEF CustodyEvent, Request
  <2>2. doc' \in [status : Statuses, revision : Nat]
    BY <1>11, <1>a DEF CommitStatus, Request, TypeOK
  <2>3. custody' \in Seq(CustodyEvent)
    BY <1>11, <1>e, <2>1 DEF CommitStatus
  <2>4. req' \in [Requests -> Request] /\ audit' \in [AuditActions -> Nat]
    BY <1>11, <1>b, <1>d DEF CommitStatus, AuditActions
  <2> QED
    BY <1>11, <2>2, <2>3, <2>4 DEF CommitStatus, TypeOK
<1>12. CASE Conflict(r)
  BY <1>12, <1>b DEF Conflict, TypeOK
<1>13. CASE Abandon(r)
  BY <1>13, <1>b DEF Abandon, TypeOK
<1> QED
  BY <1>1, <1>2, <1>3, <1>4, <1>5, <1>6, <1>7, <1>8, <1>9, <1>10, <1>11,
     <1>12, <1>13 DEF Step

\* The rows, the slots and the trails always have their types.
THEOREM RecordTypes == Spec => []TypeOK
<1>1. TypeOK /\ [Next]_vars => TypeOK'
  BY StepTypeOK DEF Next, vars, TypeOK
<1> QED
  BY InitTypeOK, <1>1, PTL DEF Spec

-----------------------------------------------------------------------------
(* The inductive invariant. *)

LEMMA InitIInv == Init => IInv
  BY InitTypeOK
  DEF Init, IInv, Slot, NotAhead, ReadIsCurrent, NoHoldIsCurrent, OneActiveHold,
      Idle

\* A step that leaves the rows alone and gives slot r a sound message keeps
\* every slot sound.
LEMMA QuietStep ==
  ASSUME IInv, NEW r \in Requests, UNCHANGED <<doc, holds>>,
         NEW m, Slot(m), req' = [req EXCEPT ![r] = m]
  PROVE  (\A q \in Requests : Slot(req[q])') /\ OneActiveHold'
<1>1. Held' <=> Held
  BY DEF Held
<1>2. ASSUME NEW q \in Requests PROVE Slot(req[q])'
  <2>1. req'[q] = IF q = r THEN m ELSE req[q]
    BY DEF IInv, TypeOK
  <2> QED
    BY <1>1, <2>1
    DEF IInv, Slot, NotAhead, ReadIsCurrent, NoHoldIsCurrent
<1> QED
  BY <1>2 DEF IInv, OneActiveHold

\* A slot that becomes free is sound.
LEMMA AnswerIsSound == ASSUME IInv PROVE Slot(Idle)
  BY DEF Slot, NotAhead, ReadIsCurrent, NoHoldIsCurrent, Idle, IInv, TypeOK

\* A commit answers its request and leaves every other one behind: what
\* they expect is less than the new revision.
LEMMA CommitStep ==
  ASSUME IInv, NEW r \in Requests, Answer(r),
         doc'.revision = doc.revision + 1
  PROVE  \A q \in Requests : Slot(req[q])'
<1> SUFFICES ASSUME NEW q \in Requests PROVE Slot(req[q])'
  OBVIOUS
<1>1. CASE q = r
  <2>1. req'[q] = Idle
    BY <1>1 DEF Answer, IInv, TypeOK
  <2> QED
    BY <2>1
    DEF Slot, NotAhead, ReadIsCurrent, NoHoldIsCurrent, Idle, IInv, TypeOK
<1>2. CASE q # r
  <2>1. req'[q] = req[q]
    BY <1>2 DEF Answer, IInv, TypeOK
  <2>2. req[q].expected \in Nat /\ doc.revision \in Nat
    BY DEF IInv, TypeOK, Request
  <2>3. req[q].expected # doc'.revision
    BY <2>2 DEF IInv, Slot, NotAhead
  <2> QED
    BY <2>1, <2>2, <2>3
    DEF IInv, Slot, NotAhead, ReadIsCurrent, NoHoldIsCurrent
<1> QED
  BY <1>1, <1>2

\* A client that predicts nothing sends a sound message.
LEMMA SendIsSound ==
  ASSUME ~ClientPredicts, IInv, NEW r \in Requests,
         SendPlaceHold(r) \/ SendReleaseHold(r) \/ SendChangeStatus(r)
  PROVE  (\A q \in Requests : Slot(req[q])') /\ OneActiveHold'
<1>1. \A e \in Sendable : e <= doc.revision
  BY DEF Sendable, IInv, TypeOK
<1>2. ASSUME NEW m, m.phase = "sent", m.expected \in Sendable, Send(r, m)
      PROVE  (\A q \in Requests : Slot(req[q])') /\ OneActiveHold'
  <2>1. Slot(m)
    BY <1>1, <1>2 DEF Slot, NotAhead, ReadIsCurrent, NoHoldIsCurrent
  <2> QED
    BY <1>2, <2>1, QuietStep DEF Send
<1>3. CASE SendPlaceHold(r)
  BY <1>2, <1>3 DEF SendPlaceHold, Idle
<1>4. CASE SendReleaseHold(r)
  BY <1>2, <1>4 DEF SendReleaseHold, Idle
<1>5. CASE SendChangeStatus(r)
  BY <1>2, <1>5 DEF SendChangeStatus, Idle
<1> QED
  BY <1>3, <1>4, <1>5

\* Every step of the service keeps the slots sound and one hold active.
LEMMA StepIsSound ==
  ASSUME ~ClientPredicts, IInv, NEW r \in Requests, Step(r)
  PROVE  (\A q \in Requests : Slot(req[q])') /\ OneActiveHold'
<1> DEFINE Sound == (\A q \in Requests : Slot(req[q])') /\ OneActiveHold'
<1>a. ASSUME Answer(r), UNCHANGED <<doc, holds>> PROVE Sound
  BY <1>a, AnswerIsSound, QuietStep DEF Answer
<1>b. req[r] \in Request /\ Slot(req[r])
  BY DEF IInv, TypeOK
<1>c. ASSUME NEW p, Goto(r, p), UNCHANGED <<doc, holds>>,
             Slot([req[r] EXCEPT !.phase = p])
      PROVE  Sound
  BY <1>c, QuietStep DEF Goto
<1>1. CASE SendPlaceHold(r) \/ SendReleaseHold(r) \/ SendChangeStatus(r)
  BY <1>1, SendIsSound
<1>2. CASE Deny(r)
  BY <1>2, <1>a DEF Deny
<1>3. CASE AuthorizeHold(r)
  <2>1. PICK p \in {"transaction", "findHold"} :
          Goto(r, p) /\ (p = "findHold" => req[r].op = "releaseHold")
    BY <1>3 DEF AuthorizeHold
  <2>2. req[r].op # "changeStatus"
    BY <1>3 DEF AuthorizeHold
  <2>3. Slot([req[r] EXCEPT !.phase = p])
    BY <1>b, <2>1, <2>2
    DEF Slot, NotAhead, ReadIsCurrent, NoHoldIsCurrent, Request
  <2> QED
    BY <1>3, <1>c, <2>1, <2>3 DEF AuthorizeHold
<1>4. CASE AuthorizeStatus(r)
  <2>1. CASE req[r].to \in transitions[doc.status]
    <3> DEFINE p == IF req[r].to = "DISPOSED" THEN "checkHold"
                                              ELSE "transaction"
               m == [req[r] EXCEPT !.current = doc.status, !.phase = p]
    <3>1. req' = [req EXCEPT ![r] = m]
      BY <1>4, <2>1 DEF AuthorizeStatus
    <3>2. Slot(m)
      BY <1>4, <1>b, <2>1
      DEF AuthorizeStatus, Slot, NotAhead, ReadIsCurrent, NoHoldIsCurrent,
          Request
    <3> HIDE DEF m
    <3> QED
      BY <1>4, <3>1, <3>2, QuietStep DEF AuthorizeStatus
  <2>2. CASE req[r].to \notin transitions[doc.status]
    BY <1>4, <1>a, <2>2 DEF AuthorizeStatus
  <2> QED
    BY <2>1, <2>2
<1>5. CASE FindHold(r)
  <2>1. Slot([req[r] EXCEPT !.phase = "transaction"])
    BY <1>5, <1>b
    DEF FindHold, Slot, NotAhead, ReadIsCurrent, NoHoldIsCurrent, Request
  <2> QED
    BY <1>5, <1>a, <1>c, <2>1 DEF FindHold
<1>6. CASE CheckHold(r)
  <2>1. CASE Held
    <3>1. PICK h \in DOMAIN holds :
            req' = [req EXCEPT ![r] = [@ EXCEPT !.phase = "blocked",
                                                !.hold = h]]
      BY <1>6, <2>1 DEF CheckHold
    <3> DEFINE m == [req[r] EXCEPT !.phase = "blocked", !.hold = h]
    <3>2. Slot(m)
      BY <1>b DEF Slot, NotAhead, ReadIsCurrent, NoHoldIsCurrent, Request
    <3>3. req' = [req EXCEPT ![r] = m]
      BY <3>1
    <3> HIDE DEF m
    <3> QED
      BY <1>6, <3>2, <3>3, QuietStep DEF CheckHold
  <2>2. CASE ~Held
    <3>1. Slot([req[r] EXCEPT !.phase = "transaction"])
      BY <1>6, <1>b, <2>2
      DEF CheckHold, Slot, NotAhead, ReadIsCurrent, NoHoldIsCurrent, Request
    <3> QED
      BY <1>6, <1>c, <2>2, <3>1 DEF CheckHold
  <2> QED
    BY <2>1, <2>2
<1>7. CASE BlockInCustody(r)
  <2>1. Slot([req[r] EXCEPT !.phase = "blockedInCustody"])
    BY <1>b DEF Slot, NotAhead, ReadIsCurrent, NoHoldIsCurrent, Request
  <2> QED
    BY <1>7, <1>c, <2>1 DEF BlockInCustody
<1>8. CASE BlockInAudit(r)
  BY <1>8, <1>a DEF BlockInAudit
<1>9. CASE CommitPlaceHold(r)
  <2>1. doc'.revision = doc.revision + 1
    BY <1>9 DEF CommitPlaceHold, IInv, TypeOK
  <2>2. holds \in Seq(Hold) /\ ~Held
        /\ holds' = Append(holds, [status |-> "ACTIVE", revision |-> 0])
    BY <1>9 DEF CommitPlaceHold, IInv, TypeOK
  <2>3. OneActiveHold'
    BY <2>2 DEF OneActiveHold, Held
  <2> QED
    BY <1>9, <2>1, <2>3, CommitStep DEF CommitPlaceHold
<1>10. CASE CommitReleaseHold(r)
  <2>1. doc'.revision = doc.revision + 1
    BY <1>10 DEF CommitReleaseHold, IInv, TypeOK
  <2>2. DOMAIN holds' = DOMAIN holds
        /\ \A h \in DOMAIN holds :
             holds'[h].status = "ACTIVE" => holds[h].status = "ACTIVE"
    BY <1>10 DEF CommitReleaseHold, IInv, TypeOK
  <2>3. OneActiveHold'
    BY <2>2 DEF OneActiveHold, IInv
  <2> QED
    BY <1>10, <2>1, <2>3, CommitStep DEF CommitReleaseHold
<1>11. CASE CommitStatus(r)
  <2>1. doc'.revision = doc.revision + 1
    BY <1>11 DEF CommitStatus
  <2>2. OneActiveHold'
    BY <1>11 DEF CommitStatus, OneActiveHold, IInv
  <2> QED
    BY <1>11, <2>1, <2>2, CommitStep DEF CommitStatus
<1>12. CASE Conflict(r)
  BY <1>12, <1>a DEF Conflict
<1>13. CASE Abandon(r)
  BY <1>13, <1>a DEF Abandon
<1> QED
  BY <1>1, <1>2, <1>3, <1>4, <1>5, <1>6, <1>7, <1>8, <1>9, <1>10, <1>11,
     <1>12, <1>13 DEF Step

\* The invariant holds in every state, whatever the number of requests.
LEMMA Invariance == ASSUME ~ClientPredicts PROVE Spec => []IInv
<1>1. IInv /\ [Next]_vars => IInv'
  <2> SUFFICES ASSUME IInv, [Next]_vars PROVE IInv'
    OBVIOUS
  <2>1. CASE Next
    BY <2>1, StepTypeOK, StepIsSound DEF Next, IInv
  <2>2. CASE UNCHANGED vars
    BY <2>2
    DEF vars, IInv, TypeOK, Slot, NotAhead, ReadIsCurrent, NoHoldIsCurrent,
        OneActiveHold, Held
  <2> QED
    BY <2>1, <2>2
<1> QED
  BY InitIInv, <1>1, PTL DEF Spec

-----------------------------------------------------------------------------
(* The theorems. *)

\* Which steps change the row, its status and its holds.
LEMMA CommitsOnly ==
  ASSUME IInv, [Next]_vars
  PROVE  \/ UNCHANGED <<doc, holds>>
         \/ \E r \in Requests :
               CommitPlaceHold(r) \/ CommitReleaseHold(r) \/ CommitStatus(r)
  BY DEF Next, Step, vars, SendPlaceHold, SendReleaseHold, SendChangeStatus,
         Send, Deny, AuthorizeHold, AuthorizeStatus, FindHold, CheckHold,
         BlockInCustody, BlockInAudit, Conflict, Abandon

\* A status is committed along the table, and DISPOSED only when no hold is
\* active.
LEMMA CommitStatusIsAllowed ==
  ASSUME IInv, NEW r \in Requests, CommitStatus(r)
  PROVE  /\ doc'.status \in transitions[doc.status]
         /\ doc'.status = "DISPOSED" => ~Held
         /\ UNCHANGED holds
  BY DEF IInv, Slot, ReadIsCurrent, NoHoldIsCurrent, CommitStatus, ClaimDocument

\* No document is disposed of under an active legal hold, for any number of
\* concurrent requests, as long as no client sends a revision that the
\* service has not produced yet.
THEOREM HeldIsNeverDisposed ==
  ASSUME ~ClientPredicts PROVE Spec => HeldNeverDisposed
<1>1. IInv /\ [Next]_vars =>
        [doc.status # "DISPOSED" /\ doc'.status = "DISPOSED" => ~Held]_vars
  <2> SUFFICES ASSUME IInv, [Next]_vars,
                      doc.status # "DISPOSED", doc'.status = "DISPOSED"
               PROVE  ~Held
    OBVIOUS
  <2>1. PICK r \in Requests :
          CommitPlaceHold(r) \/ CommitReleaseHold(r) \/ CommitStatus(r)
    BY CommitsOnly
  <2>2. CASE CommitPlaceHold(r)
    BY <2>2 DEF CommitPlaceHold
  <2>3. CASE CommitReleaseHold(r)
    <3>1. doc'.status = doc.status
      BY <2>3 DEF CommitReleaseHold, IInv, TypeOK
    <3> QED
      BY <3>1
  <2>4. CASE CommitStatus(r)
    BY <2>4, CommitStatusIsAllowed
  <2> QED
    BY <2>1, <2>2, <2>3, <2>4
<1> QED
  BY Invariance, <1>1, PTL DEF Spec, HeldNeverDisposed

\* Both modules speak of the same statuses and the same table.
LEMMA SameTable == Policy!Statuses = Statuses /\ Policy!transitions = transitions
  BY DEF Policy!Statuses, Statuses, Policy!transitions, transitions

\* The requests implement the promise of RecordPolicy: seen from the row,
\* every step is a lawful change of status, a placement or a release of the
\* one hold, or nothing.
THEOREM RecordsImplementPolicy ==
  ASSUME ~ClientPredicts PROVE Spec => ImplementsPolicy
<1>1. Init => Policy!Init
  <2> SUFFICES ASSUME Init PROVE Policy!Init
    OBVIOUS
  <2>1. Held = FALSE
    BY DEF Init, Held
  <2>2. doc.status \in Statuses
    BY DEF Init
  <2> QED
    BY <2>1, <2>2, SameTable, Zenon DEF Policy!Init
<1>2. IInv /\ [Next]_vars => [Policy!Next]_(Policy!vars)
  <2> SUFFICES ASSUME IInv, [Next]_vars PROVE [Policy!Next]_(Policy!vars)
    OBVIOUS
  <2>1. CASE UNCHANGED <<doc, holds>>
    BY <2>1 DEF Policy!vars, Held
  <2>2. ASSUME NEW r \in Requests, CommitPlaceHold(r) PROVE Policy!PlaceHold
    <3>1. doc'.status = doc.status
      BY <2>2 DEF CommitPlaceHold, IInv, TypeOK
    <3>2. ~Held /\ Held'
      <4>1. Len(holds) + 1 \in DOMAIN holds'
            /\ holds'[Len(holds) + 1].status = "ACTIVE"
        BY <2>2 DEF CommitPlaceHold, IInv, TypeOK
      <4> QED
        BY <2>2, <4>1 DEF CommitPlaceHold, Held
    <3> QED
      BY <3>1, <3>2 DEF Policy!PlaceHold
  <2>3. ASSUME NEW r \in Requests, CommitReleaseHold(r)
        PROVE  Policy!ReleaseHold
    <3>1. doc'.status = doc.status
      BY <2>3 DEF CommitReleaseHold, IInv, TypeOK
    <3>2. req[r].hold \in DOMAIN holds /\ holds[req[r].hold].status = "ACTIVE"
      BY <2>3 DEF CommitReleaseHold, ClaimHold
    <3>3. DOMAIN holds' = DOMAIN holds
          /\ holds'[req[r].hold].status = "RELEASED"
          /\ \A h \in DOMAIN holds : h # req[r].hold => holds'[h] = holds[h]
      BY <2>3, <3>2 DEF CommitReleaseHold, IInv, TypeOK
    <3>4. Held /\ ~Held'
      BY <3>2, <3>3 DEF Held, IInv, OneActiveHold
    <3> QED
      BY <3>1, <3>4 DEF Policy!ReleaseHold
  <2>4. ASSUME NEW r \in Requests, CommitStatus(r)
        PROVE  Policy!ChangeStatus(doc'.status) /\ doc'.status \in Statuses
    <3>1. doc.status \in Statuses
      BY DEF IInv, TypeOK
    <3>2. Held' = Held
      BY <2>4, CommitStatusIsAllowed DEF Held
    <3>3. doc'.status \in transitions[doc.status]
          /\ (doc'.status = "DISPOSED" => ~Held)
      BY <2>4, CommitStatusIsAllowed
    <3>4. doc'.status \in Statuses
      BY <3>1, <3>3, TransitionsType
    <3> QED
      BY <3>2, <3>3, <3>4, SameTable, Zenon DEF Policy!ChangeStatus
  <2> QED
    BY <2>1, <2>2, <2>3, <2>4, CommitsOnly, SameTable
    DEF Policy!Next
<1> QED
  BY Invariance, <1>1, <1>2, PTL DEF Spec, ImplementsPolicy, Policy!Spec

-----------------------------------------------------------------------------
(* The custody trail, read back.  An event is appended to it by four steps;  *)
(* each is compared with the last event of its kind before it.               *)

\* The steps that write to custody.
LEMMA TrailGrows ==
  ASSUME TypeOK, [Next]_vars
  PROVE  \/ /\ UNCHANGED <<doc, holds, custody>>
            /\ \A a \in {"LEGAL_HOLD_PLACED", "LEGAL_HOLD_RELEASED",
                         "RECORD_STATUS_CHANGED"} : audit'[a] = audit[a]
         \/ \E r \in Requests :
               \/ BlockInCustody(r) \/ CommitPlaceHold(r)
               \/ CommitReleaseHold(r) \/ CommitStatus(r)
<1> SUFFICES ASSUME NEW r \in Requests, Step(r)
             PROVE  \/ /\ UNCHANGED <<doc, holds, custody>>
                       /\ \A a \in {"LEGAL_HOLD_PLACED", "LEGAL_HOLD_RELEASED",
                                    "RECORD_STATUS_CHANGED"} :
                             audit'[a] = audit[a]
                    \/ BlockInCustody(r) \/ CommitPlaceHold(r)
                    \/ CommitReleaseHold(r) \/ CommitStatus(r)
  BY DEF Next, vars
<1>1. CASE SendPlaceHold(r) \/ SendReleaseHold(r) \/ SendChangeStatus(r)
  BY <1>1 DEF SendPlaceHold, SendReleaseHold, SendChangeStatus, Send
<1>2. CASE Deny(r) \/ BlockInAudit(r)
  <2>1. PICK a \in {"ACCESS_DENIED", "RECORD_DISPOSITION_BLOCKED"} :
          audit' = [audit EXCEPT ![a] = @ + 1]
    BY <1>2 DEF Deny, BlockInAudit
  <2>2. \A b \in AuditActions : b # a => audit'[b] = audit[b]
    BY <2>1 DEF TypeOK
  <2> QED
    BY <1>2, <2>2 DEF Deny, BlockInAudit, AuditActions
<1>3. CASE \/ AuthorizeHold(r) \/ AuthorizeStatus(r) \/ FindHold(r)
           \/ CheckHold(r) \/ Conflict(r) \/ Abandon(r)
  BY <1>3 DEF AuthorizeHold, AuthorizeStatus, FindHold, CheckHold, Conflict,
              Abandon
<1> QED
  BY <1>1, <1>2, <1>3 DEF Step

\* What appending does to the places of a trail.
LEMMA AppendedPlace ==
  ASSUME TypeOK, NEW e, custody' = Append(custody, e)
  PROVE  /\ Len(custody) + 1 \in DOMAIN custody'
         /\ DOMAIN custody' = DOMAIN custody \cup {Len(custody) + 1}
         /\ custody'[Len(custody) + 1] = e
         /\ \A i \in DOMAIN custody :
               /\ i \in Nat /\ i < Len(custody) + 1
               /\ custody'[i] = custody[i]
  BY DEF TypeOK

\* A step that writes no status event and no status tells the same status.
LEMMA SameStatusTold ==
  ASSUME TypeOK, CustodyTellsTheStatus, doc'.status = doc.status,
         \/ UNCHANGED custody
         \/ \E e : /\ custody' = Append(custody, e)
                   /\ e.type # "RECORD_STATUS_CHANGED"
  PROVE  CustodyTellsTheStatus'
<1>1. CASE UNCHANGED custody
  BY <1>1 DEF CustodyTellsTheStatus, StatusEvents, Follows, LastOf
<1>2. ASSUME NEW e, custody' = Append(custody, e),
             e.type # "RECORD_STATUS_CHANGED"
      PROVE  CustodyTellsTheStatus'
  <2>1. StatusEvents' = StatusEvents
    BY <1>2, AppendedPlace DEF StatusEvents
  <2>2. \A i \in StatusEvents : custody'[i] = custody[i]
    BY <1>2, AppendedPlace DEF StatusEvents
  <2> QED
    BY <2>1, <2>2 DEF CustodyTellsTheStatus, Follows, LastOf
<1> QED
  BY <1>1, <1>2

\* A status event that starts from the document's status and ends at its new
\* one continues the trail.
LEMMA StatusToldOn ==
  ASSUME TypeOK, CustodyTellsTheStatus, NEW e,
         custody' = Append(custody, e), e.type = "RECORD_STATUS_CHANGED",
         e.from = doc.status, e.to = doc'.status
  PROVE  CustodyTellsTheStatus'
<1> DEFINE n == Len(custody) + 1
<1>1. StatusEvents' = StatusEvents \cup {n}
  BY AppendedPlace DEF StatusEvents
<1>2. /\ custody'[n] = e
      /\ \A i \in StatusEvents :
            i \in Nat /\ i < n /\ custody'[i] = custody[i]
  BY AppendedPlace DEF StatusEvents
<1>n. n \in Nat
  BY DEF TypeOK
<1> HIDE DEF n
<1>3. ASSUME NEW i \in StatusEvents', NEW j \in StatusEvents',
             Follows(StatusEvents', i, j)
      PROVE  custody'[i].to = custody'[j].from
  <2>1. i \in StatusEvents
    BY <1>1, <1>2, <1>3, <1>n DEF Follows
  <2>2. CASE j \in StatusEvents
    BY <1>1, <1>2, <1>3, <2>1, <2>2 DEF Follows, CustodyTellsTheStatus
  <2>3. CASE j = n
    <3>1. LastOf(StatusEvents, i)
      BY <1>1, <1>2, <1>3, <1>n, <2>1, <2>3 DEF Follows, LastOf
    <3> QED
      BY <1>2, <2>1, <2>3, <3>1 DEF CustodyTellsTheStatus
  <2> QED
    BY <1>1, <2>2, <2>3
<1>4. ASSUME NEW i \in StatusEvents', LastOf(StatusEvents', i)
      PROVE  custody'[i].to = doc'.status
  <2>1. n <= i
    BY <1>1, <1>4 DEF LastOf
  <2>2. i = n
    BY <1>1, <1>2, <1>n, <2>1
  <2> QED
    BY <1>2, <2>2
<1> QED
  BY <1>3, <1>4 DEF CustodyTellsTheStatus

\* Custody tells the document's statuses, for any number of requests whose
\* clients send revisions they were given: the status that authorize read is
\* the document's at the commit.
THEOREM CustodyKeepsTheStatus ==
  ASSUME ~ClientPredicts PROVE Spec => []CustodyTellsTheStatus
<1>1. Init => CustodyTellsTheStatus
  BY DEF Init, CustodyTellsTheStatus, StatusEvents
<1>2. IInv /\ CustodyTellsTheStatus /\ [Next]_vars => CustodyTellsTheStatus'
  <2> SUFFICES ASSUME IInv, CustodyTellsTheStatus, [Next]_vars
               PROVE  CustodyTellsTheStatus'
    OBVIOUS
  <2>t. TypeOK
    BY DEF IInv
  <2>1. CASE UNCHANGED <<doc, holds, custody>>
    BY <2>1, <2>t, SameStatusTold
  <2>2. ASSUME NEW r \in Requests, BlockInCustody(r)
        PROVE  CustodyTellsTheStatus'
    <3> DEFINE e == [type |-> "DISPOSITION_BLOCKED", hold |-> req[r].hold]
    <3>1. custody' = Append(custody, e) /\ e.type # "RECORD_STATUS_CHANGED"
          /\ doc' = doc
      BY <2>2 DEF BlockInCustody
    <3> HIDE DEF e
    <3> QED
      BY <2>t, <3>1, SameStatusTold
  <2>3. ASSUME NEW r \in Requests, CommitPlaceHold(r)
        PROVE  CustodyTellsTheStatus'
    <3> DEFINE e == [type |-> "HOLD_PLACED", hold |-> Len(holds) + 1]
    <3>1. custody' = Append(custody, e) /\ e.type # "RECORD_STATUS_CHANGED"
          /\ doc'.status = doc.status
      BY <2>3, <2>t DEF CommitPlaceHold, TypeOK
    <3> HIDE DEF e
    <3> QED
      BY <2>t, <3>1, SameStatusTold
  <2>4. ASSUME NEW r \in Requests, CommitReleaseHold(r)
        PROVE  CustodyTellsTheStatus'
    <3> DEFINE e == [type |-> "HOLD_RELEASED", hold |-> req[r].hold]
    <3>1. custody' = Append(custody, e) /\ e.type # "RECORD_STATUS_CHANGED"
          /\ doc'.status = doc.status
      BY <2>4, <2>t DEF CommitReleaseHold, TypeOK
    <3> HIDE DEF e
    <3> QED
      BY <2>t, <3>1, SameStatusTold
  <2>5. ASSUME NEW r \in Requests, CommitStatus(r)
        PROVE  CustodyTellsTheStatus'
    <3> DEFINE e == [type |-> "RECORD_STATUS_CHANGED",
                     from |-> req[r].current, to |-> req[r].to]
    <3>1. custody' = Append(custody, e) /\ e.type = "RECORD_STATUS_CHANGED"
          /\ e.from = req[r].current /\ e.to = doc'.status
      BY <2>5 DEF CommitStatus
    <3>2. req[r].current = doc.status
      BY <2>5 DEF CommitStatus, ClaimDocument, IInv, Slot, ReadIsCurrent
    <3> HIDE DEF e
    <3> QED
      BY <2>t, <3>1, <3>2, StatusToldOn
  <2> QED
    BY <2>1, <2>2, <2>3, <2>4, <2>5, <2>t, TrailGrows
<1> QED
  BY Invariance, <1>1, <1>2, PTL DEF Spec

-----------------------------------------------------------------------------
(* The holds in the trail.  The last hold event names the last hold, and no  *)
(* other hold can be active.                                                 *)

HoldsAreTold ==
    /\ HoldEvents = {} => holds = <<>>
    /\ \A i \in HoldEvents :
          LastOf(HoldEvents, i) => custody[i].hold = Len(holds)
    /\ \A h \in DOMAIN holds : holds[h].status = "ACTIVE" => h = Len(holds)

HoldTrail == CustodyTellsTheHolds /\ HoldsAreTold

\* Steps that change no hold and write no hold event.
LEMMA SameHoldsTold ==
  ASSUME TypeOK, HoldTrail, UNCHANGED holds,
         \/ UNCHANGED custody
         \/ \E e : /\ custody' = Append(custody, e)
                   /\ e.type \notin {"HOLD_PLACED", "HOLD_RELEASED"}
  PROVE  HoldTrail'
<1>h. Held' <=> Held
  BY DEF Held
<1>1. HoldEvents' = HoldEvents /\ \A i \in HoldEvents : custody'[i] = custody[i]
  <2>1. CASE UNCHANGED custody
    BY <2>1 DEF HoldEvents
  <2>2. ASSUME NEW e, custody' = Append(custody, e),
               e.type \notin {"HOLD_PLACED", "HOLD_RELEASED"}
        PROVE  /\ HoldEvents' = HoldEvents
               /\ \A i \in HoldEvents : custody'[i] = custody[i]
    BY <2>2, AppendedPlace DEF HoldEvents
  <2> QED
    BY <2>1, <2>2
<1>2. CustodyTellsTheHolds'
  BY <1>h, <1>1
  DEF HoldTrail, CustodyTellsTheHolds, FirstOf, LastOf, Follows, Placed, Released
<1>3. HoldsAreTold'
  BY <1>1 DEF HoldTrail, HoldsAreTold, LastOf
<1> QED
  BY <1>2, <1>3 DEF HoldTrail

\* A hold event that is the right one after the last continues the trail.
LEMMA HoldToldOn ==
  ASSUME TypeOK, HoldTrail, NEW e, custody' = Append(custody, e),
         e.type \in {"HOLD_PLACED", "HOLD_RELEASED"},
         HoldEvents = {} => e = Placed(1),
         \A i \in HoldEvents :
            LastOf(HoldEvents, i) =>
               e = IF custody[i].type = "HOLD_PLACED"
                     THEN Released(custody[i].hold)
                     ELSE Placed(custody[i].hold + 1),
         Held' <=> e.type = "HOLD_PLACED",
         holds' # <<>>, e.hold = Len(holds'),
         \A h \in DOMAIN holds' : holds'[h].status = "ACTIVE" => h = Len(holds')
  PROVE  HoldTrail'
<1> DEFINE n == Len(custody) + 1
<1>1. HoldEvents' = HoldEvents \cup {n}
  BY AppendedPlace DEF HoldEvents
<1>2. /\ custody'[n] = e
      /\ \A i \in HoldEvents : i \in Nat /\ i < n /\ custody'[i] = custody[i]
  BY AppendedPlace DEF HoldEvents
<1>n. n \in Nat
  BY DEF TypeOK
<1> HIDE DEF n
<1>3. ASSUME NEW i \in HoldEvents', FirstOf(HoldEvents', i)
      PROVE  custody'[i] = Placed(1)
  <2>1. CASE i \in HoldEvents
    <3>1. FirstOf(HoldEvents, i)
      BY <1>1, <1>3 DEF FirstOf
    <3> QED
      BY <1>2, <2>1, <3>1 DEF HoldTrail, CustodyTellsTheHolds
  <2>2. CASE i = n
    <3>1. HoldEvents = {}
      BY <1>1, <1>2, <1>3, <1>n, <2>2 DEF FirstOf
    <3> QED
      BY <1>2, <2>2, <3>1
  <2> QED
    BY <1>1, <2>1, <2>2
<1>4. ASSUME NEW i \in HoldEvents', NEW j \in HoldEvents',
             Follows(HoldEvents', i, j)
      PROVE  custody'[j] = IF custody'[i].type = "HOLD_PLACED"
                             THEN Released(custody'[i].hold)
                             ELSE Placed(custody'[i].hold + 1)
  <2>1. i \in HoldEvents
    BY <1>1, <1>2, <1>4, <1>n DEF Follows
  <2>2. CASE j \in HoldEvents
    <3>1. Follows(HoldEvents, i, j)
      BY <1>1, <1>4 DEF Follows
    <3>2. custody[j] = IF custody[i].type = "HOLD_PLACED"
                         THEN Released(custody[i].hold)
                         ELSE Placed(custody[i].hold + 1)
      BY <2>1, <2>2, <3>1 DEF HoldTrail, CustodyTellsTheHolds
    <3>3. custody'[i] = custody[i] /\ custody'[j] = custody[j]
      BY <1>2, <2>1, <2>2
    <3> QED
      BY <3>2, <3>3
  <2>3. CASE j = n
    <3>1. LastOf(HoldEvents, i)
      BY <1>1, <1>2, <1>4, <1>n, <2>1, <2>3 DEF Follows, LastOf
    <3> QED
      BY <1>2, <2>1, <2>3, <3>1
  <2> QED
    BY <1>1, <2>2, <2>3
<1>5. \A i \in HoldEvents' : LastOf(HoldEvents', i) <=> i = n
  <2>1. LastOf(HoldEvents', n)
    BY <1>1, <1>2, <1>n DEF LastOf
  <2>2. ASSUME NEW i \in HoldEvents', LastOf(HoldEvents', i) PROVE i = n
    <3>1. n <= i
      BY <1>1, <2>2 DEF LastOf
    <3> QED
      BY <1>1, <1>2, <1>n, <3>1
  <2> QED
    BY <2>1, <2>2
<1>6. n \in HoldEvents'
  BY <1>1
<1>7. Held' <=> \E i \in HoldEvents' :
                  LastOf(HoldEvents', i) /\ custody'[i].type = "HOLD_PLACED"
  BY <1>2, <1>5, <1>6
<1>8. CustodyTellsTheHolds'
  BY <1>3, <1>4, <1>7 DEF CustodyTellsTheHolds, Placed, Released
<1>9. HoldsAreTold'
  BY <1>2, <1>5, <1>6 DEF HoldsAreTold
<1> QED
  BY <1>8, <1>9 DEF HoldTrail

\* Custody tells the document's holds, whatever revisions clients send: the
\* index and the claim of the hold's own row are enough.
THEOREM CustodyKeepsTheHolds == Spec => []CustodyTellsTheHolds
<1>1. Init => HoldTrail
  BY DEF Init, HoldTrail, CustodyTellsTheHolds, HoldsAreTold, HoldEvents, Held
<1>2. TypeOK /\ HoldTrail /\ [Next]_vars => HoldTrail'
  <2> SUFFICES ASSUME TypeOK, HoldTrail, [Next]_vars PROVE HoldTrail'
    OBVIOUS
  <2>1. CASE UNCHANGED <<doc, holds, custody>>
    BY <2>1, SameHoldsTold
  <2>2. ASSUME NEW r \in Requests, BlockInCustody(r) PROVE HoldTrail'
    <3> DEFINE e == [type |-> "DISPOSITION_BLOCKED", hold |-> req[r].hold]
    <3>1. /\ custody' = Append(custody, e)
          /\ e.type \notin {"HOLD_PLACED", "HOLD_RELEASED"} /\ holds' = holds
      BY <2>2 DEF BlockInCustody
    <3> HIDE DEF e
    <3> QED
      BY <3>1, SameHoldsTold
  <2>3. ASSUME NEW r \in Requests, CommitStatus(r) PROVE HoldTrail'
    <3> DEFINE e == [type |-> "RECORD_STATUS_CHANGED",
                     from |-> req[r].current, to |-> req[r].to]
    <3>1. /\ custody' = Append(custody, e)
          /\ e.type \notin {"HOLD_PLACED", "HOLD_RELEASED"} /\ holds' = holds
      BY <2>3 DEF CommitStatus
    <3> HIDE DEF e
    <3> QED
      BY <3>1, SameHoldsTold
  <2>4. ASSUME NEW r \in Requests, CommitPlaceHold(r) PROVE HoldTrail'
    <3> DEFINE e == Placed(Len(holds) + 1)
    <3>1. /\ custody' = Append(custody, e) /\ ~Held
          /\ holds' = Append(holds, [status |-> "ACTIVE", revision |-> 0])
      BY <2>4 DEF CommitPlaceHold, Placed
    <3>2. e.type = "HOLD_PLACED" /\ e.hold = Len(holds) + 1
      BY DEF Placed
    <3>3. /\ holds' # <<>> /\ Len(holds') = Len(holds) + 1
          /\ Len(holds') \in DOMAIN holds' /\ Held'
          /\ \A h \in DOMAIN holds' :
                holds'[h].status = "ACTIVE" => h = Len(holds')
      <4>1. /\ Len(holds') = Len(holds) + 1 /\ Len(holds') \in DOMAIN holds'
            /\ holds'[Len(holds')].status = "ACTIVE"
            /\ \A h \in DOMAIN holds' :
                  h # Len(holds') => h \in DOMAIN holds /\ holds'[h] = holds[h]
        BY <3>1 DEF TypeOK
      <4> QED
        BY <3>1, <4>1 DEF Held
    <3>4. HoldEvents = {} => e = Placed(1)
      BY DEF HoldTrail, HoldsAreTold
    <3>5. \A i \in HoldEvents :
             LastOf(HoldEvents, i) =>
                /\ custody[i].type # "HOLD_PLACED"
                /\ e = Placed(custody[i].hold + 1)
      BY <3>1 DEF HoldTrail, HoldsAreTold, CustodyTellsTheHolds
    <3> HIDE DEF e
    <3> QED
      BY <3>1, <3>2, <3>3, <3>4, <3>5, HoldToldOn
  <2>5. ASSUME NEW r \in Requests, CommitReleaseHold(r) PROVE HoldTrail'
    <3> DEFINE h == req[r].hold
               e == Released(h)
    <3>1. /\ custody' = Append(custody, e)
          /\ h \in DOMAIN holds /\ holds[h].status = "ACTIVE"
      BY <2>5 DEF CommitReleaseHold, ClaimHold, Released
    <3>2. e.type = "HOLD_RELEASED" /\ e.hold = h
      BY DEF Released
    <3>3. h = Len(holds) /\ Held
      BY <3>1 DEF HoldTrail, HoldsAreTold, Held
    <3>4. /\ DOMAIN holds' = DOMAIN holds /\ Len(holds') = Len(holds)
          /\ holds'[h].status = "RELEASED"
          /\ \A g \in DOMAIN holds : g # h => holds'[g] = holds[g]
      BY <2>5, <3>1 DEF CommitReleaseHold, TypeOK
    <3>5. \A g \in DOMAIN holds' : holds'[g].status # "ACTIVE"
      BY <3>1, <3>3, <3>4 DEF HoldTrail, HoldsAreTold
    <3>6. PICK i \in HoldEvents :
            LastOf(HoldEvents, i) /\ custody[i].type = "HOLD_PLACED"
      BY <3>3 DEF HoldTrail, CustodyTellsTheHolds
    <3>7. ASSUME NEW j \in HoldEvents, LastOf(HoldEvents, j)
          PROVE  /\ custody[j].type = "HOLD_PLACED"
                 /\ e = Released(custody[j].hold)
      <4>1. i \in Nat /\ j \in Nat
        BY <3>6, <3>7 DEF HoldEvents, TypeOK
      <4>2. i = j
        BY <3>6, <3>7, <4>1 DEF LastOf
      <4> QED
        BY <3>3, <3>6, <3>7, <4>2 DEF HoldTrail, HoldsAreTold
    <3>8. holds' # <<>> /\ ~Held' /\ e.hold = Len(holds')
      BY <3>1, <3>2, <3>3, <3>4, <3>5 DEF Held
    <3> HIDE DEF e
    <3> QED
      BY <3>1, <3>2, <3>5, <3>6, <3>7, <3>8, HoldToldOn
  <2> QED
    BY <2>1, <2>2, <2>3, <2>4, <2>5, TrailGrows
<1>3. HoldTrail => CustodyTellsTheHolds
  BY DEF HoldTrail
<1> QED
  BY RecordTypes, <1>1, <1>2, <1>3, PTL DEF Spec

-----------------------------------------------------------------------------
(* Counting the events: refusals, and the others, which are changes.         *)

Changes == DOMAIN custody \ Refusals

LEMMA PlacesAreFinite ==
  ASSUME TypeOK
  PROVE  /\ IsFiniteSet(Refusals) /\ Cardinality(Refusals) \in Nat
         /\ IsFiniteSet(Changes) /\ Cardinality(Changes) \in Nat
<1>1. DOMAIN custody = 1 .. Len(custody) /\ Len(custody) \in Nat
  BY DEF TypeOK
<1>2. IsFiniteSet(DOMAIN custody)
  BY <1>1, FS_Interval
<1>3. Refusals \subseteq DOMAIN custody /\ Changes \subseteq DOMAIN custody
  BY DEF Refusals, Changes
<1> QED
  BY <1>2, <1>3, FS_Subset, FS_CardinalityType

\* Each event counts once, as a refusal or as a change.
LEMMA EventsCount ==
  ASSUME TypeOK, NEW e, custody' = Append(custody, e)
  PROVE  /\ e.type = "DISPOSITION_BLOCKED" =>
               /\ Cardinality(Refusals') = Cardinality(Refusals) + 1
               /\ Changes' = Changes
         /\ e.type # "DISPOSITION_BLOCKED" =>
               /\ Refusals' = Refusals
               /\ Cardinality(Changes') = Cardinality(Changes) + 1
<1> DEFINE n == Len(custody) + 1
<1>1. /\ DOMAIN custody' = DOMAIN custody \cup {n} /\ custody'[n] = e
      /\ n \notin DOMAIN custody
      /\ \A i \in DOMAIN custody : custody'[i] = custody[i]
  BY AppendedPlace
<1>2. n \notin Refusals /\ n \notin Changes
  BY <1>1 DEF Refusals, Changes
<1> HIDE DEF n
<1>3. ASSUME e.type = "DISPOSITION_BLOCKED"
      PROVE  Refusals' = Refusals \cup {n} /\ Changes' = Changes
  BY <1>1, <1>3 DEF Refusals, Changes
<1>4. ASSUME e.type # "DISPOSITION_BLOCKED"
      PROVE  Refusals' = Refusals /\ Changes' = Changes \cup {n}
  BY <1>1, <1>4 DEF Refusals, Changes
<1> QED
  BY <1>2, <1>3, <1>4, PlacesAreFinite, FS_AddElement

\* Every revision of the document is one recorded change, whatever revisions
\* clients send and wherever requests die.
THEOREM RevisionsAreRecorded == Spec => []EveryRevisionIsRecorded
<1> DEFINE Sum == audit["LEGAL_HOLD_PLACED"] + audit["LEGAL_HOLD_RELEASED"]
                  + audit["RECORD_STATUS_CHANGED"]
<1>d. EveryRevisionIsRecorded <=>
         doc.revision = Cardinality(Changes) /\ doc.revision = Sum
  BY DEF EveryRevisionIsRecorded, Changes
<1>1. Init => EveryRevisionIsRecorded
  <2> SUFFICES ASSUME Init PROVE EveryRevisionIsRecorded
    OBVIOUS
  <2>1. Changes = {} /\ doc.revision = 0
    BY DEF Init, Changes
  <2>2. Sum = 0
    BY DEF Init, AuditActions
  <2> QED
    BY <1>d, <2>1, <2>2, FS_EmptySet
<1>2. TypeOK /\ EveryRevisionIsRecorded /\ [Next]_vars
        => EveryRevisionIsRecorded'
  <2> SUFFICES ASSUME TypeOK, EveryRevisionIsRecorded, [Next]_vars
               PROVE  /\ doc'.revision = Cardinality(Changes')
                      /\ doc'.revision = Sum'
    BY DEF EveryRevisionIsRecorded, Changes
  <2>1. CASE /\ UNCHANGED <<doc, holds, custody>>
             /\ \A a \in {"LEGAL_HOLD_PLACED", "LEGAL_HOLD_RELEASED",
                          "RECORD_STATUS_CHANGED"} : audit'[a] = audit[a]
    <3>1. Changes' = Changes
      BY <2>1 DEF Changes, Refusals
    <3> QED
      BY <1>d, <2>1, <3>1
  <2>2. ASSUME NEW r \in Requests, BlockInCustody(r)
        PROVE  doc'.revision = Cardinality(Changes') /\ doc'.revision = Sum'
    <3> DEFINE e == [type |-> "DISPOSITION_BLOCKED", hold |-> req[r].hold]
    <3>1. /\ custody' = Append(custody, e) /\ e.type = "DISPOSITION_BLOCKED"
          /\ UNCHANGED <<doc, audit>>
      BY <2>2 DEF BlockInCustody
    <3> HIDE DEF e
    <3>2. Changes' = Changes
      BY <3>1, EventsCount
    <3> QED
      BY <1>d, <3>1, <3>2
  <2>3. ASSUME NEW r \in Requests, NEW e,
               NEW a \in {"LEGAL_HOLD_PLACED", "LEGAL_HOLD_RELEASED",
                          "RECORD_STATUS_CHANGED"},
               custody' = Append(custody, e), e.type # "DISPOSITION_BLOCKED",
               doc'.revision = doc.revision + 1,
               audit' = [audit EXCEPT ![a] = @ + 1]
        PROVE  doc'.revision = Cardinality(Changes') /\ doc'.revision = Sum'
    <3>1. Cardinality(Changes') = Cardinality(Changes) + 1
      BY <2>3, EventsCount
    <3>2. Sum' = Sum + 1
      BY <2>3 DEF TypeOK, AuditActions
    <3> QED
      BY <1>d, <2>3, <3>1, <3>2
  <2>4. ASSUME NEW r \in Requests, CommitPlaceHold(r)
        PROVE  doc'.revision = Cardinality(Changes') /\ doc'.revision = Sum'
    <3> DEFINE e == [type |-> "HOLD_PLACED", hold |-> Len(holds) + 1]
    <3>1. /\ custody' = Append(custody, e) /\ e.type # "DISPOSITION_BLOCKED"
          /\ doc'.revision = doc.revision + 1
          /\ audit' = [audit EXCEPT !["LEGAL_HOLD_PLACED"] = @ + 1]
      BY <2>4 DEF CommitPlaceHold, TypeOK
    <3> HIDE DEF e
    <3> QED
      BY <2>3, <3>1
  <2>5. ASSUME NEW r \in Requests, CommitReleaseHold(r)
        PROVE  doc'.revision = Cardinality(Changes') /\ doc'.revision = Sum'
    <3> DEFINE e == [type |-> "HOLD_RELEASED", hold |-> req[r].hold]
    <3>1. /\ custody' = Append(custody, e) /\ e.type # "DISPOSITION_BLOCKED"
          /\ doc'.revision = doc.revision + 1
          /\ audit' = [audit EXCEPT !["LEGAL_HOLD_RELEASED"] = @ + 1]
      BY <2>5 DEF CommitReleaseHold, TypeOK
    <3> HIDE DEF e
    <3> QED
      BY <2>3, <3>1
  <2>6. ASSUME NEW r \in Requests, CommitStatus(r)
        PROVE  doc'.revision = Cardinality(Changes') /\ doc'.revision = Sum'
    <3> DEFINE e == [type |-> "RECORD_STATUS_CHANGED",
                     from |-> req[r].current, to |-> req[r].to]
    <3>1. /\ custody' = Append(custody, e) /\ e.type # "DISPOSITION_BLOCKED"
          /\ doc'.revision = doc.revision + 1
          /\ audit' = [audit EXCEPT !["RECORD_STATUS_CHANGED"] = @ + 1]
      BY <2>6 DEF CommitStatus
    <3> HIDE DEF e
    <3> QED
      BY <2>3, <3>1
  <2> QED
    BY <2>1, <2>2, <2>4, <2>5, <2>6, TrailGrows
<1> QED
  BY RecordTypes, <1>1, <1>2, PTL DEF Spec

\* Requests between the two writes of a refusal.
Halfway == {r \in Requests : req[r].phase = "blockedInCustody"}

RefusalsCount ==
    /\ IsFiniteSet(Halfway)
    /\ audit["RECORD_DISPOSITION_BLOCKED"] + Cardinality(Halfway)
         <= Cardinality(Refusals)

\* A step that puts nobody between the two writes, and loses no refusal.
LEMMA RefusalsCountOn ==
  ASSUME TypeOK, RefusalsCount, NEW r \in Requests, NEW m,
         req' = [req EXCEPT ![r] = m], m.phase # "blockedInCustody",
         Refusals' = Refusals,
         \/ audit'["RECORD_DISPOSITION_BLOCKED"]
              = audit["RECORD_DISPOSITION_BLOCKED"]
         \/ /\ req[r].phase = "blockedInCustody"
            /\ audit'["RECORD_DISPOSITION_BLOCKED"]
                 = audit["RECORD_DISPOSITION_BLOCKED"] + 1
  PROVE  RefusalsCount'
<1>1. Halfway' = Halfway \ {r}
  BY DEF Halfway, TypeOK
<1>2. r \in Halfway <=> req[r].phase = "blockedInCustody"
  BY DEF Halfway
<1>3. /\ IsFiniteSet(Halfway') /\ Cardinality(Halfway) \in Nat
      /\ Cardinality(Halfway') = IF r \in Halfway THEN Cardinality(Halfway) - 1
                                                  ELSE Cardinality(Halfway)
  BY <1>1, FS_RemoveElement, FS_CardinalityType DEF RefusalsCount
<1>4. /\ audit["RECORD_DISPOSITION_BLOCKED"] \in Nat
      /\ Cardinality(Refusals) \in Nat
  BY PlacesAreFinite DEF TypeOK, AuditActions
<1> QED
  BY <1>2, <1>3, <1>4 DEF RefusalsCount

\* The audit trail never tells of a refusal that custody lacks, for any
\* number of requests, dead or alive.
THEOREM RefusalsReachCustodyFirst == Spec => []DenialsReachCustodyFirst
<1>1. Init => RefusalsCount
  <2> SUFFICES ASSUME Init PROVE RefusalsCount
    OBVIOUS
  <2>1. Halfway = {} /\ Refusals = {}
    BY DEF Init, Halfway, Refusals, Idle
  <2>2. audit["RECORD_DISPOSITION_BLOCKED"] = 0
    BY DEF Init, AuditActions
  <2> QED
    BY <2>1, <2>2, FS_EmptySet DEF RefusalsCount
<1>2. TypeOK /\ RefusalsCount /\ [Next]_vars => RefusalsCount'
  <2> SUFFICES ASSUME TypeOK, RefusalsCount, [Next]_vars PROVE RefusalsCount'
    OBVIOUS
  <2>1. CASE UNCHANGED vars
    BY <2>1 DEF vars, RefusalsCount, Halfway, Refusals
  <2>2. ASSUME NEW r \in Requests, Step(r) PROVE RefusalsCount'
    <3> DEFINE B == "RECORD_DISPOSITION_BLOCKED"
    <3>a. ASSUME NEW m, req' = [req EXCEPT ![r] = m],
                 m.phase # "blockedInCustody", UNCHANGED custody,
                 audit'[B] = audit[B]
          PROVE  RefusalsCount'
      BY <3>a, RefusalsCountOn DEF Refusals
    <3>b. ASSUME NEW m, req' = [req EXCEPT ![r] = m],
                 m.phase # "blockedInCustody",
                 NEW e, custody' = Append(custody, e),
                 e.type # "DISPOSITION_BLOCKED", audit'[B] = audit[B]
          PROVE  RefusalsCount'
      BY <3>b, RefusalsCountOn, EventsCount
    <3>i. Idle.phase # "blockedInCustody"
      BY DEF Idle
    <3>g. ASSUME NEW p, Goto(r, p), p # "blockedInCustody", UNCHANGED custody,
                 audit'[B] = audit[B]
          PROVE  RefusalsCount'
      <4>1. [req[r] EXCEPT !.phase = p].phase # "blockedInCustody"
        BY <3>g DEF TypeOK, Request
      <4>2. req' = [req EXCEPT ![r] = [req[r] EXCEPT !.phase = p]]
        BY <3>g DEF Goto
      <4> QED
        BY <3>a, <3>g, <4>1, <4>2
    <3>1. CASE SendPlaceHold(r) \/ SendReleaseHold(r) \/ SendChangeStatus(r)
      <4>1. ASSUME NEW m, m.phase = "sent", Send(r, m) PROVE RefusalsCount'
        BY <3>a, <4>1 DEF Send
      <4>2. CASE SendPlaceHold(r)
        BY <4>1, <4>2 DEF SendPlaceHold, Idle
      <4>3. CASE SendReleaseHold(r)
        BY <4>1, <4>3 DEF SendReleaseHold, Idle
      <4>4. CASE SendChangeStatus(r)
        BY <4>1, <4>4 DEF SendChangeStatus, Idle
      <4> QED
        BY <3>1, <4>2, <4>3, <4>4
    <3>2. CASE Deny(r)
      <4>1. audit'[B] = audit[B]
        BY <3>2 DEF Deny, TypeOK, AuditActions
      <4> QED
        BY <3>2, <3>a, <3>i, <4>1 DEF Deny, Answer
    <3>3. CASE AuthorizeHold(r)
      BY <3>3, <3>g DEF AuthorizeHold
    <3>4. CASE AuthorizeStatus(r)
      <4>1. CASE req[r].to \in transitions[doc.status]
        <5> DEFINE m == [req[r] EXCEPT
                          !.current = doc.status,
                          !.phase = IF req[r].to = "DISPOSED"
                                      THEN "checkHold" ELSE "transaction"]
        <5>1. req' = [req EXCEPT ![r] = m]
          BY <3>4, <4>1 DEF AuthorizeStatus
        <5>2. m.phase # "blockedInCustody"
          BY DEF TypeOK, Request
        <5> HIDE DEF m
        <5> QED
          BY <3>4, <3>a, <5>1, <5>2 DEF AuthorizeStatus
      <4>2. CASE req[r].to \notin transitions[doc.status]
        BY <3>4, <3>a, <3>i, <4>2 DEF AuthorizeStatus, Answer
      <4> QED
        BY <4>1, <4>2
    <3>5. CASE FindHold(r)
      BY <3>5, <3>a, <3>i, <3>g DEF FindHold, Answer
    <3>6. CASE CheckHold(r)
      <4>1. ASSUME NEW h,
                   req' = [req EXCEPT ![r] = [@ EXCEPT !.phase = "blocked",
                                                       !.hold = h]]
            PROVE  RefusalsCount'
        <5> DEFINE m == [req[r] EXCEPT !.phase = "blocked", !.hold = h]
        <5>1. m.phase # "blockedInCustody"
          BY DEF TypeOK, Request
        <5>2. req' = [req EXCEPT ![r] = m]
          BY <4>1
        <5> HIDE DEF m
        <5> QED
          BY <3>6, <3>a, <5>1, <5>2 DEF CheckHold
      <4> QED
        BY <3>6, <3>g, <4>1 DEF CheckHold
    <3>7. CASE BlockInCustody(r)
      <4> DEFINE e == [type |-> "DISPOSITION_BLOCKED", hold |-> req[r].hold]
      <4>1. custody' = Append(custody, e) /\ e.type = "DISPOSITION_BLOCKED"
        BY <3>7 DEF BlockInCustody
      <4> HIDE DEF e
      <4>2. Cardinality(Refusals') = Cardinality(Refusals) + 1
        BY <4>1, EventsCount
      <4>3. Halfway' = Halfway \cup {r} /\ r \notin Halfway
        BY <3>7 DEF BlockInCustody, Goto, Halfway, TypeOK, Request
      <4>4. IsFiniteSet(Halfway') /\ Cardinality(Halfway) \in Nat
            /\ Cardinality(Halfway') = Cardinality(Halfway) + 1
        BY <4>3, FS_AddElement, FS_CardinalityType DEF RefusalsCount
      <4>5. /\ audit'[B] = audit[B] /\ audit[B] \in Nat
            /\ Cardinality(Refusals) \in Nat
        BY <3>7, PlacesAreFinite DEF BlockInCustody, TypeOK, AuditActions
      <4> QED
        BY <4>2, <4>4, <4>5 DEF RefusalsCount
    <3>8. CASE BlockInAudit(r)
      <4>1. audit'[B] = audit[B] + 1
        BY <3>8 DEF BlockInAudit, TypeOK, AuditActions
      <4> QED
        BY <3>8, <3>i, <4>1, RefusalsCountOn
        DEF BlockInAudit, Answer, Refusals
    <3>9. CASE CommitPlaceHold(r)
      <4> DEFINE e == [type |-> "HOLD_PLACED", hold |-> Len(holds) + 1]
      <4>1. /\ custody' = Append(custody, e) /\ e.type # "DISPOSITION_BLOCKED"
            /\ audit'[B] = audit[B]
        BY <3>9 DEF CommitPlaceHold, TypeOK, AuditActions
      <4> HIDE DEF e
      <4> QED
        BY <3>9, <3>b, <3>i, <4>1 DEF CommitPlaceHold, Answer
    <3>10. CASE CommitReleaseHold(r)
      <4> DEFINE e == [type |-> "HOLD_RELEASED", hold |-> req[r].hold]
      <4>1. /\ custody' = Append(custody, e) /\ e.type # "DISPOSITION_BLOCKED"
            /\ audit'[B] = audit[B]
        BY <3>10 DEF CommitReleaseHold, TypeOK, AuditActions
      <4> HIDE DEF e
      <4> QED
        BY <3>10, <3>b, <3>i, <4>1 DEF CommitReleaseHold, Answer
    <3>11. CASE CommitStatus(r)
      <4> DEFINE e == [type |-> "RECORD_STATUS_CHANGED",
                       from |-> req[r].current, to |-> req[r].to]
      <4>1. /\ custody' = Append(custody, e) /\ e.type # "DISPOSITION_BLOCKED"
            /\ audit'[B] = audit[B]
        BY <3>11 DEF CommitStatus, TypeOK, AuditActions
      <4> HIDE DEF e
      <4> QED
        BY <3>11, <3>b, <3>i, <4>1 DEF CommitStatus, Answer
    <3>12. CASE Conflict(r) \/ Abandon(r)
      BY <3>12, <3>a, <3>i DEF Conflict, Abandon, Answer
    <3> QED
      BY <2>2, <3>1, <3>2, <3>3, <3>4, <3>5, <3>6, <3>7, <3>8, <3>9, <3>10,
         <3>11, <3>12 DEF Step
  <2> QED
    BY <2>1, <2>2 DEF Next
<1>3. RefusalsCount => DenialsReachCustodyFirst
  BY DEF RefusalsCount, DenialsReachCustodyFirst, Halfway
<1> QED
  BY RecordTypes, <1>1, <1>2, <1>3, PTL DEF Spec

-----------------------------------------------------------------------------
(* What the pages are served.  The holds of a document go out with their     *)
(* statuses, and of all the steps only the commits show.                     *)

LEMMA SameTransitions == Server!Statuses = Statuses
                         /\ Server!transitions = transitions
  BY DEF Server!Statuses, Statuses, Server!transitions, transitions

LEMMA HoldsServedType ==
  ASSUME TypeOK
  PROVE  /\ HoldsServed \in Seq(Server!HoldStatuses)
         /\ Len(HoldsServed) = Len(holds) /\ Len(holds) \in Nat
         /\ DOMAIN HoldsServed = DOMAIN holds /\ DOMAIN holds = 1 .. Len(holds)
         /\ Server!Protected <=> Held
<1>1. /\ Len(holds) \in Nat /\ DOMAIN holds = 1 .. Len(holds)
      /\ \A h \in DOMAIN holds : holds[h].status \in Server!HoldStatuses
  <2>1. holds \in Seq(Hold)
    BY DEF TypeOK
  <2>2. \A h \in DOMAIN holds : holds[h] \in Hold
    BY <2>1
  <2>3. \A m \in Hold : m.status \in Server!HoldStatuses
    BY DEF Hold, Server!HoldStatuses
  <2> QED
    BY <2>1, <2>2, <2>3
<1>2. HoldsServed \in [1 .. Len(holds) -> Server!HoldStatuses]
  BY <1>1 DEF HoldsServed
<1>3. HoldsServed \in Seq(Server!HoldStatuses) /\ Len(HoldsServed) = Len(holds)
  BY <1>1, <1>2
<1> QED
  BY <1>1, <1>3 DEF HoldsServed, Served, Server!Protected, Held

LEMMA ServedPlaceHold ==
  ASSUME IInv, NEW r \in Requests, CommitPlaceHold(r)
  PROVE  Server!PlaceHold(doc.revision)
<1>1. TypeOK
  BY DEF IInv
<1>2. /\ doc' = [doc EXCEPT !.revision = @ + 1] /\ ~Held
      /\ holds' = Append(holds, [status |-> "ACTIVE", revision |-> 0])
  BY DEF CommitPlaceHold
<1>3. doc'.status = doc.status /\ doc'.revision = doc.revision + 1
  BY <1>1, <1>2 DEF TypeOK
<1>4. HoldsServed' = Append(HoldsServed, "ACTIVE")
  <2>1. /\ Len(holds) \in Nat /\ DOMAIN holds = 1 .. Len(holds)
        /\ DOMAIN holds' = 1 .. (Len(holds) + 1)
        /\ holds'[Len(holds) + 1].status = "ACTIVE"
        /\ \A h \in DOMAIN holds : holds'[h] = holds[h]
    BY <1>1, <1>2 DEF TypeOK
  <2>2. HoldsServed' = [h \in 1 .. (Len(holds) + 1) |-> holds'[h].status]
    BY <2>1 DEF HoldsServed
  <2> DEFINE S == HoldsServed
             T == HoldsServed'
             n == Len(holds)
             X == Server!HoldStatuses
  <2>3. T[n + 1] = "ACTIVE" /\ \A h \in 1 .. n : T[h] = S[h]
    BY <2>1, <2>2 DEF HoldsServed
  <2>4. S \in Seq(X) /\ Len(S) = n /\ "ACTIVE" \in X
    BY <1>1, HoldsServedType DEF Server!HoldStatuses
  <2>5. T \in [1 .. (n + 1) -> X]
    <3>1. \A h \in 1 .. n : S[h] \in X
      BY <2>1, <2>4
    <3>2. \A h \in 1 .. (n + 1) : T[h] \in X
      BY <2>1, <2>3, <2>4, <3>1
    <3> QED
      BY <2>2, <3>2
  <2>6. T = Append(S, "ACTIVE")
    <3> HIDE DEF S, T, X
    <3>1. n \in Nat
      BY <2>1
    <3> HIDE DEF n
    <3>2. T \in Seq(X) /\ Len(T) = n + 1
      BY <2>5, <3>1
    <3>3. /\ Append(S, "ACTIVE") \in Seq(X)
          /\ Len(Append(S, "ACTIVE")) = n + 1
          /\ Append(S, "ACTIVE")[n + 1] = "ACTIVE"
          /\ \A h \in 1 .. n : Append(S, "ACTIVE")[h] = S[h]
      BY <2>4, <3>1
    <3> QED
      BY <2>3, <3>1, <3>2, <3>3
  <2> QED
    BY <2>6
<1> QED
  BY <1>1, <1>2, <1>3, <1>4, HoldsServedType
  DEF Server!PlaceHold, Server!Claimed, Server!Changed, Served

LEMMA ServedReleaseHold ==
  ASSUME IInv, NEW r \in Requests, CommitReleaseHold(r)
  PROVE  Server!ReleaseHold(doc.revision, req[r].hold)
<1> DEFINE h == req[r].hold
<1>1. TypeOK
  BY DEF IInv
<1>2. /\ doc' = [doc EXCEPT !.revision = @ + 1]
      /\ h \in DOMAIN holds /\ holds[h].status = "ACTIVE"
      /\ holds' = [holds EXCEPT ![h] =
                      [status |-> "RELEASED", revision |-> @.revision + 1]]
  BY DEF CommitReleaseHold, ClaimHold
<1>3. doc'.status = doc.status /\ doc'.revision = doc.revision + 1
  BY <1>1, <1>2 DEF TypeOK
<1> HIDE DEF h
<1>4. HoldsServed' = [HoldsServed EXCEPT ![h] = "RELEASED"]
  BY <1>2 DEF HoldsServed
<1>5. h \in DOMAIN Served.holds /\ Served.holds[h] = "ACTIVE"
  BY <1>2 DEF Served, HoldsServed
<1>6. Server!ReleaseHold(doc.revision, h)
  BY <1>3, <1>4, <1>5
  DEF Server!ReleaseHold, Server!Claimed, Server!Changed, Served
<1> QED
  BY <1>6 DEF h

LEMMA ServedStatus ==
  ASSUME IInv, NEW r \in Requests, CommitStatus(r)
  PROVE  Server!ChangeStatus(doc.revision, req[r].to)
<1>1. /\ doc'.status \in transitions[doc.status]
      /\ doc'.status = "DISPOSED" => ~Held
      /\ UNCHANGED holds
  BY CommitStatusIsAllowed
<1>2. doc'.revision = doc.revision + 1
  BY DEF CommitStatus
<1>3. HoldsServed' = HoldsServed
  BY <1>1 DEF HoldsServed
<1>4. doc'.status = req[r].to
  BY DEF CommitStatus
<1>5. Server!Protected <=> Held
  BY HoldsServedType DEF IInv
<1> QED
  BY <1>1, <1>2, <1>3, <1>4, <1>5, SameTransitions
  DEF Server!ChangeStatus, Server!Claimed, Server!Changed, Served

\* Seen from the pages, the service has one document that changes by whole
\* operations: each is what one call asked for, claimed by the revision that
\* call was sent with, and nothing of the requests' reads, of their
\* transactions or of the other calls shows.
THEOREM RecordsImplementServer ==
  ASSUME ~ClientPredicts PROVE Spec => ImplementsServer
<1>1. Init => Server!ServerInit
  <2> SUFFICES ASSUME Init PROVE Server!ServerInit
    OBVIOUS
  <2>1. HoldsServed = <<>>
    BY DEF Init, HoldsServed
  <2>2. doc.status \in Statuses /\ doc.revision = 0
    BY DEF Init
  <2> QED
    BY <2>1, <2>2, SameTransitions DEF Server!ServerInit, Served
<1>2. IInv /\ [Next]_vars => [\E r \in Requests : Serves(req[r])]_Served
  <2> SUFFICES ASSUME IInv, [Next]_vars
               PROVE  (\E r \in Requests : Serves(req[r])) \/ Served' = Served
    OBVIOUS
  <2>1. CASE UNCHANGED <<doc, holds>>
    BY <2>1 DEF Served, HoldsServed
  <2>2. ASSUME NEW r \in Requests,
               CommitPlaceHold(r) \/ CommitReleaseHold(r) \/ CommitStatus(r)
        PROVE  Serves(req[r])
    <3>1. req[r].expected = doc.revision
      BY <2>2 DEF CommitPlaceHold, CommitReleaseHold, CommitStatus, ClaimDocument
    <3>2. CASE CommitPlaceHold(r)
      <4>1. req[r].op = "placeHold"
        BY <3>2 DEF CommitPlaceHold
      <4> QED
        BY <3>1, <3>2, <4>1, ServedPlaceHold DEF Serves, Server!Serve
    <3>3. CASE CommitReleaseHold(r)
      <4>1. req[r].op = "releaseHold"
        BY <3>3 DEF CommitReleaseHold
      <4> QED
        BY <3>1, <3>3, <4>1, ServedReleaseHold DEF Serves, Server!Serve
    <3>4. CASE CommitStatus(r)
      <4>1. req[r].op = "changeStatus"
        BY <3>4 DEF CommitStatus
      <4> QED
        BY <3>1, <3>4, <4>1, ServedStatus DEF Serves, Server!Serve
    <3> QED
      BY <2>2, <3>2, <3>3, <3>4
  <2> QED
    BY <2>1, <2>2, CommitsOnly
<1> QED
  BY Invariance, <1>1, <1>2, PTL DEF Spec, ImplementsServer

-----------------------------------------------------------------------------
(* The pages.  WebClient's tabs and calls, for any number of them, in front  *)
(* of the server that RecordsImplementServer is about.  That no call names a *)
(* revision the document has not had is what the theorems above assume of    *)
(* clients with ~ClientPredicts.                                             *)

\* What was read of the document is not ahead of it, and is still true as long
\* as its revision is.
Seen(d) ==
    /\ d.revision <= record.revision
    /\ d.revision = record.revision => d.status = record.status

\* A page shows, and is about to show, what was read of the document.  What it
\* asked for after its own change was acknowledged has that change; what was
\* on its way to a page that its user had left may not, and is then outrun, or
\* the document is marked to be fetched when the user returns.
Page(p) ==
    LET f == fetch[p]["document"] IN
    /\ p \notin hidden => Seen(cache[p]["document"]) /\ "document" \in loaded[p]
    /\ f.phase = "read" => /\ Seen(f.found)
                           /\ f.found.revision >= acked[p] \/ p \in outrun
    /\ p \notin hidden \cup outrun /\ f.phase = "idle" =>
          \/ cache[p]["document"].revision >= acked[p]
          \/ p \notin mounted /\ "document" \in marked[p]
    /\ acked[p] <= record.revision

\* A call whose revision is still current was made with the current status in
\* view; one that succeeded has been passed by the document, and has a page
\* that waits for it.
Call(c) ==
    LET m == call[c] IN
    /\ m.phase # "idle" => m.expected <= record.revision
    /\ m.phase = "sent" /\ m.expected = record.revision =>
          m.shown = record.status
    /\ m.phase = "done" => m.expected < record.revision /\ m.page \in Pages

WebInv == /\ PagesTypeOK /\ last.shown = last.found
          /\ \A p \in Pages : Page(p)
          /\ \A c \in Calls : Call(c)

Fetch == [phase : {"idle", "asked", "read"}, found : Documents]

Change == [phase : {"idle", "sent", "done"}, op : Operations,
           page : Pages \cup {NoPage}, watched : BOOLEAN, expected : Nat,
           to : Statuses, hold : Nat, shown : Statuses]

\* What a step does not touch of the document in a tab.
DocumentKept(p) ==
    /\ fetch'[p]["document"] = fetch[p]["document"]
    /\ cache'[p]["document"] = cache[p]["document"]
    /\ acked'[p] = acked[p]
    /\ p \in hidden' <=> p \in hidden
    /\ p \in mounted' <=> p \in mounted
    /\ p \in outrun' <=> p \in outrun
    /\ "document" \in loaded'[p] <=> "document" \in loaded[p]
    /\ "document" \in marked'[p] <=> "document" \in marked[p]

-----------------------------------------------------------------------------

LEMMA BlankTypes ==
  /\ Blank \in Documents /\ NoFetch \in Fetch
  /\ NoFetch.phase = "idle" /\ NoCall \in Change /\ NoCall.phase = "idle"
  /\ Asked \in Fetch /\ Asked.phase = "asked"
<1>1. "DRAFT" \in Statuses /\ <<>> \in Seq(HoldStatuses)
  BY DEF Statuses
<1>2. Blank \in Documents
  BY <1>1 DEF Blank, Documents
<1>3. NoFetch \in Fetch /\ NoFetch.phase = "idle"
  BY <1>2 DEF NoFetch, Fetch
<1>4. NoCall \in Change /\ NoCall.phase = "idle"
  BY <1>1 DEF NoCall, Change, Operations
<1>5. Asked \in Fetch /\ Asked.phase = "asked"
  BY <1>3 DEF Asked, Fetch
<1> QED
  BY <1>2, <1>3, <1>4, <1>5

\* A response is one part of the document.
LEMMA PartTypes ==
  ASSUME NEW q \in Queries, NEW d \in Documents
  PROVE  /\ Part(q, d) \in Documents
         /\ q = "document" => /\ Part(q, d).revision = d.revision
                              /\ Part(q, d).status = d.status
<1>1. <<>> \in Seq(HoldStatuses)
  OBVIOUS
<1>2. CASE q = "document"
  BY <1>1, <1>2 DEF Part, Documents
<1>3. CASE q # "document"
  <2>1. d.holds \in Seq(HoldStatuses) /\ Blank \in Documents
    BY BlankTypes DEF Documents
  <2> QED
    BY <1>3, <2>1 DEF Part, Documents
<1> QED
  BY <1>2, <1>3

\* The types as functions of pages and calls.
LEMMA WebTypeFacts ==
  ASSUME PagesTypeOK
  PROVE  /\ record \in Documents
         /\ mounted \subseteq Pages
         /\ cache \in [Pages -> [Queries -> Documents]]
         /\ loaded \in [Pages -> SUBSET Queries]
         /\ marked \in [Pages -> SUBSET Queries]
         /\ fetch \in [Pages -> [Queries -> Fetch]]
         /\ hidden \subseteq Pages
         /\ call \in [Calls -> Change]
         /\ acked \in [Pages -> Nat]
         /\ outrun \subseteq Pages
         /\ last \in [shown : Statuses, found : Statuses]
         /\ fetches \in Nat
         /\ "document" \in Queries
  BY DEF PagesTypeOK, Fetch, Change, Queries

LEMMA WebTypesNext ==
  ASSUME record' \in Documents,
         mounted' \subseteq Pages,
         cache' \in [Pages -> [Queries -> Documents]],
         loaded' \in [Pages -> SUBSET Queries],
         marked' \in [Pages -> SUBSET Queries],
         fetch' \in [Pages -> [Queries -> Fetch]],
         hidden' \subseteq Pages,
         call' \in [Calls -> Change],
         acked' \in [Pages -> Nat],
         outrun' \subseteq Pages,
         last' \in [shown : Statuses, found : Statuses],
         fetches' \in Nat
  PROVE  PagesTypeOK'
  BY DEF PagesTypeOK, Fetch, Change

LEMMA CountedTypes ==
  ASSUME PagesTypeOK, Counted
  PROVE  fetches' \in Nat
  BY WebTypeFacts DEF Counted

\* A page whose document a step leaves alone stays as it should be.
LEMMA PageKept ==
  ASSUME NEW p \in Pages, Page(p), UNCHANGED record, DocumentKept(p)
  PROVE  Page(p)'
  BY DEF Page, Seen, DocumentKept

\* So does a call, also when its page gives it up.
LEMMA CallKept ==
  ASSUME NEW c \in Calls, Call(c), UNCHANGED record,
         \/ call'[c].phase = "idle"
         \/ /\ call'[c].phase = call[c].phase
            /\ call'[c].expected = call[c].expected
            /\ call'[c].shown = call[c].shown
            /\ call'[c].page = call[c].page \/ call[c].phase = "sent"
  PROVE  Call(c)'
  BY DEF Call

\* A call that nobody waits for is late or gone.
LEMMA UnawaitedKept ==
  ASSUME NEW c \in Calls, Call(c), UNCHANGED record, call[c] \in Change,
         call'[c] = Unawaited(call[c])
  PROVE  call'[c] \in Change /\ Call(c)'
<1>1. CASE call[c].phase = "sent"
  <2> DEFINE m == call[c]
             n == [m EXCEPT !.page = NoPage, !.watched = FALSE]
  <2>1. /\ n \in Change /\ n.phase = m.phase
        /\ n.expected = m.expected /\ n.shown = m.shown
    BY DEF Change
  <2>2. call'[c] = n
    BY <1>1 DEF Unawaited
  <2> HIDE DEF n
  <2> QED
    BY <1>1, <2>1, <2>2, CallKept
<1>2. CASE call[c].phase # "sent"
  <2>1. call'[c] = NoCall
    BY <1>2 DEF Unawaited
  <2> QED
    BY <2>1, BlankTypes, CallKept
<1> QED
  BY <1>1, <1>2

LEMMA CallsKept ==
  ASSUME WebInv, UNCHANGED <<record, call>>
  PROVE  \A c \in Calls : Call(c)'
  BY CallKept DEF WebInv

LEMMA PagesKept ==
  ASSUME WebInv, UNCHANGED <<record, mounted, queryVars, acked, outrun>>
  PROVE  \A p \in Pages : Page(p)'
<1>1. \A p \in Pages : DocumentKept(p)
  BY DEF DocumentKept, queryVars
<1> QED
  BY <1>1, PageKept DEF WebInv

\* Asking for a query starts its fetch again.
LEMMA AskedFetches ==
  ASSUME PagesTypeOK, NEW p \in Pages, NEW qs, Ask(p, qs)
  PROVE  /\ fetch' \in [Pages -> [Queries -> Fetch]]
         /\ \A r \in Pages : r # p => fetch'[r] = fetch[r]
         /\ "document" \in qs => fetch'[p]["document"].phase = "asked"
         /\ "document" \notin qs =>
               fetch'[p]["document"] = fetch[p]["document"]
<1> DEFINE new == [q \in Queries |-> IF q \in qs THEN Asked ELSE fetch[p][q]]
<1>1. fetch' = [fetch EXCEPT ![p] = new]
  BY DEF Ask
<1>2. fetch \in [Pages -> [Queries -> Fetch]] /\ "document" \in Queries
  BY WebTypeFacts
<1>3. new \in [Queries -> Fetch]
  BY <1>2, BlankTypes
<1>4. /\ "document" \in qs => new["document"].phase = "asked"
      /\ "document" \notin qs => new["document"] = fetch[p]["document"]
  BY <1>2, BlankTypes
<1> HIDE DEF new
<1>5. fetch'[p] = new
  BY <1>1, <1>2
<1> QED
  BY <1>1, <1>2, <1>3, <1>4, <1>5

\* A fetch under way goes on or ends.
LEMMA FetchMoves ==
  ASSUME PagesTypeOK, NEW p \in Pages, NEW q \in Queries, NEW v \in Fetch,
         fetch' = [fetch EXCEPT ![p][q] = v]
  PROVE  /\ fetch' \in [Pages -> [Queries -> Fetch]]
         /\ fetch'[p][q] = v
         /\ \A s \in Queries : s # q => fetch'[p][s] = fetch[p][s]
         /\ \A r \in Pages : r # p => fetch'[r] = fetch[r]
  BY WebTypeFacts

-----------------------------------------------------------------------------
(* Fetches. *)

LEMMA RefetchKeeps ==
  ASSUME WebInv, NEW p \in Pages, NEW q \in Queries, Refetch(p, q)
  PROVE  WebInv'
<1>1. /\ Ask(p, {q}) /\ outrun' = CaughtUp(p, {q})
      /\ UNCHANGED <<record, mounted, cache, loaded, marked, hidden, call,
                     acked, last>>
  BY DEF Refetch
<1>2. fetches' \in Nat
  BY CountedTypes, WebTypeFacts DEF Refetch, WebInv
<1>3. outrun' \subseteq Pages
  BY <1>1, WebTypeFacts DEF CaughtUp, WebInv
<1>4. PagesTypeOK'
  BY <1>1, <1>2, <1>3, AskedFetches, WebTypeFacts, WebTypesNext DEF WebInv
<1>5. ASSUME NEW r \in Pages PROVE Page(r)'
  <2>1. Page(r)
    BY DEF WebInv
  <2>2. CASE r = p /\ q = "document"
    <3>1. fetch'[r]["document"].phase = "asked"
      BY <1>1, <2>2, AskedFetches DEF WebInv
    <3> QED
      BY <1>1, <2>1, <3>1 DEF Page, Seen
  <2>3. CASE r # p \/ q # "document"
    <3>1. fetch'[r]["document"] = fetch[r]["document"]
      BY <1>1, <2>3, AskedFetches DEF WebInv
    <3>2. r \in outrun' <=> r \in outrun
      BY <1>1, <2>3 DEF CaughtUp
    <3> QED
      BY <1>1, <2>1, <3>1, <3>2, PageKept DEF DocumentKept
  <2> QED
    BY <2>2, <2>3
<1> QED
  BY <1>1, <1>4, <1>5, CallsKept DEF WebInv

LEMMA ReadKeeps ==
  ASSUME WebInv, NEW p \in Pages, NEW q \in Queries, Read(p, q)
  PROVE  WebInv'
<1> DEFINE v == [phase |-> "read", found |-> Part(q, record)]
<1>1. /\ fetch' = [fetch EXCEPT ![p][q] = v]
      /\ UNCHANGED <<record, mounted, cache, loaded, marked, hidden, call,
                     acked, outrun, last, fetches>>
  BY DEF Read
<1>2. /\ v \in Fetch /\ v.phase = "read"
      /\ q = "document" => /\ v.found.revision = record.revision
                           /\ v.found.status = record.status
  BY PartTypes, WebTypeFacts DEF WebInv, Fetch
<1> HIDE DEF v
<1>3. /\ fetch' \in [Pages -> [Queries -> Fetch]] /\ fetch'[p][q] = v
      /\ \A s \in Queries : s # q => fetch'[p][s] = fetch[p][s]
      /\ \A r \in Pages : r # p => fetch'[r] = fetch[r]
  BY <1>1, <1>2, FetchMoves DEF WebInv
<1>4. PagesTypeOK'
  BY <1>1, <1>3, WebTypeFacts, WebTypesNext DEF WebInv
<1>5. ASSUME NEW r \in Pages PROVE Page(r)'
  <2>1. Page(r)
    BY DEF WebInv
  <2>2. CASE r = p /\ q = "document"
    <3>1. record.revision \in Nat
      BY WebTypeFacts DEF WebInv, Documents
    <3> QED
      BY <1>1, <1>2, <1>3, <2>1, <2>2, <3>1 DEF Page, Seen
  <2>3. CASE r # p \/ q # "document"
    <3>1. fetch'[r]["document"] = fetch[r]["document"]
      BY <1>3, <2>3, WebTypeFacts DEF WebInv
    <3> QED
      BY <1>1, <2>1, <3>1, PageKept DEF DocumentKept
  <2> QED
    BY <2>2, <2>3
<1> QED
  BY <1>1, <1>4, <1>5, CallsKept DEF WebInv

\* What is shown now has every change acknowledged so far, or was outrun.
LEMMA ShowKeeps ==
  ASSUME WebInv, NEW p \in Pages, NEW q \in Queries, Show(p, q)
  PROVE  WebInv'
<1> DEFINE d == fetch[p][q].found
<1>1. /\ fetch[p][q].phase = "read"
      /\ cache' = [cache EXCEPT ![p][q] = d]
      /\ loaded' = [loaded EXCEPT ![p] = @ \cup {q}]
      /\ marked' = [marked EXCEPT ![p] = @ \ {q}]
      /\ hidden' = IF q = "document" THEN hidden \ {p} ELSE hidden
      /\ UNCHANGED <<record, mounted, call, acked, outrun, last, fetches>>
  BY DEF Show
<1>2. PICK wakes \in BOOLEAN :
        /\ wakes => q = "document"
        /\ fetch' = [fetch EXCEPT ![p] = [r \in Queries |->
                        IF r = q THEN NoFetch
                        ELSE IF wakes THEN Asked ELSE fetch[p][r]]]
  BY DEF Show
<1>3. d \in Documents
  BY WebTypeFacts DEF WebInv, Fetch
<1>p. fetch[p][q].found = d
  OBVIOUS
<1> HIDE DEF d
<1>4. /\ fetch' \in [Pages -> [Queries -> Fetch]] /\ fetch'[p][q] = NoFetch
      /\ q # "document" => fetch'[p]["document"] = fetch[p]["document"]
      /\ \A r \in Pages : r # p => fetch'[r] = fetch[r]
  <2> DEFINE new == [r \in Queries |->
                        IF r = q THEN NoFetch
                        ELSE IF wakes THEN Asked ELSE fetch[p][r]]
  <2>1. /\ new \in [Queries -> Fetch] /\ new[q] = NoFetch
        /\ q # "document" => new["document"] = fetch[p]["document"]
    BY <1>2, BlankTypes, WebTypeFacts DEF WebInv
  <2>2. fetch' = [fetch EXCEPT ![p] = new]
    BY <1>2
  <2> HIDE DEF new
  <2> QED
    BY <2>1, <2>2, WebTypeFacts DEF WebInv
<1>5. /\ cache' \in [Pages -> [Queries -> Documents]] /\ cache'[p][q] = d
      /\ \A s \in Queries : s # q => cache'[p][s] = cache[p][s]
      /\ \A r \in Pages : r # p => cache'[r] = cache[r]
  BY <1>1, <1>3, WebTypeFacts DEF WebInv
<1>6. /\ loaded' \in [Pages -> SUBSET Queries]
      /\ marked' \in [Pages -> SUBSET Queries]
      /\ loaded'[p] = loaded[p] \cup {q} /\ marked'[p] = marked[p] \ {q}
      /\ \A r \in Pages : r # p => loaded'[r] = loaded[r] /\ marked'[r] = marked[r]
  BY <1>1, WebTypeFacts DEF WebInv
<1>7. PagesTypeOK'
  <2>1. hidden' \subseteq Pages
    BY <1>1, WebTypeFacts DEF WebInv
  <2> QED
    BY <1>1, <1>4, <1>5, <1>6, <2>1, WebTypeFacts, WebTypesNext DEF WebInv
<1>8. ASSUME NEW r \in Pages PROVE Page(r)'
  <2>1. Page(r)
    BY DEF WebInv
  <2>2. CASE r = p /\ q = "document"
    <3>1. fetch'[r]["document"].phase = "idle" /\ cache'[r]["document"] = d
          /\ "document" \in loaded'[r]
      BY <1>4, <1>5, <1>6, <2>2, BlankTypes
    <3>2. /\ Seen(d) /\ acked[r] <= record.revision
          /\ d.revision >= acked[r] \/ r \in outrun
      BY <1>1, <1>p, <2>1, <2>2 DEF Page
    <3> QED
      BY <1>1, <3>1, <3>2 DEF Page, Seen
  <2>3. CASE r # p \/ q # "document"
    <3>1. /\ fetch'[r]["document"] = fetch[r]["document"]
          /\ cache'[r]["document"] = cache[r]["document"]
      BY <1>4, <1>5, <2>3, WebTypeFacts DEF WebInv
    <3>2. /\ "document" \in loaded'[r] <=> "document" \in loaded[r]
          /\ "document" \in marked'[r] <=> "document" \in marked[r]
          /\ r \in hidden' <=> r \in hidden
      BY <1>1, <1>6, <2>3
    <3> QED
      BY <1>1, <2>1, <3>1, <3>2, PageKept DEF DocumentKept
  <2> QED
    BY <2>2, <2>3
<1> QED
  BY <1>1, <1>7, <1>8, CallsKept DEF WebInv

LEMMA FetchFailsKeeps ==
  ASSUME WebInv, NEW p \in Pages, NEW q \in Queries, FetchFails(p, q)
  PROVE  WebInv'
<1>1. /\ fetch' = [fetch EXCEPT ![p][q] = NoFetch]
      /\ marked' = [marked EXCEPT ![p] = @ \cup ({q} \cap loaded[p])]
      /\ hidden' = IF q = "document" THEN hidden \cup {p} ELSE hidden
      /\ UNCHANGED <<record, mounted, cache, loaded, call, acked, outrun, last,
                     fetches>>
  BY DEF FetchFails
<1>2. /\ fetch' \in [Pages -> [Queries -> Fetch]] /\ fetch'[p][q] = NoFetch
      /\ \A s \in Queries : s # q => fetch'[p][s] = fetch[p][s]
      /\ \A r \in Pages : r # p => fetch'[r] = fetch[r]
  BY <1>1, BlankTypes, FetchMoves DEF WebInv
<1>3. /\ marked' \in [Pages -> SUBSET Queries]
      /\ marked'[p] = marked[p] \cup ({q} \cap loaded[p])
      /\ \A r \in Pages : r # p => marked'[r] = marked[r]
  BY <1>1, WebTypeFacts DEF WebInv
<1>4. PagesTypeOK'
  <2>1. hidden' \subseteq Pages
    BY <1>1, WebTypeFacts DEF WebInv
  <2> QED
    BY <1>1, <1>2, <1>3, <2>1, WebTypeFacts, WebTypesNext DEF WebInv
<1>5. ASSUME NEW r \in Pages PROVE Page(r)'
  <2>1. Page(r)
    BY DEF WebInv
  <2>2. CASE r = p /\ q = "document"
    <3>1. r \in hidden' /\ fetch'[r]["document"].phase = "idle"
      BY <1>1, <1>2, <2>2, BlankTypes
    <3> QED
      BY <1>1, <2>1, <3>1 DEF Page
  <2>3. CASE r # p \/ q # "document"
    <3>1. fetch'[r]["document"] = fetch[r]["document"]
      BY <1>2, <2>3, WebTypeFacts DEF WebInv
    <3>2. /\ "document" \in marked'[r] <=> "document" \in marked[r]
          /\ r \in hidden' <=> r \in hidden
      BY <1>1, <1>3, <2>3
    <3> QED
      BY <1>1, <2>1, <3>1, <3>2, PageKept DEF DocumentKept
  <2> QED
    BY <2>2, <2>3
<1> QED
  BY <1>1, <1>4, <1>5, CallsKept DEF WebInv

-----------------------------------------------------------------------------
(* Navigation. *)

LEMMA LeaveKeeps ==
  ASSUME WebInv, NEW p \in Pages, Leave(p)
  PROVE  WebInv'
<1>1. /\ mounted' = mounted \ {p}
      /\ call' = [c \in Calls |-> IF call[c].page = p
                                    THEN [call[c] EXCEPT !.watched = FALSE]
                                    ELSE call[c]]
      /\ UNCHANGED <<record, queryVars, acked, outrun, last>>
  BY DEF Leave
<1>2. fetches' \in Nat
  BY CountedTypes DEF Leave, WebInv
<1>3. ASSUME NEW c \in Calls
      PROVE  /\ call'[c] \in Change /\ call'[c].phase = call[c].phase
             /\ call'[c].expected = call[c].expected
             /\ call'[c].shown = call[c].shown
             /\ call'[c].page = call[c].page
  <2>1. call[c] \in Change
    BY WebTypeFacts DEF WebInv
  <2> QED
    BY <1>1, <2>1 DEF Change
<1>4. call' \in [Calls -> Change]
  BY <1>1, <1>3
<1>5. PagesTypeOK'
  BY <1>1, <1>2, <1>4, WebTypeFacts, WebTypesNext DEF WebInv, queryVars
<1>6. ASSUME NEW r \in Pages PROVE Page(r)'
  <2>1. Page(r) /\ r \in mounted' => r \in mounted
    BY <1>1 DEF WebInv
  <2> QED
    BY <1>1, <2>1 DEF Page, Seen, WebInv, queryVars
<1>7. ASSUME NEW c \in Calls PROVE Call(c)'
  BY <1>1, <1>3, CallKept DEF WebInv
<1> QED
  BY <1>1, <1>5, <1>6, <1>7 DEF WebInv

\* A document that was marked while its page was away is fetched.
LEMMA ReturnKeeps ==
  ASSUME WebInv, NEW p \in Pages, Return(p)
  PROVE  WebInv'
<1>1. /\ mounted' = mounted \cup {p}
      /\ UNCHANGED <<record, cache, loaded, marked, hidden, call, acked, last,
                     fetches>>
  BY DEF Return
<1>2. PICK due : /\ Ask(p, due) /\ outrun' = CaughtUp(p, due)
                 /\ /\ fetch[p]["document"].phase = "idle"
                    /\ Stale(p, "document")
                    => "document" \in due
  <2>1. PICK old \in SUBSET loaded[p] :
          LET due == {q \in Unfetched(p) : /\ Stale(p, q) \/ q \in old
                                           /\ q = "holds" => p \notin hidden}
          IN Ask(p, due) /\ outrun' = CaughtUp(p, due)
    BY DEF Return
  <2> QED
    BY <2>1 DEF Unfetched, Queries
<1>3. outrun' \subseteq Pages
  BY <1>2, WebTypeFacts DEF CaughtUp, WebInv
<1>4. PagesTypeOK'
  BY <1>1, <1>2, <1>3, AskedFetches, WebTypeFacts, WebTypesNext DEF WebInv
<1>5. ASSUME NEW r \in Pages PROVE Page(r)'
  <2>1. Page(r)
    BY DEF WebInv
  <2>2. CASE r = p /\ "document" \in due
    <3>1. fetch'[r]["document"].phase = "asked"
      BY <1>2, <2>2, AskedFetches DEF WebInv
    <3> QED
      BY <1>1, <2>1, <3>1 DEF Page, Seen
  <2>3. CASE r = p /\ "document" \notin due
    <3>1. fetch'[r]["document"] = fetch[r]["document"] /\ outrun' = outrun
      BY <1>2, <2>3, AskedFetches DEF WebInv, CaughtUp
    <3>2. fetch[r]["document"].phase = "idle" => "document" \notin marked[r]
      BY <1>2, <2>3 DEF Stale
    <3> QED
      BY <1>1, <2>1, <3>1, <3>2 DEF Page, Seen
  <2>4. CASE r # p
    <3>1. fetch'[r]["document"] = fetch[r]["document"]
      BY <1>2, <2>4, AskedFetches DEF WebInv
    <3>2. (r \in outrun' <=> r \in outrun) /\ (r \in mounted' <=> r \in mounted)
      BY <1>1, <1>2, <2>4 DEF CaughtUp
    <3> QED
      BY <1>1, <2>1, <3>1, <3>2, PageKept DEF DocumentKept
  <2> QED
    BY <2>2, <2>3, <2>4
<1> QED
  BY <1>1, <1>4, <1>5, CallsKept DEF WebInv

LEMMA ForgetKeeps ==
  ASSUME WebInv, NEW p \in Pages, NEW q \in Queries, Forget(p, q)
  PROVE  WebInv'
<1>1. /\ cache' = [cache EXCEPT ![p][q] = Blank]
      /\ loaded' = [loaded EXCEPT ![p] = @ \ {q}]
      /\ marked' = [marked EXCEPT ![p] = @ \ {q}]
      /\ hidden' = IF q = "document" THEN hidden \cup {p} ELSE hidden
      /\ fetch[p][q].phase = "idle"
      /\ UNCHANGED <<record, mounted, fetch, call, acked, outrun, last, fetches>>
  BY DEF Forget
<1>2. /\ cache' \in [Pages -> [Queries -> Documents]]
      /\ \A s \in Queries : s # q => cache'[p][s] = cache[p][s]
      /\ \A r \in Pages : r # p => cache'[r] = cache[r]
  BY <1>1, BlankTypes, WebTypeFacts DEF WebInv
<1>3. /\ loaded' \in [Pages -> SUBSET Queries]
      /\ marked' \in [Pages -> SUBSET Queries]
      /\ loaded'[p] = loaded[p] \ {q} /\ marked'[p] = marked[p] \ {q}
      /\ \A r \in Pages : r # p => loaded'[r] = loaded[r] /\ marked'[r] = marked[r]
  BY <1>1, WebTypeFacts DEF WebInv
<1>4. PagesTypeOK'
  <2>1. hidden' \subseteq Pages
    BY <1>1, WebTypeFacts DEF WebInv
  <2> QED
    BY <1>1, <1>2, <1>3, <2>1, WebTypeFacts, WebTypesNext DEF WebInv
<1>5. ASSUME NEW r \in Pages PROVE Page(r)'
  <2>1. Page(r)
    BY DEF WebInv
  <2>2. CASE r = p /\ q = "document"
    BY <1>1, <2>1, <2>2 DEF Page
  <2>3. CASE r # p \/ q # "document"
    <3>1. cache'[r]["document"] = cache[r]["document"]
      BY <1>2, <2>3, WebTypeFacts DEF WebInv
    <3>2. /\ "document" \in loaded'[r] <=> "document" \in loaded[r]
          /\ "document" \in marked'[r] <=> "document" \in marked[r]
          /\ r \in hidden' <=> r \in hidden
      BY <1>1, <1>3, <2>3
    <3> QED
      BY <1>1, <2>1, <3>1, <3>2, PageKept DEF DocumentKept
  <2> QED
    BY <2>2, <2>3
<1> QED
  BY <1>1, <1>4, <1>5, CallsKept DEF WebInv

LEMMA ReloadKeeps ==
  ASSUME WebInv, NEW p \in Pages, Reload(p)
  PROVE  WebInv'
<1> DEFINE blank == [q \in Queries |-> Blank]
           f == [q \in Queries |-> IF q = "document" THEN Asked ELSE NoFetch]
<1>1. /\ mounted' = mounted \cup {p}
      /\ cache' = [cache EXCEPT ![p] = blank]
      /\ loaded' = [loaded EXCEPT ![p] = {}]
      /\ marked' = [marked EXCEPT ![p] = {}]
      /\ fetch' = [fetch EXCEPT ![p] = f]
      /\ hidden' = hidden \cup {p}
      /\ acked' = [acked EXCEPT ![p] = 0]
      /\ outrun' = outrun \ {p}
      /\ call' = [c \in Calls |-> IF call[c].page = p
                                    THEN Unawaited(call[c]) ELSE call[c]]
      /\ UNCHANGED <<record, last>>
  BY DEF Reload
<1>2. fetches' \in Nat
  BY CountedTypes DEF Reload, WebInv
<1>3. /\ blank \in [Queries -> Documents]
      /\ f \in [Queries -> Fetch] /\ f["document"].phase = "asked"
  BY BlankTypes, WebTypeFacts DEF WebInv
<1> HIDE DEF blank, f
<1>4. ASSUME NEW c \in Calls
      PROVE  call'[c] \in Change /\ Call(c)'
  <2>1. call[c] \in Change /\ Call(c)
    BY WebTypeFacts DEF WebInv
  <2>2. CASE call[c].page = p
    BY <1>1, <2>1, <2>2, UnawaitedKept
  <2>3. CASE call[c].page # p
    BY <1>1, <2>1, <2>3, CallKept
  <2> QED
    BY <2>2, <2>3
<1>5. call' \in [Calls -> Change]
  BY <1>1, <1>4
<1>6. /\ cache' \in [Pages -> [Queries -> Documents]]
      /\ fetch' \in [Pages -> [Queries -> Fetch]] /\ fetch'[p] = f
      /\ acked' \in [Pages -> Nat] /\ acked'[p] = 0
      /\ loaded' \in [Pages -> SUBSET Queries]
      /\ marked' \in [Pages -> SUBSET Queries]
      /\ \A r \in Pages : r # p =>
            /\ fetch'[r] = fetch[r] /\ cache'[r] = cache[r]
            /\ acked'[r] = acked[r]
            /\ loaded'[r] = loaded[r] /\ marked'[r] = marked[r]
  BY <1>1, <1>3, WebTypeFacts DEF WebInv
<1>7. PagesTypeOK'
  BY <1>1, <1>2, <1>5, <1>6, WebTypeFacts, WebTypesNext DEF WebInv
<1>8. ASSUME NEW r \in Pages PROVE Page(r)'
  <2>1. CASE r = p
    <3>1. record.revision \in Nat
      BY WebTypeFacts DEF WebInv, Documents
    <3> QED
      BY <1>1, <1>3, <1>6, <2>1, <3>1 DEF Page
  <2>2. CASE r # p
    BY <1>1, <1>6, <2>2, PageKept DEF WebInv, DocumentKept
  <2> QED
    BY <2>1, <2>2
<1> QED
  BY <1>1, <1>4, <1>7, <1>8 DEF WebInv

-----------------------------------------------------------------------------
(* Changes. *)

\* A step that replaces one call by another, which is as it should be.
LEMMA CallMoves ==
  ASSUME WebInv, NEW c \in Calls, NEW m \in Change,
         call' = [call EXCEPT ![c] = m],
         UNCHANGED <<record, mounted, queryVars, acked, outrun, last, fetches>>,
         m.phase # "idle" => m.expected <= record.revision,
         m.phase = "sent" /\ m.expected = record.revision =>
            m.shown = record.status,
         m.phase = "done" => m.expected < record.revision /\ m.page \in Pages
  PROVE  WebInv'
<1>1. call \in [Calls -> Change]
  BY WebTypeFacts DEF WebInv
<1>2. /\ call' \in [Calls -> Change] /\ call'[c] = m
      /\ \A b \in Calls : b # c => call'[b] = call[b]
  BY <1>1
<1>3. PagesTypeOK'
  BY <1>2, WebTypeFacts, WebTypesNext DEF WebInv, queryVars
<1>4. ASSUME NEW b \in Calls PROVE Call(b)'
  <2>1. CASE b = c
    BY <1>2, <2>1 DEF Call
  <2>2. CASE b # c
    BY <1>2, <2>2, CallKept DEF WebInv
  <2> QED
    BY <2>1, <2>2
<1> QED
  BY <1>3, <1>4, PagesKept DEF WebInv

\* The revision and the status of the page are those that the call takes.
LEMMA SubmitKeeps ==
  ASSUME WebInv, NEW c \in Calls, NEW p \in Pages, NEW op \in Operations,
         NEW to \in Statuses, NEW hold \in Nat, Submit(c, p, op, to, hold)
  PROVE  WebInv'
<1> DEFINE d == cache[p]["document"]
           m == [phase |-> "sent", op |-> op, page |-> p,
                 watched |-> TRUE, expected |-> d.revision, to |-> to,
                 hold |-> hold, shown |-> d.status]
<1>1. /\ p \notin hidden /\ call' = [call EXCEPT ![c] = m]
      /\ UNCHANGED <<record, mounted, queryVars, acked, outrun, last, fetches>>
  BY DEF Submit
<1>2. d \in Documents /\ Seen(d)
  BY <1>1, WebTypeFacts DEF WebInv, Page
<1> HIDE DEF d
<1>3. /\ m \in Change /\ m.phase = "sent" /\ m.expected = d.revision
      /\ m.shown = d.status
  BY <1>2 DEF Change, Documents
<1> HIDE DEF m
<1> QED
  BY <1>1, <1>2, <1>3, CallMoves DEF Seen

LEMMA SubmissionsKeep ==
  ASSUME WebInv, NEW c \in Calls, NEW p \in Pages,
         SubmitHold(c, p) \/ SubmitRelease(c, p) \/ SubmitStatus(c, p)
  PROVE  WebInv'
<1>1. /\ "DRAFT" \in Statuses /\ 0 \in Nat
      /\ {"placeHold", "releaseHold", "changeStatus"} \subseteq Operations
  BY DEF Statuses, Operations
<1>2. CASE SubmitHold(c, p)
  BY <1>1, <1>2, SubmitKeeps DEF SubmitHold
<1>3. CASE SubmitRelease(c, p)
  <2>1. PICK h \in DOMAIN Shown(p) : Submit(c, p, "releaseHold", "DRAFT", h)
    BY <1>3 DEF SubmitRelease
  <2>2. cache[p]["holds"] \in Documents
    BY WebTypeFacts DEF WebInv, Queries
  <2>3. Shown(p) \in Seq(HoldStatuses)
    BY <2>2 DEF Shown, Documents
  <2>4. h \in Nat
    BY <2>3
  <2> QED
    BY <1>1, <2>1, <2>4, SubmitKeeps
<1>4. CASE SubmitStatus(c, p)
  <2>1. PICK to \in Wanted : Submit(c, p, "changeStatus", to, 0)
    BY <1>4 DEF SubmitStatus
  <2>2. to \in Statuses
    BY StatusAssumption
  <2> QED
    BY <1>1, <2>1, <2>2, SubmitKeeps
<1> QED
  BY <1>2, <1>3, <1>4

\* What a change leaves: the next revision, with types.
LEMMA ServerChanges ==
  ASSUME WebInv, NEW c \in Calls, Apply(c)
  PROVE  /\ record' \in Documents
         /\ record'.revision = record.revision + 1
         /\ call[c].expected = record.revision
<1>1. /\ record.status \in Statuses /\ record.revision \in Nat
      /\ record.holds \in Seq(HoldStatuses) /\ call[c] \in Change
  BY WebTypeFacts DEF WebInv, Documents
<1>2. call[c].to \in Statuses /\ "ACTIVE" \in HoldStatuses
      /\ "RELEASED" \in HoldStatuses
  BY <1>1 DEF Change, HoldStatuses
<1>3. ASSUME NEW s \in Statuses, NEW h \in Seq(HoldStatuses),
             Changed(s, h)
      PROVE  /\ record' \in Documents
             /\ record'.revision = record.revision + 1
  BY <1>1, <1>3 DEF Changed, Documents
<1>4. CASE PlaceHold(call[c].expected)
  <2>1. Append(record.holds, "ACTIVE") \in Seq(HoldStatuses)
    BY <1>1, <1>2
  <2> QED
    BY <1>1, <1>3, <1>4, <2>1 DEF PlaceHold, Claimed
<1>5. CASE ReleaseHold(call[c].expected, call[c].hold)
  <2>1. [record.holds EXCEPT ![call[c].hold] = "RELEASED"] \in Seq(HoldStatuses)
    <3> DEFINE S == record.holds
               h == call[c].hold
    <3>1. S \in Seq(HoldStatuses) /\ "RELEASED" \in HoldStatuses
      BY <1>1, <1>2
    <3> HIDE DEF S, h
    <3>2. /\ Len(S) \in Nat /\ S \in [1 .. Len(S) -> HoldStatuses]
      BY <3>1
    <3>3. [S EXCEPT ![h] = "RELEASED"] \in [1 .. Len(S) -> HoldStatuses]
      BY <3>1, <3>2
    <3>4. [S EXCEPT ![h] = "RELEASED"] \in Seq(HoldStatuses)
      BY <3>2, <3>3
    <3> QED
      BY <3>4 DEF S, h
  <2> QED
    BY <1>1, <1>3, <1>5, <2>1 DEF ReleaseHold, Claimed
<1>6. CASE ChangeStatus(call[c].expected, call[c].to)
  BY <1>1, <1>2, <1>3, <1>6 DEF ChangeStatus, Claimed
<1> QED
  BY <1>4, <1>5, <1>6 DEF Apply, Serve

\* Whatever anybody has seen is older than the document now.
LEMMA ApplyKeeps ==
  ASSUME WebInv, NEW c \in Calls, Apply(c)
  PROVE  WebInv'
<1>1. /\ record' \in Documents /\ record'.revision = record.revision + 1
      /\ call[c].expected = record.revision /\ record.revision \in Nat
  BY ServerChanges, WebTypeFacts DEF WebInv, Documents
<1>2. /\ call[c].phase = "sent" /\ call[c] \in Change
      /\ UNCHANGED <<mounted, queryVars, acked, outrun, fetches>>
      /\ last' = [shown |-> call[c].shown, found |-> record.status]
  BY WebTypeFacts DEF Apply, WebInv
<1>3. PICK m \in Change : /\ call' = [call EXCEPT ![c] = m]
                          /\ m.phase \in {"idle", "done"}
                          /\ m.phase = "done" =>
                                m.expected = record.revision /\ m.page \in Pages
  <2>1. CASE call[c].page = NoPage
    <3>1. call' = [call EXCEPT ![c] = NoCall] /\ NoCall.phase = "idle"
      BY <2>1, BlankTypes DEF Apply
    <3> QED
      BY <3>1, BlankTypes
  <2>2. CASE call[c].page # NoPage
    <3> DEFINE n == [call[c] EXCEPT !.phase = "done"]
    <3>1. /\ n \in Change /\ n.phase = "done"
          /\ n.expected = record.revision /\ n.page \in Pages
      BY <1>1, <1>2, <2>2 DEF Change
    <3>2. call' = [call EXCEPT ![c] = n]
      BY <2>2 DEF Apply
    <3> HIDE DEF n
    <3> QED
      BY <3>1, <3>2
  <2> QED
    BY <2>1, <2>2
<1>4. /\ call' \in [Calls -> Change] /\ call'[c] = m
      /\ \A b \in Calls : b # c => call'[b] = call[b]
  BY <1>3, WebTypeFacts DEF WebInv
<1>5. last.shown' = last.found' /\ last' \in [shown : Statuses, found : Statuses]
  <2>1. call[c].shown = record.status
    BY <1>1, <1>2 DEF WebInv, Call
  <2>2. record.status \in Statuses
    BY WebTypeFacts DEF WebInv, Documents
  <2> QED
    BY <1>2, <2>1, <2>2
<1>6. PagesTypeOK'
  BY <1>1, <1>2, <1>4, <1>5, WebTypeFacts, WebTypesNext DEF WebInv, queryVars
<1>7. ASSUME NEW r \in Pages PROVE Page(r)'
  <2>1. Page(r) /\ acked[r] \in Nat
    BY WebTypeFacts DEF WebInv
  <2>2. /\ cache[r]["document"].revision \in Nat
        /\ fetch[r]["document"].found.revision \in Nat
    BY WebTypeFacts DEF WebInv, Fetch, Documents
  <2> QED
    BY <1>1, <1>2, <2>1, <2>2 DEF Page, Seen, queryVars
<1>8. ASSUME NEW b \in Calls PROVE Call(b)'
  <2>1. CASE b = c
    BY <1>1, <1>3, <1>4, <2>1 DEF Call
  <2>2. CASE b # c
    <3>1. Call(b) /\ call[b].expected \in Nat /\ call'[b] = call[b]
      BY <1>4, <2>2, WebTypeFacts DEF WebInv, Change
    <3> QED
      BY <1>1, <3>1 DEF Call
  <2> QED
    BY <2>1, <2>2
<1> QED
  BY <1>5, <1>6, <1>7, <1>8 DEF WebInv

LEMMA GivingUpKeeps ==
  ASSUME WebInv, NEW c \in Calls, Reject(c) \/ LoseAnswer(c)
  PROVE  WebInv'
<1>1. /\ UNCHANGED <<record, mounted, queryVars, acked, outrun, last, fetches>>
      /\ call[c] \in Change /\ Call(c)
  BY WebTypeFacts DEF Reject, LoseAnswer, WebInv
<1>2. CASE call' = [call EXCEPT ![c] = NoCall]
  BY <1>1, <1>2, BlankTypes, CallMoves
<1>3. CASE call' = [call EXCEPT ![c] = Unawaited(call[c])] /\ call[c].phase = "sent"
  <2> DEFINE m == Unawaited(call[c])
  <2>1. /\ m \in Change /\ m.phase = "sent"
        /\ m.expected = call[c].expected /\ m.shown = call[c].shown
    BY <1>1, <1>3 DEF Unawaited, Change
  <2>2. call' = [call EXCEPT ![c] = m]
    BY <1>3
  <2> HIDE DEF m
  <2> QED
    BY <1>1, <1>3, <2>1, <2>2, CallMoves DEF Call
<1>4. CASE LoseAnswer(c) /\ call[c].phase # "sent"
  BY <1>2, <1>4 DEF LoseAnswer, Unawaited
<1> QED
  BY <1>2, <1>3, <1>4 DEF Reject, LoseAnswer

\* The document is asked for again, and none of its revisions that can be read
\* from then on is without the change; or it is marked for the user's return;
\* or an older answer to it is outrun.
LEMMA SucceedKeeps ==
  ASSUME WebInv, NEW c \in Calls, Succeed(c)
  PROVE  WebInv'
<1> DEFINE p == call[c].page
           e == call[c].expected + 1
           qs == Invalidated(call[c].op)
<1>1. /\ call[c].phase = "done" /\ call[c] \in Change
      /\ call' = [call EXCEPT ![c] = NoCall]
      /\ acked' = [acked EXCEPT ![p] = IF @ > call[c].expected THEN @ ELSE e]
      /\ marked' = [marked EXCEPT ![p] = @ \cup (qs \cap loaded[p])]
      /\ UNCHANGED <<record, mounted, cache, loaded, hidden, last, fetches>>
  BY WebTypeFacts DEF Succeed, WebInv
<1>2. "document" \in qs /\ qs \subseteq Queries
  BY DEF Invalidated, Queries
<1>3. PICK again :
        /\ Ask(p, again)
        /\ outrun' = IF fetch'[p]["document"].phase = "read"
                       THEN outrun \cup {p} ELSE CaughtUp(p, again)
        /\ p \in mounted /\ "document" \in loaded[p] => "document" \in again
  BY <1>2 DEF Succeed, Active
<1>4. /\ e \in Nat /\ e <= record.revision /\ record.revision \in Nat
      /\ p \in Pages
  <2>1. call[c].expected \in Nat /\ record.revision \in Nat /\ Call(c)
    BY <1>1, WebTypeFacts DEF WebInv, Change, Documents
  <2> QED
    BY <1>1, <2>1 DEF Call
<1> HIDE DEF p, e, qs
<1>5. /\ fetch' \in [Pages -> [Queries -> Fetch]]
      /\ \A r \in Pages : r # p => fetch'[r] = fetch[r]
      /\ "document" \in again => fetch'[p]["document"].phase = "asked"
      /\ "document" \notin again =>
            fetch'[p]["document"] = fetch[p]["document"]
  BY <1>3, <1>4, AskedFetches DEF WebInv
<1>6. /\ call' \in [Calls -> Change] /\ call'[c] = NoCall
      /\ \A b \in Calls : b # c => call'[b] = call[b]
  BY <1>1, BlankTypes, WebTypeFacts DEF WebInv
<1>7. /\ acked' \in [Pages -> Nat]
      /\ \A r \in Pages : r # p => acked'[r] = acked[r]
      /\ acked'[p] \in {acked[p], e}
  BY <1>1, <1>4, WebTypeFacts DEF WebInv
<1>8. /\ marked' \in [Pages -> SUBSET Queries]
      /\ marked'[p] = marked[p] \cup (qs \cap loaded[p])
      /\ \A r \in Pages : r # p => marked'[r] = marked[r]
  BY <1>1, <1>2, <1>4, WebTypeFacts DEF WebInv
<1>9. /\ outrun' \subseteq Pages
      /\ \A r \in Pages : r # p => (r \in outrun' <=> r \in outrun)
  BY <1>3, <1>4, WebTypeFacts DEF WebInv, CaughtUp
<1>10. PagesTypeOK'
  BY <1>1, <1>5, <1>6, <1>7, <1>8, <1>9, WebTypeFacts, WebTypesNext DEF WebInv
<1>11. ASSUME NEW r \in Pages PROVE Page(r)'
  <2>1. Page(r)
    BY DEF WebInv
  <2>2. CASE r = p /\ "document" \in again
    <3>1. acked'[r] <= record.revision /\ fetch'[r]["document"].phase = "asked"
      BY <1>4, <1>5, <1>7, <2>1, <2>2 DEF Page
    <3> QED
      BY <1>1, <2>1, <3>1 DEF Page, Seen
  <2>3. CASE r = p /\ "document" \notin again
    <3>1. /\ acked'[r] <= record.revision
          /\ fetch'[r]["document"] = fetch[r]["document"]
      BY <1>4, <1>5, <1>7, <2>1, <2>3 DEF Page
    <3>2. fetch[r]["document"].phase = "read" => r \in outrun'
      BY <1>3, <2>3, <3>1
    <3>3. r \notin hidden => r \notin mounted /\ "document" \in marked'[r]
      BY <1>2, <1>3, <1>8, <2>1, <2>3 DEF Page
    <3> QED
      BY <1>1, <2>1, <3>1, <3>2, <3>3 DEF Page, Seen
  <2>4. CASE r # p
    BY <1>1, <1>5, <1>7, <1>8, <1>9, <2>1, <2>4, PageKept DEF DocumentKept
  <2> QED
    BY <2>2, <2>3, <2>4
<1>12. ASSUME NEW b \in Calls PROVE Call(b)'
  <2>1. CASE b = c
    BY <1>6, <2>1, BlankTypes DEF Call
  <2>2. CASE b # c
    BY <1>1, <1>6, <2>2, CallKept DEF WebInv
  <2> QED
    BY <2>1, <2>2
<1> QED
  BY <1>1, <1>10, <1>11, <1>12 DEF WebInv

-----------------------------------------------------------------------------

LEMMA WebInitInv ==
  ASSUME PagesInit
  PROVE  WebInv
<1>1. /\ record \in Documents /\ record.revision = 0
  <2>1. /\ record \in [status : Initially, revision : {0}, holds : {<<>>}]
        /\ Initially \subseteq Statuses
    BY StatusAssumption DEF PagesInit
  <2>2. PICK s \in Initially :
          record = [status |-> s, revision |-> 0, holds |-> <<>>]
    BY <2>1
  <2>3. <<>> \in Seq(HoldStatuses) /\ s \in Statuses /\ 0 \in Nat
    BY <2>1, <2>2
  <2>4. [status |-> s, revision |-> 0, holds |-> <<>>] \in Documents
    BY <2>3 DEF Documents
  <2> QED
    BY <2>2, <2>4
<1>2. /\ mounted = Pages
      /\ cache = [p \in Pages |-> [q \in Queries |-> Part(q, record)]]
      /\ loaded = [p \in Pages |-> Queries]
      /\ marked = [p \in Pages |-> {}]
      /\ fetch = [p \in Pages |-> [q \in Queries |-> NoFetch]]
      /\ hidden = {} /\ fetches = 0
      /\ call = [c \in Calls |-> NoCall]
      /\ acked = [p \in Pages |-> 0]
      /\ outrun = {}
      /\ last = [shown |-> "DRAFT", found |-> "DRAFT"]
  BY DEF PagesInit
<1>3. PagesTypeOK
  BY <1>1, <1>2, BlankTypes, PartTypes
  DEF PagesTypeOK, Fetch, Change, Statuses
<1>4. ASSUME NEW p \in Pages PROVE Page(p)
  <2>1. "document" \in Queries
    BY DEF Queries
  <2>2. /\ cache[p]["document"].revision = record.revision
        /\ cache[p]["document"].status = record.status
    BY <1>1, <1>2, <2>1, PartTypes
  <2> QED
    BY <1>1, <1>2, <2>1, <2>2, BlankTypes DEF Page, Seen
<1>5. ASSUME NEW c \in Calls PROVE Call(c)
  BY <1>2, BlankTypes DEF Call
<1> QED
  BY <1>2, <1>3, <1>4, <1>5 DEF WebInv

LEMMA WebStepInv ==
  ASSUME WebInv, [PagesNext]_pageVars
  PROVE  WebInv'
<1>1. ASSUME NEW p \in Pages, PageStep(p) PROVE WebInv'
  BY <1>1, LeaveKeeps, ReturnKeeps, ReloadKeeps, RefetchKeeps, ReadKeeps,
     ShowKeeps, FetchFailsKeeps, ForgetKeeps, SubmissionsKeep DEF PageStep
<1>2. ASSUME NEW c \in Calls, CallStep(c) PROVE WebInv'
  BY <1>2, ApplyKeeps, GivingUpKeeps, SucceedKeeps DEF CallStep
<1>3. CASE UNCHANGED pageVars
  <2>1. UNCHANGED <<record, mounted, queryVars, call, acked, outrun, last,
                    fetches>>
    BY <1>3 DEF pageVars
  <2>2. PagesTypeOK'
    BY <2>1, WebTypeFacts, WebTypesNext DEF WebInv, queryVars
  <2> QED
    BY <2>1, <2>2, CallsKept, PagesKept DEF WebInv
<1> QED
  BY <1>1, <1>2, <1>3 DEF PagesNext

LEMMA WebInvariance == PagesSpec => []WebInv
<1>1. PagesInit => WebInv
  BY WebInitInv
<1>2. WebInv /\ [PagesNext]_pageVars => WebInv'
  BY WebStepInv
<1> QED
  BY <1>1, <1>2, PTL DEF PagesSpec

\* The types hold for any number of tabs and calls.
THEOREM PageTypes == PagesSpec => []PagesTypeOK
<1>1. WebInv => PagesTypeOK
  BY DEF WebInv
<1> QED
  BY <1>1, WebInvariance, PTL

\* A change is made to the document its user looked at, and no call names a
\* revision the document has not had: the pages are clients as the theorems
\* about RecordLifecycle want them.
THEOREM PagesActOnWhatTheyShow == PagesSpec => []ActsOnWhatWasShown
<1>1. WebInv => ActsOnWhatWasShown
  BY DEF WebInv, Call, ActsOnWhatWasShown
<1> QED
  BY <1>1, WebInvariance, PTL

\* A page that was told of its change goes on to show it, whatever responses
\* overtake each other, whatever fails, and after its user went away and came
\* back: unless, when the success arrived, an older answer was under way that
\* no invalidation could cancel, and the document was not asked for again since.
THEOREM PagesShowTheirChanges == PagesSpec => []OwnChangesAreShown
<1>1. WebInv => OwnChangesAreShown
  BY WebTypeFacts DEF WebInv, Page, OwnChangesAreShown
<1> QED
  BY <1>1, WebInvariance, PTL

=============================================================================
