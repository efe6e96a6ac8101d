------------------------ MODULE ProcessingJobsProofs ------------------------
(* Proofs about ProcessingJobs for every set of requests, every limit on   *)
(* attempts, every lease and every policy of retry delays.  The argument:  *)
(* attempts only grow, so a request that acts on an old reading of the row *)
(* can overestimate what is left, never what is used up.                   *)
EXTENDS ProcessingJobs, FiniteSetTheorems, TLAPS

\* Phases in which a request holds the id of a row.
WithJob == {"requeue", "bury", "claim", "start", "executing", "saveResult",
            "saveSummary", "succeed", "completed", "failed"}

\* Phases after the claim.
Claimed == {"start", "executing", "saveResult", "saveSummary", "succeed",
            "completed", "failed"}

\* What a request remembers is about a row that exists, was true when it was
\* read, and bounds from below what the row says now.
Slot(m) ==
    /\ m.now <= clock
    /\ m.phase \in WithJob => m.job \in DOMAIN jobs
    /\ m.phase = "bury" => MaxAttempts <= jobs[m.job].attempts
    /\ m.phase = "claim" => /\ m.status \in Runnable
                            /\ 1 <= m.attempt
                            /\ m.attempt <= jobs[m.job].attempts + 1
    /\ m.phase \in Claimed => /\ 1 <= m.attempt
                              /\ m.attempt <= jobs[m.job].attempts

\* The requests that found job j with attempts left and have not claimed yet.
Claimers(j) == {w \in Workers : work[w].phase = "claim" /\ work[w].job = j}

\* Each of them may still use one attempt.
AttemptsReserved ==
    \A j \in DOMAIN jobs :
        jobs[j].attempts + Cardinality(Claimers(j)) + 1
            <= MaxAttempts + Cardinality(Workers)

IInv == /\ TypeOK
        /\ \A w \in Workers : Slot(work[w])
        /\ DeadIsExhausted
        /\ RunningCanBeReclaimed
        /\ OneRunnableJob
        /\ AttemptsReserved

-----------------------------------------------------------------------------
(* Types. *)

LEMMA IdleType == Idle \in Request
  BY DEF Idle, Request, Phases, JobStatuses, Runnable, Extracted

LEMMA NewJobType == ASSUME clock \in Nat PROVE NewJob \in Job
  BY DEF NewJob, Job, JobStatuses, Runnable

LEMMA InitTypeOK == Init => TypeOK
<1> SUFFICES ASSUME Init PROVE TypeOK
  OBVIOUS
<1>1. clock \in Nat /\ NewJob \in Job
  BY NewJobType DEF Init
<1>2. [NewJob EXCEPT !.status = "SUCCEEDED", !.attempts = 1] \in Job
  BY <1>1 DEF Job, JobStatuses
<1>3. jobs \in Seq(Job)
  <2>1. PICK j \in Job : jobs = <<j>>
    BY <1>1, <1>2 DEF Init
  <2> QED
    BY <2>1
<1>4. result \in Results /\ summary \in BOOLEAN
  BY DEF Init, Results, Extracted
<1> QED
  BY <1>1, <1>3, <1>4, IdleType DEF Init, TypeOK

\* A row written by id is a row.
LEMMA UnlockedType ==
  ASSUME TypeOK, NEW j \in DOMAIN jobs, NEW s \in JobStatuses, NEW due \in Nat
  PROVE  /\ Unlocked(j, s, due) \in Seq(Job)
         /\ DOMAIN Unlocked(j, s, due) = DOMAIN jobs
         /\ Unlocked(j, s, due)[j].status = s
         /\ Unlocked(j, s, due)[j].attempts = jobs[j].attempts
         /\ \A i \in DOMAIN jobs : i # j => Unlocked(j, s, due)[i] = jobs[i]
<1>1. jobs[j] \in Job
  BY DEF TypeOK
<1> DEFINE row == [jobs[j] EXCEPT !.status = s, !.nextAttemptAt = due,
                                  !.locked = FALSE, !.lockedAt = 0]
<1>2. row \in Job /\ row.status = s /\ row.attempts = jobs[j].attempts
  BY <1>1 DEF Job
<1>3. Unlocked(j, s, due) = [jobs EXCEPT ![j] = row]
  BY DEF Unlocked
<1> HIDE DEF row
<1> QED
  BY <1>2, <1>3 DEF TypeOK

\* Which status the catch writes, and when the row is due again.
LEMMA FailureType ==
  ASSUME TypeOK, NEW w \in Workers, work[w].phase = "failed", Slot(work[w])
  PROVE  /\ FailureStatus(w) \in {"FAILED", "DEAD", "RETRY_PENDING"}
         /\ FailureStatus(w) = "DEAD" => MaxAttempts <= work[w].attempt
         /\ FailureStatus(w) = "RETRY_PENDING" =>
              clock + RetryDelay[work[w].attempt] \in Nat
<1>1. work[w] \in Request /\ clock \in Nat
  BY DEF TypeOK
<1>2. 1 <= work[w].attempt /\ work[w].attempt \in Nat
  BY <1>1 DEF Slot, Claimed, Request
<1>3. MaxAttempts \in Nat
  BY LimitAssumption
<1>4. work[w].attempt < MaxAttempts => RetryDelay[work[w].attempt] \in Nat
  BY <1>2, <1>3, DelayAssumption
<1> QED
  BY <1>1, <1>2, <1>3, <1>4 DEF FailureStatus

LEMMA StepTypeOK ==
  ASSUME TypeOK, NEW w \in Workers, Slot(work[w]), Step(w)
  PROVE  TypeOK'
<1>a. /\ work[w] \in Request /\ work \in [Workers -> Request]
      /\ jobs \in Seq(Job) /\ clock \in Nat
  BY DEF TypeOK
<1>b. ASSUME Leave(w) PROVE work' \in [Workers -> Request]
  BY <1>a, <1>b, IdleType DEF Leave
<1>c. ASSUME NEW p \in Phases, Goto(w, p) PROVE work' \in [Workers -> Request]
  BY <1>a, <1>c DEF Goto, Request
<1>d. ASSUME NEW m \in Request, work' = [work EXCEPT ![w] = m]
      PROVE  work' \in [Workers -> Request]
  BY <1>a, <1>d
<1>1. CASE Ask(w)
  BY <1>1, <1>c DEF Ask, Phases, TypeOK
<1>2. CASE ReadResult(w)
  BY <1>2, <1>c DEF ReadResult, Phases, TypeOK
<1>3. CASE DeleteLegacy(w)
  BY <1>3, <1>b, <1>c DEF DeleteLegacy, Phases, Results, TypeOK
<1>4. CASE FindActive(w)
  <2>1. ASSUME NEW j \in RunnableJobs, NEW p \in {"requeue", "process"}
        PROVE  [work[w] EXCEPT !.phase = p, !.job = j] \in Request
    <3>1. j \in Nat
      BY <1>a DEF RunnableJobs
    <3> QED
      BY <1>a, <3>1 DEF Request, Phases
  <2>2. ASSUME NEW j \in RunnableJobs
        PROVE (IF jobs[j].status = "RETRY_PENDING" THEN "requeue"
                 ELSE "process") \in {"requeue", "process"}
    OBVIOUS
  <2>3. work' \in [Workers -> Request]
    BY <1>4, <1>c, <1>d, <2>1, <2>2 DEF FindActive, Phases
  <2> QED
    BY <1>4, <2>3 DEF FindActive, TypeOK
<1>5. CASE Requeue(w)
  <2> DEFINE j == work[w].job
             row == [jobs[j] EXCEPT !.status = "QUEUED",
                                    !.nextAttemptAt = clock]
  <2>1. j \in DOMAIN jobs /\ jobs[j] \in Job
    BY <1>5, <1>a DEF Requeue, Slot, WithJob
  <2>2. row \in Job
    BY <1>a, <2>1 DEF Job, JobStatuses, Runnable
  <2>3. jobs' = [jobs EXCEPT ![j] = row] \/ jobs' = jobs
    BY <1>5 DEF Requeue
  <2> HIDE DEF row
  <2>4. jobs' \in Seq(Job)
    BY <1>a, <2>1, <2>2, <2>3
  <2> QED
    BY <1>5, <1>b, <1>c, <2>4 DEF Requeue, Phases, TypeOK
<1>6. CASE Create(w)
  <2>1. jobs' \in Seq(Job)
    BY <1>6, <1>a, NewJobType DEF Create
  <2> QED
    BY <1>6, <1>c, <2>1 DEF Create, Phases, TypeOK
<1>7. CASE FindJob(w)
  <2>1. ASSUME NEW j \in DOMAIN jobs, NEW p \in {"bury", "claim"}
        PROVE  [work[w] EXCEPT !.phase = p, !.job = j,
                   !.status = jobs[j].status,
                   !.attempt = jobs[j].attempts + 1, !.now = clock] \in Request
    <3>1. j \in Nat /\ jobs[j] \in Job
      BY <1>a
    <3>2. jobs[j].attempts + 1 \in Nat /\ jobs[j].status \in JobStatuses
      BY <3>1 DEF Job
    <3> QED
      BY <1>a, <3>1, <3>2 DEF Request, Phases
  <2>2. ASSUME NEW j \in DOMAIN jobs
        PROVE (IF jobs[j].attempts >= MaxAttempts THEN "bury" ELSE "claim")
                \in {"bury", "claim"}
    OBVIOUS
  <2>3. work' \in [Workers -> Request]
    BY <1>7, <1>b, <1>d, <2>1, <2>2 DEF FindJob
  <2> QED
    BY <1>7, <2>3 DEF FindJob, TypeOK
<1>8. CASE Bury(w)
  <2>1. work[w].job \in DOMAIN jobs
    BY <1>8 DEF Bury, Slot, WithJob
  <2>2. jobs[work[w].job].nextAttemptAt \in Nat /\ "DEAD" \in JobStatuses
    <3>1. jobs[work[w].job] \in Job
      BY <1>a, <2>1
    <3> QED
      BY <3>1 DEF Job, JobStatuses
  <2>3. jobs' \in Seq(Job)
    BY <1>8, <2>1, <2>2, UnlockedType DEF Bury
  <2> QED
    BY <1>8, <1>b, <2>3 DEF Bury, TypeOK
<1>9. CASE Claim(w)
  <2> DEFINE j == work[w].job
             row == [jobs[j] EXCEPT !.status = "RUNNING",
                                    !.attempts = jobs[j].attempts + 1,
                                    !.locked = TRUE, !.lockedAt = work[w].now]
  <2>1. j \in DOMAIN jobs /\ jobs[j] \in Job
    BY <1>9, <1>a DEF Claim, Slot, WithJob
  <2>2. row \in Job
    <3>1. jobs[j].attempts + 1 \in Nat /\ work[w].now \in Nat
      BY <1>a, <2>1 DEF Job, Request
    <3>2. "RUNNING" \in JobStatuses
      BY DEF JobStatuses, Runnable
    <3> QED
      BY <2>1, <3>1, <3>2 DEF Job
  <2>3. jobs' = [jobs EXCEPT ![j] = row] \/ jobs' = jobs
    BY <1>9 DEF Claim
  <2> HIDE DEF row
  <2>4. jobs' \in Seq(Job)
    BY <1>a, <2>1, <2>2, <2>3
  <2> QED
    BY <1>9, <1>b, <1>c, <2>4 DEF Claim, Phases, TypeOK
<1>10. CASE Start(w)
  BY <1>10, <1>c DEF Start, Phases, TypeOK
<1>11. CASE Execute(w)
  <2>1. ASSUME NEW found \in Extracted
        PROVE  [work[w] EXCEPT !.phase = "saveResult", !.found = found] \in Request
    BY <1>a DEF Request, Phases
  <2>2. ASSUME NEW b \in BOOLEAN
        PROVE  [work[w] EXCEPT !.phase = "failed", !.retryable = b] \in Request
    BY <1>a DEF Request, Phases
  <2>3. work' \in [Workers -> Request]
    BY <1>11, <1>d, <2>1, <2>2 DEF Execute
  <2> QED
    BY <1>11, <2>3 DEF Execute, TypeOK
<1>12. CASE SaveResult(w)
  <2>1. work[w].found \in Results
    BY <1>a DEF Request, Results
  <2> QED
    BY <1>12, <1>c, <2>1 DEF SaveResult, Phases, TypeOK
<1>13. CASE SaveSummary(w)
  BY <1>13, <1>c DEF SaveSummary, Phases, TypeOK
<1>14. CASE Succeed(w)
  <2>1. work[w].job \in DOMAIN jobs
    BY <1>14 DEF Succeed, Slot, WithJob
  <2>2. jobs[work[w].job].nextAttemptAt \in Nat /\ "SUCCEEDED" \in JobStatuses
    <3>1. jobs[work[w].job] \in Job
      BY <1>a, <2>1
    <3> QED
      BY <3>1 DEF Job, JobStatuses
  <2>3. jobs' \in Seq(Job)
    BY <1>14, <2>1, <2>2, UnlockedType DEF Succeed
  <2> QED
    BY <1>14, <1>c, <2>3 DEF Succeed, Phases, TypeOK
<1>15. CASE AuditCompleted(w)
  BY <1>15, <1>b DEF AuditCompleted, TypeOK
<1>16. CASE Throw(w)
  <2>1. [work[w] EXCEPT !.phase = "failed", !.retryable = TRUE] \in Request
    BY <1>a DEF Request, Phases
  <2> QED
    BY <1>16, <1>d, <2>1 DEF Throw, TypeOK
<1>17. CASE RecordFailure(w)
  <2>1. work[w].job \in DOMAIN jobs
    BY <1>17 DEF RecordFailure, Slot, WithJob
  <2>2. work[w].now \in Nat
    BY <1>a DEF Request
  <2>3. FailureStatus(w) \in {"FAILED", "DEAD", "RETRY_PENDING"}
        /\ (FailureStatus(w) = "RETRY_PENDING" =>
              clock + RetryDelay[work[w].attempt] \in Nat)
    BY <1>17, FailureType DEF RecordFailure
  <2>4. FailureStatus(w) \in JobStatuses
    BY <2>3 DEF JobStatuses, Runnable
  <2>5. \E due \in Nat : jobs' = Unlocked(work[w].job, FailureStatus(w), due)
                         \/ jobs' = jobs
    BY <1>17, <2>2, <2>3 DEF RecordFailure
  <2>6. jobs' \in Seq(Job)
    <3>1. PICK due \in Nat : jobs' = Unlocked(work[w].job, FailureStatus(w), due)
                              \/ jobs' = jobs
      BY <2>5
    <3>2. Unlocked(work[w].job, FailureStatus(w), due) \in Seq(Job)
      BY <2>1, <2>4, UnlockedType
    <3> QED
      BY <1>a, <3>1, <3>2
  <2> QED
    BY <1>17, <1>b, <2>6 DEF RecordFailure, TypeOK
<1>18. CASE Crash(w)
  BY <1>18, <1>b DEF Crash, TypeOK
<1> QED
  BY <1>1, <1>2, <1>3, <1>4, <1>5, <1>6, <1>7, <1>8, <1>9, <1>10, <1>11,
     <1>12, <1>13, <1>14, <1>15, <1>16, <1>17, <1>18 DEF Step

-----------------------------------------------------------------------------
(* What one step of a request can do to a row. *)

Kept(j) == j \in DOMAIN jobs /\ jobs'[j] = jobs[j]

Created(w, j) == /\ work[w].phase = "create"
                 /\ j \notin DOMAIN jobs /\ j = Len(jobs) + 1
                 /\ jobs'[j] = NewJob
                 /\ RunnableJobs = {}

\* The row leaves the runnable ones; DEAD only when its attempts are used up.
Closed(j) == /\ j \in DOMAIN jobs
             /\ jobs'[j].attempts = jobs[j].attempts
             /\ jobs'[j].status \in JobStatuses \ Runnable
             /\ jobs'[j].status = "DEAD" => MaxAttempts <= jobs[j].attempts

\* The row waits for its next attempt, and the index allowed it.
Waits(w, j) == /\ work[w].phase \in {"requeue", "failed"}
               /\ work[w].job = j
               /\ j \in DOMAIN jobs
               /\ jobs'[j].attempts = jobs[j].attempts
               /\ jobs'[j].status \in {"QUEUED", "RETRY_PENDING"}
               /\ RunnableJobs \subseteq {j}

Taken(w, j) == /\ j \in DOMAIN jobs
               /\ work[w].phase = "claim" /\ work[w].job = j
               /\ work'[w].phase = "start"
               /\ jobs[j].status \in Runnable
               /\ jobs'[j].attempts = jobs[j].attempts + 1
               /\ jobs'[j].status = "RUNNING"
               /\ jobs'[j].locked
               /\ jobs'[j].lockedAt = work[w].now

LEMMA RowsAfterStep ==
  ASSUME TypeOK, NEW w \in Workers, Slot(work[w]), Step(w)
  PROVE  /\ DOMAIN jobs \subseteq DOMAIN jobs'
         /\ \A j \in DOMAIN jobs' : \/ Kept(j) \/ Created(w, j) \/ Closed(j)
                                    \/ Waits(w, j) \/ Taken(w, j)
<1> DEFINE Rows == /\ DOMAIN jobs \subseteq DOMAIN jobs'
                   /\ \A j \in DOMAIN jobs' :
                        \/ Kept(j) \/ Created(w, j) \/ Closed(j)
                        \/ Waits(w, j) \/ Taken(w, j)
           k == work[w].job
<1>a. jobs \in Seq(Job) /\ work[w] \in Request /\ work \in [Workers -> Request]
  BY DEF TypeOK
<1>b. ASSUME UNCHANGED jobs PROVE Rows
  BY <1>b DEF Kept
<1>c. ASSUME k \in DOMAIN jobs, DOMAIN jobs' = DOMAIN jobs,
             \A i \in DOMAIN jobs : i # k => jobs'[i] = jobs[i],
             Closed(k) \/ Waits(w, k) \/ Taken(w, k)
      PROVE  Rows
  BY <1>c DEF Kept
<1>1. CASE Requeue(w)
  <2>1. CASE UNCHANGED jobs
    BY <2>1, <1>b
  <2>2. CASE jobs' # jobs
    <3>1. k \in DOMAIN jobs /\ jobs[k] \in Job
      BY <1>1, <1>a DEF Requeue, Slot, WithJob
    <3>2. /\ IndexAllows(k, "QUEUED")
          /\ jobs' = [jobs EXCEPT ![k] = [@ EXCEPT !.status = "QUEUED",
                                                  !.nextAttemptAt = clock]]
      BY <1>1, <2>2 DEF Requeue
    <3>3. /\ jobs'[k].status = "QUEUED" /\ jobs'[k].attempts = jobs[k].attempts
          /\ DOMAIN jobs' = DOMAIN jobs
          /\ \A i \in DOMAIN jobs : i # k => jobs'[i] = jobs[i]
      BY <1>a, <3>1, <3>2 DEF Job
    <3>4. Waits(w, k)
      BY <1>1, <3>1, <3>2, <3>3 DEF Requeue, Waits, IndexAllows, Runnable
    <3> QED
      BY <1>c, <3>1, <3>3, <3>4
  <2> QED
    BY <2>1, <2>2
<1>2. CASE Create(w)
  <2>1. CASE RunnableJobs = {}
    <3>1. jobs' = Append(jobs, NewJob)
      BY <1>2, <2>1 DEF Create
    <3>2. /\ DOMAIN jobs' = 1 .. Len(jobs) + 1
          /\ DOMAIN jobs = 1 .. Len(jobs)
          /\ jobs'[Len(jobs) + 1] = NewJob
          /\ \A i \in DOMAIN jobs : jobs'[i] = jobs[i]
          /\ Len(jobs) \in Nat
      BY <1>a, <3>1
    <3> QED
      BY <1>2, <2>1, <3>2 DEF Create, Kept, Created
  <2>2. CASE RunnableJobs # {}
    BY <1>2, <2>2, <1>b DEF Create
  <2> QED
    BY <2>1, <2>2
<1>3. CASE Bury(w)
  <2>1. k \in DOMAIN jobs /\ jobs[k] \in Job /\ MaxAttempts <= jobs[k].attempts
    BY <1>3, <1>a DEF Bury, Slot, WithJob
  <2>2. jobs[k].nextAttemptAt \in Nat /\ "DEAD" \in JobStatuses \ Runnable
    BY <2>1 DEF Job, JobStatuses, Runnable
  <2>3. jobs' = Unlocked(k, "DEAD", jobs[k].nextAttemptAt)
    BY <1>3 DEF Bury
  <2>4. /\ jobs'[k].status = "DEAD" /\ jobs'[k].attempts = jobs[k].attempts
        /\ DOMAIN jobs' = DOMAIN jobs
        /\ \A i \in DOMAIN jobs : i # k => jobs'[i] = jobs[i]
    BY <1>a, <2>1, <2>2, <2>3, UnlockedType
  <2> QED
    BY <1>c, <2>1, <2>2, <2>4 DEF Closed
<1>4. CASE Claim(w)
  <2>1. CASE UNCHANGED jobs
    BY <2>1, <1>b
  <2>2. CASE jobs' # jobs
    <3>1. k \in DOMAIN jobs /\ jobs[k] \in Job /\ work[w].status \in Runnable
      BY <1>4, <1>a DEF Claim, Slot, WithJob
    <3>2. /\ MayClaim(w)
          /\ Goto(w, "start")
          /\ jobs' = [jobs EXCEPT ![k] = [@ EXCEPT
                        !.status = "RUNNING",
                        !.attempts = jobs[k].attempts + 1,
                        !.locked = TRUE, !.lockedAt = work[w].now]]
      BY <1>4, <2>2 DEF Claim
    <3>3. /\ jobs'[k].status = "RUNNING"
          /\ jobs'[k].attempts = jobs[k].attempts + 1
          /\ jobs'[k].locked /\ jobs'[k].lockedAt = work[w].now
          /\ DOMAIN jobs' = DOMAIN jobs
          /\ \A i \in DOMAIN jobs : i # k => jobs'[i] = jobs[i]
      BY <1>a, <3>1, <3>2 DEF Job
    <3>4. work'[w].phase = "start"
      BY <1>a, <3>2 DEF Goto, Request
    <3>5. Taken(w, k)
      BY <1>4, <3>1, <3>2, <3>3, <3>4 DEF Taken, MayClaim, Claim
    <3> QED
      BY <1>c, <3>1, <3>3, <3>5
  <2> QED
    BY <2>1, <2>2
<1>5. CASE Succeed(w)
  <2>1. k \in DOMAIN jobs /\ jobs[k] \in Job
    BY <1>5, <1>a DEF Succeed, Slot, WithJob
  <2>2. /\ jobs[k].nextAttemptAt \in Nat
        /\ "SUCCEEDED" \in JobStatuses \ Runnable
    BY <2>1 DEF Job, JobStatuses, Runnable
  <2>3. jobs' = Unlocked(k, "SUCCEEDED", jobs[k].nextAttemptAt)
    BY <1>5 DEF Succeed
  <2>4. /\ jobs'[k].status = "SUCCEEDED" /\ jobs'[k].attempts = jobs[k].attempts
        /\ DOMAIN jobs' = DOMAIN jobs
        /\ \A i \in DOMAIN jobs : i # k => jobs'[i] = jobs[i]
    BY <1>a, <2>1, <2>2, <2>3, UnlockedType
  <2> QED
    BY <1>c, <2>1, <2>2, <2>4 DEF Closed
<1>6. CASE RecordFailure(w)
  <2>1. CASE UNCHANGED jobs
    BY <2>1, <1>b
  <2>2. CASE jobs' # jobs
    <3> DEFINE st == FailureStatus(w)
    <3>1. /\ k \in DOMAIN jobs /\ jobs[k] \in Job
          /\ work[w].attempt <= jobs[k].attempts
      BY <1>6, <1>a DEF RecordFailure, Slot, WithJob, Claimed
    <3>2. /\ st \in {"FAILED", "DEAD", "RETRY_PENDING"}
          /\ st = "DEAD" => MaxAttempts <= work[w].attempt
          /\ st = "RETRY_PENDING" => clock + RetryDelay[work[w].attempt] \in Nat
      BY <1>6, FailureType DEF RecordFailure
    <3>3. work[w].now \in Nat /\ work[w].attempt \in Nat
          /\ jobs[k].attempts \in Nat /\ MaxAttempts \in Nat
      BY <1>a, <3>1, LimitAssumption DEF Request, Job
    <3>4. PICK due \in Nat : jobs' = Unlocked(k, st, due) /\ IndexAllows(k, st)
      BY <1>6, <2>2, <3>2, <3>3 DEF RecordFailure
    <3>5. st \in JobStatuses
      BY <3>2 DEF JobStatuses, Runnable
    <3> HIDE DEF st
    <3>6. /\ jobs'[k].status = st /\ jobs'[k].attempts = jobs[k].attempts
          /\ DOMAIN jobs' = DOMAIN jobs
          /\ \A i \in DOMAIN jobs : i # k => jobs'[i] = jobs[i]
      BY <1>a, <3>1, <3>4, <3>5, UnlockedType
    <3>7. Closed(k) \/ Waits(w, k)
      BY <1>6, <3>1, <3>2, <3>3, <3>4, <3>5, <3>6
      DEF RecordFailure, Closed, Waits, IndexAllows, Runnable
    <3> QED
      BY <1>c, <3>1, <3>6, <3>7
  <2> QED
    BY <2>1, <2>2
<1>7. CASE UNCHANGED jobs
  BY <1>7, <1>b
<1> QED
  BY <1>1, <1>2, <1>3, <1>4, <1>5, <1>6, <1>7
  DEF Step, Ask, ReadResult, DeleteLegacy, FindActive, FindJob, Start, Execute,
      SaveResult, SaveSummary, AuditCompleted, Throw, Crash

\* No row disappears and no attempt is ever given back.
LEMMA AttemptsGrow ==
  ASSUME TypeOK, NEW w \in Workers, Slot(work[w]), Step(w)
  PROVE  /\ DOMAIN jobs \subseteq DOMAIN jobs'
         /\ \A j \in DOMAIN jobs : jobs[j].attempts <= jobs'[j].attempts
<1> SUFFICES ASSUME NEW j \in DOMAIN jobs
             PROVE  jobs[j].attempts <= jobs'[j].attempts
  BY RowsAfterStep
<1>1. jobs[j].attempts \in Nat
  <2>1. jobs[j] \in Job
    BY DEF TypeOK
  <2> QED
    BY <2>1 DEF Job
<1>2. Kept(j) \/ Created(w, j) \/ Closed(j) \/ Waits(w, j) \/ Taken(w, j)
  BY RowsAfterStep
<1> QED
  BY <1>1, <1>2 DEF Kept, Created, Closed, Waits, Taken

\* What another request remembers stays true.
LEMMA OtherSlot ==
  ASSUME TypeOK, TypeOK', NEW q \in Workers, Slot(work[q]),
         work'[q] = work[q], clock <= clock',
         DOMAIN jobs \subseteq DOMAIN jobs',
         \A j \in DOMAIN jobs : jobs[j].attempts <= jobs'[j].attempts
  PROVE  Slot(work[q])'
<1> DEFINE m == work[q]
<1>1. m \in Request /\ m.now \in Nat /\ m.attempt \in Nat
  BY DEF TypeOK, Request
<1>2. MaxAttempts \in Nat /\ clock \in Nat /\ clock' \in Nat
  BY LimitAssumption DEF TypeOK
<1>3. m.now <= clock'
  BY <1>1, <1>2 DEF Slot
<1>4. ASSUME m.phase \in WithJob
      PROVE  /\ m.job \in DOMAIN jobs /\ m.job \in DOMAIN jobs'
             /\ jobs[m.job].attempts \in Nat /\ jobs'[m.job].attempts \in Nat
             /\ jobs[m.job].attempts <= jobs'[m.job].attempts
  <2>1. m.job \in DOMAIN jobs /\ m.job \in DOMAIN jobs'
    BY <1>4 DEF Slot
  <2>2. jobs[m.job] \in Job /\ jobs'[m.job] \in Job
    BY <2>1 DEF TypeOK
  <2> QED
    BY <2>1, <2>2 DEF Job
<1>5. Slot(m)
  OBVIOUS
<1> HIDE DEF m
<1>6. /\ m.phase \in WithJob => m.job \in DOMAIN jobs'
      /\ m.phase = "bury" => MaxAttempts <= jobs'[m.job].attempts
      /\ m.phase = "claim" => /\ m.status \in Runnable
                              /\ 1 <= m.attempt
                              /\ m.attempt <= jobs'[m.job].attempts + 1
      /\ m.phase \in Claimed => /\ 1 <= m.attempt
                                /\ m.attempt <= jobs'[m.job].attempts
  BY <1>1, <1>2, <1>4, <1>5 DEF Slot, WithJob, Claimed
<1> QED
  BY <1>3, <1>6 DEF Slot, m

\* The step of a request leaves it with a true memory.
LEMMA OwnSlot ==
  ASSUME TypeOK, TypeOK', NEW w \in Workers, Slot(work[w]), Step(w)
  PROVE  Slot(work[w])'
<1>a. /\ work[w] \in Request /\ work \in [Workers -> Request]
      /\ jobs \in Seq(Job) /\ clock \in Nat /\ MaxAttempts \in Nat
      /\ clock' = clock /\ jobs' \in Seq(Job)
  BY LimitAssumption
  DEF TypeOK, Step, Ask, ReadResult, DeleteLegacy, FindActive, Requeue, Create,
      FindJob, Bury, Claim, Start, Execute, SaveResult, SaveSummary, Succeed,
      AuditCompleted, Throw, RecordFailure, Crash
<1>b. /\ DOMAIN jobs \subseteq DOMAIN jobs'
      /\ \A j \in DOMAIN jobs : /\ jobs[j].attempts \in Nat
                                 /\ jobs'[j].attempts \in Nat
                                 /\ jobs[j].attempts <= jobs'[j].attempts
  <2>1. \A j \in DOMAIN jobs : jobs[j] \in Job
    BY <1>a
  <2>2. \A j \in DOMAIN jobs : jobs'[j] \in Job
    BY <1>a, AttemptsGrow
  <2> QED
    BY <2>1, <2>2, AttemptsGrow DEF Job
<1>c. ASSUME Leave(w) PROVE Slot(work[w])'
  BY <1>a, <1>c DEF Leave, Idle, Slot, WithJob, Claimed
<1>d. ASSUME NEW p, Goto(w, p) PROVE work'[w] = [work[w] EXCEPT !.phase = p]
  BY <1>a, <1>d DEF Goto
\* Before the claim and after it, the phase moves within its group.
<1>e. ASSUME NEW p \in {"run", "deleteLegacy", "findActive", "create",
                        "process"}, Goto(w, p)
      PROVE  Slot(work[w])'
  <2>1. work'[w].phase = p /\ work'[w].now = work[w].now
    <3>1. work'[w] = [work[w] EXCEPT !.phase = p] /\ work[w] \in Request
      BY <1>a, <1>d, <1>e
    <3> QED
      BY <3>1 DEF Request
  <2>2. work'[w].now <= clock'
    BY <1>a, <2>1 DEF Slot
  <2> QED
    BY <1>e, <2>1, <2>2 DEF Slot, WithJob, Claimed
<1>f. ASSUME NEW m \in Request, work' = [work EXCEPT ![w] = m],
             m.phase \in Claimed, work[w].phase \in Claimed,
             m.attempt = work[w].attempt, m.job = work[w].job,
             m.now = work[w].now
      PROVE  Slot(work[w])'
  <2>1. work'[w] = m
    BY <1>a, <1>f
  <2>2. work[w].job \in DOMAIN jobs /\ work[w].attempt \in Nat
    BY <1>a, <1>f DEF Slot, Claimed, WithJob, Request
  <2>3. /\ m.job \in DOMAIN jobs' /\ 1 <= m.attempt
        /\ m.attempt <= jobs'[m.job].attempts
    BY <1>b, <1>f, <2>2 DEF Slot
  <2>4. m.now <= clock' /\ m.phase # "bury" /\ m.phase # "claim"
    BY <1>a, <1>f DEF Slot, Claimed
  <2> QED
    BY <2>1, <2>3, <2>4 DEF Slot
<1>g. ASSUME NEW p \in Claimed, Goto(w, p), work[w].phase \in Claimed
      PROVE  Slot(work[w])'
  <2> DEFINE m == [work[w] EXCEPT !.phase = p]
  <2>1. /\ m \in Request /\ m.phase = p /\ m.attempt = work[w].attempt
        /\ m.job = work[w].job /\ m.now = work[w].now
    BY <1>a, <1>g DEF Request, Claimed, Phases
  <2>2. work' = [work EXCEPT ![w] = m]
    BY <1>g DEF Goto
  <2> HIDE DEF m
  <2> QED
    BY <1>f, <1>g, <2>1, <2>2
<1>1. CASE Ask(w) \/ ReadResult(w) \/ DeleteLegacy(w) \/ Create(w)
  BY <1>1, <1>c, <1>e DEF Ask, ReadResult, DeleteLegacy, Create
<1>2. CASE FindActive(w)
  <2>1. CASE Goto(w, "create")
    BY <2>1, <1>e
  <2>2. CASE ~Goto(w, "create")
    <3>1. PICK j \in RunnableJobs :
            work' = [work EXCEPT ![w] = [@ EXCEPT
                        !.phase = IF jobs[j].status = "RETRY_PENDING"
                                    THEN "requeue" ELSE "process",
                        !.job = j]]
      BY <1>2, <2>2 DEF FindActive
    <3>2. /\ work'[w].phase \in {"requeue", "process"}
          /\ work'[w].job = j /\ work'[w].now = work[w].now
      BY <1>a, <3>1 DEF Request
    <3>3. j \in DOMAIN jobs'
      BY <1>b DEF RunnableJobs
    <3> QED
      BY <1>a, <3>2, <3>3 DEF Slot, WithJob, Claimed
  <2> QED
    BY <2>1, <2>2
<1>3. CASE Requeue(w)
  BY <1>3, <1>c, <1>e DEF Requeue
<1>4. CASE FindJob(w)
  <2>1. CASE Leave(w)
    BY <2>1, <1>c
  <2>2. CASE ~Leave(w)
    <3>1. PICK j \in DOMAIN jobs :
            /\ Due(j)
            /\ work' = [work EXCEPT ![w] = [@ EXCEPT
                  !.phase = IF jobs[j].attempts >= MaxAttempts
                              THEN "bury" ELSE "claim",
                  !.job = j, !.status = jobs[j].status,
                  !.attempt = jobs[j].attempts + 1, !.now = clock]]
      BY <1>4, <2>2 DEF FindJob
    <3>2. /\ work'[w].phase = IF jobs[j].attempts >= MaxAttempts
                                THEN "bury" ELSE "claim"
          /\ work'[w].job = j /\ work'[w].status = jobs[j].status
          /\ work'[w].attempt = jobs[j].attempts + 1 /\ work'[w].now = clock
      BY <1>a, <3>1 DEF Request
    <3>3. jobs[j].status \in Runnable
      BY <3>1 DEF Due, Runnable
    <3>4. jobs' = jobs /\ clock' = clock
      BY <1>4 DEF FindJob
    <3>5. jobs[j].attempts \in Nat
      BY <1>b
    <3> QED
      BY <1>a, <3>2, <3>3, <3>4, <3>5 DEF Slot, WithJob, Claimed
  <2> QED
    BY <2>1, <2>2
<1>5. CASE Claim(w)
  <2>1. CASE Leave(w)
    BY <2>1, <1>c
  <2>2. CASE ~Leave(w)
    <3>1. /\ Goto(w, "start")
          /\ jobs' = [jobs EXCEPT ![work[w].job] = [@ EXCEPT
                        !.status = "RUNNING",
                        !.attempts = jobs[work[w].job].attempts + 1,
                        !.locked = TRUE, !.lockedAt = work[w].now]]
      BY <1>5, <2>2 DEF Claim
    <3>2. /\ work[w].job \in DOMAIN jobs /\ 1 <= work[w].attempt
          /\ work[w].attempt <= jobs[work[w].job].attempts + 1
          /\ work[w].now <= clock
      BY <1>5 DEF Claim, Slot, WithJob
    <3>3. jobs[work[w].job] \in Job
      BY <1>a, <3>2
    <3>4. jobs'[work[w].job].attempts = jobs[work[w].job].attempts + 1
      BY <1>a, <3>1, <3>2, <3>3 DEF Job
    <3>5. /\ work'[w].phase = "start" /\ work'[w].job = work[w].job
          /\ work'[w].attempt = work[w].attempt /\ work'[w].now = work[w].now
      BY <1>a, <3>1 DEF Goto, Request
    <3>6. work[w].job \in DOMAIN jobs'
      BY <1>b, <3>2
    <3> QED
      BY <1>a, <3>2, <3>4, <3>5, <3>6 DEF Slot, WithJob, Claimed
  <2> QED
    BY <2>1, <2>2
<1>6. CASE Start(w) \/ SaveResult(w) \/ SaveSummary(w) \/ Succeed(w)
  BY <1>6, <1>g DEF Start, SaveResult, SaveSummary, Succeed, Claimed
<1>7. CASE Execute(w)
  <2>1. ASSUME NEW found \in Extracted, NEW b \in BOOLEAN
        PROVE  LET m == [work[w] EXCEPT !.phase = "saveResult", !.found = found]
                   n == [work[w] EXCEPT !.phase = "failed", !.retryable = b]
               IN  /\ m \in Request /\ m.phase = "saveResult"
                   /\ m.attempt = work[w].attempt /\ m.job = work[w].job
                   /\ m.now = work[w].now
                   /\ n \in Request /\ n.phase = "failed"
                   /\ n.attempt = work[w].attempt /\ n.job = work[w].job
                   /\ n.now = work[w].now
    BY <1>a DEF Request, Phases
  <2>2. work[w].phase \in Claimed /\ "saveResult" \in Claimed
        /\ "failed" \in Claimed
    BY <1>7 DEF Execute, Claimed
  <2>3. PICK found \in Extracted, b \in BOOLEAN :
          \/ work' = [work EXCEPT ![w] = [@ EXCEPT !.phase = "saveResult",
                                                   !.found = found]]
          \/ work' = [work EXCEPT ![w] = [@ EXCEPT !.phase = "failed",
                                                   !.retryable = b]]
    BY <1>7 DEF Execute, Extracted
  <2> QED
    BY <1>f, <2>1, <2>2, <2>3
<1>8. CASE Throw(w)
  <2> DEFINE m == [work[w] EXCEPT !.phase = "failed", !.retryable = TRUE]
  <2>1. /\ m \in Request /\ m.phase = "failed"
        /\ m.attempt = work[w].attempt /\ m.job = work[w].job
        /\ m.now = work[w].now
    BY <1>a DEF Request, Phases
  <2>2. work' = [work EXCEPT ![w] = m] /\ work[w].phase \in Claimed
    BY <1>8 DEF Throw, Claimed
  <2> HIDE DEF m
  <2> QED
    BY <1>f, <2>1, <2>2 DEF Claimed
<1>9. CASE Bury(w) \/ AuditCompleted(w) \/ RecordFailure(w) \/ Crash(w)
  BY <1>9, <1>c DEF Bury, AuditCompleted, RecordFailure, Crash
<1> QED
  BY <1>1, <1>2, <1>3, <1>4, <1>5, <1>6, <1>7, <1>8, <1>9 DEF Step

-----------------------------------------------------------------------------
(* The inductive invariant. *)

LEMMA InitIInv == Init => IInv
<1> SUFFICES ASSUME Init PROVE IInv
  OBVIOUS
<1>1. TypeOK
  BY InitTypeOK
<1>2. \A w \in Workers : Slot(work[w])
  BY DEF Init, Slot, Idle, WithJob, Claimed
<1>3. jobs = <<jobs[1]>> /\ jobs[1].status \in {"QUEUED", "SUCCEEDED"}
      /\ jobs[1].attempts <= 1 /\ jobs[1].attempts \in Nat
  <2>1. PICK j \in Job : /\ jobs = <<j>> /\ j.status \in {"QUEUED", "SUCCEEDED"}
                         /\ j.attempts <= 1
    <3>1. CASE jobs = <<NewJob>>
      BY <3>1, NewJobType DEF NewJob, Init
    <3>2. CASE jobs = <<[NewJob EXCEPT !.status = "SUCCEEDED", !.attempts = 1]>>
      <4> DEFINE old == [NewJob EXCEPT !.status = "SUCCEEDED", !.attempts = 1]
      <4>1. old \in Job /\ old.status = "SUCCEEDED" /\ old.attempts = 1
        BY NewJobType DEF NewJob, Init, Job, JobStatuses
      <4>2. jobs = <<old>>
        BY <3>2
      <4> HIDE DEF old
      <4> QED
        BY <4>1, <4>2
    <3> QED
      BY <3>1, <3>2 DEF Init
  <2>2. jobs[1] = j /\ j.attempts \in Nat
    BY <2>1 DEF Job
  <2> QED
    BY <2>1, <2>2
<1>4. DeadIsExhausted /\ RunningCanBeReclaimed /\ OneRunnableJob
  BY <1>3 DEF DeadIsExhausted, RunningCanBeReclaimed, OneRunnableJob
<1>5. AttemptsReserved
  <2>1. \A j \in DOMAIN jobs : Claimers(j) = {}
    BY DEF Init, Claimers, Idle
  <2>2. Cardinality({}) = 0 /\ Cardinality(Workers) \in Nat \ {0}
    BY FS_EmptySet, FS_CardinalityType, WorkersAssumption
  <2> QED
    <3>1. DOMAIN jobs = {1}
      BY <1>3
    <3>2. 0 + 1 + 1 <= MaxAttempts + Cardinality(Workers)
      BY <2>2, LimitAssumption
    <3>3. jobs[1].attempts + 0 + 1 <= MaxAttempts + Cardinality(Workers)
      BY <1>3, <2>2, <3>2, LimitAssumption
    <3> QED
      BY <2>1, <2>2, <3>1, <3>3 DEF AttemptsReserved
<1> QED
  BY <1>1, <1>2, <1>4, <1>5 DEF IInv

\* The claimers of a row are finitely many.
LEMMA ClaimersFinite ==
  ASSUME NEW j
  PROVE  /\ IsFiniteSet(Claimers(j))
         /\ Cardinality(Claimers(j)) \in Nat
         /\ Cardinality(Claimers(j)) <= Cardinality(Workers)
         /\ Cardinality(Workers) \in Nat
<1>1. Claimers(j) \in SUBSET Workers
  BY DEF Claimers
<1> QED
  BY <1>1, FS_Subset, FS_CardinalityType, WorkersAssumption

\* A step of request w adds w to the claimers only of a row with attempts
\* left, and a claim takes it away.
LEMMA ClaimersAfterStep ==
  ASSUME TypeOK, TypeOK', NEW w \in Workers, Step(w), NEW j \in DOMAIN jobs'
  PROVE  \/ Claimers(j)' \subseteq Claimers(j)
         \/ j \in DOMAIN jobs /\ jobs' = jobs /\ jobs[j].attempts < MaxAttempts
<1>a. work \in [Workers -> Request] /\ jobs \in Seq(Job) /\ MaxAttempts \in Nat
  BY LimitAssumption DEF TypeOK
<1>b. \A q \in Workers : q # w => work'[q] = work[q]
  BY <1>a
  DEF Step, Ask, ReadResult, DeleteLegacy, FindActive, Requeue, Create,
      FindJob, Bury, Claim, Start, Execute, SaveResult, SaveSummary, Succeed,
      AuditCompleted, Throw, RecordFailure, Crash, Goto, Leave
<1>c. ASSUME work'[w].phase # "claim" PROVE Claimers(j)' \subseteq Claimers(j)
  BY <1>b, <1>c DEF Claimers
<1>1. CASE FindJob(w)
  <2>1. CASE Leave(w)
    <3>1. work'[w].phase # "claim"
      BY <1>a, <2>1 DEF Leave, Idle
    <3> QED
      BY <1>c, <3>1
  <2>2. CASE ~Leave(w)
    <3>1. PICK i \in DOMAIN jobs :
            work' = [work EXCEPT ![w] = [@ EXCEPT
                  !.phase = IF jobs[i].attempts >= MaxAttempts
                              THEN "bury" ELSE "claim",
                  !.job = i, !.status = jobs[i].status,
                  !.attempt = jobs[i].attempts + 1, !.now = clock]]
      BY <1>1, <2>2 DEF FindJob
    <3>2. /\ work'[w].job = i
          /\ work'[w].phase = "claim" => ~(jobs[i].attempts >= MaxAttempts)
      BY <1>a, <3>1 DEF Request
    <3>3. jobs' = jobs
      BY <1>1 DEF FindJob
    <3>4. jobs[i].attempts \in Nat
      <4>1. jobs[i] \in Job
        BY <1>a
      <4> QED
        BY <4>1 DEF Job
    <3>5. CASE i = j
      BY <1>a, <1>c, <3>2, <3>3, <3>4, <3>5
    <3>6. CASE i # j
      BY <1>b, <3>2, <3>6 DEF Claimers
    <3> QED
      BY <3>5, <3>6
  <2> QED
    BY <2>1, <2>2
<1>2. CASE ~FindJob(w)
  <2>1. ASSUME Leave(w) PROVE work'[w].phase # "claim"
    BY <1>a, <2>1 DEF Leave, Idle
  <2>2. ASSUME NEW p, p # "claim", Goto(w, p) PROVE work'[w].phase # "claim"
    BY <1>a, <2>2 DEF Goto, Request
  <2>3. CASE FindActive(w)
    BY <1>a, <1>c, <2>2, <2>3 DEF FindActive, Request
  <2>4. CASE Execute(w) \/ Throw(w)
    BY <1>a, <1>c, <2>4 DEF Execute, Throw, Request
  <2>5. CASE \/ Ask(w) \/ ReadResult(w) \/ DeleteLegacy(w) \/ Requeue(w)
             \/ Create(w) \/ Bury(w) \/ Claim(w) \/ Start(w)
             \/ SaveResult(w) \/ SaveSummary(w) \/ Succeed(w)
             \/ AuditCompleted(w) \/ RecordFailure(w) \/ Crash(w)
    BY <1>c, <2>1, <2>2, <2>5
    DEF Ask, ReadResult, DeleteLegacy, Requeue, Create, Bury, Claim, Start,
        SaveResult, SaveSummary, Succeed, AuditCompleted, RecordFailure, Crash
  <2> QED
    BY <1>2, <1>c, <2>3, <2>4, <2>5 DEF Step
<1> QED
  BY <1>1, <1>2

\* Attempts used and attempts reserved stay within the bound.
LEMMA ReservedAfterStep ==
  ASSUME IInv, TypeOK', NEW w \in Workers, Step(w)
  PROVE  AttemptsReserved'
<1> SUFFICES ASSUME NEW j \in DOMAIN jobs'
             PROVE  jobs'[j].attempts + Cardinality(Claimers(j)') + 1
                      <= MaxAttempts + Cardinality(Workers)
  BY DEF AttemptsReserved
<1> DEFINE C == Claimers(j)
           D == Claimers(j)'
<1>a. /\ IsFiniteSet(C) /\ Cardinality(C) \in Nat
      /\ Cardinality(C) <= Cardinality(Workers)
      /\ Cardinality(Workers) \in Nat /\ MaxAttempts \in Nat \ {0}
  BY ClaimersFinite, LimitAssumption
<1>b. IsFiniteSet(D) /\ Cardinality(D) \in Nat
      /\ Cardinality(D) <= Cardinality(Workers)
  <2>1. D \in SUBSET Workers
    BY DEF Claimers
  <2> QED
    BY <2>1, FS_Subset, FS_CardinalityType, WorkersAssumption
<1>c. Slot(work[w]) /\ TypeOK /\ AttemptsReserved
  BY DEF IInv
<1>d. Kept(j) \/ Created(w, j) \/ Closed(j) \/ Waits(w, j) \/ Taken(w, j)
  BY <1>c, RowsAfterStep
<1>e. j \in DOMAIN jobs => jobs[j].attempts \in Nat
  <2>1. j \in DOMAIN jobs => jobs[j] \in Job
    BY <1>c DEF TypeOK
  <2> QED
    BY <2>1 DEF Job
<1>f. D \subseteq C => Cardinality(D) <= Cardinality(C)
  BY <1>a, FS_Subset
<1>g. j \in DOMAIN jobs => jobs[j].attempts + Cardinality(C) + 1
                             <= MaxAttempts + Cardinality(Workers)
  BY <1>c DEF AttemptsReserved
<1> SUFFICES jobs'[j].attempts + Cardinality(D) + 1
               <= MaxAttempts + Cardinality(Workers)
  OBVIOUS
<1> HIDE DEF C, D
<1>1. CASE j \in DOMAIN jobs /\ jobs' = jobs /\ jobs[j].attempts < MaxAttempts
  BY <1>1, <1>a, <1>b, <1>e
<1>2. CASE D \subseteq C
  <2>1. CASE Created(w, j)
    BY <2>1, <1>a, <1>b DEF Created, NewJob
  <2>2. CASE Kept(j) \/ Closed(j) \/ Waits(w, j)
    <3>1. j \in DOMAIN jobs /\ jobs'[j].attempts = jobs[j].attempts
      BY <2>2 DEF Kept, Closed, Waits
    <3> QED
      BY <1>2, <1>a, <1>b, <1>e, <1>f, <1>g, <3>1
  <2>3. CASE Taken(w, j)
    <3>1. j \in DOMAIN jobs /\ jobs'[j].attempts = jobs[j].attempts + 1
      BY <2>3 DEF Taken
    <3>2. w \in C /\ w \notin D
      BY <2>3 DEF Taken, Claimers, C, D
    <3>3. Cardinality(C \ {w}) = Cardinality(C) - 1 /\ IsFiniteSet(C \ {w})
      BY <1>a, <3>2, FS_RemoveElement
    <3>4. D \in SUBSET (C \ {w})
      BY <1>2, <3>2
    <3>5. Cardinality(D) <= Cardinality(C) - 1
      BY <3>3, <3>4, FS_Subset
    <3> QED
      BY <1>a, <1>b, <1>e, <1>g, <3>1, <3>5
  <2> QED
    BY <1>d, <2>1, <2>2, <2>3
<1> QED
  BY <1>c, <1>1, <1>2, ClaimersAfterStep DEF C, D

LEMMA StepIInv ==
  ASSUME IInv, NEW w \in Workers, Step(w)
  PROVE  IInv'
<1>a. /\ TypeOK /\ Slot(work[w]) /\ DeadIsExhausted
      /\ RunningCanBeReclaimed /\ OneRunnableJob
  BY DEF IInv
<1>1. TypeOK'
  BY <1>a, StepTypeOK
<1>2. /\ DOMAIN jobs \subseteq DOMAIN jobs'
      /\ \A j \in DOMAIN jobs' : \/ Kept(j) \/ Created(w, j) \/ Closed(j)
                                 \/ Waits(w, j) \/ Taken(w, j)
  BY <1>a, RowsAfterStep
<1>3. /\ clock' = clock /\ clock \in Nat
      /\ \A q \in Workers : q # w => work'[q] = work[q]
  BY <1>a
  DEF TypeOK, Step, Ask, ReadResult, DeleteLegacy, FindActive, Requeue, Create,
      FindJob, Bury, Claim, Start, Execute, SaveResult, SaveSummary, Succeed,
      AuditCompleted, Throw, RecordFailure, Crash, Goto, Leave
<1>4. \A q \in Workers : Slot(work[q])'
  <2>1. ASSUME NEW q \in Workers, q # w PROVE Slot(work[q])'
    BY <1>a, <1>1, <1>3, <2>1, AttemptsGrow, OtherSlot DEF IInv
  <2>2. Slot(work[w])'
    BY <1>a, <1>1, OwnSlot
  <2> QED
    BY <2>1, <2>2
<1>5. \A j \in DOMAIN jobs : jobs[j].attempts \in Nat
  <2>1. \A j \in DOMAIN jobs : jobs[j] \in Job
    BY <1>a DEF TypeOK
  <2> QED
    BY <2>1 DEF Job
<1>6. DeadIsExhausted'
  <2> SUFFICES ASSUME NEW j \in DOMAIN jobs', jobs'[j].status = "DEAD"
               PROVE  MaxAttempts <= jobs'[j].attempts
    BY LimitAssumption DEF DeadIsExhausted
  <2>1. Kept(j) \/ Closed(j)
    BY <1>2 DEF Created, Waits, Taken, NewJob
  <2> QED
    BY <1>a, <2>1, LimitAssumption DEF Kept, Closed, DeadIsExhausted
<1>7. RunningCanBeReclaimed'
  <2> SUFFICES ASSUME NEW j \in DOMAIN jobs', jobs'[j].status = "RUNNING"
               PROVE  jobs'[j].locked /\ jobs'[j].lockedAt <= clock'
    BY DEF RunningCanBeReclaimed
  <2>1. Kept(j) \/ Taken(w, j)
    BY <1>2 DEF Created, Closed, Waits, NewJob, Runnable
  <2>2. CASE Kept(j)
    BY <1>a, <1>3, <2>2 DEF Kept, RunningCanBeReclaimed
  <2>3. CASE Taken(w, j)
    BY <1>a, <1>3, <2>3 DEF Taken, Slot
  <2> QED
    BY <2>1, <2>2, <2>3
<1>8. OneRunnableJob'
  <2> SUFFICES ASSUME NEW i \in DOMAIN jobs', NEW j \in DOMAIN jobs',
                      jobs'[i].status \in Runnable,
                      jobs'[j].status \in Runnable, i # j
               PROVE  FALSE
    BY DEF OneRunnableJob
  <2>1. ASSUME NEW k \in DOMAIN jobs', jobs'[k].status \in Runnable
        PROVE  \/ k \in RunnableJobs
               \/ /\ work[w].phase = "create" /\ k = Len(jobs) + 1
                  /\ RunnableJobs = {}
               \/ /\ work[w].phase # "create" /\ k = work[w].job
                  /\ RunnableJobs \subseteq {k}
    <3>1. Kept(k) \/ Created(w, k) \/ Waits(w, k) \/ Taken(w, k)
      BY <1>2, <2>1 DEF Closed
    <3> QED
      BY <2>1, <3>1 DEF Kept, Created, Waits, Taken, RunnableJobs
  <2>2. \A g, h \in RunnableJobs : g = h
    BY <1>a DEF OneRunnableJob, RunnableJobs
  <2> QED
    BY <2>1, <2>2 DEF RunnableJobs
<1>9. AttemptsReserved'
  BY <1>1, ReservedAfterStep
<1> QED
  BY <1>1, <1>4, <1>6, <1>7, <1>8, <1>9 DEF IInv

LEMMA TickIInv == ASSUME IInv, Tick PROVE IInv'
<1>1. UNCHANGED <<jobs, result, summary, work>> /\ clock' = clock + 1
      /\ clock \in Nat
  BY DEF Tick, IInv, TypeOK
<1>2. TypeOK'
  BY <1>1 DEF IInv, TypeOK
<1>3. \A w \in Workers : work[w].now \in Nat
  BY DEF IInv, TypeOK, Request
<1>4. \A w \in Workers : Slot(work[w])'
  BY <1>1, <1>3 DEF IInv, Slot
<1>5. \A j \in DOMAIN jobs : jobs[j].lockedAt \in Nat
  <2>1. \A j \in DOMAIN jobs : jobs[j] \in Job
    BY DEF IInv, TypeOK
  <2> QED
    BY <2>1 DEF Job
<1>6. RunningCanBeReclaimed'
  BY <1>1, <1>5 DEF IInv, RunningCanBeReclaimed
<1>7. DeadIsExhausted' /\ OneRunnableJob' /\ AttemptsReserved'
  BY <1>1 DEF IInv, DeadIsExhausted, OneRunnableJob, AttemptsReserved, Claimers
<1> QED
  BY <1>2, <1>4, <1>6, <1>7 DEF IInv

LEMMA StutterIInv == ASSUME IInv, UNCHANGED vars PROVE IInv'
  BY DEF IInv, vars, TypeOK, Slot, DeadIsExhausted, RunningCanBeReclaimed,
         OneRunnableJob, AttemptsReserved, Claimers

LEMMA Invariance == Spec => []IInv
<1>1. IInv /\ [Next]_vars => IInv'
  BY StepIInv, TickIInv, StutterIInv DEF Next
<1> QED
  BY InitIInv, <1>1, PTL DEF Spec

-----------------------------------------------------------------------------
(* The theorems. *)

\* The rows and what the requests remember keep their types, whichever step
\* of which request comes next.
THEOREM JobTypes == Spec => []TypeOK
<1>1. IInv => TypeOK
  BY DEF IInv
<1> QED
  BY <1>1, Invariance, PTL

\* No request buries a job, at once or in its catch, that has attempts left:
\* intelligence.service.ts decides both on values read before other requests
\* may have claimed the row.
THEOREM DeadOnlyWhenExhausted == Spec => []DeadIsExhausted
<1>1. IInv => DeadIsExhausted
  BY DEF IInv
<1> QED
  BY <1>1, Invariance, PTL

\* A RUNNING row always carries a lock that the lease will expire, so a
\* request that died never takes its job with it.
THEOREM RunningIsReclaimable == Spec => []RunningCanBeReclaimed
<1>1. IInv => RunningCanBeReclaimed
  BY DEF IInv
<1> QED
  BY <1>1, Invariance, PTL

\* The three places that make a row runnable never leave a version with two
\* runnable rows.
THEOREM OnlyOneRunnable == Spec => []OneRunnableJob
<1>1. IInv => OneRunnableJob
  BY DEF IInv
<1> QED
  BY <1>1, Invariance, PTL

\* The limit on attempts, checked before the claim, is passed by at most one
\* attempt for every other request in flight.
THEOREM AttemptsOvershoot == Spec => []OvershootIsBounded
<1>1. ASSUME IInv, NEW j \in DOMAIN jobs
      PROVE  jobs[j].attempts + 1 <= MaxAttempts + Cardinality(Workers)
  <2>1. jobs[j].attempts \in Nat
    <3>1. jobs[j] \in Job
      BY <1>1 DEF IInv, TypeOK
    <3> QED
      BY <3>1 DEF Job
  <2>2. jobs[j].attempts + Cardinality(Claimers(j)) + 1
          <= MaxAttempts + Cardinality(Workers)
    BY <1>1 DEF IInv, AttemptsReserved
  <2> QED
    BY <2>1, <2>2, ClaimersFinite, LimitAssumption
<1>2. IInv => OvershootIsBounded
  BY <1>1 DEF OvershootIsBounded
<1> QED
  BY <1>2, Invariance, PTL

\* A step keeps a usable result, and nobody takes it for a container.
LEMMA SafeAfterStep ==
    ASSUME TypeOK, ResultIsSafe, NEW r \in Workers, Step(r)
    PROVE  /\ result' \in {"empty", "text"}
           /\ \A w \in Workers : work'[w].phase # "deleteLegacy"
<1>1. work \in [Workers -> Request] /\ work[r] \in Request
  BY DEF TypeOK
<1>2. ASSUME NEW p \in Phases \ {"deleteLegacy"}, Goto(r, p)
      PROVE  \A w \in Workers : work'[w].phase # "deleteLegacy"
  BY <1>1, <1>2 DEF Goto, ResultIsSafe, Request
<1>3. ASSUME NEW q \in Request, q.phase # "deleteLegacy",
             work' = [work EXCEPT ![r] = q]
      PROVE  \A w \in Workers : work'[w].phase # "deleteLegacy"
  BY <1>1, <1>3 DEF ResultIsSafe
<1>4. ASSUME Leave(r)
      PROVE  \A w \in Workers : work'[w].phase # "deleteLegacy"
  BY <1>3, <1>4, IdleType DEF Leave, Idle
<1>5. work[r].phase # "deleteLegacy"
  BY DEF ResultIsSafe
<1>s. SaveResult(r) => result' \in {"empty", "text"}
  BY <1>1 DEF SaveResult, ResultIsSafe, HoldsContainer, Request, Extracted
<1>6. result' \in {"empty", "text"}
  BY <1>5, <1>s DEF Step, ResultIsSafe, Ask, ReadResult, DeleteLegacy, FindActive,
              Requeue, Create, FindJob, Bury, Claim, Start, Execute,
              SaveSummary, Succeed, AuditCompleted, Throw, RecordFailure,
              Crash
<1>7. \A w \in Workers : work'[w].phase # "deleteLegacy"
  <2>1. CASE Ask(r)
    BY <1>2, <2>1 DEF Ask, Phases
  <2>2. CASE ReadResult(r)
    <3>1. Goto(r, "findActive")
      BY <2>2 DEF ReadResult, ResultIsSafe
    <3> QED
      BY <1>2, <3>1 DEF Phases
  <2>3. CASE DeleteLegacy(r)
    BY <1>5, <2>3 DEF DeleteLegacy
  <2>4. CASE FindActive(r)
    <3>1. CASE Goto(r, "create")
      BY <1>2, <3>1 DEF Phases
    <3>2. ASSUME NEW p \in {"requeue", "process"}, NEW j \in RunnableJobs,
                 work' = [work EXCEPT ![r] = [@ EXCEPT !.phase = p, !.job = j]]
          PROVE  \A w \in Workers : work'[w].phase # "deleteLegacy"
      BY <1>1, <3>2 DEF ResultIsSafe, Request
    <3> QED
      BY <2>4, <3>1, <3>2 DEF FindActive
  <2>5. CASE Requeue(r)
    BY <1>2, <1>4, <2>5 DEF Requeue, Phases
  <2>6. CASE Create(r)
    BY <1>2, <2>6 DEF Create, Phases
  <2>7. CASE FindJob(r)
    <3>1. CASE Leave(r)
      BY <1>4, <3>1
    <3>2. CASE ~Leave(r)
      BY <1>1, <2>7, <3>2 DEF FindJob, ResultIsSafe, Request
    <3> QED
      BY <3>1, <3>2
  <2>8. CASE Bury(r) \/ AuditCompleted(r) \/ RecordFailure(r) \/ Crash(r)
    BY <1>4, <2>8 DEF Bury, AuditCompleted, RecordFailure, Crash
  <2>9. CASE Claim(r)
    BY <1>2, <1>4, <2>9 DEF Claim, Phases
  <2>10. CASE Start(r)
    BY <1>2, <2>10 DEF Start, Phases
  <2>11. CASE Execute(r) \/ Throw(r)
    BY <1>1, <2>11 DEF Execute, Throw, ResultIsSafe, Request
  <2>12. CASE SaveResult(r)
    BY <1>2, <2>12 DEF SaveResult, Phases
  <2>13. CASE SaveSummary(r)
    BY <1>2, <2>13 DEF SaveSummary, Phases
  <2>14. CASE Succeed(r)
    BY <1>2, <2>14 DEF Succeed, Phases
  <2> QED
    BY <2>1, <2>2, <2>3, <2>4, <2>5, <2>6, <2>7, <2>8, <2>9, <2>10, <2>11,
       <2>12, <2>13, <2>14 DEF Step
<1> QED
  BY <1>6, <1>7

\* A request deletes a result only if it read one that looks like a container,
\* and from a usable result no request goes to DeleteLegacy.  So a usable one
\* lasts until an extraction gives a text that looks like a container.
THEOREM ResultsLostOnlyIfMistaken == Spec => LostOnlyIfMistaken
<1> DEFINE Lasts == ResultIsSafe =>
                      ResultIsSafe' \/ \E w \in Workers : HoldsContainer(w)'
<1>1. ASSUME IInv, [Next]_vars
      PROVE  [Lasts]_vars
  <2>1. ASSUME NEW r \in Workers, Step(r), ResultIsSafe
        PROVE  ResultIsSafe' \/ \E w \in Workers : HoldsContainer(w)'
    BY <1>1, <2>1, SafeAfterStep DEF IInv, ResultIsSafe
  <2>2. ASSUME Tick, ResultIsSafe
        PROVE  ResultIsSafe'
    BY <2>2 DEF Tick, ResultIsSafe, HoldsContainer
  <2> QED
    BY <1>1, <2>1, <2>2 DEF Next
<1> QED
  BY <1>1, Invariance, PTL DEF Spec, LostOnlyIfMistaken

-----------------------------------------------------------------------------
(* Success comes after the result.                                           *)

\* Before the first result nobody is past storing it, and no row says so.
ResultFirst ==
    result = "none" =>
        /\ ~summary
        /\ \A j \in DOMAIN jobs : jobs[j].status # "SUCCEEDED"
        /\ \A w \in Workers : work[w].phase \notin {"saveSummary", "succeed"}

LEMMA SavedIsAResult ==
  ASSUME TypeOK, NEW r \in Workers, SaveResult(r)
  PROVE  result' # "none"
  BY DEF TypeOK, Request, Extracted, SaveResult

\* Without a result, a step sends its request to no phase past storing one.
LEMMA PhasesBeforeResult ==
  ASSUME TypeOK, ResultFirst, NEW r \in Workers, Step(r),
         result = "none", result' = "none"
  PROVE  \A w \in Workers : work'[w].phase \notin {"saveSummary", "succeed"}
<1> DEFINE Past == {"saveSummary", "succeed"}
<1>1. work \in [Workers -> Request] /\ work[r] \in Request
  BY DEF TypeOK
<1>2. ASSUME NEW p \in Phases \ Past, Goto(r, p)
      PROVE  \A w \in Workers : work'[w].phase \notin Past
  BY <1>1, <1>2 DEF Goto, ResultFirst, Request
<1>3. ASSUME NEW q, q.phase \notin Past,
             work' = [work EXCEPT ![r] = q]
      PROVE  \A w \in Workers : work'[w].phase \notin Past
  BY <1>1, <1>3 DEF ResultFirst
<1>4. ASSUME Leave(r)
      PROVE  \A w \in Workers : work'[w].phase \notin Past
  BY <1>3, <1>4 DEF Leave, Idle
<1>5. work[r].phase \notin Past
  BY DEF ResultFirst
<1>6. CASE Ask(r)
  BY <1>2, <1>6 DEF Ask, Phases
<1>7. CASE ReadResult(r)
  BY <1>2, <1>7 DEF ReadResult, Phases
<1>8. CASE DeleteLegacy(r)
  BY <1>2, <1>4, <1>8 DEF DeleteLegacy, Phases
<1>9. CASE FindActive(r)
  <2>1. CASE Goto(r, "create")
    BY <1>2, <2>1 DEF Phases
  <2>2. ASSUME NEW p \in {"requeue", "process"}, NEW j \in RunnableJobs,
               work' = [work EXCEPT ![r] = [@ EXCEPT !.phase = p, !.job = j]]
        PROVE  \A w \in Workers : work'[w].phase \notin Past
    BY <1>1, <2>2 DEF ResultFirst, Request
  <2> QED
    BY <1>9, <2>1, <2>2 DEF FindActive
<1>10. CASE Requeue(r)
  BY <1>2, <1>4, <1>10 DEF Requeue, Phases
<1>11. CASE Create(r)
  BY <1>2, <1>11 DEF Create, Phases
<1>12. CASE FindJob(r)
  <2>1. CASE Leave(r)
    BY <1>4, <2>1
  <2>2. ASSUME NEW j \in DOMAIN jobs,
               work' = [work EXCEPT ![r] = [@ EXCEPT
                  !.phase = IF jobs[j].attempts >= MaxAttempts
                              THEN "bury" ELSE "claim",
                  !.job = j, !.status = jobs[j].status,
                  !.attempt = jobs[j].attempts + 1, !.now = clock]]
        PROVE  \A w \in Workers : work'[w].phase \notin Past
    <3>1. [work[r] EXCEPT
             !.phase = IF jobs[j].attempts >= MaxAttempts
                         THEN "bury" ELSE "claim",
             !.job = j, !.status = jobs[j].status,
             !.attempt = jobs[j].attempts + 1, !.now = clock].phase \notin Past
      BY <1>1 DEF Request
    <3> QED
      BY <1>3, <2>2, <3>1
  <2> QED
    BY <1>12, <2>1, <2>2 DEF FindJob
<1>13. CASE Bury(r) \/ AuditCompleted(r) \/ RecordFailure(r) \/ Crash(r)
  BY <1>4, <1>13 DEF Bury, AuditCompleted, RecordFailure, Crash
<1>14. CASE Claim(r)
  BY <1>2, <1>4, <1>14 DEF Claim, Phases
<1>15. CASE Start(r)
  BY <1>2, <1>15 DEF Start, Phases
<1>16. CASE Execute(r) \/ Throw(r)
  <2>1. ASSUME NEW b \in Extracted,
               work' = [work EXCEPT ![r] = [@ EXCEPT !.phase = "saveResult",
                                                     !.found = b]]
        PROVE  \A w \in Workers : work'[w].phase \notin Past
    <3>1. [work[r] EXCEPT !.phase = "saveResult", !.found = b].phase \notin Past
      BY <1>1 DEF Request
    <3> QED
      BY <1>3, <2>1, <3>1
  <2>2. ASSUME NEW b \in BOOLEAN,
               work' = [work EXCEPT ![r] = [@ EXCEPT !.phase = "failed",
                                                     !.retryable = b]]
        PROVE  \A w \in Workers : work'[w].phase \notin Past
    <3>1. [work[r] EXCEPT !.phase = "failed", !.retryable = b].phase \notin Past
      BY <1>1 DEF Request
    <3> QED
      BY <1>3, <2>2, <3>1
  <2> QED
    BY <1>16, <2>1, <2>2 DEF Execute, Throw
<1>17. CASE SaveResult(r) \/ SaveSummary(r) \/ Succeed(r)
  BY <1>5, <1>17, SavedIsAResult DEF SaveSummary, Succeed
<1> QED
  BY <1>6, <1>7, <1>8, <1>9, <1>10, <1>11, <1>12, <1>13, <1>14, <1>15, <1>16,
     <1>17 DEF Step

\* Without a result, a step gives no row the status SUCCEEDED.
LEMMA RowsBeforeResult ==
  ASSUME TypeOK, ResultFirst, NEW r \in Workers, Step(r),
         result = "none", result' = "none"
  PROVE  \A j \in DOMAIN jobs' : jobs'[j].status # "SUCCEEDED"
<1> DEFINE k == work[r].job
<1>1. \A j \in DOMAIN jobs : jobs[j].status # "SUCCEEDED"
  BY DEF ResultFirst
<1>2. ASSUME NEW row, row.status # "SUCCEEDED", jobs' = [jobs EXCEPT ![k] = row]
      PROVE  \A j \in DOMAIN jobs' : jobs'[j].status # "SUCCEEDED"
  BY <1>1, <1>2 DEF TypeOK
<1>3. ASSUME NEW status \in JobStatuses \ {"SUCCEEDED"}, NEW due,
             jobs' = Unlocked(k, status, due)
      PROVE  \A j \in DOMAIN jobs' : jobs'[j].status # "SUCCEEDED"
  <2>1. ASSUME NEW j \in DOMAIN jobs' PROVE jobs'[j].status # "SUCCEEDED"
    <3>1. jobs \in Seq(Job) /\ j \in DOMAIN jobs /\ jobs[j] \in Job
      BY <1>3 DEF Unlocked, TypeOK
    <3>2. jobs'[j] = IF j = k
                       THEN [jobs[j] EXCEPT
                               !.status = status, !.nextAttemptAt = due,
                               !.locked = FALSE, !.lockedAt = 0]
                       ELSE jobs[j]
      BY <1>3, <3>1 DEF Unlocked
    <3> QED
      BY <1>1, <1>3, <3>1, <3>2 DEF Job
  <2> QED
    BY <2>1
<1>4. CASE UNCHANGED jobs
  BY <1>1, <1>4
<1>5. CASE Requeue(r)
  <2>1. ASSUME jobs' = [jobs EXCEPT ![k] = [@ EXCEPT !.status = "QUEUED",
                                                    !.nextAttemptAt = clock]]
        PROVE  \A j \in DOMAIN jobs' : jobs'[j].status # "SUCCEEDED"
    BY <1>1, <2>1 DEF TypeOK, Job
  <2> QED
    BY <1>4, <1>5, <2>1 DEF Requeue
<1>6. CASE Create(r)
  <2>1. NewJob.status = "QUEUED"
    BY DEF NewJob
  <2>2. ASSUME jobs' = Append(jobs, NewJob)
        PROVE  \A j \in DOMAIN jobs' : jobs'[j].status # "SUCCEEDED"
    BY <1>1, <2>1, <2>2 DEF TypeOK
  <2> QED
    BY <1>4, <1>6, <2>2 DEF Create
<1>7. CASE Bury(r)
  BY <1>3, <1>7 DEF Bury, JobStatuses, Runnable
<1>8. CASE Claim(r)
  <2>1. ASSUME jobs' = [jobs EXCEPT ![k] = [@ EXCEPT
                           !.status = "RUNNING",
                           !.attempts = jobs[k].attempts + 1,
                           !.locked = TRUE, !.lockedAt = work[r].now]]
        PROVE  \A j \in DOMAIN jobs' : jobs'[j].status # "SUCCEEDED"
    BY <1>1, <2>1 DEF TypeOK, Job
  <2> QED
    BY <1>4, <1>8, <2>1 DEF Claim
<1>9. CASE Succeed(r)
  BY <1>9 DEF Succeed, ResultFirst
<1>10. CASE RecordFailure(r)
  <2>1. FailureStatus(r) \in JobStatuses \ {"SUCCEEDED"}
    BY DEF FailureStatus, JobStatuses, Runnable
  <2>2. \/ UNCHANGED jobs
        \/ \E due : jobs' = Unlocked(k, FailureStatus(r), due)
    BY <1>10 DEF RecordFailure
  <2> QED
    BY <1>3, <1>4, <2>1, <2>2
<1>11. CASE \/ Ask(r) \/ ReadResult(r) \/ DeleteLegacy(r) \/ FindActive(r)
            \/ FindJob(r) \/ Start(r) \/ Execute(r) \/ SaveResult(r)
            \/ SaveSummary(r) \/ AuditCompleted(r) \/ Throw(r) \/ Crash(r)
  BY <1>4, <1>11
  DEF Ask, ReadResult, DeleteLegacy, FindActive, FindJob, Start, Execute,
      SaveResult, SaveSummary, AuditCompleted, Throw, Crash
<1> QED
  BY <1>5, <1>6, <1>7, <1>8, <1>9, <1>10, <1>11 DEF Step

\* A job that succeeded has stored a result, whichever of the racing requests
\* finished it, and no summary comes before one.
THEOREM SuccessHasResult == Spec => []SucceededHasResult
<1>1. Init => ResultFirst
  BY DEF Init, ResultFirst, NewJob, Idle
<1>2. TypeOK /\ ResultFirst /\ [Next]_vars => ResultFirst'
  <2> SUFFICES ASSUME TypeOK, ResultFirst, [Next]_vars, result' = "none"
               PROVE  /\ ~summary'
                      /\ \A j \in DOMAIN jobs' : jobs'[j].status # "SUCCEEDED"
                      /\ \A w \in Workers :
                            work'[w].phase \notin {"saveSummary", "succeed"}
    BY DEF ResultFirst
  <2>1. CASE Tick \/ UNCHANGED vars
    BY <2>1 DEF Tick, vars, ResultFirst
  <2>2. ASSUME NEW r \in Workers, Step(r)
        PROVE  /\ ~summary'
               /\ \A j \in DOMAIN jobs' : jobs'[j].status # "SUCCEEDED"
               /\ \A w \in Workers :
                     work'[w].phase \notin {"saveSummary", "succeed"}
    <3>1. result = "none"
      BY <2>2, SavedIsAResult
      DEF Step, Ask, ReadResult, DeleteLegacy, FindActive, Requeue, Create,
          FindJob, Bury, Claim, Start, Execute, SaveSummary, Succeed,
          AuditCompleted, Throw, RecordFailure, Crash
    <3>2. ~summary /\ work[r].phase # "saveSummary"
      BY <3>1 DEF ResultFirst
    <3>3. summary' = summary \/ summary' = FALSE
      BY <2>2, <3>2
      DEF Step, Ask, ReadResult, DeleteLegacy, FindActive, Requeue, Create,
          FindJob, Bury, Claim, Start, Execute, SaveResult, SaveSummary,
          Succeed, AuditCompleted, Throw, RecordFailure, Crash
    <3> QED
      BY <2>2, <3>1, <3>2, <3>3, PhasesBeforeResult, RowsBeforeResult
  <2> QED
    BY <2>1, <2>2 DEF Next
<1>3. ResultFirst => SucceededHasResult
  BY DEF ResultFirst, SucceededHasResult
<1> QED
  BY JobTypes, <1>1, <1>2, <1>3, PTL DEF Spec

=============================================================================
