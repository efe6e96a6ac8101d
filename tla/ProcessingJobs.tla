--------------------------- MODULE ProcessingJobs ---------------------------
(* The durable OCR jobs of one document version, and the process requests  *)
(* that run them: IntelligenceService.run and processVersion.  There is no *)
(* dispatcher: every request may requeue, claim and execute the job in its *)
(* own call, so the requests of several users, and of several API          *)
(* processes, race for one row.  Each database call is a step; what a      *)
(* request read before an await it keeps in its record.                    *)
(*                                                                         *)
(* lockedBy, startedAt, completedAt and lastError are written by the code  *)
(* and never read by it: they are left out.                                *)
EXTENDS Naturals, Sequences, FiniteSets

CONSTANTS Workers,        \* process requests that may be in flight
          MaxAttempts,    \* processing_jobs.max_attempts
          LeaseDuration,  \* leaseDurationMs, in ticks
          RetryDelay,     \* ticks before the next attempt, by attempt
          MaxClock,       \* bound: ticks explored
          MaxJobs         \* bound: rows explored

ASSUME LimitAssumption == MaxAttempts \in Nat \ {0}
ASSUME DelayAssumption == /\ LeaseDuration \in Nat
                          /\ RetryDelay \in [1 .. MaxAttempts -> Nat]
ASSUME BoundAssumption == MaxClock \in Nat /\ MaxJobs \in Nat
ASSUME WorkersAssumption == IsFiniteSet(Workers) /\ Workers # {}

VARIABLES jobs,    \* rows of processing_jobs, in the order of creation
          result,  \* the version's row of ocr_results
          summary, \* the version has a row of ai_summaries
          work,    \* what each request is doing
          clock

vars == <<jobs, result, summary, work, clock>>

-----------------------------------------------------------------------------
(* Types. *)

Runnable == {"QUEUED", "RUNNING", "RETRY_PENDING"}
JobStatuses == Runnable \cup {"SUCCEEDED", "FAILED", "DEAD"}

Job == [status : JobStatuses, attempts : Nat, nextAttemptAt : Nat,
        locked : BOOLEAN, lockedAt : Nat]

NewJob == [status |-> "QUEUED", attempts |-> 0, nextAttemptAt |-> clock,
           locked |-> FALSE, lockedAt |-> 0]

\* What an extraction gives: no text, some text, or text that begins with
\* "%PDF-", as that of a text file may, and of the OCR service.
Extracted == {"empty", "text", "container"}

\* "container" is text that looks like a PDF container, which older builds
\* stored for a PDF; "none" and "deleted" are no row, before the first result
\* and after DeleteLegacy.
Results == {"none", "deleted"} \cup Extracted

\* "executing" is the time between OCR_STARTED and the extracted text;
\* "completed" is past the SUCCEEDED update, before OCR_COMPLETED is audited.
Phases == {"idle", "run", "deleteLegacy", "findActive", "requeue", "create",
           "process", "bury", "claim", "start", "executing", "saveResult",
           "saveSummary", "succeed", "completed", "failed"}

\* What a request remembers: the row it found, its status then, the attempt
\* it computed from it, its reading of the clock, and how the execution went.
Request == [phase : Phases, job : Nat, status : JobStatuses, attempt : Nat,
            now : Nat, found : Extracted, retryable : BOOLEAN]

Idle == [phase |-> "idle", job |-> 0, status |-> "QUEUED", attempt |-> 0,
         now |-> 0, found |-> "empty", retryable |-> TRUE]

-----------------------------------------------------------------------------

Goto(w, phase) == work' = [work EXCEPT ![w].phase = phase]

Leave(w) == work' = [work EXCEPT ![w] = Idle]

RunnableJobs == {j \in DOMAIN jobs : jobs[j].status \in Runnable}

\* Mutant of IndexAllows: the index is missing.
IndexMissing(j, status) == TRUE

\* The partial unique index: one runnable row per version and type.
IndexAllows(j, status) ==
    status \in Runnable => RunnableJobs \subseteq {j}

Unlocked(j, status, due) ==
    [jobs EXCEPT ![j] = [@ EXCEPT !.status = status, !.nextAttemptAt = due,
                                  !.locked = FALSE, !.lockedAt = 0]]

-----------------------------------------------------------------------------
(* run: an authorized user asks for the version to be processed. *)

Ask(w) ==
    /\ work[w].phase = "idle"
    /\ Goto(w, "run")
    /\ UNCHANGED <<jobs, result, summary, clock>>

\* Mutant of ReadResult: a result without text is not taken for one.
ReadResultUnlessEmpty(w) ==
    /\ work[w].phase = "run"
    /\ Goto(w, IF result \in {"container", "empty"} THEN "deleteLegacy"
                                                  ELSE "findActive")
    /\ UNCHANGED <<jobs, result, summary, clock>>

\* Whether a container is an older build's or was extracted by this one, line
\* 173 cannot tell.
ReadResult(w) ==
    /\ work[w].phase = "run"
    /\ Goto(w, IF result = "container" THEN "deleteLegacy" ELSE "findActive")
    /\ UNCHANGED <<jobs, result, summary, clock>>

\* One transaction deletes the summary and the result, whatever they hold by
\* now; deleting a result that is gone fails the request.
DeleteLegacy(w) ==
    /\ work[w].phase = "deleteLegacy"
    /\ IF result = "deleted"
         THEN Leave(w) /\ UNCHANGED <<result, summary>>
         ELSE /\ result' = "deleted" /\ summary' = FALSE
              /\ Goto(w, "findActive")
    /\ UNCHANGED <<jobs, clock>>

FindActive(w) ==
    /\ work[w].phase = "findActive"
    /\ \/ /\ RunnableJobs = {}
          /\ Goto(w, "create")
       \/ \E j \in RunnableJobs :
            work' = [work EXCEPT ![w] = [@ EXCEPT
                        !.phase = IF jobs[j].status = "RETRY_PENDING"
                                    THEN "requeue" ELSE "process",
                        !.job = j]]
    /\ UNCHANGED <<jobs, result, summary, clock>>

\* The row is updated by its id, and its lock is left as it is.
Requeue(w) ==
    /\ work[w].phase = "requeue"
    /\ LET j == work[w].job IN
         IF IndexAllows(j, "QUEUED")
           THEN /\ jobs' = [jobs EXCEPT ![j] = [@ EXCEPT
                               !.status = "QUEUED",
                               !.nextAttemptAt = clock]]
                /\ Goto(w, "process")
           ELSE UNCHANGED jobs /\ Leave(w)
    /\ UNCHANGED <<result, summary, clock>>

\* The refusal of a second runnable row (P2002) is swallowed.
Create(w) ==
    /\ work[w].phase = "create"
    /\ IF RunnableJobs = {}
         THEN Len(jobs) < MaxJobs /\ jobs' = Append(jobs, NewJob)
         ELSE UNCHANGED jobs
    /\ Goto(w, "process")
    /\ UNCHANGED <<result, summary, clock>>

-----------------------------------------------------------------------------
(* processVersion: find a job that is due, claim it, execute it. *)

LeaseExpired(j, now) ==
    jobs[j].locked /\ jobs[j].lockedAt + LeaseDuration <= now

Due(j) ==
    \/ jobs[j].status \in {"QUEUED", "RETRY_PENDING"}
       /\ jobs[j].nextAttemptAt <= clock
    \/ jobs[j].status = "RUNNING" /\ LeaseExpired(j, clock)

\* Mutant of FindJob: the attempts are not compared with the limit.
FindJobWithoutLimit(w) ==
    /\ work[w].phase = "process"
    /\ \/ /\ \A j \in DOMAIN jobs : ~Due(j)
          /\ Leave(w)
       \/ \E j \in DOMAIN jobs :
            /\ Due(j)
            /\ \A i \in 1 .. j - 1 : ~Due(i)
            /\ work' = [work EXCEPT ![w] = [@ EXCEPT
                  !.phase = "claim", !.job = j, !.status = jobs[j].status,
                  !.attempt = jobs[j].attempts + 1, !.now = clock]]
    /\ UNCHANGED <<jobs, result, summary, clock>>

\* findFirst by creation; a job without attempts left goes to be buried.
FindJob(w) ==
    /\ work[w].phase = "process"
    /\ \/ /\ \A j \in DOMAIN jobs : ~Due(j)
          /\ Leave(w)
       \/ \E j \in DOMAIN jobs :
            /\ Due(j)
            /\ \A i \in 1 .. j - 1 : ~Due(i)
            /\ work' = [work EXCEPT ![w] = [@ EXCEPT
                  !.phase = IF jobs[j].attempts >= MaxAttempts
                              THEN "bury" ELSE "claim",
                  !.job = j, !.status = jobs[j].status,
                  !.attempt = jobs[j].attempts + 1, !.now = clock]]
    /\ UNCHANGED <<jobs, result, summary, clock>>

Bury(w) ==
    /\ work[w].phase = "bury"
    /\ LET j == work[w].job IN
         jobs' = Unlocked(j, "DEAD", jobs[j].nextAttemptAt)
    /\ Leave(w)
    /\ UNCHANGED <<result, summary, clock>>

\* The conditional update: same status as found and, for a RUNNING row, a
\* lease that had expired by the reading of the clock made before the find.
MayClaim(w) ==
    LET j == work[w].job IN
    /\ jobs[j].status = work[w].status
    /\ work[w].status = "RUNNING" => LeaseExpired(j, work[w].now)

\* Mutant of Claim: the lock is not written with the status.
ClaimWithoutLock(w) ==
    /\ work[w].phase = "claim"
    /\ LET j == work[w].job IN
         IF MayClaim(w)
           THEN /\ jobs' = [jobs EXCEPT ![j] = [@ EXCEPT
                               !.status = "RUNNING",
                               !.attempts = jobs[j].attempts + 1]]
                /\ Goto(w, "start")
           ELSE UNCHANGED jobs /\ Leave(w)
    /\ UNCHANGED <<result, summary, clock>>

Claim(w) ==
    /\ work[w].phase = "claim"
    /\ LET j == work[w].job IN
         IF MayClaim(w)
           THEN /\ jobs' = [jobs EXCEPT ![j] = [@ EXCEPT
                               !.status = "RUNNING",
                               !.attempts = jobs[j].attempts + 1,
                               !.locked = TRUE, !.lockedAt = work[w].now]]
                /\ Goto(w, "start")
           ELSE UNCHANGED jobs /\ Leave(w)
    /\ UNCHANGED <<result, summary, clock>>

\* OCR_STARTED is audited before the try: if that fails, see Crash.
Start(w) ==
    /\ work[w].phase = "start"
    /\ Goto(w, "executing")
    /\ UNCHANGED <<jobs, result, summary, clock>>

\* Storage, decryption and the OCR service (or the built-in extraction) give
\* some text or none; only a decryption failure is not worth a retry.  Nothing
\* compares the text with "%PDF-" before it is stored.
Execute(w) ==
    /\ work[w].phase = "executing"
    /\ \/ \E found \in Extracted :
            work' = [work EXCEPT ![w] = [@ EXCEPT !.phase = "saveResult",
                                                  !.found = found]]
       \/ \E retryable \in BOOLEAN :
            work' = [work EXCEPT ![w] = [@ EXCEPT !.phase = "failed",
                                                  !.retryable = retryable]]
    /\ UNCHANGED <<jobs, result, summary, clock>>

\* Mutant of SaveResult: an empty text is not stored.
SaveResultUnlessEmpty(w) ==
    /\ work[w].phase = "saveResult"
    /\ result' = IF work[w].found = "empty" THEN result ELSE work[w].found
    /\ Goto(w, IF work[w].found = "empty" THEN "succeed" ELSE "saveSummary")
    /\ UNCHANGED <<jobs, summary, clock>>

\* Stored as it was extracted, over whatever result there is by now.
SaveResult(w) ==
    /\ work[w].phase = "saveResult"
    /\ result' = work[w].found
    /\ Goto(w, IF work[w].found = "empty" THEN "succeed" ELSE "saveSummary")
    /\ UNCHANGED <<jobs, summary, clock>>

SaveSummary(w) ==
    /\ work[w].phase = "saveSummary"
    /\ summary' = TRUE
    /\ Goto(w, "succeed")
    /\ UNCHANGED <<jobs, result, clock>>

\* The row is updated by its id: the claim is not checked again.
Succeed(w) ==
    /\ work[w].phase = "succeed"
    /\ LET j == work[w].job IN
         jobs' = Unlocked(j, "SUCCEEDED", jobs[j].nextAttemptAt)
    /\ Goto(w, "completed")
    /\ UNCHANGED <<result, summary, clock>>

\* OCR_COMPLETED is audited inside the try.
AuditCompleted(w) ==
    /\ work[w].phase = "completed"
    /\ Leave(w)
    /\ UNCHANGED <<jobs, result, summary, clock>>

\* A database call inside the try fails and the catch takes over.
Throw(w) ==
    /\ work[w].phase \in {"saveResult", "saveSummary", "succeed", "completed"}
    /\ work' = [work EXCEPT ![w] = [@ EXCEPT !.phase = "failed",
                                             !.retryable = TRUE]]
    /\ UNCHANGED <<jobs, result, summary, clock>>

\* Mutant of FailureStatus: the attempt under way is counted twice.
FailureStatusOneEarly(w) ==
    IF ~work[w].retryable THEN "FAILED"
    ELSE IF work[w].attempt + 1 >= MaxAttempts THEN "DEAD"
    ELSE "RETRY_PENDING"

FailureStatus(w) ==
    IF ~work[w].retryable THEN "FAILED"
    ELSE IF work[w].attempt >= MaxAttempts THEN "DEAD"
    ELSE "RETRY_PENDING"

\* The delays of the code: retryBaseDelayMs, doubled with every attempt.
ExponentialDelay(base) == [a \in 1 .. MaxAttempts |-> base * 2 ^ (a - 1)]

\* The catch, again by id; the index may refuse a RETRY_PENDING.
RecordFailure(w) ==
    /\ work[w].phase = "failed"
    /\ LET j == work[w].job
           status == FailureStatus(w)
           due == IF status = "RETRY_PENDING"
                    THEN clock + RetryDelay[work[w].attempt]
                    ELSE work[w].now
       IN jobs' = IF IndexAllows(j, status) THEN Unlocked(j, status, due)
                                            ELSE jobs
    /\ Leave(w)
    /\ UNCHANGED <<result, summary, clock>>

\* The API process dies, or a call outside the try fails: the request ends
\* where it is and the row keeps whatever it says.
Crash(w) ==
    /\ work[w].phase # "idle"
    /\ Leave(w)
    /\ UNCHANGED <<jobs, result, summary, clock>>

\* Some row's lease is still to expire.
Awaited == \E j \in RunnableJobs :
              jobs[j].locked /\ clock < jobs[j].lockedAt + LeaseDuration

\* The bound holds only while nothing waits for the time.
Tick ==
    /\ clock < MaxClock \/ Awaited
    /\ clock' = clock + 1
    /\ UNCHANGED <<jobs, result, summary, work>>

-----------------------------------------------------------------------------

\* The upload of the version queued its first job.  An older build may have
\* completed it with the PDF container as its text.
Init ==
    /\ clock = 0
    /\ \/ jobs = <<NewJob>> /\ result = "none" /\ summary = FALSE
       \/ /\ jobs = <<[NewJob EXCEPT !.status = "SUCCEEDED", !.attempts = 1]>>
          /\ result = "container" /\ summary = TRUE
    /\ work = [w \in Workers |-> Idle]

Step(w) ==
    \/ Ask(w) \/ ReadResult(w) \/ DeleteLegacy(w)
    \/ FindActive(w) \/ Requeue(w) \/ Create(w)
    \/ FindJob(w) \/ Bury(w) \/ Claim(w) \/ Start(w) \/ Execute(w)
    \/ SaveResult(w) \/ SaveSummary(w) \/ Succeed(w) \/ AuditCompleted(w)
    \/ Throw(w) \/ RecordFailure(w) \/ Crash(w)

Next == Tick \/ \E w \in Workers : Step(w)

Spec == Init /\ [][Next]_vars

\* What a request does unless it is interrupted.
Proceed(w) ==
    \/ ReadResult(w) \/ DeleteLegacy(w) \/ FindActive(w) \/ Requeue(w)
    \/ Create(w) \/ FindJob(w) \/ Bury(w) \/ Claim(w) \/ Start(w)
    \/ Execute(w) \/ SaveResult(w) \/ SaveSummary(w) \/ Succeed(w)
    \/ AuditCompleted(w) \/ RecordFailure(w)

\* Users keep asking, requests go on, time passes, and requests do not crash
\* for ever (a request that finds nothing due leaves by the step of a crash).
\* Execution and the database may fail every time.
Fairness ==
    /\ \A w \in Workers : WF_vars(Ask(w)) /\ WF_vars(Proceed(w))
    /\ WF_vars(Tick)
    /\ <>[][\A w \in Workers : Crash(w) => Proceed(w)]_vars

FairSpec == Spec /\ Fairness

-----------------------------------------------------------------------------
(* Properties. *)

\* The rows and the requests' records have their types.
TypeOK ==
    /\ jobs \in Seq(Job)
    /\ result \in Results
    /\ summary \in BOOLEAN
    /\ work \in [Workers -> Request]
    /\ clock \in Nat

\* A job is given up as DEAD only when the attempts it was allowed are used
\* up, although the request that says so decided on an attempt it computed
\* from an old reading of the row, and may come after any other request.
DeadIsExhausted ==
    \A j \in DOMAIN jobs :
        jobs[j].status = "DEAD" => jobs[j].attempts >= MaxAttempts

\* A RUNNING row always has a lock that will expire: without one no later
\* request could reclaim the job, and run would create no other.
RunningCanBeReclaimed ==
    \A j \in DOMAIN jobs :
        jobs[j].status = "RUNNING" =>
            jobs[j].locked /\ jobs[j].lockedAt <= clock

\* The limit on attempts is checked before the claim and not in it, so racing
\* requests can pass it; but each of them only once.
OvershootIsBounded ==
    \A j \in DOMAIN jobs :
        jobs[j].attempts + 1 <= MaxAttempts + Cardinality(Workers)

\* docs/failure-modes.md: SUCCEEDED means that extraction and persistence
\* completed.  A succeeded job has stored a result, whoever finished it, and
\* no summary is stored before the first result.
SucceededHasResult ==
    /\ (\E j \in DOMAIN jobs : jobs[j].status = "SUCCEEDED")
          => result # "none"
    /\ summary => result # "none"

\* However requests race to requeue, create and fail, one version never has
\* two runnable jobs.  The transitions into a runnable status are scattered
\* over three places, and each relies on the index alone.
OneRunnableJob ==
    \A i, j \in DOMAIN jobs :
        jobs[i].status \in Runnable /\ jobs[j].status \in Runnable => i = j

\* w has extracted text that looks like a container, and is to store it.
HoldsContainer(w) ==
    work[w].phase = "saveResult" /\ work[w].found = "container"

ResultIsSafe ==
    /\ result \in {"empty", "text"}
    /\ \A w \in Workers : /\ work[w].phase # "deleteLegacy"
                          /\ ~HoldsContainer(w)

\* DeleteLegacy deletes whatever it finds, an await after some result was
\* taken for a container, and so may take a good one.  That needs a result
\* that looks like a container: once no request has read one or is to store
\* one, the version keeps a result that is usable until an extraction gives
\* such a text (again).  Usable is not the same: a late worker may still
\* replace a text by another one or by none.
LostOnlyIfMistaken ==
    [][ResultIsSafe => ResultIsSafe' \/ \E w \in Workers : HoldsContainer(w)']_vars

\* No dispatcher retries or reclaims a job: only a request does, and only the
\* one row it finds.  If somebody keeps asking, every job, also one whose
\* request died or lost a race, succeeds or is given up in the end.
EveryJobEnds ==
    \A j \in 1 .. MaxJobs : j \in RunnableJobs ~> j \notin RunnableJobs

-----------------------------------------------------------------------------
(* What the documents say and the code does not keep. *)

Working(w) == work[w].phase \in {"start", "executing", "saveResult",
                                 "saveSummary", "succeed"}

\* docs/failure-modes.md: one of several process requests performs the work.
\* Requests that work on one job at the same time have an expired lease
\* between them: all but one of them overran it.
NoConcurrentExecution ==
    \A v, w \in Workers :
        /\ Working(v) /\ Working(w) /\ work[v].job = work[w].job
        /\ work[v].now + LeaseDuration > clock
        /\ work[w].now + LeaseDuration > clock
        => v = w

=============================================================================
