# G-Vaults: a TLA+ verification project

G-Vaults keeps the documents of criminal cases: versioned, encrypted files with
access grants, legal holds, record statuses, OCR, and two histories (audit and
custody).  This directory holds TLA+ models of its API's core, TLC runs over
small instances, and TLAPS proofs for every instance.  Paths are relative to the
repository; `api/` stands for `apps/api/src/`.

## 1. The system

One NestJS API (any number of processes) over PostgreSQL and an object store, an
OCR service it calls over HTTP, and a Next.js client.  There are no queues and
no background workers: everything happens inside HTTP requests, so *concurrency
is between requests*, at every `await`, and the only shared state is in
PostgreSQL and the object store.  PostgreSQL runs each statement and each
transaction in READ COMMITTED; a conditional `updateMany` is the code's
compare-and-set, and partial unique indexes are its last line of defence.

| Component | State | Operations | What makes it correct |
| --- | --- | --- | --- |
| Records lifecycle (`api/documents/records.service.ts`) | `documents.record_status`, `revision`, `legal_holds` | placeHold, releaseHold, changeStatus | a held document is never disposed of; statuses follow the table; every change is in both histories |
| Processing jobs (`api/documents/intelligence.service.ts`) | `processing_jobs`, `ocr_results`, `ai_summaries` | run, processVersion | one runnable job per version; a job is attempted a bounded number of times; no job is stuck; success means a stored result |
| Idempotency ledger (`api/common/idempotency.service.ts`) | `idempotency_records` | execute | one mutation per key and retention window; a replay is the answer to that very request |
| Audit trail (`api/audit/audit.service.ts`) | `audit_events`, advisory lock 26190 | append | the hash links follow the commits |
| Custody events (`api/documents/custody.service.ts`) | `custody_events` | append | agrees with the state it tells of |
| Documents and versions (`api/documents/documents.service.ts`) | `documents`, `document_versions`, objects in storage | create, createVersion, download, preview, verify | numbers are consecutive, parents chain, a row's object exists |
| Access grants (same file) | `document_permissions` | grantAccess, revokeAccess | one active grant per principal and capability; a revocation is final |
| Authorization (`api/documents/document-authorization.service.ts`) | reads only, audits denials | authorize, capabilities | a decision is the grants' at the time it is taken |
| Storage, encryption, file validation | objects | put, get, delete; encrypt; sniff | data transformations behind `await` |
| Authentication (`api/auth`) | tokens that clients keep | login, validate | no answer without its audit event; a request acts as its user is now |
| Rate limiter (`api/common/rate-limit.middleware.ts`) | counters in memory | use | bounds what passes in a window's time; nobody is refused longer than told |
| Search, cases, users, departments | rows | create and read | scope of the query is that of authorize |
| OCR service (`services/ocr`) | none | extract text | |
| Web client (`apps/web`) | cached queries; an Idempotency-Key per call | fetch, submit, invalidate | changes what its user was shown, once; shows its own changes |

**How they interact.**  A mutating request passes authorize, then (when it
carries a key) runs its operation inside the ledger's `execute`.  The operation
reads, and then opens a transaction that claims a row by its revision, changes
it, and calls custody and audit *with the transaction*, so that the histories
commit with the change.  An upload stores its object first and then commits
document, version and a QUEUED job.  A process request requeues or creates a
job, claims it, calls storage and the OCR service, and writes the result.

**What is hard.**  Values read before an `await` and used after it (statuses,
holds, attempts, ids); a claim that names fewer columns than the check before
it; writes that belong together in two transactions; leases shorter than the
work they protect; failures after a commit; an order taken from clocks; locks
taken in an order no two services agree on; progress that only repeated requests
make; a browser that acts on a cache, retries with new keys and may miss answers.
`PROJECT.json` lists each of these at its line.

## 2. Plan

| # | Modules | Abstract specification | Runs | Theorems | State |
| --- | --- | --- | --- | --- | --- |
| 1 | RecordStates, RecordPolicy, RecordServer, RecordLifecycle | RecordPolicy, RecordServer | 2 requests, 3 revisions | types, no disposal under hold, what custody tells, both refinements | done |
| 2 | ProcessingJobs | | 2 requests, 2 jobs, 2 attempts, lease 1, 2 ticks | types, DEAD, reclaim, one runnable, overshoot, success has a result | done |
| 3 | Idempotency | | 2 calls, 2 payloads, retention 1, 3 ticks | types, one executor, one mutation per window, answers, replays | done |
| 4 | AuditChain | | 3 transactions, 4 ids, skew 1 | types, tree, chain, stamps | done |
| 5 | DocumentVersions: upload against storage and rows, lost acknowledgements, reads | VersionHistory | 2 requests, 3 uploads, 1 read | types, numbers, lineage, objects of committed rows, orphans, reads, refinement | done |
| 6 | AccessGrants: grant, expire, revoke, and authorize with its copies | | 2 requests, 4 users, 2 rows, 2 ticks | types, one active grant, revocation, authority, policies | done |
| 7 | Liveness of ProcessingJobs under fairness of repeated requests; how results are lost | a job that ends | 2 requests, 1 job, 2 attempts | how results are lost (liveness is out of TLAPS' reach) | done |
| 8 | LockOrder: the transactions that change documents, grants and histories, as sequences of row locks and the advisory lock | | 3 transactions, 2 documents | types, the shape of every deadlock | done |
| 9 | RateLimit, Sessions: logins, tokens and the limiter | | 2 requests, 4 arrivals, 4 ticks | types, allowance, Retry-After, audited logins, current rows | done |
| 10 | WebClient: two tabs against RecordServer, with navigation | RecordServer as the server | 2 tabs, 2 calls, 2 changes | types, acts on what was shown, own changes shown | done |
| 11 | Proofs of every safety property that was only model-checked; DocumentVersions as an implementation of a history that only grows | VersionHistory | | refinement | done |
| 12 | The ledger as an implementation of an operation that happens once in a window | the operation | | refinement | next |

The order puts first what the documents promise most firmly (holds, exactly
once, durable jobs, the hash chain, the stored originals, access).

## 3. The modules

In every module a step is one database call or one transaction, and a slot
(request, worker, caller, transaction) remembers what the handler's local
variables hold.  A transaction whose first statement claims its row is one
atomic step: the row lock it takes keeps the others waiting, and READ COMMITTED
re-evaluates their condition afterwards.  A slot may stop at any point (`Abandon`,
`Crash`, `Rollback`): that is a crash of the process, a lost connection, or a
failing query outside a `try`.  Definitions that begin with "Mutant of" are never
part of a specification; they are broken versions of the definition that
follows, which show that a property is able to fail.

**RecordLifecycle** (with RecordStates, the statuses and transition table, and
RecordPolicy, the promise).  State: the document's status and revision, its
holds, the requests, custody, and audit as counters.  `Send...` is a client's
request with a revision that some GET returned (`Sendable`); `Deny`,
`AuthorizeHold` and `AuthorizeStatus` are authorize and the checks on what it
returned; `FindHold` and `CheckHold` are the reads before the transaction;
`BlockInCustody` and `BlockInAudit` the two writes of a refused disposition;
`Commit...` and `Conflict` the transaction.  RecordPolicy has no requests or
revisions, only status, held, and three steps; `ImplementsPolicy` says that the
detailed module implements it under `status <- doc.status, held <- Held`.
RecordServer is the document as responses carry it (status, revision, the holds'
statuses) with the operations that a call may ask for, each in one step behind a
claim by revision; `ImplementsServer` says that every change of what is served is
such an operation, and the one that some request's own call names.

**ProcessingJobs**.  State: job rows of one version, the result (`none` before the
first, `deleted`, or one of `empty`, `text`, `container`), whether a summary exists,
the requests, a clock.  `container` is a text that begins with `%PDF-`: older builds
stored the PDF itself, and a text file or the OCR service may give such a text
today.  `Execute` gives any of the three and `SaveResult` stores it as it is.
`Ask` to `Create` are `run`; `FindJob` to `RecordFailure` are `processVersion`, with
the `try` as phases `executing` to `completed` and the `catch` as `failed`.  `Throw` is
a query failing inside the `try`.  An update by id is modelled as such: it does
not look at the row's status, which is the point of the violation run.  `Proceed`
is what a request does by itself, without `Throw` and `Crash`.

**Idempotency**.  State: all rows the key ever had, calls, committed effects and
reported answers (histories, so that properties can speak of the past), a clock.
A row is `fresh` (IN_PROGRESS, null response), `claimed` (the sentinel), `completed`
or `gone`.  The operation is one commit, or a failure; a failure *after* the
commit is there only when `FailsAfterCommit`.

**AuditChain**.  State: committed events in commit order, open transactions, the
advisory lock, a clock that every process reads with a lag of at most `MaxSkew`.
An event is its id, stamp and link (the hash identifies its event).  Ids are
ordered as PostgreSQL orders them, and picked at random: any unused one.

**DocumentVersions**.  State: the rows of one document's versions in commit
order, the current-version pointer, the keys that storage holds, the slots, and
histories (keys made, keys left behind, commits not acknowledged, events and
answers of reads).  `AuthorizeVersion` remembers the current version as it was
(`seen`); `Put` and `PutFails` are the call to storage outside the `try`;
`AggregateNumber` and `Commit` are the two parts of the transaction, with the
unique index as `NumberIsFree`; `Cleanup` and `CleanupFails` are the `catch`.  A
commit may be followed by the answer, or by an exception: that is a connection
lost after the commit.  `Resolve` to `AnswerRead` are download, preview (`read`)
and verify.  A version and its storage key get one name, as the key ends in the
version's id.  VersionHistory is what readers are promised: no uploads, keys or
clean-ups, only versions that are added with their content, and the loss of the
content of a version that nobody was told of.  `ImplementsHistory` maps a
version's content to its object, `stored <- objects \cap RowIds`.

**AccessGrants**.  State: the permission rows of one document in commit order, a
clock, the revocations custody tells of, the slots.  `Authorized`, `Capability`
and `InScope` are the decisions of authorize, capabilities, and the `where` that
list, search and securityStats write alike, taken on the rows as they are.
`FindExisting`, `Expire`, `Insert` are the three database calls of grantAccess
after authorize; the partial unique indexes are `IndexAllows`.  `Revoke` is the
claim by status and revision.  Any user may ask, and names any revision it was
given; the validity times are the client's, in the past or in the future.

**LockOrder** composes the transactions that change documents, grants, cases and
the two histories, of whatever service.  A transaction is a list
of lock requests (`UploadLocks`, `LifecycleLocks`, ...) and the place it has
reached; `Script` says which operation runs which.  The lists name every lock
somebody else could wait for: rows that are updated, entries of unique indexes,
rows an insert refers to by a foreign key, and `pg_advisory_xact_lock(26190)`.
Not in them are the rows of jobs, OCR results, summaries and the ledger: they are
locked by single statements, and by one transaction that deletes a summary and its
result, and nobody who has such a lock wants another, so no cycle goes through them.
`Acquire` waits as PostgreSQL's table of conflicts says, `Rollback` is any failure,
`AbortVictim` the deadlock detector, which aborts a member of a cycle.

**RateLimit** is one bucket of the middleware: its counter, the end of its
window, and histories of what passed and what was refused.  **Sessions** extends
it with the login of one user (`Login` through the limiter, `FindUser`, `Sign`, and
the audited ends `AdmitLogin` and `RefuseLogin`) and with guarded requests
(`Request`, `Validate`, `Answer`).  `since` collects the rows the user has had since
a request came in.  `Validate` looks at the status and the role in the row, as
JwtStrategy does, and not at the password.  `Restart` loses buckets and requests, and keeps tokens, which
no server stores.

**WebClient** is the record controls of the document page.  Each tab has two
cached queries (`document`, `holds`), each with at most one fetch under way: `Ask`,
`Read` at the server, `Show`.  The cache belongs to the root layout and outlives the
page: `Leave` follows a link out of it (`mounted` shrinks; cache, fetches and calls
go on), `Return` mounts it again and fetches what has no data, is `marked`, or is
older than staleTime (any may be), `Forget` is the collection of what nobody looks
at, `Reload` a full load.  `Succeed` does what invalidateQueries does: it marks the
queries that have data (`loaded`), restarts those of a mounted page, and leaves alone
the fetches of a page that is away and the first fetch of a query.  When such a
fetch has read the document before the success arrives, the tab is in `outrun`, a
history, until the document is asked for again.  `Submit...` takes the revision from the cache as
submitHold, releaseHold and submitRecordStatus do; `Apply` is the server:
WebClient extends RecordServer, which RecordLifecycle implements for clients that
name only revisions they were given (and this module shows that its pages are such
clients: the second part of `ActsOnWhatWasShown`).  `LoseAnswer` leaves the request
on its way.  The ledger is no variable here because every call has a new key.

**MC...** give symmetry sets, for the jobs the delays of the code, and for the
grants an office: the department head who created the document, two members of
a department of whom one is cleared, and an auditor.
**...Proofs** hold the theorems.

## 4. What the runs show

Runs that pass:

| Run | Shows |
| --- | --- |
| `records` | The stale reads of changeStatus are harmless because the claim compares the revision the client *had before* them; placing a hold bumps it. Custody, read back, tells the document's statuses and holds; every revision is one recorded change; a refusal that the audit trail tells of is in custody; RecordPolicy and RecordServer are implemented. |
| `jobs` | Although rows are updated by id after stale reads, DEAD means exhausted, attempts overshoot by less than the number of concurrent requests, a success has a result, and the partial index alone keeps one runnable job.  Once the requests that saw a result they took for a PDF container are gone, no result is lost until a text that looks like one is extracted.  Starts from a fresh upload, and from a version an older build completed with an unusable result. |
| `idempotency` | The sentinel race, expiry, purge under a running call, crashes at every step: one mutation per window, and each answer is that of the caller's own data. |
| `audit_chain` | One tree whatever the clocks do; stamps in commit order up to the skew; one chain as long as stamps increase. |
| `versions` | Numbers are consecutive and the current version is the last although the pointer is set blindly; parents and sources are older versions; an acknowledged version keeps its object and a conflict leaves none behind; who got bytes or a verdict is in audit and custody; VersionHistory is implemented. |
| `jobs_liveness` | If users keep asking, a job ends even when every execution fails, claims are lost to others and requests crash: the attempts, the lease and the retry time leave no state in which a job waits for ever. |
| `lock_order` | Every deadlock contains an upload, which has replaced the document's pointer (a column of a unique index, hence `FOR UPDATE`) and wants the trail, and a transaction that has the trail and inserts an audit event about that document. Nobody else needs to fear one, and the detector's abort is enough for everybody to get on. |
| `sessions` | In the time of one window twice the limit can pass and never more; `Retry-After` is long enough and less than a second too long; tokens and refusals have their events; a request acts with a status and role its user had since it came in, and a login with a password of that row. |
| `web_client` | Late, repeated and doubled calls change only the document their user was shown; a page that was told of success does not settle on an older document, also after its user left it and came back, but for one case: an older answer that nothing could cancel was on its way as the success arrived (`outrun`). |
| `grants` | One active grant per principal and permission; a row is revoked once, told of once, never active again; EXPIRED rows are over; every grantor's authority goes back to the creator; capabilities, lists and authorize decide alike at every moment. |

The run of `web_client` also checks the types.  The type invariants of the other
modules, and that a RUNNING row always has a lock that expires, are theorems
(section 5) for every instance and are not repeated here.

Runs that are expected to find a violation; each says what a text of the
repository says, and TLC shows what the code does instead:

| Run | Counterexample |
| --- | --- |
| `jobs_concurrent_execution` | A request sees RETRY_PENDING; another requeues, claims and executes; the first requeues the RUNNING row by id, claims it too (`intelligence.service.ts:187-191`). |
| `idempotency_late_failure` | The operation commits and then throws, as `documents.service.ts:166` may; the ledger row is deleted and a retry commits again (`idempotency.service.ts:59-64`). |

Further disagreements met while modelling, which the modules contain and no run
is spent on:

* The append of OCR_COMPLETED is inside the `try` and after the SUCCEEDED update:
  when it fails the catch writes RETRY_PENDING or DEAD over SUCCEEDED
  (`intelligence.service.ts:117-143`), where `docs/failure-modes.md:10-15` has nothing
  follow SUCCEEDED.  The job is attempted again or ends; the result stays.
* Two events of one millisecond are ordered by their random ids, so that a later
  one links past the latest and the chain forks (`audit.service.ts:43`);
  `docs/architecture.md:193-194` has each event hash the previous one.  `OneTree` and
  `ChainWhenTimesIncrease` say what remains.
* Two uploads that authorize while version 1 is current commit one after the
  other, the second with parent 1 (`documents.service.ts:176`, `:213`), where
  `docs/architecture.md:148-149` has revisions point to the prior current version;
  `LineageIsOlder` says what remains.
* grantAccess writes EXPIRED by id over a revocation that claimed the grant an
  await earlier (`documents.service.ts:343-344`, `:406`), where
  `docs/failure-modes.md:40` promises no silent overwrite; the grant stays inactive
  (`RevokedOnce`).
* The web client never reuses a key (`lib/api.ts:20`), so that an upload repeated
  after a lost answer is a second version, where `docs/failure-modes.md:39` says
  "Reuse the original key and payload"; calls with a revision are safe
  (`ActsOnWhatWasShown`).
* A refused disposition is written to custody and then to audit in two unrelated
  transactions (`records.service.ts:132-140`); a crash in between leaves it in
  custody only, where `docs/records-lifecycle.md:23` says both.
* The limit on attempts is compared before the claim and not in it
  (`intelligence.service.ts:56`, `:71-76`), so that attempts may pass
  `maxAttempts`; `OvershootIsBounded` says by how much.
* A result that begins with `%PDF-` is taken for the unusable one of an older build
  and then deleted by version id (`intelligence.service.ts:170-177`); a result stored
  in between is lost.  It need not be an older build's: text is stored as extracted
  (`:105-109`), a text file or an OCR answer may begin so (`:101-104`, `:243-246`), and
  each `run` then deletes what the one before stored.  Any result may also be replaced
  by that of a late worker, a text by none.  `LostOnlyIfMistaken` says what remains.
* A token survives a change of its user's password: only the status of the row and
  the token's own time end it (`jwt.strategy.ts:23-37`).  `ActsAsTheUserIs` therefore
  speaks of passwords for logins only.
* A page that is left while an older fetch of its document is under way may, when
  its user returns after the success of a change, show the document without the
  change until something else fetches it: the success only marks the query of a page
  that is away, the older answer arrives and takes the mark off, and within staleTime
  a mount does not fetch (`page.tsx:47-49`, `providers.tsx:7-9`).  Without `outrun` in
  `OwnChangesAreShown` TLC finds this trace.  No text of the repository promises
  otherwise.
* When the acknowledgement of an upload's commit is lost, the `catch` deletes the
  object of a committed version (`documents.service.ts:162-163`, `:243`), where
  `docs/failure-modes.md:33` says "DB does not reference the failed object";
  `MissingOnlyAfterLostAck` says that this is the only way.

**Bounds.**  Every bound is a constant: `MaxRevision`, `MaxDenials`, `MaxClock`,
`MaxJobs`, `MaxRows`, `MaxUploads`, `MaxReads`, `MaxGrants`, `MaxArrivals`,
`MaxChanges`, `MaxFetches`, the sizes of the sets
of slots and of `Ids`, and the grants and windows a client may ask for.  Two slots
are enough for every pairwise race, and a slot is reused, so that two slots make
long histories; three revisions let a hold be placed, a disposition be refused,
and the hold be released.  The clock of `jobs` ends at 1 unless a locked job waits
for its lease (`Awaited`), and so reaches past a lease and past the first retry
delay (both 1); MaxAttempts 2 has a first, a last, and an overshooting attempt.
`jobs_liveness` has one job row: liveness of a second one asks nothing new, as only
one row is runnable at a time.  Three uploads let two conflict over a number, or follow one another
over one stale parent.  Two grants let one be replaced after it ended or was
revoked, and let one derive from the other; three windows (always, the first
tick, the second) let a grant be asked for before, during and after its time.
Retention 1 and 3 ticks let a key live, expire, be purged, and live again.  Three
transactions and skew 1 let one wait for the lock, one hold it and one lag; in
`lock_order` three make deadlocks of two and of three, and let a third wait behind
one.  In `sessions` limit 1, window 2 and seconds of 2 ticks let windows meet, end
between two whole seconds, and end before and after the token does.  In
`web_client` two changes let each tab be overtaken by the other, one reason to
fetch or to leave (beside invalidations, returns and pages that show an error) is
enough for an older answer to be under way, at a page or without one, when a success
arrives, and one status that users choose (`DISPOSED`, which holds block) is enough,
as no definition tells the others apart.  Two roles in `sessions` let a row change its
role and its status.  The proofs need none of these bounds.  Symmetry is used only for slots and
tabs, which no definition distinguishes, and in no run of a liveness property.

`CHECK_DEADLOCK` is left on wherever it can be: a clock that has reached its bound
does not stop the slots.

**Fairness.**  Stated for two runs, and for nothing else.  In `jobs_liveness`
(`ProcessingJobs!Fairness`) users keep asking, an API process that was not stopped
goes on with its request, time passes, and crashes stop at some point; that an
execution or a query inside the `try` ever succeeds is *not* assumed.  The code has
no dispatcher, so that without the first assumption nothing moves.  In
`lock_order` a lock that is free again and again is granted at last (PostgreSQL
queues its waiters), transactions that have their locks commit, and a deadlock is
ended by the detector.  Everything else is a safety property and needs none.

## 5. What is proved

All theorems hold for any number of slots and any values of the constants that
satisfy the modules' ASSUMEs; proofs are checked by TLAPS to the last leaf.

* **RecordLifecycleProofs**: `RecordTypes`; `HeldIsNeverDisposed` and
  `RecordsImplementPolicy`, both under the assumption that clients send only
  revisions that a GET returned (`~ClientPredicts`).  With that assumption the
  invariant says: a request about to dispose, whose expected revision is still
  the document's, found no active hold *at this revision*, and the status it read
  is the document's.  Since every change of holds or status bumps the revision, a
  claim that succeeds proves its own reads fresh.  The assumption is needed:
  with `ClientPredicts = TRUE` TLC finds a disposal under an active hold, by a client
  that names the revision a concurrent placement is about to create.
  `CustodyKeepsTheStatus` needs the same assumption, since the `from` of an event is
  the status that authorize read; `CustodyKeepsTheHolds`, `RevisionsAreRecorded` and
  `RefusalsReachCustodyFirst` do not: the index, the claim of the hold's row and
  the transaction are enough.  Their proofs go by the places of the trail: what an
  append adds to the places of one kind, which place precedes the new one, and how
  many there are.  For the refusals the audited ones and the requests between the
  two writes are counted together.
* **RecordsImplementServer and the pages** (in RecordLifecycleProofs). The theorem
  maps each commit to the operation that its own request asked for and every other
  step to a stutter. `PageTypes`, `PagesActOnWhatTheyShow` and
  `PagesShowTheirChanges` are about WebClient in front of that server, hence in
  the same module, which extends both (WebClient's `Pages...` names keep its
  initial states, steps and types apart). Inductive invariant: what a page shows,
  or is about to show, is not newer than the document and true as long as its
  revision is the document's; a call under way carries the status that was shown
  with the revision it names; a page that was told of a change has it, or has asked
  for the document since, or is away and has it marked for the return, or is outrun.
  `PagesShowTheirChanges` excepts the last. Together they close the circle: the lifecycle is
  the pages' server if clients send only revisions they were given, and pages in
  front of that server send no others.
* **ProcessingJobsProofs**: `JobTypes`, `DeadOnlyWhenExhausted`,
  `RunningIsReclaimable`, `OnlyOneRunnable`, `AttemptsOvershoot`,
  `SuccessHasResult`. Inductive invariant: what each slot remembers bounds the row
  from below (the row has at least the attempts the slot computed, or one less
  before its claim), and `AttemptsReserved`, which counts for every row the slots
  that may still claim it: attempts + claimers + 1 <= MaxAttempts + |Workers|. The
  cardinality lemmas come from FiniteSetTheorems. `ResultsLostOnlyIfMistaken` is
  about steps: only a request that read a result that looks like a container
  deletes, from a usable one no request starts to, and only a worker that extracted
  such a text stores one. For `SuccessHasResult`: until the first
  result is stored no slot is past storing one, no job has succeeded and there is
  no summary.
* **LockOrderProofs**: `LockTypes`, `DeadlocksNeedUploads`.  Inductive invariant:
  no two transactions hold conflicting locks of one row.  From it, and from the
  scripts alone: in a set that blocks itself somebody has the trail (who waits for
  anything else waits for a transaction that has a lock and wants the trail or has
  it); the trail's holder can only be waiting for its document, and only an upload
  keeps others from referring to a document.
* **SessionsProofs**: `SessionTypes`, `AllowanceOfAnyWindow`,
  `RetryAfterSuffices`, `LoginsReachTheTrail`, `RequestsActOnCurrentRows`. For the
  allowance the invariant says that passes are ordered by window, that windows do
  not overlap, and that `Max` + 1 passes in a row end in a later window than they
  began in, so that 2 * `Max` + 1 of them span two windows. `RetryAfterSuffices`
  rests on what the division rounds up to, and on a refusal naming the window it
  was refused in. For the rows: `since` has the user's present row while a request
  is in flight.
* **IdempotencyProofs**: `LedgerTypes`, `AnswersMatchTheirCalls` and
  `RowsReplayTheirOwn`, whether or not operations fail after their commit;
  `RowHasOneExecutor` and `MutatesOncePerWindow`, under `~FailsAfterCommit`.
  Inductive invariant: only the last row can be live; a call that operates holds a
  claimed row, or one that was purged; two calls never hold one row; each effect
  is charged to a row that is over (completed, gone or held), and no two effects
  to one row.
* **DocumentVersionsProofs**: `VersionTypes`, `NumbersCountTheCommits`,
  `LineageEndsAtTheOriginal`, `CommittedObjectsStay`, `NoOrphanWithoutCause`.
  Inductive invariant: no two slots share a key, and a slot's key is not a
  committed one unless its commit was not acknowledged, so that a clean-up only
  removes what its own request stored; the number a slot computed is at most one
  more than the rows there are, so that a free number is the next one; what a slot
  saw as current, or checked as source, is a committed version.
  `ReadsReachBothHistories` counts the reads in flight: those between two histories
  make up exactly the difference.  `VersionsImplementHistory`: a commit is `Revise`,
  a clean-up is `Lose` or nothing, and a put is nothing, as its key is no row's.
* **AccessGrantsProofs**: `GrantTypes`, `OnlyOneActive`, `RevokedAtMostOnce`,
  `ExpiredOnlyAtTheEnd`, `AuthorityIsDerived`, `PoliciesAlwaysAgree`.  Inductive
  invariant: what a slot found stays true across its awaits, because a row only
  ever changes its status and revision and because a time that is over stays
  over; a grant about to be inserted has a grantor with a row, or is the
  creator's.  `PoliciesAlwaysAgree` follows from the types of the rows alone.
* **AuditChainProofs**: `TrailTypes`, `TrailIsOneTree`, `ChainsWhenTimesIncrease`,
  `StampsFollowCommits`.  Inductive invariant: who is in its append holds the
  lock, so that between look-up and commit the trail does not grow.

**Only model-checked**: liveness, `EveryJobEnds` and `ExclusiveLocksAreFreed`, which
like ENABLED is out of the prover's reach.  Every safety property that a passing
run checks is also a theorem.  What the proofs assume beyond the modules' ASSUMEs
is stated in each theorem: `~ClientPredicts` and `~FailsAfterCommit`, both of which
TLC shows to be needed.

## 6. What is left out

* Components marked `not_modelled` or `partly` in `PROJECT.json`, with the reason.
* Columns the code writes and never reads (`lockedBy`, `startedAt`, `completedAt`,
  `lastError`, reasons, actors).
* Skew between the API processes' clocks, except in AuditChain: leases and expiry
  compare times that one clock gave.
* The pages of the web client but for the record controls of a document: they
  show what one query returns, or send a form once.  How a signed-out or expired
  session is shown depends on react-query's handling of cached errors.
* Which bucket of the limiter a request falls into, and the memory of the buckets
  that nobody removes.
* Calls without an Idempotency-Key, which go straight to their operation.
* The audit events of OCR and of reads: AuditChain has every append, but the job
  model only has the effect of their failure.
* In AccessGrants, roles and departments of users, and the classification of a
  document, are constants: no operation of the API changes them.  Sessions lets an
  operator change the user's row.
* Locks that only long transactions of the database itself take (vacuum, DDL),
  and timeouts of Prisma's transactions other than as `Rollback`.
* Hashing, encryption, text extraction and validation: a hash identifies what it
  was made from, and extraction gives some text or none.
