----------------------- MODULE IngestionCoordination -----------------------
(***************************************************************************)
(* Worker coordination of the dense PDF pipeline: the durable Ingestion    *)
(* Job and its attempts in PostgreSQL, the workers that claim, renew,      *)
(* finish and recover attempts, and the HTTP requests that create jobs for *)
(* one Document while the workers run.                                     *)
(*                                                                         *)
(* A transaction is one step when nothing it read can change before it     *)
(* commits.  Five are not, and are split where they wait or where time     *)
(* passes under them: the heartbeat, the retry and the terminal failure    *)
(* (clock sampled and lease checked, then committed), the PDF success (job *)
(* row locked, Document row locked and lease checked again, then           *)
(* committed) and the submission (job status read without a lock, then     *)
(* linked).                                                                *)
(*                                                                         *)
(* Time is relative: a timestamp t is kept as the distance t - now, at     *)
(* least 0, because the code only ever compares a timestamp with now.      *)
(***************************************************************************)
EXTENDS Naturals, FiniteSets

CONSTANTS
    Workers,         \* worker_id of the worker processes
    Versions,        \* Document Versions that clients may upload
    None,            \* SQL NULL
    MaxAttempts,     \* ingestion_jobs.max_attempts
    LeaseDuration,   \* AttemptTimingV1.lease_duration
    RetryWindow,     \* attempt number -> largest jittered retry delay
    MaxBeats,        \* heartbeats that fit in one bounded attempt runtime
    MaxRequests,     \* bound: HTTP requests in a behaviour
    MaxFaults        \* bound: crashes and database errors in a behaviour

ASSUME BudgetAssumption == MaxAttempts \in Nat \ {0}
ASSUME TimingAssumption ==
    /\ LeaseDuration \in Nat \ {0}
    /\ RetryWindow \in [1..(MaxAttempts - 1) -> Nat]
ASSUME BoundAssumption ==
    /\ MaxBeats \in Nat
    /\ MaxRequests \in Nat
    /\ MaxFaults \in Nat
\* One set of configurations is deployed, so the unique key (operation,
\* content_fingerprint) of a job is the operation and the target version.
Operations == {"submit_pdf", "reprocess_document_version"}
Jobs == Operations \X Versions
Operation(j) == j[1]
Target(j) == j[2]

ASSUME NoneAssumption == None \notin Workers \cup Versions \cup Jobs

VARIABLES
    job,        \* Jobs -> row of ingestion_jobs
    attempt,    \* Jobs -> attempt number -> row of ingestion_job_attempts
    document,   \* current version, served version, versions with a complete Embedding Set
    admission,  \* Jobs -> does an open Workspace Admission link to the job?
    cleanup,    \* jobs whose terminal object cleanup is enqueued
    worker,     \* Workers -> what the process is doing
    request,    \* the HTTP request that holds the Workspace and Document row locks
    requests,   \* requests begun so far
    faults      \* crashes and database errors so far

vars == <<job, attempt, document, admission, cleanup, worker, request, requests, faults>>
durableVars == <<job, attempt, document, admission, cleanup>>
clientVars == <<request, requests>>

Terminal == {"succeeded", "superseded", "failed"}
Status == {"absent", "queued", "processing", "retry_scheduled"} \cup Terminal
Disposition == {"absent", "open", "retry_scheduled", "succeeded", "superseded",
                "exhausted", "failed"}

JobRow ==
    [status : Status, attemptCount : 0..MaxAttempts, leaseVersion : 0..MaxAttempts,
     worker : Workers \cup {None}, current : 0..MaxAttempts, leaseLeft : Nat,
     beats : 0..MaxBeats, nextLeft : Nat]

AttemptRow ==
    [worker : Workers \cup {None}, lease : 0..MaxAttempts, disposition : Disposition]

Phases == {"idle", "recovering", "polling", "running", "beating", "finishing", "closing",
           "publishing", "confirmed", "reading_back", "crashed", "indeterminate", "invariant_error"}
Tasks == {"none", "recover", "claim", "success", "retry", "exhaust", "fail"}

\* job, number and lease are the observed attempt or the Fencing Token, task the
\* logical operation whose ID is reused across its retries, left the lease that a
\* heartbeat in flight will write, durable whether the operation ID is in the
\* database, tried whether the write was already repeated.
WorkerState ==
    [phase : Phases, job : Jobs \cup {None}, number : 0..MaxAttempts,
     lease : 0..MaxAttempts, beats : 0..MaxBeats, task : Tasks, left : Nat,
     durable : BOOLEAN, tried : BOOLEAN]

RequestState ==
    [phase : {"idle", "linking", "rejected"}, version : Versions \cup {None},
     job : Jobs \cup {None}, existing : BOOLEAN, settled : BOOLEAN]

AbsentJob ==
    [status |-> "absent", attemptCount |-> 0, leaseVersion |-> 0, worker |-> None,
     current |-> 0, leaseLeft |-> 0, beats |-> 0, nextLeft |-> 0]
AbsentAttempt == [worker |-> None, lease |-> 0, disposition |-> "absent"]
IdleWorker ==
    [phase |-> "idle", job |-> None, number |-> 0, lease |-> 0, beats |-> 0,
     task |-> "none", left |-> 0, durable |-> FALSE, tried |-> FALSE]
IdleRequest ==
    [phase |-> "idle", version |-> None, job |-> None, existing |-> FALSE,
     settled |-> FALSE]

TypeOK ==
    /\ job \in [Jobs -> JobRow]
    /\ attempt \in [Jobs -> [1..MaxAttempts -> AttemptRow]]
    /\ document \in [current : Versions \cup {None}, active : Versions \cup {None},
                     published : SUBSET Versions]
    /\ admission \in [Jobs -> BOOLEAN]
    /\ cleanup \in SUBSET Jobs
    /\ worker \in [Workers -> WorkerState]
    /\ request \in RequestState
    /\ requests \in 0..MaxRequests
    /\ faults \in 0..MaxFaults

Init ==
    /\ job = [j \in Jobs |-> AbsentJob]
    /\ attempt = [j \in Jobs |-> [n \in 1..MaxAttempts |-> AbsentAttempt]]
    /\ document = [current |-> None, active |-> None, published |-> {}]
    /\ admission = [j \in Jobs |-> FALSE]
    /\ cleanup = {}
    /\ worker = [w \in Workers |-> IdleWorker]
    /\ request = IdleRequest
    /\ requests = 0
    /\ faults = 0

-----------------------------------------------------------------------------
(* Row locks and fencing                                                    *)

InTransaction(w) == worker[w].phase \in {"beating", "closing", "publishing", "confirmed"}

\* SELECT ... FOR UPDATE on the job row, held until the transaction ends.
Locked(j) == \E w \in Workers : InTransaction(w) /\ worker[w].job = j

\* The row the operation of w addresses is not locked by another transaction.
RowFree(w) == ~Locked(worker[w].job)

TokenOf(j, w, number, lease) ==
    /\ job[j].status = "processing"
    /\ job[j].worker = w
    /\ job[j].leaseVersion = lease
    /\ job[j].current = number

\* Mutant of Owns: the expiry of the lease is not looked at.
OwnsExpired(w) ==
    /\ worker[w].job \in Jobs
    /\ TokenOf(worker[w].job, w, worker[w].number, worker[w].lease)

\* Lease validity is now < lease_expires_at; equality is expired.
Owns(w) ==
    /\ worker[w].job \in Jobs
    /\ TokenOf(worker[w].job, w, worker[w].number, worker[w].lease)
    /\ job[worker[w].job].leaseLeft > 0

AttemptClosed(j, n) == attempt[j][n].disposition # "open"

-----------------------------------------------------------------------------
(* Durable effects                                                          *)

\* Leaving processing clears the worker, the lease and the current attempt.
Released(j, status, nextLeft) ==
    [job[j] EXCEPT !.status = status, !.worker = None, !.current = 0, !.leaseLeft = 0,
                   !.nextLeft = nextLeft]

CloseAttempt(j, n, disposition) ==
    attempt' = [attempt EXCEPT ![j][n].disposition = disposition]

\* Mutant of ScheduleRetry: the job goes back to queued.
ScheduleRetryAsQueued(j, n, delay) ==
    /\ CloseAttempt(j, n, "retry_scheduled")
    /\ job' = [job EXCEPT ![j] = Released(j, "queued", delay)]
    /\ UNCHANGED <<document, admission, cleanup>>

ScheduleRetry(j, n, delay) ==
    /\ CloseAttempt(j, n, "retry_scheduled")
    /\ job' = [job EXCEPT ![j] = Released(j, "retry_scheduled", delay)]
    /\ UNCHANGED <<document, admission, cleanup>>

\* Mutant of Terminate: the linked admissions stay open.
TerminateLeavingAdmissions(j, n, status, disposition) ==
    /\ CloseAttempt(j, n, disposition)
    /\ job' = [job EXCEPT ![j] = Released(j, status, 0)]
    /\ cleanup' = cleanup \cup {j}
    /\ UNCHANGED admission

\* Every terminal transition closes the linked admissions and enqueues the cleanup
\* of the source object in the same transaction.
Terminate(j, n, status, disposition) ==
    /\ CloseAttempt(j, n, disposition)
    /\ job' = [job EXCEPT ![j] = Released(j, status, 0)]
    /\ admission' = [admission EXCEPT ![j] = FALSE]
    /\ cleanup' = cleanup \cup {j}

Become(w, state) == worker' = [worker EXCEPT ![w] = state]
Enter(w, phase) == worker' = [worker EXCEPT ![w].phase = phase]

Fault == faults < MaxFaults /\ faults' = faults + 1

\* A committed write is acknowledged, or its acknowledgement is lost and the
\* operation ID has to be read back.
Committed(w, state) ==
    \/ Become(w, state) /\ UNCHANGED faults
    \/ /\ Fault
       /\ Become(w, [state EXCEPT !.phase = "reading_back", !.durable = TRUE,
                                  !.task = worker[w].task, !.tried = worker[w].tried])

-----------------------------------------------------------------------------
(* run_once: recovery of one expired attempt                                *)

Observed(w, j) ==
    [IdleWorker EXCEPT !.phase = "recovering", !.task = "recover", !.job = j,
                       !.number = job[j].current, !.lease = job[j].leaseVersion,
                       !.beats = job[j].beats]

Expired(j) == job[j].status = "processing" /\ job[j].leaseLeft = 0

\* observe_expired_attempt is one unlocked read.  Which of several expired attempts
\* comes first (lease_expires_at, id) is left open.
ObserveExpired(w) ==
    /\ worker[w].phase = "idle"
    /\ \/ \E j \in Jobs : Expired(j) /\ Become(w, Observed(w, j))
       \/ /\ \A j \in Jobs : ~Expired(j)
          /\ Become(w, [IdleWorker EXCEPT !.phase = "polling", !.task = "claim"])
    /\ UNCHANGED <<durableVars, clientVars, faults>>

\* The lease expiry is identified by the lease version and its renewals; the worker
\* of an attempt never changes.
ObservationHolds(w) ==
    LET j == worker[w].job IN
    /\ job[j].status = "processing"
    /\ job[j].leaseVersion = worker[w].lease
    /\ job[j].current = worker[w].number
    /\ job[j].beats = worker[w].beats
    /\ ~AttemptClosed(j, worker[w].number)

StaleObservation(w) ==
    /\ worker[w].phase = "recovering"
    /\ RowFree(w)
    /\ ~ObservationHolds(w) \/ job[worker[w].job].leaseLeft > 0
    /\ Become(w, [IdleWorker EXCEPT !.phase = "polling", !.task = "claim"])
    /\ UNCHANGED <<durableVars, clientVars, faults>>

\* Mutant of RecoverExpired: the unlocked observation is trusted.
RecoverOnObservation(w) ==
    LET j == worker[w].job
        n == worker[w].number
    IN  /\ worker[w].phase = "recovering"
        /\ RowFree(w)
        /\ \/ /\ job[j].attemptCount < MaxAttempts
              /\ \E delay \in 0..RetryWindow[n] : ScheduleRetry(j, n, delay)
           \/ /\ job[j].attemptCount = MaxAttempts
              /\ Terminate(j, n, "failed", "exhausted")
              /\ UNCHANGED document
        /\ Committed(w, IdleWorker)
        /\ UNCHANGED clientVars

\* lease_expired is retryable: it is rescheduled while the budget lasts.
RecoverExpired(w) ==
    LET j == worker[w].job
        n == worker[w].number
    IN  /\ worker[w].phase = "recovering"
        /\ RowFree(w)
        /\ ObservationHolds(w) /\ job[j].leaseLeft = 0
        /\ \/ /\ job[j].attemptCount < MaxAttempts
              /\ \E delay \in 0..RetryWindow[n] : ScheduleRetry(j, n, delay)
           \/ /\ job[j].attemptCount = MaxAttempts
              /\ Terminate(j, n, "failed", "exhausted")
              /\ UNCHANGED document
        /\ Committed(w, IdleWorker)
        /\ UNCHANGED clientVars

-----------------------------------------------------------------------------
(* run_once: claim                                                          *)

\* Mutant of Due: the last attempt of the budget is never claimed.
DueBelowBudget(j) ==
    /\ \/ job[j].status = "queued"
       \/ job[j].status = "retry_scheduled" /\ job[j].nextLeft = 0
    /\ job[j].attemptCount + 1 < MaxAttempts

Due(j) ==
    /\ \/ job[j].status = "queued"
       \/ job[j].status = "retry_scheduled" /\ job[j].nextLeft = 0
    /\ job[j].attemptCount < MaxAttempts

\* FOR UPDATE SKIP LOCKED over the due jobs, next_attempt_at NULLS FIRST: a queued
\* job precedes every retry.  The order within each class is left open.
Claimable(j) ==
    /\ Due(j) /\ ~Locked(j)
    /\ \/ job[j].status = "queued"
       \/ \A k \in Jobs : Due(k) /\ ~Locked(k) => job[k].status # "queued"

\* Mutant of Claimed: the token carries the lease version from before the claim.
ClaimedBeforeIncrement(j, n) ==
    [IdleWorker EXCEPT !.phase = "running", !.job = j, !.number = n,
                       !.lease = job[j].leaseVersion]

Claimed(j, n) ==
    [IdleWorker EXCEPT !.phase = "running", !.job = j, !.number = n,
                       !.lease = job[j].leaseVersion + 1]

Claim(w) ==
    /\ worker[w].phase = "polling"
    /\ \E j \in Jobs :
         LET n == job[j].attemptCount + 1
             lease == job[j].leaseVersion + 1
         IN  /\ Claimable(j)
             /\ job' = [job EXCEPT ![j] =
                  [@ EXCEPT !.status = "processing", !.attemptCount = n,
                            !.leaseVersion = lease, !.worker = w, !.current = n,
                            !.leaseLeft = LeaseDuration, !.beats = 0, !.nextLeft = 0]]
             /\ attempt' = [attempt EXCEPT ![j][n] =
                  [worker |-> w, lease |-> lease, disposition |-> "open"]]
             /\ Committed(w, Claimed(j, n))
    /\ UNCHANGED <<document, admission, cleanup, clientVars>>

NoEligibleClaim(w) ==
    /\ worker[w].phase = "polling"
    /\ \A j \in Jobs : ~Claimable(j)
    /\ Become(w, IdleWorker)
    /\ UNCHANGED <<durableVars, clientVars, faults>>

-----------------------------------------------------------------------------
(* The attempt: heartbeats and the end of the handler                       *)

\* The row is locked, the database clock sampled and the ownership checked ...
BeginHeartbeat(w) ==
    /\ worker[w].phase = "running"
    /\ RowFree(w)
    /\ \/ /\ Owns(w) /\ job[worker[w].job].beats < MaxBeats
          /\ Become(w, [worker[w] EXCEPT !.phase = "beating", !.left = LeaseDuration])
       \/ /\ ~Owns(w)
          /\ Become(w, IdleWorker)
    /\ UNCHANGED <<durableVars, clientVars, faults>>

\* ... and the renewal commits later, in the worst case after the old lease is over.
\* Two failed acknowledgements leave the heartbeat indeterminate.
CommitHeartbeat(w) ==
    LET j == worker[w].job IN
    /\ worker[w].phase = "beating"
    /\ job' = [job EXCEPT ![j] =
                 [job[j] EXCEPT !.leaseLeft = worker[w].left, !.beats = job[j].beats + 1]]
    /\ \/ /\ Become(w, [worker[w] EXCEPT !.phase = "running", !.left = 0])
          /\ UNCHANGED faults
       \/ Fault /\ Become(w, [IdleWorker EXCEPT !.phase = "indeterminate"])
    /\ UNCHANGED <<attempt, document, admission, cleanup, clientVars>>

\* A heartbeat that did not commit is repeated once, then it is indeterminate.
HeartbeatFails(w) ==
    /\ worker[w].phase = "beating"
    /\ Fault
    /\ \/ Become(w, [worker[w] EXCEPT !.phase = "running", !.left = 0])
       \/ Become(w, [IdleWorker EXCEPT !.phase = "indeterminate"])
    /\ UNCHANGED <<durableVars, clientVars>>

\* Mutant of AfterHandler: the budget is over one attempt early.
AfterHandlerOffByOne(outcome, number) ==
    CASE outcome = "success" -> "success"
      [] outcome = "retryable" /\ number + 1 < MaxAttempts -> "retry"
      [] outcome = "retryable" /\ number + 1 >= MaxAttempts -> "exhaust"
      [] outcome = "terminal" -> "fail"

\* Retry Policy V1 on the attempt count of the claim: a retryable cause (transient
\* dependency, unexpected error, timeout) is retried or exhausted, any other fails.
AfterHandler(outcome, number) ==
    CASE outcome = "success" -> "success"
      [] outcome = "retryable" /\ number < MaxAttempts -> "retry"
      [] outcome = "retryable" /\ number >= MaxAttempts -> "exhaust"
      [] outcome = "terminal" -> "fail"

HandlerEnds(w) ==
    /\ worker[w].phase = "running"
    /\ \E outcome \in {"success", "retryable", "terminal"} :
         Become(w, [worker[w] EXCEPT !.phase = "finishing",
                                     !.task = AfterHandler(outcome, worker[w].number)])
    /\ UNCHANGED <<durableVars, clientVars, faults>>

-----------------------------------------------------------------------------
(* Fenced finalization                                                      *)

Finishing(w, tasks) ==
    worker[w].phase = "finishing" /\ worker[w].task \in tasks /\ RowFree(w)

TokenClosed(w) == AttemptClosed(worker[w].job, worker[w].number)

\* Success and retry look at the attempt before the ownership.  Terminal failure looks
\* at the ownership first, and a live token always names an open attempt.
InvalidTransition(w) ==
    /\ Finishing(w, {"success", "retry"})
    /\ TokenClosed(w)
    /\ Become(w, [IdleWorker EXCEPT !.phase = "invariant_error"])
    /\ UNCHANGED <<durableVars, clientVars, faults>>

Fenced(w) ==
    /\ \/ Finishing(w, {"success", "retry"}) /\ ~TokenClosed(w)
       \/ Finishing(w, {"exhaust", "fail"})
    /\ ~Owns(w)
    /\ Become(w, IdleWorker)
    /\ UNCHANGED <<durableVars, clientVars, faults>>

\* The rows are locked and the lease is checked against one sample of the clock ...
BeginRetry(w) ==
    /\ Finishing(w, {"retry"})
    /\ ~TokenClosed(w) /\ Owns(w)
    /\ Enter(w, "closing")
    /\ UNCHANGED <<durableVars, clientVars, faults>>

\* ... and nothing looks at the clock again: the retry commits even when the lease
\* ran out under it.  Its delay is counted from the sample.
CommitRetry(w) ==
    /\ worker[w].phase = "closing" /\ worker[w].task = "retry"
    /\ \E delay \in 0..RetryWindow[worker[w].number] :
         ScheduleRetry(worker[w].job, worker[w].number, delay)
    /\ Committed(w, IdleWorker)
    /\ UNCHANGED clientVars

\* The terminal failure samples twice, before and after it locks the attempt ...
BeginFailure(w) ==
    /\ Finishing(w, {"exhaust", "fail"})
    /\ Owns(w) /\ ~TokenClosed(w)
    /\ Enter(w, "closing")
    /\ UNCHANGED <<durableVars, clientVars, faults>>

\* ... and commits as the retry does.
CommitFailure(w) ==
    /\ worker[w].phase = "closing" /\ worker[w].task \in {"exhaust", "fail"}
    /\ Terminate(worker[w].job, worker[w].number, "failed",
                 IF worker[w].task = "exhaust" THEN "exhausted" ELSE "failed")
    /\ Committed(w, IdleWorker)
    /\ UNCHANGED <<document, clientVars>>

\* The success transaction locks the job and its attempt, samples the clock and
\* checks the token; then it has to wait for the Document row.
BeginSuccess(w) ==
    /\ Finishing(w, {"success"})
    /\ ~TokenClosed(w) /\ Owns(w)
    /\ Enter(w, "publishing")
    /\ UNCHANGED <<durableVars, clientVars, faults>>

\* The Document row is locked, by the request or by a success about to commit.
DocumentLocked ==
    \/ request.phase = "linking"
    \/ \E w \in Workers : worker[w].phase = "confirmed"

\* The final conditional update looks at the clock a last time ...
ConfirmSuccess(w) ==
    /\ worker[w].phase = "publishing"
    /\ ~DocumentLocked
    /\ Owns(w)
    /\ Enter(w, "confirmed")
    /\ UNCHANGED <<durableVars, clientVars, faults>>

\* Mutants of PublishSuccess: a stale target is activated like a current one, and
\* the activation does not wait for the sets of the target.
ActivateStaleTarget(w) ==
    LET j == worker[w].job
        v == Target(j)
    IN  /\ worker[w].phase = "confirmed"
        /\ document' = [document EXCEPT !.published = @ \cup {v}, !.active = v]
        /\ Terminate(j, worker[w].number, "succeeded", "succeeded")
        /\ Committed(w, IdleWorker)
        /\ UNCHANGED clientVars

ActivateUnpublished(w) ==
    LET j == worker[w].job
    IN  /\ worker[w].phase = "confirmed"
        /\ document' = [document EXCEPT !.active = Target(j)]
        /\ Terminate(j, worker[w].number, "succeeded", "succeeded")
        /\ Committed(w, IdleWorker)
        /\ UNCHANGED clientVars

\* ... and what was written before it commits with it: the Chunk Set and the Embedding
\* Set, got or created.  A target that is no longer current supersedes the job, a
\* current one is activated.
PublishSuccess(w) ==
    LET j == worker[w].job
        n == worker[w].number
        v == Target(j)
    IN  /\ worker[w].phase = "confirmed"
        /\ \/ /\ document.current # v
              /\ document' = [document EXCEPT !.published = @ \cup {v}]
              /\ Terminate(j, n, "superseded", "superseded")
           \/ /\ document.current = v
              /\ document' = [document EXCEPT !.published = @ \cup {v}, !.active = v]
              /\ Terminate(j, n, "succeeded", "succeeded")
        /\ Committed(w, IdleWorker)
        /\ UNCHANGED clientVars

\* The final conditional update finds the lease expired: everything is rolled back.
FinalizationFenceLost(w) ==
    /\ worker[w].phase = "publishing"
    /\ ~DocumentLocked
    /\ ~Owns(w)
    /\ Become(w, IdleWorker)
    /\ UNCHANGED <<durableVars, clientVars, faults>>

-----------------------------------------------------------------------------
(* Database errors, reconciliation by operation ID, crashes                 *)

Rollback(w) ==
    Become(w, [worker[w] EXCEPT !.phase = "reading_back", !.durable = FALSE])

WriteFails(w) ==
    /\ worker[w].phase \in {"recovering", "polling", "finishing", "closing", "publishing",
                           "confirmed"}
    /\ Fault
    /\ Rollback(w)
    /\ UNCHANGED <<durableVars, clientVars>>

TaskPhase(task) ==
    CASE task = "recover" -> "recovering"
      [] task = "claim" -> "polling"
      [] OTHER -> "finishing"

\* A durable claim may be executed only while its lease still holds.  A write that
\* is not durable is repeated once.
ReadBack(w) ==
    /\ worker[w].phase = "reading_back"
    /\ \/ /\ worker[w].durable /\ worker[w].task = "claim"
          /\ RowFree(w)
          /\ Become(w, IF Owns(w)
                       THEN [worker[w] EXCEPT !.phase = "running", !.task = "none",
                                              !.durable = FALSE, !.tried = FALSE]
                       ELSE IdleWorker)
       \/ /\ worker[w].durable /\ worker[w].task # "claim"
          /\ Become(w, IdleWorker)
       \/ /\ ~worker[w].durable /\ ~worker[w].tried
          /\ Become(w, [worker[w] EXCEPT !.phase = TaskPhase(worker[w].task),
                                         !.tried = TRUE])
       \/ /\ ~worker[w].durable /\ worker[w].tried
          /\ Become(w, [IdleWorker EXCEPT !.phase = "indeterminate"])
    /\ UNCHANGED <<durableVars, clientVars, faults>>

ReadBackFails(w) ==
    /\ worker[w].phase = "reading_back"
    /\ Fault
    /\ Become(w, [IdleWorker EXCEPT !.phase = "indeterminate"])
    /\ UNCHANGED <<durableVars, clientVars>>

Dead == {"crashed", "indeterminate", "invariant_error"}

\* The process dies; PostgreSQL rolls its transaction back and drops its locks.
Crash(w) ==
    /\ worker[w].phase \notin Dead \cup {"idle"}
    /\ Fault
    /\ Become(w, [IdleWorker EXCEPT !.phase = "crashed"])
    /\ UNCHANGED <<durableVars, clientVars>>

\* Any exception out of run_once ends the worker process as well; its supervisor
\* starts a new one.
Restart(w) ==
    /\ worker[w].phase \in Dead
    /\ Become(w, IdleWorker)
    /\ UNCHANGED <<durableVars, clientVars, faults>>

-----------------------------------------------------------------------------
(* HTTP submissions: one at a time, under the Workspace row lock            *)

Linking(v, j, existing) ==
    [phase |-> "linking", version |-> v, job |-> j, existing |-> existing,
     settled |-> existing /\ job[j].status \in Terminal]

\* The Document row is locked before the job is looked up.
BeginRequest ==
    /\ request.phase = "idle" /\ ~DocumentLocked
    /\ requests < MaxRequests /\ requests' = requests + 1

\* An upload finds the job of its content fingerprint, whatever its status.
BeginSubmit ==
    /\ BeginRequest
    /\ \E v \in Versions :
         LET j == <<"submit_pdf", v>>
         IN  request' = Linking(v, j, job[j].status # "absent")
    /\ UNCHANGED <<durableVars, worker, faults>>

Reusable(j) == job[j].status \in {"processing", "succeeded"}

\* config_mode same_as_job, naming the submitted job of the current version.  (The
\* mode current needs that version to be served, and then always reuses.)  The oldest
\* job of the configuration that is processing or succeeded is reused; otherwise a job
\* is inserted, which the unique key refuses when this request was made before.
BeginReprocess ==
    /\ BeginRequest
    /\ document.current # None
    /\ LET v == document.current
           submitted == <<"submit_pdf", v>>
           reprocessed == <<"reprocess_document_version", v>>
       IN  \/ /\ Reusable(submitted)
              /\ request' = Linking(v, submitted, TRUE)
           \/ /\ ~Reusable(submitted) /\ Reusable(reprocessed)
              /\ request' = Linking(v, reprocessed, TRUE)
           \/ /\ ~Reusable(submitted) /\ job[reprocessed].status = "absent"
              /\ request' = Linking(v, reprocessed, FALSE)
           \/ /\ ~Reusable(submitted)
              /\ job[reprocessed].status \notin {"absent", "processing", "succeeded"}
              /\ request' = [IdleRequest EXCEPT !.phase = "rejected", !.version = v,
                                                !.job = reprocessed]
    /\ UNCHANGED <<durableVars, worker, faults>>

\* The foreign keys of the admission and of the idempotency record take a KEY SHARE
\* lock on an existing job row.
LinkWaits == request.existing /\ Locked(request.job)

\* The version becomes current, the job exists, and the admission is linked: closed
\* at once if the job was seen terminal, open otherwise.
CommitRequest ==
    /\ request.phase = "linking"
    /\ ~LinkWaits
    /\ job' = IF request.existing THEN job
              ELSE [job EXCEPT ![request.job] = [@ EXCEPT !.status = "queued"]]
    /\ admission' = [admission EXCEPT ![request.job] = @ \/ ~request.settled]
    /\ document' = [document EXCEPT !.current = request.version]
    /\ request' = IdleRequest
    /\ UNCHANGED <<attempt, cleanup, worker, requests, faults>>

\* The transaction fails or the API process dies: nothing was committed.
AbortRequest ==
    /\ request.phase = "linking"
    /\ request' = IdleRequest
    /\ UNCHANGED <<durableVars, worker, requests, faults>>

Reply ==
    /\ request.phase = "rejected"
    /\ request' = IdleRequest
    /\ UNCHANGED <<durableVars, worker, requests, faults>>

\* The success of w holds the job row and waits for the Document row, the request
\* holds the Document row and waits for the job row.
Deadlocked(w) ==
    /\ worker[w].phase = "publishing"
    /\ request.phase = "linking" /\ request.existing
    /\ request.job = worker[w].job

\* PostgreSQL aborts one of the two.
BreakDeadlock(w) ==
    /\ Deadlocked(w)
    /\ \/ Rollback(w) /\ UNCHANGED request
       \/ request' = IdleRequest /\ UNCHANGED worker
    /\ UNCHANGED <<durableVars, requests, faults>>

-----------------------------------------------------------------------------
(* Time                                                                     *)

Earlier(t) == IF t > 0 THEN t - 1 ELSE 0

Tick ==
    /\ \/ \E j \in Jobs : job[j].leaseLeft > 0 \/ job[j].nextLeft > 0
       \/ \E w \in Workers : worker[w].left > 0
    /\ job' = [j \in Jobs |-> [job[j] EXCEPT !.leaseLeft = Earlier(@), !.nextLeft = Earlier(@)]]
    /\ worker' = [w \in Workers |-> [worker[w] EXCEPT !.left = Earlier(@)]]
    /\ UNCHANGED <<attempt, document, admission, cleanup, clientVars, faults>>

-----------------------------------------------------------------------------

WorkerStep(w) ==
    \/ ObserveExpired(w) \/ StaleObservation(w) \/ RecoverExpired(w)
    \/ Claim(w) \/ NoEligibleClaim(w)
    \/ BeginHeartbeat(w) \/ CommitHeartbeat(w) \/ HandlerEnds(w)
    \/ InvalidTransition(w) \/ Fenced(w)
    \/ BeginRetry(w) \/ CommitRetry(w) \/ BeginFailure(w) \/ CommitFailure(w)
    \/ BeginSuccess(w) \/ ConfirmSuccess(w) \/ PublishSuccess(w) \/ FinalizationFenceLost(w)
    \/ ReadBack(w) \/ Restart(w)

FaultStep(w) == HeartbeatFails(w) \/ WriteFails(w) \/ ReadBackFails(w) \/ Crash(w)

ClientStep ==
    BeginSubmit \/ BeginReprocess \/ CommitRequest \/ AbortRequest \/ Reply

Next ==
    \/ \E w \in Workers : WorkerStep(w) \/ FaultStep(w) \/ BreakDeadlock(w)
    \/ ClientStep
    \/ Tick

Spec == Init /\ [][Next]_vars

\* Every process keeps running and is restarted, a handler ends or is timed out, time
\* passes, an admitted request ends and the database resolves deadlocks.  Neither a
\* fault nor a new request is ever obliged to happen.
Fairness ==
    /\ \A w \in Workers : WF_vars(WorkerStep(w)) /\ WF_vars(BreakDeadlock(w))
    /\ WF_vars(CommitRequest \/ Reply)
    /\ WF_vars(Tick)

FairSpec == Spec /\ Fairness

-----------------------------------------------------------------------------
(* Safety                                                                   *)

Mirrored(j) ==
    /\ job[j].status = "processing" =>
         /\ job[j].current = job[j].attemptCount
         /\ job[j].current \in 1..MaxAttempts
         /\ attempt[j][job[j].current] =
              [worker |-> job[j].worker, lease |-> job[j].leaseVersion,
               disposition |-> "open"]
    /\ \A n \in 1..MaxAttempts :
         attempt[j][n].disposition = "open" =>
             job[j].status = "processing" /\ job[j].current = n
    /\ job[j].status # "processing" =>
         job[j].worker = None /\ job[j].current = 0 /\ job[j].leaseLeft = 0

\* The mutable projection on the job row and the attempt history never disagree: a
\* processing job has exactly one open attempt, the one its current number, worker
\* and lease version name; any other job has none and keeps no lease.
AttemptMirrorsJob == \A j \in Jobs : Mirrored(j)

LastAttempt(j) == attempt[j][job[j].attemptCount].disposition

Explained(j) ==
    /\ job[j].leaseVersion = job[j].attemptCount
    /\ \A n \in 1..MaxAttempts :
         /\ n < job[j].attemptCount => attempt[j][n].disposition = "retry_scheduled"
         /\ n <= job[j].attemptCount => attempt[j][n].lease = n
         /\ n > job[j].attemptCount => attempt[j][n] = AbsentAttempt
         /\ attempt[j][n].disposition = "exhausted" => n = MaxAttempts
    /\ job[j].status \in {"absent", "queued"} => job[j].attemptCount = 0
    /\ job[j].status = "retry_scheduled" =>
         /\ job[j].attemptCount \in 1..(MaxAttempts - 1)
         /\ LastAttempt(j) = "retry_scheduled"
    /\ job[j].status \in Terminal =>
         /\ job[j].attemptCount \in 1..MaxAttempts
         /\ LastAttempt(j) \in IF job[j].status = "failed" THEN {"exhausted", "failed"}
                               ELSE {job[j].status}

\* The attempt budget is spent one numbered attempt at a time, each under a lease
\* version of its own: only the last attempt may have ended the job, it ended it the
\* way the job says, and exhaustion means that the whole budget was used.
HistoryExplainsJob == \A j \in Jobs : Explained(j)

FinishTasks == {"success", "retry", "exhaust", "fail"}

\* w has a claim to work on: its own, one whose lost acknowledgement it reads back, or
\* one whose finalization it is about to repeat.
HoldsClaim(w) ==
    \/ worker[w].phase \in {"running", "beating", "finishing", "closing", "publishing",
                            "confirmed"}
    \/ /\ worker[w].phase = "reading_back"
       /\ \/ worker[w].durable /\ worker[w].task = "claim"
          \/ ~worker[w].durable /\ worker[w].task \in FinishTasks

\* A worker only runs, renews or finishes an attempt that it claimed: the row of its
\* token is in the history under its own name and lease version, whatever happened to
\* the acknowledgement of the claim, and it is not asked to retry the last attempt.
WorkNeedsDurableClaim ==
    \A w \in Workers :
        HoldsClaim(w) =>
            /\ worker[w].job \in Jobs
            /\ worker[w].number \in 1..MaxAttempts
            /\ LET row == attempt[worker[w].job][worker[w].number] IN
               row.worker = w /\ row.lease = worker[w].lease
            /\ worker[w].task = "retry" => worker[w].number < MaxAttempts
            /\ worker[w].task = "exhaust" => worker[w].number = MaxAttempts

\* At most one worker may commit anything for a job, and transactions that hold its
\* row do so under the lease the row still names, even when that lease ran out.
ExclusiveRow ==
    \A w \in Workers :
        InTransaction(w) =>
            /\ worker[w].job \in Jobs
            /\ TokenOf(worker[w].job, w, worker[w].number, worker[w].lease)
            /\ \A u \in Workers \ {w} :
                 InTransaction(u) => worker[u].job # worker[w].job

\* Work that is still to be done keeps the Workspace admitted, and a success or a
\* supersession leaves no admission open behind it: the request that links to a job
\* holds the Document row that both of them have to lock.  A failed job is the
\* exception, its transaction does not lock the Document.
AdmissionsFollowJobs ==
    \A j \in Jobs :
        /\ job[j].status \in {"queued", "processing", "retry_scheduled"} => admission[j]
        /\ admission[j] => job[j].status \notin {"absent", "succeeded", "superseded"}
        /\ j \in cleanup <=> job[j].status \in Terminal

\* What retrieval serves was published complete, by a job that succeeded for that very
\* version; a version is published only by its own finished job.
ServedWasPublished ==
    /\ document.active # None =>
         /\ document.active \in document.published
         /\ \E j \in Jobs : Target(j) = document.active /\ job[j].status = "succeeded"
    /\ \A v \in document.published :
         \E j \in Jobs : Target(j) = v /\ job[j].status \in {"succeeded", "superseded"}

-----------------------------------------------------------------------------
(* Action properties                                                        *)

\* A terminal job and a closed attempt are never written again, by a late worker, a
\* second recovery or a repeated write.
HistoryIsImmutable ==
    [][\A j \in Jobs :
         /\ job[j].status \in Terminal => job'[j] = job[j]
         /\ \A n \in 1..MaxAttempts :
              attempt[j][n].disposition \notin {"absent", "open"}
                => attempt'[j][n] = attempt[j][n]]_vars

\* The served pointer moves only in the transaction in which a worker turns the job of
\* the current version from processing to succeeded, and which asked for the live lease
\* of that job after it locked the Document.
FencedPublication ==
    [][/\ document'.active # document.active =>
            \E j \in Jobs, w \in Workers :
                /\ Target(j) = document.current /\ Target(j) = document'.active
                /\ job[j].status = "processing" /\ job'[j].status = "succeeded"
                /\ worker[w].phase = "confirmed" /\ worker[w].job = j
                /\ worker'[w].phase # "confirmed"
       /\ \A w \in Workers :
            worker[w].phase # "confirmed" /\ worker'[w].phase = "confirmed" =>
                Owns(w) /\ worker'[w].job = worker[w].job /\ ~DocumentLocked]_vars

\* While a lease is live, only its owner can end the attempt: a recovery decided on an
\* earlier observation never takes it away, not even when the observed lease had run
\* out before a heartbeat in flight renewed it.
OnlyOwnerEndsLiveAttempt ==
    [][\A j \in Jobs :
         /\ job[j].status = "processing" /\ job[j].leaseLeft > 0
         /\ job'[j].status # "processing"
         => \E w \in Workers : Owns(w) /\ worker[w].job = j /\ worker'[w] # worker[w]]_vars

\* The owner of j has a transaction open whose last look at the clock lies behind it.
SampledInTime(j) ==
    \E w \in Workers :
        worker[w].phase \in {"beating", "closing", "confirmed"} /\ worker[w].job = j

Recovering(w, j) == worker[w].phase = "recovering" /\ worker[w].job = j

\* Expiry loses ownership even when nobody recovered the attempt: unless a transaction
\* of the owner looked at the clock in time and still has to commit, the lease is not
\* renewed, the owner gets no further with a renewal or an end of the attempt, and only
\* a recovery closes it.
LeaseLossIsPermanent ==
    [][\A j \in Jobs :
         Expired(j) /\ ~SampledInTime(j) =>
           \/ /\ Expired(j)' /\ job'[j].leaseVersion = job[j].leaseVersion
              /\ ~SampledInTime(j)'
           \/ /\ \E w \in Workers : Recovering(w, j) /\ worker'[w] # worker[w]
              /\ job'[j].status \in {"retry_scheduled", "failed"}
              /\ attempt'[j][job[j].current].disposition
                   \in {"retry_scheduled", "exhausted"}]_vars

\* A worker process stops on a broken invariant only after it lost its lease; the
\* owner of a live lease never does.
InvariantErrorNeedsLeaseLoss ==
    [][\A w \in Workers :
         /\ worker'[w].phase = "invariant_error" /\ worker[w].phase # "invariant_error"
         => ~Owns(w)]_vars

-----------------------------------------------------------------------------
(* Refinement and liveness                                                  *)

Lifecycle == INSTANCE JobLifecycle WITH
    status <- [j \in Jobs |-> job[j].status],
    count <- [j \in Jobs |-> job[j].attemptCount]

\* The coordination of many workers is, for each job, the life cycle of one.
ImplementsLifecycle == Lifecycle!Spec

\* Once requests and faults are over, every job that exists comes to a terminal status,
\* whatever leases were lost on the way.
EveryJobSettles ==
    \A j \in Jobs : job[j].status = "queued" ~> job[j].status \in Terminal

-----------------------------------------------------------------------------
(* What the documents say and the code does not do                          *)

\* docs/design/issue-17-worker-coordination.md: fenced operations check ownership
\* before transition legality so stale callers receive FENCED.
StaleCallerIsFenced == \A w \in Workers : worker[w].phase # "invariant_error"

\* CONTEXT.md: a failed job may be explicitly reprocessed as a new processing
\* generation, and a superseded job does not block explicit reprocessing.  A request
\* that was served once and ended that way is refused ever after.
FinishedJobIsReprocessable ==
    request.phase = "rejected" => job[request.job].status \notin {"failed", "superseded"}

=============================================================================
