# Knora: a verification development

TLA+ specifications of the concurrent core of Knora, checked with TLC on small
instances, and theorems about them checked with TLAPS for every value of the
constants. Paths are relative to the repository; most of the code is in
`backend/src/knora`.

1. [The system](#1-the-system): components, state, operations, what is hard
2. [Modules](#2-modules): which module models what, and how
3. [Runs](#3-runs): what each shows, bounds and fairness
4. [Proofs](#4-proofs): what is proved, from what, along which argument
5. [Findings](#5-findings)
6. [Not modelled](#6-not-modelled)
7. [Plan](#7-plan)

## 1. The system

Knora answers questions over uploaded PDFs, one Workspace per tenant. An HTTP
application (`main.py`) writes requests into PostgreSQL; background processes
claim rows, work outside any transaction, and write the outcome back if they
still own the row. PostgreSQL is the only coordinator: there is no broker and no
election. Most components are instances of one pattern (claim with a token,
lease, renewal, fenced completion, recovery by whoever finds the lease expired)
but each handles expiry, retry and late results differently.

| Component | Code | State | Operations | What is hard | What makes it correct |
|---|---|---|---|---|---|
| Ingestion job coordination | `adapters/postgres/ingestion_jobs/coordination.py`, `ingestion/job_processing.py`, `adapters/cli/worker.py` | `ingestion_jobs` (status, attempt count, lease version, current attempt, lease), `ingestion_job_attempts`, Fencing Tokens in workers | observe and recover expired attempts, claim, heartbeat, success, retry, terminal failure, superseded, reconcile by operation ID | recovery against a live owner; heartbeat in flight at the expiry; lost acknowledgements and repeated writes; lock order of success and submission | a live attempt is ended by its owner only; job and history agree; terminal is final; budget; every job settles |
| PDF submission, reprocess, idempotency | `submission.py`, `ingestion/jobs.py` | `documents.current_version`, idempotency records, admissions linked to jobs | submit, reprocess, close admissions, replay | an existing job finishes while a submission links to it | unfinished work keeps its Workspace admitted, finished work does not |
| Attempt supervisor and runner permits | `ingestion/job_processing.py`, `adapters/execution/thread_attempt_runner.py` | semaphore, handler threads, completion cells, cancellation flags | reserve, start, supervise, heartbeat, cancel, detach, exit | threads cannot be killed; completion, deadline and lease loss race | permits balance; only timely results count; bounded attempts |
| Conversation turns | `adapters/postgres/conversation_store.py`, `conversations/runner.py`, `scripts/run_conversation_worker.py`, `answering_store.py` | `conversations`, `conversation_turns`, Workspace Admissions, Question Traces, tasks of the loops | ask, claim, heartbeat, stage update, finish, observe and recover expired turns, drain | a late answer, a late stage update, a recovery that read too early, a crash after the trace was written | executed once, durable answer kept, nothing late lands, every question settles |
| Answering pipeline | `answering/`, `adapters/postgres/answering_store.py`, `providers/cloudflare`, `providers/openai_compatible` | Question Traces; the locals of one asyncio task; the queue of its event stream | admit, retrieve, generate, verify, repair, refuse, persist, revalidate, stream, close | the recovery of an invalid generation goes over many rounds; cancellation at every await; the served population changes before delivery | no answer that was not verified; no refusal that was not earned; nothing of a revoked snapshot; every question ends and is told |
| Lexical generations and search index | `search_index_store.py`, `ingestion/search_indexing.py`, `coordination.py`, `submission.py`, `adapters/qdrant`, `retrieval/lexical_retrieval.py` | generations, desired and active heads, index jobs; points in Qdrant | request, stage, activate, transition of a corpus, roll back, clean up; read, query, check again | points and heads share no transaction; an older build finishes after a newer one was requested; heads are read before rows are locked | what is queried is one whole corpus with all its points; an overtaken request stays inactive; a quiet corpus gets indexed |
| Object lifecycle and hard deletion | `ingestion_jobs/lifecycle.py`, `ingestion/object_lifecycle.py`, `ingestion/jobs.py` | source rows, lifecycle items with windows, leases and delete generations | enqueue, claim, prepare, revalidate, delete, complete, retry, suppress, hard delete | files and rows share no transaction; the answer of a commit or of the store is lost | an object in use is never deleted; diagnostics are kept for their window; a recorded outcome happened |
| Object stores and reconciliation | `adapters/object_store`, `adapters/postgres/object_reconciliation.py` | objects by key, inventories | put, head, delete, list, compare | an inventory is old when it is compared | only objects nobody may still register become orphans |
| Workspace admission and archive | `workspace_admission.py`, `workspace_store.py` | archived flag, revision, admissions | admit, close, archive, delete | work admitted just before the archive | no work starts in an archived Workspace; deletion waits for admitted work |
| Tool proposals and executions | `tools/`, `tool_action_store.py`, `tool_execution_store.py` | proposals, decisions, executions with epochs, observations | propose, decide, acquire, admit, dispatch, observe, finalize, take over, reconcile | the outcome of a dispatched call is unknown after a crash | at most one ticket; the recorded outcome is the provider's and final; nothing unapproved or unadmitted is dispatched |
| Re-embedding and cut-over | `reembedding_store.py` | re-embedding runs, retrieval configuration head | start, build, validate, cut over, roll back | uploads during the build | the cut-over serves a complete population |
| Evaluation runs, corpus preparation | `evaluation_runs.py`, `corpus_preparation.py` | run rows, budgets, prepared corpora | claim, spend, finish, activate | crashed runs, shared budgets | a budget is never overspent |
| PDF extraction child process | `adapters/pdf` | a child process per document, with limits | parse, kill | limits and time-outs | a bad file harms nobody else |
| HTTP adapters, access control | `main.py`, `adapters/http` | none of its own | parse, authorise, wire | none | checks before effects |
| Keycloak e-mail OTP | `infra/keycloak/providers/email-otp-reset` | challenges, budget windows, notes of a browser tab | request, resend, verify, change the address, clean up | POSTs of a tab overlap; reservation, mail and activation are three steps; windows begin anew | one live code per account, used once and within its attempts; the tab knows the code that was mailed |
| Frontend and BFF | `frontend` | session cookies | render, proxy | none | (rendering) |

### How components interact

* Submission creates a job and a Workspace Admission in one transaction; the
  worker's terminal transaction closes admissions and enqueues the object
  clean-up in the same transaction as the job transition.
* `ProcessIngestionJob.run_once` calls the job store (claim, heartbeat, finish)
  and the runner (permit, thread). Handler threads share a completion cell and a
  cancellation flag with the supervisor.
* A success publishes an Embedding Set and moves the served version of the
  Document. A later upload or reprocess makes an Active Job obsolete; its success
  then ends `superseded`.
* A conversation loop calls `AnswerQuestion.execute`; the Question Trace it
  persists is the only thing a recovery can learn about an answer whose loop died.
  A change in what the Workspace serves (ingestion, deletion) invalidates it.
* Executors and reconcilers of one tool proposal share its execution row in
  PostgreSQL and, under the logical execution id, the ledger of an external provider.
  No transaction spans both: what a request learnt of one may be old when it writes
  the other.
* Object clean-up reads the jobs, versions and references the pipeline writes.
* Every head and generation of the search index carries the revisions of its document and
  Workspace: an upload, an archive or a rename withdraws it from serving at once, without a
  write. A question holds the snapshot it read and asks, in each later transaction, whether
  it still is what is served.

## 2. Modules

| Module | Contents |
|---|---|
| `JobLifecycle` | Abstract: the public status of jobs (queued, processing, retry_scheduled, terminal), its transitions and attempt budget |
| `IngestionCoordination` | Durable jobs, workers, requests on one Document. Implements `JobLifecycle` |
| `AttemptSupervisor` | One worker process: permits, threads, supervision loop |
| `ConversationLog` | Abstract: what a reader sees of a conversation |
| `ConversationTurns` | Turns, loops, recovery, heartbeats, stage threads. Implements `ConversationLog` |
| `ProposalLifecycle` | Abstract: decision, tickets and outcome of one write proposal |
| `ToolExecution` | Execution and reconciliation of an approved proposal, with the provider. Implements `ProposalLifecycle` |
| `LexicalIndexing` | Lexical generations of a Workspace, their indexers and readers, in both modes of a deployment |
| `ObjectLifecycle` | The files of a document from upload to deletion: rows, items, clean-up worker, reconciler, hard deletion |
| `AnsweringPipeline` | One question: retrieval, recovery of the generation, trace, result, event stream |
| `OneTimeCodes` | Abstract: one usable code per account, accepted once after its activation |
| `OtpRecovery` | The password reset by e-mailed code: tabs, POSTs, challenges, budgets. Implements `OneTimeCodes` |
| `MC...` | Instances for TLC: values of function constants and symmetry sets |
| `..._proofs` | Theorems about the module of that name |

`IngestionCoordination` composes submission, coordination and worker processes,
because they interact through the row locks of one Document. `AttemptSupervisor`
sees the store only through its answers, so the two are not composed: what an
attempt may do in the store is decided by its token alone, and
`IngestionCoordination` lets a worker finish at any time. The other modules meet in what one
takes as given of another: the jobs of `LexicalIndexing` and `ObjectLifecycle` have an owner or
are open, because leases are the subject of `IngestionCoordination`; the snapshot of
`AnsweringPipeline` may be revoked at any time, because `LexicalIndexing` says when it is; the
turn loops of `ConversationTurns` wait for an answer, because `QuestionEnds` says that it comes.

### Conventions

* **Transactions are steps**, unless something they read may change before they
  commit, or time may pass between the sampling of the clock and the commit.
  Split in `IngestionCoordination`: the heartbeat, the retry and the terminal failure
  (`Begin...` locks the rows, samples the clock and checks the lease; `Commit...` looks at
  neither again), the PDF success (`BeginSuccess` locks the job, `ConfirmSuccess` holds the
  Document too and is the final conditional update, `PublishSuccess` commits) and the
  submission (`BeginSubmit` reads the job without lock, `CommitRequest` links it). The
  transactions of `ConversationTurns` lock the turn before they call `clock_timestamp()`, and
  whoever looks for expired turns skips locked rows, so nobody sees a turn expire between
  the sample and the commit: one step.
* **Time is relative.** A timestamp is kept as its distance from now, at least 0.
  The code only compares timestamps with now; `Tick` lowers all of them. Durations
  are small numbers in the order of the real ones. Only `ToolExecution` has a clock
  (`now`, up to `MaxTime`): its transactions use `transaction_timestamp()`, the time
  they *began*, which a wait for the row lock makes older than the row they read.
* **Faults are counted.** Crashes and database errors draw on `MaxFaults`;
  the theorems hold for every value of it.
* **Mutants.** An operator whose comment starts with *Mutant of X* is a plausible
  bug in `X`. It is used only when it replaces `X`, and shows that a property can
  fail. No specification refers to it.

### IngestionCoordination

`job[j]` is the row of `ingestion_jobs` (`j` is the operation and the target
version: the unique key of a job for one deployed configuration), `attempt[j][n]`
its attempt rows, `document` the current and served version and the complete
Embedding Sets, `admission[j]` whether an open admission links to the job,
`worker[w]` what a process holds in memory, `request` the one request that holds
the Document lock.

`run_once` is `ObserveExpired`, `RecoverExpired`, `Claim` (or `NoEligibleClaim`),
`HandlerEnds`, and one of `BeginSuccess`/`ConfirmSuccess`/`PublishSuccess`,
`BeginRetry`/`CommitRetry`, `BeginFailure`/`CommitFailure`. Each of them may commit after the
lease ran out, since the expiry is observed without a lock; only the success asks the clock once
more, in its final conditional update, and rolls back when that comes too late
(`FinalizationFenceLost`). `Committed` splits every write into its commit and its
acknowledgement: an acknowledgement that is lost leads to `ReadBack` by operation
ID, which repeats the write once. `InvalidTransition` and `Fenced` are the two
refusals of the store, in the order the code checks them: the first ends the
process (`invariant_error`). `Deadlocked` and `BreakDeadlock` are PostgreSQL's
deadlock detection between a success (job, then Document) and a submission
(Document, then job through the foreign key).

Abstracted: replays of an idempotency key (they change nothing), read-only
replies, fingerprints, the derivation of chunks and embeddings, error codes. One
Document: nothing relates the jobs of two.

### AttemptSupervisor

`thread[r]` distinguishes a handler that has returned, has published its
completion, and has exited: the supervisor sees a completion some time after it
was timed, and the permit comes back after that. The supervisor reads the
completion (`seen`) before it reads the clock, so a completion that is published
between the two reads at the deadline is discarded as a time-out. `elapsed`
saturates at `MaxRuntime`, as every later time compares alike. `supervised` says
whether `run_once` was given an `AttemptRuntime`: without one, the handler runs
inline. When the process ends, its daemon threads end.

### ConversationTurns

`turn` is `conversation_turns`, `claims` counts the claims of a turn (the count
stands for the UUID of a claim token), `admission` its Workspace Admission,
`trace` what the Question Trace of the turn records, `withdrawn` the turns whose
trace `read_conversation_result` would no longer accept. `loop[l]` is the program
counter of `run_once`/`_execute_claim` with the answer and heartbeat tasks.
`updates` are the `set_turn_stage` calls in threads. `timely` is history.

| Action | Code |
|---|---|
| `SubmitTurn`, `CreateConversation`, `ArchiveConversation`, `ArchiveWorkspace` | `submit_turn`, `create`, `mutate`; `workspace_store.mutate` |
| `Observe`, `ReadResult`, `ApplyRecovery`, `RecoveryEnds` | `_recover_expired_turns` with `expired_turns`, `read_conversation_result`, `apply_expired_turn_recovery`; entered from `run_once`, from the end of a heartbeat and from `_wait_until_terminal` (`purpose`) |
| `ClaimTurn`, `NothingToClaim`, `ContextFails`, `StartAnswer` | `claim_next_turn` and the first half of `_execute_claim` |
| `SeeAnswer`, `SeeHeartbeatEnd`, `SeeDeadline` | the three outcomes of `asyncio.wait` |
| `FinishTurn`, `PollTurn`, `Drained` | `_finalize_answer` with `finish_turn`; `_wait_until_terminal`; `_drain_answer` |
| `AnswerReturns`, `AnswerRaises` | `AnswerQuestion.execute`. `persist_trace` and the last check run on the event loop without an await between them and the return: one step. It may raise behind a valid trace that is still served: the acknowledgement of `persist_trace` was lost, or the last check met a database error. The loop then records the turn as failed |
| `Heartbeat`, `HeartbeatRaises`, `HeartbeatErrorEscapes` | `heartbeat_turn` in `_heartbeat`; its exception is suppressed only where the heartbeat ended the wait |
| `ReportStage`, `StageLands` | `stage_callback` and its thread; exceptions are suppressed, so an update may also do nothing |
| `ProcessFalls` | a killed process, or an exception out of a loop: the task group ends the process |

Notes on faithfulness. A recovery compares the lease and deadline it observed with
those of the row; once expired they do not change under the same token, so the
comparison adds nothing to token and expiry and is not repeated. `expired_turns`
skips locked rows: `Observe` takes any subset of the expired turns. `claim_next_turn`
takes the oldest unlocked turn: any queued turn. A heartbeat thread that is still in
the database when its task is cancelled may renew the lease once more; it is left
out, since it can only make the lease last one renewal longer. `Withdraw` is
restricted to turns in processing, because nothing reads the trace of another
turn. Titles, revision counters, feedback and the idempotent creation of a
conversation are left out. An expected revision restricts nothing: any client may
hold it.

### ToolExecution

`proposal`, `execution`, `admission` and `observations` are the rows of
`tool_proposals`, `tool_executions`, `tool_dispatch_admissions` and
`tool_execution_observations`; `ledger` and `tickets` are the provider's
`provider_idempotency` and `provider_created_tickets`; `compatible` says whether
capability, binding and policy are those that were approved; `call[w]` is a request
with what it read and keeps in memory. `BeginTimes` are the times at which a
transaction may have begun that gets its lock now: not before the last step of its
request.

| Action | Code |
|---|---|
| `Decide` | `decide_proposal` |
| `ReadApproved`, `ResolveCompatible`, `MarkStale` | `ApprovedProposalExecutor.execute` up to `_resolve_compatible`, `mark_execution_stale` |
| `Acquire`, `Admit`, `ReadBackAdmission` | `acquire_execution`, `authorize_and_admit_dispatch`, the read after a failed admission |
| `CreateTicket`, `TurnAway` | the gateway and the reference provider: committed with the answer perhaps lost, or not committed |
| `RecordObservation`, `Finalize` | `record_execution_observation`, `finalize_execution`, with the continuations of `_record_outcome`, `_record_terminal`, `_reconcile_not_found` |
| `ReadExecuting`, `ObserveOutcome`, `TakeOver` | `ReconciliationExecutor.reconcile`, `get_execution_outcome`, `takeover_stale_execution` |
| `Revalidate`, `RetryRejected`, `RetryIndeterminate` | `_revalidate_retry` and what `_retry_after_not_found` does with an answer |
| `Abandon` | authority denied, an error, or the death of the process |

Abstracted: one proposal (rows of two are never related); its content, expiry job,
audit events and read projections; the dispatch epochs of a Workspace. The answers
of the provider that leave the outcome open are one (`indeterminate`). Every request
passes a fresh owner, so a reconciler always takes the execution over before it
writes. The clock of the application host, which decides `ResolveCompatible` and
`Revalidate`, is taken to agree with the database's.

### LexicalIndexing

`doc` and `ws` are the rows of documents and the Workspace with their revisions, `head[d]` the
lexical head with the desired and the active generation, `row` the generations, `points`
those whose points are all in Qdrant, `extract` and `job` the open jobs of the reviewed mode,
`work[w]` what an indexer has in hand, `reader[r]` what a question has seen. `mode` is that of the
deployment: in `dynamic` maintenance loops index the whole corpus, in `reviewed` jobs index one
document each under the profile of `Manifest`.

| Action | Code |
|---|---|
| `Submit`, `Publish`, `Archive`, `MutateWorkspace` | `_commit_pdf_submission`; a dense success or `activate_embedding_set`; `_mutate_archive`; `workspace_store.mutate` |
| `Prepare` | `prepare_dynamic_corpus`: keeps the requests that are valid still, makes the others |
| `Stage` | `stage_generation`: the upsert and the look whether all points are there |
| `ReadMembership`, `Commit` | `commit_corpus_transition_in_transaction`, before and after it locks rows |
| `FinishExtraction`, `FailExtraction` | `_finalize_pdf_extraction_once` with `request_generation_in_transaction` (`Request`); `_finalize_terminal_failure_once` |
| `Reprocess`, `Rollback`, `Reindex` | `_commit_reprocess_once`, `_reserve_lexical_rollback`, `run_reindex` |
| `Claim`, `Finalize`, `Supersede` | `LexicalIndexHandler.execute`, `_finalize_lexical_index_once`, `_apply_superseded_once` |
| `Cleanup` | `cleanup_generation_in_transaction`, which deletes points while it holds the locks |
| `Read`, `Query`, `Retrieve`, `Answer`, `Refuse` | `read_active_generations`; the query; the checks of `retrieve_lexical_candidates`; `_revalidate_lexical_trace` |
| `Abandon` | a process dies, a call fails, a lease runs out |

The profile of a corpus is the set of its documents and versions, for that is what the
arithmetic depends on. The lease of an index job is an owner: a claim of a job that has one
stands for a lease that ran out. The session of `Commit` answers with the head it read earlier
while a variable names it (`kept`, `HeadSeen`).

### ObjectLifecycle

`upload[u]` is a submission from its file to its answer, `stored` the object store, `aged` the
keys that are older than the minimum age of an orphan, `source[c]` the source row of the version
with content `c`, `document` the pointers and the versions that traces cite, `item` the
lifecycle items by key and class, `worker`, `deleter` and `candidate` what the clean-up worker, a
hard deletion and the reconciler have in hand.

| Action | Code |
|---|---|
| `Store`, `Commit`, `CommitFails`, `Settle` | `submit_pdf`: `put_stream`, the transaction, its failure with an answer that may come true later |
| `ScheduleCleanup`, `CheckReference`, `Classify` | `_schedule_unreferenced_cleanup`, `_is_object_referenced`, `_handle_failed_upload` |
| `FinishJob`, `Cite` | `enqueue_terminal_cleanup_in_transaction` in the terminal transaction of a job; `persist_trace` |
| `Claim` | `claim_object_lifecycle` with the recovery of lapsed leases (`Recovered`), which is committed also when nothing is due |
| `Head`, `PrepareDelete`, `RevalidateDelete`, `Delete`, `Complete`, `Suppress`, `Fail` | the steps of `ObjectLifecycleWorker.run_once` and their transactions, in their order |
| `CheckOrphan`, `EnqueueOrphan`, `Report` | `ObjectLifecycleReconciler.reconcile`, with `is_authoritatively_retained` |
| `PrepareHardDelete`, `RevalidateHardDelete`, `HardDelete`, `CompleteHardDelete` | `hard_delete_original_source` |
| `Age`, `Lapse`, `CloseWindow` | time: it is left to chance, each limit passing in a step of its own |
| `UploadDies`, `WorkerDies`, `DeleterDies` | deaths and failing calls |

One document, with one job per version: its success, failure and budget are the subject of
`IngestionCoordination`. The window of a diagnostic is 24 hours and no transaction is open so
long: `CloseWindow` waits for a commit under way.

### AnsweringPipeline

`pc` is where the asyncio task of a question is, `rec` the locals of `generate_with_recovery`,
`trace` the row it stores, `outcome` what `execute` returned or raised, `queue` and `events` the
stages and what the stream emitted, `valid` whether the snapshot is authoritative,
`deployment` the configuration. Between two awaits nothing else of the process runs: `Cancelled`
applies where the task awaits, and so does `Emit`.

| Action | Code |
|---|---|
| `Clarify`, `Embed`, `Retrieve`, `RetrieveFails`, `NoEvidence`, `Generate` | `_execute_admitted` up to the generation, with its stages `retrieving`, `selecting_evidence`, `generating` |
| `Call`, `Recompose` | the head of a round of `generate_with_recovery`, by phase |
| `Generated`, `GeneratedRefusal`, `NothingFound`, `Misgenerated` | what a generation comes back with |
| `Supported`, `Verified`, `Insufficient`, `Answerable`, `CallFails` | what the verifier comes back with |
| `Candidate`, `Recovers` (operators) | the acceptance of a candidate; the `except` branch that decides what is tried next |
| `Unusable`, `KeepFailure`, `Keep`, `Deliver`, `End` | final validation, `persist_trace` with the check of its proof, final revalidation, the `finally` that closes the admission |
| `StoreFails` | a database error of the store, which leaves `execute` at once; a trace whose acknowledgement was lost stays |
| `Deadline`, `Disconnect`, `Emit`, `Finish` | `asyncio.timeout`; `execute_stream` and its `finally` |
| `Revoke` | the corpus changes (external) |

An answer stands for its text. What providers and verifier say is chosen freely among what the
code tells apart; how often statements are compared and prompts are worded is left out. Modelled
are the configurations of the third milestone (`v3`), dense or hybrid, and the lexical ones;
`Cloudflare` models have an answer contract and may have a verifier.

### OtpRecovery

`notes[t]` are the notes of a tab's authentication session, `challenges` and `windows` the two
tables, `post[p]` a POST that is served, with what it read when it started. `mails`, `uses`,
`compared` and `disturbed` are history.

| Action | Code |
|---|---|
| `Request`, `Resend`, `Verify`, `ChangeEmail` | `EmailOtpResetAuthenticator.action` until the first transaction, with `cleanupExpired` of a send |
| `Reserve`, `Unavailable` | `KeycloakOtpChallengeStore.reserve`, admitted or refused, with a lost answer; the store out of reach |
| `Mail`, `Activate` | delivery to the user who has the address now; `activation` and its reconciliation |
| `Remember` | the notes written at the end of the POST |
| `Check`, `Accept` | `verify`: the attempt is counted, the code compared and consumed; then the user is looked up again |
| `Tick`, `ChangeUser`, `Crash` | time; an administrator; a node stops (external) |

A code is named by its reference (challenge, generation); a decoy account stands for an address
nobody has. `OneTimeCodes` knows the codes that are usable, that is neither consumed nor expired:
expiry, replacement and clean-up are one and the same to it. Transactions lock the windows and the challenge before they read the clock, and are one
step each. All tabs come from one IP address.

## 3. Runs

Each run's bounds are in its `.cfg`. `None` is SQL NULL.

| Run | Instance | Shows |
|---|---|---|
| `Leases` | 2 workers, 1 version, 3 attempts, lease 2, 2 renewals, 1 request, 2 faults, fair | Job and history explain each other; work needs a durable claim; a live attempt is ended by its owner; a lease that is lost with no transaction of its owner in flight stays lost; `JobLifecycle` is implemented; every job settles |
| `Documents` | 2 workers, 2 versions, 1 attempt, 3 requests, 1 fault | Admissions follow jobs; publication is fenced; what is served was published complete by a succeeded job |
| `Supervision` | 2 permits, 3 invocations, runtime 2, with and without supervision, fair | A handler that was given up keeps its permit; only timely completions count; every supervised attempt is decided; slots come back |
| `Turns` | 1 question, 2 worker processes, lease 1 of deadline 2, 1 fault, fair | Executed once; outcome and trace agree; no recovery loses a durable answer; settlement fenced; every question settles |
| `Conversation` | 2 questions of a conversation, 1 loop, 1 fault | `ConversationLog` is implemented |
| `Executions` | 2 requests, lease 1, expiry 3, clock to 4 | The recorded outcome is the provider's and stays; nothing unadmitted is dispatched; `ProposalLifecycle` is implemented |
| `Lexical` | both modes; 2 documents, 2 versions, 2 configurations, 2 indexers, 1 reader; 2 changes, head revisions to 3, 1 failure, fair | What a reader retrieves is the whole snapshot with all its points, under one profile of one corpus; stale work stays stale; an overtaken request stays inactive; a quiet corpus is indexed |
| `Objects` | 2 uploads, 2 contents, 1 clean-up worker, the reconciler, 1 hard deletion at a time; 2 attempts, 1 failure | Only objects nobody owns are deleted; diagnostics are kept; recorded outcomes happened; the served version keeps its source |
| `Answering` | every deployment; 3 answers, 7 calls, fair | An answer was verified and never refuted; a refusal after a failure was earned; nothing of a revoked snapshot leaves; the stream tells all in order; every question ends with its admission closed |
| `Otp` | 2 tabs, 2 POSTs at a time and 4 in all, 1 user, 2 addresses, 1 trouble, clock to 6 | `OneTimeCodes` is implemented: one live code per account; a code is used once and compared within its budgets; an undisturbed tab holds the generation that was mailed |
| `OrphanRetry`, `OpenJob` | see [Findings](#5-findings) | A sentence of the code or its documents fails |


**Why the bounds are enough.** A hazard needs an owner and one other: two workers
or loops make every pair. One job or turn suffices for what is stated per row,
because rows meet only in locks and in the conversation; two versions are needed
for supersession, two questions for the order of a log. Three attempts are a
first, a middle and a last one; `Documents` gives a job one attempt and makes up with requests:
a version, and the two reprocesses of which the second finds the failed job of the first. A lease of 2 with renewals has a state
before, at and after the renewal; with a lease of 1 and a deadline of 2 (`Turns`) both a
lease that is renewed and one cut short by the deadline occur. `Conversation`
makes both 1: it is about order, which the lengths do not change. One fault at any
place is every single fault; a second one in `Leases` is a fault during the
handling of the first. In `Executions`
either request is an executor or a reconciler, again and again, and any number of
deaths is allowed: every pair of roles meets at every step. A lease of 1 before an expiry at 3
leaves room for two generations before the proposal expires and one at that moment.
Two questions with two loops in
`ConversationTurns` is beyond TLC (millions of states per fault); the theorems cover every
number of both. Liveness is checked in the smallest instance that has every phase: `Leases`
makes one request, so a deadlock of a success with a submission, and that it is broken, is in
`Documents` only, which looks at safety.

In `Lexical` two documents make a corpus that is complete or is not, and a transition that takes
both; two changes are one before and one after a request, or a change and its reversal; three
revisions of a head are a generation, its successor and a rollback. Versions outside `Manifest`
exist, so that jobs of an unreviewed version are seen to fail. Two indexers and one failure make
a stale owner. One reader suffices: readers write nothing. In `Objects` two uploads of the same
content meet in one source row, and two of different contents in one document; two attempts
are a first and a last one. With one worker a lost claim is one whose lease lapsed under the
worker; two workers with one upload were checked once (28,969 states) without anything else coming
out. `SlowUploads` is `FALSE`: an upload does not last longer than the
minimum age of an orphan, on which the reconciler relies (with `TRUE`, `OnlyUnownedDeleted`
fails, and the two theorems that need it say so). In `Answering` seven calls are more than any path that does not repeat a phase; of three
answers, one may be refuted, one composed and one repaired. In `Otp` a life of 2 and a window of 3
have the order and the overlap of 5 and 15 minutes; the clock begins at the end of the zeroth window
and runs one window on, so that a budget is reset while a code of the old one lives. A clean-up
removes challenges, but with this clock no window; with one tick more (305 s) it does, and
nothing else comes out. `MaxAddressSends` of 3 is less than the POSTs, and reached. One trouble is
every single crash, lost answer, failed delivery or change of a user.

**Deadlock** is checked except where the program of the model really ends: in the supervisor's run
the process ends after `MaxRuns` invocations; in `Lexical` and `Objects` changes, failures and
uploads run out and nothing is left to do; in `Answering` the question is over; in `Otp` clock
and POSTs run out.

**Fairness and why the code gives it.**
* Workers and loops: `run_forever` and `run_worker` loop unconditionally, and a
  process that ended is started again by the deployment (`Restart`, and the fresh
  loops of `ProcessFalls`). Their own steps are weakly fair; faults, new
  requests and heartbeats are not fair.
* Transactions end: a lock is held for a few statements and PostgreSQL breaks
  deadlocks. In `IngestionCoordination` a worker step that needs a locked row is disabled
  until the row is free, and the request that holds the Document row ends. In `ConversationTurns`, a look for expired turns
  does not find the row locked every time (strong fairness of `ObserveRows`).
* `Tick` is weakly fair: time passes.
* An answer ends because `execute` runs under `asyncio.timeout(90)`. Without it
  `EveryTurnSettles` fails: all loops may wait in `_drain_answer`, and no one is
  left to claim or recover.
* `Maintain` of `LexicalIndexing`, for every indexer: the worker command runs the maintenance
  again and again, and an iteration that failed is followed by another. Documents, Workspace
  and faults are not fair, so `CorpusIsIndexed` speaks of a corpus that can be indexed from
  some time on.
* `Run` and `Deadline` of `AnsweringPipeline`: the event loop resumes a task that waits for
  nobody, and `asyncio.timeout` covers the whole execution. No provider is assumed to answer.
* A handler thread is *not* assumed to return: `SupervisedRuntimeIsBounded` holds
  without that, which is what the supervisor is for. `SlotsComeBack` speaks of
  handlers that did return.

## 4. Proofs

All theorems quantify over every value of the constants, subject to the named
assumptions: positive durations and budgets, `None` distinct from the values it
stands beside, finite sets where a cardinality is taken. TLC evaluates each of them in the runs of
its module. Two theorems have a hypothesis of their own, `~SlowUploads`. Symmetry, bounds on
faults and requests, and the size of sets play no part.

**IngestionCoordination** (`IngestionCoordination_proofs`). None of the properties is
inductive: that a worker may write needs to know what its token says of the row, and
that needs to know how the row came about. The invariant `Inv` is the conjunction of
* `Ledger`: for every job, status, attempt count, lease version and current attempt
  agree with the attempt rows, which are numbered without a gap, all but the last closed;
* `WorkersOK`: the shape of what a worker holds in every phase, and (`HasRow`) that
  whoever holds a token has a durable attempt row in its own name under that lease;
* `ExclusiveRow`: at most one transaction is inside a job row, and it owns it;
* `RenewalBounded`, `RequestOK` and the remaining types.

`Invariance` shows it is inductive, with one lemma per action. From it follow
`TypeCorrectness`, `LedgerConsistency`, `HistoryConsistency`, `DurableClaims`,
`RowExclusion`. Its second part adds what one step may do to a row
(`StepEffects`), from which `ImmutableHistory`, `LiveAttemptProtected`,
`LeaseLossProved`, `LiveOwnerNeverBreaks` follow: the phases in which a worker writes without
another look at the clock are reached only by the step that took that look (`OnlyTheseArrive`),
so an expired lease gets no new one (`NoLateSample`). Then comes `Refinement`: the
coordination implements `JobLifecycle`, the retry delay being present only while a
retry is scheduled. The third part proves `PublicationExplained`,
`PublicationFenced` and `AdmissionsFollow`, with two invariants: the Document row is held by the
request or by a confirmed success, not by both (`DocumentHeldOnce`), and so what a submission saw
of the job it links to still matters when it commits (`LinkCurrent`), because a success or a
supersession would have to wait.

**AttemptSupervisor** (`AttemptSupervisor_proofs`). `Inv`: permits and holders balance
(`Balance`), and the state of each invocation follows from the program counter and
its thread (`RunOK`, `ThreadOK`). `BoundedHandlers`, `AbandonedCancelled`,
`OnlyTimelyAccepted`.

**ConversationTurns** (`ConversationTurns_proofs`). `Inv`: a turn is claimed once
(`TurnOK`), so each token is the first, and a loop that holds a turn is alone with it
(`Exclusive`); what a loop holds as answer is what the trace says, and a loop whose
execution raised knows nothing of it (`AnswerHeld`); an observed turn is spent for good,
and a recovery that read nothing after the expiry will not find anything later that
counts (`RecoveryHeld`). The last clause carries `DurableAnswersKept`: it is what makes
the order *observe the expiry, then read the trace* necessary. The one exception the property
makes, the owner that raised, is a step of `FinishTurn` and needs no invariant. `StatusSteps` lists what a
step may do to a status; `SettlementIsFenced` and the refinement `Implements` rest on it.
The refinement needs that the sequence numbers of a conversation have no gap
(`InOrder`), from which `AskedInterval` makes the length of the log their cardinality.

**ToolExecution** (`ToolExecution_proofs`). `Inv` has, beside the rows (`Facts`), four parts
for every request:
* `ShapeOK`: its step tells its role and what it may hold as answer; a request at work has
  generation 1 if it is an executor and a later one if it is a reconciler;
* `GenerationOK`: its generation is not later than the execution's, and if it is the same the
  request owns the execution, which is not finished: at most one request is current;
* `ProviderOK`: an outcome it holds is the ledger's. The case that needs thought is the
  failure recorded for a *rejected* dispatch, because another request with the same key may
  still be on its way to the provider. A rejection is recorded only by the executor, in
  generation 1, and while the generation is 1 nobody but the owner has dispatched;
* `ObservedOK`: the observations are not later than its own last step, and the last one is
  what it is about to finalize.

From it follow the six invariants; `Workflow` says which steps change the proposal's
state and carries `OutcomeStays` and the refinement `Implements`.

**AnsweringPipeline** (`AnsweringPipeline_proofs`). `Inv` follows a candidate through the rounds
of the recovery:
* `Rounds`: under a deployment that verifies, what a verification refuted is among the rejected
  answers; in the phase `verification` the candidate is not (`Candidature`), and the support kept
  beside it names its answer; a composition has an answer to try;
* `Survives`: only a deployment that verifies goes on after a failure;
* `Earned`: what is generated, and later what is kept, is a proven answer, or a refusal that no
  failure preceded or that insufficient sources explain;
* `Stages`: where an outcome and a trace may be.

One lemma per step of the task. `RecoversEffect` says once what the except branch may do, and both
branches that reach it cite it. `AnswersProven` and `RefusalsEarned` follow from `Inv`,
`RevokedInside` from it and the effect of each step. `ToldInOrder` has an invariant of its own about
the stream, `StreamInv`: what was queued and emitted so far has the order of the stages (`Retrieves`,
`Selects`, `Generates`), and nothing follows the result (`Ended`). The bound of the calls plays no part.

**LexicalIndexing** (`LexicalIndexing_proofs`). The properties speak of a reader that took its
snapshot several transactions ago, while points, heads and rows went on; the argument is about what
never comes back. Per step (`Carries`), rows keep their version, source and profile (`RowsKept`),
an index job that succeeded stays so (`JobsKept`), and the revisions of
documents, Workspace and heads only grow (`RevisionsGrow`, `HeadsGrow`). `Inv` has
* `RowOK`, `HeadOK`: a generation is not of a later revision than its document; one of the present
  revision is of the present version; a head's active generation has all its points;
* `WorkOK`: what a worker staged has its points as long as it is desired, and what it found stale is
  stale still;
* `ReaderOK`: the rows of a snapshot are of one corpus (`OneCorpus`), and each has its points, or
  was hit, or is `Lost`: it was active in a reviewed corpus and its head has moved on, for good,
  so the check after the query finds out.

`RetrievedInFull`, `RetrievedOnOneCorpus` and `StaleForGood` follow from `Inv`; `OnlyNewest` is an
action property, from `Inv` and the effects. They hold in both modes. Documents are natural numbers
(`DocsAssumption`), for rows are locked in their order.

**ObjectLifecycle** (`ObjectLifecycle_proofs`). Nobody compares a file with a row in one transaction,
so the argument is about keys. The submission of a key commits at most once; once it is `Over`, no
row comes to have the key that has it not, so that `Free`, which a worker learnt when it revalidated
its deletion, stays true until it deletes.
* `KeyOK`: a key a row has is `Over`; a file that is missing is `Dispensable` (a row had it, or no
  diagnostic window is open); a key that is old enough for the reconciler is `Settled`, unless
  uploads are slow;
* `ItemOK`: an item is made for such a key, or keeps its window while the answer of the commit is out;
  its outcome is true of the store or of the rows;
* `WorkerOK`, `Distinct`: a worker that has lost its lease never owns the item again, because an
  attempt is in one hand; what it holds in each phase is still so;
* `DeleterOK`, `ContentOK`: a hard deletion is of a content that has a row.

`Grows`, `SameItem` and `Moves` say what no step takes back. `ToldTruly` and `ServedVersionKept`
hold for any speed of uploads; `UnownedDeleted` and `WindowKeepsFile` assume `~SlowUploads`, as the
reconciler does.

**OtpRecovery** (`OtpRecovery_proofs`). `Inv` relates the two tables: `Covered` says that a
challenge outlives the last send that the window of its account remembers by a life at most, and
that the window is there; `Single` that two challenges of an account are not usable at once. A
reservation waits as long as a life after the last send, so every earlier challenge has expired.
`Covered` is why a window that begins anew keeps its last send, and why the clean-up must not
drop the window of a challenge it keeps; that the budgets of accounts and of addresses are
different rows, and that `None` is no row, is the assumption `BudgetAssumption`. From it `OneCode`.

Three more parts build on it.
* `Known` follows a challenge from the drawing of its id: until the first send reserves the row,
  that send is the only one to know the id, and nothing was compared or accepted (`Fresh`); a
  resend asks for the generation after the one it follows (`Sequels`).
* `Spent` counts. The life of a code is not longer than a window, and so touches two at most: the
  comparisons of a code are paid for by the attempts of the window at hand and, if that began
  after the code was sent, by those of the one before (`Within`, `Budgeted`); a row of which a
  code was accepted stays consumed or goes (`UsedOnce`). From it `CodeSpent`, and with `Covered`
  the refinement `Implements`: a send that is admitted issues a code when no other of the account
  is usable and its challenge was never accepted; every other step activates one, accepts one, or
  lets codes run out.
* `Followed` compares a tab with its row. A tab whose POSTs do not overlap is served by one
  request (`Alone`), and what that request holds (`Follower`), or else what the notes say
  (`NotesMatch`), is what the row says, if it is still there. From it `TabFollows`.

Several theorems (`TypeCorrectness`, `LedgerConsistency`, `RowExclusion`, `ImmutableHistory`,
`LiveOwnerNeverBreaks`, `AbandonedCancelled` and others) state properties that the runs no
longer list: they hold for every instance, and the runs are kept for what needs one.

**Only model-checked**: liveness (`EveryJobSettles`, `SupervisedRuntimeIsBounded`,
`SlotsComeBack`, `EveryTurnSettles`, `CorpusIsIndexed`, `QuestionEnds`), for the prover has
neither fairness nor ENABLED. Every invariant, action property and refinement of the passing runs is
a theorem. `TypeOK` of each module holds on the instance of its run; the types the
invariants need are part of what is proved.

## 5. Findings

* `OrphanRetry`: an execution whose executor died between acquisition and admission can
  never be dispatched: `tool_dispatch_admissions` still has `CHECK (generation = 1)`, which
  migration 0040 dropped from `tool_executions` only.
* `OpenJob`: hard deletion does not look at open jobs. The source of a version that was
  superseded by another upload is deleted while its job is queued or processing; every
  terminal transaction of the job then raises (`lifecycle.py:131`) and is rolled back. Once its
  attempts are used up, the job is recovered before anything else is claimed, and raises
  there: the queue stops.

`PROJECT.json` quotes the lines. The following came out of the modelling, some of it by a run
that is not kept; each is a property of a module, or a remark on one.

*Ingestion.*
* `StaleCallerIsFenced` fails: the store looks at the closed attempt before the ownership
  (`coordination.py:757`), so a worker whose attempt was recovered gets `InvalidTransition`,
  which stops its process, where `docs/design/issue-17-worker-coordination.md:411` has "stale
  callers receive `FENCED`". `LiveOwnerNeverBreaks` proves that this happens to stale callers only.
* `FinishedJobIsReprocessable` fails: repeating a reprocess whose job failed violates the unique key of
  the failed job (`submission.py:435`), where `CONTEXT.md:283` says that such a job "may be
  explicitly reprocessed".
* `AttemptRuntimeIsBounded` fails without supervision: `main.py:414` builds `ProcessIngestionJob`
  without an `AttemptRuntime`, so that the handler runs inline, without heartbeats or the 15
  minutes of `CONTEXT.md:253-255`.

*Tools.*
* `FinalizationIsOwn` fails: an executor that comes late to an execution that a reconciler took
  over and finalized fails an assertion (`tools/execution.py:364`), where
  `docs/design/milestone-4-tools-human-approval.md:311-317` promises *already finalized* or *fenced*.
* `RetryAnswerRecorded` fails: a retry that the provider rejects calls `self._record_outcome`
  (`tools/execution.py:664`), a method of the other class; line 328 of the same document says that it is
  "reconciled into the Knora lifecycle".

*Conversations.* A heartbeat that failed with a database error is awaited with only the
cancellation suppressed (`conversations/runner.py:123`, `:143`), so that an answer that is ready
at that moment is not finished by its loop: the process ends and the turn is recovered from its
trace (`HeartbeatErrorEscapes`). The properties hold nonetheless. When `execute` raises behind a
trace that is stored and still served (`answering/module.py:766`, `:804-809`), the loop records the
turn as failed (`runner.py:172`), while a recovery would have answered it from the same trace:
`DurableAnswerKept` excepts exactly this.

*Lexical generations.*
* `OnlyDesiredActivates` fails: `commit_corpus_transition_in_transaction` reads the heads of the
  active generations before it locks a row (`search_index_store.py:677-683`), and its
  session answers the compare-and-set with the head it read then if a variable still names it
  (`:719-743`). A generation that is not desired any more may be marked active; it is of an older snapshot, so readers refuse
  it, and the next maintenance puts it right.
* In the dynamic mode nobody deletes points of old generations; in the reviewed mode a worker
  that lost its lease may stage points after the clean-up, and they stay.
* `activate_embedding_set` does not check that the set is one of the current version.
* An ordinary extraction that is under way takes the revision a rollback reserved, and the rollback ends superseded.
* Renaming a Workspace counts its revision, and so withdraws the lexical serving of all its
  documents; in the reviewed mode only reprocesses bring it back.

*Objects.*
* `CurrentHasSource` fails: a content whose source was hard deleted and that is submitted again reuses version and
  source row without a look at `deleted_at` (`submission.py:1084`), where
  `docs/standards/architecture.md:442-443` forbids a hard deletion while a pointer references
  the version. The new file goes to the clean-up, and the version is current without a source.
* An orphan whose item failed is never enqueued again, for the identity of the item is the key's.
* A trace of the dense retrieval may cite a source that was hard deleted between
  retrieval and trace, which is not checked again.

*Answering.* The trace of a failed question may pair a candidate with the observation of support of
the one before. A valid trace may be stored of a question that was answered with an error, when
the corpus changes between trace and delivery.

*Password reset.*
* Two first POSTs of a tab that overlap: the second is refused by the wait between sends, and
  its `remember` overwrites the reference of the first with one that does not exist. The code
  that was mailed cannot be used until the address is entered again, contrary to the comment at
  `EmailOtpResetAuthenticator.java:100`. Overlapping resends leave the tab at the older generation in
  the same way. `TabFollowsRow` therefore speaks of tabs that were not `disturbed`.
* A verification whose commit is not acknowledged consumes the code; so does one after which
  the user turns out to have another address by now.

## 6. Not modelled

* Liveness under a steady stream of new jobs: the claim takes queued jobs before due
  retries (`coordination.py:547`, NULLS FIRST), which an unbounded stream could delay for ever.
* The derivation itself (extraction, chunking, embedding), the contents of prompts and answers,
  ranking, rendering and HTTP parsing: data, or I/O without state of their own.
* Of the modelled components: replays of an idempotency key or operation ID (they change
  nothing), the `corpus_prepare` kind of jobs, `revoke`, `activate_ready` and
  `complete_orphan_reconciliation`, which nothing calls, the legacy retrieval, the in-memory
  doubles of the stores, the batches of sweeps and clean-ups, audit events.
* The components of the table in section 1 that have no module in section 2; section 7
  says which are planned. The child process of the extraction, the HTTP adapters and the
  frontend have no state that outlives a call.
* Two Workspaces: no operation modelled here relates the rows of two.

## 7. Plan

In this order; every module is written to be proved about (parameters as
CONSTANTS with assumptions, invariants as conjunctions of parts, no RECURSIVE).

1. `WorkspaceAdmission`: admit, close, archive, delete, composed with the admissions of
   jobs and turns. Theorem: nothing is admitted after the archive.
2. `PdfSubmission`: idempotency records, replays, lost acknowledgements of a submission, at
   present one step of `IngestionCoordination` and of `ObjectLifecycle`.
3. `Reembedding`, composed with the heads of `LexicalIndexing`.
4. `EvaluationRuns` and `CorpusPreparation`: claims and budgets.
5. Pure algorithms as operators against a reference definition: fusion and
   evidence selection, citation validation, retry windows.
6. `ToolExecution`, the rest: dispatch epochs of the Workspace, proposal expiry, audit.
