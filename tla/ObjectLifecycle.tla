-------------------------- MODULE ObjectLifecycle --------------------------
(***************************************************************************)
(* The stored files of one document, from upload to deletion.  The object  *)
(* store and PostgreSQL share no transaction: an upload stores a file      *)
(* under a new key and then commits a row that refers to it; a file no row *)
(* refers to becomes the object of a lifecycle item, which a worker        *)
(* claims, checks, checks again, deletes and completes, in a transaction   *)
(* each.  A hard deletion of the source of an old version goes the same    *)
(* way without an item.                                                    *)
(*                                                                         *)
(* Time is left to chance: a lease lapses, a file grows old and a          *)
(* diagnostic window closes in steps of their own.                         *)
(***************************************************************************)
EXTENDS Naturals, FiniteSets

CONSTANTS
    Uploads,     \* submissions; each stores one file, under a key of its own
    Contents,    \* contents, that is versions, of the document
    Workers,     \* processes that run ObjectLifecycleWorker.run_once
    None,        \* SQL NULL
    MaxAttempts, \* attempts of an item: 4 in the code
    SlowUploads, \* whether an upload may last longer than the minimum age of an orphan
    MaxFailures  \* bound of the crashes and failed calls

ASSUME AttemptsAssumption == MaxAttempts \in Nat \ {0}
ASSUME SlowAssumption == SlowUploads \in BOOLEAN
ASSUME NoneAssumption == None \notin Uploads \cup Contents \cup {"deleted", "suppressed"}

VARIABLES
    upload,    \* what each submission is doing
    stored,    \* keys whose bytes the object store has
    aged,      \* keys older than the minimum age
    source,    \* the source row of each version: key NULL before there is one
    document,  \* pointers to versions, and the versions that traces cite
    job,       \* the ingestion job of each version
    item,      \* object lifecycle work
    worker,    \* what each worker is doing
    deleter,   \* the hard deletion under way
    candidate, \* the orphan the reconciler is about to enqueue
    failures

database == <<source, document, job, item>>
vars == <<upload, stored, aged, database, worker, deleter, candidate, failures>>

Classes == {"orphan", "staging", "failed_upload_diagnostic", "terminal_cleanup", "orphan_report"}
Items == Uploads \X Classes
Terminal == {"succeeded", "failed"}

Upload == [phase : {"new", "stored", "duplicate", "refused", "unreferenced", "ended"},
           content : Contents \cup {None}, unsettled : BOOLEAN]
Item == [state : {"none", "queued", "processing", "retry_scheduled"} \cup Terminal,
         attempts : 0..MaxAttempts, leased : BOOLEAN, generation : 0..MaxAttempts,
         window : BOOLEAN, outcome : {None, "deleted", "suppressed"}]
Worker == [phase : {"idle", "claimed", "gone", "present", "prepared", "deleting", "completing",
                    "suppressing", "failing"},
           item : Items \cup {None}, attempt : 0..MaxAttempts, generation : 0..MaxAttempts]

NoItem == [state |-> "none", attempts |-> 0, leased |-> FALSE, generation |-> 0,
           window |-> FALSE, outcome |-> None]
IdleWorker == [phase |-> "idle", item |-> None, attempt |-> 0, generation |-> 0]
IdleDeleter == [phase |-> "idle", content |-> None]

TypeOK ==
    /\ upload \in [Uploads -> Upload]
    /\ stored \subseteq Uploads /\ aged \subseteq Uploads
    /\ source \in [Contents -> [key : Uploads \cup {None}, deleted : BOOLEAN]]
    /\ document \in [current : Contents \cup {None}, active : Contents \cup {None},
                     cited : SUBSET Contents]
    /\ job \in [Contents -> {"none", "open", "ended"}]
    /\ item \in [Items -> Item]
    /\ worker \in [Workers -> Worker]
    /\ deleter \in [phase : {"idle", "prepared", "deleting", "completing"},
                    content : Contents \cup {None}]
    /\ candidate \in Uploads \cup {None}
    /\ failures \in 0..MaxFailures

Init ==
    /\ upload = [u \in Uploads |-> [phase |-> "new", content |-> None, unsettled |-> FALSE]]
    /\ stored = {} /\ aged = {}
    /\ source = [c \in Contents |-> [key |-> None, deleted |-> FALSE]]
    /\ document = [current |-> None, active |-> None, cited |-> {}]
    /\ job = [c \in Contents |-> "none"]
    /\ item = [i \in Items |-> NoItem]
    /\ worker = [w \in Workers |-> IdleWorker]
    /\ deleter = IdleDeleter
    /\ candidate = None
    /\ failures = 0

----------------------------------------------------------------------------
\* Mutant of Referenced: only the source of the current version counts.
Referenced_current(k) ==
    document.current # None /\ source[document.current] = [key |-> k, deleted |-> FALSE]

\* A live source row has the key.
Referenced(k) == \E c \in Contents : source[c].key = k /\ ~source[c].deleted

\* The diagnostic window of a failed upload is open.
InWindow(k) == item[<<k, "failed_upload_diagnostic">>].window

\* An item is made once: a second enqueue of the same identity returns the first.
Enqueued(work, i) ==
    IF work[i].state # "none" THEN work
    ELSE [work EXCEPT ![i] = [NoItem EXCEPT
              !.state = "queued", !.window = (i[2] = "failed_upload_diagnostic")]]

\* A process dies or a call fails.
Failure == failures < MaxFailures /\ failures' = failures + 1

----------------------------------------------------------------------------
\* Submissions.

Store(u, c) ==
    /\ upload[u].phase = "new"
    /\ upload' = [upload EXCEPT ![u] = [phase |-> "stored", content |-> c, unsettled |-> FALSE]]
    /\ stored' = stored \cup {u}
    /\ UNCHANGED <<aged, database, worker, deleter, candidate, failures>>

\* The transaction of _commit_pdf_submission: a version is known by its content, has one source
\* row for good, and becomes the current one.
Submitted(u) ==
    LET c == upload[u].content IN
    /\ source' = IF source[c].key = None THEN [source EXCEPT ![c].key = u] ELSE source
    /\ document' = [document EXCEPT !.current = c]
    /\ job' = IF job[c] = "none" THEN [job EXCEPT ![c] = "open"] ELSE job

Commit(u) ==
    /\ upload[u].phase = "stored"
    /\ Submitted(u)
    /\ upload' = [upload EXCEPT ![u].phase =
           IF source'[upload[u].content].key = u THEN "ended" ELSE "duplicate"]
    /\ UNCHANGED <<stored, aged, item, worker, deleter, candidate, failures>>

\* The file that was not needed is left to the clean-up.
ScheduleCleanup(u) ==
    /\ upload[u].phase = "duplicate"
    /\ item' = Enqueued(item, <<u, "staging">>)
    /\ upload' = [upload EXCEPT ![u].phase = "ended"]
    /\ UNCHANGED <<stored, aged, source, document, job, worker, deleter, candidate,
                   failures>>

\* The call fails: its transaction is rolled back, or the answer is lost and the transaction
\* may yet commit.
CommitFails(u) ==
    /\ upload[u].phase = "stored"
    /\ Failure
    /\ \E unsettled \in BOOLEAN :
           upload' = [upload EXCEPT ![u].phase = "refused", ![u].unsettled = unsettled]
    /\ UNCHANGED <<stored, aged, database, worker, deleter, candidate>>

Settle(u) ==
    /\ upload[u].unsettled
    /\ upload' = [upload EXCEPT ![u].unsettled = FALSE]
    /\ Submitted(u) \/ UNCHANGED <<source, document, job>>
    /\ UNCHANGED <<stored, aged, item, worker, deleter, candidate, failures>>

\* A failed upload is a diagnostic only if no row refers to it.
CheckReference(u) ==
    /\ upload[u].phase = "refused"
    /\ upload' = [upload EXCEPT ![u].phase = IF Referenced(u) THEN "ended" ELSE "unreferenced"]
    /\ UNCHANGED <<stored, aged, database, worker, deleter, candidate, failures>>

Classify(u) ==
    /\ upload[u].phase = "unreferenced"
    /\ item' = Enqueued(item, <<u, "failed_upload_diagnostic">>)
    /\ upload' = [upload EXCEPT ![u].phase = "ended"]
    /\ UNCHANGED <<stored, aged, source, document, job, worker, deleter, candidate,
                   failures>>

\* The process dies, or cannot enqueue what is left to do: errors of that are suppressed.
UploadDies(u) ==
    /\ upload[u].phase \notin {"new", "ended"}
    /\ Failure
    /\ upload' = [upload EXCEPT ![u].phase = "ended"]
    /\ UNCHANGED <<stored, aged, database, worker, deleter, candidate>>

----------------------------------------------------------------------------
\* Jobs and questions, as far as they touch the source rows.

\* A job succeeds for the current version, or ends otherwise; the same transaction enqueues the
\* clean-up, and raises when the source row is gone.
FinishJob(c) ==
    /\ job[c] = "open"
    /\ ~source[c].deleted
    /\ job' = [job EXCEPT ![c] = "ended"]
    /\ item' = Enqueued(item, <<source[c].key, "terminal_cleanup">>)
    /\ \/ document.current = c /\ document' = [document EXCEPT !.active = c]
       \/ UNCHANGED document
    /\ UNCHANGED <<upload, stored, aged, source, worker, deleter, candidate, failures>>

\* A question is answered from the active version, and its trace cites it.
Cite ==
    /\ document.active # None
    /\ document' = [document EXCEPT !.cited = @ \cup {document.active}]
    /\ UNCHANGED <<upload, stored, aged, source, job, item, worker, deleter, candidate, failures>>

----------------------------------------------------------------------------
\* Time.

Age(k) ==
    /\ k \in stored \ aged
    /\ SlowUploads \/ (upload[k].phase = "ended" /\ ~upload[k].unsettled)
    /\ aged' = aged \cup {k}
    /\ UNCHANGED <<upload, stored, database, worker, deleter, candidate, failures>>

Lapse(i) ==
    /\ item[i].leased
    /\ item' = [item EXCEPT ![i].leased = FALSE]
    /\ UNCHANGED <<upload, stored, aged, source, document, job, worker, deleter, candidate,
                   failures>>

\* No transaction is open for the 24 hours of a window.
CloseWindow(i) ==
    /\ item[i].window
    /\ ~upload[i[1]].unsettled
    /\ item' = [item EXCEPT ![i].window = FALSE]
    /\ UNCHANGED <<upload, stored, aged, source, document, job, worker, deleter, candidate,
                   failures>>

----------------------------------------------------------------------------
\* The reconciler compares an inventory, which was taken at some time before, with the rows.

\* is_authoritatively_retained
Retained(k) ==
    \/ Referenced(k)
    \/ \E class \in Classes : item[<<k, class>>].state \notin {"none"} \cup Terminal
    \/ InWindow(k)

\* A file that was old when the inventory was taken.
CheckOrphan(k) ==
    /\ k \in aged
    /\ candidate = None
    /\ ~Retained(k)
    /\ candidate' = k
    /\ UNCHANGED <<upload, stored, aged, database, worker, deleter, failures>>

EnqueueOrphan ==
    /\ candidate # None
    /\ item' = Enqueued(item, <<candidate, "orphan">>)
    /\ candidate' = None
    /\ UNCHANGED <<upload, stored, aged, source, document, job, worker, deleter, failures>>

\* A row whose file is missing is reported, as an item that never deletes.
Report(k) ==
    /\ Referenced(k) /\ k \notin stored
    /\ item' = Enqueued(item, <<k, "orphan_report">>)
    /\ UNCHANGED <<upload, stored, aged, source, document, job, worker, deleter, candidate,
                   failures>>

----------------------------------------------------------------------------
\* The lifecycle worker.

To(w, phase) == [worker EXCEPT ![w].phase = phase]
Rest(w) == [worker EXCEPT ![w] = IdleWorker]

\* Mutant of Eligible: the window is not asked for.
Eligible_always(work, i) == TRUE

Eligible(work, i) == ~work[i].window

\* _recover_expired_lifecycle
Recovered(work) ==
    [i \in Items |->
        IF work[i].state = "processing" /\ ~work[i].leased
        THEN [work[i] EXCEPT !.state =
                  IF work[i].attempts >= MaxAttempts THEN "failed" ELSE "retry_scheduled"]
        ELSE work[i]]

\* The items a claim chooses from.
Due(work) ==
    {i \in Items : /\ work[i].state \in {"queued", "retry_scheduled"}
                   /\ work[i].attempts < MaxAttempts
                   /\ Eligible(work, i)}

\* Lapsed leases are recovered first, whether or not an item is due.
Claim(w) ==
    LET work == Recovered(item) IN
    /\ worker[w].phase = "idle"
    /\ \/ \E i \in Due(work) :
              /\ item' = [work EXCEPT ![i].state = "processing", ![i].leased = TRUE,
                                      ![i].attempts = @ + 1]
              /\ worker' = [worker EXCEPT ![w] =
                     [phase |-> "claimed", item |-> i, attempt |-> work[i].attempts + 1,
                      generation |-> work[i].generation]]
       \/ Due(work) = {} /\ work # item /\ item' = work /\ UNCHANGED worker
    /\ UNCHANGED <<upload, stored, aged, source, document, job, deleter, candidate,
                   failures>>

Owns(w) ==
    LET i == worker[w].item IN
    item[i].state = "processing" /\ item[i].leased /\ item[i].attempts = worker[w].attempt

\* Mutant of Head: an error of the store is taken for a missing file.
Head_anyError(w) ==
    /\ worker[w].phase = "claimed" /\ worker[w].generation # 0
    /\ \/ worker' = To(w, IF worker[w].item[1] \in stored THEN "present" ELSE "gone")
          /\ UNCHANGED failures
       \/ Failure /\ worker' = To(w, "gone")
    /\ UNCHANGED <<upload, stored, aged, database, deleter, candidate>>

\* After an earlier attempt prepared a deletion, the store is asked whether it took place.
Head(w) ==
    /\ worker[w].phase = "claimed" /\ worker[w].generation # 0
    /\ \/ worker' = To(w, IF worker[w].item[1] \in stored THEN "present" ELSE "gone")
          /\ UNCHANGED failures
       \/ Failure /\ worker' = To(w, "failing")
    /\ UNCHANGED <<upload, stored, aged, database, deleter, candidate>>

\* Another window is open: the worker leaves the item to the end of its lease.
OtherWindow(i) == i[2] # "failed_upload_diagnostic" /\ InWindow(i[1])

PrepareDelete(w) ==
    LET i == worker[w].item IN
    /\ \/ worker[w].phase \in {"present", "gone"}
       \/ worker[w].phase = "claimed" /\ worker[w].generation = 0
    /\ IF Owns(w) /\ i[2] # "orphan_report" /\ ~Referenced(i[1])
       THEN IF ~Eligible(item, i) \/ OtherWindow(i)
            THEN worker' = Rest(w) /\ UNCHANGED item
            ELSE /\ item' = [item EXCEPT ![i].generation = worker[w].attempt]
                 /\ worker' = [worker EXCEPT ![w].generation = worker[w].attempt, ![w].phase =
                        IF @ = "gone" THEN "completing" ELSE "prepared"]
       ELSE worker' = To(w, "suppressing") /\ UNCHANGED item
    /\ UNCHANGED <<upload, stored, aged, source, document, job, deleter, candidate,
                   failures>>

Authorized(w) == Owns(w) /\ item[worker[w].item].generation = worker[w].generation

RevalidateDelete(w) ==
    LET i == worker[w].item IN
    /\ worker[w].phase = "prepared"
    /\ worker' = IF ~Authorized(w) \/ Referenced(i[1]) THEN To(w, "suppressing")
                 ELSE IF ~Eligible(item, i) \/ OtherWindow(i) THEN Rest(w)
                 ELSE To(w, "deleting")
    /\ UNCHANGED <<upload, stored, aged, database, deleter, candidate, failures>>

\* The store deletes, or fails, perhaps after it deleted.
Delete(w) ==
    /\ worker[w].phase = "deleting"
    /\ \/ worker' = To(w, "completing") /\ stored' = stored \ {worker[w].item[1]}
          /\ UNCHANGED failures
       \/ Failure /\ worker' = To(w, "failing")
          /\ stored' \in {stored, stored \ {worker[w].item[1]}}
    /\ UNCHANGED <<upload, aged, database, deleter, candidate>>

Complete(w) ==
    LET i == worker[w].item IN
    /\ worker[w].phase = "completing"
    /\ IF Authorized(w) /\ ~Referenced(i[1])
       THEN /\ item' = [item EXCEPT ![i].state = "succeeded", ![i].leased = FALSE,
                                    ![i].outcome = "deleted"]
            /\ worker' = Rest(w)
       ELSE worker' = To(w, "suppressing") /\ UNCHANGED item
    /\ UNCHANGED <<upload, stored, aged, source, document, job, deleter, candidate,
                   failures>>

Suppress(w) ==
    LET i == worker[w].item IN
    /\ worker[w].phase = "suppressing"
    /\ item' = IF Owns(w)
               THEN [item EXCEPT ![i].state = "succeeded", ![i].leased = FALSE,
                                 ![i].generation = 0, ![i].outcome = "suppressed"]
               ELSE item
    /\ worker' = Rest(w)
    /\ UNCHANGED <<upload, stored, aged, source, document, job, deleter, candidate,
                   failures>>

Fail(w) ==
    LET i == worker[w].item IN
    /\ worker[w].phase = "failing"
    /\ item' = IF Owns(w)
               THEN [item EXCEPT ![i].leased = FALSE, ![i].state =
                        IF worker[w].attempt < MaxAttempts THEN "retry_scheduled" ELSE "failed"]
               ELSE item
    /\ worker' = Rest(w)
    /\ UNCHANGED <<upload, stored, aged, source, document, job, deleter, candidate,
                   failures>>

WorkerDies(w) ==
    /\ worker[w].phase # "idle"
    /\ Failure
    /\ worker' = Rest(w)
    /\ UNCHANGED <<upload, stored, aged, database, deleter, candidate>>

----------------------------------------------------------------------------
\* hard_delete_original_source

\* Mutant of HardDeleteable: the active version is not asked for.
HardDeleteable_activeToo(c) ==
    /\ source[c].key # None /\ ~source[c].deleted
    /\ document.current # c
    /\ c \notin document.cited

\* _assert_original_source_hard_deleteable
HardDeleteable(c) ==
    /\ source[c].key # None /\ ~source[c].deleted
    /\ document.current # c /\ document.active # c
    /\ c \notin document.cited

PrepareHardDelete(c) ==
    /\ deleter.phase = "idle"
    /\ HardDeleteable(c)
    /\ deleter' = [phase |-> "prepared", content |-> c]
    /\ UNCHANGED <<upload, stored, aged, database, worker, candidate, failures>>

RevalidateHardDelete ==
    /\ deleter.phase = "prepared"
    /\ deleter' = IF HardDeleteable(deleter.content) THEN [deleter EXCEPT !.phase = "deleting"]
                  ELSE IdleDeleter
    /\ UNCHANGED <<upload, stored, aged, database, worker, candidate, failures>>

HardDelete ==
    /\ deleter.phase = "deleting"
    /\ deleter' = [deleter EXCEPT !.phase = "completing"]
    /\ stored' = stored \ {source[deleter.content].key}
    /\ UNCHANGED <<upload, aged, database, worker, candidate, failures>>

CompleteHardDelete ==
    /\ deleter.phase = "completing"
    /\ source' = IF HardDeleteable(deleter.content)
                 THEN [source EXCEPT ![deleter.content].deleted = TRUE] ELSE source
    /\ deleter' = IdleDeleter
    /\ UNCHANGED <<upload, stored, aged, document, job, item, worker, candidate, failures>>

\* The caller dies, or the store fails before or after it deleted.
DeleterDies ==
    /\ deleter.phase # "idle"
    /\ Failure
    /\ deleter' = IdleDeleter
    /\ UNCHANGED <<upload, stored, aged, database, worker, candidate>>

----------------------------------------------------------------------------
UploadStep(u) ==
    \/ \E c \in Contents : Store(u, c)
    \/ Commit(u) \/ ScheduleCleanup(u) \/ CommitFails(u) \/ Settle(u)
    \/ CheckReference(u) \/ Classify(u) \/ UploadDies(u)

Run(w) == Claim(w) \/ Head(w) \/ PrepareDelete(w) \/ RevalidateDelete(w) \/ Delete(w)
          \/ Complete(w) \/ Suppress(w) \/ Fail(w)

Reconcile == (\E k \in Uploads : CheckOrphan(k) \/ Report(k)) \/ EnqueueOrphan

HardDeletion ==
    \/ \E c \in Contents : PrepareHardDelete(c)
    \/ RevalidateHardDelete \/ HardDelete \/ CompleteHardDelete \/ DeleterDies

Next ==
    \/ \E u \in Uploads : UploadStep(u) \/ Age(u)
    \/ \E c \in Contents : FinishJob(c)
    \/ Cite
    \/ \E i \in Items : Lapse(i) \/ CloseWindow(i)
    \/ Reconcile
    \/ \E w \in Workers : Run(w) \/ WorkerDies(w)
    \/ HardDeletion

Spec == Init /\ [][Next]_vars

----------------------------------------------------------------------------
\* A worker that is about to delete holds a key no live row refers to: nothing is attached in
\* the gap after the second check (ADR 0006).
OnlyUnownedDeleted ==
    \A w \in Workers : worker[w].phase = "deleting" =>
        \A c \in Contents : source[c].key = worker[w].item[1] => source[c].deleted

\* The file of a failed upload, one that never got a source row, is there as long as its
\* diagnostic window is open, whatever other items and the reconciler make of it.
DiagnosticsKept ==
    \A k \in Uploads : InWindow(k) /\ (\A c \in Contents : source[c].key # k) => k \in stored

\* What an item says became of the file is true: deleted, it is gone; suppressed, only a hard
\* deletion may have taken it.
OutcomeIsTrue ==
    \A i \in Items :
        /\ item[i].outcome = "deleted" => i[1] \notin stored
        /\ item[i].outcome = "suppressed" /\ i[1] \notin stored =>
               \E c \in Contents : source[c].key = i[1]

\* The version that answers are served from keeps its source row: no job revives a version
\* whose source was deleted, and no deletion takes that of a version being activated.
ServedKeepsSource == document.active # None => ~source[document.active].deleted

\* The transaction that ends a job finds its source row (the assertion of
\* enqueue_terminal_cleanup_in_transaction).
OpenJobHasSource == \A c \in Contents : job[c] = "open" => ~source[c].deleted

\* The current version has its source (docs/standards/architecture.md: hard deletion is
\* forbidden while a pointer references a version).
CurrentHasSource == document.current # None => ~source[document.current].deleted
=============================================================================
