----------------------- MODULE ObjectLifecycle_proofs -----------------------
(***************************************************************************)
(* Proofs about ObjectLifecycle for any number of submissions, contents    *)
(* and workers, and any budgets of attempts and failures.                  *)
(*                                                                         *)
(* The argument is about keys.  The submission of a key commits once; when *)
(* it is over, nothing attaches the key any more, so a key that no live    *)
(* row has then stays without one while a worker deletes it.  An item is   *)
(* made of a key whose submission is over, or keeps its window until it    *)
(* is.  An attempt that has lost its lease never gets it back.             *)
(***************************************************************************)
EXTENDS ObjectLifecycle, TLAPS

Types ==
    /\ upload \in [Uploads -> Upload]
    /\ stored \subseteq Uploads /\ aged \subseteq Uploads
    /\ source \in [Contents -> [key : Uploads \cup {None}, deleted : BOOLEAN]]
    /\ document \in [current : Contents \cup {None}, active : Contents \cup {None},
                     cited : SUBSET Contents]
    /\ job \in [Contents -> {"none", "open", "ended"}]
    /\ item \in [Items -> Item]
    /\ worker \in [Workers -> Worker]
    /\ deleter \in [phase : {"idle", "prepared", "deleting", "completing"},
                    content : Contents \cup {None}]
    /\ candidate \in Uploads \cup {None}

\* A source row has the key, live or deleted.
Attached(k) == \E c \in Contents : source[c].key = k

\* The submission of k commits no more.
Over(k) == upload[k].phase \notin {"new", "stored"} /\ ~upload[k].unsettled

\* Nothing will be done with k but by the clean-up.
Settled(k) == upload[k].phase = "ended" /\ ~upload[k].unsettled

\* The file of k may be missed: it had a row, or nobody diagnoses its upload.
Dispensable(k) == Attached(k) \/ (upload[k].phase = "ended" /\ ~InWindow(k))

KeyOK(k) ==
    /\ upload[k].unsettled => upload[k].phase \in {"refused", "unreferenced", "ended"}
    /\ Attached(k) => Over(k)
    /\ upload[k].phase \in {"stored", "duplicate", "refused", "unreferenced"} =>
           upload[k].content \in Contents
    /\ upload[k].unsettled => upload[k].content \in Contents
    /\ k \in stored \/ k \in aged \/ k = candidate => upload[k].phase # "new"
    /\ k \in aged \/ k = candidate => SlowUploads \/ Settled(k)
    /\ upload[k].phase # "new" /\ k \notin stored => SlowUploads \/ Dispensable(k)

ContentOK(c) == job[c] # "none" => source[c].key # None

ItemOK(i) ==
    LET k == i[1] IN
    /\ item[i].state = "none" => item[i].outcome = None /\ ~item[i].window
    /\ item[i].state # "none" =>
           /\ upload[k].phase # "new"
           /\ i[2] = "orphan_report" => Attached(k)
           /\ \/ SlowUploads
              \/ Attached(k)
              \/ upload[k].phase = "ended" /\ (~upload[k].unsettled \/ item[i].window)
    /\ item[i].window => i[2] = "failed_upload_diagnostic"
    /\ item[i].outcome = "deleted" => k \notin stored
    /\ item[i].outcome = "suppressed" => Attached(k)

\* The key of a worker that deletes: no live row has it, and none will.
Free(k) == SlowUploads \/ (Over(k) /\ ~Referenced(k) /\ Dispensable(k))

WorkerOK(w) ==
    LET i == worker[w].item IN
    worker[w].phase # "idle" =>
        /\ i \in Items
        /\ item[i].state # "none"
        /\ worker[w].attempt <= item[i].attempts
        /\ worker[w].phase \in {"prepared", "deleting", "completing"} /\ Owns(w) =>
               item[i].generation = worker[w].generation
        /\ worker[w].phase = "suppressing" /\ Owns(w) => Attached(i[1])
        /\ worker[w].phase \in {"gone", "completing"} => i[1] \notin stored
        /\ worker[w].phase = "deleting" => Free(i[1])

\* An attempt of an item is in one hand.
Distinct(v, w) ==
    worker[v].phase # "idle" /\ worker[w].phase # "idle" /\ worker[v].item = worker[w].item =>
        worker[v].attempt # worker[w].attempt

DeleterOK ==
    deleter.phase # "idle" =>
        deleter.content \in Contents /\ source[deleter.content].key # None

Inv ==
    /\ Types
    /\ \A k \in Uploads : KeyOK(k)
    /\ \A c \in Contents : ContentOK(c)
    /\ \A i \in Items : ItemOK(i)
    /\ \A w \in Workers : WorkerOK(w)
    /\ \A v, w \in Workers : v # w => Distinct(v, w)
    /\ DeleterOK
    /\ ServedKeepsSource

----------------------------------------------------------------------------
LEMMA InitInv == Init => Inv
<1> SUFFICES ASSUME Init PROVE Inv
  OBVIOUS
<1> USE DEF Init
<1>1. Types
  <2>1. upload \in [Uploads -> Upload]
    BY DEF Upload
  <2>2. item \in [Items -> Item]
    BY AttemptsAssumption DEF NoItem, Item
  <2>3. worker \in [Workers -> Worker]
    BY AttemptsAssumption DEF IdleWorker, Worker
  <2> QED
    BY <2>1, <2>2, <2>3 DEF Types, IdleDeleter
<1>2. ASSUME NEW k \in Uploads PROVE KeyOK(k)
  BY NoneAssumption DEF KeyOK, Attached
<1>3. ASSUME NEW i \in Items PROVE ItemOK(i)
  BY NoneAssumption DEF ItemOK, NoItem
<1>4. ASSUME NEW w \in Workers PROVE worker[w].phase = "idle"
  BY DEF IdleWorker
<1> QED
  <2>1. \A c \in Contents : ContentOK(c)
    BY DEF ContentOK
  <2>2. DeleterOK /\ ServedKeepsSource
    BY DEF DeleterOK, IdleDeleter, ServedKeepsSource
  <2>3. \A w \in Workers : WorkerOK(w)
    BY <1>4 DEF WorkerOK
  <2>4. \A v, w \in Workers : v # w => Distinct(v, w)
    BY <1>4 DEF Distinct
  <2> QED
    BY <1>1, <1>2, <1>3, <2>1, <2>2, <2>3, <2>4 DEF Inv

----------------------------------------------------------------------------
\* What no step takes back.
Grows ==
    \A k \in Uploads :
        /\ Attached(k) => Attached(k)'
        /\ upload[k].phase # "new" => upload'[k].phase # "new"
        /\ Over(k) => Over(k)'
        /\ Over(k) /\ ~Referenced(k) => ~Referenced(k)'
        /\ upload[k].phase = "ended" => upload'[k].phase = "ended"
        /\ Settled(k) => Settled(k)'
        /\ upload[k].phase # "new" /\ k \notin stored => k \notin stored'
        /\ upload[k].phase = "ended" /\ ~InWindow(k) => ~InWindow(k)'

\* An item stays as it is, but for its lease and its attempts.
SameItem(i) ==
    /\ item'[i].state = "none" <=> item[i].state = "none"
    /\ item'[i].window = item[i].window
    /\ item'[i].outcome = item[i].outcome

\* A lease that is lost is taken again under another attempt only.
Moves(i) ==
    item[i].state # "none" =>
        /\ item'[i].state # "none"
        /\ item'[i].attempts >= item[i].attempts
        /\ item'[i].attempts = item[i].attempts =>
               (item'[i].state = "processing" /\ item'[i].leased =>
                    item[i].state = "processing" /\ item[i].leased)

LEMMA ItemCarried ==
    ASSUME Inv, Grows, NEW i \in Items, SameItem(i)
    PROVE  ItemOK(i)'
<1>1. i[1] \in Uploads /\ ItemOK(i)
  BY DEF Items, Inv
<1> QED
  BY <1>1, NoneAssumption DEF Grows, SameItem, ItemOK, Settled

LEMMA WorkerCarried ==
    ASSUME Inv, Types', Grows, \A i \in Items : Moves(i),
           NEW v \in Workers, worker'[v] = worker[v],
           worker[v].phase # "idle" /\ Owns(v) =>
               item'[worker[v].item].generation = item[worker[v].item].generation
    PROVE  WorkerOK(v)'
<1> SUFFICES ASSUME worker[v].phase # "idle"
             PROVE  WorkerOK(v)'
  BY DEF WorkerOK
<1> DEFINE i == worker[v].item
<1>1. /\ WorkerOK(v) /\ i \in Items /\ i[1] \in Uploads /\ item[i].state # "none"
      /\ worker[v].attempt \in Nat /\ item[i].attempts \in Nat /\ item'[i].attempts \in Nat
  BY AttemptsAssumption DEF Inv, WorkerOK, Items, Types, Worker, Item
<1>2. Moves(i)
  BY <1>1
<1>3. Owns(v)' => Owns(v) /\ item'[i].attempts = item[i].attempts
  BY <1>1, <1>2 DEF Owns, Moves, WorkerOK
<1>4. Free(i[1]) => Free(i[1])'
  BY <1>1 DEF Free, Dispensable, Grows
<1>5. upload[i[1]].phase # "new"
  BY <1>1 DEF Inv, ItemOK
<1> QED
  BY <1>1, <1>2, <1>3, <1>4, <1>5 DEF WorkerOK, Moves, Grows

\* The workers are left alone.
LEMMA WorkersCarried ==
    ASSUME Inv, Types', Grows, \A i \in Items : Moves(i), worker' = worker,
           \A i \in Items : item[i].state # "none" => item'[i].generation = item[i].generation
    PROVE  /\ \A w \in Workers : WorkerOK(w)'
           /\ \A v, w \in Workers : v # w => Distinct(v, w)'
<1>1. ASSUME NEW w \in Workers PROVE WorkerOK(w)'
  <2>1. worker[w].phase # "idle" => worker[w].item \in Items /\ item[worker[w].item].state # "none"
    BY DEF Inv, WorkerOK
  <2> QED
    BY <2>1, WorkerCarried
<1>2. \A v, w \in Workers : v # w => Distinct(v, w)'
  BY DEF Inv, Distinct
<1> QED
  BY <1>1, <1>2

----------------------------------------------------------------------------
\* Submissions.

\* A submission that has stored its file goes on.
Resubmitted(u) ==
    /\ upload' \in [Uploads -> Upload]
    /\ \A k \in Uploads : k # u => upload'[k] = upload[k]
    /\ upload'[u].content = upload[u].content
    /\ upload'[u].phase \in {"duplicate", "refused", "unreferenced", "ended"}
    /\ upload[u].phase = "ended" => upload'[u].phase = "ended"

\* It goes on without a commit.
LEMMA UploadInv ==
    ASSUME Inv, NEW u \in Uploads, Resubmitted(u), upload[u].phase # "new",
           upload'[u].phase # "duplicate", upload'[u].unsettled => ~Over(u),
           UNCHANGED <<stored, aged, database, worker, deleter, candidate>>
    PROVE  Inv'
<1> USE DEF database
<1> DEFINE r == upload'[u]
<1>1. /\ upload \in [Uploads -> Upload] /\ KeyOK(u)
      /\ r.content = upload[u].content /\ (upload[u].phase = "ended" => r.phase = "ended")
      /\ r.phase \in {"refused", "unreferenced", "ended"} /\ (r.unsettled => ~Over(u))
  BY DEF Inv, Types, Resubmitted
<1>2. /\ upload' \in [Uploads -> Upload]
      /\ \A k \in Uploads : k # u => upload'[k] = upload[k]
  BY DEF Resubmitted
<1>3. Types'
  BY <1>2 DEF Inv, Types
<1>4. r.content \in Contents \/ r.phase = "ended"
  BY <1>1 DEF KeyOK, Inv, Types, Upload
<1>5. Grows
  BY <1>1, <1>2 DEF Grows, Attached, Over, Referenced, Settled, InWindow
<1>6. ASSUME NEW k \in Uploads PROVE KeyOK(k)'
  BY <1>1, <1>2, <1>4, <1>5 DEF Inv, KeyOK, Attached, Over, Settled, Dispensable, InWindow
<1>7. ASSUME NEW i \in Items PROVE ItemOK(i)' /\ Moves(i)
  BY <1>5, ItemCarried DEF SameItem, Moves, Inv, Types, Item
<1>8. /\ \A w \in Workers : WorkerOK(w)'
      /\ \A v, w \in Workers : v # w => Distinct(v, w)'
  BY <1>3, <1>5, <1>7, WorkersCarried
<1> QED
  BY <1>3, <1>6, <1>7, <1>8 DEF Inv, ContentOK, DeleterOK, ServedKeepsSource

\* It commits, in time or late.
LEMMA SubmittedInv ==
    ASSUME Inv, NEW u \in Uploads, Resubmitted(u), Submitted(u),
           upload[u].phase = "stored" \/ upload[u].unsettled, ~upload'[u].unsettled,
           UNCHANGED <<stored, aged, item, worker, deleter, candidate>>
    PROVE  Inv'
<1> DEFINE c == upload[u].content
<1>1. /\ upload \in [Uploads -> Upload] /\ KeyOK(u) /\ c \in Contents
      /\ upload[u].phase # "new" /\ ~Over(u)
  BY DEF Inv, Types, KeyOK, Over
<1>2. /\ upload' \in [Uploads -> Upload]
      /\ \A k \in Uploads : k # u => upload'[k] = upload[k]
      /\ upload'[u].content = c /\ ~upload'[u].unsettled
      /\ upload'[u].phase \in {"duplicate", "refused", "unreferenced", "ended"}
      /\ upload[u].phase = "ended" => upload'[u].phase = "ended"
  BY DEF Resubmitted
<1>3. /\ source' \in [Contents -> [key : Uploads \cup {None}, deleted : BOOLEAN]]
      /\ \A d \in Contents : /\ source'[d].deleted = source[d].deleted
                             /\ source[d].key # None => source'[d].key = source[d].key
                             /\ source[d].key = None =>
                                    source'[d].key \in {None, u}
      /\ source'[c].key # None
  <2>1. source \in [Contents -> [key : Uploads \cup {None}, deleted : BOOLEAN]]
    BY DEF Inv, Types
  <2>2. CASE source[c].key = None
    BY <2>1, <2>2, <1>1, NoneAssumption DEF Submitted
  <2>3. CASE source[c].key # None
    BY <2>1, <2>3, <1>1 DEF Submitted
  <2> QED
    BY <2>2, <2>3
<1>4. /\ job' \in [Contents -> {"none", "open", "ended"}]
      /\ \A d \in Contents : d # c => job'[d] = job[d]
  BY <1>1 DEF Submitted, Inv, Types
<1>5. /\ document' \in [current : Contents \cup {None}, active : Contents \cup {None},
                        cited : SUBSET Contents]
      /\ document'.active = document.active
  BY <1>1 DEF Submitted, Inv, Types
<1>6. Types'
  BY <1>2, <1>3, <1>4, <1>5 DEF Inv, Types
<1>7. Grows
  <2> SUFFICES ASSUME NEW k \in Uploads
               PROVE  /\ Attached(k) => Attached(k)'
                      /\ upload[k].phase # "new" => upload'[k].phase # "new"
                      /\ Over(k) => Over(k)'
                      /\ Over(k) /\ ~Referenced(k) => ~Referenced(k)'
                      /\ upload[k].phase = "ended" => upload'[k].phase = "ended"
                      /\ Settled(k) => Settled(k)'
                      /\ InWindow(k)' = InWindow(k)
    BY DEF Grows
  <2>1. Attached(k) => Attached(k)'
    BY <1>3, NoneAssumption DEF Attached
  <2>2. k # u => (Referenced(k)' => Referenced(k))
    BY <1>3, NoneAssumption DEF Referenced
  <2> QED
    BY <1>1, <1>2, <2>1, <2>2 DEF Over, Settled, InWindow
<1>8. ASSUME NEW k \in Uploads PROVE KeyOK(k)'
  <2>1. k # u => (Attached(k)' => Attached(k))
    BY <1>3, NoneAssumption DEF Attached
  <2> QED
    BY <1>1, <1>2, <1>7, <2>1 DEF Inv, KeyOK, Over, Settled, Dispensable, InWindow, Grows
<1>9. ASSUME NEW i \in Items PROVE ItemOK(i)' /\ Moves(i)
  BY <1>7, ItemCarried DEF SameItem, Moves, Inv, Types, Item
<1>10. /\ \A w \in Workers : WorkerOK(w)'
       /\ \A v, w \in Workers : v # w => Distinct(v, w)'
  BY <1>6, <1>7, <1>9, WorkersCarried
<1>11. \A d \in Contents : ContentOK(d)'
  BY <1>3, <1>4 DEF Inv, ContentOK
<1>12. DeleterOK'
  BY <1>3 DEF Inv, DeleterOK
<1>13. ServedKeepsSource'
  BY <1>3, <1>5 DEF Inv, Types, ServedKeepsSource
<1> QED
  BY <1>6, <1>8, <1>9, <1>10, <1>11, <1>12, <1>13 DEF Inv

LEMMA StoreInv ==
    ASSUME Inv, NEW u \in Uploads, NEW c \in Contents, Store(u, c)
    PROVE  Inv'
<1> DEFINE r == [phase |-> "stored", content |-> c, unsettled |-> FALSE]
<1> USE DEF database
<1>1. /\ upload \in [Uploads -> Upload] /\ upload' \in [Uploads -> Upload] /\ upload'[u] = r
      /\ \A k \in Uploads : k # u => upload'[k] = upload[k]
      /\ upload[u].phase = "new" /\ ~Over(u) /\ ~Attached(u)
      /\ stored' = stored \cup {u}
  BY DEF Inv, Types, KeyOK, Over, Store, Upload
<1>2. UNCHANGED <<aged, source, document, job, item, worker, deleter, candidate>>
  BY DEF Store
<1>3. Types'
  BY <1>1, <1>2 DEF Inv, Types
<1>4. Grows
  BY <1>1, <1>2 DEF Grows, Attached, Over, Referenced, Settled, InWindow
<1>5. ASSUME NEW k \in Uploads PROVE KeyOK(k)'
  BY <1>1, <1>2, <1>4 DEF Inv, KeyOK, Attached, Over, Settled, Dispensable, InWindow
<1>6. ASSUME NEW i \in Items PROVE ItemOK(i)' /\ Moves(i)
  BY <1>2, <1>4, ItemCarried DEF SameItem, Moves, Inv, Types, Item
<1>7. /\ \A w \in Workers : WorkerOK(w)'
      /\ \A v, w \in Workers : v # w => Distinct(v, w)'
  BY <1>2, <1>3, <1>4, <1>6, WorkersCarried
<1> QED
  BY <1>2, <1>3, <1>5, <1>6, <1>7 DEF Inv, ContentOK, DeleterOK, ServedKeepsSource

\* What the steps of a submission are of the lemmas above.
LEMMA SubmissionInv ==
    ASSUME Inv, NEW u \in Uploads,
           Commit(u) \/ CommitFails(u) \/ Settle(u) \/ CheckReference(u) \/ UploadDies(u)
    PROVE  Inv'
<1>1. /\ upload \in [Uploads -> Upload] /\ upload[u] \in Upload /\ KeyOK(u)
  BY DEF Inv, Types
<1>2. ASSUME Commit(u) PROVE Inv'
  <2> DEFINE p == IF source'[upload[u].content].key = u THEN "ended" ELSE "duplicate"
  <2>1. p \in {"duplicate", "ended"}
    OBVIOUS
  <2>2. upload[u].phase = "stored" /\ ~upload[u].unsettled
    BY <1>1, <1>2 DEF Commit, KeyOK
  <2>3. upload' = [upload EXCEPT ![u].phase = p]
    BY <1>2 DEF Commit
  <2> HIDE DEF p
  <2>4. Resubmitted(u) /\ ~upload'[u].unsettled
    BY <1>1, <2>1, <2>2, <2>3 DEF Upload, Resubmitted
  <2>5. Submitted(u) /\ UNCHANGED <<stored, aged, item, worker, deleter, candidate>>
    BY <1>2 DEF Commit
  <2> QED
    BY <2>2, <2>4, <2>5, SubmittedInv
<1>3. ASSUME CommitFails(u) PROVE Inv'
  <2>1. PICK b \in BOOLEAN :
            upload' = [upload EXCEPT ![u].phase = "refused", ![u].unsettled = b]
    BY <1>3 DEF CommitFails
  <2>2. upload[u].phase = "stored" /\ ~Over(u)
    BY <1>3 DEF CommitFails, Over
  <2>3. Resubmitted(u) /\ upload'[u].phase = "refused"
    BY <1>1, <2>1, <2>2 DEF Upload, Resubmitted
  <2>4. UNCHANGED <<stored, aged, database, worker, deleter, candidate>>
    BY <1>3 DEF CommitFails
  <2> QED
    BY <2>2, <2>3, <2>4, UploadInv
<1>4. ASSUME Settle(u) PROVE Inv'
  <2>1. upload' = [upload EXCEPT ![u].unsettled = FALSE] /\ upload[u].unsettled
    BY <1>4 DEF Settle
  <2>2. upload[u].phase \in {"refused", "unreferenced", "ended"}
    BY <1>1, <2>1 DEF KeyOK
  <2>3. /\ Resubmitted(u) /\ ~upload'[u].unsettled /\ upload'[u].phase # "duplicate"
        /\ upload[u].phase # "new"
    BY <1>1, <2>1, <2>2 DEF Upload, Resubmitted
  <2>4. UNCHANGED <<stored, aged, item, worker, deleter, candidate>>
    BY <1>4 DEF Settle
  <2>5. CASE Submitted(u)
    BY <2>1, <2>3, <2>4, <2>5, SubmittedInv
  <2>6. CASE UNCHANGED <<source, document, job>>
    BY <2>3, <2>4, <2>6, UploadInv DEF database
  <2> QED
    BY <1>4, <2>5, <2>6 DEF Settle
<1>5. ASSUME CheckReference(u) \/ UploadDies(u) PROVE Inv'
  <2>1. PICK p \in {"ended", "unreferenced"} :
            /\ upload' = [upload EXCEPT ![u].phase = p]
            /\ upload[u].phase = "ended" => p = "ended"
    <3>1. CASE CheckReference(u)
      BY <3>1 DEF CheckReference
    <3>2. CASE UploadDies(u)
      BY <3>2 DEF UploadDies
    <3> QED
      BY <1>5, <3>1, <3>2
  <2>2. /\ Resubmitted(u) /\ upload'[u].phase # "duplicate"
        /\ upload'[u].unsettled = upload[u].unsettled
    BY <1>1, <2>1 DEF Upload, Resubmitted
  <2>3. upload[u].phase # "new" /\ (upload[u].unsettled => ~Over(u))
    BY <1>5 DEF CheckReference, UploadDies, Over
  <2>4. UNCHANGED <<stored, aged, database, worker, deleter, candidate>>
    BY <1>5 DEF CheckReference, UploadDies
  <2> QED
    BY <2>2, <2>3, <2>4, UploadInv
<1> QED
  BY <1>2, <1>3, <1>4, <1>5

----------------------------------------------------------------------------
\* Items.

\* What an enqueue does to the items.
LEMMA EnqueuedItem ==
    ASSUME item \in [Items -> Item], NEW i \in Items, item' = Enqueued(item, i)
    PROVE  /\ item' \in [Items -> Item]
           /\ \A j \in Items : j # i \/ item[j].state # "none" => item'[j] = item[j]
           /\ item[i].state = "none" =>
                  /\ item'[i].state = "queued" /\ item'[i].outcome = None
                  /\ item'[i].window = (i[2] = "failed_upload_diagnostic")
<1>1. CASE item[i].state # "none"
  BY <1>1 DEF Enqueued
<1>2. CASE item[i].state = "none"
  <2> DEFINE b == (i[2] = "failed_upload_diagnostic")
             q == "queued"
             n == [NoItem EXCEPT !.state = q, !.window = b]
  <2>1. b \in BOOLEAN /\ q \in {"queued"}
    OBVIOUS
  <2>2. NoItem \in Item /\ NoItem.outcome = None
    BY AttemptsAssumption DEF NoItem, Item
  <2>3. item' = [item EXCEPT ![i] = n]
    BY <1>2 DEF Enqueued
  <2> HIDE DEF b, q
  <2>6. n \in Item /\ n.state = q /\ n.outcome = None /\ n.window = b
    BY <2>1, <2>2 DEF Item
  <2> HIDE DEF n
  <2>4. item' \in [Items -> Item] /\ item'[i] = n
    BY <2>3, <2>6
  <2>5. \A j \in Items : j # i => item'[j] = item[j]
    BY <2>3
  <2> QED
    BY <1>2, <2>4, <2>5, <2>6 DEF b, q
<1> QED
  BY <1>1, <1>2

\* An item is made of a key whose file may be missed, or keeps its window until it may.
LEMMA EnqueuedOK ==
    ASSUME Inv, Types', Grows, NEW i \in Items, item' = Enqueued(item, i), worker' = worker,
           upload'[i[1]].phase # "new",
           i[2] = "orphan_report" => Attached(i[1])',
           \/ SlowUploads
           \/ Attached(i[1])'
           \/ /\ upload'[i[1]].phase = "ended"
              /\ ~upload'[i[1]].unsettled \/ i[2] = "failed_upload_diagnostic"
    PROVE  /\ \A j \in Items : ItemOK(j)'
           /\ \A w \in Workers : WorkerOK(w)'
           /\ \A v, w \in Workers : v # w => Distinct(v, w)'
<1>1. /\ \A j \in Items : j # i \/ item[j].state # "none" => item'[j] = item[j]
      /\ item[i].state = "none" =>
             /\ item'[i].state = "queued" /\ item'[i].outcome = None
             /\ item'[i].window = (i[2] = "failed_upload_diagnostic")
  BY EnqueuedItem DEF Inv, Types
<1>2. ASSUME NEW j \in Items PROVE Moves(j)
  BY <1>1 DEF Moves, Inv, Types, Item
<1>3. ASSUME NEW j \in Items PROVE ItemOK(j)'
  <2>1. CASE j # i \/ item[j].state # "none"
    BY <1>1, <2>1, ItemCarried DEF SameItem
  <2>2. CASE j = i /\ item[j].state = "none"
    BY <1>1, <2>2, NoneAssumption DEF ItemOK
  <2> QED
    BY <2>1, <2>2
<1>4. \A j \in Items : item[j].state # "none" => item'[j].generation = item[j].generation
  BY <1>1
<1> QED
  BY <1>2, <1>3, <1>4, WorkersCarried

\* Where uploads and source rows are left alone, an item that is made opens no window but of a
\* diagnostic.
LEMMA EnqueuedGrows ==
    ASSUME Inv, NEW i \in Items, item' = Enqueued(item, i), i[2] # "failed_upload_diagnostic",
           UNCHANGED <<upload, stored, source>>
    PROVE  Grows /\ \A k \in Uploads : InWindow(k)' = InWindow(k)
<1>1. /\ \A j \in Items : j # i \/ item[j].state # "none" => item'[j] = item[j]
  BY EnqueuedItem DEF Inv, Types
<1>2. ASSUME NEW k \in Uploads PROVE InWindow(k)' = InWindow(k)
  <2>1. <<k, "failed_upload_diagnostic">> \in Items /\ <<k, "failed_upload_diagnostic">> # i
    BY DEF Items, Classes
  <2> QED
    BY <1>1, <2>1 DEF InWindow
<1> QED
  BY <1>2 DEF Grows, Attached, Over, Settled, Referenced

LEMMA ScheduleCleanupInv ==
    ASSUME Inv, NEW u \in Uploads, ScheduleCleanup(u)
    PROVE  Inv'
<1> DEFINE i == <<u, "staging">>
<1>1. /\ upload \in [Uploads -> Upload] /\ KeyOK(u) /\ upload[u].phase = "duplicate"
      /\ ~upload[u].unsettled /\ i \in Items /\ i[1] = u /\ i[2] = "staging"
  BY DEF Inv, Types, ScheduleCleanup, Items, Classes, KeyOK
<1>2. /\ upload' \in [Uploads -> Upload] /\ upload'[u].phase = "ended"
      /\ upload'[u].unsettled = upload[u].unsettled /\ upload'[u].content = upload[u].content
      /\ \A k \in Uploads : k # u => upload'[k] = upload[k]
  BY <1>1 DEF ScheduleCleanup, Upload
<1>3. /\ item' = Enqueued(item, i)
      /\ UNCHANGED <<stored, aged, source, document, job, worker, deleter, candidate>>
  BY DEF ScheduleCleanup
<1> HIDE DEF i
<1>4. Types'
  BY <1>1, <1>2, <1>3, EnqueuedItem DEF Inv, Types
<1>5. \A k \in Uploads : InWindow(k)' = InWindow(k)
  <2>1. ASSUME NEW k \in Uploads
        PROVE  <<k, "failed_upload_diagnostic">> \in Items /\ <<k, "failed_upload_diagnostic">> # i
    BY <1>1 DEF Items, Classes
  <2>2. \A j \in Items : j # i => item'[j] = item[j]
    BY <1>1, <1>3, EnqueuedItem DEF Inv, Types
  <2> QED
    BY <2>1, <2>2 DEF InWindow
<1>6. Grows
  BY <1>1, <1>2, <1>3, <1>5 DEF Grows, Attached, Over, Settled, Referenced
<1>7. ASSUME NEW k \in Uploads PROVE KeyOK(k)'
  BY <1>1, <1>2, <1>3, <1>5, <1>6 DEF Inv, KeyOK, Attached, Over, Settled, Dispensable
<1>8. /\ \A j \in Items : ItemOK(j)'
      /\ \A w \in Workers : WorkerOK(w)'
      /\ \A v, w \in Workers : v # w => Distinct(v, w)'
  BY <1>1, <1>2, <1>3, <1>4, <1>6, EnqueuedOK
<1> QED
  BY <1>3, <1>4, <1>7, <1>8 DEF Inv, ContentOK, DeleterOK, ServedKeepsSource

LEMMA ClassifyInv ==
    ASSUME Inv, NEW u \in Uploads, Classify(u)
    PROVE  Inv'
<1> DEFINE i == <<u, "failed_upload_diagnostic">>
<1>1. /\ upload \in [Uploads -> Upload] /\ KeyOK(u) /\ upload[u].phase = "unreferenced"
      /\ i \in Items /\ i[1] = u /\ i[2] = "failed_upload_diagnostic"
  BY DEF Inv, Types, Classify, Items, Classes
<1>2. /\ upload' \in [Uploads -> Upload] /\ upload'[u].phase = "ended"
      /\ upload'[u].unsettled = upload[u].unsettled /\ upload'[u].content = upload[u].content
      /\ \A k \in Uploads : k # u => upload'[k] = upload[k]
  BY <1>1 DEF Classify, Upload
<1>3. /\ item' = Enqueued(item, i)
      /\ UNCHANGED <<stored, aged, source, document, job, worker, deleter, candidate>>
  BY DEF Classify
<1>4. \A k \in Uploads : k # u => InWindow(k)' = InWindow(k)
  <2>1. ASSUME NEW k \in Uploads, k # u
        PROVE  <<k, "failed_upload_diagnostic">> \in Items /\ <<k, "failed_upload_diagnostic">> # i
    BY <2>1 DEF Items, Classes
  <2> QED
    BY <1>1, <1>3, <2>1, EnqueuedItem DEF InWindow, Inv, Types
<1> HIDE DEF i
<1>5. Types'
  BY <1>1, <1>2, <1>3, EnqueuedItem DEF Inv, Types
<1>6. Grows
  BY <1>1, <1>2, <1>3, <1>4 DEF Grows, Attached, Over, Settled, Referenced
<1>7. ASSUME NEW k \in Uploads PROVE KeyOK(k)'
  <2>1. k = u => (k \in stored \/ SlowUploads \/ Attached(k))
    BY <1>1 DEF KeyOK, Dispensable
  <2> QED
    BY <1>1, <1>2, <1>3, <1>4, <1>6, <2>1
    DEF Inv, KeyOK, Attached, Over, Settled, Dispensable
<1>8. /\ \A j \in Items : ItemOK(j)'
      /\ \A w \in Workers : WorkerOK(w)'
      /\ \A v, w \in Workers : v # w => Distinct(v, w)'
  BY <1>1, <1>2, <1>3, <1>5, <1>6, EnqueuedOK
<1> QED
  BY <1>3, <1>5, <1>7, <1>8 DEF Inv, ContentOK, DeleterOK, ServedKeepsSource

LEMMA FinishJobInv ==
    ASSUME Inv, NEW c \in Contents, FinishJob(c)
    PROVE  Inv'
<1>0. PICK k : k = source[c].key
  OBVIOUS
<1> DEFINE i == <<k, "terminal_cleanup">>
<1>1. /\ k \in Uploads /\ Attached(k) /\ ~source[c].deleted /\ job[c] # "none"
      /\ upload[k].phase # "new"
  <2>1. source[c].key # None /\ ~source[c].deleted /\ job[c] # "none"
    BY DEF Inv, ContentOK, FinishJob
  <2> QED
    BY <1>0, <2>1 DEF Inv, Types, Attached, KeyOK, Over
<1>2. i \in Items /\ i[1] = k /\ i[2] = "terminal_cleanup"
  BY <1>1 DEF Items, Classes
<1>3. /\ item' = Enqueued(item, i)
      /\ UNCHANGED <<upload, stored, aged, source, worker, deleter, candidate>>
  BY <1>0 DEF FinishJob
<1>4. job' \in [Contents -> {"none", "open", "ended"}] /\ \A d \in Contents : d # c => job'[d] = job[d]
  BY DEF FinishJob, Inv, Types
<1>5. /\ document' \in [current : Contents \cup {None}, active : Contents \cup {None},
                        cited : SUBSET Contents]
      /\ document'.active \in {document.active, c}
  BY DEF FinishJob, Inv, Types
<1> HIDE DEF i
<1>6. Types'
  BY <1>2, <1>3, <1>4, <1>5, EnqueuedItem DEF Inv, Types
<1>7. Grows /\ \A l \in Uploads : InWindow(l)' = InWindow(l)
  BY <1>2, <1>3, EnqueuedGrows
<1>8. ASSUME NEW l \in Uploads PROVE KeyOK(l)'
  BY <1>3, <1>7 DEF Inv, KeyOK, Attached, Over, Settled, Dispensable
<1>9. /\ \A j \in Items : ItemOK(j)'
      /\ \A w \in Workers : WorkerOK(w)'
      /\ \A v, w \in Workers : v # w => Distinct(v, w)'
  <2>1. /\ upload'[i[1]].phase # "new" /\ Attached(i[1])'
        /\ i[2] # "orphan_report"
    BY <1>1, <1>2, <1>3 DEF Attached
  <2> QED
    BY <1>2, <1>3, <1>6, <1>7, <2>1, EnqueuedOK
<1>10. \A d \in Contents : ContentOK(d)'
  BY <1>0, <1>1, <1>3, <1>4, NoneAssumption DEF Inv, ContentOK
<1>11. DeleterOK' /\ ServedKeepsSource'
  BY <1>1, <1>3, <1>5 DEF Inv, DeleterOK, ServedKeepsSource
<1> QED
  BY <1>6, <1>8, <1>9, <1>10, <1>11 DEF Inv

\* An item that the reconciler makes.
LEMMA ReconciledInv ==
    ASSUME Inv, NEW i \in Items, item' = Enqueued(item, i), i[2] # "failed_upload_diagnostic",
           upload[i[1]].phase # "new", i[2] = "orphan_report" => Attached(i[1]),
           SlowUploads \/ Attached(i[1]) \/ Settled(i[1]), candidate' \in {candidate, None},
           UNCHANGED <<upload, stored, aged, source, document, job, worker, deleter>>
    PROVE  Inv'
<1>1. Types'
  BY EnqueuedItem DEF Inv, Types
<1>2. Grows /\ \A k \in Uploads : InWindow(k)' = InWindow(k)
  BY EnqueuedGrows
<1>3. ASSUME NEW k \in Uploads PROVE KeyOK(k)'
  BY <1>2, NoneAssumption DEF Inv, KeyOK, Attached, Over, Settled, Dispensable
<1>4. /\ \A j \in Items : ItemOK(j)'
      /\ \A w \in Workers : WorkerOK(w)'
      /\ \A v, w \in Workers : v # w => Distinct(v, w)'
  <2>1. /\ upload'[i[1]].phase # "new" /\ (i[2] = "orphan_report" => Attached(i[1])')
        /\ \/ SlowUploads
           \/ Attached(i[1])'
           \/ upload'[i[1]].phase = "ended" /\ ~upload'[i[1]].unsettled
    BY DEF Attached, Settled
  <2> QED
    BY <1>1, <1>2, <2>1, EnqueuedOK
<1> QED
  BY <1>1, <1>3, <1>4 DEF Inv, ContentOK, DeleterOK, ServedKeepsSource

LEMMA ReconcileInv ==
    ASSUME Inv, Reconcile
    PROVE  Inv'
<1>1. ASSUME NEW k \in Uploads, CheckOrphan(k) PROVE Inv'
  <2>1. k \in aged /\ UNCHANGED <<upload, stored, aged, database, worker, deleter>>
        /\ candidate' = k
    BY <1>1 DEF CheckOrphan
  <2>2. Grows /\ Types'
    BY <2>1 DEF Grows, database, Attached, Over, Settled, Referenced, InWindow, Inv, Types
  <2>3. ASSUME NEW l \in Uploads PROVE KeyOK(l)'
    BY <2>1 DEF Inv, KeyOK, database, Attached, Over, Settled, Dispensable, InWindow
  <2>4. ASSUME NEW i \in Items PROVE ItemOK(i)' /\ Moves(i)
    BY <2>1, <2>2, ItemCarried DEF SameItem, Moves, Inv, Types, Item, database
  <2>5. /\ \A w \in Workers : WorkerOK(w)'
        /\ \A v, w \in Workers : v # w => Distinct(v, w)'
    BY <2>1, <2>2, <2>4, WorkersCarried DEF database
  <2> QED
    BY <2>1, <2>2, <2>3, <2>4, <2>5 DEF Inv, ContentOK, DeleterOK, ServedKeepsSource, database
<1>2. ASSUME NEW k \in Uploads, Report(k) PROVE Inv'
  <2> DEFINE i == <<k, "orphan_report">>
  <2>1. i \in Items /\ i[1] = k /\ i[2] = "orphan_report" /\ item' = Enqueued(item, i)
    BY <1>2 DEF Items, Classes, Report
  <2>2. Attached(k) /\ upload[k].phase # "new"
    BY <1>2 DEF Report, Referenced, Attached, Inv, KeyOK, Over
  <2>3. /\ candidate' \in {candidate, None}
        /\ UNCHANGED <<upload, stored, aged, source, document, job, worker, deleter>>
    BY <1>2 DEF Report
  <2> HIDE DEF i
  <2> QED
    BY <2>1, <2>2, <2>3, ReconciledInv
<1>3. ASSUME EnqueueOrphan PROVE Inv'
  <2> DEFINE i == <<candidate, "orphan">>
  <2>1. candidate \in Uploads
    BY <1>3 DEF EnqueueOrphan, Inv, Types
  <2>2. i \in Items /\ i[1] = candidate /\ i[2] = "orphan" /\ item' = Enqueued(item, i)
    BY <1>3, <2>1 DEF Items, Classes, EnqueueOrphan
  <2>3. upload[candidate].phase # "new" /\ (SlowUploads \/ Settled(candidate))
    BY <2>1 DEF Inv, KeyOK
  <2>4. /\ candidate' \in {candidate, None}
        /\ UNCHANGED <<upload, stored, aged, source, document, job, worker, deleter>>
    BY <1>3 DEF EnqueueOrphan
  <2> HIDE DEF i
  <2> QED
    BY <2>2, <2>3, <2>4, ReconciledInv
<1> QED
  BY <1>1, <1>2, <1>3 DEF Reconcile

----------------------------------------------------------------------------
\* Questions and time.

LEMMA CiteInv ==
    ASSUME Inv, Cite
    PROVE  Inv'
<1>1. /\ UNCHANGED <<upload, stored, aged, source, job, item, worker, deleter, candidate>>
      /\ document' \in [current : Contents \cup {None}, active : Contents \cup {None},
                        cited : SUBSET Contents]
      /\ document'.active = document.active
  BY DEF Cite, Inv, Types
<1>2. Types' /\ Grows
  BY <1>1 DEF Grows, Attached, Over, Settled, Referenced, InWindow, Inv, Types
<1>3. ASSUME NEW l \in Uploads PROVE KeyOK(l)'
  BY <1>1 DEF Inv, KeyOK, Attached, Over, Settled, Dispensable, InWindow
<1>4. ASSUME NEW i \in Items PROVE ItemOK(i)' /\ Moves(i)
  BY <1>1, <1>2, ItemCarried DEF SameItem, Moves, Inv, Types, Item
<1>5. /\ \A w \in Workers : WorkerOK(w)'
      /\ \A v, w \in Workers : v # w => Distinct(v, w)'
  BY <1>1, <1>2, <1>4, WorkersCarried
<1> QED
  BY <1>1, <1>2, <1>3, <1>4, <1>5 DEF Inv, ContentOK, DeleterOK, ServedKeepsSource

LEMMA AgeInv ==
    ASSUME Inv, NEW k \in Uploads, Age(k)
    PROVE  Inv'
<1>1. /\ UNCHANGED <<upload, stored, database, worker, deleter, candidate>>
      /\ k \in stored /\ (SlowUploads \/ Settled(k)) /\ aged' = aged \cup {k}
  BY DEF Age, Settled
<1>2. Types' /\ Grows
  BY <1>1 DEF Grows, Attached, Over, Settled, Referenced, InWindow, Inv, Types, database
<1>3. ASSUME NEW l \in Uploads PROVE KeyOK(l)'
  BY <1>1 DEF Inv, KeyOK, Attached, Over, Settled, Dispensable, InWindow, database
<1>4. ASSUME NEW i \in Items PROVE ItemOK(i)' /\ Moves(i)
  BY <1>1, <1>2, ItemCarried DEF SameItem, Moves, Inv, Types, Item, database
<1>5. /\ \A w \in Workers : WorkerOK(w)'
      /\ \A v, w \in Workers : v # w => Distinct(v, w)'
  BY <1>1, <1>2, <1>4, WorkersCarried DEF database
<1> QED
  BY <1>1, <1>2, <1>3, <1>4, <1>5 DEF Inv, ContentOK, DeleterOK, ServedKeepsSource, database

LEMMA TimeInv ==
    ASSUME Inv, NEW i \in Items, Lapse(i) \/ CloseWindow(i)
    PROVE  Inv'
<1>1. /\ UNCHANGED <<upload, stored, aged, source, document, job, worker, deleter, candidate>>
      /\ item' \in [Items -> Item] /\ \A j \in Items : j # i => item'[j] = item[j]
      /\ item'[i].state = item[i].state /\ item'[i].attempts = item[i].attempts
      /\ item'[i].generation = item[i].generation /\ item'[i].outcome = item[i].outcome
      /\ item'[i].leased => item[i].leased
      /\ item'[i].window => item[i].window
      /\ item'[i].window # item[i].window =>
             item[i].window /\ ~item'[i].window /\ ~upload[i[1]].unsettled
  <2>1. item \in [Items -> Item]
    BY DEF Inv, Types
  <2>2. CASE Lapse(i)
    BY <2>1, <2>2 DEF Lapse, Item
  <2>3. CASE CloseWindow(i)
    BY <2>1, <2>3 DEF CloseWindow, Item
  <2> QED
    BY <2>2, <2>3
<1>2. \A k \in Uploads : InWindow(k)' => InWindow(k)
  <2>1. \A k \in Uploads : <<k, "failed_upload_diagnostic">> \in Items
    BY DEF Items, Classes
  <2> QED
    BY <1>1, <2>1 DEF InWindow
<1>3. Types' /\ Grows
  BY <1>1, <1>2 DEF Grows, Attached, Over, Settled, Referenced, Inv, Types
<1>4. ASSUME NEW l \in Uploads PROVE KeyOK(l)'
  BY <1>1, <1>2 DEF Inv, KeyOK, Attached, Over, Settled, Dispensable
<1>5. ASSUME NEW j \in Items PROVE ItemOK(j)'
  <2>1. CASE item'[j].window = item[j].window
    BY <1>1, <1>3, <2>1, ItemCarried DEF SameItem
  <2>2. CASE item'[j].window # item[j].window
    <3>1. j = i /\ ItemOK(i) /\ i[1] \in Uploads
      BY <1>1, <2>2 DEF Inv, Items
    <3> QED
      BY <1>1, <2>2, <3>1 DEF ItemOK, Attached
  <2> QED
    BY <2>1, <2>2
<1>6. ASSUME NEW j \in Items PROVE Moves(j)
  BY <1>1 DEF Moves, Inv, Types, Item
<1>7. /\ \A w \in Workers : WorkerOK(w)'
      /\ \A v, w \in Workers : v # w => Distinct(v, w)'
  BY <1>1, <1>3, <1>6, WorkersCarried
<1> QED
  BY <1>1, <1>3, <1>4, <1>5, <1>7 DEF Inv, ContentOK, DeleterOK, ServedKeepsSource

----------------------------------------------------------------------------
\* Workers.

\* A step of a worker touches its item, keeps its attempt or gives it up, and deletes a key
\* only that is free.
WorkerStep(w, i) ==
    /\ worker[w].phase # "idle" /\ worker[w].item = i
    /\ worker' \in [Workers -> Worker]
    /\ \A v \in Workers : v # w => worker'[v] = worker[v]
    /\ worker'[w].phase # "idle" =>
           worker'[w].item = i /\ worker'[w].attempt = worker[w].attempt
    /\ item' \in [Items -> Item]
    /\ \A j \in Items : j # i => item'[j] = item[j]
    /\ item'[i].window = item[i].window
    /\ Moves(i)
    /\ item'[i].generation # item[i].generation => Owns(w)
    /\ stored' = stored \/ (stored' = stored \ {i[1]} /\ Free(i[1]))
    /\ UNCHANGED <<upload, aged, source, document, job, deleter, candidate>>

LEMMA WorkerStepInv ==
    ASSUME Inv, NEW w \in Workers, NEW i \in Items, WorkerStep(w, i), ItemOK(i)', WorkerOK(w)'
    PROVE  Inv'
<1>1. /\ UNCHANGED <<upload, aged, source, document, job, deleter, candidate>>
      /\ stored' \subseteq stored
      /\ \A k \in Uploads : k \in stored /\ k \notin stored' => SlowUploads \/ Dispensable(k)
  BY DEF WorkerStep, Free
<1>2. Types'
  BY <1>1 DEF WorkerStep, Inv, Types
<1>3. \A k \in Uploads : InWindow(k)' = InWindow(k)
  <2>1. \A k \in Uploads : <<k, "failed_upload_diagnostic">> \in Items
    BY DEF Items, Classes
  <2> QED
    BY <2>1 DEF WorkerStep, InWindow
<1>4. Grows
  BY <1>1, <1>3 DEF Grows, Attached, Over, Settled, Referenced
<1>5. ASSUME NEW k \in Uploads PROVE KeyOK(k)'
  BY <1>1, <1>3 DEF Inv, KeyOK, Attached, Over, Settled, Dispensable
<1>6. ASSUME NEW j \in Items PROVE ItemOK(j)' /\ Moves(j)
  <2>1. CASE j = i
    BY <2>1 DEF WorkerStep
  <2>2. CASE j # i
    BY <1>4, <2>2, ItemCarried DEF WorkerStep, SameItem, Moves, Inv, Types, Item
  <2> QED
    BY <2>1, <2>2
<1>7. ASSUME NEW v \in Workers PROVE WorkerOK(v)'
  <2>1. CASE v = w
    BY <2>1
  <2>2. CASE v # w
    <3>1. worker'[v] = worker[v]
      BY <2>2 DEF WorkerStep
    <3>2. worker[v].phase # "idle" /\ Owns(v) =>
              item'[worker[v].item].generation = item[worker[v].item].generation
      <4> SUFFICES ASSUME worker[v].phase # "idle", Owns(v)
                   PROVE  item'[worker[v].item].generation = item[worker[v].item].generation
        OBVIOUS
      <4>1. worker[v].item \in Items /\ Distinct(v, w)
        BY <2>2 DEF Inv, WorkerOK
      <4>2. CASE worker[v].item # i
        BY <4>1, <4>2 DEF WorkerStep
      <4>3. CASE worker[v].item = i
        BY <4>1, <4>3 DEF WorkerStep, Distinct, Owns
      <4> QED
        BY <4>2, <4>3
    <3> QED
      BY <1>2, <1>4, <1>6, <3>1, <3>2, WorkerCarried
  <2> QED
    BY <2>1, <2>2
<1>8. \A u, v \in Workers : u # v => Distinct(u, v)'
  BY DEF Inv, WorkerStep, Distinct
<1> QED
  BY <1>1, <1>2, <1>5, <1>6, <1>7, <1>8 DEF Inv, ContentOK, DeleterOK, ServedKeepsSource

\* A worker goes on with the item as it is.
LEMMA OnwardInv ==
    ASSUME Inv, NEW w \in Workers, worker[w].phase # "idle",
           worker' \in [Workers -> Worker], \A v \in Workers : v # w => worker'[v] = worker[v],
           worker'[w].phase # "idle" =>
               worker'[w].item = worker[w].item /\ worker'[w].attempt = worker[w].attempt,
           \/ stored' = stored
           \/ stored' = stored \ {worker[w].item[1]} /\ Free(worker[w].item[1]),
           UNCHANGED <<upload, aged, database, deleter, candidate>>,
           WorkerOK(w)'
    PROVE  Inv'
<1>1. PICK i \in Items : worker[w].item = i /\ ItemOK(i) /\ item[i].state # "none"
  BY DEF Inv, WorkerOK
<1>2. WorkerStep(w, i)
  BY <1>1 DEF WorkerStep, Moves, database, Inv, Types, Item
<1>3. ItemOK(i)'
  BY <1>1 DEF ItemOK, database, Attached
<1> QED
  BY <1>1, <1>2, <1>3, WorkerStepInv

LEMMA ClaimInv ==
    ASSUME Inv, NEW w \in Workers, Claim(w)
    PROVE  Inv'
<1> DEFINE work == Recovered(item)
<1>1. /\ worker[w].phase = "idle" /\ item \in [Items -> Item]
      /\ worker \in [Workers -> Worker]
      /\ UNCHANGED <<upload, stored, aged, source, document, job, deleter, candidate>>
  BY DEF Claim, Inv, Types
<1>2. /\ work \in [Items -> Item]
      /\ \A j \in Items :
             /\ work[j].attempts = item[j].attempts /\ work[j].generation = item[j].generation
             /\ work[j].window = item[j].window /\ work[j].outcome = item[j].outcome
             /\ work[j].state = "none" <=> item[j].state = "none"
             /\ work[j].state = "processing" /\ work[j].leased =>
                    item[j].state = "processing" /\ item[j].leased
  <2> SUFFICES ASSUME NEW j \in Items
               PROVE  /\ work[j] \in Item
                      /\ work[j].attempts = item[j].attempts
                      /\ work[j].generation = item[j].generation
                      /\ work[j].window = item[j].window /\ work[j].outcome = item[j].outcome
                      /\ work[j].state = "none" <=> item[j].state = "none"
                      /\ work[j].state = "processing" /\ work[j].leased =>
                             item[j].state = "processing" /\ item[j].leased
    BY DEF Recovered
  <2>1. CASE item[j].state = "processing" /\ ~item[j].leased
    <3> DEFINE s == IF item[j].attempts >= MaxAttempts THEN "failed" ELSE "retry_scheduled"
    <3>1. s \in {"failed", "retry_scheduled"} /\ work[j] = [item[j] EXCEPT !.state = s]
      BY <2>1 DEF Recovered
    <3> HIDE DEF s
    <3> QED
      BY <1>1, <2>1, <3>1 DEF Item, Terminal
  <2>2. CASE ~(item[j].state = "processing" /\ ~item[j].leased)
    BY <1>1, <2>2 DEF Recovered
  <2> QED
    BY <2>1, <2>2
<1> HIDE DEF work
<1>3. CASE item' = work /\ UNCHANGED worker
  <2>1. Types'
    BY <1>1, <1>2, <1>3 DEF Inv, Types
  <2>2. \A k \in Uploads : InWindow(k)' = InWindow(k)
    BY <1>2, <1>3 DEF InWindow, Items, Classes
  <2>3. Grows
    BY <1>1, <2>2 DEF Grows, Attached, Over, Settled, Referenced
  <2>4. ASSUME NEW k \in Uploads PROVE KeyOK(k)'
    BY <1>1, <2>2 DEF Inv, KeyOK, Attached, Over, Settled, Dispensable
  <2>5. ASSUME NEW j \in Items PROVE ItemOK(j)' /\ Moves(j)
    BY <1>1, <1>2, <1>3, <2>3, ItemCarried DEF SameItem, Moves, Item
  <2>6. /\ \A v \in Workers : WorkerOK(v)'
        /\ \A u, v \in Workers : u # v => Distinct(u, v)'
    BY <1>2, <1>3, <2>1, <2>3, <2>5, WorkersCarried
  <2> QED
    BY <1>1, <2>1, <2>4, <2>5, <2>6 DEF Inv, ContentOK, DeleterOK, ServedKeepsSource
<1>4. ASSUME NEW i \in Due(work),
             item' = [work EXCEPT ![i].state = "processing", ![i].leased = TRUE,
                                  ![i].attempts = @ + 1],
             worker' = [worker EXCEPT ![w] =
                 [phase |-> "claimed", item |-> i, attempt |-> work[i].attempts + 1,
                  generation |-> work[i].generation]]
      PROVE  Inv'
  <2> DEFINE n == work[i].attempts + 1
             g == work[i].generation
             p == "processing"
  <2>1. /\ i \in Items /\ work[i] \in Item /\ work[i].state # "none"
        /\ work[i].attempts \in Nat /\ work[i].attempts < MaxAttempts
        /\ item[i].attempts = work[i].attempts /\ item[i].state # "none"
    BY <1>2 DEF Due, Item
  <2>2. n \in 0..MaxAttempts /\ n > item[i].attempts /\ g \in 0..MaxAttempts /\ p = "processing"
    BY <2>1, AttemptsAssumption DEF Item
  <2>3. /\ item' = [work EXCEPT ![i].state = p, ![i].leased = TRUE, ![i].attempts = n]
        /\ worker' = [worker EXCEPT ![w] =
               [phase |-> "claimed", item |-> i, attempt |-> n, generation |-> g]]
    BY <1>4
  <2> HIDE DEF n, g, p
  <2>4. /\ item' \in [Items -> Item]
        /\ \A j \in Items : j # i => item'[j] = work[j]
        /\ item'[i].state # "none" /\ item'[i].attempts = n
        /\ item'[i].generation = work[i].generation /\ item'[i].window = work[i].window
        /\ item'[i].outcome = work[i].outcome
    BY <1>2, <2>1, <2>2, <2>3 DEF Item
  <2>5. /\ worker' \in [Workers -> Worker]
        /\ \A v \in Workers : v # w => worker'[v] = worker[v]
        /\ worker'[w].phase = "claimed" /\ worker'[w].item = i /\ worker'[w].attempt = n
    BY <1>1, <2>1, <2>2, <2>3 DEF Worker
  <2>6. Types'
    BY <1>1, <2>4, <2>5 DEF Inv, Types
  <2>7. \A k \in Uploads : InWindow(k)' = InWindow(k)
    BY <1>2, <2>4 DEF InWindow, Items, Classes
  <2>8. Grows
    BY <1>1, <2>7 DEF Grows, Attached, Over, Settled, Referenced
  <2>9. ASSUME NEW k \in Uploads PROVE KeyOK(k)'
    BY <1>1, <2>7 DEF Inv, KeyOK, Attached, Over, Settled, Dispensable
  <2>10. ASSUME NEW j \in Items PROVE SameItem(j) /\ Moves(j)
    <3>1. item[j].attempts \in Nat
      BY <1>1, AttemptsAssumption DEF Item
    <3>2. CASE j = i
      BY <1>2, <2>1, <2>2, <2>4, <3>1, <3>2 DEF SameItem, Moves
    <3>3. CASE j # i
      BY <1>2, <2>4, <3>1, <3>3 DEF SameItem, Moves
    <3> QED
      BY <3>2, <3>3
  <2>11. \A j \in Items : ItemOK(j)'
    BY <2>8, <2>10, ItemCarried
  <2>12. \A j \in Items : item'[j].generation = item[j].generation
    BY <1>2, <2>4
  <2>13. ASSUME NEW v \in Workers PROVE WorkerOK(v)'
    <3>1. CASE v = w
      <4>1. n \in Nat
        BY <2>2
      <4> QED
        BY <2>1, <2>4, <2>5, <3>1, <4>1 DEF WorkerOK
    <3>2. CASE v # w
      <4>1. worker[v].phase # "idle" => worker[v].item \in Items
        BY DEF Inv, WorkerOK
      <4> QED
        BY <2>5, <2>6, <2>8, <2>10, <2>12, <3>2, <4>1, WorkerCarried
    <3> QED
      BY <3>1, <3>2
  <2>14. ASSUME NEW u \in Workers, NEW v \in Workers, u # v PROVE Distinct(u, v)'
    <3>1. \A x \in Workers : x # w /\ worker[x].phase # "idle" /\ worker[x].item = i =>
              worker[x].attempt # n
      BY <1>1, <2>1, <2>2 DEF Inv, WorkerOK, Worker, Item
    <3>2. CASE u # w /\ v # w
      BY <2>5, <2>14, <3>2 DEF Inv, Distinct
    <3>3. CASE u = w \/ v = w
      BY <2>5, <2>14, <3>1, <3>3 DEF Distinct
    <3> QED
      BY <3>2, <3>3
  <2> QED
    BY <1>1, <2>6, <2>9, <2>11, <2>13, <2>14 DEF Inv, ContentOK, DeleterOK, ServedKeepsSource
<1> QED
  BY <1>3, <1>4 DEF Claim, work

\* What a worker that is at work knows, by name.
LEMMA AtWork ==
    ASSUME Inv, NEW w \in Workers, worker[w].phase # "idle"
    PROVE  \E i \in Items :
               /\ worker[w].item = i /\ i[1] \in Uploads
               /\ item \in [Items -> Item] /\ worker \in [Workers -> Worker]
               /\ item[i] \in Item /\ worker[w] \in Worker
               /\ ItemOK(i) /\ WorkerOK(w) /\ KeyOK(i[1]) /\ item[i].state # "none"
BY DEF Inv, Types, WorkerOK, Items

\* The worker takes its leave of the item, and the item stays.
LEMMA RestInv ==
    ASSUME Inv, NEW w \in Workers, worker[w].phase # "idle", worker' = Rest(w),
           UNCHANGED <<upload, stored, aged, database, deleter, candidate>>
    PROVE  Inv'
<1>1. IdleWorker \in Worker /\ IdleWorker.phase = "idle"
  BY AttemptsAssumption DEF IdleWorker, Worker
<1>2. /\ worker' \in [Workers -> Worker] /\ \A v \in Workers : v # w => worker'[v] = worker[v]
      /\ worker'[w].phase = "idle"
  BY <1>1 DEF Rest, Inv, Types
<1> QED
  BY <1>2, OnwardInv DEF WorkerOK

\* What is not the worker's to delete has a row, or is no longer the worker's.
LEMMA SuppressingInv ==
    ASSUME Inv, NEW w \in Workers, worker[w].phase # "idle", worker' = To(w, "suppressing"),
           Owns(w) => Attached(worker[w].item[1]),
           UNCHANGED <<upload, stored, aged, database, deleter, candidate>>
    PROVE  Inv'
<1>1. PICK i \in Items :
          /\ worker[w].item = i /\ worker \in [Workers -> Worker] /\ worker[w] \in Worker
          /\ WorkerOK(w)
  BY AtWork
<1>2. /\ worker' \in [Workers -> Worker] /\ \A v \in Workers : v # w => worker'[v] = worker[v]
      /\ worker'[w].phase = "suppressing" /\ worker'[w].item = i
      /\ worker'[w].attempt = worker[w].attempt
  BY <1>1 DEF To, Worker
<1>3. WorkerOK(w)'
  BY <1>1, <1>2 DEF WorkerOK, Owns, Attached, database
<1> QED
  BY <1>1, <1>2, <1>3, OnwardInv

LEMMA HeadInv ==
    ASSUME Inv, NEW w \in Workers, Head(w)
    PROVE  Inv'
<1>1. PICK p \in {"present", "gone", "failing"} :
          worker' = To(w, p) /\ (p = "gone" => worker[w].item[1] \notin stored)
  BY DEF Head
<1>2. /\ worker[w].phase # "idle"
      /\ UNCHANGED <<upload, stored, aged, database, deleter, candidate>>
  BY DEF Head
<1>3. PICK i \in Items :
          /\ worker[w].item = i /\ worker \in [Workers -> Worker] /\ worker[w] \in Worker
          /\ WorkerOK(w)
  BY <1>2, AtWork
<1>4. /\ worker' \in [Workers -> Worker] /\ \A v \in Workers : v # w => worker'[v] = worker[v]
      /\ worker'[w].phase = p /\ worker'[w].item = i
      /\ worker'[w].attempt = worker[w].attempt
  BY <1>1, <1>3 DEF To, Worker
<1>5. WorkerOK(w)'
  BY <1>1, <1>2, <1>3, <1>4 DEF WorkerOK, database
<1> QED
  BY <1>2, <1>3, <1>4, <1>5, OnwardInv

LEMMA PrepareDeleteInv ==
    ASSUME Inv, NEW w \in Workers, PrepareDelete(w)
    PROVE  Inv'
<1>1. /\ worker[w].phase \in {"present", "gone", "claimed"}
      /\ UNCHANGED <<upload, stored, aged, source, document, job, deleter, candidate>>
  BY DEF PrepareDelete
<1>2. PICK i \in Items :
          /\ worker[w].item = i /\ i[1] \in Uploads
          /\ item \in [Items -> Item] /\ worker \in [Workers -> Worker]
          /\ item[i] \in Item /\ worker[w] \in Worker
          /\ ItemOK(i) /\ WorkerOK(w) /\ KeyOK(i[1]) /\ item[i].state # "none"
  BY <1>1, AtWork
<1>3. CASE worker' = Rest(w) /\ UNCHANGED item
  BY <1>1, <1>3, RestInv DEF database
<1>4. CASE ~(Owns(w) /\ i[2] # "orphan_report" /\ ~Referenced(i[1]))
  <2>1. worker' = To(w, "suppressing") /\ UNCHANGED item
    BY <1>2, <1>4 DEF PrepareDelete
  <2>2. Owns(w) => Attached(i[1])
    BY <1>2, <1>4 DEF ItemOK, Referenced, Attached
  <2> QED
    BY <1>1, <1>2, <2>1, <2>2, SuppressingInv DEF database
<1>5. ASSUME Owns(w),
             item' = [item EXCEPT ![i].generation = worker[w].attempt],
             worker' = [worker EXCEPT ![w].generation = worker[w].attempt, ![w].phase =
                            IF @ = "gone" THEN "completing" ELSE "prepared"]
      PROVE  Inv'
  <2> DEFINE n == worker[w].attempt
             p == IF worker[w].phase = "gone" THEN "completing" ELSE "prepared"
  <2>1. n \in 0..MaxAttempts /\ p \in {"completing", "prepared"}
        /\ (p = "completing" => i[1] \notin stored)
    BY <1>1, <1>2 DEF Worker, WorkerOK
  <2>2. /\ item' = [item EXCEPT ![i].generation = n]
        /\ worker' = [worker EXCEPT ![w].generation = n, ![w].phase = p]
    BY <1>2, <1>5
  <2>3. n = worker[w].attempt
    OBVIOUS
  <2> HIDE DEF n, p
  <2>4. /\ item' \in [Items -> Item] /\ \A j \in Items : j # i => item'[j] = item[j]
        /\ item'[i].generation = n /\ item'[i].state = item[i].state
        /\ item'[i].leased = item[i].leased /\ item'[i].attempts = item[i].attempts
        /\ item'[i].window = item[i].window /\ item'[i].outcome = item[i].outcome
    BY <1>2, <2>1, <2>2 DEF Item
  <2>5. /\ worker' \in [Workers -> Worker] /\ \A v \in Workers : v # w => worker'[v] = worker[v]
        /\ worker'[w].phase = p /\ worker'[w].item = i /\ worker'[w].generation = n
        /\ worker'[w].attempt = worker[w].attempt
    BY <1>2, <2>1, <2>2 DEF Worker
  <2>6. Moves(i)
    BY <1>2, <2>4 DEF Moves, Item
  <2>7. WorkerStep(w, i)
    BY <1>1, <1>2, <1>5, <2>4, <2>5, <2>6 DEF WorkerStep
  <2>8. ItemOK(i)'
    BY <1>1, <1>2, <2>4 DEF ItemOK, Attached
  <2>9. WorkerOK(w)'
    BY <1>1, <1>2, <2>1, <2>4, <2>5 DEF WorkerOK
  <2> QED
    BY <2>7, <2>8, <2>9, WorkerStepInv
<1> QED
  BY <1>2, <1>3, <1>4, <1>5 DEF PrepareDelete

LEMMA RevalidateDeleteInv ==
    ASSUME Inv, NEW w \in Workers, RevalidateDelete(w)
    PROVE  Inv'
<1>1. /\ worker[w].phase = "prepared"
      /\ UNCHANGED <<upload, stored, aged, database, deleter, candidate>>
  BY DEF RevalidateDelete
<1>2. PICK i \in Items :
          /\ worker[w].item = i /\ i[1] \in Uploads
          /\ item \in [Items -> Item] /\ worker \in [Workers -> Worker]
          /\ item[i] \in Item /\ worker[w] \in Worker
          /\ ItemOK(i) /\ WorkerOK(w) /\ KeyOK(i[1]) /\ item[i].state # "none"
  BY <1>1, AtWork
<1>3. CASE worker' = Rest(w)
  BY <1>1, <1>3, RestInv
<1>4. CASE ~Authorized(w) \/ Referenced(i[1])
  <2>1. worker' = To(w, "suppressing")
    BY <1>2, <1>4 DEF RevalidateDelete
  <2>2. Owns(w) => Attached(i[1])
    BY <1>1, <1>2, <1>4 DEF WorkerOK, Authorized, Referenced, Attached
  <2> QED
    BY <1>1, <1>2, <2>1, <2>2, SuppressingInv
<1>5. CASE /\ Authorized(w) /\ ~Referenced(i[1]) /\ Eligible(item, i) /\ ~OtherWindow(i)
           /\ worker' = To(w, "deleting")
  <2>1. ~item[i].window /\ ~InWindow(i[1])
    <3>1. i = <<i[1], i[2]>>
      BY DEF Items
    <3> QED
      BY <1>5, <3>1 DEF Eligible, OtherWindow, InWindow
  <2>2. Free(i[1])
    BY <1>2, <1>5, <2>1 DEF Free, ItemOK, KeyOK, Over, Dispensable
  <2>3. /\ worker' \in [Workers -> Worker] /\ \A v \in Workers : v # w => worker'[v] = worker[v]
        /\ worker'[w].phase = "deleting" /\ worker'[w].item = i
        /\ worker'[w].attempt = worker[w].attempt /\ worker'[w].generation = worker[w].generation
    BY <1>2, <1>5 DEF To, Worker
  <2>4. Free(i[1])'
    BY <1>1, <2>2 DEF Free, Over, Referenced, Dispensable, Attached, InWindow, database
  <2>5. WorkerOK(w)'
    BY <1>1, <1>2, <2>3, <2>4 DEF WorkerOK, Owns, database
  <2> QED
    BY <1>1, <1>2, <2>3, <2>5, OnwardInv
<1> QED
  BY <1>2, <1>3, <1>4, <1>5 DEF RevalidateDelete

LEMMA DeleteInv ==
    ASSUME Inv, NEW w \in Workers, Delete(w)
    PROVE  Inv'
<1>1. /\ worker[w].phase = "deleting"
      /\ UNCHANGED <<upload, aged, database, deleter, candidate>>
  BY DEF Delete
<1>2. PICK i \in Items :
          /\ worker[w].item = i /\ i[1] \in Uploads
          /\ item \in [Items -> Item] /\ worker \in [Workers -> Worker]
          /\ item[i] \in Item /\ worker[w] \in Worker
          /\ ItemOK(i) /\ WorkerOK(w) /\ KeyOK(i[1]) /\ item[i].state # "none"
  BY <1>1, AtWork
<1>3. PICK p \in {"completing", "failing"} :
          /\ worker' = To(w, p) /\ stored' \in {stored, stored \ {i[1]}}
          /\ p = "completing" => i[1] \notin stored'
  BY <1>2 DEF Delete
<1>4. Free(i[1])
  BY <1>1, <1>2 DEF WorkerOK
<1>5. /\ worker' \in [Workers -> Worker] /\ \A v \in Workers : v # w => worker'[v] = worker[v]
      /\ worker'[w].phase = p /\ worker'[w].item = i
      /\ worker'[w].attempt = worker[w].attempt /\ worker'[w].generation = worker[w].generation
  BY <1>2, <1>3 DEF To, Worker
<1>6. WorkerOK(w)'
  BY <1>1, <1>2, <1>3, <1>5 DEF WorkerOK, Owns, database
<1> QED
  BY <1>1, <1>2, <1>3, <1>4, <1>5, <1>6, OnwardInv

\* A worker ends the item, or schedules it again.
LEMMA EndedInv ==
    ASSUME Inv, NEW w \in Workers, worker[w].phase # "idle", Owns(w), worker' = Rest(w),
           NEW i \in Items, worker[w].item = i, NEW s \in Terminal \cup {"retry_scheduled"},
           NEW g \in {0, item[i].generation}, NEW o \in {item[i].outcome, "deleted", "suppressed"},
           item' = [item EXCEPT ![i].state = s, ![i].leased = FALSE, ![i].generation = g,
                                ![i].outcome = o],
           o # item[i].outcome =>
               (o = "deleted" /\ i[1] \notin stored) \/ (o = "suppressed" /\ Attached(i[1])),
           UNCHANGED <<upload, stored, aged, source, document, job, deleter, candidate>>
    PROVE  Inv'
<1>1. /\ item \in [Items -> Item] /\ worker \in [Workers -> Worker] /\ item[i] \in Item
      /\ ItemOK(i) /\ item[i].state # "none" /\ s # "none" /\ s # "processing"
  BY DEF Inv, Types, WorkerOK, Terminal
<1>2. /\ item' \in [Items -> Item] /\ \A j \in Items : j # i => item'[j] = item[j]
      /\ item'[i].state = s /\ item'[i].attempts = item[i].attempts
      /\ item'[i].window = item[i].window /\ item'[i].outcome = o
  <2>1. g \in 0..MaxAttempts /\ o \in {None, "deleted", "suppressed"}
    BY <1>1, AttemptsAssumption DEF Item
  <2> QED
    BY <1>1, <2>1 DEF Item, Terminal
<1>3. /\ worker' \in [Workers -> Worker] /\ \A v \in Workers : v # w => worker'[v] = worker[v]
      /\ worker'[w].phase = "idle"
  <2>1. IdleWorker \in Worker /\ IdleWorker.phase = "idle"
    BY AttemptsAssumption DEF IdleWorker, Worker
  <2> QED
    BY <1>1, <2>1 DEF Rest
<1>4. Moves(i)
  BY <1>1, <1>2 DEF Moves, Item
<1>5. WorkerStep(w, i)
  BY <1>2, <1>3, <1>4 DEF WorkerStep
<1>6. ItemOK(i)'
  <2>1. Attached(i[1])' = Attached(i[1])
    BY DEF Attached
  <2>2. o = "deleted" => i[1] \notin stored
    BY <1>1 DEF ItemOK
  <2>3. o = "suppressed" => Attached(i[1])
    BY <1>1 DEF ItemOK
  <2> QED
    BY <1>1, <1>2, <2>1, <2>2, <2>3 DEF ItemOK
<1>7. WorkerOK(w)'
  BY <1>3 DEF WorkerOK
<1> QED
  BY <1>5, <1>6, <1>7, WorkerStepInv

LEMMA CompleteInv ==
    ASSUME Inv, NEW w \in Workers, Complete(w)
    PROVE  Inv'
<1>1. /\ worker[w].phase = "completing"
      /\ UNCHANGED <<upload, stored, aged, source, document, job, deleter, candidate>>
  BY DEF Complete
<1>2. PICK i \in Items :
          /\ worker[w].item = i /\ i[1] \in Uploads
          /\ item \in [Items -> Item] /\ worker \in [Workers -> Worker]
          /\ item[i] \in Item /\ worker[w] \in Worker
          /\ ItemOK(i) /\ WorkerOK(w) /\ KeyOK(i[1]) /\ item[i].state # "none"
  BY <1>1, AtWork
<1>3. CASE Authorized(w) /\ ~Referenced(i[1])
  <2> DEFINE s == "succeeded"
             g == item[i].generation
             o == "deleted"
  <2>1. /\ s \in Terminal \cup {"retry_scheduled"} /\ g \in {0, item[i].generation}
        /\ o \in {item[i].outcome, "deleted", "suppressed"} /\ o = "deleted"
    BY DEF Terminal
  <2>2. item' = [item EXCEPT ![i].state = s, ![i].leased = FALSE, ![i].generation = g,
                             ![i].outcome = o]
    <3> HIDE DEF s, o
    <3>1. item' = [item EXCEPT ![i].state = s, ![i].leased = FALSE, ![i].outcome = o]
      BY <1>2, <1>3 DEF Complete, s, o
    <3> QED
      BY <1>2, <3>1, <2>1 DEF Item
  <2>3. worker' = Rest(w) /\ Owns(w)
    BY <1>2, <1>3 DEF Complete, Authorized
  <2>4. i[1] \notin stored
    BY <1>1, <1>2 DEF WorkerOK
  <2> HIDE DEF s, g, o
  <2> QED
    BY <1>1, <1>2, <2>1, <2>2, <2>3, <2>4, EndedInv
<1>4. CASE ~(Authorized(w) /\ ~Referenced(i[1]))
  <2>1. worker' = To(w, "suppressing") /\ UNCHANGED item
    BY <1>2, <1>4 DEF Complete
  <2>2. Owns(w) => Attached(i[1])
    BY <1>1, <1>2, <1>4 DEF WorkerOK, Authorized, Referenced, Attached
  <2> QED
    BY <1>1, <1>2, <2>1, <2>2, SuppressingInv DEF database
<1> QED
  BY <1>3, <1>4

LEMMA SuppressInv ==
    ASSUME Inv, NEW w \in Workers, Suppress(w)
    PROVE  Inv'
<1>1. /\ worker[w].phase = "suppressing" /\ worker' = Rest(w)
      /\ UNCHANGED <<upload, stored, aged, source, document, job, deleter, candidate>>
  BY DEF Suppress
<1>2. PICK i \in Items :
          /\ worker[w].item = i /\ i[1] \in Uploads
          /\ item \in [Items -> Item] /\ worker \in [Workers -> Worker]
          /\ item[i] \in Item /\ worker[w] \in Worker
          /\ ItemOK(i) /\ WorkerOK(w) /\ KeyOK(i[1]) /\ item[i].state # "none"
  BY <1>1, AtWork
<1>3. CASE Owns(w)
  <2> DEFINE s == "succeeded"
             g == 0
             o == "suppressed"
  <2>1. /\ s \in Terminal \cup {"retry_scheduled"} /\ g \in {0, item[i].generation}
        /\ o \in {item[i].outcome, "deleted", "suppressed"} /\ o = "suppressed"
    BY DEF Terminal
  <2>2. item' = [item EXCEPT ![i].state = s, ![i].leased = FALSE, ![i].generation = g,
                             ![i].outcome = o]
    BY <1>2, <1>3 DEF Suppress
  <2>3. Attached(i[1])
    BY <1>1, <1>2, <1>3 DEF WorkerOK
  <2> HIDE DEF s, g, o
  <2> QED
    BY <1>1, <1>2, <1>3, <2>1, <2>2, <2>3, EndedInv
<1>4. CASE ~Owns(w)
  <2>1. UNCHANGED item
    BY <1>4 DEF Suppress
  <2> QED
    BY <1>1, <2>1, RestInv DEF database
<1> QED
  BY <1>3, <1>4

LEMMA FailInv ==
    ASSUME Inv, NEW w \in Workers, Fail(w)
    PROVE  Inv'
<1>1. /\ worker[w].phase = "failing" /\ worker' = Rest(w)
      /\ UNCHANGED <<upload, stored, aged, source, document, job, deleter, candidate>>
  BY DEF Fail
<1>2. PICK i \in Items :
          /\ worker[w].item = i /\ i[1] \in Uploads
          /\ item \in [Items -> Item] /\ worker \in [Workers -> Worker]
          /\ item[i] \in Item /\ worker[w] \in Worker
          /\ ItemOK(i) /\ WorkerOK(w) /\ KeyOK(i[1]) /\ item[i].state # "none"
  BY <1>1, AtWork
<1>3. CASE Owns(w)
  <2> DEFINE s == IF worker[w].attempt < MaxAttempts THEN "retry_scheduled" ELSE "failed"
             g == item[i].generation
             o == item[i].outcome
  <2>1. /\ s \in Terminal \cup {"retry_scheduled"} /\ g \in {0, item[i].generation}
        /\ o \in {item[i].outcome, "deleted", "suppressed"} /\ o = item[i].outcome
    BY DEF Terminal
  <2>2. item' = [item EXCEPT ![i].leased = FALSE, ![i].state = s]
    BY <1>2, <1>3 DEF Fail
  <2> HIDE DEF s
  <2>3. item' = [item EXCEPT ![i].state = s, ![i].leased = FALSE, ![i].generation = g,
                             ![i].outcome = o]
    BY <1>2, <2>2, <2>1 DEF Item
  <2> HIDE DEF g, o
  <2> QED
    BY <1>1, <1>2, <1>3, <2>1, <2>3, EndedInv
<1>4. CASE ~Owns(w)
  <2>1. UNCHANGED item
    BY <1>4 DEF Fail
  <2> QED
    BY <1>1, <2>1, RestInv DEF database
<1> QED
  BY <1>3, <1>4

LEMMA RunInv ==
    ASSUME Inv, NEW w \in Workers, Run(w) \/ WorkerDies(w)
    PROVE  Inv'
<1>1. ASSUME WorkerDies(w) PROVE Inv'
  BY <1>1, RestInv DEF WorkerDies
<1> QED
  BY <1>1, ClaimInv, HeadInv, PrepareDeleteInv, RevalidateDeleteInv, DeleteInv, CompleteInv,
     SuppressInv, FailInv DEF Run

----------------------------------------------------------------------------
\* The deletion of the source of an old version.

LEMMA HardStepInv ==
    ASSUME Inv, UNCHANGED <<upload, aged, document, job, item, worker, candidate>>,
           \/ stored' = stored
           \/ \E c \in Contents : stored' = stored \ {source[c].key},
           source' \in [Contents -> [key : Uploads \cup {None}, deleted : BOOLEAN]],
           \A c \in Contents : source'[c].key = source[c].key,
           \A c \in Contents : source[c].deleted => source'[c].deleted,
           deleter' \in [phase : {"idle", "prepared", "deleting", "completing"},
                         content : Contents \cup {None}],
           DeleterOK', ServedKeepsSource'
    PROVE  Inv'
<1>1. Types'
  BY DEF Inv, Types
<1>2. /\ stored' \subseteq stored
      /\ \A k \in Uploads : k \in stored /\ k \notin stored' => Dispensable(k)
      /\ \A k \in Uploads : Attached(k)' = Attached(k) /\ (Referenced(k)' => Referenced(k))
  BY DEF Dispensable, Attached, Referenced
<1>3. Grows
  BY <1>2 DEF Grows, Over, Settled, InWindow
<1>4. ASSUME NEW k \in Uploads PROVE KeyOK(k)'
  BY <1>2 DEF Inv, KeyOK, Over, Settled, Dispensable, InWindow
<1>5. ASSUME NEW i \in Items PROVE ItemOK(i)' /\ Moves(i)
  BY <1>3, ItemCarried DEF SameItem, Moves, Inv, Types, Item
<1>6. /\ \A w \in Workers : WorkerOK(w)'
      /\ \A v, w \in Workers : v # w => Distinct(v, w)'
  BY <1>1, <1>3, <1>5, WorkersCarried
<1>7. \A c \in Contents : ContentOK(c)'
  BY DEF Inv, ContentOK
<1> QED
  BY <1>1, <1>4, <1>5, <1>6, <1>7 DEF Inv

LEMMA HardDeletionInv ==
    ASSUME Inv, HardDeletion
    PROVE  Inv'
<1>1. /\ source \in [Contents -> [key : Uploads \cup {None}, deleted : BOOLEAN]]
      /\ deleter \in [phase : {"idle", "prepared", "deleting", "completing"},
                       content : Contents \cup {None}]
      /\ IdleDeleter \in [phase : {"idle", "prepared", "deleting", "completing"},
                           content : Contents \cup {None}]
      /\ IdleDeleter.phase = "idle" /\ DeleterOK /\ ServedKeepsSource
  BY DEF Inv, Types, IdleDeleter
<1>2. ASSUME NEW c \in Contents, PrepareHardDelete(c) PROVE Inv'
  <2>1. UNCHANGED <<upload, stored, aged, database, worker, candidate>>
    BY <1>2 DEF PrepareHardDelete
  <2>2. /\ deleter' \in [phase : {"idle", "prepared", "deleting", "completing"},
                          content : Contents \cup {None}]
        /\ DeleterOK'
    BY <1>1, <1>2 DEF PrepareHardDelete, HardDeleteable, DeleterOK, database
  <2> QED
    BY <1>1, <2>1, <2>2, HardStepInv DEF database, ServedKeepsSource
<1>3. ASSUME RevalidateHardDelete \/ DeleterDies PROVE Inv'
  <2>1. UNCHANGED <<upload, stored, aged, database, worker, candidate>>
    BY <1>3 DEF RevalidateHardDelete, DeleterDies
  <2>2. deleter.phase # "idle"
        /\ (deleter' = IdleDeleter \/ deleter' = [deleter EXCEPT !.phase = "deleting"])
    BY <1>3 DEF RevalidateHardDelete, DeleterDies
  <2>3. /\ deleter' \in [phase : {"idle", "prepared", "deleting", "completing"},
                          content : Contents \cup {None}]
        /\ DeleterOK'
    BY <1>1, <2>1, <2>2 DEF DeleterOK, database
  <2> QED
    BY <1>1, <2>1, <2>3, HardStepInv DEF database, ServedKeepsSource
<1>4. ASSUME HardDelete PROVE Inv'
  <2>1. /\ UNCHANGED <<upload, aged, database, worker, candidate>>
        /\ deleter.content \in Contents /\ stored' = stored \ {source[deleter.content].key}
    BY <1>1, <1>4 DEF HardDelete, DeleterOK
  <2>2. /\ deleter' \in [phase : {"idle", "prepared", "deleting", "completing"},
                          content : Contents \cup {None}]
        /\ DeleterOK'
    BY <1>1, <1>4, <2>1 DEF HardDelete, DeleterOK, database
  <2> QED
    BY <1>1, <2>1, <2>2, HardStepInv DEF database, ServedKeepsSource
<1>5. ASSUME CompleteHardDelete PROVE Inv'
  <2>1. /\ UNCHANGED <<upload, stored, aged, document, job, item, worker, candidate>>
        /\ deleter.content \in Contents /\ deleter' = IdleDeleter
    BY <1>1, <1>5 DEF CompleteHardDelete, DeleterOK
  <2>2. /\ source' \in [Contents -> [key : Uploads \cup {None}, deleted : BOOLEAN]]
        /\ \A c \in Contents :
               /\ source'[c].key = source[c].key
               /\ source[c].deleted => source'[c].deleted
               /\ document.active = c => source'[c].deleted = source[c].deleted
    <3>1. CASE HardDeleteable(deleter.content)
      BY <1>1, <1>5, <2>1, <3>1 DEF CompleteHardDelete, HardDeleteable
    <3>2. CASE ~HardDeleteable(deleter.content)
      BY <1>1, <1>5, <3>2 DEF CompleteHardDelete
    <3> QED
      BY <3>1, <3>2
  <2>3. DeleterOK'
    BY <1>1, <2>1 DEF DeleterOK
  <2>4. ServedKeepsSource'
    BY <1>1, <2>1, <2>2 DEF ServedKeepsSource, Inv, Types
  <2> QED
    BY <1>1, <2>1, <2>2, <2>3, <2>4, HardStepInv
<1> QED
  BY <1>2, <1>3, <1>4, <1>5 DEF HardDeletion

----------------------------------------------------------------------------
LEMMA NextInv == Inv /\ [Next]_vars => Inv'
<1> SUFFICES ASSUME Inv, [Next]_vars PROVE Inv'
  OBVIOUS
<1>1. ASSUME NEW u \in Uploads, UploadStep(u) \/ Age(u) PROVE Inv'
  BY <1>1, StoreInv, SubmissionInv, ScheduleCleanupInv, ClassifyInv, AgeInv DEF UploadStep
<1>2. ASSUME UNCHANGED vars PROVE Inv'
  <2> USE <1>2 DEF vars, database
  <2>1. \A k \in Uploads : KeyOK(k)'
    BY DEF Inv, KeyOK, Attached, Over, Settled, Dispensable, InWindow
  <2>2. \A i \in Items : ItemOK(i)'
    BY DEF Inv, ItemOK, Attached
  <2>3. \A w \in Workers : WorkerOK(w)'
    BY DEF Inv, WorkerOK, Owns, Attached, Free, Over, Referenced, Dispensable, InWindow
  <2>4. \A v, w \in Workers : v # w => Distinct(v, w)'
    BY DEF Inv, Distinct
  <2> QED
    BY <2>1, <2>2, <2>3, <2>4 DEF Inv, Types, ContentOK, DeleterOK, ServedKeepsSource
<1> QED
  BY <1>1, <1>2, FinishJobInv, CiteInv, TimeInv, ReconcileInv, RunInv, HardDeletionInv DEF Next

\* The argument of the module holds in every state that is reached.
THEOREM Invariance == Spec => []Inv
<1> QED
  BY InitInv, NextInv, PTL DEF Spec

\* A worker that is about to delete holds a key no live row refers to, if no upload outlasts
\* the minimum age of an orphan: between the check that revalidates a deletion and the call
\* that deletes, no submission attaches the key.
THEOREM UnownedDeleted ==
    ASSUME ~SlowUploads
    PROVE  Spec => []OnlyUnownedDeleted
<1>1. Inv => OnlyUnownedDeleted
  BY DEF Inv, WorkerOK, Free, Referenced, OnlyUnownedDeleted
<1> QED
  BY <1>1, Invariance, PTL

\* The file of a failed upload is there while its diagnostic window is open, under the same
\* condition: neither the worker nor the reconciler takes it.
THEOREM WindowKeepsFile ==
    ASSUME ~SlowUploads
    PROVE  Spec => []DiagnosticsKept
<1>1. Inv => DiagnosticsKept
  <2> SUFFICES ASSUME Inv, NEW k \in Uploads, InWindow(k), ~Attached(k)
               PROVE  k \in stored
    BY DEF DiagnosticsKept, Attached
  <2> DEFINE i == <<k, "failed_upload_diagnostic">>
  <2>1. i \in Items /\ i[1] = k /\ item[i].window
    BY DEF Items, Classes, InWindow
  <2>2. upload[k].phase # "new"
    BY <2>1 DEF Inv, ItemOK
  <2> QED
    BY <2>2 DEF Inv, KeyOK, Dispensable
<1> QED
  BY <1>1, Invariance, PTL

\* An item tells the truth of the file, whatever worker comes back to an item it has lost.
THEOREM ToldTruly == Spec => []OutcomeIsTrue
<1>1. Inv => OutcomeIsTrue
  BY DEF Inv, ItemOK, Attached, OutcomeIsTrue
<1> QED
  BY <1>1, Invariance, PTL

\* The active version has its source row: a hard deletion that was prepared asks again, in the
\* transaction that completes it, whether a job has activated the version meanwhile.
THEOREM ServedVersionKept == Spec => []ServedKeepsSource
<1>1. Inv => ServedKeepsSource
  BY DEF Inv
<1> QED
  BY <1>1, Invariance, PTL
=============================================================================
