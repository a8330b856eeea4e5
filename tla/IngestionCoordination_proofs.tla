-------------------- MODULE IngestionCoordination_proofs --------------------
(***************************************************************************)
(* Proofs about IngestionCoordination, for every number of workers,        *)
(* versions, attempts, requests and faults: the inductive invariant, what  *)
(* the steps do to the jobs, and what follows for the Document.            *)
(***************************************************************************)
EXTENDS IngestionCoordination, TLAPS

\* The job rows and the attempt history, typed and in agreement.
Ledger ==
    /\ job \in [Jobs -> JobRow]
    /\ attempt \in [Jobs -> [1..MaxAttempts -> AttemptRow]]
    /\ AttemptMirrorsJob
    /\ HistoryExplainsJob

-----------------------------------------------------------------------------
(* What the durable effects do to the job rows and the attempt history      *)

\* A step that touches one job only has to be examined at that job.
LEMMA OneJobChanges ==
    ASSUME Ledger, NEW j \in Jobs, NEW row \in JobRow,
           NEW rows \in [1..MaxAttempts -> AttemptRow],
           job' = [job EXCEPT ![j] = row],
           attempt' = [attempt EXCEPT ![j] = rows],
           Mirrored(j)', Explained(j)'
    PROVE  Ledger'
<1>1. /\ job' \in [Jobs -> JobRow]
      /\ attempt' \in [Jobs -> [1..MaxAttempts -> AttemptRow]]
  BY DEF Ledger
<1>2. ASSUME NEW k \in Jobs PROVE Mirrored(k)' /\ Explained(k)'
  <2>1. CASE k = j
    BY <2>1
  <2>2. CASE k # j
    <3>1. job'[k] = job[k] /\ attempt'[k] = attempt[k]
      BY <2>2 DEF Ledger
    <3>2. Mirrored(k) /\ Explained(k)
      BY DEF Ledger, AttemptMirrorsJob, HistoryExplainsJob
    <3> QED BY <3>1, <3>2 DEF Mirrored, Explained, LastAttempt
  <2> QED BY <2>1, <2>2
<1> QED BY <1>1, <1>2 DEF Ledger, AttemptMirrorsJob, HistoryExplainsJob

\* Type facts that the provers need in small pieces.
LEMMA Domains ==
    /\ MaxAttempts \in Nat
    /\ 0 \in 0..MaxAttempts /\ 0 \in 0..MaxBeats /\ 0 \in Nat
    /\ {"absent", "queued", "processing", "retry_scheduled"} \cup Terminal \subseteq Status
BY BudgetAssumption, BoundAssumption DEF Status

LEMMA ReleasedTyped ==
    ASSUME NEW row \in JobRow, NEW status \in Status, NEW left \in Nat
    PROVE  [row EXCEPT !.status = status, !.worker = None, !.current = 0,
                       !.leaseLeft = 0, !.nextLeft = left] \in JobRow
BY Domains DEF JobRow

LEMMA ClosedTyped ==
    ASSUME NEW rows \in [1..MaxAttempts -> AttemptRow], NEW n \in 1..MaxAttempts,
           NEW disposition \in Disposition
    PROVE  [rows EXCEPT ![n].disposition = disposition] \in [1..MaxAttempts -> AttemptRow]
<1>1. [rows[n] EXCEPT !.disposition = disposition] \in AttemptRow
  BY DEF AttemptRow
<1> QED BY <1>1

\* Closing the current attempt of a processing job keeps the ledger, if the job takes
\* the status that the disposition explains and keeps no lease.
LEMMA CloseKeepsLedger ==
    ASSUME Ledger, NEW j \in Jobs, NEW n, NEW status \in Status, NEW left \in Nat,
           NEW disposition \in Disposition \ {"absent", "open"},
           job[j].status = "processing", n = job[j].current,
           job' = [job EXCEPT ![j] = Released(j, status, left)],
           attempt' = [attempt EXCEPT ![j][n].disposition = disposition],
           \/ /\ status = "retry_scheduled" /\ disposition = "retry_scheduled"
              /\ job[j].attemptCount < MaxAttempts
           \/ /\ status \in {"succeeded", "superseded"} /\ disposition = status
           \/ /\ status = "failed" /\ disposition = "failed"
           \/ /\ status = "failed" /\ disposition = "exhausted"
              /\ job[j].attemptCount = MaxAttempts
    PROVE  Ledger'
<1> DEFINE row == Released(j, status, left)
           rows == [attempt[j] EXCEPT ![n].disposition = disposition]
<1>1. /\ job \in [Jobs -> JobRow]
      /\ attempt \in [Jobs -> [1..MaxAttempts -> AttemptRow]]
      /\ Mirrored(j) /\ Explained(j)
  BY DEF Ledger, AttemptMirrorsJob, HistoryExplainsJob
<1>2. job[j] \in JobRow /\ attempt[j] \in [1..MaxAttempts -> AttemptRow]
  BY <1>1
<1>3. n \in 1..MaxAttempts /\ n = job[j].attemptCount
  BY <1>1 DEF Mirrored
<1>4. /\ job' = [job EXCEPT ![j] = row]
      /\ attempt' = [attempt EXCEPT ![j] = rows]
  OBVIOUS
<1>5. row \in JobRow /\ rows \in [1..MaxAttempts -> AttemptRow]
  BY <1>2, <1>3, ReleasedTyped, ClosedTyped DEF Released
<1>6. /\ job'[j] = row
      /\ attempt'[j] = rows
  BY <1>1, <1>4
<1>7. /\ row.status = status /\ row.worker = None /\ row.current = 0
      /\ row.leaseLeft = 0 /\ row.attemptCount = job[j].attemptCount
      /\ row.leaseVersion = job[j].leaseVersion
  BY <1>2 DEF JobRow, Released
<1>8. /\ rows[n] = [attempt[j][n] EXCEPT !.disposition = disposition]
      /\ rows[n].disposition = disposition /\ rows[n].lease = attempt[j][n].lease
      /\ \A m \in 1..MaxAttempts : m # n => rows[m] = attempt[j][m]
  BY <1>2, <1>3 DEF AttemptRow
<1>9. Mirrored(j)'
  BY <1>1, <1>3, <1>6, <1>7, <1>8 DEF Mirrored
<1>10. Explained(j)'
  <2> USE <1>1, <1>3, <1>6, <1>7, <1>8, Domains
  <2>1. job'[j].leaseVersion = job'[j].attemptCount
    BY DEF Explained
  <2>2. ASSUME NEW m \in 1..MaxAttempts
        PROVE  /\ m < n => attempt'[j][m].disposition = "retry_scheduled"
               /\ m <= n => attempt'[j][m].lease = m
               /\ m > n => attempt'[j][m] = AbsentAttempt
               /\ attempt'[j][m].disposition = "exhausted" => m = MaxAttempts
    <3>1. CASE m = n
      BY <3>1 DEF Explained
    <3>2. CASE m # n
      BY <3>2 DEF Explained
    <3> QED BY <3>1, <3>2
  <2>3. LastAttempt(j)' = disposition
    BY DEF LastAttempt
  <2> QED BY <2>1, <2>2, <2>3 DEF Explained, Terminal
<1> QED BY <1>4, <1>5, <1>9, <1>10, OneJobChanges


-----------------------------------------------------------------------------
(* The inductive invariant                                                  *)

\* The states of one worker process: what each phase says about the logical operation
\* in hand, and that an observation names an attempt.
Shape(s) ==
    /\ s.phase = "polling" => s.task = "claim"
    /\ s.phase = "recovering" => s.task = "recover"
    /\ s.phase \in {"finishing", "closing", "publishing", "confirmed"} => s.task \in FinishTasks
    /\ s.phase \in {"running", "beating"} => s.task = "none"
    /\ s.phase = "reading_back" => s.task # "none"
    /\ s.task = "recover" /\ (s.phase = "recovering" \/ ~s.durable) =>
         s.job \in Jobs /\ s.number \in 1..MaxAttempts

Transacting(s) == s.phase \in {"beating", "closing", "publishing", "confirmed"}

Claims(s) ==
    \/ s.phase \in {"running", "beating", "finishing", "closing", "publishing", "confirmed"}
    \/ /\ s.phase = "reading_back"
       /\ \/ s.durable /\ s.task = "claim"
          \/ ~s.durable /\ s.task \in FinishTasks

HasRow(w, s) ==
    /\ s.job \in Jobs
    /\ s.number \in 1..MaxAttempts
    /\ attempt[s.job][s.number].worker = w
    /\ attempt[s.job][s.number].lease = s.lease
    /\ s.task = "retry" => s.number < MaxAttempts
    /\ s.task = "exhaust" => s.number = MaxAttempts

WorkersOK ==
    /\ worker \in [Workers -> WorkerState]
    /\ \A w \in Workers :
         Shape(worker[w]) /\ (Claims(worker[w]) => HasRow(w, worker[w]))

RequestOK ==
    /\ request \in RequestState
    /\ request.phase = "linking" =>
         /\ request.job \in Jobs /\ request.version \in Versions
         /\ request.existing <=> job[request.job].status # "absent"

RestTyped ==
    /\ document \in [current : Versions \cup {None}, active : Versions \cup {None},
                     published : SUBSET Versions]
    /\ admission \in [Jobs -> BOOLEAN]
    /\ cleanup \in SUBSET Jobs
    /\ requests \in 0..MaxRequests
    /\ faults \in 0..MaxFaults

\* A heartbeat in flight found room for one more renewal.
RenewalBounded ==
    \A w \in Workers :
        worker[w].phase = "beating" => job[worker[w].job].beats < MaxBeats

Inv == Ledger /\ WorkersOK /\ ExclusiveRow /\ RenewalBounded /\ RequestOK /\ RestTyped

\* Attempt rows are written once: their worker and lease version stay.
RowsKept ==
    \A j \in Jobs, n \in 1..MaxAttempts :
        attempt[j][n].worker # None =>
            /\ attempt'[j][n].worker = attempt[j][n].worker
            /\ attempt'[j][n].lease = attempt[j][n].lease

\* A step of one worker keeps the invariant if it keeps the ledger, leaves the rows that
\* other transactions hold alone, and takes its worker to a state that is in order.
LEMMA WorkerMoves ==
    ASSUME Inv, Ledger', RestTyped', RowsKept, UNCHANGED clientVars,
           NEW w \in Workers, NEW s \in WorkerState, Become(w, s), Shape(s),
           Claims(s) => HasRow(w, s)',
           Transacting(s) =>
             /\ s.job \in Jobs /\ TokenOf(s.job, w, s.number, s.lease)'
             /\ s.phase = "beating" => job'[s.job].beats < MaxBeats
             /\ \A u \in Workers \ {w} : InTransaction(u) => worker[u].job # s.job,
           \A u \in Workers \ {w} :
               InTransaction(u) => job'[worker[u].job] = job[worker[u].job],
           \A k \in Jobs : job'[k].status = "absent" <=> job[k].status = "absent"
    PROVE  Inv'
<1>1. /\ worker' = [worker EXCEPT ![w] = s]
      /\ worker \in [Workers -> WorkerState]
  BY DEF Become, Inv, WorkersOK
<1>2. worker'[w] = s /\ \A u \in Workers \ {w} : worker'[u] = worker[u]
  BY <1>1
<1>3. WorkersOK'
  <2>1. worker' \in [Workers -> WorkerState]
    BY <1>1
  <2>2. ASSUME NEW u \in Workers \ {w}
        PROVE  Shape(worker[u]) /\ (Claims(worker[u]) => HasRow(u, worker[u])')
    <3>1. Shape(worker[u]) /\ (Claims(worker[u]) => HasRow(u, worker[u]))
      BY DEF Inv, WorkersOK
    <3>2. u # None
      BY NoneAssumption
    <3>3. ASSUME HasRow(u, worker[u]) PROVE HasRow(u, worker[u])'
      <4>1. /\ worker[u].job \in Jobs /\ worker[u].number \in 1..MaxAttempts
            /\ attempt[worker[u].job][worker[u].number].worker # None
        BY <3>2, <3>3 DEF HasRow
      <4>2. /\ attempt'[worker[u].job][worker[u].number].worker = u
            /\ attempt'[worker[u].job][worker[u].number].lease = worker[u].lease
        BY <3>3, <4>1 DEF RowsKept, HasRow
      <4>3. worker'[u] = worker[u]
        BY <1>2
      <4> QED BY <3>3, <4>1, <4>2, <4>3 DEF HasRow
    <3> QED BY <3>1, <3>3
  <2>3. ASSUME NEW u \in Workers
        PROVE  Shape(worker'[u]) /\ (Claims(worker'[u]) => HasRow(u, worker[u])')
    <3>1. CASE u = w
      BY <1>2, <3>1 DEF HasRow
    <3>2. CASE u # w
      BY <1>2, <2>2, <3>2 DEF HasRow
    <3> QED BY <3>1, <3>2
  <2> QED BY <2>1, <2>3 DEF WorkersOK
<1>4. ExclusiveRow'
  <2>1. \A u \in Workers \ {w} : InTransaction(u)' <=> InTransaction(u)
    BY <1>2 DEF InTransaction
  <2>2. InTransaction(w)' <=> Transacting(s)
    BY <1>2 DEF InTransaction, Transacting
  <2>3. ASSUME NEW u \in Workers \ {w}, InTransaction(u)
        PROVE  /\ worker[u].job \in Jobs
               /\ TokenOf(worker[u].job, u, worker[u].number, worker[u].lease)'
    <3>1. /\ worker[u].job \in Jobs
          /\ TokenOf(worker[u].job, u, worker[u].number, worker[u].lease)
      BY <2>3 DEF Inv, ExclusiveRow
    <3> QED BY <1>2, <2>3, <3>1 DEF TokenOf
  <2>4. ASSUME NEW u \in Workers, InTransaction(u)'
        PROVE  /\ worker'[u].job \in Jobs
               /\ TokenOf(worker[u].job, u, worker[u].number, worker[u].lease)'
    <3>1. CASE u = w
      BY <1>2, <2>2, <2>4, <3>1 DEF TokenOf
    <3>2. CASE u # w
      BY <1>2, <2>1, <2>3, <2>4, <3>2 DEF TokenOf
    <3> QED BY <3>1, <3>2
  <2>5. ASSUME NEW u \in Workers, NEW x \in Workers \ {u}, InTransaction(u)',
               InTransaction(x)'
        PROVE  worker'[x].job # worker'[u].job
    <3>1. CASE u = w
      BY <1>2, <2>1, <2>2, <2>5, <3>1
    <3>2. CASE x = w
      BY <1>2, <2>1, <2>2, <2>5, <3>2
    <3>3. CASE u # w /\ x # w
      BY <1>2, <2>1, <2>5, <3>3 DEF Inv, ExclusiveRow
    <3> QED BY <3>1, <3>2, <3>3
  <2> QED BY <2>4, <2>5 DEF ExclusiveRow
<1>5. RequestOK'
  BY DEF Inv, RequestOK, clientVars
<1>6. RenewalBounded'
  <2>1. ASSUME NEW u \in Workers, worker'[u].phase = "beating"
        PROVE  job'[worker'[u].job].beats < MaxBeats
    <3>1. CASE u = w
      BY <1>2, <2>1, <3>1 DEF Transacting
    <3>2. CASE u # w
      <4>1. InTransaction(u) /\ worker[u].phase = "beating" /\ worker'[u] = worker[u]
        BY <1>2, <2>1, <3>2 DEF InTransaction
      <4>2. job'[worker[u].job] = job[worker[u].job]
        BY <3>2, <4>1
      <4> QED BY <4>1, <4>2 DEF Inv, RenewalBounded
    <3> QED BY <3>1, <3>2
  <2> QED BY <2>1 DEF RenewalBounded
<1> QED BY <1>3, <1>4, <1>5, <1>6 DEF Inv

-----------------------------------------------------------------------------
(* Steps of a worker that write nothing durable                             *)

LEMMA FaultCounted ==
    ASSUME Inv, UNCHANGED faults \/ Fault
    PROVE  faults' \in 0..MaxFaults
BY BoundAssumption DEF Inv, RestTyped, Fault

LEMMA LocalMove ==
    ASSUME Inv, UNCHANGED <<durableVars, clientVars>>, UNCHANGED faults \/ Fault,
           NEW w \in Workers, NEW s \in WorkerState, Become(w, s), Shape(s),
           Claims(s) => HasRow(w, s),
           Transacting(s) =>
             /\ s.job \in Jobs /\ TokenOf(s.job, w, s.number, s.lease)
             /\ s.phase = "beating" => job[s.job].beats < MaxBeats
             /\ \A u \in Workers \ {w} : InTransaction(u) => worker[u].job # s.job
    PROVE  Inv'
<1>1. UNCHANGED <<job, attempt, document, admission, cleanup, request, requests>>
  BY DEF durableVars, clientVars
<1>2. Ledger'
  <2>1. ASSUME NEW k \in Jobs PROVE Mirrored(k)' /\ Explained(k)'
    <3>1. Mirrored(k) /\ Explained(k)
      BY DEF Inv, Ledger, AttemptMirrorsJob, HistoryExplainsJob
    <3> QED BY <1>1, <3>1 DEF Mirrored, Explained, LastAttempt
  <2> QED BY <1>1, <2>1 DEF Inv, Ledger, AttemptMirrorsJob, HistoryExplainsJob
<1>3. RestTyped'
  BY <1>1, FaultCounted DEF Inv, RestTyped
<1>4. /\ HasRow(w, s) => HasRow(w, s)'
      /\ job'[s.job].beats = job[s.job].beats
  BY <1>1 DEF HasRow
<1>5. s.job \in Jobs /\ TokenOf(s.job, w, s.number, s.lease)
        => TokenOf(s.job, w, s.number, s.lease)'
  BY <1>1 DEF TokenOf
<1>6. RowsKept
  BY <1>1 DEF RowsKept
<1> QED BY <1>1, <1>2, <1>3, <1>4, <1>5, <1>6, WorkerMoves DEF clientVars

\* A worker that has nothing in hand.
LEMMA NothingInHand ==
    ASSUME NEW phase \in Dead \cup {"idle"}
    PROVE  LET s == [IdleWorker EXCEPT !.phase = phase] IN
           s \in WorkerState /\ Shape(s) /\ ~Claims(s) /\ ~Transacting(s)
<1> DEFINE s == [IdleWorker EXCEPT !.phase = phase]
<1>1. s = [IdleWorker EXCEPT !.phase = phase] /\ s.phase = phase /\ s.task = "none"
  BY DEF IdleWorker
<1>2. s \in WorkerState
  BY Domains DEF IdleWorker, WorkerState, Phases, Tasks, Dead
<1>3. Shape(s) /\ ~Claims(s) /\ ~Transacting(s)
  BY <1>1 DEF Shape, Claims, Transacting, Dead
<1> QED BY <1>2, <1>3

LEMMA IdleInHand ==
    IdleWorker \in WorkerState /\ Shape(IdleWorker) /\ ~Claims(IdleWorker)
      /\ ~Transacting(IdleWorker)
BY Domains DEF IdleWorker, WorkerState, Phases, Tasks, Shape, Claims, Transacting

LEMMA PollingInHand ==
    LET s == [IdleWorker EXCEPT !.phase = "polling", !.task = "claim"] IN
    s \in WorkerState /\ Shape(s) /\ ~Claims(s) /\ ~Transacting(s)
BY Domains DEF IdleWorker, WorkerState, Phases, Tasks, Shape, Claims, Transacting

LEMMA WorkerTyped ==
    ASSUME Inv, NEW w \in Workers
    PROVE  /\ worker[w] \in WorkerState
           /\ Shape(worker[w])
           /\ Claims(worker[w]) => HasRow(w, worker[w])
BY DEF Inv, WorkersOK

LEMMA LosesEverything ==
    ASSUME Inv, UNCHANGED <<durableVars, clientVars>>, UNCHANGED faults \/ Fault,
           NEW w \in Workers, NEW phase \in Dead \cup {"idle"},
           Become(w, [IdleWorker EXCEPT !.phase = phase])
    PROVE  Inv'
BY NothingInHand, LocalMove

LEMMA BecomesIdle ==
    ASSUME Inv, UNCHANGED <<durableVars, clientVars>>, UNCHANGED faults \/ Fault,
           NEW w \in Workers, Become(w, IdleWorker)
    PROVE  Inv'
BY IdleInHand, LocalMove

LEMMA BecomesPolling ==
    ASSUME Inv, UNCHANGED <<durableVars, clientVars>>, UNCHANGED faults \/ Fault,
           NEW w \in Workers, Become(w, [IdleWorker EXCEPT !.phase = "polling", !.task = "claim"])
    PROVE  Inv'
BY PollingInHand, LocalMove

LEMMA OwnedJob ==
    ASSUME Inv, NEW w \in Workers, Owns(w)
    PROVE  /\ worker[w].job \in Jobs
           /\ worker[w].number = job[worker[w].job].current
           /\ worker[w].number = job[worker[w].job].attemptCount
           /\ worker[w].number \in 1..MaxAttempts
           /\ job[worker[w].job].status = "processing"
           /\ TokenOf(worker[w].job, w, worker[w].number, worker[w].lease)
BY DEF Owns, TokenOf, Inv, Ledger, AttemptMirrorsJob, Mirrored

LEMMA ObserveExpiredKeeps ==
    ASSUME Inv, NEW w \in Workers, ObserveExpired(w)
    PROVE  Inv'
<1>1. UNCHANGED <<durableVars, clientVars>> /\ UNCHANGED faults
  BY DEF ObserveExpired
<1>2. CASE Become(w, [IdleWorker EXCEPT !.phase = "polling", !.task = "claim"])
  BY <1>1, <1>2, BecomesPolling
<1>3. ASSUME NEW j \in Jobs, Expired(j), Become(w, Observed(w, j))
      PROVE  Inv'
  <2> DEFINE s == Observed(w, j)
  <2>1. job[j] \in JobRow /\ Mirrored(j)
    BY DEF Inv, Ledger, AttemptMirrorsJob
  <2>2. job[j].current \in 1..MaxAttempts
    BY <1>3, <2>1 DEF Expired, Mirrored
  <2>3. /\ job[j].current \in 0..MaxAttempts /\ job[j].leaseVersion \in 0..MaxAttempts
        /\ job[j].beats \in 0..MaxBeats
    BY <2>1 DEF JobRow
  <2>4. /\ s.phase = "recovering" /\ s.job = j /\ s.number = job[j].current
        /\ s.task = "recover"
    BY DEF Observed, IdleWorker
  <2>5. s \in WorkerState
    BY <2>3, Domains DEF Observed, IdleWorker, WorkerState, Phases, Tasks
  <2>6. Shape(s) /\ ~Claims(s) /\ ~Transacting(s)
    BY <2>2, <2>4 DEF Shape, Claims, Transacting
  <2> QED BY <1>1, <1>3, <2>5, <2>6, LocalMove
<1> QED BY <1>2, <1>3 DEF ObserveExpired

LEMMA BeginHeartbeatKeeps ==
    ASSUME Inv, NEW w \in Workers, BeginHeartbeat(w)
    PROVE  Inv'
<1>1. UNCHANGED <<durableVars, clientVars>> /\ UNCHANGED faults
  BY DEF BeginHeartbeat
<1>2. CASE Become(w, IdleWorker)
  BY <1>1, <1>2, BecomesIdle
<1>3. ASSUME Owns(w), job[worker[w].job].beats < MaxBeats,
             Become(w, [worker[w] EXCEPT !.phase = "beating", !.left = LeaseDuration])
      PROVE  Inv'
  <2> DEFINE s == [worker[w] EXCEPT !.phase = "beating", !.left = LeaseDuration]
  <2>1. worker[w] \in WorkerState /\ Shape(worker[w]) /\ HasRow(w, worker[w])
    BY WorkerTyped DEF BeginHeartbeat, Claims
  <2>2. worker[w].task = "none"
    BY <2>1 DEF BeginHeartbeat, Shape
  <2>3. /\ s \in WorkerState /\ s.phase = "beating" /\ s.job = worker[w].job
        /\ s.number = worker[w].number /\ s.lease = worker[w].lease
        /\ s.task = worker[w].task
    BY <2>1, TimingAssumption DEF WorkerState, Phases
  <2>4. Shape(s) /\ HasRow(w, s)
    BY <2>1, <2>2, <2>3 DEF Shape, HasRow
  <2>5. /\ s.job \in Jobs /\ TokenOf(s.job, w, s.number, s.lease)
        /\ job[s.job].beats < MaxBeats
    BY <1>3, <2>3, OwnedJob
  <2>6. \A u \in Workers \ {w} : InTransaction(u) => worker[u].job # s.job
    BY <2>3 DEF BeginHeartbeat, RowFree, Locked
  <2> QED BY <1>1, <1>3, <2>3, <2>4, <2>5, <2>6, LocalMove
<1> QED BY <1>2, <1>3 DEF BeginHeartbeat

LEMMA HeartbeatFailsKeeps ==
    ASSUME Inv, NEW w \in Workers, HeartbeatFails(w)
    PROVE  Inv'
<1>1. UNCHANGED <<durableVars, clientVars>> /\ Fault
  BY DEF HeartbeatFails
<1>2. CASE Become(w, [IdleWorker EXCEPT !.phase = "indeterminate"])
  BY <1>1, <1>2, LosesEverything DEF Dead
<1>3. CASE Become(w, [worker[w] EXCEPT !.phase = "running", !.left = 0])
  <2> DEFINE s == [worker[w] EXCEPT !.phase = "running", !.left = 0]
  <2>1. worker[w] \in WorkerState /\ Shape(worker[w]) /\ HasRow(w, worker[w])
    BY WorkerTyped DEF HeartbeatFails, Claims
  <2>2. /\ s \in WorkerState /\ s.phase = "running" /\ s.job = worker[w].job
        /\ s.number = worker[w].number /\ s.lease = worker[w].lease
        /\ s.task = worker[w].task /\ s.task = "none"
    BY <2>1 DEF WorkerState, Phases, HeartbeatFails, Shape
  <2>3. Shape(s) /\ HasRow(w, s) /\ ~Transacting(s)
    BY <2>1, <2>2 DEF Shape, HasRow, Transacting
  <2> QED BY <1>1, <1>3, <2>2, <2>3, LocalMove
<1> QED BY <1>2, <1>3 DEF HeartbeatFails

LEMMA HandlerEndsKeeps ==
    ASSUME Inv, NEW w \in Workers, HandlerEnds(w)
    PROVE  Inv'
<1>1. UNCHANGED <<durableVars, clientVars>> /\ UNCHANGED faults
  BY DEF HandlerEnds
<1>2. PICK outcome \in {"success", "retryable", "terminal"} :
        Become(w, [worker[w] EXCEPT !.phase = "finishing",
                                    !.task = AfterHandler(outcome, worker[w].number)])
  BY DEF HandlerEnds
<1> DEFINE task == AfterHandler(outcome, worker[w].number)
           s == [worker[w] EXCEPT !.phase = "finishing", !.task = task]
<1>3. worker[w] \in WorkerState /\ HasRow(w, worker[w])
  BY WorkerTyped DEF HandlerEnds, Claims
<1>4. worker[w].number \in 1..MaxAttempts
  BY <1>3 DEF HasRow
<1>5. /\ task \in FinishTasks
      /\ task = "retry" => worker[w].number < MaxAttempts
      /\ task = "exhaust" => worker[w].number = MaxAttempts
  BY <1>4, BudgetAssumption DEF AfterHandler, FinishTasks
<1>6. /\ s \in WorkerState /\ s.phase = "finishing" /\ s.job = worker[w].job
      /\ s.number = worker[w].number /\ s.lease = worker[w].lease /\ s.task = task
  BY <1>3, <1>5 DEF WorkerState, Phases, Tasks, FinishTasks
<1>7. Shape(s) /\ HasRow(w, s) /\ ~Transacting(s)
  BY <1>3, <1>5, <1>6 DEF Shape, HasRow, Transacting, FinishTasks
<1> QED BY <1>1, <1>2, <1>6, <1>7, LocalMove

\* The first half of a finalization: the owner's transaction now holds the row.
LEMMA BeginsFinalization ==
    ASSUME Inv, NEW w \in Workers, NEW phase \in {"closing", "publishing"}, Enter(w, phase),
           Finishing(w, FinishTasks), Owns(w), UNCHANGED <<durableVars, clientVars, faults>>
    PROVE  Inv'
<1> DEFINE s == [worker[w] EXCEPT !.phase = phase]
<1>1. UNCHANGED <<durableVars, clientVars>> /\ UNCHANGED faults
  OBVIOUS
<1>2. worker[w] \in WorkerState /\ Shape(worker[w]) /\ HasRow(w, worker[w])
  BY WorkerTyped DEF Finishing, Claims
<1>3. Become(w, s)
  BY <1>2 DEF Enter, Become, Inv, WorkersOK
<1>4. /\ s \in WorkerState /\ s.phase = phase /\ s.job = worker[w].job
      /\ s.number = worker[w].number /\ s.lease = worker[w].lease
      /\ s.task = worker[w].task /\ s.task \in FinishTasks
  BY <1>2 DEF WorkerState, Phases, Finishing
<1>5. Shape(s) /\ HasRow(w, s) /\ s.phase # "beating"
  BY <1>2, <1>4 DEF Shape, HasRow, FinishTasks
<1>6. s.job \in Jobs /\ TokenOf(s.job, w, s.number, s.lease)
  BY <1>4, OwnedJob
<1>7. \A u \in Workers \ {w} : InTransaction(u) => worker[u].job # s.job
  BY <1>4 DEF Finishing, RowFree, Locked
<1> HIDE DEF s
<1> QED BY <1>1, <1>3, <1>4, <1>5, <1>6, <1>7, LocalMove

LEMMA BeginsKeep ==
    ASSUME Inv, NEW w \in Workers, BeginRetry(w) \/ BeginFailure(w) \/ BeginSuccess(w)
    PROVE  Inv'
<1>1. CASE BeginRetry(w) \/ BeginFailure(w)
  <2>1. Enter(w, "closing") /\ Finishing(w, FinishTasks)
    BY <1>1 DEF BeginRetry, BeginFailure, Finishing, FinishTasks
  <2> QED BY <1>1, <2>1, BeginsFinalization DEF BeginRetry, BeginFailure
<1>2. CASE BeginSuccess(w)
  <2>1. Enter(w, "publishing") /\ Finishing(w, FinishTasks)
    BY <1>2 DEF BeginSuccess, Finishing, FinishTasks
  <2> QED BY <1>2, <2>1, BeginsFinalization DEF BeginSuccess
<1> QED BY <1>1, <1>2

LEMMA RollbackKeeps ==
    ASSUME Inv, NEW w \in Workers, Rollback(w),
           UNCHANGED <<durableVars, clientVars>>, UNCHANGED faults \/ Fault,
           worker[w].phase \in {"recovering", "polling", "finishing", "closing", "publishing",
                                "confirmed"}
    PROVE  Inv'
<1> DEFINE s == [worker[w] EXCEPT !.phase = "reading_back", !.durable = FALSE]
<1>1. /\ worker[w] \in WorkerState /\ Shape(worker[w])
      /\ Claims(worker[w]) => HasRow(w, worker[w])
  BY WorkerTyped
<1>2. /\ s \in WorkerState /\ s.phase = "reading_back" /\ s.job = worker[w].job
      /\ s.number = worker[w].number /\ s.lease = worker[w].lease
      /\ s.task = worker[w].task /\ s.durable = FALSE
  BY <1>1 DEF WorkerState, Phases
<1>3. /\ worker[w].task # "none"
      /\ worker[w].task = "recover" => worker[w].phase = "recovering"
      /\ worker[w].task \in FinishTasks => Claims(worker[w])
  BY <1>1 DEF Shape, FinishTasks, Claims
<1>4. Shape(s) /\ ~Transacting(s)
  BY <1>1, <1>2, <1>3 DEF Shape, Transacting
<1>5. Claims(s) => HasRow(w, s)
  BY <1>1, <1>2, <1>3 DEF Claims, HasRow
<1> QED BY <1>2, <1>4, <1>5, LocalMove DEF Rollback

LEMMA WriteFailsKeeps ==
    ASSUME Inv, NEW w \in Workers, WriteFails(w)
    PROVE  Inv'
BY RollbackKeeps DEF WriteFails

LEMMA ReadBackKeeps ==
    ASSUME Inv, NEW w \in Workers, ReadBack(w)
    PROVE  Inv'
<1>1. UNCHANGED <<durableVars, clientVars>> /\ UNCHANGED faults
  BY DEF ReadBack
<1>2. /\ worker[w] \in WorkerState /\ Shape(worker[w]) /\ worker[w].phase = "reading_back"
      /\ Claims(worker[w]) => HasRow(w, worker[w])
  BY WorkerTyped DEF ReadBack
<1>3. CASE Become(w, IdleWorker)
  BY <1>1, <1>3, BecomesIdle
<1>4. CASE Become(w, [IdleWorker EXCEPT !.phase = "indeterminate"])
  BY <1>1, <1>4, LosesEverything DEF Dead
<1>5. ASSUME worker[w].durable, worker[w].task = "claim",
             Become(w, [worker[w] EXCEPT !.phase = "running", !.task = "none",
                                         !.durable = FALSE, !.tried = FALSE])
      PROVE  Inv'
  <2> DEFINE s == [worker[w] EXCEPT !.phase = "running", !.task = "none",
                                    !.durable = FALSE, !.tried = FALSE]
  <2>1. HasRow(w, worker[w])
    BY <1>2, <1>5 DEF Claims
  <2>2. /\ s \in WorkerState /\ s.phase = "running" /\ s.job = worker[w].job
        /\ s.number = worker[w].number /\ s.lease = worker[w].lease /\ s.task = "none"
    BY <1>2 DEF WorkerState, Phases, Tasks
  <2>3. Shape(s) /\ HasRow(w, s) /\ ~Transacting(s)
    BY <2>1, <2>2 DEF Shape, HasRow, Transacting
  <2> QED BY <1>1, <1>5, <2>2, <2>3, LocalMove
<1>6. ASSUME ~worker[w].durable,
             Become(w, [worker[w] EXCEPT !.phase = TaskPhase(worker[w].task), !.tried = TRUE])
      PROVE  Inv'
  <2> DEFINE s == [worker[w] EXCEPT !.phase = TaskPhase(worker[w].task), !.tried = TRUE]
  <2>1. /\ TaskPhase(worker[w].task) \in {"recovering", "polling", "finishing"}
        /\ TaskPhase(worker[w].task) = "recovering" <=> worker[w].task = "recover"
        /\ TaskPhase(worker[w].task) = "polling" <=> worker[w].task = "claim"
    BY DEF TaskPhase
  <2>2. worker[w].task \in Tasks \ {"none"}
    BY <1>2 DEF WorkerState, Shape
  <2>3. /\ s \in WorkerState /\ s.phase = TaskPhase(worker[w].task)
        /\ s.job = worker[w].job /\ s.number = worker[w].number
        /\ s.lease = worker[w].lease /\ s.task = worker[w].task
    BY <1>2, <2>1 DEF WorkerState, Phases
  <2>4. s.phase = "finishing" => s.task \in FinishTasks
    BY <2>1, <2>2, <2>3 DEF Tasks, FinishTasks
  <2>5. Shape(s) /\ ~Transacting(s)
    BY <1>2, <1>6, <2>1, <2>3, <2>4 DEF Shape, Transacting
  <2>6. Claims(s) => HasRow(w, s)
    BY <1>2, <1>6, <2>1, <2>3, <2>4 DEF Claims, HasRow
  <2> QED BY <1>1, <1>6, <2>3, <2>5, <2>6, LocalMove
<1> QED BY <1>3, <1>4, <1>5, <1>6 DEF ReadBack

-----------------------------------------------------------------------------
(* Steps that end an attempt                                                *)

LEMMA CommittedIdle ==
    ASSUME Inv, NEW w \in Workers, Committed(w, IdleWorker),
           worker[w].task \in Tasks \ {"none", "claim"}
    PROVE  /\ UNCHANGED faults \/ Fault
           /\ \E s \in WorkerState :
                Become(w, s) /\ Shape(s) /\ ~Claims(s) /\ ~Transacting(s)
<1>1. CASE Become(w, IdleWorker) /\ UNCHANGED faults
  BY <1>1, IdleInHand
<1>2. ASSUME Fault,
             Become(w, [IdleWorker EXCEPT !.phase = "reading_back", !.durable = TRUE,
                                          !.task = worker[w].task, !.tried = worker[w].tried])
      PROVE  \E s \in WorkerState :
                Become(w, s) /\ Shape(s) /\ ~Claims(s) /\ ~Transacting(s)
  <2> DEFINE s == [IdleWorker EXCEPT !.phase = "reading_back", !.durable = TRUE,
                                     !.task = worker[w].task, !.tried = worker[w].tried]
  <2>1. s.phase = "reading_back" /\ s.durable = TRUE /\ s.task = worker[w].task
    BY DEF IdleWorker
  <2>2. worker[w].tried \in BOOLEAN
    BY WorkerTyped DEF WorkerState
  <2>3. s \in WorkerState
    BY <2>2, Domains DEF IdleWorker, WorkerState, Phases
  <2>4. Shape(s) /\ ~Claims(s) /\ ~Transacting(s)
    BY <2>1 DEF Shape, Claims, Transacting
  <2> QED BY <1>2, <2>3, <2>4
<1> QED BY <1>1, <1>2 DEF Committed

\* A transaction that closes the current attempt of a processing job and releases the
\* job keeps the invariant, whoever runs it.
LEMMA AttemptEnds ==
    ASSUME Inv, NEW w \in Workers, Committed(w, IdleWorker),
           worker[w].task \in Tasks \ {"none", "claim"}, UNCHANGED clientVars,
           NEW j \in Jobs, NEW n, NEW status \in Status \ {"absent"}, NEW left \in Nat,
           NEW disposition \in Disposition \ {"absent", "open"},
           job[j].status = "processing", n = job[j].current,
           job' = [job EXCEPT ![j] = Released(j, status, left)],
           CloseAttempt(j, n, disposition),
           \/ /\ status = "retry_scheduled" /\ disposition = "retry_scheduled"
              /\ job[j].attemptCount < MaxAttempts
           \/ /\ status \in {"succeeded", "superseded"} /\ disposition = status
           \/ /\ status = "failed" /\ disposition = "failed"
           \/ /\ status = "failed" /\ disposition = "exhausted"
              /\ job[j].attemptCount = MaxAttempts,
           \A u \in Workers \ {w} : InTransaction(u) => worker[u].job # j,
           document' \in [current : Versions \cup {None}, active : Versions \cup {None},
                          published : SUBSET Versions],
           admission' \in [Jobs -> BOOLEAN], cleanup' \in SUBSET Jobs
    PROVE  Inv'
<1>1. /\ Ledger /\ job \in [Jobs -> JobRow]
      /\ attempt \in [Jobs -> [1..MaxAttempts -> AttemptRow]]
  BY DEF Inv, Ledger
<1>2. attempt' = [attempt EXCEPT ![j][n].disposition = disposition]
  BY DEF CloseAttempt
<1>3. Ledger'
  BY <1>1, <1>2, CloseKeepsLedger
<1>4. PICK s \in WorkerState : Become(w, s) /\ Shape(s) /\ ~Claims(s) /\ ~Transacting(s)
  BY CommittedIdle
<1>5. RestTyped'
  BY CommittedIdle, FaultCounted DEF Inv, RestTyped, clientVars
<1>6. RowsKept
  <2>1. ASSUME NEW k \in Jobs, NEW m \in 1..MaxAttempts
        PROVE  /\ attempt'[k][m].worker = attempt[k][m].worker
               /\ attempt'[k][m].lease = attempt[k][m].lease
    <3>0. attempt[k] \in [1..MaxAttempts -> AttemptRow]
      BY <1>1
    <3>1. attempt[k][m] \in AttemptRow
      BY <3>0
    <3>2. \/ attempt'[k][m] = attempt[k][m]
          \/ attempt'[k][m] = [attempt[k][m] EXCEPT !.disposition = disposition]
      BY <1>1, <1>2, <3>0
    <3> QED BY <3>1, <3>2 DEF AttemptRow
  <2> QED BY <2>1 DEF RowsKept
<1>7. \A k \in Jobs \ {j} : job'[k] = job[k]
  BY <1>1
<1>8. job'[j].status = status
  BY <1>1 DEF Released, JobRow
<1>9. \A k \in Jobs : job'[k].status = "absent" <=> job[k].status = "absent"
  BY <1>7, <1>8
<1>10. \A u \in Workers \ {w} :
         InTransaction(u) => job'[worker[u].job] = job[worker[u].job]
  BY <1>7 DEF Inv, ExclusiveRow
<1> QED BY <1>3, <1>4, <1>5, <1>6, <1>9, <1>10, WorkerMoves

LEMMA OutcomesTyped ==
    /\ {"retry_scheduled", "succeeded", "superseded", "failed"} \subseteq Status \ {"absent"}
    /\ {"retry_scheduled", "succeeded", "superseded", "exhausted", "failed"}
         \subseteq Disposition \ {"absent", "open"}
BY DEF Status, Terminal, Disposition

LEMMA DelayTyped ==
    ASSUME NEW n \in 1..MaxAttempts, n < MaxAttempts, NEW delay \in 0..RetryWindow[n]
    PROVE  delay \in Nat
<1>1. n \in 1..(MaxAttempts - 1)
  BY BudgetAssumption
<1>2. RetryWindow[n] \in Nat
  BY <1>1, TimingAssumption
<1> QED BY <1>2

\* Nobody else holds the row of w.
LEMMA FreeRow ==
    ASSUME NEW w \in Workers, RowFree(w)
    PROVE  \A u \in Workers \ {w} : InTransaction(u) => worker[u].job # worker[w].job
BY DEF RowFree, Locked

LEMMA RecoverExpiredKeeps ==
    ASSUME Inv, NEW w \in Workers, RecoverExpired(w)
    PROVE  Inv'
<1> DEFINE j == worker[w].job
           n == worker[w].number
<1>1. /\ worker[w].phase = "recovering" /\ ObservationHolds(w)
      /\ Committed(w, IdleWorker) /\ UNCHANGED clientVars
  BY DEF RecoverExpired
<1>2. worker[w].task = "recover" /\ j \in Jobs
  BY <1>1, WorkerTyped DEF Shape
<1>3. worker[w].task \in Tasks \ {"none", "claim"}
  BY <1>2 DEF Tasks
<1>4. job[j].status = "processing" /\ n = job[j].current
  BY <1>1 DEF ObservationHolds
<1>5. n = job[j].attemptCount /\ n \in 1..MaxAttempts
  BY <1>2, <1>4 DEF Inv, Ledger, AttemptMirrorsJob, Mirrored
<1>6. \A u \in Workers \ {w} : InTransaction(u) => worker[u].job # j
  BY FreeRow DEF RecoverExpired
<1>7. ASSUME job[j].attemptCount < MaxAttempts, NEW delay \in 0..RetryWindow[n],
             ScheduleRetry(j, n, delay)
      PROVE  Inv'
  <2>1. delay \in Nat
    BY <1>5, <1>7, DelayTyped
  <2> HIDE DEF j, n
  <2> QED BY <1>1, <1>2, <1>3, <1>4, <1>6, <1>7, <2>1, AttemptEnds, OutcomesTyped
          DEF ScheduleRetry, Inv, RestTyped
<1>8. ASSUME job[j].attemptCount = MaxAttempts, Terminate(j, n, "failed", "exhausted"),
             UNCHANGED document
      PROVE  Inv'
  <2> HIDE DEF j, n
  <2>1. admission' \in [Jobs -> BOOLEAN] /\ cleanup' \in SUBSET Jobs
    BY <1>2, <1>8 DEF Terminate, Inv, RestTyped
  <2> QED BY <1>1, <1>2, <1>3, <1>4, <1>6, <1>8, <2>1, AttemptEnds, OutcomesTyped, Domains
          DEF Terminate, Inv, RestTyped
<1> QED BY <1>7, <1>8 DEF RecoverExpired

\* An end of an attempt that began under a live lease still holds its row.
LEMMA ClosingRow ==
    ASSUME Inv, NEW w \in Workers, worker[w].phase \in {"closing", "publishing", "confirmed"}
    PROVE  /\ worker[w].job \in Jobs
           /\ TokenOf(worker[w].job, w, worker[w].number, worker[w].lease)
           /\ worker[w].number = job[worker[w].job].current
           /\ worker[w].number = job[worker[w].job].attemptCount
           /\ worker[w].number \in 1..MaxAttempts
           /\ job[worker[w].job].status = "processing"
           /\ worker[w].task = "retry" => worker[w].number < MaxAttempts
           /\ worker[w].task = "exhaust" => worker[w].number = MaxAttempts
           /\ \A u \in Workers \ {w} : InTransaction(u) => worker[u].job # worker[w].job
<1>1. InTransaction(w) /\ Claims(worker[w])
  BY DEF InTransaction, Claims
<1>2. /\ worker[w].job \in Jobs
      /\ TokenOf(worker[w].job, w, worker[w].number, worker[w].lease)
      /\ \A u \in Workers \ {w} : InTransaction(u) => worker[u].job # worker[w].job
  BY <1>1 DEF Inv, ExclusiveRow
<1>3. HasRow(w, worker[w])
  BY <1>1, WorkerTyped
<1>4. Mirrored(worker[w].job)
  BY <1>2 DEF Inv, Ledger, AttemptMirrorsJob
<1> QED BY <1>2, <1>3, <1>4 DEF TokenOf, Mirrored, HasRow

LEMMA CommitRetryKeeps ==
    ASSUME Inv, NEW w \in Workers, CommitRetry(w)
    PROVE  Inv'
<1> DEFINE j == worker[w].job
           n == worker[w].number
<1>1. /\ worker[w].phase = "closing" /\ worker[w].task = "retry"
      /\ Committed(w, IdleWorker) /\ UNCHANGED clientVars
  BY DEF CommitRetry
<1>2. worker[w].task \in Tasks \ {"none", "claim"}
  BY <1>1 DEF Tasks
<1>3. /\ j \in Jobs /\ n = job[j].current /\ n = job[j].attemptCount
      /\ n \in 1..MaxAttempts /\ job[j].status = "processing" /\ n < MaxAttempts
      /\ \A u \in Workers \ {w} : InTransaction(u) => worker[u].job # j
  BY <1>1, ClosingRow
<1>4. PICK delay \in 0..RetryWindow[n] : ScheduleRetry(j, n, delay)
  BY DEF CommitRetry
<1>5. delay \in Nat
  BY <1>3, DelayTyped
<1> HIDE DEF j, n
<1>6. /\ job' = [job EXCEPT ![j] = Released(j, "retry_scheduled", delay)]
      /\ CloseAttempt(j, n, "retry_scheduled")
      /\ UNCHANGED <<document, admission, cleanup>>
  BY <1>4 DEF ScheduleRetry
<1>7. /\ document' \in [current : Versions \cup {None}, active : Versions \cup {None},
                        published : SUBSET Versions]
      /\ admission' \in [Jobs -> BOOLEAN] /\ cleanup' \in SUBSET Jobs
  BY <1>6 DEF Inv, RestTyped
<1>8. "retry_scheduled" \in Status \ {"absent"} /\ "retry_scheduled" \in Disposition \ {"absent", "open"}
  BY OutcomesTyped
<1>9. job[j].attemptCount < MaxAttempts
  BY <1>3
<1> QED BY <1>1, <1>2, <1>3, <1>5, <1>6, <1>7, <1>8, <1>9, AttemptEnds

LEMMA CommitFailureKeeps ==
    ASSUME Inv, NEW w \in Workers, CommitFailure(w)
    PROVE  Inv'
<1> DEFINE j == worker[w].job
           n == worker[w].number
           disposition == IF worker[w].task = "exhaust" THEN "exhausted" ELSE "failed"
<1>1. /\ worker[w].phase = "closing" /\ worker[w].task \in {"exhaust", "fail"}
      /\ Committed(w, IdleWorker) /\ UNCHANGED <<document, clientVars>>
      /\ Terminate(j, n, "failed", disposition)
  BY DEF CommitFailure
<1>2. worker[w].task \in Tasks \ {"none", "claim"}
  BY <1>1 DEF Tasks
<1>3. /\ j \in Jobs /\ n = job[j].current /\ job[j].status = "processing"
      /\ \A u \in Workers \ {w} : InTransaction(u) => worker[u].job # j
  BY <1>1, ClosingRow
<1>4. \/ disposition = "failed"
      \/ disposition = "exhausted" /\ job[j].attemptCount = MaxAttempts
  BY <1>1, ClosingRow
<1> HIDE DEF j, n, disposition
<1>5. admission' \in [Jobs -> BOOLEAN] /\ cleanup' \in SUBSET Jobs
  BY <1>1, <1>3 DEF Terminate, Inv, RestTyped
<1>6. /\ job' = [job EXCEPT ![j] = Released(j, "failed", 0)]
      /\ CloseAttempt(j, n, disposition)
  BY <1>1 DEF Terminate
<1>7. document' \in [current : Versions \cup {None}, active : Versions \cup {None},
                     published : SUBSET Versions]
  BY <1>1 DEF Inv, RestTyped
<1>8. "failed" \in Status \ {"absent"} /\ disposition \in Disposition \ {"absent", "open"}
  BY <1>4, OutcomesTyped
<1> QED BY <1>1, <1>2, <1>3, <1>4, <1>5, <1>6, <1>7, <1>8, AttemptEnds, Domains

LEMMA ConfirmSuccessKeeps ==
    ASSUME Inv, NEW w \in Workers, ConfirmSuccess(w)
    PROVE  Inv'
<1> DEFINE s == [worker[w] EXCEPT !.phase = "confirmed"]
<1>1. UNCHANGED <<durableVars, clientVars>> /\ UNCHANGED faults
  BY DEF ConfirmSuccess
<1>2. /\ worker[w].phase = "publishing" /\ worker[w] \in WorkerState
      /\ Shape(worker[w]) /\ HasRow(w, worker[w])
  BY WorkerTyped DEF ConfirmSuccess, Claims
<1>3. Become(w, s)
  BY DEF ConfirmSuccess, Enter, Become, Inv, WorkersOK
<1>4. /\ s \in WorkerState /\ s.phase = "confirmed" /\ s.job = worker[w].job
      /\ s.number = worker[w].number /\ s.lease = worker[w].lease
      /\ s.task = worker[w].task /\ s.task \in FinishTasks
  BY <1>2 DEF WorkerState, Phases, Shape
<1>5. Shape(s) /\ HasRow(w, s) /\ s.phase # "beating"
  BY <1>2, <1>4 DEF Shape, HasRow, FinishTasks
<1>6. /\ s.job \in Jobs /\ TokenOf(s.job, w, s.number, s.lease)
      /\ \A u \in Workers \ {w} : InTransaction(u) => worker[u].job # s.job
  BY <1>2, <1>4, ClosingRow
<1> HIDE DEF s
<1> QED BY <1>1, <1>3, <1>4, <1>5, <1>6, LocalMove

LEMMA PublishSuccessKeeps ==
    ASSUME Inv, NEW w \in Workers, PublishSuccess(w)
    PROVE  Inv'
<1> DEFINE j == worker[w].job
           n == worker[w].number
           v == Target(j)
<1>1. /\ worker[w].phase = "confirmed" /\ Committed(w, IdleWorker)
      /\ UNCHANGED clientVars
  BY DEF PublishSuccess
<1>2. worker[w].task \in Tasks \ {"none", "claim"}
  BY <1>1, WorkerTyped DEF Tasks, Shape, FinishTasks
<1>3. /\ j \in Jobs /\ n = job[j].current /\ job[j].status = "processing"
  BY <1>1, ClosingRow
<1>4. v \in Versions
  BY <1>3 DEF Jobs, Target
<1>5. \A u \in Workers \ {w} : InTransaction(u) => worker[u].job # j
  BY <1>1 DEF Inv, ExclusiveRow, InTransaction
<1>6. PICK status \in {"succeeded", "superseded"} :
        /\ Terminate(j, n, status, status)
        /\ \/ document' = [document EXCEPT !.published = @ \cup {v}]
           \/ document' = [document EXCEPT !.published = @ \cup {v}, !.active = v]
  BY DEF PublishSuccess
<1> HIDE DEF j, n, v
<1>7. document' \in [current : Versions \cup {None}, active : Versions \cup {None},
                     published : SUBSET Versions]
  BY <1>4, <1>6 DEF Inv, RestTyped
<1>8. admission' \in [Jobs -> BOOLEAN] /\ cleanup' \in SUBSET Jobs
  BY <1>3, <1>6 DEF Terminate, Inv, RestTyped
<1>9. /\ job' = [job EXCEPT ![j] = Released(j, status, 0)]
      /\ CloseAttempt(j, n, status)
  BY <1>6 DEF Terminate
<1>10. status \in Status \ {"absent"} /\ status \in Disposition \ {"absent", "open"}
  BY OutcomesTyped
<1> QED BY <1>1, <1>2, <1>3, <1>5, <1>7, <1>8, <1>9, <1>10, AttemptEnds, Domains

-----------------------------------------------------------------------------
(* Claims and renewals                                                      *)

LEMMA CommitHeartbeatKeeps ==
    ASSUME Inv, NEW w \in Workers, CommitHeartbeat(w)
    PROVE  Inv'
<1>0. PICK j \in Jobs : j = worker[w].job
  BY DEF Inv, ExclusiveRow, InTransaction, CommitHeartbeat
<1> DEFINE row == [job[j] EXCEPT !.leaseLeft = worker[w].left, !.beats = job[j].beats + 1]
<1>1. /\ worker[w].phase = "beating" /\ job' = [job EXCEPT ![j] = row]
      /\ UNCHANGED <<attempt, document, admission, cleanup, clientVars>>
  BY <1>0 DEF CommitHeartbeat
<1>2. /\ j \in Jobs /\ job[j].status = "processing" /\ job[j].beats < MaxBeats
      /\ \A u \in Workers \ {w} : InTransaction(u) => worker[u].job # j
  BY <1>0, <1>1 DEF Inv, ExclusiveRow, InTransaction, TokenOf, RenewalBounded
<1>3. /\ Ledger /\ job \in [Jobs -> JobRow]
      /\ attempt \in [Jobs -> [1..MaxAttempts -> AttemptRow]]
  BY DEF Inv, Ledger
<1>4. job[j] \in JobRow /\ Mirrored(j) /\ Explained(j)
  BY <1>2, <1>3 DEF Ledger, AttemptMirrorsJob, HistoryExplainsJob
<1>5. /\ worker[w] \in WorkerState /\ Shape(worker[w]) /\ HasRow(w, worker[w])
      /\ worker[w].left \in Nat
  BY <1>1, WorkerTyped DEF Claims, WorkerState
<1>6. row \in JobRow
  <2>1. job[j].beats \in 0..MaxBeats
    BY <1>4 DEF JobRow
  <2>2. job[j].beats + 1 \in 0..MaxBeats
    BY <1>2, <2>1, BoundAssumption
  <2> QED BY <1>4, <1>5, <2>2 DEF JobRow
<1>7. /\ row.status = job[j].status /\ row.worker = job[j].worker
      /\ row.current = job[j].current /\ row.attemptCount = job[j].attemptCount
      /\ row.leaseVersion = job[j].leaseVersion
  BY <1>4 DEF JobRow
<1>8. job'[j] = row /\ \A k \in Jobs \ {j} : job'[k] = job[k]
  BY <1>1, <1>2, <1>3
<1> HIDE DEF row
<1>9. Mirrored(j)' /\ Explained(j)'
  BY <1>1, <1>2, <1>4, <1>7, <1>8 DEF Mirrored, Explained, LastAttempt
<1>10. attempt' = [attempt EXCEPT ![j] = attempt[j]]
  BY <1>1, <1>3
<1>11. Ledger'
  BY <1>1, <1>2, <1>3, <1>6, <1>9, <1>10, OneJobChanges
<1>12. RowsKept
  BY <1>1 DEF RowsKept
<1>13. UNCHANGED faults \/ Fault
  BY DEF CommitHeartbeat
<1>14. RestTyped'
  BY <1>1, <1>13, FaultCounted DEF Inv, RestTyped, clientVars
<1>15. \A u \in Workers \ {w} :
         InTransaction(u) => job'[worker[u].job] = job[worker[u].job]
  BY <1>2, <1>8 DEF Inv, ExclusiveRow
<1>16. \A k \in Jobs : job'[k].status = "absent" <=> job[k].status = "absent"
  BY <1>7, <1>8
<1>17. CASE Become(w, [IdleWorker EXCEPT !.phase = "indeterminate"])
  <2>1. "indeterminate" \in Dead \cup {"idle"}
    BY DEF Dead
  <2> QED BY <1>1, <1>11, <1>12, <1>14, <1>15, <1>16, <1>17, <2>1, NothingInHand, WorkerMoves
<1>18. CASE Become(w, [worker[w] EXCEPT !.phase = "running", !.left = 0])
  <2>1. PICK s \in WorkerState :
          /\ s = [worker[w] EXCEPT !.phase = "running", !.left = 0]
          /\ s.phase = "running" /\ s.job = worker[w].job
          /\ s.number = worker[w].number /\ s.lease = worker[w].lease /\ s.task = "none"
    <3> DEFINE t == [worker[w] EXCEPT !.phase = "running", !.left = 0]
    <3>1. /\ t \in WorkerState /\ t.phase = "running" /\ t.job = worker[w].job
          /\ t.number = worker[w].number /\ t.lease = worker[w].lease /\ t.task = "none"
      BY <1>1, <1>5 DEF WorkerState, Phases, Shape
    <3> QED BY <3>1
  <2>2. Shape(s) /\ ~Transacting(s)
    BY <2>1 DEF Shape, Transacting
  <2>3. HasRow(w, s)'
    BY <1>1, <1>5, <2>1 DEF HasRow
  <2> QED BY <1>1, <1>11, <1>12, <1>14, <1>15, <1>16, <1>18, <2>1, <2>2, <2>3, WorkerMoves
<1> QED BY <1>17, <1>18 DEF CommitHeartbeat

LEMMA ClaimKeeps ==
    ASSUME Inv, NEW w \in Workers, Claim(w)
    PROVE  Inv'
<1>1. PICK j \in Jobs :
        /\ Claimable(j)
        /\ job' = [job EXCEPT ![j] =
             [@ EXCEPT !.status = "processing", !.attemptCount = job[j].attemptCount + 1,
                       !.leaseVersion = job[j].leaseVersion + 1, !.worker = w,
                       !.current = job[j].attemptCount + 1,
                       !.leaseLeft = LeaseDuration, !.beats = 0, !.nextLeft = 0]]
        /\ attempt' = [attempt EXCEPT ![j][job[j].attemptCount + 1] =
             [worker |-> w, lease |-> job[j].leaseVersion + 1, disposition |-> "open"]]
        /\ Committed(w, Claimed(j, job[j].attemptCount + 1))
  BY DEF Claim
<1> DEFINE count == job[j].attemptCount
           n == count + 1
           row == [job[j] EXCEPT
                     !.status = "processing", !.attemptCount = n,
                     !.leaseVersion = job[j].leaseVersion + 1, !.worker = w, !.current = n,
                     !.leaseLeft = LeaseDuration, !.beats = 0, !.nextLeft = 0]
           entry == [worker |-> w, lease |-> job[j].leaseVersion + 1, disposition |-> "open"]
           rows == [attempt[j] EXCEPT ![n] = entry]
<1>2. /\ Ledger /\ job \in [Jobs -> JobRow]
      /\ attempt \in [Jobs -> [1..MaxAttempts -> AttemptRow]]
      /\ job[j] \in JobRow /\ attempt[j] \in [1..MaxAttempts -> AttemptRow]
      /\ Mirrored(j) /\ Explained(j)
  BY DEF Inv, Ledger, AttemptMirrorsJob, HistoryExplainsJob
<1>3. /\ job[j].status \in {"queued", "retry_scheduled"}
      /\ \A u \in Workers : InTransaction(u) => worker[u].job # j
      /\ count < MaxAttempts
  BY <1>1 DEF Claimable, Due, Locked
<1>4. count \in Nat /\ job[j].leaseVersion = count
  BY <1>2, BudgetAssumption DEF JobRow, Explained
<1>5. n \in 1..MaxAttempts /\ n \in 0..MaxAttempts /\ job[j].leaseVersion + 1 = n
  BY <1>3, <1>4, BudgetAssumption
<1>6. /\ row \in JobRow
      /\ row.status = "processing" /\ row.attemptCount = n /\ row.leaseVersion = n
      /\ row.worker = w /\ row.current = n
  BY <1>2, <1>5, Domains, TimingAssumption DEF JobRow, Status
<1>7. entry \in AttemptRow /\ entry = [worker |-> w, lease |-> n, disposition |-> "open"]
  BY <1>5 DEF AttemptRow, Disposition
<1>8. /\ rows \in [1..MaxAttempts -> AttemptRow] /\ rows[n] = entry
      /\ \A m \in 1..MaxAttempts : m # n => rows[m] = attempt[j][m]
  BY <1>2, <1>5, <1>7
<1>9. /\ job' = [job EXCEPT ![j] = row] /\ attempt' = [attempt EXCEPT ![j] = rows]
  BY <1>1
<1>10. job'[j] = row /\ attempt'[j] = rows
  BY <1>2, <1>9
<1> HIDE DEF row, rows, entry
<1>11. Mirrored(j)'
  BY <1>2, <1>3, <1>5, <1>6, <1>7, <1>8, <1>10 DEF Mirrored
<1>12. Explained(j)'
  <2>1. ASSUME NEW m \in 1..MaxAttempts
        PROVE  /\ m < n => rows[m].disposition = "retry_scheduled"
               /\ m <= n => rows[m].lease = m
               /\ m > n => rows[m] = AbsentAttempt
               /\ rows[m].disposition = "exhausted" => m = MaxAttempts
    <3>1. CASE m = n
      BY <1>4, <1>7, <1>8, <3>1
    <3>2. CASE m < count
      BY <1>2, <1>4, <1>8, <3>2 DEF Explained
    <3>3. CASE m = count
      <4>1. job[j].status = "retry_scheduled"
        BY <1>2, <1>3, <3>3 DEF Explained
      <4>2. attempt[j][m].disposition = "retry_scheduled" /\ attempt[j][m].lease = m
        BY <1>2, <1>4, <3>3, <4>1 DEF Explained, LastAttempt
      <4> QED BY <1>4, <1>8, <3>3, <4>2
    <3>4. CASE m > n
      BY <1>2, <1>4, <1>8, <3>4 DEF Explained
    <3> QED BY <1>4, <3>1, <3>2, <3>3, <3>4
  <2> QED BY <1>6, <1>10, <2>1 DEF Explained, Terminal
<1>13. Ledger'
  BY <1>2, <1>6, <1>8, <1>9, <1>11, <1>12, OneJobChanges
<1>14. attempt[j][n] = AbsentAttempt
  BY <1>2, <1>4, <1>5 DEF Explained
<1>15. RowsKept
  <2>1. ASSUME NEW k \in Jobs, NEW m \in 1..MaxAttempts, attempt[k][m].worker # None
        PROVE  attempt'[k][m] = attempt[k][m]
    <3>1. CASE k = j
      <4>1. CASE m = n
        BY <1>14, <2>1, <3>1, <4>1 DEF AbsentAttempt
      <4>2. CASE m # n
        BY <1>8, <1>10, <3>1, <4>2
      <4> QED BY <4>1, <4>2
    <3>2. CASE k # j
      BY <1>2, <1>9, <3>2
    <3> QED BY <3>1, <3>2
  <2> QED BY <2>1 DEF RowsKept
<1>16. /\ UNCHANGED <<document, admission, cleanup, clientVars>>
       /\ UNCHANGED faults \/ Fault
  BY <1>1 DEF Claim, Committed
<1>17. RestTyped'
  BY <1>16, FaultCounted DEF Inv, RestTyped, clientVars
<1>18. \A k \in Jobs \ {j} : job'[k] = job[k]
  BY <1>2, <1>9
<1>19. \A u \in Workers \ {w} :
         InTransaction(u) => job'[worker[u].job] = job[worker[u].job]
  BY <1>3, <1>18 DEF Inv, ExclusiveRow
<1>20. \A k \in Jobs : job'[k].status = "absent" <=> job[k].status = "absent"
  BY <1>3, <1>6, <1>10, <1>18
<1>21. ASSUME NEW s \in WorkerState, Become(w, s), s.phase \in {"running", "reading_back"},
              s.job = j, s.number = n, s.lease = n,
              s.phase = "running" => s.task = "none",
              s.phase = "reading_back" => s.task = "claim" /\ s.durable
       PROVE  Inv'
  <2>1. Shape(s) /\ ~Transacting(s) /\ s.task \in {"none", "claim"}
    BY <1>21 DEF Shape, Transacting
  <2>2. attempt'[j][n].worker = w /\ attempt'[j][n].lease = n
    BY <1>7, <1>8, <1>10
  <2>3. HasRow(w, s)'
    BY <1>5, <1>21, <2>1, <2>2 DEF HasRow
  <2> QED BY <1>13, <1>15, <1>16, <1>17, <1>19, <1>20, <1>21, <2>1, <2>3, WorkerMoves
<1> DEFINE s == Claimed(j, n)
<1>22. /\ s \in WorkerState /\ s.phase = "running" /\ s.job = j /\ s.number = n
       /\ s.lease = n /\ s.task = "none"
  BY <1>5, Domains DEF Claimed, IdleWorker, WorkerState, Phases, Tasks
<1>23. CASE Become(w, s)
  BY <1>21, <1>22, <1>23
<1>24. CASE Become(w, [s EXCEPT !.phase = "reading_back", !.durable = TRUE,
                                !.task = worker[w].task, !.tried = worker[w].tried])
  <2> DEFINE t == [s EXCEPT !.phase = "reading_back", !.durable = TRUE,
                            !.task = worker[w].task, !.tried = worker[w].tried]
  <2>1. worker[w].task = "claim" /\ worker[w].tried \in BOOLEAN
    BY WorkerTyped DEF Claim, Shape, WorkerState
  <2> HIDE DEF s
  <2>2. /\ t \in WorkerState /\ t.phase = "reading_back" /\ t.job = j /\ t.number = n
        /\ t.lease = n /\ t.task = "claim" /\ t.durable
    BY <1>22, <2>1 DEF WorkerState, Phases, Tasks
  <2> QED BY <1>21, <1>24, <2>2
<1> QED BY <1>1, <1>23, <1>24 DEF Committed

-----------------------------------------------------------------------------
(* Requests, deadlocks and time                                             *)

LEMMA UnchangedLedger ==
    ASSUME Inv, UNCHANGED <<job, attempt>>
    PROVE  Ledger'
<1>1. ASSUME NEW k \in Jobs PROVE Mirrored(k)' /\ Explained(k)'
  <2>1. Mirrored(k) /\ Explained(k)
    BY DEF Inv, Ledger, AttemptMirrorsJob, HistoryExplainsJob
  <2> QED BY <2>1 DEF Mirrored, Explained, LastAttempt
<1> QED BY <1>1 DEF Inv, Ledger, AttemptMirrorsJob, HistoryExplainsJob

\* Steps of a request that commit nothing.
LEMMA RequestMoves ==
    ASSUME Inv, UNCHANGED <<durableVars, worker, faults>>, RequestOK',
           requests' \in 0..MaxRequests
    PROVE  Inv'
<1>1. UNCHANGED <<job, attempt, document, admission, cleanup, worker, faults>>
  BY DEF durableVars
<1>2. Ledger'
  BY <1>1, UnchangedLedger
<1>3. WorkersOK'
  BY <1>1 DEF Inv, WorkersOK, HasRow
<1>4. ExclusiveRow' /\ RenewalBounded'
  BY <1>1 DEF Inv, ExclusiveRow, RenewalBounded, InTransaction, TokenOf
<1>5. RestTyped'
  BY <1>1 DEF Inv, RestTyped
<1> QED BY <1>2, <1>3, <1>4, <1>5 DEF Inv

LEMMA RequestCounted ==
    ASSUME Inv, BeginRequest
    PROVE  requests' \in 0..MaxRequests
BY BoundAssumption DEF Inv, RestTyped, BeginRequest

LEMMA LinkingOK ==
    ASSUME Inv, NEW v \in Versions, NEW j \in Jobs,
           NEW existing \in BOOLEAN, existing <=> job[j].status # "absent",
           UNCHANGED job, request' = Linking(v, j, existing)
    PROVE  RequestOK'
<1>1. (existing /\ job[j].status \in Terminal) \in BOOLEAN
  OBVIOUS
<1>2. request' \in RequestState
  BY <1>1 DEF Linking, RequestState
<1>3. /\ request'.job = j /\ request'.version = v
      /\ request'.existing = existing
  BY DEF Linking
<1> QED BY <1>2, <1>3 DEF RequestOK

LEMMA BeginSubmitKeeps ==
    ASSUME Inv, BeginSubmit
    PROVE  Inv'
<1>1. PICK v \in Versions :
        request' = Linking(v, <<"submit_pdf", v>>, job[<<"submit_pdf", v>>].status # "absent")
  BY DEF BeginSubmit
<1>2. <<"submit_pdf", v>> \in Jobs
  BY DEF Jobs, Operations
<1>3. UNCHANGED <<durableVars, worker, faults>> /\ UNCHANGED job
  BY DEF BeginSubmit, durableVars
<1>4. RequestOK'
  BY <1>1, <1>2, <1>3, LinkingOK
<1> QED BY <1>3, <1>4, RequestCounted, RequestMoves DEF BeginSubmit

LEMMA BeginReprocessKeeps ==
    ASSUME Inv, BeginReprocess
    PROVE  Inv'
<1> DEFINE v == document.current
           submitted == <<"submit_pdf", v>>
           reprocessed == <<"reprocess_document_version", v>>
<1>1. v \in Versions
  BY DEF BeginReprocess, Inv, RestTyped
<1>2. submitted \in Jobs /\ reprocessed \in Jobs
  BY <1>1 DEF Jobs, Operations
<1>3. UNCHANGED <<durableVars, worker, faults>> /\ UNCHANGED job
  BY DEF BeginReprocess, durableVars
<1>4. CASE request' = [IdleRequest EXCEPT !.phase = "rejected", !.version = v,
                                          !.job = reprocessed]
  <2>1. request' \in RequestState /\ request'.phase = "rejected"
    BY <1>1, <1>2, <1>4 DEF IdleRequest, RequestState
  <2>2. RequestOK'
    BY <2>1 DEF RequestOK
  <2> QED BY <1>3, <2>2, RequestCounted, RequestMoves DEF BeginReprocess
<1>5. CASE Reusable(submitted) /\ request' = Linking(v, submitted, TRUE)
  <2>1. TRUE <=> job[submitted].status # "absent"
    BY <1>5 DEF Reusable
  <2>2. RequestOK'
    BY <1>1, <1>2, <1>3, <1>5, <2>1, LinkingOK
  <2> QED BY <1>3, <2>2, RequestCounted, RequestMoves DEF BeginReprocess
<1>6. CASE Reusable(reprocessed) /\ request' = Linking(v, reprocessed, TRUE)
  <2>1. TRUE <=> job[reprocessed].status # "absent"
    BY <1>6 DEF Reusable
  <2>2. RequestOK'
    BY <1>1, <1>2, <1>3, <1>6, <2>1, LinkingOK
  <2> QED BY <1>3, <2>2, RequestCounted, RequestMoves DEF BeginReprocess
<1>7. CASE job[reprocessed].status = "absent" /\ request' = Linking(v, reprocessed, FALSE)
  <2>1. RequestOK'
    BY <1>1, <1>2, <1>3, <1>7, LinkingOK
  <2> QED BY <1>3, <2>1, RequestCounted, RequestMoves DEF BeginReprocess
<1> QED BY <1>4, <1>5, <1>6, <1>7 DEF BeginReprocess

LEMMA IdleRequestOK ==
    ASSUME request' = IdleRequest
    PROVE  RequestOK'
BY DEF IdleRequest, RequestState, RequestOK

LEMMA RequestEnds ==
    ASSUME Inv, request' = IdleRequest, UNCHANGED <<durableVars, worker, requests, faults>>
    PROVE  Inv'
<1>1. requests' \in 0..MaxRequests
  BY DEF Inv, RestTyped
<1> QED BY <1>1, IdleRequestOK, RequestMoves

LEMMA CommitRequestKeeps ==
    ASSUME Inv, CommitRequest
    PROVE  Inv'
<1>1. PICK j \in Jobs : j = request.job
  BY DEF CommitRequest, Inv, RequestOK
<1>2. /\ request.version \in Versions
      /\ request.existing <=> job[j].status # "absent"
  BY <1>1 DEF CommitRequest, Inv, RequestOK
<1>3. /\ Ledger /\ job \in [Jobs -> JobRow]
      /\ attempt \in [Jobs -> [1..MaxAttempts -> AttemptRow]]
      /\ job[j] \in JobRow /\ Mirrored(j) /\ Explained(j)
  BY DEF Inv, Ledger, AttemptMirrorsJob, HistoryExplainsJob
<1>4. UNCHANGED <<attempt, cleanup, worker, requests, faults>>
  BY DEF CommitRequest
<1>5. ASSUME request.existing
      PROVE  Ledger' /\ ExclusiveRow' /\ RenewalBounded'
  <2>1. UNCHANGED <<job, attempt>>
    BY <1>4, <1>5 DEF CommitRequest
  <2>2. Ledger'
    BY <2>1, UnchangedLedger
  <2>3. ExclusiveRow' /\ RenewalBounded'
    BY <1>4, <2>1 DEF Inv, ExclusiveRow, RenewalBounded, InTransaction, TokenOf
  <2> QED BY <2>2, <2>3
<1>6. ASSUME ~request.existing
      PROVE  Ledger' /\ ExclusiveRow' /\ RenewalBounded'
  <2> DEFINE row == [job[j] EXCEPT !.status = "queued"]
  <2>1. job' = [job EXCEPT ![j] = row]
    BY <1>1, <1>6 DEF CommitRequest
  <2>2. job[j].status = "absent"
    BY <1>2, <1>6
  <2>3. /\ row \in JobRow /\ row.status = "queued" /\ row.worker = job[j].worker
        /\ row.current = job[j].current /\ row.attemptCount = job[j].attemptCount
        /\ row.leaseVersion = job[j].leaseVersion /\ row.leaseLeft = job[j].leaseLeft
    BY <1>3, Domains DEF JobRow
  <2>4. job'[j] = row /\ \A k \in Jobs \ {j} : job'[k] = job[k]
    BY <1>3, <2>1
  <2>5. attempt' = [attempt EXCEPT ![j] = attempt[j]] /\ attempt' = attempt
    BY <1>3, <1>4
  <2> HIDE DEF row
  <2>6. Mirrored(j)'
    BY <1>3, <2>2, <2>3, <2>4, <2>5 DEF Mirrored
  <2>7. Explained(j)'
    BY <1>3, <2>2, <2>3, <2>4, <2>5 DEF Explained, LastAttempt, Terminal
  <2>8. Ledger'
    BY <1>3, <2>1, <2>3, <2>5, <2>6, <2>7, OneJobChanges
  <2>9. \A w \in Workers : InTransaction(w) => worker[w].job \in Jobs \ {j}
    BY <2>2 DEF Inv, ExclusiveRow, TokenOf
  <2>10. \A w \in Workers : InTransaction(w) => job'[worker[w].job] = job[worker[w].job]
    BY <2>4, <2>9
  <2>11. ExclusiveRow'
    BY <1>4, <2>10 DEF Inv, ExclusiveRow, InTransaction, TokenOf
  <2>12. RenewalBounded'
    BY <1>4, <2>10 DEF Inv, RenewalBounded, InTransaction
  <2> QED BY <2>8, <2>11, <2>12
<1>7. WorkersOK'
  BY <1>4 DEF Inv, WorkersOK, HasRow
<1>8. RequestOK'
  BY IdleRequestOK DEF CommitRequest
<1>9. RestTyped'
  <2>1. document' \in [current : Versions \cup {None}, active : Versions \cup {None},
                       published : SUBSET Versions]
    BY <1>2 DEF CommitRequest, Inv, RestTyped
  <2>2. (admission[j] \/ ~request.settled) \in BOOLEAN
    OBVIOUS
  <2>3. admission' = [admission EXCEPT ![j] = admission[j] \/ ~request.settled]
    BY <1>1 DEF CommitRequest
  <2>4. admission' \in [Jobs -> BOOLEAN]
    BY <2>2, <2>3 DEF Inv, RestTyped
  <2> QED BY <1>4, <2>1, <2>4 DEF Inv, RestTyped
<1> QED BY <1>5, <1>6, <1>7, <1>8, <1>9 DEF Inv

LEMMA BreakDeadlockKeeps ==
    ASSUME Inv, NEW w \in Workers, BreakDeadlock(w)
    PROVE  Inv'
<1>1. CASE Rollback(w) /\ UNCHANGED request
  BY <1>1, RollbackKeeps DEF BreakDeadlock, Deadlocked, clientVars
<1>2. CASE request' = IdleRequest /\ UNCHANGED worker
  BY <1>2, RequestEnds DEF BreakDeadlock
<1> QED BY <1>1, <1>2 DEF BreakDeadlock

LEMMA TickKeeps ==
    ASSUME Inv, Tick
    PROVE  Inv'
<1>1. UNCHANGED <<attempt, document, admission, cleanup, request, requests, faults>>
  BY DEF Tick, clientVars
<1>2. \A t \in Nat : Earlier(t) \in Nat
  BY DEF Earlier
<1>3. ASSUME NEW j \in Jobs
      PROVE  /\ job'[j] \in JobRow
             /\ job'[j].status = job[j].status /\ job'[j].worker = job[j].worker
             /\ job'[j].current = job[j].current /\ job'[j].beats = job[j].beats
             /\ job'[j].attemptCount = job[j].attemptCount
             /\ job'[j].leaseVersion = job[j].leaseVersion
             /\ job[j].leaseLeft = 0 => job'[j].leaseLeft = 0
  <2>1. job[j] \in JobRow
    BY DEF Inv, Ledger
  <2>2. job'[j] = [job[j] EXCEPT !.leaseLeft = Earlier(job[j].leaseLeft),
                                 !.nextLeft = Earlier(job[j].nextLeft)]
    BY DEF Tick
  <2>3. Earlier(job[j].leaseLeft) \in Nat /\ Earlier(job[j].nextLeft) \in Nat
    BY <1>2, <2>1 DEF JobRow
  <2>4. job[j].leaseLeft = 0 => Earlier(job[j].leaseLeft) = 0
    BY DEF Earlier
  <2> QED BY <2>1, <2>2, <2>3, <2>4 DEF JobRow
<1>4. ASSUME NEW j \in Jobs PROVE Mirrored(j)' /\ Explained(j)'
  <2>1. Mirrored(j) /\ Explained(j)
    BY DEF Inv, Ledger, AttemptMirrorsJob, HistoryExplainsJob
  <2>2. Mirrored(j)'
    BY <1>1, <1>3, <2>1 DEF Mirrored
  <2>3. Explained(j)'
    BY <1>1, <1>3, <2>1 DEF Explained, LastAttempt
  <2> QED BY <2>2, <2>3
<1>5. Ledger'
  <2>1. job' \in [Jobs -> JobRow]
    BY <1>3 DEF Tick
  <2> QED BY <1>1, <1>4, <2>1 DEF Inv, Ledger, AttemptMirrorsJob, HistoryExplainsJob
<1>6. ASSUME NEW w \in Workers
      PROVE  /\ worker'[w] \in WorkerState
             /\ worker'[w].phase = worker[w].phase /\ worker'[w].job = worker[w].job
             /\ worker'[w].number = worker[w].number /\ worker'[w].lease = worker[w].lease
             /\ worker'[w].task = worker[w].task /\ worker'[w].durable = worker[w].durable
  <2>1. worker[w] \in WorkerState
    BY WorkerTyped
  <2>2. worker'[w] = [worker[w] EXCEPT !.left = Earlier(worker[w].left)]
    BY DEF Tick
  <2> QED BY <1>2, <2>1, <2>2 DEF WorkerState
<1>7. WorkersOK'
  <2>1. worker' \in [Workers -> WorkerState]
    BY <1>6 DEF Tick
  <2>2. ASSUME NEW w \in Workers
        PROVE  Shape(worker'[w]) /\ (Claims(worker'[w]) => HasRow(w, worker[w])')
    <3>1. Shape(worker'[w])
      BY <1>6, WorkerTyped DEF Shape
    <3>2. Claims(worker'[w]) => HasRow(w, worker[w])
      BY <1>6, WorkerTyped DEF Claims
    <3>3. HasRow(w, worker[w]) => HasRow(w, worker[w])'
      BY <1>1, <1>6 DEF HasRow
    <3> QED BY <3>1, <3>2, <3>3
  <2>3. ASSUME NEW w \in Workers
        PROVE  (Shape(worker[w]) /\ (Claims(worker[w]) => HasRow(w, worker[w])))'
    BY <2>2 DEF Shape, Claims, HasRow
  <2> QED BY <2>1, <2>3 DEF WorkersOK
<1>8. ExclusiveRow'
  BY <1>3, <1>6 DEF Inv, ExclusiveRow, InTransaction, TokenOf
<1>9. RenewalBounded'
  <2>1. ASSUME NEW w \in Workers, worker'[w].phase = "beating"
        PROVE  job'[worker'[w].job].beats < MaxBeats
    <3>1. worker[w].phase = "beating" /\ worker'[w].job = worker[w].job
      BY <1>6, <2>1
    <3>2. worker[w].job \in Jobs
      BY <3>1 DEF Inv, ExclusiveRow, InTransaction
    <3> QED BY <1>3, <3>1, <3>2 DEF Inv, RenewalBounded
  <2> QED BY <2>1 DEF RenewalBounded
<1>10. RequestOK'
  BY <1>1, <1>3 DEF Inv, RequestOK
<1>11. RestTyped'
  BY <1>1 DEF Inv, RestTyped
<1> QED BY <1>5, <1>7, <1>8, <1>9, <1>10, <1>11 DEF Inv

-----------------------------------------------------------------------------
(* The theorems                                                             *)

LEMMA InitInv ==
    ASSUME Init
    PROVE  Inv
<1> USE DEF Init
<1>1. AbsentJob \in JobRow /\ AbsentAttempt \in AttemptRow
  BY Domains DEF AbsentJob, AbsentAttempt, JobRow, AttemptRow, Disposition
<1>2. ASSUME NEW j \in Jobs PROVE Mirrored(j) /\ Explained(j)
  BY Domains, BudgetAssumption
     DEF Mirrored, Explained, AbsentJob, AbsentAttempt, Terminal, LastAttempt
<1>3. Ledger
  BY <1>1, <1>2 DEF Ledger, AttemptMirrorsJob, HistoryExplainsJob
<1>4. WorkersOK
  BY IdleInHand DEF WorkersOK
<1>5. ExclusiveRow /\ RenewalBounded
  BY DEF ExclusiveRow, RenewalBounded, InTransaction, IdleWorker
<1>6. RequestOK
  BY DEF RequestOK, RequestState, IdleRequest
<1>7. RestTyped
  BY BoundAssumption DEF RestTyped
<1> QED BY <1>3, <1>4, <1>5, <1>6, <1>7 DEF Inv

LEMMA WorkerStepKeeps ==
    ASSUME Inv, NEW w \in Workers, WorkerStep(w)
    PROVE  Inv'
<1>1. CASE StaleObservation(w)
  BY <1>1, BecomesPolling DEF StaleObservation
<1>2. CASE NoEligibleClaim(w)
  BY <1>2, BecomesIdle DEF NoEligibleClaim
<1>3. CASE InvalidTransition(w)
  BY <1>3, LosesEverything DEF InvalidTransition, Dead
<1>4. CASE Fenced(w)
  BY <1>4, BecomesIdle DEF Fenced
<1>5. CASE FinalizationFenceLost(w)
  BY <1>5, BecomesIdle DEF FinalizationFenceLost
<1>6. CASE Restart(w)
  BY <1>6, BecomesIdle DEF Restart
<1> QED BY <1>1, <1>2, <1>3, <1>4, <1>5, <1>6, ObserveExpiredKeeps, RecoverExpiredKeeps,
           ClaimKeeps, BeginHeartbeatKeeps, CommitHeartbeatKeeps, HandlerEndsKeeps,
           BeginsKeep, CommitRetryKeeps, CommitFailureKeeps, ConfirmSuccessKeeps,
           PublishSuccessKeeps,
           ReadBackKeeps
        DEF WorkerStep

LEMMA FaultStepKeeps ==
    ASSUME Inv, NEW w \in Workers, FaultStep(w)
    PROVE  Inv'
<1>1. CASE ReadBackFails(w)
  BY <1>1, LosesEverything DEF ReadBackFails, Dead
<1>2. CASE Crash(w)
  BY <1>2, LosesEverything DEF Crash, Dead
<1> QED BY <1>1, <1>2, HeartbeatFailsKeeps, WriteFailsKeeps DEF FaultStep

LEMMA ClientStepKeeps ==
    ASSUME Inv, ClientStep
    PROVE  Inv'
<1>1. CASE AbortRequest
  BY <1>1, RequestEnds DEF AbortRequest
<1>2. CASE Reply
  BY <1>2, RequestEnds DEF Reply
<1> QED BY <1>1, <1>2, BeginSubmitKeeps, BeginReprocessKeeps, CommitRequestKeeps
        DEF ClientStep

LEMMA StutterKeeps ==
    ASSUME Inv, UNCHANGED vars
    PROVE  Inv'
<1>1. UNCHANGED <<durableVars, worker, faults>> /\ UNCHANGED <<job, request, requests>>
  BY DEF vars, durableVars
<1>2. RequestOK' /\ requests' \in 0..MaxRequests
  BY <1>1 DEF Inv, RequestOK, RestTyped
<1> QED BY <1>1, <1>2, RequestMoves

LEMMA NextInv ==
    ASSUME Inv, [Next]_vars
    PROVE  Inv'
BY WorkerStepKeeps, FaultStepKeeps, BreakDeadlockKeeps, ClientStepKeeps, TickKeeps,
   StutterKeeps
   DEF Next

\* Inv is the inductive invariant of the coordination: every state that the transactions
\* of the workers and the client requests reach, crashes included, satisfies it.
THEOREM Invariance == Spec => []Inv
<1>1. Init => Inv
  BY InitInv
<1>2. Inv /\ [Next]_vars => Inv'
  BY NextInv
<1> QED BY <1>1, <1>2, PTL DEF Spec

\* Rows, tokens and requests stay within their types: in particular no job ever counts
\* more attempts or lease versions than its budget, and no lease is renewed beyond the
\* heartbeats of one bounded runtime.
THEOREM TypeCorrectness == Spec => []TypeOK
<1>1. Inv => TypeOK
  BY DEF Inv, Ledger, WorkersOK, RequestOK, RestTyped, TypeOK
<1> QED BY <1>1, Invariance, PTL

\* The projection on the job row and the attempt history agree in every reachable state,
\* for any number of workers that race, crash and repeat their writes.
THEOREM LedgerConsistency == Spec => []AttemptMirrorsJob
<1>1. Inv => AttemptMirrorsJob
  BY DEF Inv, Ledger
<1> QED BY <1>1, Invariance, PTL

\* The attempts of a job are numbered without gaps under lease versions of their own,
\* all but the last were rescheduled, and the last one explains how the job ended.
THEOREM HistoryConsistency == Spec => []HistoryExplainsJob
<1>1. Inv => HistoryExplainsJob
  BY DEF Inv, Ledger
<1> QED BY <1>1, Invariance, PTL

\* Work is only ever done under a claim that is in the history in the worker's name.
THEOREM DurableClaims == Spec => []WorkNeedsDurableClaim
<1>1. Inv => WorkNeedsDurableClaim
  BY DEF Inv, WorkersOK, WorkNeedsDurableClaim, HoldsClaim, Claims, HasRow
<1> QED BY <1>1, Invariance, PTL

\* Two transactions never hold the row of one job, and the one that does still owns it.
THEOREM RowExclusion == Spec => []ExclusiveRow
<1>1. Inv => ExclusiveRow
  BY DEF Inv
<1> QED BY <1>1, Invariance, PTL


-----------------------------------------------------------------------------
(***************************************************************************)
(* What the steps of IngestionCoordination do to the jobs: each of them    *)
(* leaves the standing of every job alone, or is one transition of the     *)
(* life cycle of one job.  The action properties and the refinement of     *)
(* JobLifecycle follow.                                                    *)
(***************************************************************************)

\* What time and a renewal leave alone.
SameStanding(j) ==
    /\ job'[j].status = job[j].status
    /\ job'[j].attemptCount = job[j].attemptCount
    /\ job'[j].leaseVersion = job[j].leaseVersion
    /\ job'[j].worker = job[j].worker
    /\ job'[j].current = job[j].current

Aged(j) ==
    /\ job'[j].leaseLeft = Earlier(job[j].leaseLeft)
    /\ job'[j].nextLeft = Earlier(job[j].nextLeft)
    /\ job'[j].beats = job[j].beats

Renewed(j) ==
    /\ SampledInTime(j) /\ job[j].status = "processing"
    /\ job'[j].nextLeft = job[j].nextLeft

\* No job changes its standing.
Quiet ==
    /\ attempt' = attempt
    /\ \A j \in Jobs :
         job'[j] = job[j] \/ (SameStanding(j) /\ (Aged(j) \/ Renewed(j)))

Creates(j) ==
    /\ job[j].status = "absent"
    /\ job' = [job EXCEPT ![j] = [job[j] EXCEPT !.status = "queued"]]
    /\ attempt' = attempt

Begins(j) ==
    /\ job[j].status \in {"queued", "retry_scheduled"}
    /\ job[j].attemptCount < MaxAttempts
    /\ \E row \in JobRow, entry \in AttemptRow :
         /\ row.status = "processing" /\ row.nextLeft = 0
         /\ row.attemptCount = job[j].attemptCount + 1
         /\ job' = [job EXCEPT ![j] = row]
         /\ attempt' = [attempt EXCEPT ![j][job[j].attemptCount + 1] = entry]

\* An attempt is ended by its owner, who held the lease when its transaction looked at
\* the clock, or by a recovery after its lease ran out.
Ends(j, status, disposition) ==
    /\ job[j].status = "processing"
    /\ \E left \in Nat :
         /\ job' = [job EXCEPT ![j] = Released(j, status, left)]
         /\ status # "retry_scheduled" => left = 0
    /\ attempt' = [attempt EXCEPT ![j][job[j].current].disposition = disposition]
    /\ status = "retry_scheduled" => job[j].attemptCount < MaxAttempts
    /\ \/ \E w \in Workers :
            /\ worker[w].phase \in {"closing", "confirmed"} /\ worker[w].job = j
            /\ worker'[w] # worker[w]
            /\ job[j].leaseLeft > 0 => Owns(w)
       \/ /\ job[j].leaseLeft = 0
          /\ \E w \in Workers : Recovering(w, j) /\ worker'[w] # worker[w]
          /\ \/ status = "retry_scheduled" /\ disposition = "retry_scheduled"
             \/ status = "failed" /\ disposition = "exhausted"

EndsSomehow(j) ==
    \E status \in Terminal \cup {"retry_scheduled"},
       disposition \in Disposition \ {"absent", "open"} : Ends(j, status, disposition)

Transition(j) == Creates(j) \/ Begins(j) \/ EndsSomehow(j)

-----------------------------------------------------------------------------
(* The steps that end an attempt                                            *)

\* A worker that commits the end of an attempt moves on.
LEMMA OwnerMoves ==
    ASSUME Inv, NEW w \in Workers, worker[w].phase \in {"recovering", "closing", "confirmed"},
           Committed(w, IdleWorker)
    PROVE  worker'[w].phase # worker[w].phase
<1>1. worker \in [Workers -> WorkerState]
  BY DEF Inv, WorkersOK
<1>2. CASE Become(w, IdleWorker)
  BY <1>1, <1>2 DEF Become, IdleWorker
<1>3. CASE Become(w, [IdleWorker EXCEPT !.phase = "reading_back", !.durable = TRUE,
                                        !.task = worker[w].task, !.tried = worker[w].tried])
  <2> DEFINE s == [IdleWorker EXCEPT !.phase = "reading_back", !.durable = TRUE,
                                     !.task = worker[w].task, !.tried = worker[w].tried]
  <2>1. s.phase = "reading_back"
    BY DEF IdleWorker
  <2>2. worker'[w] = s
    BY <1>1, <1>3 DEF Become
  <2> QED BY <2>1, <2>2
<1> QED BY <1>2, <1>3 DEF Committed

LEMMA RecoverExpiredEnds ==
    ASSUME Inv, NEW w \in Workers, RecoverExpired(w)
    PROVE  \E j \in Jobs : EndsSomehow(j)
<1>0. worker[w].job \in Jobs
  BY WorkerTyped DEF RecoverExpired, Shape
<1>j. PICK j \in Jobs : j = worker[w].job
  BY <1>0
<1>1. PICK n : j = worker[w].job /\ n = worker[w].number
  BY <1>j
<1>2. /\ job[j].status = "processing" /\ n = job[j].current /\ job[j].leaseLeft = 0
      /\ n = job[j].attemptCount /\ n \in 1..MaxAttempts
  BY <1>1 DEF RecoverExpired, ObservationHolds, Inv, Ledger, AttemptMirrorsJob, Mirrored
<1>m. Recovering(w, j) /\ worker'[w] # worker[w]
  BY <1>1, OwnerMoves DEF RecoverExpired, Recovering
<1>3. ASSUME job[j].attemptCount < MaxAttempts, NEW delay \in 0..RetryWindow[n],
             ScheduleRetry(j, n, delay)
      PROVE  Ends(j, "retry_scheduled", "retry_scheduled")
  <2>1. delay \in Nat
    BY <1>2, <1>3, DelayTyped
  <2> QED BY <1>2, <1>m, <1>3, <2>1 DEF ScheduleRetry, CloseAttempt, Ends
<1>4. ASSUME Terminate(j, n, "failed", "exhausted")
      PROVE  Ends(j, "failed", "exhausted")
  BY <1>2, <1>m, <1>4, Domains DEF Terminate, CloseAttempt, Ends
<1>5. \/ /\ job[j].attemptCount < MaxAttempts
         /\ \E delay \in 0..RetryWindow[n] : ScheduleRetry(j, n, delay)
      \/ Terminate(j, n, "failed", "exhausted")
  BY <1>1 DEF RecoverExpired
<1>6. Ends(j, "retry_scheduled", "retry_scheduled") \/ Ends(j, "failed", "exhausted")
  BY <1>3, <1>4, <1>5
<1>7. EndsSomehow(j)
  BY <1>6 DEF EndsSomehow, Disposition, Terminal
<1> QED BY <1>7

LEMMA ClosingOwner ==
    ASSUME Inv, NEW w \in Workers, worker[w].phase \in {"closing", "confirmed"}
    PROVE  job[worker[w].job].leaseLeft > 0 => Owns(w)
BY ClosingRow DEF Owns

LEMMA CommitRetryEnds ==
    ASSUME Inv, NEW w \in Workers, CommitRetry(w)
    PROVE  \E j \in Jobs : EndsSomehow(j)
<1>j. PICK j \in Jobs : j = worker[w].job
  BY ClosingRow DEF CommitRetry
<1>1. PICK n : j = worker[w].job /\ n = worker[w].number
  BY <1>j
<1>2. /\ job[j].status = "processing" /\ n = job[j].current /\ n = job[j].attemptCount
      /\ n \in 1..MaxAttempts /\ n < MaxAttempts
  BY <1>1, ClosingRow DEF CommitRetry
<1>3. /\ worker[w].phase = "closing" /\ worker'[w] # worker[w]
      /\ job[j].leaseLeft > 0 => Owns(w)
  BY <1>1, OwnerMoves, ClosingOwner DEF CommitRetry
<1>4. PICK delay \in 0..RetryWindow[n] : ScheduleRetry(j, n, delay)
  BY <1>1 DEF CommitRetry
<1>5. delay \in Nat
  BY <1>2, DelayTyped
<1>6. Ends(j, "retry_scheduled", "retry_scheduled")
  BY <1>1, <1>2, <1>3, <1>4, <1>5 DEF ScheduleRetry, CloseAttempt, Ends
<1> QED BY <1>6 DEF EndsSomehow, Disposition

LEMMA CommitFailureEnds ==
    ASSUME Inv, NEW w \in Workers, CommitFailure(w)
    PROVE  \E j \in Jobs : EndsSomehow(j)
<1>j. PICK j \in Jobs : j = worker[w].job
  BY ClosingRow DEF CommitFailure
<1>1. PICK n : j = worker[w].job /\ n = worker[w].number
  BY <1>j
<1>2. job[j].status = "processing" /\ n = job[j].current
  BY <1>1, ClosingRow DEF CommitFailure
<1>3. /\ worker[w].phase = "closing" /\ worker'[w] # worker[w]
      /\ job[j].leaseLeft > 0 => Owns(w)
  BY <1>1, OwnerMoves, ClosingOwner DEF CommitFailure
<1>4. PICK disposition \in {"exhausted", "failed"} : Terminate(j, n, "failed", disposition)
  BY <1>1 DEF CommitFailure
<1>5. Ends(j, "failed", disposition)
  BY <1>1, <1>2, <1>3, <1>4, Domains DEF Terminate, CloseAttempt, Ends
<1> QED BY <1>5 DEF EndsSomehow, Disposition, Terminal

LEMMA PublishSuccessEnds ==
    ASSUME Inv, NEW w \in Workers, PublishSuccess(w)
    PROVE  \E j \in Jobs : EndsSomehow(j)
<1>j. PICK j \in Jobs : j = worker[w].job
  BY ClosingRow DEF PublishSuccess
<1>1. PICK n : j = worker[w].job /\ n = worker[w].number
  BY <1>j
<1>2. job[j].status = "processing" /\ n = job[j].current
  BY <1>1, ClosingRow DEF PublishSuccess
<1>3. /\ worker[w].phase = "confirmed" /\ worker'[w] # worker[w]
      /\ job[j].leaseLeft > 0 => Owns(w)
  BY <1>1, OwnerMoves, ClosingOwner DEF PublishSuccess
<1>4. PICK status \in {"succeeded", "superseded"} : Terminate(j, n, status, status)
  BY <1>1 DEF PublishSuccess
<1>5. Ends(j, status, status)
  BY <1>1, <1>2, <1>3, <1>4, Domains DEF Terminate, CloseAttempt, Ends
<1> QED BY <1>5 DEF EndsSomehow, Disposition, Terminal

-----------------------------------------------------------------------------
(* The other steps                                                          *)

LEMMA NothingDurable ==
    ASSUME UNCHANGED <<job, attempt>>
    PROVE  Quiet
BY DEF Quiet

LEMMA ClaimBegins ==
    ASSUME Inv, NEW w \in Workers, Claim(w)
    PROVE  \E j \in Jobs : Begins(j)
<1>1. PICK j \in Jobs :
        /\ Claimable(j)
        /\ job' = [job EXCEPT ![j] =
             [@ EXCEPT !.status = "processing", !.attemptCount = job[j].attemptCount + 1,
                       !.leaseVersion = job[j].leaseVersion + 1, !.worker = w,
                       !.current = job[j].attemptCount + 1,
                       !.leaseLeft = LeaseDuration, !.beats = 0, !.nextLeft = 0]]
        /\ attempt' = [attempt EXCEPT ![j][job[j].attemptCount + 1] =
             [worker |-> w, lease |-> job[j].leaseVersion + 1, disposition |-> "open"]]
  BY DEF Claim
<1> DEFINE n == job[j].attemptCount + 1
           row == [job[j] EXCEPT
                     !.status = "processing", !.attemptCount = n,
                     !.leaseVersion = job[j].leaseVersion + 1, !.worker = w, !.current = n,
                     !.leaseLeft = LeaseDuration, !.beats = 0, !.nextLeft = 0]
           entry == [worker |-> w, lease |-> job[j].leaseVersion + 1, disposition |-> "open"]
<1>2. job \in [Jobs -> JobRow] /\ job[j] \in JobRow /\ Explained(j)
  BY DEF Inv, Ledger, HistoryExplainsJob
<1>3. /\ job[j].status \in {"queued", "retry_scheduled"}
      /\ job[j].attemptCount < MaxAttempts
  BY <1>1 DEF Claimable, Due
<1>4. job[j].attemptCount \in Nat /\ job[j].leaseVersion = job[j].attemptCount
  BY <1>2, BudgetAssumption DEF JobRow, Explained
<1>5. n \in 0..MaxAttempts /\ job[j].leaseVersion + 1 = n
  BY <1>3, <1>4, BudgetAssumption
<1>6. /\ row \in JobRow /\ row.status = "processing" /\ row.nextLeft = 0
      /\ row.attemptCount = job[j].attemptCount + 1
  BY <1>2, <1>5, Domains, TimingAssumption DEF JobRow, Status
<1>7. entry \in AttemptRow
  BY <1>5 DEF AttemptRow, Disposition
<1>8. job' = [job EXCEPT ![j] = row] /\ attempt' = [attempt EXCEPT ![j][n] = entry]
  BY <1>1, <1>2
<1> HIDE DEF row, entry
<1> QED BY <1>3, <1>6, <1>7, <1>8 DEF Begins

LEMMA HeartbeatRenews ==
    ASSUME Inv, NEW w \in Workers, CommitHeartbeat(w)
    PROVE  Quiet
<1>0. PICK j \in Jobs : j = worker[w].job
  BY DEF Inv, ExclusiveRow, InTransaction, CommitHeartbeat
<1>1. /\ job' = [job EXCEPT ![j] = [job[j] EXCEPT !.leaseLeft = worker[w].left,
                                                 !.beats = job[j].beats + 1]]
      /\ attempt' = attempt /\ worker[w].phase = "beating"
  BY <1>0 DEF CommitHeartbeat
<1>2. job[j].status = "processing"
  BY <1>0, <1>1 DEF Inv, ExclusiveRow, InTransaction, TokenOf
<1>3. job \in [Jobs -> JobRow] /\ job[j] \in JobRow
  BY DEF Inv, Ledger
<1>4. \A k \in Jobs \ {j} : job'[k] = job[k]
  BY <1>1, <1>3
<1>5. SameStanding(j) /\ job'[j].nextLeft = job[j].nextLeft
  BY <1>1, <1>3 DEF JobRow, SameStanding
<1>6. Renewed(j)
  BY <1>0, <1>1, <1>2, <1>5 DEF Renewed, SampledInTime
<1> QED BY <1>1, <1>4, <1>5, <1>6 DEF Quiet

LEMMA TickAges ==
    ASSUME Inv, Tick
    PROVE  Quiet
<1>1. ASSUME NEW j \in Jobs PROVE SameStanding(j) /\ Aged(j)
  <2>1. job[j] \in JobRow
    BY DEF Inv, Ledger
  <2>2. job'[j] = [job[j] EXCEPT !.leaseLeft = Earlier(@), !.nextLeft = Earlier(@)]
    BY DEF Tick
  <2> QED BY <2>1, <2>2 DEF JobRow, SameStanding, Aged
<1> QED BY <1>1 DEF Quiet, Tick

LEMMA CommitRequestCreates ==
    ASSUME Inv, CommitRequest
    PROVE  Quiet \/ \E j \in Jobs : Creates(j)
<1>1. PICK j \in Jobs : j = request.job
  BY DEF CommitRequest, Inv, RequestOK
<1>2. request.existing <=> job[j].status # "absent"
  BY <1>1 DEF CommitRequest, Inv, RequestOK
<1>3. CASE request.existing
  BY <1>3, NothingDurable DEF CommitRequest
<1>4. CASE ~request.existing
  BY <1>1, <1>2, <1>4 DEF CommitRequest, Creates
<1> QED BY <1>3, <1>4

\* Every step leaves all jobs in their standing, or is one transition of one job.
LEMMA StepEffects ==
    ASSUME Inv, [Next]_vars
    PROVE  Quiet \/ \E j \in Jobs : Transition(j)
<1>1. CASE UNCHANGED vars
  BY <1>1, NothingDurable DEF vars
<1>2. CASE Tick
  BY <1>2, TickAges
<1>3. CASE ClientStep
  <2>1. CASE CommitRequest
    BY <2>1, CommitRequestCreates DEF Transition
  <2>2. CASE BeginSubmit \/ BeginReprocess \/ AbortRequest \/ Reply
    BY <2>2, NothingDurable
       DEF BeginSubmit, BeginReprocess, AbortRequest, Reply, durableVars
  <2> QED BY <1>3, <2>1, <2>2 DEF ClientStep
<1>4. ASSUME NEW w \in Workers, FaultStep(w) \/ BreakDeadlock(w)
      PROVE  Quiet
  BY <1>4, NothingDurable
     DEF FaultStep, BreakDeadlock, HeartbeatFails, WriteFails, ReadBackFails, Crash,
         durableVars
<1>5. ASSUME NEW w \in Workers, WorkerStep(w)
      PROVE  Quiet \/ \E j \in Jobs : Transition(j)
  <2>1. CASE RecoverExpired(w) \/ CommitRetry(w) \/ CommitFailure(w) \/ PublishSuccess(w)
    BY <2>1, RecoverExpiredEnds, CommitRetryEnds, CommitFailureEnds, PublishSuccessEnds
       DEF Transition
  <2>2. CASE Claim(w)
    BY <2>2, ClaimBegins DEF Transition
  <2>3. CASE CommitHeartbeat(w)
    BY <2>3, HeartbeatRenews
  <2>4. CASE ObserveExpired(w) \/ StaleObservation(w) \/ NoEligibleClaim(w)
             \/ BeginHeartbeat(w) \/ HandlerEnds(w) \/ InvalidTransition(w)
             \/ Fenced(w) \/ BeginRetry(w) \/ BeginFailure(w) \/ BeginSuccess(w)
             \/ ConfirmSuccess(w) \/ FinalizationFenceLost(w) \/ ReadBack(w) \/ Restart(w)
    BY <2>4, NothingDurable
       DEF ObserveExpired, StaleObservation, NoEligibleClaim, BeginHeartbeat, HandlerEnds,
           InvalidTransition, Fenced, BeginRetry, BeginFailure, BeginSuccess,
           ConfirmSuccess, FinalizationFenceLost, ReadBack, Restart, durableVars
  <2> QED BY <1>5, <2>1, <2>2, <2>3, <2>4 DEF WorkerStep
<1> QED BY <1>1, <1>2, <1>3, <1>4, <1>5 DEF Next

-----------------------------------------------------------------------------
(* Action properties                                                        *)

\* A delay is only kept on a job that waits for its retry.
DelayOnlyWhileScheduled ==
    \A j \in Jobs : job[j].status # "retry_scheduled" => job[j].nextLeft = 0

LEMMA TransitionAt ==
    ASSUME Inv, NEW j \in Jobs, Transition(j)
    PROVE  /\ \A k \in Jobs \ {j} : job'[k] = job[k] /\ attempt'[k] = attempt[k]
           /\ job[j].status \notin Terminal
           /\ \/ job'[j].status = "retry_scheduled"
              \/ job'[j].nextLeft = 0
              \/ job[j].status = "absent" /\ job'[j].nextLeft = job[j].nextLeft
<1>1. /\ job \in [Jobs -> JobRow] /\ attempt \in [Jobs -> [1..MaxAttempts -> AttemptRow]]
      /\ job[j] \in JobRow
  BY DEF Inv, Ledger
<1>2. CASE Creates(j)
  BY <1>1, <1>2 DEF Creates, JobRow, Terminal
<1>3. CASE Begins(j)
  <2>1. PICK row \in JobRow, entry \in AttemptRow :
          /\ row.nextLeft = 0
          /\ job' = [job EXCEPT ![j] = row]
          /\ attempt' = [attempt EXCEPT ![j][job[j].attemptCount + 1] = entry]
    BY <1>3 DEF Begins
  <2>2. job'[j] = row
    BY <1>1, <2>1
  <2> QED BY <1>1, <1>3, <2>1, <2>2 DEF Begins, Terminal
<1>4. ASSUME NEW status \in Terminal \cup {"retry_scheduled"}, NEW disposition,
             Ends(j, status, disposition)
      PROVE  /\ \A k \in Jobs \ {j} : job'[k] = job[k] /\ attempt'[k] = attempt[k]
             /\ job[j].status \notin Terminal
             /\ job'[j].status = "retry_scheduled" \/ job'[j].nextLeft = 0
  <2>1. PICK left \in Nat : /\ job' = [job EXCEPT ![j] = Released(j, status, left)]
                            /\ status # "retry_scheduled" => left = 0
    BY <1>4 DEF Ends
  <2>2. job'[j] = Released(j, status, left)
    BY <1>1, <2>1
  <2>3. job'[j].status = status /\ job'[j].nextLeft = left
    BY <1>1, <2>2 DEF Released, JobRow
  <2> QED BY <1>1, <1>4, <2>1, <2>3 DEF Ends, Terminal
<1> QED BY <1>2, <1>3, <1>4 DEF Transition, EndsSomehow

LEMMA DelayKept ==
    ASSUME Inv, DelayOnlyWhileScheduled, [Next]_vars
    PROVE  DelayOnlyWhileScheduled'
<1>1. ASSUME Quiet PROVE DelayOnlyWhileScheduled'
  BY <1>1 DEF Quiet, SameStanding, Aged, Renewed, Earlier, DelayOnlyWhileScheduled
<1>2. ASSUME NEW j \in Jobs, Transition(j) PROVE DelayOnlyWhileScheduled'
  BY <1>2, TransitionAt DEF DelayOnlyWhileScheduled
<1> QED BY <1>1, <1>2, StepEffects

\* Once a job is terminal or an attempt closed, no step of any worker, no recovery and
\* no repeated write changes its row.
THEOREM ImmutableHistory == Spec => HistoryIsImmutable
<1> DEFINE Immutable ==
      \A j \in Jobs :
         /\ job[j].status \in Terminal => job'[j] = job[j]
         /\ \A n \in 1..MaxAttempts :
              attempt[j][n].disposition \notin {"absent", "open"}
                => attempt'[j][n] = attempt[j][n]
<1>1. Init => DelayOnlyWhileScheduled
  BY DEF Init, AbsentJob, DelayOnlyWhileScheduled
<1>2. ASSUME Inv, DelayOnlyWhileScheduled, [Next]_vars PROVE Immutable
  <2>1. ASSUME Quiet PROVE Immutable
    <3>1. ASSUME NEW j \in Jobs, job[j].status \in Terminal PROVE job'[j] = job[j]
      <4>0. job[j].status \notin {"processing", "retry_scheduled"}
        BY <3>1 DEF Terminal
      <4>1. job[j].leaseLeft = 0 /\ job[j].nextLeft = 0
        BY <1>2, <4>0 DEF Inv, Ledger, AttemptMirrorsJob, Mirrored,
                          DelayOnlyWhileScheduled
      <4>2. job'[j] = job[j] \/ (SameStanding(j) /\ Aged(j))
        BY <2>1, <4>0 DEF Quiet, Renewed
      <4>3. job[j] \in JobRow /\ job'[j] \in JobRow
        BY <1>2, NextInv DEF Inv, Ledger
      <4> QED BY <4>1, <4>2, <4>3 DEF SameStanding, Aged, Earlier, JobRow
    <3> QED BY <2>1, <3>1 DEF Quiet
  <2>2. ASSUME NEW j \in Jobs, Transition(j) PROVE Immutable
    <3>1. /\ \A k \in Jobs \ {j} : job'[k] = job[k] /\ attempt'[k] = attempt[k]
          /\ job[j].status \notin Terminal
      BY <1>2, <2>2, TransitionAt
    <3>2. /\ attempt \in [Jobs -> [1..MaxAttempts -> AttemptRow]]
          /\ attempt[j] \in [1..MaxAttempts -> AttemptRow]
          /\ job[j] \in JobRow /\ Mirrored(j) /\ Explained(j)
      BY <1>2 DEF Inv, Ledger, AttemptMirrorsJob, HistoryExplainsJob
    <3>3. ASSUME NEW n \in 1..MaxAttempts,
                 attempt[j][n].disposition \notin {"absent", "open"}
          PROVE  attempt'[j][n] = attempt[j][n]
      <4>1. CASE Creates(j)
        BY <4>1 DEF Creates
      <4>2. CASE Begins(j)
        <5>1. job[j].attemptCount + 1 # n
          BY <3>2, <3>3, BudgetAssumption DEF Explained, AbsentAttempt, JobRow
        <5> QED BY <3>2, <4>2, <5>1 DEF Begins
      <4>3. CASE EndsSomehow(j)
        <5>1. job[j].current # n
          BY <3>2, <3>3, <4>3 DEF EndsSomehow, Ends, Mirrored
        <5> QED BY <3>2, <4>3, <5>1 DEF EndsSomehow, Ends
      <4> QED BY <2>2, <4>1, <4>2, <4>3 DEF Transition
    <3> QED BY <3>1, <3>3
  <2> QED BY <1>2, <2>1, <2>2, StepEffects
<1>3. Inv /\ DelayOnlyWhileScheduled /\ [Next]_vars => DelayOnlyWhileScheduled'
  BY DelayKept
<1>4. Spec => [](Inv /\ DelayOnlyWhileScheduled)
  BY <1>1, <1>3, Invariance, PTL DEF Spec
<1>5. Inv /\ DelayOnlyWhileScheduled /\ [Next]_vars => [Immutable]_vars
  BY <1>2
<1>6. Spec => [][Immutable]_vars
  BY <1>4, <1>5, PTL DEF Spec
<1> QED BY <1>6 DEF HistoryIsImmutable

\* Whatever a recovery observed and whenever it decides, an attempt whose lease is live
\* is only ever ended by the worker that owns it.
THEOREM LiveAttemptProtected == Spec => OnlyOwnerEndsLiveAttempt
<1> DEFINE Protected ==
      \A j \in Jobs :
         /\ job[j].status = "processing" /\ job[j].leaseLeft > 0
         /\ job'[j].status # "processing"
         => \E w \in Workers : Owns(w) /\ worker[w].job = j /\ worker'[w] # worker[w]
<1>1. ASSUME Inv, [Next]_vars PROVE Protected
  <2>1. ASSUME Quiet PROVE Protected
    BY <2>1 DEF Quiet, SameStanding
  <2>2. ASSUME NEW j \in Jobs, Transition(j) PROVE Protected
    <3>1. \A k \in Jobs \ {j} : job'[k] = job[k]
      BY <1>1, <2>2, TransitionAt
    <3>2. CASE Creates(j) \/ Begins(j)
      BY <3>1, <3>2 DEF Creates, Begins
    <3>3. CASE EndsSomehow(j)
      BY <3>1, <3>3 DEF EndsSomehow, Ends
    <3> QED BY <2>2, <3>2, <3>3 DEF Transition
  <2> QED BY <1>1, <2>1, <2>2, StepEffects
<1>2. Spec => [][Protected]_vars
  BY <1>1, Invariance, PTL DEF Spec
<1> QED BY <1>2 DEF OnlyOwnerEndsLiveAttempt

-----------------------------------------------------------------------------
(* How a worker gets where it writes after its look at the clock, or where  *)
(* it stops on a broken invariant                                           *)

Special == {"beating", "closing", "confirmed", "invariant_error"}

\* A step takes w to a special phase, or to another job in one.
Arrives(w) ==
    /\ worker'[w].phase \in Special
    /\ worker'[w].phase # worker[w].phase \/ worker'[w].job # worker[w].job

LEMMA BecomesOther ==
    ASSUME Inv, NEW w \in Workers, NEW u \in Workers, NEW s, Become(u, s),
           s.phase \notin Special
    PROVE  ~Arrives(w)
BY DEF Inv, WorkersOK, Become, Arrives, Special

LEMMA PhaseOnly ==
    ASSUME Inv, NEW w \in Workers, NEW u \in Workers,
           NEW phase \in Phases \ Special,
           \/ Become(u, IdleWorker)
           \/ Become(u, [IdleWorker EXCEPT !.phase = phase])
           \/ Enter(u, phase)
    PROVE  ~Arrives(w)
<1>1. worker[u] \in WorkerState
  BY WorkerTyped
<1>2. /\ IdleWorker.phase \notin Special
      /\ [IdleWorker EXCEPT !.phase = phase].phase \notin Special
  BY DEF IdleWorker, Special
<1>3. CASE Enter(u, phase)
  <2>1. Become(u, [worker[u] EXCEPT !.phase = phase])
    BY <1>3 DEF Enter, Become, Inv, WorkersOK
  <2>2. [worker[u] EXCEPT !.phase = phase].phase \notin Special
    BY <1>1 DEF WorkerState
  <2> QED BY <2>1, <2>2, BecomesOther
<1> QED BY <1>2, <1>3, BecomesOther

LEMMA CommitsOther ==
    ASSUME Inv, NEW w \in Workers, NEW u \in Workers, Committed(u, IdleWorker)
    PROVE  ~Arrives(w)
<1> DEFINE s == [IdleWorker EXCEPT !.phase = "reading_back", !.durable = TRUE,
                                   !.task = worker[u].task, !.tried = worker[u].tried]
<1>1. s.phase \notin Special /\ IdleWorker.phase \notin Special
  BY DEF IdleWorker, Special
<1>2. Become(u, IdleWorker) \/ Become(u, s)
  BY DEF Committed
<1> QED BY <1>1, <1>2, BecomesOther

LEMMA ClaimsOther ==
    ASSUME Inv, NEW w \in Workers, NEW u \in Workers, NEW j, NEW n,
           Committed(u, Claimed(j, n))
    PROVE  ~Arrives(w)
<1> DEFINE s == [Claimed(j, n) EXCEPT !.phase = "reading_back", !.durable = TRUE,
                                      !.task = worker[u].task, !.tried = worker[u].tried]
<1>1. s.phase \notin Special /\ Claimed(j, n).phase \notin Special
  BY DEF Claimed, IdleWorker, Special
<1>2. Become(u, Claimed(j, n)) \/ Become(u, s)
  BY DEF Committed
<1> QED BY <1>1, <1>2, BecomesOther

\* The steps that take a worker there are its own, and all but InvalidTransition ask
\* for its live lease.
LEMMA OnlyTheseArrive ==
    ASSUME Inv, [Next]_vars, NEW w \in Workers, Arrives(w)
    PROVE  \/ InvalidTransition(w) \/ BeginHeartbeat(w)
           \/ BeginRetry(w) \/ BeginFailure(w) \/ ConfirmSuccess(w)
<1>1. worker \in [Workers -> WorkerState] /\ \A u \in Workers : worker[u] \in WorkerState
  BY DEF Inv, WorkersOK
<1>2. ASSUME UNCHANGED worker PROVE FALSE
  BY <1>2 DEF Arrives
<1>3. ASSUME Tick PROVE FALSE
  BY <1>1, <1>3 DEF Tick, Arrives, WorkerState
<1>4. ASSUME NEW u \in Workers, FaultStep(u) \/ BreakDeadlock(u) PROVE FALSE
  <2>1. ASSUME NEW s \in WorkerState, s.phase \in {"running", "reading_back"}, Become(u, s)
        PROVE  FALSE
    BY <2>1, BecomesOther DEF Special
  <2>2. /\ [worker[u] EXCEPT !.phase = "running", !.left = 0] \in WorkerState
        /\ [worker[u] EXCEPT !.phase = "running", !.left = 0].phase = "running"
    BY <1>1 DEF WorkerState, Phases
  <2>3. /\ [worker[u] EXCEPT !.phase = "reading_back", !.durable = FALSE] \in WorkerState
        /\ [worker[u] EXCEPT !.phase = "reading_back", !.durable = FALSE].phase
             = "reading_back"
    BY <1>1 DEF WorkerState, Phases
  <2>4. {"indeterminate", "crashed"} \subseteq Phases \ Special
    BY DEF Phases, Special
  <2>5. CASE HeartbeatFails(u)
    BY <2>1, <2>2, <2>4, <2>5, PhaseOnly DEF HeartbeatFails
  <2>6. CASE WriteFails(u) \/ BreakDeadlock(u)
    BY <1>2, <2>1, <2>3, <2>6 DEF WriteFails, BreakDeadlock, Rollback
  <2>7. CASE ReadBackFails(u) \/ Crash(u)
    BY <2>4, <2>7, PhaseOnly DEF ReadBackFails, Crash
  <2> QED BY <1>4, <2>5, <2>6, <2>7 DEF FaultStep
<1>5. ASSUME NEW u \in Workers, WorkerStep(u), ~InvalidTransition(u), ~BeginHeartbeat(u),
             ~BeginRetry(u), ~BeginFailure(u), ~ConfirmSuccess(u)
      PROVE  FALSE
  <2>1. ASSUME NEW s, s.phase \notin Special, Become(u, s) PROVE FALSE
    BY <2>1, BecomesOther
  <2>2. [IdleWorker EXCEPT !.phase = "polling", !.task = "claim"].phase \notin Special
    BY DEF IdleWorker, Special
  <2>3. CASE ObserveExpired(u) \/ StaleObservation(u)
    <3>1. \A j : Observed(u, j).phase \notin Special
      BY DEF Observed, IdleWorker, Special
    <3> QED BY <2>1, <2>2, <2>3, <3>1 DEF ObserveExpired, StaleObservation
  <2>4. CASE RecoverExpired(u) \/ CommitRetry(u) \/ CommitFailure(u) \/ PublishSuccess(u)
    BY <2>4, CommitsOther DEF RecoverExpired, CommitRetry, CommitFailure, PublishSuccess
  <2>5. CASE Claim(u)
    BY <2>5, ClaimsOther DEF Claim
  <2>6. CASE NoEligibleClaim(u) \/ Fenced(u) \/ FinalizationFenceLost(u) \/ Restart(u)
    <3>1. IdleWorker.phase \notin Special
      BY DEF IdleWorker, Special
    <3> QED BY <2>1, <2>6, <3>1
            DEF NoEligibleClaim, Fenced, FinalizationFenceLost, Restart
  <2>7. CASE CommitHeartbeat(u)
    <3>1. /\ [worker[u] EXCEPT !.phase = "running", !.left = 0].phase \notin Special
          /\ [IdleWorker EXCEPT !.phase = "indeterminate"].phase \notin Special
      BY <1>1 DEF WorkerState, IdleWorker, Special
    <3> QED BY <2>1, <2>7, <3>1 DEF CommitHeartbeat
  <2>8. CASE HandlerEnds(u) \/ BeginSuccess(u)
    <3>1. \A task : [worker[u] EXCEPT !.phase = "finishing", !.task = task].phase
                      \notin Special
      BY <1>1 DEF WorkerState, Special
    <3>2. "publishing" \in Phases \ Special
      BY DEF Phases, Special
    <3> QED BY <2>1, <2>8, <3>1, <3>2, PhaseOnly DEF HandlerEnds, BeginSuccess
  <2>9. CASE ReadBack(u)
    <3> DEFINE running == [worker[u] EXCEPT !.phase = "running", !.task = "none",
                                            !.durable = FALSE, !.tried = FALSE]
               again == [worker[u] EXCEPT !.phase = TaskPhase(worker[u].task),
                                          !.tried = TRUE]
               lost == [IdleWorker EXCEPT !.phase = "indeterminate"]
    <3>1. TaskPhase(worker[u].task) \notin Special
      BY DEF TaskPhase, Special
    <3>2. running.phase \notin Special /\ again.phase \notin Special
      BY <1>1, <3>1 DEF WorkerState, Special
    <3>3. IdleWorker.phase \notin Special /\ lost.phase \notin Special
      BY DEF IdleWorker, Special
    <3>4. Become(u, running) \/ Become(u, IdleWorker) \/ Become(u, again) \/ Become(u, lost)
      BY <2>9 DEF ReadBack
    <3> HIDE DEF running, again, lost
    <3> QED BY <2>1, <3>2, <3>3, <3>4
  <2> QED BY <1>5, <2>3, <2>4, <2>5, <2>6, <2>7, <2>8, <2>9 DEF WorkerStep
<1>6. ASSUME ClientStep PROVE FALSE
  BY <1>2, <1>6 DEF ClientStep, BeginSubmit, BeginReprocess, CommitRequest, AbortRequest, Reply
<1>7. ASSUME UNCHANGED vars PROVE FALSE
  BY <1>2, <1>7 DEF vars
<1>8. PICK u \in Workers :
        \/ InvalidTransition(u) \/ BeginHeartbeat(u)
        \/ BeginRetry(u) \/ BeginFailure(u) \/ ConfirmSuccess(u)
  BY <1>3, <1>4, <1>5, <1>6, <1>7 DEF Next
<1>9. \A x \in Workers \ {u} : worker'[x] = worker[x]
  BY <1>1, <1>8
     DEF InvalidTransition, BeginHeartbeat, BeginRetry, BeginFailure, ConfirmSuccess,
         Enter, Become
<1>10. u = w
  BY <1>9 DEF Arrives
<1> QED BY <1>8, <1>10

\* A heartbeat begins for the live owner on its own job, or lets the worker go.
LEMMA BeginHeartbeatLeads ==
    ASSUME Inv, NEW w \in Workers, BeginHeartbeat(w)
    PROVE  \/ Owns(w) /\ worker'[w].phase = "beating" /\ worker'[w].job = worker[w].job
           \/ worker'[w].phase = "idle"
<1>1. worker \in [Workers -> WorkerState] /\ worker[w] \in WorkerState
  BY DEF Inv, WorkersOK
<1>2. PICK s : s = [worker[w] EXCEPT !.phase = "beating", !.left = LeaseDuration]
  OBVIOUS
<1>3. s.phase = "beating" /\ s.job = worker[w].job
  BY <1>1, <1>2 DEF WorkerState
<1>4. CASE Owns(w) /\ Become(w, s)
  <2>1. worker'[w] = s
    BY <1>1, <1>4 DEF Become
  <2> QED BY <1>3, <1>4, <2>1
<1>5. CASE Become(w, IdleWorker)
  BY <1>1, <1>5 DEF Become, IdleWorker
<1> QED BY <1>2, <1>4, <1>5 DEF BeginHeartbeat

\* The process of a live owner never stops on a broken invariant: its attempt is open.
THEOREM LiveOwnerNeverBreaks == Spec => InvariantErrorNeedsLeaseLoss
<1>1. ASSUME Inv, NEW w \in Workers, Owns(w), TokenClosed(w) PROVE FALSE
  <2>1. PICK j \in Jobs, n \in 1..MaxAttempts :
          /\ j = worker[w].job /\ n = worker[w].number
          /\ job[j].status = "processing" /\ n = job[j].current
    BY <1>1, OwnedJob
  <2>2. Mirrored(j)
    BY <1>1 DEF Inv, Ledger, AttemptMirrorsJob
  <2> QED BY <1>1, <2>1, <2>2 DEF Mirrored, TokenClosed, AttemptClosed
<1> DEFINE FencedOff ==
      \A w \in Workers :
         /\ worker'[w].phase = "invariant_error" /\ worker[w].phase # "invariant_error"
         => ~Owns(w)
<1>2. ASSUME Inv, [Next]_vars PROVE FencedOff
  <2>1. ASSUME NEW w \in Workers, worker'[w].phase = "invariant_error",
               worker[w].phase # "invariant_error"
        PROVE  ~Owns(w)
    <3>1. Arrives(w)
      BY <2>1 DEF Arrives, Special
    <3>2. worker \in [Workers -> WorkerState] /\ worker[w] \in WorkerState
      BY <1>2 DEF Inv, WorkersOK
    <3>3. ~BeginRetry(w) /\ ~BeginFailure(w) /\ ~ConfirmSuccess(w)
      BY <2>1, <3>2 DEF BeginRetry, BeginFailure, ConfirmSuccess, Enter, WorkerState
    <3>4. ~BeginHeartbeat(w)
      BY <1>2, <2>1, BeginHeartbeatLeads
    <3> QED BY <1>1, <1>2, <3>1, <3>3, <3>4, OnlyTheseArrive DEF InvalidTransition
  <2> QED BY <2>1
<1>3. Spec => [][FencedOff]_vars
  BY <1>2, Invariance, PTL DEF Spec
<1> QED BY <1>3 DEF InvariantErrorNeedsLeaseLoss

\* A success is confirmed for the live owner of its job, while no other transaction holds
\* the Document.
LEMMA Confirms ==
    ASSUME Inv, [Next]_vars, NEW w \in Workers, worker[w].phase # "confirmed",
           worker'[w].phase = "confirmed"
    PROVE  /\ ConfirmSuccess(w) /\ Owns(w) /\ worker'[w].job = worker[w].job
           /\ ~DocumentLocked /\ UNCHANGED request
<1>1. worker \in [Workers -> WorkerState] /\ worker[w] \in WorkerState
  BY DEF Inv, WorkersOK
<1>2. Arrives(w)
  BY DEF Arrives, Special
<1>3. ~BeginRetry(w) /\ ~BeginFailure(w) /\ ~InvalidTransition(w)
  BY <1>1 DEF BeginRetry, BeginFailure, InvalidTransition, Enter, Become, IdleWorker,
              WorkerState
<1>4. ~BeginHeartbeat(w)
  BY BeginHeartbeatLeads
<1>5. ConfirmSuccess(w)
  BY <1>2, <1>3, <1>4, OnlyTheseArrive
<1>6. worker'[w].job = worker[w].job
  BY <1>1, <1>5 DEF ConfirmSuccess, Enter, WorkerState
<1> QED BY <1>5, <1>6 DEF ConfirmSuccess, clientVars

\* No transaction samples the clock in time once the lease is over.
LEMMA NoLateSample ==
    ASSUME Inv, [Next]_vars, NEW j \in Jobs, Expired(j), ~SampledInTime(j)
    PROVE  ~SampledInTime(j)'
<1> SUFFICES ASSUME NEW w \in Workers, worker'[w].phase \in {"beating", "closing", "confirmed"},
                    worker'[w].job = j
             PROVE  FALSE
  BY DEF SampledInTime
<1>1. worker \in [Workers -> WorkerState] /\ worker[w] \in WorkerState
  BY DEF Inv, WorkersOK
<1>2. Arrives(w)
  BY DEF SampledInTime, Arrives, Special
<1>3. \/ InvalidTransition(w) \/ BeginHeartbeat(w)
      \/ BeginRetry(w) \/ BeginFailure(w) \/ ConfirmSuccess(w)
  BY <1>2, OnlyTheseArrive
<1>4. ~InvalidTransition(w)
  BY <1>1 DEF InvalidTransition, Become, IdleWorker
<1>5. ASSUME BeginHeartbeat(w) PROVE Owns(w) /\ worker[w].job = j
  BY <1>5, BeginHeartbeatLeads
<1>6. ASSUME BeginRetry(w) \/ BeginFailure(w) \/ ConfirmSuccess(w)
      PROVE  Owns(w) /\ worker[w].job = j
  BY <1>1, <1>6 DEF BeginRetry, BeginFailure, ConfirmSuccess, Enter, WorkerState
<1>7. job[j] \in JobRow
  BY DEF Inv, Ledger
<1> QED BY <1>3, <1>4, <1>5, <1>6, <1>7 DEF Owns, Expired

\* Once the lease ran out, and unless a transaction of the owner that looked at the clock
\* in time still has to commit, nothing renews the lease, the owner gets no further, and
\* only a recovery closes the attempt.
THEOREM LeaseLossProved == Spec => LeaseLossIsPermanent
<1> DEFINE Lost(j) ==
      Expired(j) /\ ~SampledInTime(j) =>
        \/ /\ Expired(j)' /\ job'[j].leaseVersion = job[j].leaseVersion
           /\ ~SampledInTime(j)'
        \/ /\ \E w \in Workers : Recovering(w, j) /\ worker'[w] # worker[w]
           /\ job'[j].status \in {"retry_scheduled", "failed"}
           /\ attempt'[j][job[j].current].disposition
                \in {"retry_scheduled", "exhausted"}
<1>1. ASSUME Inv, [Next]_vars PROVE \A j \in Jobs : Lost(j)
  <2>0. ASSUME NEW j \in Jobs,
               Expired(j) /\ ~SampledInTime(j) =>
                 Expired(j)' /\ job'[j].leaseVersion = job[j].leaseVersion
        PROVE  Lost(j)
    BY <1>1, <2>0, NoLateSample
  <2>1. ASSUME Quiet, NEW j \in Jobs PROVE Lost(j)
    <3>1. ASSUME Expired(j) /\ ~SampledInTime(j)
          PROVE  Expired(j)' /\ job'[j].leaseVersion = job[j].leaseVersion
      BY <2>1, <3>1 DEF Quiet, SameStanding, Aged, Renewed, Earlier, Expired
    <3> QED BY <2>0, <3>1
  <2>2. ASSUME NEW j \in Jobs, Transition(j), NEW k \in Jobs PROVE Lost(k)
    <3>1. CASE k # j
      <4>1. job'[k] = job[k]
        BY <1>1, <2>2, <3>1, TransitionAt
      <4>2. Expired(k) => Expired(k)'
        BY <4>1 DEF Expired
      <4> QED BY <2>0, <4>1, <4>2
    <3>2. CASE k = j
      <4>1. CASE Creates(j) \/ Begins(j)
        BY <3>2, <4>1 DEF Creates, Begins, Expired
      <4>2. ASSUME NEW status \in Terminal \cup {"retry_scheduled"}, NEW disposition,
                   Ends(j, status, disposition), Expired(j), ~SampledInTime(j)
            PROVE  /\ \E w \in Workers : Recovering(w, j) /\ worker'[w] # worker[w]
                   /\ job'[j].status \in {"retry_scheduled", "failed"}
                   /\ attempt'[j][job[j].current].disposition
                        \in {"retry_scheduled", "exhausted"}
        <5>1. /\ job \in [Jobs -> JobRow] /\ job[j] \in JobRow
              /\ attempt \in [Jobs -> [1..MaxAttempts -> AttemptRow]]
              /\ attempt[j] \in [1..MaxAttempts -> AttemptRow]
              /\ job[j].current \in 1..MaxAttempts
          BY <1>1, <4>2 DEF Inv, Ledger, AttemptMirrorsJob, Mirrored, Ends
        <5>2. /\ \E w \in Workers : Recovering(w, j) /\ worker'[w] # worker[w]
              /\ \/ status = "retry_scheduled" /\ disposition = "retry_scheduled"
                 \/ status = "failed" /\ disposition = "exhausted"
          BY <4>2 DEF Ends, SampledInTime
        <5>3. job'[j].status = status
          BY <4>2, <5>1 DEF Ends, Released, JobRow
        <5>4. attempt[j][job[j].current] \in AttemptRow
          BY <5>1
        <5>5. attempt'[j][job[j].current].disposition = disposition
          BY <4>2, <5>1, <5>4 DEF Ends, AttemptRow
        <5> QED BY <5>2, <5>3, <5>5
      <4> QED BY <2>2, <3>2, <4>1, <4>2 DEF Transition, EndsSomehow
    <3> QED BY <3>1, <3>2
  <2> QED BY <1>1, <2>1, <2>2, StepEffects
<1>2. Spec => [][\A j \in Jobs : Lost(j)]_vars
  BY <1>1, Invariance, PTL DEF Spec
<1> QED BY <1>2 DEF LeaseLossIsPermanent

-----------------------------------------------------------------------------
(* Refinement                                                               *)

\* The life cycle of one job at a time is all that the workers, the recoveries and the
\* requests together do to the public status and the attempt count.
THEOREM Refinement == Spec => ImplementsLifecycle
<1> DEFINE statusNow == [j \in Jobs |-> job[j].status]
           countNow == [j \in Jobs |-> job[j].attemptCount]
<1>1. Init => Lifecycle!Init
  BY DEF Init, AbsentJob, Lifecycle!Init
<1>2. ASSUME Inv, [Next]_vars
      PROVE  Lifecycle!Next \/ UNCHANGED <<statusNow, countNow>>
  <2>1. ASSUME Quiet PROVE UNCHANGED <<statusNow, countNow>>
    BY <2>1 DEF Quiet, SameStanding
  <2>2. ASSUME NEW j \in Jobs, Transition(j) PROVE Lifecycle!Next
    <3>1. \A k \in Jobs \ {j} : job'[k] = job[k]
      BY <1>2, <2>2, TransitionAt
    <3>2. job \in [Jobs -> JobRow] /\ job[j] \in JobRow
      BY <1>2 DEF Inv, Ledger
    <3>3. CASE Creates(j)
      <4>1. job'[j].status = "queued" /\ job'[j].attemptCount = job[j].attemptCount
        BY <3>2, <3>3 DEF Creates, JobRow
      <4>2. \A k \in Jobs : job'[k].attemptCount = job[k].attemptCount
        BY <3>1, <4>1
      <4>3. UNCHANGED countNow
        BY <4>2
      <4>4. statusNow' = [statusNow EXCEPT ![j] = "queued"]
        BY <3>1, <4>1
      <4>5. statusNow[j] = "absent"
        BY <3>3 DEF Creates
      <4>6. Lifecycle!Create(j)
        BY <4>3, <4>4, <4>5 DEF Lifecycle!Create
      <4> QED BY <4>6 DEF Lifecycle!Next
    <3>4. CASE Begins(j)
      <4>1. /\ job'[j].status = "processing"
            /\ job'[j].attemptCount = job[j].attemptCount + 1
        BY <3>2, <3>4 DEF Begins
      <4>2. Lifecycle!Start(j)
        BY <3>1, <3>4, <4>1 DEF Begins, Lifecycle!Start
      <4> QED BY <4>2 DEF Lifecycle!Next
    <3>5. ASSUME NEW status \in Terminal \cup {"retry_scheduled"}, NEW disposition,
                 Ends(j, status, disposition)
          PROVE  Lifecycle!Next
      <4>1. job'[j].status = status /\ job'[j].attemptCount = job[j].attemptCount
        BY <3>2, <3>5 DEF Ends, Released, JobRow
      <4>2. CASE status = "retry_scheduled"
        <5>1. Lifecycle!Reschedule(j)
          BY <3>1, <3>5, <4>1, <4>2 DEF Ends, Lifecycle!Reschedule
        <5> QED BY <5>1 DEF Lifecycle!Next
      <4>3. CASE status \in Terminal
        <5>1. Lifecycle!Finish(j, status)
          BY <3>1, <3>5, <4>1, <4>3 DEF Ends, Lifecycle!Finish
        <5> QED BY <4>3, <5>1 DEF Lifecycle!Next, Lifecycle!Terminal, Terminal
      <4> QED BY <4>2, <4>3
    <3> QED BY <2>2, <3>3, <3>4, <3>5 DEF Transition, EndsSomehow
  <2> QED BY <1>2, <2>1, <2>2, StepEffects
<1>3. Inv /\ [Next]_vars => [Lifecycle!Next]_(Lifecycle!lifecycleVars)
  BY <1>2 DEF Lifecycle!lifecycleVars
<1>4. Spec => Lifecycle!Spec
  BY <1>1, <1>3, Invariance, PTL DEF Spec, Lifecycle!Spec
<1> QED BY <1>4 DEF ImplementsLifecycle

-----------------------------------------------------------------------------
(***************************************************************************)
(* What retrieval serves and which admissions stay open: the properties    *)
(* that relate the jobs to the Document and to the requests.               *)
(***************************************************************************)

LEMMA TerminalStays ==
    ASSUME Inv, [Next]_vars, NEW j \in Jobs, job[j].status \in Terminal
    PROVE  job'[j].status = job[j].status
<1>1. CASE Quiet
  BY <1>1 DEF Quiet, SameStanding
<1>2. ASSUME NEW k \in Jobs, Transition(k) PROVE job'[j].status = job[j].status
  BY <1>2, TransitionAt
<1> QED BY <1>1, <1>2, StepEffects

-----------------------------------------------------------------------------
(* The Document                                                             *)

\* What PublishSuccess does, in terms of its job.
LEMMA Publishes ==
    ASSUME Inv, NEW w \in Workers, PublishSuccess(w)
    PROVE  \E j \in Jobs :
             /\ worker[w].job = j /\ job[j].status = "processing"
             /\ worker[w].phase = "confirmed" /\ worker'[w].phase # "confirmed"
             /\ document'.published = document.published \cup {Target(j)}
             /\ \/ /\ job'[j].status = "superseded"
                   /\ document'.active = document.active
                \/ /\ job'[j].status = "succeeded" /\ document.current = Target(j)
                   /\ document'.active = Target(j)
<1>j. PICK j \in Jobs : j = worker[w].job
  BY ClosingRow DEF PublishSuccess
<1>1. PICK n : j = worker[w].job /\ n = worker[w].number
  BY <1>j
<1>2. /\ job[j].status = "processing"
      /\ worker[w].phase = "confirmed" /\ worker'[w].phase # "confirmed"
  BY <1>1, ClosingRow, OwnerMoves DEF PublishSuccess
<1>3. /\ job \in [Jobs -> JobRow] /\ job[j] \in JobRow
      /\ document \in [current : Versions \cup {None}, active : Versions \cup {None},
                        published : SUBSET Versions]
  BY DEF Inv, Ledger, RestTyped
<1>4. ASSUME NEW status, NEW disposition, Terminate(j, n, status, disposition)
      PROVE  job'[j].status = status
  BY <1>3, <1>4 DEF Terminate, Released, JobRow
<1>5. CASE /\ document' = [document EXCEPT !.published = @ \cup {Target(j)}]
           /\ Terminate(j, n, "superseded", "superseded")
  <2>1. /\ document'.published = document.published \cup {Target(j)}
        /\ document'.active = document.active
    BY <1>3, <1>5
  <2> QED BY <1>1, <1>2, <1>4, <1>5, <2>1
<1>6. CASE /\ document.current = Target(j)
           /\ document' = [document EXCEPT !.published = @ \cup {Target(j)},
                                           !.active = Target(j)]
           /\ Terminate(j, n, "succeeded", "succeeded")
  <2>1. /\ document'.published = document.published \cup {Target(j)}
        /\ document'.active = Target(j)
    BY <1>3, <1>6
  <2> QED BY <1>1, <1>2, <1>4, <1>6, <2>1
<1> QED BY <1>1, <1>5, <1>6 DEF PublishSuccess

\* Only a success publishes or activates.
LEMMA DocumentSteps ==
    ASSUME Inv, [Next]_vars
    PROVE  \/ document'.active = document.active /\ document'.published = document.published
           \/ \E w \in Workers : PublishSuccess(w)
<1>1. ASSUME UNCHANGED document
      PROVE  document'.active = document.active /\ document'.published = document.published
  BY <1>1
<1>2. ASSUME CommitRequest
      PROVE  document'.active = document.active /\ document'.published = document.published
  BY <1>2 DEF CommitRequest, Inv, RestTyped
<1>3. ASSUME ClientStep, ~CommitRequest PROVE UNCHANGED document
  BY <1>3 DEF ClientStep, BeginSubmit, BeginReprocess, AbortRequest, Reply, durableVars
<1>4. ASSUME NEW w \in Workers, FaultStep(w) \/ BreakDeadlock(w) PROVE UNCHANGED document
  BY <1>4 DEF FaultStep, BreakDeadlock, HeartbeatFails, WriteFails, ReadBackFails, Crash,
              durableVars
<1>5. ASSUME NEW w \in Workers, WorkerStep(w), ~PublishSuccess(w) PROVE UNCHANGED document
  <2>1. CASE RecoverExpired(w) \/ CommitRetry(w) \/ CommitFailure(w)
    BY <2>1 DEF RecoverExpired, CommitRetry, CommitFailure, ScheduleRetry
  <2>2. CASE Claim(w) \/ CommitHeartbeat(w)
    BY <2>2 DEF Claim, CommitHeartbeat
  <2>3. CASE ObserveExpired(w) \/ StaleObservation(w) \/ NoEligibleClaim(w)
             \/ BeginHeartbeat(w) \/ HandlerEnds(w) \/ InvalidTransition(w)
             \/ Fenced(w) \/ BeginRetry(w) \/ BeginFailure(w) \/ BeginSuccess(w)
             \/ ConfirmSuccess(w) \/ FinalizationFenceLost(w) \/ ReadBack(w) \/ Restart(w)
    BY <2>3 DEF ObserveExpired, StaleObservation, NoEligibleClaim, BeginHeartbeat,
                HandlerEnds, InvalidTransition, Fenced, BeginRetry, BeginFailure,
                BeginSuccess, ConfirmSuccess, FinalizationFenceLost, ReadBack, Restart, durableVars
  <2> QED BY <1>5, <2>1, <2>2, <2>3 DEF WorkerStep
<1>6. ASSUME Tick \/ UNCHANGED vars PROVE UNCHANGED document
  BY <1>6 DEF Tick, vars
<1> QED BY <1>1, <1>2, <1>3, <1>4, <1>5, <1>6 DEF Next

\* The served version was published complete by its own job, which succeeded and stays
\* succeeded; every published version has a finished job.
THEOREM PublicationExplained == Spec => []ServedWasPublished
<1>1. Init => ServedWasPublished
  BY DEF Init, ServedWasPublished
<1>2. ASSUME Inv, ServedWasPublished, [Next]_vars PROVE ServedWasPublished'
  <2>1. \A j \in Jobs : job[j].status \in Terminal => job'[j].status = job[j].status
    BY <1>2, TerminalStays
  <2>2. CASE document'.active = document.active /\ document'.published = document.published
    BY <1>2, <2>1, <2>2 DEF ServedWasPublished, Terminal
  <2>3. ASSUME NEW w \in Workers, PublishSuccess(w) PROVE ServedWasPublished'
    <3>1. PICK j \in Jobs :
             /\ document'.published = document.published \cup {Target(j)}
             /\ \/ /\ job'[j].status = "superseded"
                   /\ document'.active = document.active
                \/ /\ job'[j].status = "succeeded" /\ document'.active = Target(j)
      BY <1>2, <2>3, Publishes
    <3> QED BY <1>2, <2>1, <3>1 DEF ServedWasPublished, Terminal
  <2> QED BY <1>2, <2>2, <2>3, DocumentSteps
<1>3. Inv /\ ServedWasPublished /\ [Next]_vars => ServedWasPublished'
  BY <1>2
<1> QED BY <1>1, <1>3, Invariance, PTL DEF Spec

\* The served pointer moves only in the step in which a worker turns the job of the
\* current version from processing to succeeded, and that worker found its lease live
\* once it held the Document.
THEOREM PublicationFenced == Spec => FencedPublication
<1> DEFINE Published ==
      /\ document'.active # document.active =>
            \E j \in Jobs, w \in Workers :
                /\ Target(j) = document.current /\ Target(j) = document'.active
                /\ job[j].status = "processing" /\ job'[j].status = "succeeded"
                /\ worker[w].phase = "confirmed" /\ worker[w].job = j
                /\ worker'[w].phase # "confirmed"
      /\ \A w \in Workers :
            worker[w].phase # "confirmed" /\ worker'[w].phase = "confirmed" =>
                Owns(w) /\ worker'[w].job = worker[w].job /\ ~DocumentLocked
<1>1. ASSUME Inv, [Next]_vars PROVE Published
  <2>1. ASSUME document'.active # document.active
        PROVE  \E j \in Jobs, w \in Workers :
                 /\ Target(j) = document.current /\ Target(j) = document'.active
                 /\ job[j].status = "processing" /\ job'[j].status = "succeeded"
                 /\ worker[w].phase = "confirmed" /\ worker[w].job = j
                 /\ worker'[w].phase # "confirmed"
    BY <1>1, <2>1, DocumentSteps, Publishes
  <2>2. ASSUME NEW w \in Workers, worker[w].phase # "confirmed", worker'[w].phase = "confirmed"
        PROVE  Owns(w) /\ worker'[w].job = worker[w].job /\ ~DocumentLocked
    BY <1>1, <2>2, Confirms
  <2> QED BY <2>1, <2>2
<1>2. Spec => [][Published]_vars
  BY <1>1, Invariance, PTL DEF Spec
<1> QED BY <1>2 DEF FencedPublication

-----------------------------------------------------------------------------
(* Admissions                                                               *)

\* What the request that holds the Document row saw of its job still matters: a success
\* or a supersession would have had to wait for that row.
LinkCurrent ==
    request.phase = "linking" =>
        IF request.settled
        THEN request.existing /\ job[request.job].status \in Terminal
        ELSE job[request.job].status \notin {"succeeded", "superseded"}

\* The Document row is held by the request or by a success about to commit, not by both.
DocumentHeldOnce ==
    \A w \in Workers : worker[w].phase = "confirmed" => request.phase # "linking"

LEMMA DocumentExclusion ==
    ASSUME Inv, DocumentHeldOnce, [Next]_vars
    PROVE  DocumentHeldOnce'
<1> SUFFICES ASSUME NEW w \in Workers, worker'[w].phase = "confirmed",
                    request'.phase = "linking"
             PROVE  FALSE
  BY DEF DocumentHeldOnce
<1>1. CASE worker[w].phase = "confirmed"
  <2>1. request.phase # "linking"
    BY <1>1 DEF DocumentHeldOnce
  <2>2. ~BeginSubmit /\ ~BeginReprocess
    BY <1>1 DEF BeginSubmit, BeginReprocess, BeginRequest, DocumentLocked
  <2>3. ASSUME NEW u \in Workers, WorkerStep(u) \/ FaultStep(u) \/ BreakDeadlock(u)
        PROVE  request' = request \/ request' = IdleRequest
    BY <2>3 DEF WorkerStep, FaultStep, BreakDeadlock, ObserveExpired, StaleObservation,
                RecoverExpired, Claim, NoEligibleClaim, BeginHeartbeat, CommitHeartbeat,
                HandlerEnds, InvalidTransition, Fenced, BeginRetry, CommitRetry,
                BeginFailure, CommitFailure, BeginSuccess, ConfirmSuccess, PublishSuccess,
                FinalizationFenceLost, ReadBack, Restart, HeartbeatFails, WriteFails,
                ReadBackFails, Crash, clientVars
  <2>4. ASSUME CommitRequest \/ AbortRequest \/ Reply PROVE request' = IdleRequest
    BY <2>4 DEF CommitRequest, AbortRequest, Reply
  <2>5. request' = request \/ request' = IdleRequest
    BY <2>2, <2>3, <2>4 DEF Next, ClientStep, Tick, clientVars, vars
  <2> QED BY <2>1, <2>5 DEF IdleRequest
<1>2. CASE worker[w].phase # "confirmed"
  BY <1>2, Confirms DEF DocumentLocked
<1> QED BY <1>1, <1>2

AdmissionsKept == AdmissionsFollowJobs /\ LinkCurrent

\* Steps that leave the standing of every job, its admission and its clean-up alone.
LEMMA AdmissionsUntouched ==
    ASSUME Inv, AdmissionsKept, UNCHANGED <<admission, cleanup>>,
           \A j \in Jobs : job'[j].status = job[j].status,
           UNCHANGED request \/ request'.phase # "linking" \/ LinkCurrent'
    PROVE  AdmissionsKept'
<1>1. AdmissionsFollowJobs'
  BY DEF AdmissionsKept, AdmissionsFollowJobs
<1>2. request.phase = "linking" => request.job \in Jobs
  BY DEF Inv, RequestOK
<1>3. LinkCurrent'
  BY <1>2 DEF AdmissionsKept, LinkCurrent
<1> QED BY <1>1, <1>3 DEF AdmissionsKept

LEMMA AdmissionsOfTerminated ==
    ASSUME Inv, AdmissionsKept, UNCHANGED request, NEW j \in Jobs, NEW n,
           NEW status \in Terminal, NEW disposition, Terminate(j, n, status, disposition),
           job[j].status = "processing",
           status = "failed" \/ request.phase # "linking"
    PROVE  AdmissionsKept'
<1>1. job \in [Jobs -> JobRow] /\ job[j] \in JobRow /\ admission \in [Jobs -> BOOLEAN]
  BY DEF Inv, Ledger, RestTyped
<1>2. /\ job'[j].status = status /\ \A k \in Jobs \ {j} : job'[k] = job[k]
      /\ admission'[j] = FALSE /\ \A k \in Jobs \ {j} : admission'[k] = admission[k]
      /\ cleanup' = cleanup \cup {j}
  BY <1>1 DEF Terminate, Released, JobRow
<1>3. AdmissionsFollowJobs'
  BY <1>2 DEF AdmissionsKept, AdmissionsFollowJobs, Terminal
<1>4. LinkCurrent'
  BY <1>2 DEF AdmissionsKept, LinkCurrent, Inv, RequestOK, Terminal
<1> QED BY <1>3, <1>4 DEF AdmissionsKept

LEMMA AdmissionsOfRescheduled ==
    ASSUME Inv, AdmissionsKept, UNCHANGED request, NEW j \in Jobs, NEW n, NEW delay,
           ScheduleRetry(j, n, delay), job[j].status = "processing"
    PROVE  AdmissionsKept'
<1>1. job \in [Jobs -> JobRow] /\ job[j] \in JobRow
  BY DEF Inv, Ledger
<1>2. /\ job'[j].status = "retry_scheduled" /\ \A k \in Jobs \ {j} : job'[k] = job[k]
      /\ UNCHANGED <<admission, cleanup>>
  BY <1>1 DEF ScheduleRetry, Released, JobRow
<1>3. AdmissionsFollowJobs'
  BY <1>2 DEF AdmissionsKept, AdmissionsFollowJobs, Terminal
<1>4. LinkCurrent'
  BY <1>2 DEF AdmissionsKept, LinkCurrent, Inv, RequestOK, Terminal
<1> QED BY <1>3, <1>4 DEF AdmissionsKept

LEMMA AdmissionsOfClaimed ==
    ASSUME Inv, AdmissionsKept, NEW w \in Workers, Claim(w)
    PROVE  AdmissionsKept'
<1>1. PICK j \in Jobs, row \in JobRow :
        /\ job[j].status \in {"queued", "retry_scheduled"}
        /\ job' = [job EXCEPT ![j] = row] /\ row.status = "processing"
  BY ClaimBegins DEF Begins
<1>2. job \in [Jobs -> JobRow]
  BY DEF Inv, Ledger
<1>3. job'[j].status = "processing" /\ \A k \in Jobs \ {j} : job'[k] = job[k]
  BY <1>1, <1>2
<1>4. UNCHANGED <<admission, cleanup, request>>
  BY DEF Claim, clientVars
<1>5. AdmissionsFollowJobs'
  BY <1>1, <1>3, <1>4 DEF AdmissionsKept, AdmissionsFollowJobs, Terminal
<1>6. LinkCurrent'
  BY <1>1, <1>3, <1>4 DEF AdmissionsKept, LinkCurrent, Inv, RequestOK, Terminal
<1> QED BY <1>5, <1>6 DEF AdmissionsKept

LEMMA AdmissionsOfWorker ==
    ASSUME Inv, AdmissionsKept, DocumentHeldOnce, NEW w \in Workers,
           RecoverExpired(w) \/ CommitRetry(w) \/ CommitFailure(w) \/ PublishSuccess(w)
    PROVE  AdmissionsKept'
<1>j. PICK j \in Jobs : j = worker[w].job
  BY WorkerTyped, ClosingRow
     DEF RecoverExpired, Shape, CommitRetry, CommitFailure, PublishSuccess
<1>1. PICK n : j = worker[w].job /\ n = worker[w].number
  BY <1>j
<1>2. job[j].status = "processing" /\ UNCHANGED request
  BY <1>1, ClosingRow
     DEF RecoverExpired, ObservationHolds, CommitRetry, CommitFailure, PublishSuccess,
         clientVars
<1>3. \/ \E delay : ScheduleRetry(j, n, delay)
      \/ \E disposition : Terminate(j, n, "failed", disposition)
      \/ \E status \in {"succeeded", "superseded"} :
           Terminate(j, n, status, status) /\ request.phase # "linking"
  BY <1>1 DEF RecoverExpired, CommitRetry, CommitFailure, PublishSuccess, DocumentHeldOnce
<1>4. "failed" \in Terminal /\ {"succeeded", "superseded"} \subseteq Terminal
  BY DEF Terminal
<1> QED BY <1>1, <1>2, <1>3, <1>4, AdmissionsOfRescheduled, AdmissionsOfTerminated

LEMMA AdmissionsOfLinked ==
    ASSUME Inv, AdmissionsKept, CommitRequest
    PROVE  AdmissionsKept'
<1>1. PICK j \in Jobs : j = request.job
  BY DEF CommitRequest, Inv, RequestOK
<1>2. /\ request.existing <=> job[j].status # "absent"
      /\ request.settled => request.existing /\ job[j].status \in Terminal
      /\ ~request.settled => job[j].status \notin {"succeeded", "superseded"}
  BY <1>1 DEF CommitRequest, Inv, RequestOK, AdmissionsKept, LinkCurrent
<1>3. job \in [Jobs -> JobRow] /\ job[j] \in JobRow /\ admission \in [Jobs -> BOOLEAN]
  BY DEF Inv, Ledger, RestTyped
<1>4. /\ \A k \in Jobs \ {j} : job'[k] = job[k]
      /\ job'[j].status = IF request.existing THEN job[j].status ELSE "queued"
  BY <1>1, <1>3 DEF CommitRequest, JobRow
<1>5. /\ \A k \in Jobs \ {j} : admission'[k] = admission[k]
      /\ admission'[j] = (admission[j] \/ ~request.settled)
      /\ UNCHANGED cleanup
  BY <1>1, <1>3 DEF CommitRequest
<1>6. AdmissionsFollowJobs'
  <2>1. ASSUME NEW k \in Jobs
        PROVE  /\ job'[k].status \in {"queued", "processing", "retry_scheduled"}
                    => admission'[k]
               /\ admission'[k] => job'[k].status \notin {"absent", "succeeded", "superseded"}
               /\ k \in cleanup' <=> job'[k].status \in Terminal
    <3>1. CASE k # j
      BY <1>4, <1>5, <3>1 DEF AdmissionsKept, AdmissionsFollowJobs
    <3>2. CASE k = j
      <4>1. /\ admission[j] => job[j].status \notin {"absent", "succeeded", "superseded"}
            /\ job[j].status \in {"queued", "processing", "retry_scheduled"} => admission[j]
            /\ j \in cleanup <=> job[j].status \in Terminal
        BY DEF AdmissionsKept, AdmissionsFollowJobs
      <4>2. admission'[j] <=> (admission[j] \/ ~request.settled)
        BY <1>5
      <4>3. CASE request.existing
        <5>1. job'[j].status = job[j].status
          BY <1>4, <4>3
        <5>2. job[j].status # "absent"
          BY <1>2, <4>3
        <5>3. admission'[j] => job'[j].status \notin {"absent", "succeeded", "superseded"}
          BY <1>2, <4>1, <4>2, <5>1, <5>2
        <5>4. job'[j].status \in {"queued", "processing", "retry_scheduled"} => admission'[j]
          BY <4>1, <4>2, <5>1
        <5>5. j \in cleanup' <=> job'[j].status \in Terminal
          BY <1>5, <4>1, <5>1
        <5> QED BY <3>2, <5>3, <5>4, <5>5
      <4>4. CASE ~request.existing
        <5>1. job'[j].status = "queued" /\ job[j].status = "absent"
          BY <1>2, <1>4, <4>4
        <5>2. ~request.settled
          BY <1>2, <4>4
        <5>3. j \notin cleanup'
          BY <1>5, <4>1, <5>1 DEF Terminal
        <5> QED BY <3>2, <4>2, <5>1, <5>2, <5>3 DEF Terminal
      <4> QED BY <4>3, <4>4
    <3> QED BY <3>1, <3>2
  <2> QED BY <2>1 DEF AdmissionsFollowJobs
<1>7. LinkCurrent'
  BY DEF CommitRequest, LinkCurrent, IdleRequest
<1> QED BY <1>6, <1>7 DEF AdmissionsKept

LEMMA AdmissionsOfBegun ==
    ASSUME Inv, AdmissionsKept, BeginSubmit \/ BeginReprocess
    PROVE  AdmissionsKept'
<1>1. UNCHANGED <<job, admission, cleanup>>
  BY DEF BeginSubmit, BeginReprocess, durableVars
<1>2. ASSUME NEW v, NEW j \in Jobs, NEW existing \in BOOLEAN, request' = Linking(v, j, existing),
             existing \/ job[j].status \notin Terminal
      PROVE  LinkCurrent'
  BY <1>1, <1>2 DEF Linking, LinkCurrent, Terminal
<1>3. request'.phase # "linking" \/ LinkCurrent'
  <2>1. CASE BeginSubmit
    <3>1. PICK v \in Versions :
            request' = Linking(v, <<"submit_pdf", v>>, job[<<"submit_pdf", v>>].status # "absent")
      BY <2>1 DEF BeginSubmit
    <3>2. <<"submit_pdf", v>> \in Jobs
      BY DEF Jobs, Operations
    <3> QED BY <1>2, <3>1, <3>2 DEF Terminal
  <2>2. CASE BeginReprocess
    <3>1. PICK v \in Versions : v = document.current
      BY <2>2 DEF BeginReprocess, Inv, RestTyped
    <3>2. {<<"submit_pdf", v>>, <<"reprocess_document_version", v>>} \subseteq Jobs
      BY DEF Jobs, Operations
    <3>3. \/ request' = Linking(v, <<"submit_pdf", v>>, TRUE)
          \/ request' = Linking(v, <<"reprocess_document_version", v>>, TRUE)
          \/ /\ request' = Linking(v, <<"reprocess_document_version", v>>, FALSE)
             /\ job[<<"reprocess_document_version", v>>].status = "absent"
          \/ request'.phase = "rejected"
      BY <2>2, <3>1 DEF BeginReprocess, IdleRequest
    <3> QED BY <1>2, <3>2, <3>3 DEF Terminal
  <2> QED BY <2>1, <2>2
<1> QED BY <1>1, <1>3, AdmissionsUntouched

\* Work that is still to be done keeps the Workspace admitted, and no success or
\* supersession leaves an admission open behind it.
THEOREM AdmissionsFollow == Spec => []AdmissionsFollowJobs
<1>1. Init => AdmissionsKept
  BY DEF Init, AbsentJob, IdleRequest, Terminal, AdmissionsKept, AdmissionsFollowJobs,
         LinkCurrent
<1>2. ASSUME Inv, AdmissionsKept, DocumentHeldOnce, [Next]_vars PROVE AdmissionsKept'
  <2>1. ASSUME UNCHANGED <<job, admission, cleanup>>,
               UNCHANGED request \/ request'.phase # "linking"
        PROVE  AdmissionsKept'
    BY <1>2, <2>1, AdmissionsUntouched
  <2>2. ASSUME UNCHANGED vars PROVE AdmissionsKept'
    BY <2>1, <2>2 DEF vars
  <2>3. ASSUME Tick PROVE AdmissionsKept'
    <3>1. \A j \in Jobs : job'[j].status = job[j].status
      BY <1>2, <2>3, TickAges DEF Quiet, SameStanding
    <3> QED BY <1>2, <2>3, <3>1, AdmissionsUntouched DEF Tick, clientVars
  <2>4. ASSUME ClientStep PROVE AdmissionsKept'
    <3>1. CASE AbortRequest \/ Reply
      BY <2>1, <3>1 DEF AbortRequest, Reply, durableVars, IdleRequest
    <3> QED BY <1>2, <2>4, <3>1, AdmissionsOfLinked, AdmissionsOfBegun DEF ClientStep
  <2>5. ASSUME NEW w \in Workers, FaultStep(w) \/ BreakDeadlock(w) PROVE AdmissionsKept'
    BY <2>1, <2>5 DEF FaultStep, BreakDeadlock, HeartbeatFails, WriteFails, ReadBackFails,
                      Crash, durableVars, clientVars, IdleRequest
  <2>6. ASSUME NEW w \in Workers, CommitHeartbeat(w) PROVE AdmissionsKept'
    <3>1. \A j \in Jobs : job'[j].status = job[j].status
      BY <1>2, <2>6, HeartbeatRenews DEF Quiet, SameStanding
    <3> QED BY <1>2, <2>6, <3>1, AdmissionsUntouched DEF CommitHeartbeat, clientVars
  <2>7. ASSUME NEW w \in Workers, WorkerStep(w) PROVE AdmissionsKept'
    <3>1. CASE ObserveExpired(w) \/ StaleObservation(w) \/ NoEligibleClaim(w)
               \/ BeginHeartbeat(w) \/ HandlerEnds(w) \/ InvalidTransition(w)
               \/ Fenced(w) \/ BeginRetry(w) \/ BeginFailure(w) \/ BeginSuccess(w)
               \/ ConfirmSuccess(w) \/ FinalizationFenceLost(w) \/ ReadBack(w) \/ Restart(w)
      BY <2>1, <3>1
         DEF ObserveExpired, StaleObservation, NoEligibleClaim, BeginHeartbeat, HandlerEnds,
             InvalidTransition, Fenced, BeginRetry, BeginFailure, BeginSuccess,
             ConfirmSuccess, FinalizationFenceLost, ReadBack, Restart, durableVars, clientVars
    <3> QED BY <1>2, <2>6, <2>7, <3>1, AdmissionsOfWorker, AdmissionsOfClaimed
            DEF WorkerStep
  <2> QED BY <1>2, <2>2, <2>3, <2>4, <2>5, <2>7 DEF Next
<1>3. Inv /\ AdmissionsKept /\ DocumentHeldOnce /\ [Next]_vars => AdmissionsKept'
  BY <1>2
<1>4. Init => DocumentHeldOnce
  BY DEF Init, IdleRequest, DocumentHeldOnce
<1>5. Inv /\ DocumentHeldOnce /\ [Next]_vars => DocumentHeldOnce'
  BY DocumentExclusion
<1>6. AdmissionsKept => AdmissionsFollowJobs
  BY DEF AdmissionsKept
<1> QED BY <1>1, <1>3, <1>4, <1>5, <1>6, Invariance, PTL DEF Spec
=============================================================================
