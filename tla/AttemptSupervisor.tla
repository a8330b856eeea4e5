-------------------------- MODULE AttemptSupervisor --------------------------
(***************************************************************************)
(* One worker process around its attempts: run_once reserves a permit of   *)
(* the bounded runner, claims, starts the handler on a thread of its own   *)
(* and supervises it until it completes, loses its lease or runs out of    *)
(* time.  Threads are never killed: a detached handler goes on, and keeps  *)
(* its permit until it exits.                                              *)
(*                                                                         *)
(* The claim, the heartbeat and the finalization are the operations of     *)
(* IngestionCoordination; here only their answers matter.  The clock       *)
(* counts from the start of the attempt in hand and stops at the runtime   *)
(* limit, because every later time compares alike.                         *)
(***************************************************************************)
EXTENDS Naturals, FiniteSets

CONSTANTS
    None,
    Capacity,      \* max_concurrency of the runner
    Wirings,       \* whether run_once is given an AttemptRuntime: {TRUE}, {FALSE} or both
    MaxRuntime,    \* AttemptTimingV1.max_attempt_runtime
    Interval,      \* heartbeat cadence
    MaxRuns        \* bound: invocations of run_once that reserve a permit

ASSUME RunnerAssumption == Capacity \in Nat \ {0} /\ Wirings \subseteq BOOLEAN
ASSUME CadenceAssumption ==
    MaxRuntime \in Nat \ {0} /\ Interval \in Nat \ {0} /\ MaxRuns \in Nat

Runs == 1..MaxRuns
Times == 0..MaxRuntime

ASSUME NoTimeAssumption == None \notin Times

VARIABLES
    supervised,  \* was run_once given an AttemptRuntime?  Fixed for the process
    pc,          \* where run_once is
    run,         \* the invocation in hand; later ones have not begun
    permits,     \* value of the semaphore
    holding,     \* invocations whose permit is not released
    thread,      \* invocation -> its handler thread
    elapsed,     \* monotonic time since the attempt in hand was started
    nextBeat,    \* next_heartbeat_at, since the start
    seen,        \* the completion the supervisor read, None if there was none
    verdict      \* invocation -> how run_once came to end it

runVars == <<supervised, pc, run, nextBeat, seen, verdict>>
permitVars == <<permits, holding>>
vars == <<runVars, permitVars, thread, elapsed>>

Verdicts == {"none", "unclaimed", "completed", "start_failed", "timed_out", "lease_lost",
             "indeterminate"}

\* A thread has returned when its completion time is taken, has published when the
\* supervisor can see it, and has exited when its permit is released.
ThreadState ==
    [state : {"unborn", "executing", "returned", "published", "exited"},
     completedAt : Times \cup {None}, cancelled : BOOLEAN, detached : BOOLEAN]

NoThread == [state |-> "unborn", completedAt |-> None, cancelled |-> FALSE,
             detached |-> FALSE]

TypeOK ==
    /\ supervised \in Wirings
    /\ pc \in {"idle", "claiming", "starting", "looking", "deciding", "waiting", "beating",
               "inline", "finalizing", "ended"}
    /\ run \in 0..MaxRuns
    /\ permits \in 0..Capacity
    /\ holding \in SUBSET Runs
    /\ thread \in [Runs -> ThreadState]
    /\ elapsed \in Times
    /\ nextBeat \in Nat
    /\ seen \in Times \cup {None}
    /\ verdict \in [Runs -> Verdicts]

Init ==
    /\ supervised \in Wirings
    /\ pc = "idle" /\ run = 0
    /\ permits = Capacity /\ holding = {}
    /\ thread = [r \in Runs |-> NoThread]
    /\ elapsed = 0 /\ nextBeat = 0 /\ seen = None
    /\ verdict = [r \in Runs |-> "none"]

-----------------------------------------------------------------------------
(* Permits                                                                  *)

\* Both run_once and the thread release the permit; the second time does nothing.
Release(r) ==
    /\ permits' = IF r \in holding THEN permits + 1 ELSE permits
    /\ holding' = holding \ {r}

\* The locals of the supervision go out of scope with its result.
End(how) ==
    /\ verdict' = [verdict EXCEPT ![run] = how]
    /\ elapsed' = 0 /\ nextBeat' = 0 /\ seen' = None

-----------------------------------------------------------------------------
(* run_once before supervision                                              *)

TryReserve ==
    /\ pc = "idle" /\ run < MaxRuns
    /\ permits > 0
    /\ run' = run + 1
    /\ permits' = permits - 1
    /\ holding' = holding \cup {run + 1}
    /\ pc' = "claiming"
    /\ UNCHANGED <<supervised, nextBeat, seen, verdict, thread, elapsed>>

\* RunnerCapacityUnavailable leaves run_worker: the process ends.
CapacityUnavailable ==
    /\ pc = "idle" /\ run < MaxRuns
    /\ permits = 0
    /\ pc' = "ended"
    /\ UNCHANGED <<supervised, run, nextBeat, seen, verdict, permitVars, thread, elapsed>>

\* No eligible job or a lost claim ends this run_once, a database error the process.
ClaimFails ==
    /\ pc = "claiming"
    /\ pc' \in {"idle", "ended"}
    /\ End("unclaimed")
    /\ Release(run)
    /\ UNCHANGED <<supervised, run, thread>>

ClaimSucceeds ==
    /\ pc = "claiming"
    /\ pc' = "starting"
    /\ UNCHANGED <<supervised, run, nextBeat, seen, verdict, permitVars, thread, elapsed>>

\* supervise samples started_at and plans the first heartbeat.
StartHandler ==
    /\ pc = "starting" /\ supervised
    /\ thread' = [thread EXCEPT ![run].state = "executing"]
    /\ elapsed' = 0 /\ nextBeat' = Interval /\ seen' = None
    /\ pc' = "looking"
    /\ UNCHANGED <<supervised, run, verdict, permitVars>>

StartFails ==
    /\ pc = "starting" /\ supervised
    /\ pc' = "finalizing"
    /\ End("start_failed")
    /\ Release(run)
    /\ UNCHANGED <<supervised, run, thread>>

\* Without an AttemptRuntime the handler runs inside run_once.
ExecuteInline ==
    /\ pc = "starting" /\ ~supervised
    /\ pc' = "inline"
    /\ elapsed' = 0
    /\ UNCHANGED <<supervised, run, nextBeat, seen, verdict, permitVars, thread>>

InlineReturns ==
    /\ pc = "inline"
    /\ pc' = "finalizing"
    /\ End("completed")
    /\ Release(run)
    /\ UNCHANGED <<supervised, run, thread>>

-----------------------------------------------------------------------------
(* AttemptSupervisor.supervise                                              *)

\* attempt.completion(): the clock is read afterwards.
Look ==
    /\ pc = "looking"
    /\ seen' = IF thread[run].state \in {"published", "exited"}
               THEN thread[run].completedAt ELSE None
    /\ pc' = "deciding"
    /\ UNCHANGED <<supervised, run, nextBeat, verdict, permitVars, thread, elapsed>>

BeatDue == elapsed >= nextBeat /\ elapsed < MaxRuntime

\* Mutant of InTime: a completion at the deadline is accepted.
InTimeOrEqual == seen # None /\ seen <= MaxRuntime

InTime == seen # None /\ seen < MaxRuntime

SendHeartbeat ==
    /\ pc = "deciding" /\ BeatDue
    /\ pc' = "beating"
    /\ UNCHANGED <<supervised, run, nextBeat, seen, verdict, permitVars, thread, elapsed>>

Accept ==
    /\ pc = "deciding" /\ ~BeatDue /\ InTime
    /\ pc' = "finalizing"
    /\ End("completed")
    /\ Release(run)
    /\ UNCHANGED <<supervised, run, thread>>

\* The handler is told to stop and nobody waits for it; its permit is retained.
Detach == thread' = [thread EXCEPT ![run].cancelled = TRUE, ![run].detached = TRUE]

\* Mutant of TimeOut: the permit of a handler that goes on is released.
TimeOutReleasing ==
    /\ pc = "deciding" /\ ~BeatDue /\ ~InTime
    /\ elapsed >= MaxRuntime \/ seen # None
    /\ Detach
    /\ pc' = "finalizing"
    /\ End("timed_out")
    /\ Release(run)
    /\ UNCHANGED <<supervised, run>>

TimeOut ==
    /\ pc = "deciding" /\ ~BeatDue /\ ~InTime
    /\ elapsed >= MaxRuntime \/ seen # None
    /\ Detach
    /\ pc' = "finalizing"
    /\ End("timed_out")
    /\ UNCHANGED <<supervised, run, permitVars>>

Wait ==
    /\ pc = "deciding" /\ ~BeatDue
    /\ elapsed < MaxRuntime /\ seen = None
    /\ pc' = "waiting"
    /\ UNCHANGED <<supervised, run, nextBeat, seen, verdict, permitVars, thread, elapsed>>

\* Mutant of Wake: only a completion wakes the supervisor.
WakeOnCompletion ==
    /\ pc = "waiting"
    /\ thread[run].state \in {"published", "exited"}
    /\ pc' = "looking"
    /\ UNCHANGED <<supervised, run, nextBeat, seen, verdict, permitVars, thread, elapsed>>

\* wait_until: the completion is published, or the next local deadline has come.
Wake ==
    /\ pc = "waiting"
    /\ \/ thread[run].state \in {"published", "exited"}
       \/ elapsed >= nextBeat \/ elapsed >= MaxRuntime
    /\ pc' = "looking"
    /\ UNCHANGED <<supervised, run, nextBeat, seen, verdict, permitVars, thread, elapsed>>

HeartbeatApplied ==
    /\ pc = "beating"
    /\ nextBeat' = nextBeat + Interval
    /\ pc' = "looking"
    /\ UNCHANGED <<supervised, run, seen, verdict, permitVars, thread, elapsed>>

\* A definite fence ends this run_once without a finalization.
HeartbeatFenced ==
    /\ pc = "beating"
    /\ Detach
    /\ pc' = "idle"
    /\ End("lease_lost")
    /\ UNCHANGED <<supervised, run, permitVars>>

\* CoordinationOutcomeIndeterminate is raised on, and ends the process.
HeartbeatIndeterminate ==
    /\ pc = "beating"
    /\ Detach
    /\ pc' = "ended"
    /\ End("indeterminate")
    /\ UNCHANGED <<supervised, run, permitVars>>

\* The one fenced exit; an outcome that is indeterminate or illegal ends the process.
Finalize ==
    /\ pc = "finalizing"
    /\ pc' \in {"idle", "ended"}
    /\ UNCHANGED <<supervised, run, nextBeat, seen, verdict, permitVars, thread, elapsed>>

-----------------------------------------------------------------------------
(* The handler threads                                                      *)

Attached(r) == r = run /\ ~thread[r].detached

\* handler.execute returns or raises; the completion time is taken at once.
Return(r) ==
    /\ thread[r].state = "executing"
    /\ thread' = [thread EXCEPT ![r].state = "returned",
                    ![r].completedAt = IF Attached(r) THEN elapsed ELSE MaxRuntime]
    /\ UNCHANGED <<runVars, permitVars, elapsed>>

Publish(r) ==
    /\ thread[r].state = "returned"
    /\ thread' = [thread EXCEPT ![r].state = "published"]
    /\ UNCHANGED <<runVars, permitVars, elapsed>>

\* Mutant of Exit: a detached thread leaves its slot to nobody.
ExitUnreleased(r) ==
    /\ thread[r].state = "published"
    /\ thread' = [thread EXCEPT ![r].state = "exited"]
    /\ IF thread[r].detached THEN UNCHANGED permitVars ELSE Release(r)
    /\ UNCHANGED <<runVars, elapsed>>

Exit(r) ==
    /\ thread[r].state = "published"
    /\ thread' = [thread EXCEPT ![r].state = "exited"]
    /\ Release(r)
    /\ UNCHANGED <<runVars, elapsed>>

-----------------------------------------------------------------------------

InHand == pc \in {"looking", "deciding", "waiting", "beating", "inline"}

Tick ==
    /\ InHand /\ elapsed < MaxRuntime
    /\ elapsed' = elapsed + 1
    /\ UNCHANGED <<runVars, permitVars, thread>>

\* A new process starts with a fresh runner; the daemon threads died with the old one.
Restart ==
    /\ pc = "ended"
    /\ pc' = "idle"
    /\ permits' = Capacity /\ holding' = {}
    /\ thread' = [r \in Runs |-> IF r <= run THEN [thread[r] EXCEPT !.state = "exited"]
                                 ELSE thread[r]]
    /\ UNCHANGED <<supervised, run, nextBeat, seen, verdict, elapsed>>

RunOnce ==
    \/ TryReserve \/ CapacityUnavailable \/ ClaimFails \/ ClaimSucceeds
    \/ StartHandler \/ StartFails \/ ExecuteInline
    \/ Look \/ SendHeartbeat \/ Accept \/ TimeOut \/ Wait \/ Wake
    \/ HeartbeatApplied \/ HeartbeatFenced \/ HeartbeatIndeterminate
    \/ Finalize \/ Restart

ThreadStep(r) == Return(r) \/ Publish(r) \/ Exit(r)

Next == RunOnce \/ InlineReturns \/ (\E r \in Runs : ThreadStep(r)) \/ Tick

Spec == Init /\ [][Next]_vars

\* The supervising thread is scheduled, its calls to the store return, time passes, and
\* a thread whose handler returned comes to its end.  A handler need not ever return.
Fairness ==
    /\ WF_vars(RunOnce)
    /\ WF_vars(Tick)
    /\ \A r \in Runs : WF_vars(Publish(r) \/ Exit(r))

FairSpec == Spec /\ Fairness

-----------------------------------------------------------------------------
(* Properties                                                               *)

Executing == {r \in Runs : thread[r].state = "executing"}

\* Permits are neither lost nor minted, although run_once and the thread both release
\* them, and no more handlers run physically than the runner has permits: one that was
\* given up keeps its permit until it has really returned.
PermitsBoundHandlers ==
    /\ permits + Cardinality(holding) = Capacity
    /\ Executing \subseteq holding

\* A handler that runs on although its attempt was decided has been told to stop and
\* its late result can reach nobody.
AbandonedHandlersCancelled ==
    \A r \in Executing : verdict[r] # "none" => thread[r].cancelled /\ thread[r].detached

\* A completion is accepted only when the handler returned before the deadline and was
\* never given up; equality is a timeout.
AcceptedInTime ==
    supervised =>
        \A r \in Runs : verdict[r] = "completed" =>
            /\ thread[r].completedAt # None /\ thread[r].completedAt < MaxRuntime
            /\ ~thread[r].detached

Claimed(r) == run = r /\ pc \in {"starting", "looking", "inline"}

\* What CONTEXT.md says of every attempt: run_once decides what it claimed, however long
\* the handler takes.
AttemptRuntimeIsBounded ==
    \A r \in Runs : Claimed(r) ~> verdict[r] # "none"

\* Under supervision the runtime of an attempt is bounded: run_once decides every attempt
\* that it claimed, although the handler may never return.
SupervisedRuntimeIsBounded ==
    \A r \in Runs : supervised /\ Claimed(r) ~> verdict[r] # "none"

\* A handler that returned gives its slot back, whoever has given it up meanwhile.
SlotsComeBack ==
    \A r \in Runs : thread[r].state = "returned" ~> r \notin holding

=============================================================================
