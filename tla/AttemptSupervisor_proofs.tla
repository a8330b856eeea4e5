----------------------- MODULE AttemptSupervisor_proofs -----------------------
(***************************************************************************)
(* The permits of the bounded runner: for every capacity, every number of  *)
(* attempts and both wirings, permits and holders balance, no handler runs *)
(* without a permit of its own, and what was given up stays given up.      *)
(***************************************************************************)
EXTENDS AttemptSupervisor, FiniteSetTheorems, TLAPS

-----------------------------------------------------------------------------
(* The inductive invariant                                                  *)

Balance ==
    /\ permits \in Nat /\ holding \in SUBSET Runs /\ IsFiniteSet(holding)
    /\ permits + Cardinality(holding) = Capacity

Typed ==
    /\ supervised \in Wirings
    /\ pc \in {"idle", "claiming", "starting", "looking", "deciding", "waiting", "beating",
               "inline", "finalizing", "ended"}
    /\ run \in 0..MaxRuns
    /\ thread \in [Runs -> ThreadState]
    /\ elapsed \in Times /\ nextBeat \in Nat /\ seen \in Times \cup {None}
    /\ verdict \in [Runs -> Verdicts]

Done(r) == thread[r].state \in {"published", "exited"}

\* What one invocation owes to the ones before: the thread that runs has its permit, is
\* cancelled once it was decided, and an accepted completion is over and in time.
ThreadOK(r) ==
    /\ r > run => thread[r] = NoThread /\ verdict[r] = "none" /\ r \notin holding
    /\ thread[r].state = "executing" =>
         /\ r \in holding
         /\ verdict[r] # "none" => thread[r].cancelled /\ thread[r].detached
    /\ supervised /\ verdict[r] = "completed" =>
         /\ Done(r) /\ ~thread[r].detached
         /\ thread[r].completedAt # None /\ thread[r].completedAt < MaxRuntime

\* Where run_once is says what it may rely on: before the start nothing runs for it,
\* under supervision its handler is its own, and what it saw was published.
RunOK ==
    /\ pc \in {"claiming", "starting", "inline"} =>
         /\ run \in Runs /\ run \in holding
         /\ thread[run] = NoThread /\ verdict[run] = "none"
    /\ pc = "inline" => ~supervised
    /\ pc \in {"looking", "deciding", "waiting", "beating"} =>
         /\ run \in Runs /\ ~thread[run].detached /\ verdict[run] = "none"
    /\ pc = "deciding" /\ seen # None => Done(run) /\ seen = thread[run].completedAt

Inv == Balance /\ Typed /\ RunOK /\ (\A r \in Runs : ThreadOK(r))

-----------------------------------------------------------------------------
(* Permits                                                                  *)

LEMMA Releasing ==
    ASSUME Balance, NEW r \in Runs, Release(r)
    PROVE  Balance' /\ holding' = holding \ {r}
<1>1. /\ IsFiniteSet(holding \ {r})
      /\ Cardinality(holding \ {r}) = IF r \in holding THEN Cardinality(holding) - 1
                                      ELSE Cardinality(holding)
  BY FS_RemoveElement DEF Balance
<1>2. Cardinality(holding) \in Nat
  BY FS_CardinalityType DEF Balance
<1> QED BY <1>1, <1>2, RunnerAssumption DEF Balance, Release

LEMMA Reserving ==
    ASSUME Balance, NEW r \in Runs, r \notin holding, permits > 0,
           permits' = permits - 1, holding' = holding \cup {r}
    PROVE  Balance'
<1>1. IsFiniteSet(holding \cup {r}) /\ Cardinality(holding \cup {r}) = Cardinality(holding) + 1
  BY FS_AddElement DEF Balance
<1>2. Cardinality(holding) \in Nat
  BY FS_CardinalityType DEF Balance
<1> QED BY <1>1, <1>2, RunnerAssumption DEF Balance

-----------------------------------------------------------------------------
(* The steps                                                                *)

\* Steps that move run_once on without touching threads, permits or verdicts.
LEMMA QuietSteps ==
    ASSUME Inv,
           \/ CapacityUnavailable \/ ClaimSucceeds \/ ExecuteInline \/ Look
           \/ SendHeartbeat \/ Wait \/ Wake \/ HeartbeatApplied \/ Finalize \/ Tick
           \/ UNCHANGED vars
    PROVE  Inv'
<1> USE DEF Inv
<1>1. UNCHANGED <<supervised, run, permits, holding, thread, verdict>>
  BY DEF CapacityUnavailable, ClaimSucceeds, ExecuteInline, Look, SendHeartbeat, Wait, Wake,
         HeartbeatApplied, Finalize, Tick, runVars, permitVars, vars
<1>2. Balance'
  BY <1>1 DEF Balance
<1>3. \A r \in Runs : ThreadOK(r)'
  BY <1>1 DEF ThreadOK, Done
<1>4. run \in Runs => thread[run] \in ThreadState
  BY DEF Typed
<1>5. Typed'
  BY <1>1, <1>4, CadenceAssumption
     DEF Typed, RunOK, Times, ThreadState, CapacityUnavailable, ClaimSucceeds, ExecuteInline,
         Look, SendHeartbeat, Wait, Wake, HeartbeatApplied, Finalize, Tick, runVars, vars
<1>6. RunOK'
  BY <1>1
     DEF RunOK, Done, CapacityUnavailable, ClaimSucceeds, ExecuteInline, Look, SendHeartbeat,
         Wait, Wake, HeartbeatApplied, Finalize, Tick, runVars, vars
<1> QED BY <1>2, <1>3, <1>5, <1>6

LEMMA ReserveStep ==
    ASSUME Inv, TryReserve
    PROVE  Inv'
<1> USE DEF Inv
<1>1. run \in Nat /\ run' = run + 1 /\ run' \in Runs /\ run' > run
  BY CadenceAssumption DEF TryReserve, Typed, Runs
<1>2. thread[run'] = NoThread /\ verdict[run'] = "none" /\ run' \notin holding
  BY <1>1 DEF ThreadOK
<1>3. /\ permits > 0 /\ permits' = permits - 1 /\ holding' = holding \cup {run'}
      /\ pc' = "claiming" /\ UNCHANGED <<supervised, nextBeat, seen, verdict, thread, elapsed>>
  BY <1>1 DEF TryReserve
<1>4. Balance'
  BY <1>1, <1>2, <1>3, Reserving
<1>5. Typed'
  BY <1>1, <1>3 DEF Typed, Runs
<1>6. RunOK'
  BY <1>1, <1>2, <1>3 DEF RunOK
<1>7. ASSUME NEW r \in Runs PROVE ThreadOK(r)'
  BY <1>1, <1>3 DEF ThreadOK, Done, Runs
<1> QED BY <1>4, <1>5, <1>6, <1>7

\* Steps that decide the invocation in hand and release its permit: no thread was
\* started for it, or its completion was accepted.
LEMMA ReleasingSteps ==
    ASSUME Inv, ClaimFails \/ StartFails \/ InlineReturns \/ Accept
    PROVE  Inv'
<1> USE DEF Inv
<1>1. PICK how \in Verdicts :
        /\ how # "none" /\ (how = "completed" => pc = "inline" \/ (pc = "deciding" /\ InTime))
        /\ how # "completed" => pc \in {"claiming", "starting"}
        /\ verdict' = [verdict EXCEPT ![run] = how] /\ Release(run)
        /\ pc' \in {"idle", "ended", "finalizing"} /\ UNCHANGED <<supervised, run, thread>>
        /\ elapsed' = 0 /\ nextBeat' = 0 /\ seen' = None
  BY DEF ClaimFails, StartFails, InlineReturns, Accept, End, Verdicts
<1>2. run \in Runs /\ verdict \in [Runs -> Verdicts]
  BY <1>1 DEF RunOK, Typed
<1>3. Balance' /\ holding' = holding \ {run}
  BY <1>1, <1>2, Releasing
<1>4. Typed'
  BY <1>1, <1>2, CadenceAssumption DEF Typed, Times
<1>5. RunOK'
  BY <1>1 DEF RunOK
<1>6. thread[run].state # "executing"
  BY <1>1 DEF RunOK, Done, InTime, NoThread
<1>7. ASSUME NEW r \in Runs PROVE ThreadOK(r)'
  <2>1. CASE r # run
    BY <1>1, <1>2, <1>3, <2>1 DEF ThreadOK, Done
  <2>2. CASE r = run
    <3>1. verdict'[r] = how
      BY <1>1, <1>2, <2>2
    <3>2. supervised /\ how = "completed" =>
            /\ Done(r) /\ ~thread[r].detached
            /\ thread[r].completedAt # None /\ thread[r].completedAt < MaxRuntime
      BY <1>1, <2>2 DEF RunOK, InTime
    <3>3. ~(r > run)
      BY <1>2, <2>2 DEF Runs
    <3> QED BY <1>1, <1>6, <2>2, <3>1, <3>2, <3>3 DEF ThreadOK, Done
  <2> QED BY <2>1, <2>2
<1> QED BY <1>3, <1>4, <1>5, <1>7

LEMMA StartStep ==
    ASSUME Inv, StartHandler
    PROVE  Inv'
<1> USE DEF Inv
<1>1. /\ run \in Runs /\ run \in holding /\ thread[run] = NoThread /\ verdict[run] = "none"
      /\ thread \in [Runs -> ThreadState]
  BY DEF StartHandler, RunOK, Typed
<1>2. /\ thread' = [thread EXCEPT ![run].state = "executing"] /\ pc' = "looking"
      /\ UNCHANGED <<supervised, run, verdict, permits, holding>>
  BY DEF StartHandler, permitVars
<1>3. [thread[run] EXCEPT !.state = "executing"] \in ThreadState
  BY <1>1 DEF ThreadState
<1>4. Balance'
  BY <1>2 DEF Balance
<1>5. Typed'
  <2>1. thread' \in [Runs -> ThreadState]
    BY <1>1, <1>2, <1>3
  <2>2. elapsed' \in Times /\ nextBeat' \in Nat /\ seen' \in Times \cup {None}
    BY CadenceAssumption DEF StartHandler, Times
  <2> QED BY <1>2, <2>1, <2>2 DEF Typed
<1>6. /\ thread'[run].detached = FALSE /\ thread'[run].state = "executing"
      /\ \A r \in Runs \ {run} : thread'[r] = thread[r]
  BY <1>1, <1>2 DEF NoThread, ThreadState
<1>7. RunOK'
  BY <1>1, <1>2, <1>6 DEF RunOK
<1>8. ASSUME NEW r \in Runs PROVE ThreadOK(r)'
  <2>1. CASE r # run
    BY <1>2, <1>6, <2>1 DEF ThreadOK, Done
  <2>2. CASE r = run
    BY <1>1, <1>2, <1>6, <2>2 DEF ThreadOK, Done, Runs
  <2> QED BY <2>1, <2>2
<1> QED BY <1>4, <1>5, <1>7, <1>8

\* Steps that give the handler in hand up: it is cancelled, and keeps its permit.
LEMMA DetachingSteps ==
    ASSUME Inv, TimeOut \/ HeartbeatFenced \/ HeartbeatIndeterminate
    PROVE  Inv'
<1> USE DEF Inv
<1>1. PICK how \in Verdicts :
        /\ how \in {"timed_out", "lease_lost", "indeterminate"}
        /\ verdict' = [verdict EXCEPT ![run] = how]
        /\ thread' = [thread EXCEPT ![run].cancelled = TRUE, ![run].detached = TRUE]
        /\ pc \in {"deciding", "beating"} /\ pc' \in {"idle", "ended", "finalizing"}
        /\ UNCHANGED <<supervised, run, permits, holding>>
        /\ elapsed' = 0 /\ nextBeat' = 0 /\ seen' = None
  BY DEF TimeOut, HeartbeatFenced, HeartbeatIndeterminate, End, Detach, Verdicts, permitVars
<1>2. run \in Runs /\ verdict \in [Runs -> Verdicts] /\ thread \in [Runs -> ThreadState]
  BY <1>1 DEF RunOK, Typed
<1>3. /\ thread'[run] \in ThreadState /\ thread'[run].cancelled /\ thread'[run].detached
      /\ thread'[run].state = thread[run].state
      /\ \A r \in Runs \ {run} : thread'[r] = thread[r]
  BY <1>1, <1>2 DEF ThreadState
<1>4. Balance'
  BY <1>1 DEF Balance
<1>5. thread' \in [Runs -> ThreadState]
  BY <1>1, <1>2, <1>3
<1>6. Typed'
  BY <1>1, <1>2, <1>5, CadenceAssumption DEF Typed, Times
<1>7. RunOK'
  BY <1>1 DEF RunOK
<1>8. ASSUME NEW r \in Runs PROVE ThreadOK(r)'
  <2>1. CASE r # run
    BY <1>1, <1>2, <1>3, <2>1 DEF ThreadOK, Done
  <2>2. CASE r = run
    <3>1. verdict'[r] = how /\ how # "completed" /\ ~(r > run)
      BY <1>1, <1>2, <2>2 DEF Runs
    <3>2. thread'[r].state = "executing" => r \in holding
      BY <1>3, <2>2 DEF ThreadOK
    <3> QED BY <1>1, <1>3, <2>2, <3>1, <3>2 DEF ThreadOK
  <2> QED BY <2>1, <2>2
<1> QED BY <1>4, <1>6, <1>7, <1>8

\* A thread moves on: it returns, publishes, or exits and releases its permit.
LEMMA ThreadSteps ==
    ASSUME Inv, NEW u \in Runs, ThreadStep(u)
    PROVE  Inv'
<1> USE DEF Inv
<1>1. /\ UNCHANGED <<supervised, pc, run, nextBeat, seen, verdict, elapsed>>
      /\ thread \in [Runs -> ThreadState] /\ u \in Runs
  BY DEF ThreadStep, Return, Publish, Exit, runVars, Typed
<1>2. /\ Balance' /\ holding' \subseteq holding
      /\ \A r \in Runs \ {u} : r \in holding' <=> r \in holding
      /\ thread[u].state = "published" \/ holding' = holding
  <2>1. CASE Exit(u)
    BY <2>1, Releasing DEF Exit
  <2>2. CASE UNCHANGED permitVars
    BY <2>2 DEF permitVars, Balance
  <2> QED BY <2>1, <2>2 DEF ThreadStep, Return, Publish, Exit
<1>3. /\ thread'[u] \in ThreadState /\ \A r \in Runs \ {u} : thread'[r] = thread[r]
      /\ thread'[u].state \in {"returned", "published", "exited"}
      /\ thread[u].state \in {"executing", "returned", "published"}
      /\ UNCHANGED <<thread[u].cancelled, thread[u].detached>>
      /\ thread[u].state \notin {"executing", "returned"} =>
           thread'[u].state = "exited" /\ thread'[u].completedAt = thread[u].completedAt
  BY <1>1, CadenceAssumption DEF ThreadStep, Return, Publish, Exit, ThreadState, Times, Typed
<1>4. thread' \in [Runs -> ThreadState]
  BY <1>1, <1>3 DEF ThreadStep, Return, Publish, Exit
<1>5. Typed'
  BY <1>1, <1>4 DEF Typed
<1>6. thread[u] # NoThread
  BY <1>3 DEF NoThread
<1>7. RunOK'
  <2>1. run \in Runs /\ run # u => thread'[run] = thread[run] /\ (run \in holding' <=> run \in holding)
    BY <1>2, <1>3
  <2>2. CASE run # u
    BY <1>1, <2>1, <2>2 DEF RunOK, Done
  <2>3. CASE run = u
    BY <1>1, <1>3, <1>6, <2>3 DEF RunOK, Done
  <2> QED BY <2>2, <2>3
<1>8. ASSUME NEW r \in Runs PROVE ThreadOK(r)'
  <2>1. CASE r # u
    BY <1>1, <1>2, <1>3, <2>1 DEF ThreadOK, Done
  <2>2. CASE r = u
    <3>1. ~(r > run)
      BY <1>6, <2>2 DEF ThreadOK
    <3>2. supervised /\ verdict[r] = "completed" =>
            thread[u].state = "published" /\ Done(r)' /\ ~thread'[r].detached
            /\ thread'[r].completedAt = thread[r].completedAt
      BY <1>3, <2>2 DEF ThreadOK, Done
    <3> QED BY <1>1, <1>3, <2>2, <3>1, <3>2 DEF ThreadOK
  <2> QED BY <2>1, <2>2
<1> QED BY <1>2, <1>5, <1>7, <1>8

LEMMA RestartStep ==
    ASSUME Inv, Restart
    PROVE  Inv'
<1> USE DEF Inv
<1>1. /\ pc' = "idle" /\ permits' = Capacity /\ holding' = {}
      /\ UNCHANGED <<supervised, run, nextBeat, seen, verdict, elapsed>>
  BY DEF Restart
<1>2. Balance'
  BY <1>1, FS_EmptySet, RunnerAssumption DEF Balance
<1>3. ASSUME NEW r \in Runs
      PROVE  /\ thread'[r] \in ThreadState
             /\ r > run => thread'[r] = thread[r]
             /\ ~(r > run) => thread'[r] = [thread[r] EXCEPT !.state = "exited"]
  BY DEF Restart, Typed, ThreadState, Runs
<1>4. thread' \in [Runs -> ThreadState]
  BY <1>3 DEF Restart
<1>5. Typed'
  BY <1>1, <1>4 DEF Typed
<1>6. RunOK'
  BY <1>1 DEF RunOK
<1>7. ASSUME NEW r \in Runs PROVE ThreadOK(r)'
  <2>1. thread[r] \in ThreadState
    BY DEF Typed
  <2>2. CASE r > run
    BY <1>1, <1>3, <2>2 DEF ThreadOK, Done, NoThread
  <2>3. CASE ~(r > run)
    <3>1. /\ thread'[r].state = "exited" /\ thread'[r].completedAt = thread[r].completedAt
          /\ thread'[r].detached = thread[r].detached
      BY <1>3, <2>1, <2>3 DEF ThreadState
    <3> QED BY <1>1, <2>3, <3>1 DEF ThreadOK, Done
  <2> QED BY <2>2, <2>3
<1> QED BY <1>2, <1>5, <1>6, <1>7

-----------------------------------------------------------------------------
(* The theorems                                                             *)

\* Inv is the inductive invariant of the supervision.
THEOREM Invariance == Spec => []Inv
<1>1. Init => Inv
  BY FS_EmptySet, RunnerAssumption, CadenceAssumption
     DEF Init, Inv, Balance, Typed, RunOK, ThreadOK, Done, ThreadState, NoThread, Times, Runs,
         Verdicts
<1>2. Inv /\ [Next]_vars => Inv'
  BY QuietSteps, ReserveStep, ReleasingSteps, StartStep, DetachingSteps, ThreadSteps,
     RestartStep
     DEF Next, RunOnce
<1> QED BY <1>1, <1>2, PTL DEF Spec

\* For every capacity, permits and holders balance and a handler that runs physically
\* holds a permit of its own.
THEOREM BoundedHandlers == Spec => []PermitsBoundHandlers
<1>1. Inv => PermitsBoundHandlers
  BY DEF Inv, Balance, ThreadOK, PermitsBoundHandlers, Executing
<1> QED BY <1>1, Invariance, PTL

\* A handler that runs on after its attempt was decided was told to stop.
THEOREM AbandonedCancelled == Spec => []AbandonedHandlersCancelled
<1>1. Inv => AbandonedHandlersCancelled
  BY DEF Inv, ThreadOK, AbandonedHandlersCancelled, Executing
<1> QED BY <1>1, Invariance, PTL

\* Only completions from before the deadline are accepted, and none of a handler that
\* was given up.
THEOREM OnlyTimelyAccepted == Spec => []AcceptedInTime
<1>1. Inv => AcceptedInTime
  BY DEF Inv, ThreadOK, AcceptedInTime
<1> QED BY <1>1, Invariance, PTL

=============================================================================
