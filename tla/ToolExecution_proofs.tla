------------------------ MODULE ToolExecution_proofs ------------------------
(***************************************************************************)
(* Proofs about ToolExecution for any number of requests, any lease and    *)
(* any expiry.                                                             *)
(*                                                                         *)
(* What the properties need beside the rows: a request past its           *)
(* acquisition or takeover knows a generation that is not later than the   *)
(* execution's, and if it is the same the request owns the execution and   *)
(* the execution is not finished.  So at most one request is current.  An  *)
(* executor is only ever of generation 1 and a reconciler of a later one:  *)
(* while the generation is 1 nobody but the owner has dispatched, and what *)
(* a provider says it turned away was never written.                       *)
(***************************************************************************)
EXTENDS ToolExecution, TLAPS

\* Steps of a request that has acquired the execution or taken it over.
Working == {"admitting", "dispatching", "answered", "finalizing", "revalidating"}

Current(r) == r.step \in Working /\ r.generation = execution.generation

\* What the step of a request tells of its role and its answer; r is the state of a request.
ShapeOK(r) ==
    /\ r.step \in {"resolving", "acquiring"} => r.role = "executor"
    /\ r.step \in {"observing", "taking", "revalidating"} => r.role = "reconciler"
    /\ r.step \in Working => IF r.role = "executor" THEN r.generation = 1 ELSE r.generation >= 2
    /\ r.step = "taking" => r.answer \in Terminal \cup {"notFound"}
    /\ r.step = "revalidating" => r.answer = "notFound"
    /\ r.step = "answered" /\ r.answer = "notFound" => r.role = "reconciler"
    /\ r.step = "answered" => r.answer \in Answers
    /\ r.step = "finalizing" => Decisive(r.answer) /\ (r.answer = "rejected" => r.role = "executor")

\* r knows a generation of the execution, and is its owner if that is the latest.
GenerationOK(w, r) ==
    /\ r.since <= now
    /\ r.step \in Working \cup {"observing", "taking"}
          => execution # None /\ r.generation <= execution.generation
    /\ Current(r) => execution.owner = w /\ execution.lifecycle = "executing"

\* What r knows of the provider.
ProviderOK(r) ==
    /\ r.step = "dispatching" \/ r.admitted => admission # None
    /\ r.step \in {"taking", "answered", "finalizing"} /\ r.answer \in Terminal
          => ledger = r.answer
    /\ (/\ Current(r) /\ r.role = "executor"
        /\ r.step \in {"admitting", "dispatching"} \/ r.answer = "rejected") => ledger = "none"

\* What r knows of the observations.
ObservedOK(r) ==
    Current(r) =>
        /\ \A i \in DOMAIN observations : observations[i].at <= r.since
        /\ r.step = "finalizing" =>
              /\ observations # <<>>
              /\ observations[Len(observations)].generation = execution.generation
              /\ observations[Len(observations)].type = r.answer

CallOK(w, r) == ShapeOK(r) /\ GenerationOK(w, r) /\ ProviderOK(r) /\ ObservedOK(r)

\* The rows before an execution starts.
BeforeExecution ==
    execution = None =>
        /\ observations = <<>> /\ admission = None
        /\ IF proposal.state = "proposed" THEN proposal.revision = 0 ELSE proposal.revision = 1

\* A failure is the provider's, or nothing was written and only the first owner dispatched.
FailureIsFinal ==
    execution # None /\ execution.lifecycle = "failed" =>
        ledger = "failed" \/ (ledger = "none" /\ execution.generation = 1)

LedgerHasTicket == tickets = IF ledger = "succeeded" THEN 1 ELSE 0

ObservationsKnown ==
    \A i \in DOMAIN observations :
        observations[i].at <= now /\ observations[i].generation <= execution.generation

Promises ==
    /\ RowsAgree /\ OutcomeIsProviders /\ NothingUnadmitted
    /\ ObservationsOrdered /\ OutcomeObserved

GenerationPositive == execution # None => execution.generation >= 1

Facts ==
    /\ BeforeExecution /\ GenerationPositive /\ FailureIsFinal
    /\ LedgerHasTicket /\ ObservationsKnown

Inv ==
    /\ TypeOK
    /\ Facts
    /\ Promises
    /\ \A w \in Callers : CallOK(w, call[w])

-----------------------------------------------------------------------------
(* Frames                                                                   *)

LEMMA RowTypes ==
    ASSUME Inv
    PROVE  /\ execution # None => execution \in ExecutionRow
           /\ \A r \in ExecutionRow : r # None
           /\ \A n \in Nat : n # None
           /\ now \in Nat /\ call \in [Callers -> CallState]
           /\ \A i \in DOMAIN observations : observations[i] \in ObservationRow
           /\ Len(observations) \in Nat /\ DOMAIN observations = 1..Len(observations)
<1>1. \A r \in ExecutionRow : r # None
  BY NoneAssumption DEF ExecutionRow, Lifecycles, Terminal
<1>2. \A n \in Nat : n # None
  BY NoneAssumption
<1>3. now \in Nat
  BY TimeAssumption DEF Inv, TypeOK
<1> QED BY <1>1, <1>2, <1>3 DEF Inv, TypeOK

ProposalRow ==
    [state : {"proposed", "approved", "rejected"} \cup Lifecycles, revision : Nat, stale : BOOLEAN]

\* A proposal that moves to another state stays a row.
LEMMA Moves ==
    ASSUME NEW S, NEW T, NEW p \in [state : S, revision : Nat, stale : T],
           NEW s \in S, NEW n \in Nat
    PROVE  LET q == [p EXCEPT !.state = s, !.revision = n] IN
               q \in [state : S, revision : Nat, stale : T] /\ q.state = s /\ q.revision = n
  OBVIOUS

LEMMA ProposalMoves ==
    ASSUME Inv, NEW n \in Nat, NEW s \in {"proposed", "approved", "rejected"} \cup Lifecycles,
           proposal' = [proposal EXCEPT !.state = s, !.revision = n]
    PROVE  proposal' \in ProposalRow /\ proposal'.state = s /\ proposal'.revision = n
<1>1. proposal \in ProposalRow
  BY DEF Inv, TypeOK, ProposalRow
<1> QED BY <1>1, Moves DEF ProposalRow

LEMMA IdleOK == ASSUME Inv, NEW w \in Callers PROVE Idle \in CallState /\ CallOK(w, Idle)
<1>1. Idle \in CallState
  BY DEF Idle, CallState, Steps
<1>2. now >= 0
  BY RowTypes
<1> QED BY <1>1, <1>2 DEF CallOK, ShapeOK, GenerationOK, ProviderOK, ObservedOK, Current, Working,
                         Idle

\* Steps of one request that write no row but the mark of a stale proposal.
LEMMA OneCall ==
    ASSUME Inv, NEW w \in Callers, NEW r \in CallState, CallOK(w, r),
           call' = [call EXCEPT ![w] = r],
           proposal' = proposal \/ proposal' = [proposal EXCEPT !.stale = TRUE],
           UNCHANGED <<execution, admission, observations, provider, compatible, now>>
    PROVE  Inv'
<1>1. /\ proposal' \in [state : {"proposed", "approved", "rejected"} \cup Lifecycles,
                        revision : Nat, stale : BOOLEAN]
      /\ proposal'.state = proposal.state /\ proposal'.revision = proposal.revision
  BY DEF Inv, TypeOK
<1>2. UNCHANGED <<execution, admission, observations, ledger, tickets, compatible, now>>
  BY DEF provider
<1>3. TypeOK'
  <2>1. call' \in [Callers -> CallState]
    BY RowTypes
  <2> QED BY <1>1, <1>2, <2>1 DEF Inv, TypeOK
<1>4. Facts'
  BY <1>1, <1>2 DEF Inv, Facts, BeforeExecution, GenerationPositive, FailureIsFinal, LedgerHasTicket, ObservationsKnown
<1>5. Promises'
  BY <1>1, <1>2 DEF Inv, Promises, RowsAgree, OutcomeIsProviders, NothingUnadmitted,
                    ObservationsOrdered, OutcomeObserved
<1>6. ASSUME NEW v \in Callers PROVE CallOK(v, call[v])'
  <2>1. CallOK(v, call'[v])
    BY RowTypes DEF Inv
  <2> QED BY <2>1, <1>2 DEF CallOK, ShapeOK, GenerationOK, ProviderOK, ObservedOK, Current
<1> QED BY <1>3, <1>4, <1>5, <1>6 DEF Inv

\* What a request becomes when it takes its next step.
LEMMA Continued ==
    ASSUME Inv, NEW w \in Callers, NEW f \in CallState, Continue(w, f)
    PROVE  /\ call' = [call EXCEPT ![w] = [f EXCEPT !.since = now]]
           /\ [f EXCEPT !.since = now] \in CallState
  BY RowTypes DEF Continue, CallState

LEMMA Ended ==
    ASSUME Inv, NEW w \in Callers, Ends(w),
           proposal' = proposal \/ proposal' = [proposal EXCEPT !.stale = TRUE],
           UNCHANGED <<execution, admission, observations, provider, compatible, now>>
    PROVE  Inv'
  BY IdleOK, OneCall DEF Ends

\* A request that writes nothing and takes a step that promises nothing new.
LEMMA Gone ==
    ASSUME Inv, NEW w \in Callers, NEW step \in Steps \cup Errors, Goes(w, step),
           proposal' = proposal,
           UNCHANGED <<execution, admission, observations, provider, compatible, now>>,
           \/ step \notin Working \cup {"resolving", "acquiring", "observing", "taking"}
           \/ step = "acquiring" /\ call[w].role = "executor"
           \/ /\ step \in {"admitting", "dispatching"}
              /\ call[w].step \in {"admitting", "revalidating"}
              /\ step = "dispatching" => admission # None
    PROVE  Inv'
<1> DEFINE f == [call[w] EXCEPT !.step = step]
           r == [f EXCEPT !.since = now]
<1>1. call[w] \in CallState /\ CallOK(w, call[w])
  BY DEF Inv, TypeOK
<1>2. f \in CallState
  BY <1>1 DEF CallState
<1>3. r \in CallState /\ call' = [call EXCEPT ![w] = r]
  BY <1>2, Continued DEF Goes
<1>4. /\ r.step = step /\ r.since = now /\ r.role = call[w].role /\ r.admitted = call[w].admitted
      /\ r.generation = call[w].generation /\ r.answer = call[w].answer
  BY <1>1 DEF CallState
<1>5. ShapeOK(r)
  BY <1>1, <1>4 DEF CallOK, ShapeOK, Working
<1>6. GenerationOK(w, r)
  BY <1>1, <1>4, RowTypes DEF CallOK, GenerationOK, Current, Working
<1>7. ProviderOK(r)
  BY <1>1, <1>4 DEF CallOK, ProviderOK, ShapeOK, Current, Working
<1>8. ObservedOK(r)
  <2>1. ASSUME Current(r), NEW i \in DOMAIN observations PROVE observations[i].at <= now
    BY DEF Inv, Facts, ObservationsKnown
  <2> QED BY <2>1, <1>4 DEF ObservedOK, Current, Working
<1> QED BY <1>3, <1>5, <1>6, <1>7, <1>8, OneCall DEF CallOK

-----------------------------------------------------------------------------
(* Steps that write no row                                                  *)

LEMMA Initially == Init => Inv
<1> SUFFICES ASSUME Init PROVE Inv
  OBVIOUS
<1>1. TypeOK
  <2>1. Idle \in CallState
    BY DEF Idle, CallState, Steps
  <2>2. compatible \in BOOLEAN
    BY Zenon DEF Init
  <2> QED BY <2>1, <2>2, TimeAssumption DEF Init, TypeOK
<1>2. Facts
  BY TimeAssumption DEF Init, Facts, BeforeExecution, GenerationPositive, FailureIsFinal, LedgerHasTicket,
                        ObservationsKnown
<1>3. Promises
  BY DEF Init, Promises, RowsAgree, OutcomeIsProviders, NothingUnadmitted, ObservationsOrdered,
         OutcomeObserved, Lifecycles, Terminal
<1>4. ASSUME NEW w \in Callers PROVE CallOK(w, call[w])
  <2>1. call[w] = Idle /\ now = 0
    BY DEF Init
  <2>2. CallOK(w, Idle)
    BY <2>1 DEF Idle, CallOK, ShapeOK, GenerationOK, ProviderOK, ObservedOK, Current, Working
  <2> QED BY <2>1, <2>2
<1> QED BY <1>1, <1>2, <1>3, <1>4 DEF Inv

LEMMA MarkStaleStep == ASSUME Inv, NEW w \in Callers, MarkStale(w) PROVE Inv'
  BY Ended DEF MarkStale

LEMMA AbandonStep == ASSUME Inv, NEW w \in Callers, Abandon(w) PROVE Inv'
  BY Ended DEF Abandon, rows

LEMMA ReadApprovedStep == ASSUME Inv, NEW w \in Callers, ReadApproved(w) PROVE Inv'
<1> DEFINE f == [Idle EXCEPT !.step = "resolving", !.revision = proposal.revision]
           r == [f EXCEPT !.since = now]
<1>1. f \in CallState
  BY DEF Inv, TypeOK, Idle, CallState, Steps
<1>2. r \in CallState /\ call' = [call EXCEPT ![w] = r]
  BY <1>1, Continued DEF ReadApproved
<1>3. CallOK(w, r)
  BY RowTypes DEF CallOK, ShapeOK, GenerationOK, ProviderOK, ObservedOK, Current, Working, Idle
<1> QED BY <1>2, <1>3, OneCall DEF ReadApproved, rows

LEMMA ResolveCompatibleStep == ASSUME Inv, NEW w \in Callers, ResolveCompatible(w) PROVE Inv'
<1>0. UNCHANGED <<proposal, execution, admission, observations, provider, compatible, now>>
  BY DEF ResolveCompatible, rows
<1>1. call[w].role = "executor"
  BY DEF ResolveCompatible, At, Inv, CallOK, ShapeOK
<1>2. CASE Ends(w)
  BY <1>0, <1>2, Ended
<1>3. CASE Goes(w, "acquiring")
  BY <1>0, <1>1, <1>3, Gone DEF Steps
<1>4. CASE Goes(w, "marking")
  BY <1>0, <1>4, Gone DEF Steps, Working
<1> QED BY <1>2, <1>3, <1>4 DEF ResolveCompatible

LEMMA ReadBackAdmissionStep == ASSUME Inv, NEW w \in Callers, ReadBackAdmission(w) PROVE Inv'
<1>0. UNCHANGED <<proposal, execution, admission, observations, provider, compatible, now>>
  BY DEF ReadBackAdmission, rows
<1>1. CASE admission # None /\ Goes(w, "dispatching")
  BY <1>0, <1>1, Gone DEF ReadBackAdmission, At, Steps
<1>2. CASE Ends(w)
  BY <1>0, <1>2, Ended
<1> QED BY <1>1, <1>2 DEF ReadBackAdmission

LEMMA TurnAwayStep == ASSUME Inv, NEW w \in Callers, TurnAway(w) PROVE Inv'
<1>0. PICK answer \in {"rejected", "indeterminate"} : Answered(w, answer)
  BY DEF TurnAway
<1> DEFINE f == [call[w] EXCEPT !.step = "answered", !.answer = answer]
           r == [f EXCEPT !.since = now]
<1>1. call[w] \in CallState /\ CallOK(w, call[w]) /\ call[w].step = "dispatching"
  BY DEF Inv, TypeOK, TurnAway, At
<1>2. f \in CallState
  BY <1>1 DEF CallState, Steps, Answers
<1>3. r \in CallState /\ call' = [call EXCEPT ![w] = r]
  BY <1>0, <1>2, Continued DEF Answered
<1>4. /\ r.step = "answered" /\ r.since = now /\ r.role = call[w].role
      /\ r.admitted = call[w].admitted
      /\ r.generation = call[w].generation /\ r.answer = answer
  BY <1>1 DEF CallState
<1>5. ShapeOK(r)
  BY <1>1, <1>4 DEF CallOK, ShapeOK, Working, Answers
<1>6. GenerationOK(w, r)
  BY <1>1, <1>4, RowTypes DEF CallOK, GenerationOK, Current, Working
<1>7. ProviderOK(r)
  BY <1>1, <1>4 DEF CallOK, ProviderOK, Current, Working, Terminal
<1>8. ObservedOK(r)
  BY <1>4 DEF ObservedOK, Inv, Facts, ObservationsKnown
<1> QED BY <1>3, <1>5, <1>6, <1>7, <1>8, OneCall DEF CallOK, TurnAway, rows

LEMMA ReadExecutingStep == ASSUME Inv, NEW w \in Callers, ReadExecuting(w) PROVE Inv'
<1> DEFINE f == [Idle EXCEPT !.role = "reconciler", !.step = "observing",
                    !.generation = execution.generation, !.stale = proposal.stale,
                    !.admitted = admission # None]
           r == [f EXCEPT !.since = now]
<1>1. f \in CallState
  BY RowTypes DEF ReadExecuting, Inv, TypeOK, Idle, CallState, Steps, ExecutionRow
<1>2. r \in CallState /\ call' = [call EXCEPT ![w] = r]
  BY <1>1, Continued DEF ReadExecuting
<1>3. /\ r.step = "observing" /\ r.role = "reconciler" /\ r.generation = execution.generation
      /\ r.since = now /\ r.answer = None /\ (r.admitted => admission # None)
  BY DEF Idle
<1>4. execution # None /\ execution \in ExecutionRow
  BY RowTypes DEF ReadExecuting
<1>5. CallOK(w, r)
  BY <1>3, <1>4, RowTypes
     DEF CallOK, ShapeOK, GenerationOK, ProviderOK, ObservedOK, Current, Working, ExecutionRow
<1> QED BY <1>2, <1>5, OneCall DEF ReadExecuting, rows

LEMMA ObserveOutcomeStep == ASSUME Inv, NEW w \in Callers, ObserveOutcome(w) PROVE Inv'
<1> DEFINE found == IF ledger = "none" THEN "notFound" ELSE ledger
           f == [call[w] EXCEPT !.step = "taking", !.answer = found]
           r == [f EXCEPT !.since = now]
<1>1. /\ call[w] \in CallState /\ CallOK(w, call[w]) /\ call[w].step = "observing"
      /\ ledger \in {"none"} \cup Terminal
  BY DEF Inv, TypeOK, ObserveOutcome, At
<1>2. f \in CallState
  BY <1>1 DEF CallState, Steps, Answers
<1>3. r \in CallState /\ call' = [call EXCEPT ![w] = r]
  BY <1>2, Continued DEF ObserveOutcome
<1>4. /\ r.step = "taking" /\ r.since = now /\ r.role = call[w].role
      /\ r.admitted = call[w].admitted
      /\ r.generation = call[w].generation /\ r.answer = found
  BY <1>1 DEF CallState
<1>5. ShapeOK(r)
  BY <1>1, <1>4 DEF CallOK, ShapeOK, Working
<1>6. GenerationOK(w, r)
  BY <1>1, <1>4, RowTypes DEF CallOK, GenerationOK, Current, Working
<1>7. ProviderOK(r) /\ ObservedOK(r)
  BY <1>1, <1>4 DEF CallOK, ProviderOK, ObservedOK, Current, Working, Terminal
<1> QED BY <1>3, <1>5, <1>6, <1>7, OneCall DEF CallOK, ObserveOutcome, rows

LEMMA RevalidateStep == ASSUME Inv, NEW w \in Callers, Revalidate(w) PROVE Inv'
<1>0. UNCHANGED <<proposal, execution, admission, observations, provider, compatible, now>>
  BY DEF Revalidate, rows
<1>1. CASE Ends(w)
  BY <1>0, <1>1, Ended
<1>2. CASE Goes(w, "marking")
  BY <1>0, <1>2, Gone DEF Steps, Working
<1>3. CASE Goes(w, IF call[w].admitted THEN "dispatching" ELSE "admitting")
  <2>1. call[w].step = "revalidating" /\ (call[w].admitted => admission # None)
    BY DEF Revalidate, At, Inv, CallOK, ProviderOK
  <2>2. CASE call[w].admitted
    BY <1>0, <1>3, <2>1, <2>2, Gone DEF Steps
  <2>3. CASE ~call[w].admitted
    BY <1>0, <1>3, <2>1, <2>3, Gone DEF Steps
  <2> QED BY <2>2, <2>3
<1> QED BY <1>1, <1>2, <1>3 DEF Revalidate

LEMMA RetryStep ==
    ASSUME Inv, NEW w \in Callers, RetryRejected(w) \/ RetryIndeterminate(w)
    PROVE  Inv'
<1>0. UNCHANGED <<proposal, execution, admission, observations, provider, compatible, now>>
  BY DEF RetryRejected, RetryIndeterminate, rows
<1>1. CASE Ends(w)
  BY <1>0, <1>1, Ended
<1>2. CASE Goes(w, "attributeError")
  BY <1>0, <1>2, Gone DEF Errors, Working
<1> QED BY <1>1, <1>2 DEF RetryRejected, RetryIndeterminate

-----------------------------------------------------------------------------
(* Steps that write rows                                                    *)

\* At most one request is current, and none of a finished execution.
LEMMA OneCurrent ==
    ASSUME Inv, NEW v \in Callers, NEW w \in Callers, Current(call[v]), Current(call[w])
    PROVE  v = w /\ execution # None /\ execution.lifecycle = "executing"
  BY DEF Inv, CallOK, GenerationOK, Current

\* While the generation is 1 a working executor is current.
LEMMA FirstIsCurrent ==
    ASSUME Inv, NEW w \in Callers, call[w].step \in Working,
           execution.generation = 1
    PROVE  Current(call[w])
<1>1. call[w] \in CallState /\ ShapeOK(call[w]) /\ GenerationOK(w, call[w])
  BY DEF Inv, TypeOK, CallOK
<1>2. call[w].generation \in Nat /\ call[w].generation <= 1 /\ call[w].generation >= 1
  BY <1>1 DEF CallState, ShapeOK, GenerationOK
<1> QED BY <1>2 DEF Current

LEMMA DecideStep ==
    ASSUME Inv, NEW decision \in {"approved", "rejected"}, Decide(decision)
    PROVE  Inv'
<1>1. execution = None
  BY DEF Decide, Inv, Promises, RowsAgree, TypeOK, ExecutionRow, Lifecycles, Terminal
<1>2. /\ proposal'.state = decision /\ proposal'.revision = 1
      /\ UNCHANGED <<execution, admission, observations, ledger, tickets, compatible, now, call>>
  BY <1>1 DEF Decide, provider, Inv, Facts, BeforeExecution, TypeOK
<1>3. TypeOK'
  <2>1. /\ proposal.revision + 1 \in Nat
        /\ decision \in {"proposed", "approved", "rejected"} \cup Lifecycles
        /\ proposal' = [proposal EXCEPT !.state = decision, !.revision = proposal.revision + 1]
    BY DEF Decide, Inv, TypeOK
  <2>2. proposal' \in ProposalRow
    BY <2>1, ProposalMoves
  <2> QED BY <1>2, <2>2 DEF Inv, TypeOK, ProposalRow
<1>4. Facts'
  BY <1>1, <1>2 DEF Inv, Facts, BeforeExecution, GenerationPositive, FailureIsFinal, LedgerHasTicket,
                    ObservationsKnown
<1>5. Promises'
  BY <1>1, <1>2 DEF Inv, Promises, RowsAgree, OutcomeIsProviders, NothingUnadmitted,
                    ObservationsOrdered, OutcomeObserved, Lifecycles, Terminal
<1>6. \A v \in Callers : CallOK(v, call[v])'
  BY <1>2 DEF Inv, CallOK, ShapeOK, GenerationOK, ProviderOK, ObservedOK, Current
<1> QED BY <1>3, <1>4, <1>5, <1>6 DEF Inv

LEMMA ReconfigureStep == ASSUME Inv, Reconfigure PROVE Inv'
<1>1. UNCHANGED <<proposal, execution, admission, observations, ledger, tickets, now, call>>
  BY DEF Reconfigure, rows, provider
<1>2. compatible' \in BOOLEAN
  BY Zenon DEF Reconfigure
<1>3. TypeOK'
  BY <1>1, <1>2 DEF Inv, TypeOK
<1>4. Facts' /\ Promises'
  BY <1>1 DEF Inv, Facts, BeforeExecution, GenerationPositive, FailureIsFinal, LedgerHasTicket, ObservationsKnown,
              Promises, RowsAgree, OutcomeIsProviders, NothingUnadmitted, ObservationsOrdered,
              OutcomeObserved
<1>5. \A v \in Callers : CallOK(v, call[v])'
  BY <1>1 DEF Inv, CallOK, ShapeOK, GenerationOK, ProviderOK, ObservedOK, Current
<1> QED BY <1>3, <1>4, <1>5 DEF Inv

LEMMA TickStep == ASSUME Inv, Tick PROVE Inv'
<1>1. UNCHANGED <<proposal, execution, admission, observations, ledger, tickets, compatible, call>>
  BY DEF Tick, rows, provider
<1>2. now' = now + 1 /\ now \in Nat /\ now' \in 0..MaxTime
  BY TimeAssumption DEF Tick, Inv, TypeOK
<1>3. TypeOK'
  BY <1>1, <1>2 DEF Inv, TypeOK
<1>4. ObservationsKnown'
  <2>1. ASSUME NEW i \in DOMAIN observations
        PROVE  observations[i].at <= now' /\ observations[i].generation <= execution.generation
    <3>1. observations[i].at \in Nat /\ observations[i].at <= now
          /\ observations[i].generation <= execution.generation
      BY RowTypes DEF Inv, Facts, ObservationsKnown, ObservationRow
    <3> QED BY <3>1, <1>2
  <2> QED BY <2>1, <1>1 DEF ObservationsKnown
<1>5. Facts' /\ Promises'
  BY <1>1, <1>4 DEF Inv, Facts, BeforeExecution, GenerationPositive, FailureIsFinal, LedgerHasTicket,
              Promises, RowsAgree, OutcomeIsProviders, NothingUnadmitted, ObservationsOrdered,
              OutcomeObserved
<1>6. ASSUME NEW v \in Callers PROVE CallOK(v, call[v])'
  <2>1. call[v].since \in Nat /\ call[v].since <= now /\ CallOK(v, call[v])
    BY RowTypes DEF Inv, CallOK, GenerationOK, CallState
  <2>2. call[v].since <= now'
    BY <2>1, <1>2
  <2> QED BY <2>1, <2>2, <1>1
             DEF CallOK, ShapeOK, GenerationOK, ProviderOK, ObservedOK, Current
<1> QED BY <1>3, <1>5, <1>6 DEF Inv

LEMMA AcquireStep == ASSUME Inv, NEW w \in Callers, Acquire(w) PROVE Inv'
<1>0. UNCHANGED <<admission, observations, provider, compatible, now>>
  BY DEF Acquire
<1>1. CASE Ends(w) /\ UNCHANGED <<execution, proposal>>
  BY <1>0, <1>1, Ended
<1>2. ASSUME NEW t \in BeginTimes(w), Acquirable(w, t),
             execution' = [lifecycle |-> "executing", revision |-> proposal.revision + 1,
                           owner |-> w, generation |-> 1, expires |-> t + LeaseDuration],
             proposal' = [proposal EXCEPT !.state = "executing", !.revision = @ + 1],
             Continue(w, [call[w] EXCEPT !.step = "admitting", !.generation = 1])
      PROVE  Inv'
  <2> DEFINE f == [call[w] EXCEPT !.step = "admitting", !.generation = 1]
             r == [f EXCEPT !.since = now]
  <2>1. /\ call[w] \in CallState /\ CallOK(w, call[w]) /\ call[w].role = "executor"
        /\ t \in Nat
    BY DEF Inv, TypeOK, Acquire, At, CallOK, ShapeOK, BeginTimes
  <2>2. f \in CallState
    BY <2>1 DEF CallState, Steps
  <2>3. r \in CallState /\ call' = [call EXCEPT ![w] = r]
    BY <1>2, <2>2, Continued
  <2>4. /\ execution = None /\ proposal.state = "approved" /\ proposal.revision = 1
        /\ observations = <<>> /\ admission = None /\ ledger = "none" /\ tickets = 0
    BY <1>2, RowTypes DEF Acquirable, Inv, Facts, BeforeExecution, Promises, NothingUnadmitted,
                          LedgerHasTicket, TypeOK
  <2>5. /\ execution' \in ExecutionRow /\ execution'.generation = 1 /\ execution'.owner = w
        /\ execution'.lifecycle = "executing" /\ execution'.revision = 2
    BY <1>2, <2>1, <2>4, LeaseAssumption DEF ExecutionRow, Lifecycles
  <2>6. /\ proposal'.state = "executing" /\ proposal'.revision = 2
        /\ proposal' \in ProposalRow
    <3>1. proposal' = [proposal EXCEPT !.state = "executing", !.revision = 2]
      BY <1>2, <2>4
    <3>2. "executing" \in {"proposed", "approved", "rejected"} \cup Lifecycles
      BY DEF Lifecycles
    <3> QED BY <3>1, <3>2, ProposalMoves
  <2>7. execution' # None
    BY <2>5, RowTypes
  <2>8. TypeOK'
    BY <1>0, <2>3, <2>5, <2>6, RowTypes DEF Inv, TypeOK, provider, ProposalRow
  <2>9. Facts'
    BY <1>0, <2>4, <2>5, <2>7 DEF Facts, BeforeExecution, GenerationPositive, FailureIsFinal, LedgerHasTicket,
                                  ObservationsKnown, provider
  <2>10. Promises'
    BY <1>0, <2>4, <2>5, <2>6, <2>7
       DEF Promises, RowsAgree, OutcomeIsProviders, NothingUnadmitted, ObservationsOrdered,
           OutcomeObserved, provider
  <2>11. LET c == call'[w] IN
            /\ c.step = "admitting" /\ c.generation = 1 /\ c.since = now /\ c.role = "executor"
            /\ c.admitted = call[w].admitted
    BY <2>1, <2>3, RowTypes DEF CallState
  <2>12. CallOK(w, call[w])'
    BY <1>0, <2>1, <2>4, <2>5, <2>7, <2>11, RowTypes
       DEF CallOK, ShapeOK, GenerationOK, ProviderOK, ObservedOK, Current, Working, provider
  <2>13. ASSUME NEW v \in Callers \ {w} PROVE CallOK(v, call[v])'
    <3>1. call'[v] = call[v] /\ CallOK(v, call[v])
      BY <2>3, RowTypes DEF Inv
    <3>2. call[v].step \notin Working \cup {"observing", "taking"}
      BY <3>1, <2>4 DEF CallOK, GenerationOK
    <3> QED BY <1>0, <2>4, <3>1, <3>2
               DEF CallOK, ShapeOK, GenerationOK, ProviderOK, ObservedOK, Current, provider, Working
  <2>14. \A v \in Callers : CallOK(v, call[v])'
    BY <2>12, <2>13
  <2> QED BY <2>8, <2>9, <2>10, <2>14 DEF Inv
<1> QED BY <1>1, <1>2 DEF Acquire

LEMMA AdmitStep == ASSUME Inv, NEW w \in Callers, Admit(w) PROVE Inv'
<1>0. UNCHANGED <<execution, observations, provider, compatible, now>> /\ call[w].step = "admitting"
  BY DEF Admit, At
<1>1. CASE admission # None /\ Goes(w, "dispatching") /\ UNCHANGED <<admission, proposal>>
  BY <1>0, <1>1, Gone DEF Steps
<1>2. CASE /\ Ends(w) /\ UNCHANGED admission
           /\ proposal' = proposal \/ proposal' = [proposal EXCEPT !.stale = TRUE]
  BY <1>0, <1>2, Ended
<1>3. CASE Goes(w, "checkViolation") /\ UNCHANGED <<admission, proposal>>
  BY <1>0, <1>3, Gone DEF Errors, Working
<1>4. CASE /\ admission = None /\ admission' = 1 /\ UNCHANGED proposal
           /\ call[w].generation = 1 /\ Goes(w, "dispatching")
  <2> DEFINE f == [call[w] EXCEPT !.step = "dispatching"]
             r == [f EXCEPT !.since = now]
  <2>1. call[w] \in CallState /\ CallOK(w, call[w])
    BY DEF Inv, TypeOK
  <2>2. f \in CallState
    BY <2>1 DEF CallState, Steps
  <2>3. r \in CallState /\ call' = [call EXCEPT ![w] = r]
    BY <1>4, <2>2, Continued DEF Goes
  <2>4. UNCHANGED <<proposal, execution, observations, ledger, tickets, compatible, now>>
    BY <1>0, <1>4 DEF provider
  <2>5. admission' # None /\ execution # None
    BY <1>0, <1>4, <2>1, RowTypes DEF CallOK, GenerationOK, Working
  <2>6. TypeOK'
    BY <1>4, <2>3, <2>4, RowTypes DEF Inv, TypeOK
  <2>7. Facts' /\ Promises'
    BY <2>4, <2>5
       DEF Inv, Facts, BeforeExecution, GenerationPositive, FailureIsFinal, LedgerHasTicket, ObservationsKnown,
           Promises, RowsAgree, OutcomeIsProviders, NothingUnadmitted, ObservationsOrdered,
           OutcomeObserved
  <2>8. LET c == call'[w] IN
           /\ c.step = "dispatching" /\ c.generation = call[w].generation /\ c.since = now
           /\ c.role = call[w].role /\ c.answer = call[w].answer
    BY <2>1, <2>3, RowTypes DEF CallState
  <2>9. ObservedOK(call[w])'
    BY <2>4, <2>8 DEF ObservedOK, Inv, Facts, ObservationsKnown
  <2>10. CallOK(w, call[w])'
    BY <1>0, <2>1, <2>4, <2>5, <2>8, <2>9, RowTypes
       DEF CallOK, ShapeOK, GenerationOK, ProviderOK, Current, Working
  <2>11. ASSUME NEW v \in Callers \ {w} PROVE CallOK(v, call[v])'
    <3>1. call'[v] = call[v] /\ CallOK(v, call[v])
      BY <2>3, RowTypes DEF Inv
    <3> QED BY <2>4, <2>5, <3>1
               DEF CallOK, ShapeOK, GenerationOK, ProviderOK, ObservedOK, Current
  <2>12. \A v \in Callers : CallOK(v, call[v])'
    BY <2>10, <2>11
  <2> QED BY <2>6, <2>7, <2>12 DEF Inv
<1> QED BY <1>1, <1>2, <1>3, <1>4 DEF Admit

\* A request that dispatches when the ledger is empty does so while the execution runs.
LEMMA DispatchesInTime ==
    ASSUME Inv, NEW w \in Callers, At(w, "dispatching"), ledger = "none"
    PROVE  execution # None /\ execution.lifecycle = "executing"
<1>1. execution # None /\ execution \in ExecutionRow /\ call[w].step \in Working
  BY RowTypes DEF At, Inv, CallOK, GenerationOK, Working
<1>2. execution.lifecycle # "succeeded"
  BY <1>1 DEF Inv, Promises, OutcomeIsProviders
<1>3. ASSUME execution.lifecycle = "failed" PROVE FALSE
  <2>1. execution.generation = 1
    BY <1>1, <1>3 DEF Inv, Facts, FailureIsFinal
  <2>2. Current(call[w])
    BY <1>1, <2>1, FirstIsCurrent
  <2> QED BY <1>3, <2>2 DEF Inv, CallOK, GenerationOK
<1> QED BY <1>1, <1>2, <1>3 DEF ExecutionRow, Lifecycles, Terminal

LEMMA CreateTicketStep == ASSUME Inv, NEW w \in Callers, CreateTicket(w) PROVE Inv'
<1>0. /\ UNCHANGED <<proposal, execution, admission, observations, compatible, now>>
      /\ Commit /\ At(w, "dispatching")
  BY DEF CreateTicket, rows
<1>a. /\ call[w] \in CallState /\ CallOK(w, call[w]) /\ call[w].step = "dispatching"
      /\ admission # None /\ execution # None /\ ledger \in {"none"} \cup Terminal
      /\ tickets \in 0..1
  BY <1>0 DEF Inv, TypeOK, At, CallOK, ProviderOK, GenerationOK, Working
<1>b. /\ ledger' \in Terminal
      /\ ledger # "none" => ledger' = ledger /\ tickets' = tickets
      /\ LedgerHasTicket' /\ tickets' \in 0..1
  BY <1>0, <1>a DEF Commit, provider, Inv, Facts, LedgerHasTicket, Terminal
<1>c. PICK answer \in {ledger', "indeterminate"} : Answered(w, answer)
  BY DEF CreateTicket
<1> DEFINE f == [call[w] EXCEPT !.step = "answered", !.answer = answer]
           r == [f EXCEPT !.since = now]
<1>1. f \in CallState
  BY <1>a, <1>b, <1>c DEF CallState, Steps, Answers
<1>2. r \in CallState /\ call' = [call EXCEPT ![w] = r]
  BY <1>1, <1>c, Continued DEF Answered
<1>3. LET c == call'[w] IN
         /\ c.step = "answered" /\ c.generation = call[w].generation /\ c.since = now
         /\ c.role = call[w].role /\ c.answer = answer
  BY <1>a, <1>2, RowTypes DEF CallState
<1>4. TypeOK'
  BY <1>0, <1>b, <1>2, RowTypes DEF Inv, TypeOK
<1>5. ledger = "none" => execution.lifecycle = "executing"
  BY <1>0, DispatchesInTime
<1>6. Facts'
  BY <1>0, <1>a, <1>b, <1>5
     DEF Inv, Facts, BeforeExecution, GenerationPositive, FailureIsFinal, ObservationsKnown
<1>7. Promises'
  BY <1>0, <1>a, <1>b, <1>5
     DEF Inv, Promises, RowsAgree, OutcomeIsProviders, NothingUnadmitted, ObservationsOrdered,
         OutcomeObserved
<1>8. CallOK(w, call[w])'
  <2>1. ShapeOK(call[w])'
    BY <1>a, <1>b, <1>c, <1>3 DEF CallOK, ShapeOK, Working, Answers, Terminal
  <2>2. GenerationOK(w, call[w])'
    BY <1>0, <1>a, <1>3, RowTypes DEF CallOK, GenerationOK, Current, Working
  <2>3. ProviderOK(call[w])'
    BY <1>0, <1>a, <1>b, <1>c, <1>3 DEF ProviderOK, Terminal
  <2>4. ObservedOK(call[w])'
    BY <1>0, <1>3 DEF ObservedOK, Inv, Facts, ObservationsKnown
  <2> QED BY <2>1, <2>2, <2>3, <2>4 DEF CallOK
<1>9. ASSUME NEW v \in Callers \ {w} PROVE CallOK(v, call[v])'
  <2>1. call'[v] = call[v] /\ CallOK(v, call[v]) /\ call[v] \in CallState
    BY <1>2, RowTypes DEF Inv
  <2>2. ShapeOK(call[v])' /\ GenerationOK(v, call[v])' /\ ObservedOK(call[v])'
    BY <1>0, <2>1 DEF CallOK, ShapeOK, GenerationOK, ObservedOK, Current
  <2>3. ProviderOK(call[v])'
    <3>1. CASE ledger # "none"
      BY <1>0, <1>b, <2>1, <3>1 DEF CallOK, ProviderOK, Current
    <3>2. CASE ledger = "none" /\ ~(Current(call[v]) /\ call[v].role = "executor")
      BY <1>0, <2>1, <3>2 DEF CallOK, ProviderOK, Current, Terminal
    <3>3. CASE Current(call[v]) /\ call[v].role = "executor"
      <4>1. call[v].generation = 1 /\ execution.generation = 1
        BY <2>1, <3>3 DEF CallOK, ShapeOK, Current
      <4>2. Current(call[w])
        BY <1>a, <4>1, FirstIsCurrent DEF Working
      <4> QED BY <3>3, <4>2, OneCurrent
    <3> QED BY <3>1, <3>2, <3>3
  <2> QED BY <2>2, <2>3 DEF CallOK
<1>10. \A v \in Callers : CallOK(v, call[v])'
  BY <1>8, <1>9
<1> QED BY <1>4, <1>6, <1>7, <1>10 DEF Inv

\* An execution that gets an owner, a generation, a revision and a lease stays a row.
LEMMA ExecutionTaken ==
    ASSUME NEW L, NEW O, NEW w \in O, NEW g \in Nat, NEW n \in Nat, NEW d \in Nat,
           NEW e \in [lifecycle : L, revision : Nat, owner : O, generation : Nat, expires : Nat]
    PROVE  LET x == [e EXCEPT !.owner = w, !.generation = g, !.revision = n, !.expires = d] IN
               /\ x \in [lifecycle : L, revision : Nat, owner : O, generation : Nat, expires : Nat]
               /\ x.lifecycle = e.lifecycle /\ x.owner = w /\ x.generation = g /\ x.revision = n
  OBVIOUS

LEMMA ExecutionMoves ==
    ASSUME execution \in ExecutionRow, NEW w \in Callers, NEW t \in Nat, TakenOver(w, t)
    PROVE  /\ execution' \in ExecutionRow /\ execution'.lifecycle = execution.lifecycle
           /\ execution'.owner = w /\ execution'.generation = execution.generation + 1
           /\ execution'.revision = execution.revision + 1
<1>1. /\ execution.generation + 1 \in Nat /\ execution.revision + 1 \in Nat
      /\ t + LeaseDuration \in Nat
  BY LeaseAssumption DEF ExecutionRow
<1>2. execution' = [execution EXCEPT !.owner = w, !.generation = execution.generation + 1,
                                     !.revision = execution.revision + 1,
                                     !.expires = t + LeaseDuration]
  BY DEF TakenOver
<1> QED BY <1>1, <1>2, ExecutionTaken DEF ExecutionRow

LEMMA OutcomeSet ==
    ASSUME NEW L, NEW O, NEW l \in L, NEW n \in Nat,
           NEW e \in [lifecycle : L, revision : Nat, owner : O, generation : Nat, expires : Nat]
    PROVE  LET x == [e EXCEPT !.lifecycle = l, !.revision = n] IN
               /\ x \in [lifecycle : L, revision : Nat, owner : O, generation : Nat, expires : Nat]
               /\ x.lifecycle = l /\ x.generation = e.generation /\ x.revision = n
  OBVIOUS

LEMMA ExecutionOutcome ==
    ASSUME execution \in ExecutionRow, NEW l \in Lifecycles,
           execution' = [execution EXCEPT !.lifecycle = l, !.revision = @ + 1]
    PROVE  /\ execution' \in ExecutionRow /\ execution'.lifecycle = l
           /\ execution'.generation = execution.generation
           /\ execution'.revision = execution.revision + 1
           /\ execution.generation \in Nat /\ execution.revision \in Nat
<1>1. execution.revision + 1 \in Nat /\ execution.generation \in Nat /\ execution.revision \in Nat
  BY DEF ExecutionRow
<1> QED BY <1>1, OutcomeSet DEF ExecutionRow

LEMMA TakeOverStep == ASSUME Inv, NEW w \in Callers, TakeOver(w) PROVE Inv'
<1>0. UNCHANGED <<admission, observations, provider, compatible, now>> /\ call[w].step = "taking"
  BY DEF TakeOver, At
<1>1. CASE Ends(w) /\ UNCHANGED <<execution, proposal>>
  BY <1>0, <1>1, Ended
<1>2. ASSUME NEW t \in BeginTimes(w), Stale(w, t), TakenOver(w, t),
             Continue(w, [call[w] EXCEPT !.step = "answered",
                                         !.generation = execution'.generation])
      PROVE  Inv'
  <2> DEFINE f == [call[w] EXCEPT !.step = "answered", !.generation = execution'.generation]
             r == [f EXCEPT !.since = now]
  <2>1. /\ call[w] \in CallState /\ CallOK(w, call[w]) /\ t \in Nat
        /\ execution # None /\ execution \in ExecutionRow /\ execution.lifecycle = "executing"
    BY <1>0, <1>2, RowTypes DEF Inv, TypeOK, CallOK, GenerationOK, BeginTimes, Stale
  <2>2. /\ execution' \in ExecutionRow /\ execution'.lifecycle = "executing"
        /\ execution'.generation = execution.generation + 1 /\ execution'.owner = w
        /\ execution'.revision = execution.revision + 1
        /\ execution.generation \in Nat
    BY <1>2, <2>1, ExecutionMoves DEF ExecutionRow
  <2>3. execution' # None
    BY <2>2, RowTypes
  <2>4. f \in CallState
    <3>1. execution'.generation \in Nat
      BY <2>2
    <3> QED BY <2>1, <3>1 DEF CallState, Steps
  <2>5. r \in CallState /\ call' = [call EXCEPT ![w] = r]
    BY <1>2, <2>4, Continued
  <2>6. LET c == call'[w] IN
           /\ c.step = "answered" /\ c.generation = execution.generation + 1 /\ c.since = now
           /\ c.role = call[w].role /\ c.answer = call[w].answer /\ c.admitted = call[w].admitted
    BY <2>1, <2>2, <2>5, RowTypes DEF CallState
  <2>7. /\ proposal.state = "executing" /\ proposal'.state = "executing"
        /\ proposal'.revision = execution.revision + 1 /\ proposal' \in ProposalRow
        /\ execution.revision = execution.generation + 1
    BY <1>2, <2>1, <2>2 DEF Inv, Promises, RowsAgree, TypeOK, TakenOver, ProposalRow, ExecutionRow
  <2>8. TypeOK'
    BY <1>0, <2>2, <2>5, <2>7, RowTypes DEF Inv, TypeOK, ProposalRow, provider
  <2>9. Facts'
    <3>1. ASSUME NEW i \in DOMAIN observations
          PROVE  observations[i].at <= now /\ observations[i].generation <= execution.generation + 1
      BY <2>2, RowTypes DEF Inv, Facts, ObservationsKnown, ObservationRow
    <3> QED BY <1>0, <2>1, <2>2, <2>3, <3>1
               DEF Inv, Facts, BeforeExecution, GenerationPositive, FailureIsFinal, LedgerHasTicket, ObservationsKnown,
                   provider
  <2>10. Promises'
    BY <1>0, <2>1, <2>2, <2>3, <2>7
       DEF Inv, Promises, RowsAgree, OutcomeIsProviders, NothingUnadmitted, ObservationsOrdered,
           OutcomeObserved, provider
  <2>11. CallOK(w, call[w])'
    <3>1. call[w].role = "reconciler" /\ call[w].answer \in Terminal \cup {"notFound"}
      BY <1>0, <2>1 DEF CallOK, ShapeOK
    <3>2. call[w].generation = execution.generation
      BY <1>2 DEF Stale
    <3>3. execution.generation >= 1
      BY <2>1 DEF Inv, Facts, GenerationPositive
    <3>4. ShapeOK(call[w])'
      BY <2>2, <2>6, <3>1, <3>3 DEF ShapeOK, Working, Answers
    <3>5. GenerationOK(w, call[w])' /\ ObservedOK(call[w])'
      BY <1>0, <2>2, <2>3, <2>6, RowTypes
         DEF GenerationOK, ObservedOK, Current, Working, Inv, Facts, ObservationsKnown
    <3>6. ProviderOK(call[w])'
      BY <1>0, <2>1, <2>6, <3>1 DEF CallOK, ProviderOK, provider, Current
    <3> QED BY <3>4, <3>5, <3>6 DEF CallOK
  <2>12. ASSUME NEW v \in Callers \ {w} PROVE CallOK(v, call[v])'
    <3>1. call'[v] = call[v] /\ CallOK(v, call[v]) /\ call[v] \in CallState
      BY <2>5, RowTypes DEF Inv
    <3>2. call[v].step \in Working \cup {"observing", "taking"}
          => call[v].generation <= execution.generation + 1
             /\ call[v].generation # execution.generation + 1
      BY <2>2, <3>1 DEF CallOK, GenerationOK, CallState
    <3>3. ~Current(call[v])'
      BY <2>2, <3>1, <3>2 DEF Current
    <3>4. GenerationOK(v, call[v])'
      BY <1>0, <2>2, <2>3, <3>1, <3>2, <3>3 DEF CallOK, GenerationOK
    <3> QED BY <1>0, <3>1, <3>3, <3>4 DEF CallOK, ShapeOK, ProviderOK, ObservedOK, provider
  <2>13. \A v \in Callers : CallOK(v, call[v])'
    BY <2>11, <2>12
  <2> QED BY <2>8, <2>9, <2>10, <2>13 DEF Inv
<1> QED BY <1>1, <1>2 DEF TakeOver

\* A request that answered goes on to finalize or to revalidate, or it ends.
LEMMA AfterAnswer ==
    ASSUME Inv, NEW w \in Callers, At(w, "answered"), AfterRecord(w)
    PROVE  \/ Ends(w)
           \/ Decisive(call[w].answer) /\ Goes(w, "finalizing")
           \/ call[w].answer = "notFound" /\ Goes(w, "revalidating")
  BY DEF AfterRecord

LEMMA AfterAnswerFinalized ==
    ASSUME Inv, NEW w \in Callers, At(w, "answered"), AfterFinalized(w)
    PROVE  \/ Ends(w)
           \/ Decisive(call[w].answer) /\ Goes(w, "finalizing")
           \/ call[w].answer = "notFound" /\ Goes(w, "revalidating")
  BY AfterAnswer DEF AfterFinalized

\* The shape of a request that goes on after its answer.
LEMMA AnswerShape ==
    ASSUME Inv, NEW w \in Callers, At(w, "answered"), Recordable(w), NEW step,
           Goes(w, step),
           \/ Decisive(call[w].answer) /\ step = "finalizing"
           \/ call[w].answer = "notFound" /\ step = "revalidating"
    PROVE  /\ call' = [call EXCEPT ![w] = call'[w]] /\ call'[w] \in CallState
           /\ ShapeOK(call'[w])
           /\ call'[w].step = step /\ call'[w].since = now
           /\ call'[w].role = call[w].role /\ call'[w].answer = call[w].answer
           /\ call'[w].generation = call[w].generation /\ call'[w].admitted = call[w].admitted
<1> DEFINE f == [call[w] EXCEPT !.step = step]
           r == [f EXCEPT !.since = now]
<1>1. call[w] \in CallState /\ ShapeOK(call[w]) /\ call[w].step = "answered"
  BY DEF Inv, TypeOK, CallOK, At
<1>2. f \in CallState
  BY <1>1 DEF CallState, Steps
<1>3. r \in CallState /\ call' = [call EXCEPT ![w] = r]
  BY <1>2, Continued DEF Goes
<1>4. call'[w] = r
  BY <1>3, RowTypes
<1>5. /\ r.step = step /\ r.since = now /\ r.role = call[w].role /\ r.answer = call[w].answer
      /\ r.generation = call[w].generation /\ r.admitted = call[w].admitted
  BY <1>1 DEF CallState
<1>6. ShapeOK(r)
  BY <1>1, <1>5 DEF ShapeOK, Working, Recordable, Terminal
<1> QED BY <1>3, <1>4, <1>5, <1>6

LEMMA RecordObservationStep == ASSUME Inv, NEW w \in Callers, RecordObservation(w) PROVE Inv'
<1>0. /\ UNCHANGED <<proposal, execution, admission, provider, compatible, now>>
      /\ At(w, "answered") /\ call[w].step = "answered" /\ Recordable(w)
  BY DEF RecordObservation, At
<1>a. /\ call[w] \in CallState /\ CallOK(w, call[w])
      /\ execution # None /\ execution \in ExecutionRow
  BY <1>0, RowTypes DEF Inv, TypeOK, CallOK, GenerationOK, Working
<1>1. CASE Ends(w) /\ UNCHANGED observations
  BY <1>0, <1>1, Ended
<1>2. CASE execution.lifecycle # "executing" /\ AfterFinalized(w) /\ UNCHANGED observations
  <2>1. ASSUME NEW step, Goes(w, step),
               \/ Decisive(call[w].answer) /\ step = "finalizing"
               \/ call[w].answer = "notFound" /\ step = "revalidating"
        PROVE  Inv'
    <3>1. /\ call' = [call EXCEPT ![w] = call'[w]] /\ call'[w] \in CallState
          /\ ShapeOK(call'[w]) /\ call'[w].step \in Working /\ call'[w].since = now
          /\ call'[w].role = call[w].role /\ call'[w].answer = call[w].answer
          /\ call'[w].generation = call[w].generation /\ call'[w].admitted = call[w].admitted
          /\ call'[w].step # "dispatching"
      BY <1>0, <2>1, AnswerShape DEF Working
    <3>2. ~Current(call[w])
      BY <1>2, <1>a DEF CallOK, GenerationOK
    <3>3. ~Current(call'[w])
      BY <1>0, <3>1, <3>2 DEF Current, Working
    <3>4. CallOK(w, call'[w])
      BY <1>0, <1>a, <3>1, <3>3, RowTypes DEF CallOK, GenerationOK, ProviderOK, ObservedOK, Working
    <3> QED BY <1>0, <1>2, <3>1, <3>4, OneCall
  <2> QED BY <1>0, <1>1, <1>2, <2>1, AfterAnswerFinalized
<1>3. ASSUME NEW t \in BeginTimes(w), execution.lifecycle = "executing", Holds(w, t),
             observations' = Append(observations, [type |-> call[w].answer,
                                generation |-> execution.generation, at |-> t]),
             AfterRecord(w)
      PROVE  Inv'
  <2> DEFINE last == [type |-> call[w].answer, generation |-> execution.generation, at |-> t]
             n == Len(observations)
  <2>1. /\ call[w].answer \in Answers /\ Current(call[w])
        /\ t \in Nat /\ call[w].since <= t /\ t <= now /\ now \in Nat
        /\ execution.generation \in Nat /\ call[w].since \in Nat
    BY <1>0, <1>3, <1>a, RowTypes
       DEF CallOK, ShapeOK, Holds, Current, Working, BeginTimes, ExecutionRow, CallState
  <2>2. /\ n \in Nat /\ last \in ObservationRow /\ observations' = Append(observations, last)
        /\ observations' \in Seq(ObservationRow) /\ Len(observations') = n + 1
        /\ DOMAIN observations' = 1..(n + 1) /\ DOMAIN observations = 1..n
        /\ \A i \in 1..n : observations'[i] = observations[i]
        /\ observations'[n + 1] = last
    <3>1. observations \in Seq(ObservationRow) /\ last \in ObservationRow
      BY <2>1 DEF Inv, TypeOK, ObservationRow
    <3> HIDE DEF last
    <3>2. observations' = Append(observations, last)
      BY <1>3 DEF last
    <3> QED BY <3>1, <3>2
  <2>3. \A i \in 1..n : /\ observations[i].at \in Nat /\ observations[i].generation \in Nat
                        /\ observations[i].at <= call[w].since /\ observations[i].at <= t
                        /\ observations[i].generation <= execution.generation
    <3>1. \A i \in 1..n : /\ observations[i].at \in Nat /\ observations[i].generation \in Nat
                          /\ observations[i].at <= call[w].since
                          /\ observations[i].generation <= execution.generation
      BY <1>a, <2>1, <2>2, RowTypes
         DEF CallOK, ObservedOK, ObservationRow, Inv, Facts, ObservationsKnown
    <3> QED BY <3>1, <2>1
  <2>4. last.at = t /\ last.generation = execution.generation /\ last.type = call[w].answer
    OBVIOUS
  <2> HIDE DEF last, n
  <2>5. /\ call' \in [Callers -> CallState] /\ \A v \in Callers \ {w} : call'[v] = call[v]
        /\ CallOK(w, call[w])'
    <3>1. CASE Ends(w)
      <4>1. Idle \in CallState /\ CallOK(w, Idle)
        BY IdleOK
      <4>2. call'[w] = Idle /\ call' = [call EXCEPT ![w] = Idle]
        BY <3>1, RowTypes DEF Ends
      <4>3. CallOK(w, call[w])'
        BY <1>0, <4>2, RowTypes DEF CallOK, ShapeOK, GenerationOK, ProviderOK, ObservedOK, Current,
                                    Working, Idle
      <4> QED BY <4>1, <4>2, <4>3, RowTypes
    <3>2. ASSUME NEW step, Goes(w, step),
                 \/ Decisive(call[w].answer) /\ step = "finalizing"
                 \/ call[w].answer = "notFound" /\ step = "revalidating"
          PROVE  /\ call' \in [Callers -> CallState] /\ \A v \in Callers \ {w} : call'[v] = call[v]
                 /\ CallOK(w, call[w])'
      <4>1. /\ call' = [call EXCEPT ![w] = call'[w]] /\ call'[w] \in CallState
            /\ ShapeOK(call'[w]) /\ call'[w].step = step /\ call'[w].since = now
            /\ call'[w].role = call[w].role /\ call'[w].answer = call[w].answer
            /\ call'[w].generation = call[w].generation /\ call'[w].admitted = call[w].admitted
        BY <1>0, <3>2, AnswerShape
      <4>2. call'[w].step \in {"finalizing", "revalidating"}
        BY <3>2, <4>1
      <4>3. GenerationOK(w, call[w])'
        BY <1>0, <1>a, <2>1, <4>1, <4>2 DEF CallOK, GenerationOK, Current, Working
      <4>4. ProviderOK(call[w])'
        BY <1>0, <1>a, <2>1, <4>1, <4>2 DEF CallOK, ProviderOK, Current, Working, provider
      <4>5. ObservedOK(call[w])'
        <5>1. ASSUME NEW i \in 1..(n + 1) PROVE observations'[i].at <= now
          <6>1. CASE i = n + 1
            BY <2>1, <2>2, <2>4, <6>1
          <6>2. CASE i # n + 1
            <7>1. i \in 1..n
              BY <2>2, <6>2
            <7> QED BY <2>1, <2>2, <2>3, <7>1
          <6> QED BY <6>1, <6>2
        <5>2. /\ observations' # <<>>
              /\ observations'[Len(observations')].generation = execution.generation
              /\ observations'[Len(observations')].type = call[w].answer
          BY <2>2, <2>4
        <5> QED BY <1>0, <2>2, <4>1, <5>1, <5>2 DEF ObservedOK
      <4>6. ShapeOK(call[w])'
        BY <4>1 DEF ShapeOK
      <4> QED BY <4>1, <4>3, <4>4, <4>5, <4>6, RowTypes DEF CallOK
    <3> QED BY <1>0, <1>3, <3>1, <3>2, AfterAnswer
  <2>6. TypeOK'
    BY <1>0, <2>2, <2>5 DEF Inv, TypeOK, provider
  <2>7. ObservationsKnown'
    <3>1. ASSUME NEW i \in 1..(n + 1)
          PROVE  observations'[i].at <= now /\ observations'[i].generation <= execution.generation
      <4>1. CASE i = n + 1
        BY <2>1, <2>2, <2>4, <4>1
      <4>2. CASE i # n + 1
        <5>1. i \in 1..n
          BY <2>2, <4>2
        <5> QED BY <2>1, <2>2, <2>3, <5>1
      <4> QED BY <4>1, <4>2
    <3> QED BY <1>0, <2>2, <3>1 DEF ObservationsKnown
  <2>8. ObservationsOrdered'
    <3>1. ASSUME NEW i \in 1..(n + 1), NEW j \in 1..(n + 1), i < j
          PROVE  /\ observations'[i].generation <= observations'[j].generation
                 /\ observations'[i].at <= observations'[j].at
      <4>1. i \in 1..n
        BY <2>2, <3>1
      <4>2. CASE j = n + 1
        BY <2>2, <2>3, <2>4, <4>1, <4>2
      <4>3. CASE j # n + 1
        <5>1. j \in 1..n
          BY <2>2, <4>3
        <5> QED BY <2>2, <3>1, <4>1, <5>1 DEF Inv, Promises, ObservationsOrdered
      <4> QED BY <4>2, <4>3
    <3> QED BY <2>2, <3>1 DEF ObservationsOrdered
  <2>9. Facts' /\ Promises'
    BY <1>0, <1>3, <1>a, <2>7, <2>8
       DEF Inv, Facts, BeforeExecution, GenerationPositive, FailureIsFinal, LedgerHasTicket,
           Promises, RowsAgree, OutcomeIsProviders, NothingUnadmitted, OutcomeObserved, provider
  <2>10. ASSUME NEW v \in Callers \ {w} PROVE CallOK(v, call[v])'
    <3>1. call'[v] = call[v] /\ CallOK(v, call[v])
      BY <2>5 DEF Inv
    <3>2. ~Current(call[v])
      BY <2>1, OneCurrent
    <3> QED BY <1>0, <3>1, <3>2
               DEF CallOK, ShapeOK, GenerationOK, ProviderOK, ObservedOK, Current, provider
  <2>11. \A v \in Callers : CallOK(v, call[v])'
    BY <2>5, <2>10
  <2> QED BY <2>6, <2>9, <2>11 DEF Inv
<1> QED BY <1>1, <1>2, <1>3 DEF RecordObservation

\* What the current request that finalizes records is what the provider has.
LEMMA FinalizedTruth ==
    ASSUME Inv, NEW w \in Callers, At(w, "finalizing"), Current(call[w])
    PROVE  LET lifecycle == LifecycleOf(call[w].answer) IN
              /\ lifecycle \in Terminal
              /\ lifecycle = "succeeded" => ledger = "succeeded"
              /\ lifecycle = "failed" =>
                    ledger = "failed" \/ (ledger = "none" /\ execution.generation = 1)
              /\ observations # <<>>
              /\ LET last == observations[Len(observations)] IN
                    /\ last.generation = execution.generation
                    /\ Decisive(last.type) /\ LifecycleOf(last.type) = lifecycle
<1>1. ShapeOK(call[w]) /\ ProviderOK(call[w]) /\ ObservedOK(call[w]) /\ call[w].step = "finalizing"
  BY DEF Inv, CallOK, At
<1>2. Decisive(call[w].answer) /\ (call[w].answer = "rejected" => call[w].role = "executor")
  BY <1>1 DEF ShapeOK
<1>3. call[w].answer \in Terminal => ledger = call[w].answer
  BY <1>1 DEF ProviderOK
<1>4. call[w].answer = "rejected" => ledger = "none" /\ execution.generation = 1
  BY <1>1, <1>2 DEF ProviderOK, ShapeOK, Current
<1> QED BY <1>1, <1>2, <1>3, <1>4 DEF ObservedOK, Decisive, LifecycleOf, Terminal

LEMMA FinalizeStep == ASSUME Inv, NEW w \in Callers, Finalize(w) PROVE Inv'
<1>0. UNCHANGED <<admission, observations, provider, compatible, now>> /\ At(w, "finalizing")
  BY DEF Finalize
<1>1. CASE Ends(w) /\ UNCHANGED <<execution, proposal>>
  BY <1>0, <1>1, Ended
<1>2. CASE Goes(w, "assertionError") /\ UNCHANGED <<execution, proposal>>
  BY <1>0, <1>2, Gone DEF Errors, Working
<1>3. ASSUME NEW t \in BeginTimes(w), execution.lifecycle = "executing", Holds(w, t),
             execution' = [execution EXCEPT !.lifecycle = LifecycleOf(call[w].answer),
                                            !.revision = @ + 1],
             proposal' = [proposal EXCEPT !.state = execution'.lifecycle,
                                          !.revision = execution'.revision],
             Ends(w)
      PROVE  Inv'
  <2>1. /\ call[w] \in CallState /\ CallOK(w, call[w]) /\ Current(call[w])
        /\ execution # None /\ execution \in ExecutionRow
    BY <1>0, <1>3, RowTypes DEF Inv, TypeOK, CallOK, GenerationOK, Working, At, Current, Holds
  <2>2. LifecycleOf(call[w].answer) \in Terminal
    BY <1>0, <2>1, FinalizedTruth
  <2>3. /\ execution' \in ExecutionRow /\ execution'.lifecycle = LifecycleOf(call[w].answer)
        /\ execution'.generation = execution.generation
        /\ execution'.revision = execution.revision + 1
        /\ execution.generation \in Nat /\ execution.revision \in Nat
    BY <1>3, <2>1, <2>2, ExecutionOutcome DEF Lifecycles
  <2>4. execution' # None
    BY <2>3, RowTypes
  <2>5. /\ proposal' \in ProposalRow /\ proposal'.state = execution'.lifecycle
        /\ proposal'.revision = execution'.revision
    <3>1. execution'.revision \in Nat
          /\ execution'.lifecycle \in {"proposed", "approved", "rejected"} \cup Lifecycles
      BY <2>2, <2>3 DEF Lifecycles
    <3> QED BY <1>3, <3>1, ProposalMoves
  <2>6. call' \in [Callers -> CallState] /\ call'[w] = Idle
        /\ \A v \in Callers \ {w} : call'[v] = call[v]
    BY <1>3, IdleOK, RowTypes DEF Ends
  <2>7. TypeOK'
    BY <1>0, <2>3, <2>5, <2>6 DEF Inv, TypeOK, ProposalRow, provider
  <2>8. Facts'
    BY <1>0, <2>1, <2>3, <2>4, FinalizedTruth
       DEF Inv, Facts, BeforeExecution, GenerationPositive, FailureIsFinal, LedgerHasTicket,
           ObservationsKnown, provider
  <2>9. RowsAgree'
    BY <1>3, <2>1, <2>2, <2>3, <2>4, <2>5 DEF Inv, Promises, RowsAgree, Terminal
  <2>10. OutcomeIsProviders' /\ OutcomeObserved'
    BY <1>0, <2>1, <2>3, <2>4, FinalizedTruth DEF OutcomeIsProviders, OutcomeObserved, provider
  <2>11. NothingUnadmitted' /\ ObservationsOrdered'
    BY <1>0, <2>4 DEF Inv, Promises, NothingUnadmitted, ObservationsOrdered, provider
  <2>12. CallOK(w, call[w])'
    BY <1>0, <2>6, RowTypes DEF CallOK, ShapeOK, GenerationOK, ProviderOK, ObservedOK, Current,
                                Working, Idle
  <2>13. ASSUME NEW v \in Callers \ {w} PROVE CallOK(v, call[v])'
    <3>1. call'[v] = call[v] /\ CallOK(v, call[v]) /\ ~Current(call[v])
      BY <2>1, <2>6, OneCurrent DEF Inv
    <3>2. ~Current(call[v])'
      BY <2>3, <3>1 DEF Current
    <3> QED BY <1>0, <2>3, <2>4, <3>1, <3>2
               DEF CallOK, ShapeOK, GenerationOK, ProviderOK, ObservedOK, provider
  <2>14. \A v \in Callers : CallOK(v, call[v])'
    BY <2>12, <2>13
  <2> QED BY <2>7, <2>8, <2>9, <2>10, <2>11, <2>14 DEF Inv, Promises
<1> QED BY <1>1, <1>2, <1>3 DEF Finalize

-----------------------------------------------------------------------------
(* The theorems                                                             *)

LEMMA Inductive == Inv /\ [Next]_vars => Inv'
<1> SUFFICES ASSUME Inv, [Next]_vars PROVE Inv'
  OBVIOUS
<1>1. CASE UNCHANGED vars
  BY <1>1 DEF vars, rows, provider, Inv, TypeOK, Facts, BeforeExecution, GenerationPositive,
              FailureIsFinal, LedgerHasTicket, ObservationsKnown, Promises, RowsAgree,
              OutcomeIsProviders, NothingUnadmitted, ObservationsOrdered, OutcomeObserved,
              CallOK, ShapeOK, GenerationOK, ProviderOK, ObservedOK, Current
<1>2. CASE \E decision \in {"approved", "rejected"} : Decide(decision)
  BY <1>2, DecideStep
<1>3. ASSUME NEW w \in Callers, Step(w) PROVE Inv'
  BY <1>3, MarkStaleStep, ReadApprovedStep, ResolveCompatibleStep, AcquireStep, AdmitStep,
     ReadBackAdmissionStep, CreateTicketStep, TurnAwayStep, RecordObservationStep, FinalizeStep,
     ReadExecutingStep, ObserveOutcomeStep, TakeOverStep, RevalidateStep, RetryStep, AbandonStep
     DEF Step
<1>4. CASE Reconfigure
  BY <1>4, ReconfigureStep
<1>5. CASE Tick
  BY <1>5, TickStep
<1> QED BY <1>1, <1>2, <1>3, <1>4, <1>5 DEF Next

LEMMA Invariance == Spec => []Inv
  BY Initially, Inductive, PTL DEF Spec

\* The variables keep their types.
THEOREM Types == Spec => []TypeOK
<1>1. Inv => TypeOK
  BY DEF Inv
<1> QED BY <1>1, Invariance, PTL

\* The row of a proposal and that of its execution agree in state and revision.
THEOREM RowsOfOneMind == Spec => []RowsAgree
<1>1. Inv => RowsAgree
  BY DEF Inv, Promises
<1> QED BY <1>1, Invariance, PTL

\* A recorded success is the provider's, and behind a recorded failure there is no ticket,
\* then or later.
THEOREM OutcomeTrue == Spec => []OutcomeIsProviders
<1>1. Inv => OutcomeIsProviders
  BY DEF Inv, Promises
<1> QED BY <1>1, Invariance, PTL

\* The provider hears only of an admitted execution.
THEOREM OnlyAdmitted == Spec => []NothingUnadmitted
<1>1. Inv => NothingUnadmitted
  BY DEF Inv, Promises
<1> QED BY <1>1, Invariance, PTL

\* The observations are in the order of their generations and times.
THEOREM InOrder == Spec => []ObservationsOrdered
<1>1. Inv => ObservationsOrdered
  BY DEF Inv, Promises
<1> QED BY <1>1, Invariance, PTL

\* The last observation of a finished execution is its outcome.
THEOREM OutcomeLast == Spec => []OutcomeObserved
<1>1. Inv => OutcomeObserved
  BY DEF Inv, Promises
<1> QED BY <1>1, Invariance, PTL

-----------------------------------------------------------------------------
(* The lifecycle                                                            *)

Kept ==
    execution # None /\ execution.lifecycle # "executing" =>
        /\ execution' = execution
        /\ proposal'.state = proposal.state /\ proposal'.revision = proposal.revision

Allowed == Kept /\ (Lifecycle!Next \/ UNCHANGED <<proposal.state, tickets>>)

\* Most steps leave the state of the proposal and the tickets alone.
LEMMA LeavesAlone ==
    ASSUME Inv, UNCHANGED <<execution, tickets>>,
           proposal' = proposal \/ proposal' = [proposal EXCEPT !.stale = TRUE]
    PROVE  Allowed
<1>1. proposal'.state = proposal.state /\ proposal'.revision = proposal.revision
  BY DEF Inv, TypeOK
<1> QED BY <1>1 DEF Allowed, Kept

LEMMA Workflow == ASSUME Inv, [Next]_vars PROVE Allowed
<1>1. CASE UNCHANGED vars \/ Reconfigure \/ Tick
  BY <1>1, LeavesAlone DEF vars, rows, provider, Reconfigure, Tick
<1>2. ASSUME NEW decision \in {"approved", "rejected"}, Decide(decision) PROVE Allowed
  <2>1. execution = None
    BY <1>2 DEF Decide, Inv, Promises, RowsAgree, TypeOK, ExecutionRow, Lifecycles, Terminal
  <2>2. proposal.state = "proposed" /\ proposal'.state = decision /\ UNCHANGED tickets
    BY <1>2 DEF Decide, provider, Inv, TypeOK
  <2>3. Lifecycle!Decide
    BY <2>2 DEF Lifecycle!Decide
  <2> QED BY <2>1, <2>3 DEF Allowed, Kept, Lifecycle!Next
<1>3. ASSUME NEW w \in Callers,
             \/ MarkStale(w) \/ ReadApproved(w) \/ ResolveCompatible(w) \/ Admit(w)
             \/ ReadBackAdmission(w) \/ TurnAway(w) \/ RecordObservation(w)
             \/ ReadExecuting(w) \/ ObserveOutcome(w) \/ Revalidate(w)
             \/ RetryRejected(w) \/ RetryIndeterminate(w) \/ Abandon(w)
      PROVE  Allowed
  BY <1>3, LeavesAlone
     DEF MarkStale, ReadApproved, ResolveCompatible, Admit, ReadBackAdmission, TurnAway,
         RecordObservation, ReadExecuting, ObserveOutcome, Revalidate, RetryRejected,
         RetryIndeterminate, Abandon, rows, provider
<1>4. ASSUME NEW w \in Callers, Acquire(w) PROVE Allowed
  <2>1. UNCHANGED tickets
    BY <1>4 DEF Acquire, provider
  <2>2. CASE UNCHANGED <<execution, proposal>>
    BY <2>1, <2>2, LeavesAlone
  <2>3. ASSUME NEW t \in BeginTimes(w), Acquirable(w, t),
               proposal' = [proposal EXCEPT !.state = "executing", !.revision = @ + 1]
        PROVE  Allowed
    <3>1. proposal.state = "approved" /\ proposal'.state = "executing" /\ execution = None
      BY <2>3 DEF Acquirable, Inv, TypeOK
    <3>2. Lifecycle!Start
      BY <2>1, <3>1 DEF Lifecycle!Start
    <3> QED BY <3>1, <3>2 DEF Allowed, Kept, Lifecycle!Next
  <2> QED BY <1>4, <2>2, <2>3 DEF Acquire
<1>5. ASSUME NEW w \in Callers, CreateTicket(w) PROVE Allowed
  <2>1. /\ UNCHANGED <<proposal, execution>> /\ At(w, "dispatching") /\ Commit
    BY <1>5 DEF CreateTicket, rows
  <2>2. CASE UNCHANGED tickets
    BY <2>1, <2>2, LeavesAlone
  <2>3. CASE ledger = "none" /\ tickets' = tickets + 1
    <3>1. execution # None /\ execution.lifecycle = "executing" /\ tickets = 0
      BY <2>1, <2>3, DispatchesInTime DEF Inv, Facts, LedgerHasTicket
    <3>2. proposal.state = "executing"
      BY <3>1 DEF Inv, Promises, RowsAgree
    <3>3. Lifecycle!CreateTicket
      BY <2>1, <2>3, <3>1, <3>2 DEF Lifecycle!CreateTicket
    <3> QED BY <2>1, <3>3 DEF Allowed, Kept, Lifecycle!Next
  <2> QED BY <2>1, <2>2, <2>3 DEF Commit, provider
<1>6. ASSUME NEW w \in Callers, Finalize(w) PROVE Allowed
  <2>1. UNCHANGED tickets /\ At(w, "finalizing")
    BY <1>6 DEF Finalize, provider
  <2>2. CASE UNCHANGED <<execution, proposal>>
    BY <2>1, <2>2, LeavesAlone
  <2>3. ASSUME NEW t \in BeginTimes(w), execution.lifecycle = "executing", Holds(w, t),
               execution' = [execution EXCEPT !.lifecycle = LifecycleOf(call[w].answer),
                                              !.revision = @ + 1],
               proposal' = [proposal EXCEPT !.state = execution'.lifecycle,
                                            !.revision = execution'.revision]
        PROVE  Allowed
    <3>1. Current(call[w]) /\ execution # None /\ execution \in ExecutionRow
      BY <2>1, <2>3, RowTypes DEF Inv, CallOK, GenerationOK, Working, At, Current, Holds
    <3>2. /\ LifecycleOf(call[w].answer) \in Terminal
          /\ LifecycleOf(call[w].answer) = "succeeded" => tickets = 1
          /\ LifecycleOf(call[w].answer) = "failed" => tickets = 0
      BY <2>1, <3>1, FinalizedTruth DEF Inv, Facts, LedgerHasTicket
    <3>3. proposal.state = "executing" /\ proposal'.state = LifecycleOf(call[w].answer)
      BY <2>3, <3>1 DEF Inv, Promises, RowsAgree, TypeOK, ExecutionRow
    <3>4. Lifecycle!Succeed \/ Lifecycle!Fail
      BY <2>1, <3>2, <3>3 DEF Lifecycle!Succeed, Lifecycle!Fail, Terminal
    <3> QED BY <2>3, <3>4 DEF Allowed, Kept, Lifecycle!Next
  <2> QED BY <1>6, <2>2, <2>3 DEF Finalize
<1>7. ASSUME NEW w \in Callers, TakeOver(w) PROVE Allowed
  <2>1. UNCHANGED tickets
    BY <1>7 DEF TakeOver, provider
  <2>2. CASE UNCHANGED <<execution, proposal>>
    BY <2>1, <2>2, LeavesAlone
  <2>3. ASSUME NEW t \in BeginTimes(w), Stale(w, t), TakenOver(w, t) PROVE Allowed
    <3>1. execution.lifecycle = "executing" /\ proposal'.state = proposal.state
      BY <2>3 DEF Stale, TakenOver, Inv, TypeOK
    <3> QED BY <2>1, <3>1 DEF Allowed, Kept
  <2> QED BY <1>7, <2>2, <2>3 DEF TakeOver
<1> QED BY <1>1, <1>2, <1>3, <1>4, <1>5, <1>6, <1>7 DEF Next, Step

\* What is recorded of a finished execution never changes.
THEOREM OutcomeStays == Spec => OutcomeKept
<1>1. Inv /\ [Next]_vars => [Kept]_vars
  BY Workflow DEF Allowed
<1>2. Spec => [][Kept]_vars
  BY <1>1, Invariance, PTL DEF Spec
<1> QED BY <1>2 DEF OutcomeKept, Kept

\* The workflow keeps the promise of ProposalLifecycle: a decision first, one ticket at
\* most and only while the proposal executes, and an outcome that is the provider's.
THEOREM Implements == Spec => LifecycleImplemented
<1>1. Init => Lifecycle!Init
  BY DEF Init, Lifecycle!Init
<1>2. Inv /\ [Next]_vars => [Lifecycle!Next]_(Lifecycle!vars)
  BY Workflow DEF Allowed, Lifecycle!vars
<1>3. Spec => Lifecycle!Spec
  BY <1>1, <1>2, Invariance, PTL DEF Spec, Lifecycle!Spec
<1> QED BY <1>3 DEF LifecycleImplemented
=============================================================================
