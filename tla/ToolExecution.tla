--------------------------- MODULE ToolExecution ---------------------------
(***************************************************************************)
(* The execution of one approved write proposal.  Requests to execute it   *)
(* and to reconcile it run concurrently; each is a sequence of database    *)
(* transactions with a call of the external provider among them, and may   *)
(* be paused or die between any two.  The execution row has an owner, a    *)
(* generation and a lease; the provider keeps a ledger of its own.         *)
(*                                                                         *)
(* A transaction locks the execution row and is one step.  Its clock is    *)
(* transaction_timestamp(), the time it began: waiting for the lock makes  *)
(* that older than the row it then reads.  Rows of two proposals are never *)
(* related, so there is one proposal.                                      *)
(***************************************************************************)
EXTENDS Naturals, Sequences

CONSTANTS
    Callers,        \* requests in progress
    None,           \* SQL NULL
    LeaseDuration,  \* execution_lease_duration
    ExpiresAt,      \* expires_at of the proposal
    MaxTime         \* bound of the clock

ASSUME LeaseAssumption == LeaseDuration \in Nat \ {0}
ASSUME TimeAssumption == ExpiresAt \in Nat /\ MaxTime \in Nat
ASSUME NoneAssumption == None \notin [lifecycle : {"executing", "succeeded", "failed"},
                                      revision : Nat, owner : Callers, generation : Nat,
                                      expires : Nat] \cup Nat

VARIABLES
    proposal,       \* state, revision and execution_stale_reason of the row of tool_proposals
    execution,      \* its row of tool_executions
    admission,      \* its row of tool_dispatch_admissions: the generation that was admitted
    observations,   \* its rows of tool_execution_observations
    ledger,         \* provider_idempotency: the outcome under the logical execution id
    tickets,        \* provider_created_tickets under that id
    compatible,     \* capability, binding and policy are those that were approved
    now,
    call            \* Callers -> progress of the request

rows == <<proposal, execution, admission, observations>>
provider == <<ledger, tickets>>
vars == <<rows, provider, compatible, now, call>>

Terminal == {"succeeded", "failed"}
Lifecycles == {"executing"} \cup Terminal

ExecutionRow ==
    [lifecycle : Lifecycles, revision : Nat, owner : Callers, generation : Nat, expires : Nat]

\* What a request learnt of the outcome.  "rejected" is a provider that says no write was
\* received; "indeterminate" stands for every answer that leaves the outcome open.
Answers == Terminal \cup {"rejected", "indeterminate", "notFound"}

ObservationRow == [type : Answers, generation : Nat, at : Nat]

\* The step a request takes next, or the error that ended it.
Steps == {"idle", "resolving", "acquiring", "marking", "observing", "taking", "revalidating",
          "admitting", "dispatching", "answered", "finalizing"}
Errors == {"assertionError", "attributeError", "checkViolation"}

\* admitted and stale are as read with the proposal; since is when the last step was taken.
CallState ==
    [role : {"executor", "reconciler"}, step : Steps \cup Errors, revision : Nat,
     generation : Nat, stale : BOOLEAN, admitted : BOOLEAN, answer : Answers \cup {None},
     since : Nat]

Idle ==
    [role |-> "executor", step |-> "idle", revision |-> 0, generation |-> 0, stale |-> FALSE,
     admitted |-> FALSE, answer |-> None, since |-> 0]

TypeOK ==
    /\ proposal \in [state : {"proposed", "approved", "rejected"} \cup Lifecycles,
                     revision : Nat, stale : BOOLEAN]
    /\ execution \in ExecutionRow \cup {None}
    /\ admission \in {None} \cup Nat
    /\ observations \in Seq(ObservationRow)
    /\ ledger \in {"none"} \cup Terminal
    /\ tickets \in 0..1
    /\ compatible \in BOOLEAN
    /\ now \in 0..MaxTime
    /\ call \in [Callers -> CallState]

Init ==
    /\ proposal = [state |-> "proposed", revision |-> 0, stale |-> FALSE]
    /\ execution = None /\ admission = None /\ observations = <<>>
    /\ ledger = "none" /\ tickets = 0
    /\ compatible = TRUE
    /\ now = 0
    /\ call = [w \in Callers |-> Idle]

-----------------------------------------------------------------------------
(* Requests                                                                 *)

At(w, step) == call[w].step = step

Continue(w, fields) == call' = [call EXCEPT ![w] = [fields EXCEPT !.since = now]]

Goes(w, step) == Continue(w, [call[w] EXCEPT !.step = step])

Ends(w) == call' = [call EXCEPT ![w] = Idle]

\* transaction_timestamp() of a transaction of w that gets its lock now.
BeginTimes(w) == {t \in 0..MaxTime : call[w].since <= t /\ t <= now}

\* Mutant of Holds: a live lease is enough, whoever has it.
HoldsLive(w, t) == t < execution.expires

\* Owner, generation and lease of the execution are those of w.
Holds(w, t) ==
    /\ execution.owner = w /\ execution.generation = call[w].generation
    /\ t < execution.expires

\* decide_proposal: of approval and rejection the first to commit wins.
Decide(decision) ==
    /\ proposal.state = "proposed"
    /\ proposal' = [proposal EXCEPT !.state = decision, !.revision = @ + 1]
    /\ UNCHANGED <<execution, admission, observations, provider, compatible, now, call>>

\* mark_execution_stale; the request that found the mismatch then fails.
MarkStale(w) ==
    /\ At(w, "marking")
    /\ proposal' = [proposal EXCEPT !.stale = TRUE]
    /\ Ends(w)
    /\ UNCHANGED <<execution, admission, observations, provider, compatible, now>>

-----------------------------------------------------------------------------
(* ApprovedProposalExecutor.execute                                         *)

\* Any other proposal answers the request at once.
ReadApproved(w) ==
    /\ At(w, "idle")
    /\ execution = None /\ proposal.state = "approved" /\ ~proposal.stale
    /\ Continue(w, [Idle EXCEPT !.step = "resolving", !.revision = proposal.revision])
    /\ UNCHANGED <<rows, provider, compatible, now>>

\* The host's clock is taken to agree with the database's.
ResolveCompatible(w) ==
    /\ At(w, "resolving")
    /\ IF compatible
       THEN IF now < ExpiresAt THEN Goes(w, "acquiring") ELSE Ends(w)
       ELSE Goes(w, "marking")
    /\ UNCHANGED <<rows, provider, compatible, now>>

Acquirable(w, t) ==
    /\ execution = None
    /\ proposal.state = "approved" /\ ~proposal.stale
    /\ proposal.revision = call[w].revision
    /\ t < ExpiresAt

Acquire(w) ==
    /\ At(w, "acquiring")
    /\ \E t \in BeginTimes(w) :
          IF Acquirable(w, t)
          THEN /\ execution' = [lifecycle |-> "executing", revision |-> proposal.revision + 1,
                                owner |-> w, generation |-> 1, expires |-> t + LeaseDuration]
               /\ proposal' = [proposal EXCEPT !.state = "executing", !.revision = @ + 1]
               /\ Continue(w, [call[w] EXCEPT !.step = "admitting", !.generation = 1])
          ELSE Ends(w) /\ UNCHANGED <<execution, proposal>>
    /\ UNCHANGED <<admission, observations, provider, compatible, now>>

\* authorize_and_admit_dispatch.  An admission that exists is returned before owner,
\* generation and lease are looked at.  A constraint of its table asks for generation 1.
Admit(w) ==
    /\ At(w, "admitting")
    /\ \E t \in BeginTimes(w) :
          \/ /\ admission # None
             /\ Goes(w, "dispatching") /\ UNCHANGED <<admission, proposal>>
          \/ /\ admission = None
             /\ ~Holds(w, t) \/ proposal.stale
             /\ Ends(w) /\ UNCHANGED <<admission, proposal>>
          \/ /\ admission = None /\ Holds(w, t) /\ ~proposal.stale /\ ~compatible
             /\ proposal' = [proposal EXCEPT !.stale = TRUE]
             /\ Ends(w) /\ UNCHANGED admission
          \/ /\ admission = None /\ Holds(w, t) /\ ~proposal.stale /\ compatible
             /\ IF call[w].generation = 1
                THEN admission' = 1 /\ Goes(w, "dispatching")
                ELSE Goes(w, "checkViolation") /\ UNCHANGED admission
             /\ UNCHANGED proposal
    /\ UNCHANGED <<execution, observations, provider, compatible, now>>

\* Mutant of ReadBackAdmission: the executor goes on whatever it reads.
ReadBackNothing(w) ==
    /\ At(w, "admitting") /\ call[w].role = "executor"
    /\ Goes(w, "dispatching")
    /\ UNCHANGED <<rows, provider, compatible, now>>

\* The admission fails with PERSISTENCE_OPERATION_FAILED, and the executor reads back.
ReadBackAdmission(w) ==
    /\ At(w, "admitting") /\ call[w].role = "executor"
    /\ IF admission # None THEN Goes(w, "dispatching") ELSE Ends(w)
    /\ UNCHANGED <<rows, provider, compatible, now>>

-----------------------------------------------------------------------------
(* The provider                                                             *)

Answered(w, answer) == Continue(w, [call[w] EXCEPT !.step = "answered", !.answer = answer])

\* Mutant of Commit: the ledger is not looked up.
CommitAgain ==
    /\ ledger' \in Terminal
    /\ tickets' = IF ledger' = "succeeded" THEN tickets + 1 ELSE tickets

\* One transaction of the provider: a ticket or a refusal with its ledger row, unless the
\* ledger has the logical execution id.
Commit ==
    \/ ledger # "none" /\ UNCHANGED provider
    \/ /\ ledger = "none" /\ ledger' \in Terminal
       /\ tickets' = IF ledger' = "succeeded" THEN tickets + 1 ELSE tickets

\* The answer of a committed outcome may be lost.
CreateTicket(w) ==
    /\ At(w, "dispatching")
    /\ Commit
    /\ \E answer \in {ledger', "indeterminate"} : Answered(w, answer)
    /\ UNCHANGED <<rows, compatible, now>>

\* The scope is denied or the request turned down before the ledger is looked up, or the
\* provider is not reached.
TurnAway(w) ==
    /\ At(w, "dispatching")
    /\ \E answer \in {"rejected", "indeterminate"} : Answered(w, answer)
    /\ UNCHANGED <<rows, provider, compatible, now>>

-----------------------------------------------------------------------------
(* Observation and outcome                                                  *)

Decisive(answer) == answer \in Terminal \cup {"rejected"}

\* Where a request goes from a recorded observation.
AfterRecord(w) ==
    CASE Decisive(call[w].answer) -> Goes(w, "finalizing")
      [] call[w].answer = "notFound" -> Goes(w, "revalidating")
      [] OTHER -> Ends(w)

\* An execution that is already finalized: the executor of a decisive answer and the
\* reconciler that found nothing go on as if they had recorded it.
AfterFinalized(w) ==
    IF \/ call[w].role = "executor" /\ Decisive(call[w].answer)
       \/ call[w].answer = "notFound"
    THEN AfterRecord(w)
    ELSE Ends(w)

\* A reconciler has no _record_outcome for the answer of its retry.
Recordable(w) ==
    \/ call[w].role = "executor"
    \/ call[w].answer \in Terminal \cup {"notFound"}

\* record_execution_observation.
RecordObservation(w) ==
    /\ At(w, "answered") /\ Recordable(w)
    /\ \E t \in BeginTimes(w) :
          \/ execution.lifecycle # "executing" /\ AfterFinalized(w) /\ UNCHANGED observations
          \/ execution.lifecycle = "executing" /\ ~Holds(w, t) /\ Ends(w)
             /\ UNCHANGED observations
          \/ /\ execution.lifecycle = "executing" /\ Holds(w, t)
             /\ observations' = Append(observations, [type |-> call[w].answer,
                                   generation |-> execution.generation, at |-> t])
             /\ AfterRecord(w)
    /\ UNCHANGED <<proposal, execution, admission, provider, compatible, now>>

LifecycleOf(answer) == IF answer = "succeeded" THEN "succeeded" ELSE "failed"

\* finalize_execution.  The executor asserts that its finalization is the one applied.
Finalize(w) ==
    /\ At(w, "finalizing")
    /\ \E t \in BeginTimes(w) :
          \/ /\ execution.lifecycle # "executing"
             /\ IF call[w].role = "executor" THEN Goes(w, "assertionError") ELSE Ends(w)
             /\ UNCHANGED <<execution, proposal>>
          \/ /\ execution.lifecycle = "executing" /\ ~Holds(w, t)
             /\ Ends(w) /\ UNCHANGED <<execution, proposal>>
          \/ /\ execution.lifecycle = "executing" /\ Holds(w, t)
             /\ execution' = [execution EXCEPT !.lifecycle = LifecycleOf(call[w].answer),
                                               !.revision = @ + 1]
             /\ proposal' = [proposal EXCEPT !.state = execution'.lifecycle,
                                             !.revision = execution'.revision]
             /\ Ends(w)
    /\ UNCHANGED <<admission, observations, provider, compatible, now>>

-----------------------------------------------------------------------------
(* ReconciliationExecutor.reconcile                                         *)

\* The expected generation is the one read: any other is fenced at once.
ReadExecuting(w) ==
    /\ At(w, "idle")
    /\ execution # None /\ execution.lifecycle = "executing"
    /\ Continue(w, [Idle EXCEPT !.role = "reconciler", !.step = "observing",
                       !.generation = execution.generation, !.stale = proposal.stale,
                       !.admitted = admission # None])
    /\ UNCHANGED <<rows, provider, compatible, now>>

\* get_execution_outcome; a request that gets no answer ends.
ObserveOutcome(w) ==
    /\ At(w, "observing")
    /\ Continue(w, [call[w] EXCEPT !.step = "taking",
                       !.answer = IF ledger = "none" THEN "notFound" ELSE ledger])
    /\ UNCHANGED <<rows, provider, compatible, now>>

\* Mutant of Stale: neither the lifecycle nor the lease is looked at.
StaleAnyhow(w, t) == execution.generation = call[w].generation

Stale(w, t) ==
    /\ execution.lifecycle = "executing"
    /\ execution.generation = call[w].generation
    /\ execution.expires < t

TakenOver(w, t) ==
    /\ execution' = [execution EXCEPT !.owner = w, !.generation = @ + 1, !.revision = @ + 1,
                                      !.expires = t + LeaseDuration]
    /\ proposal' = [proposal EXCEPT !.revision = execution'.revision]

\* takeover_stale_execution.  Every request is an owner of its own, so a reconciler takes
\* the execution over before it records anything.
TakeOver(w) ==
    /\ At(w, "taking")
    /\ \E t \in BeginTimes(w) :
          IF Stale(w, t)
          THEN /\ TakenOver(w, t)
               /\ Continue(w, [call[w] EXCEPT !.step = "answered",
                                              !.generation = execution'.generation])
          ELSE Ends(w) /\ UNCHANGED <<execution, proposal>>
    /\ UNCHANGED <<admission, observations, provider, compatible, now>>

\* _revalidate_retry, of the proposal as it was read at the start.
Revalidate(w) ==
    /\ At(w, "revalidating")
    /\ CASE call[w].stale -> Ends(w)
         [] ~call[w].stale /\ ~compatible -> Goes(w, "marking")
         [] ~call[w].stale /\ compatible /\ now >= ExpiresAt -> Ends(w)
         [] OTHER -> Goes(w, IF call[w].admitted THEN "dispatching" ELSE "admitting")
    /\ UNCHANGED <<rows, provider, compatible, now>>

\* The retry is rejected: self._record_outcome is not a method of this class.
RetryRejected(w) ==
    /\ At(w, "answered") /\ ~Recordable(w) /\ call[w].answer = "rejected"
    /\ Goes(w, "attributeError")
    /\ UNCHANGED <<rows, provider, compatible, now>>

\* _record_indeterminate compares the owner with a new one, and records nothing.
RetryIndeterminate(w) ==
    /\ At(w, "answered") /\ ~Recordable(w) /\ call[w].answer = "indeterminate"
    /\ Ends(w)
    /\ UNCHANGED <<rows, provider, compatible, now>>

-----------------------------------------------------------------------------
(* Environment                                                              *)

\* A denied authority, an error, or the death of the process.
Abandon(w) ==
    /\ ~At(w, "idle")
    /\ Ends(w)
    /\ UNCHANGED <<rows, provider, compatible, now>>

\* Capability, binding or policy is replaced, or put back.
Reconfigure ==
    /\ compatible' = ~compatible
    /\ UNCHANGED <<rows, provider, now, call>>

Tick ==
    /\ now < MaxTime
    /\ now' = now + 1
    /\ UNCHANGED <<rows, provider, compatible, call>>

Step(w) ==
    \/ MarkStale(w) \/ ReadApproved(w) \/ ResolveCompatible(w) \/ Acquire(w)
    \/ Admit(w) \/ ReadBackAdmission(w) \/ CreateTicket(w) \/ TurnAway(w)
    \/ RecordObservation(w) \/ Finalize(w)
    \/ ReadExecuting(w) \/ ObserveOutcome(w) \/ TakeOver(w) \/ Revalidate(w)
    \/ RetryRejected(w) \/ RetryIndeterminate(w) \/ Abandon(w)

Next ==
    \/ \E decision \in {"approved", "rejected"} : Decide(decision)
    \/ \E w \in Callers : Step(w)
    \/ Reconfigure
    \/ Tick

Spec == Init /\ [][Next]_vars

-----------------------------------------------------------------------------
(* Properties                                                               *)

\* The rows of the proposal and of its execution are written by the same transactions and
\* agree: the state of an executing or finished proposal is the lifecycle of its execution,
\* and the revision counts the decision, the generations and the outcome.
RowsAgree ==
    IF execution = None
    THEN proposal.state \notin Lifecycles
    ELSE /\ proposal.state = execution.lifecycle
         /\ proposal.revision = execution.revision
         /\ execution.revision =
               execution.generation + (IF execution.lifecycle = "executing" THEN 1 ELSE 2)

\* Knora records the provider's outcome and no other: a success has a ticket, and for a
\* failure there is none, nor does a delayed request of anybody create one afterwards.
OutcomeIsProviders ==
    execution # None =>
        /\ execution.lifecycle = "succeeded" => ledger = "succeeded"
        /\ execution.lifecycle = "failed" => ledger # "succeeded"

\* The provider hears nothing of a proposal that was not approved, acquired and admitted.
NothingUnadmitted == ledger # "none" => admission # None /\ execution # None

\* Observations stand in the order of their generations and of their times, though a
\* transaction may have begun long before it commits.
ObservationsOrdered ==
    \A i, j \in DOMAIN observations : i < j =>
        /\ observations[i].generation <= observations[j].generation
        /\ observations[i].at <= observations[j].at

\* The last thing observed of a finished execution is its outcome, as seen by the
\* generation that finalized it: nobody adds to the observations after the outcome.
OutcomeObserved ==
    execution # None /\ execution.lifecycle # "executing" =>
        /\ observations # <<>>
        /\ LET last == observations[Len(observations)] IN
              /\ last.generation = execution.generation
              /\ Decisive(last.type) /\ LifecycleOf(last.type) = execution.lifecycle

\* A finished execution and its proposal keep their outcome, owner and revision.
OutcomeKept ==
    [][execution # None /\ execution.lifecycle # "executing" =>
          /\ execution' = execution
          /\ proposal'.state = proposal.state /\ proposal'.revision = proposal.revision]_vars

Lifecycle == INSTANCE ProposalLifecycle WITH state <- proposal.state

\* The workflow keeps the promise of ProposalLifecycle.
LifecycleImplemented == Lifecycle!Spec

\* execution.py asserts that the finalization of an executor that was not fenced is the
\* one applied.
FinalizationIsOwn == \A w \in Callers : ~At(w, "assertionError")

\* A provider that has no outcome permits a retry: the admission of a reconciler that holds
\* the lease of a compatible proposal can be stored.
RetryAdmissible == \A w \in Callers : ~At(w, "checkViolation")

\* What the provider answers to the retry of a reconciler, a rejection too, is recorded.
RetryAnswerRecorded == \A w \in Callers : ~At(w, "attributeError")
=============================================================================
