------------------------- MODULE ConversationTurns -------------------------
(***************************************************************************)
(* Conversation turns: clients ask, the loops of the conversation workers  *)
(* claim a turn, have it answered while a heartbeat renews the lease, and  *)
(* finish it; whoever finds an expired lease settles the turn from its     *)
(* durable Question Trace.  A turn is never given back to the queue.       *)
(*                                                                         *)
(* Each transaction locks its turn row before it samples the clock, so a   *)
(* transaction is one step.  Time is relative: a timestamp is kept as its  *)
(* distance from now, at least 0.  The Workspace is one: nothing relates   *)
(* the turns of two.                                                       *)
(***************************************************************************)
EXTENDS Naturals, FiniteSets, Sequences

CONSTANTS
    Conversations,
    Keys,           \* idempotency keys of questions: a conversation has one turn for each
    Loops,          \* run_forever tasks
    Processes,
    ProcessOf,      \* loop -> the worker process it runs in
    None,           \* SQL NULL, Python None
    Lease,          \* _TURN_LEASE
    Deadline,       \* _TURN_EXECUTION_DEADLINE and _EXECUTION_DEADLINE_SECONDS
    MaxFaults       \* bound: process deaths and failed heartbeats in a behaviour

ASSUME TimingAssumption == Lease \in Nat \ {0} /\ Deadline \in Nat \ {0}
ASSUME ProcessAssumption == ProcessOf \in [Loops -> Processes]
ASSUME FaultAssumption == MaxFaults \in Nat
ASSUME KeysAssumption == IsFiniteSet(Keys)

Sequence == 1..Cardinality(Keys)
Turns == Conversations \X Sequence

VARIABLES
    workspaceArchived,
    conversation,   \* conversation -> "absent", "open" or "archived"
    turn,           \* Turns -> row of conversation_turns
    claims,         \* turn -> claims so far; a claim_token is the number of its claim
    admission,      \* turn -> its Workspace Admission
    trace,          \* turn -> its Question Trace
    withdrawn,      \* turns whose trace no longer matches what is served
    timely,         \* history: turns whose valid trace was durable under a live lease
    updates,        \* stage updates on their way to the database
    loop,           \* Loops -> what the task is doing
    faults

convVars == <<workspaceArchived, conversation>>
durableVars == <<turn, claims, admission>>
traceVars == <<trace, withdrawn, timely>>
vars == <<convVars, durableVars, traceVars, updates, loop, faults>>

Active == {"queued", "processing"}
Outcomes == {"answered", "refused", "failed", "interrupted"}
Valid == {"answer", "refusal"}

TurnRow ==
    [status : {"absent"} \cup Active \cup Outcomes, key : Keys \cup {None}, token : Nat,
     leaseLeft : 0..Lease, deadlineLeft : 0..Deadline,
     stage : {None, "working", "final_validated", "refusal", "failure"}]

\* What execute came to: its decision, or an error.  A durable trace that records an
\* error or an invalid generation is "invalid".
Results == Valid \cup {"error"}

\* An observed turn with the token it was observed under.
Observations == Turns \X Nat

ASSUME NothingAssumption ==
    /\ None \notin Keys \cup Turns \cup Results \cup {"running"}
    /\ None \notin Observations

Phases == {"observing", "recovering", "claiming", "preparing", "executing", "finishing",
           "polling", "draining"}

\* purpose tells why a recovery was begun: "fresh" run_once, the own turn "unheard"
\* by its heartbeat, or "overdue".  The heartbeat task is "lost" when it returned False.
LoopState ==
    [phase : Phases, purpose : {"fresh", "unheard", "overdue"},
     observed : SUBSET Observations, reading : Observations \cup {None},
     found : Valid \cup {None}, turn : Turns \cup {None}, token : Nat,
     answer : {None, "running"} \cup Results,
     heartbeat : {"none", "beating", "lost", "raised"}, timer : 0..Deadline]

AbsentTurn ==
    [status |-> "absent", key |-> None, token |-> 0, leaseLeft |-> 0, deadlineLeft |-> 0,
     stage |-> None]

\* The top of run_once.
FreshLoop ==
    [phase |-> "observing", purpose |-> "fresh", observed |-> {}, reading |-> None,
     found |-> None, turn |-> None, token |-> 0, answer |-> None, heartbeat |-> "none",
     timer |-> 0]

TypeOK ==
    /\ workspaceArchived \in BOOLEAN
    /\ conversation \in [Conversations -> {"absent", "open", "archived"}]
    /\ turn \in [Turns -> TurnRow]
    /\ claims \in [Turns -> Nat]
    /\ admission \in [Turns -> {"none", "open", "closed"}]
    /\ trace \in [Turns -> {"none", "invalid"} \cup Valid]
    /\ withdrawn \in SUBSET Turns
    /\ timely \in SUBSET Turns
    /\ updates \in SUBSET Observations
    /\ loop \in [Loops -> LoopState]
    /\ faults \in 0..MaxFaults

Init ==
    /\ workspaceArchived = FALSE
    /\ conversation = [c \in Conversations |-> "absent"]
    /\ turn = [t \in Turns |-> AbsentTurn]
    /\ claims = [t \in Turns |-> 0]
    /\ admission = [t \in Turns |-> "none"]
    /\ trace = [t \in Turns |-> "none"]
    /\ withdrawn = {} /\ timely = {}
    /\ updates = {}
    /\ loop = [l \in Loops |-> FreshLoop]
    /\ faults = 0

-----------------------------------------------------------------------------
(* Clients                                                                  *)

CreateConversation(c) ==
    /\ ~workspaceArchived /\ conversation[c] = "absent"
    /\ conversation' = [conversation EXCEPT ![c] = "open"]
    /\ UNCHANGED <<workspaceArchived, durableVars, traceVars, updates, loop, faults>>

\* Any client may hold the expected revision, which therefore restricts nothing here.
ArchiveConversation(c) ==
    /\ ~workspaceArchived /\ conversation[c] # "absent"
    /\ \E state \in {"open", "archived"} :
          conversation' = [conversation EXCEPT ![c] = state]
    /\ UNCHANGED <<workspaceArchived, durableVars, traceVars, updates, loop, faults>>

ArchiveWorkspace ==
    /\ workspaceArchived' = ~workspaceArchived
    /\ UNCHANGED <<conversation, durableVars, traceVars, updates, loop, faults>>

\* Sequence numbers of the turns of c.
Asked(c) == {n \in Sequence : turn[<<c, n>>].status # "absent"}

\* Mutant of Busy: a turn in processing does not keep the conversation busy.
BusyWhileQueued(c) == \E n \in Asked(c) : turn[<<c, n>>].status = "queued"

Busy(c) == \E n \in Asked(c) : turn[<<c, n>>].status \in Active

\* One more than the largest sequence number of the conversation.
IsNextSequence(c, n) ==
    /\ \A m \in Asked(c) : m < n
    /\ n = 1 \/ n - 1 \in Asked(c)

\* A key that has a turn is replayed: its turn is returned and nothing changes.
SubmitTurn(c, k) ==
    /\ conversation[c] = "open" /\ ~workspaceArchived
    /\ \A n \in Asked(c) : turn[<<c, n>>].key # k
    /\ ~Busy(c)
    /\ \E n \in Sequence :
          /\ IsNextSequence(c, n)
          /\ turn' = [turn EXCEPT ![<<c, n>>] =
                         [AbsentTurn EXCEPT !.status = "queued", !.key = k]]
          /\ admission' = [admission EXCEPT ![<<c, n>>] = "open"]
    /\ UNCHANGED <<convVars, claims, traceVars, updates, loop, faults>>

-----------------------------------------------------------------------------
(* Fencing and settlement                                                   *)

LeaseOver(t) == turn[t].leaseLeft = 0 \/ turn[t].deadlineLeft = 0

HeldUnder(t, token) == turn[t].status = "processing" /\ turn[t].token = token

\* Mutant of Owns: the token is compared, its expiry is not.
OwnsForever(t, token) == HeldUnder(t, token)

Owns(t, token) == HeldUnder(t, token) /\ ~LeaseOver(t)

StageOf(status) ==
    CASE status = "answered" -> "final_validated"
      [] status = "refused" -> "refusal"
      [] OTHER -> "failure"

\* A terminal turn has no token and no lease, and its Workspace Admission is closed.
Settle(t, status) ==
    /\ turn' = [turn EXCEPT ![t] = [AbsentTurn EXCEPT !.status = status,
                                       !.key = turn[t].key, !.stage = StageOf(status)]]
    /\ admission' = [admission EXCEPT ![t] = "closed"]

-----------------------------------------------------------------------------
(* Recovery of expired turns: observe, read the durable result, apply        *)

Change(l, fields) == loop' = [loop EXCEPT ![l] = fields]

\* Mutant of Expired: every turn in processing counts as expired.
InProcessing == {<<t, turn[t].token>> : t \in {u \in Turns : turn[u].status = "processing"}}

Expired ==
    {<<t, turn[t].token>> : t \in {u \in Turns : turn[u].status = "processing" /\ LeaseOver(u)}}

ObserveRows(l, rows) ==
    /\ loop[l].phase = "observing"
    /\ Change(l, [loop[l] EXCEPT !.phase = "recovering", !.observed = rows])
    /\ UNCHANGED <<convVars, durableVars, traceVars, updates, faults>>

\* expired_turns skips the rows that are locked.  Its limit of 100 rows is never reached.
Observe(l) == \E rows \in SUBSET Expired : ObserveRows(l, rows)

\* read_conversation_result: a trace that no longer matches what is served is not used.
DurableResult(t) == IF trace[t] \in Valid /\ t \notin withdrawn THEN trace[t] ELSE None

ReadResult(l) ==
    /\ loop[l].phase = "recovering" /\ loop[l].reading = None
    /\ \E o \in loop[l].observed :
          Change(l, [loop[l] EXCEPT !.reading = o, !.found = DurableResult(o[1])])
    /\ UNCHANGED <<convVars, durableVars, traceVars, updates, faults>>

StatusOf(result) ==
    CASE result = "answer" -> "answered"
      [] result = "refusal" -> "refused"
      [] result = "error" -> "failed"
      [] OTHER -> "interrupted"

\* Mutant of ApplyRecovery: a loop settles no turn but its own.
ApplyRecoveryOfOwn(l) ==
    /\ loop[l].reading # None
    /\ LET t == loop[l].reading[1] IN
          IF t = loop[l].turn /\ HeldUnder(t, loop[l].reading[2]) /\ LeaseOver(t)
          THEN Settle(t, StatusOf(loop[l].found))
          ELSE UNCHANGED <<turn, admission>>
    /\ Change(l, [loop[l] EXCEPT !.observed = @ \ {loop[l].reading}, !.reading = None,
                                 !.found = None])
    /\ UNCHANGED <<convVars, claims, traceVars, updates, faults>>

\* apply_expired_turn_recovery.  The observed lease had expired, and no expired lease
\* changes under its token: comparing the observed times adds nothing to the expiry.
ApplyRecovery(l) ==
    /\ loop[l].reading # None
    /\ LET t == loop[l].reading[1] IN
          IF HeldUnder(t, loop[l].reading[2]) /\ LeaseOver(t)
          THEN Settle(t, StatusOf(loop[l].found))
          ELSE UNCHANGED <<turn, admission>>
    /\ Change(l, [loop[l] EXCEPT !.observed = @ \ {loop[l].reading}, !.reading = None,
                                 !.found = None])
    /\ UNCHANGED <<convVars, claims, traceVars, updates, faults>>

RecoveryEnds(l) ==
    /\ loop[l].phase = "recovering" /\ loop[l].observed = {}
    /\ Change(l, [loop[l] EXCEPT !.phase =
                     CASE loop[l].purpose = "fresh" -> "claiming"
                       [] loop[l].purpose = "unheard" -> "draining"
                       [] loop[l].purpose = "overdue" -> "polling"])
    /\ UNCHANGED <<convVars, durableVars, traceVars, updates, faults>>

-----------------------------------------------------------------------------
(* One turn of a loop                                                       *)

\* Mutant of Claimable: a turn whose lease is over may be claimed again.
ClaimableAgain(t) ==
    \/ turn[t].status = "queued"
    \/ turn[t].status = "processing" /\ LeaseOver(t)

Claimable(t) == turn[t].status = "queued"

LeaseUntil(t) == IF Lease <= Deadline THEN Lease ELSE Deadline

\* Any queued turn: an older one may be locked, and is then skipped.
ClaimTurn(l) ==
    /\ loop[l].phase = "claiming"
    /\ \E t \in Turns :
          /\ Claimable(t) /\ admission[t] = "open"
          /\ claims' = [claims EXCEPT ![t] = @ + 1]
          /\ turn' = [turn EXCEPT ![t].status = "processing", ![t].token = claims'[t],
                         ![t].leaseLeft = LeaseUntil(t), ![t].deadlineLeft = Deadline]
          /\ Change(l, [FreshLoop EXCEPT !.phase = "preparing", !.turn = t,
                                         !.token = claims'[t]])
    /\ UNCHANGED <<convVars, admission, traceVars, updates, faults>>

NothingToClaim(l) ==
    /\ loop[l].phase = "claiming"
    /\ \A t \in Turns : ~Claimable(t)
    /\ Change(l, FreshLoop)
    /\ UNCHANGED <<convVars, durableVars, traceVars, updates, faults>>

\* The history is read and the context built; an exception fails the turn.
ContextFails(l) ==
    /\ loop[l].phase = "preparing"
    /\ Change(l, [loop[l] EXCEPT !.phase = "finishing", !.answer = "error"])
    /\ UNCHANGED <<convVars, durableVars, traceVars, updates, faults>>

\* The answer and the heartbeat become tasks of the event loop.
StartAnswer(l) ==
    /\ loop[l].phase = "preparing"
    /\ Change(l, [loop[l] EXCEPT !.phase = "executing", !.answer = "running",
                                 !.heartbeat = "beating", !.timer = Deadline])
    /\ UNCHANGED <<convVars, durableVars, traceVars, updates, faults>>

Own(l) == <<loop[l].turn, loop[l].token>>

\* Both done at once: the answer is looked at first, and the heartbeat task is cancelled.
SeeAnswer(l) ==
    /\ loop[l].phase = "executing" /\ loop[l].answer # "running"
    /\ loop[l].heartbeat # "raised"
    /\ Change(l, [loop[l] EXCEPT !.phase = "finishing", !.heartbeat = "none"])
    /\ UNCHANGED <<convVars, durableVars, traceVars, updates, faults>>

SeeHeartbeatEnd(l) ==
    /\ loop[l].phase = "executing" /\ loop[l].answer = "running"
    /\ loop[l].heartbeat # "beating"
    /\ Change(l, [loop[l] EXCEPT !.phase = "observing", !.purpose = "unheard"])
    /\ UNCHANGED <<convVars, durableVars, traceVars, updates, faults>>

SeeDeadline(l) ==
    /\ loop[l].phase = "executing" /\ loop[l].answer = "running"
    /\ loop[l].heartbeat = "beating" /\ loop[l].timer = 0
    /\ Change(l, [loop[l] EXCEPT !.phase = "observing", !.purpose = "overdue"])
    /\ UNCHANGED <<convVars, durableVars, traceVars, updates, faults>>

\* finish_turn, once the stage updates of the turn are over.  A lost lease makes it
\* answer False, and the result is dropped.
FinishTurn(l) ==
    /\ loop[l].phase = "finishing" /\ Own(l) \notin updates
    /\ IF Owns(loop[l].turn, loop[l].token)
       THEN Settle(loop[l].turn, StatusOf(loop[l].answer))
       ELSE UNCHANGED <<turn, admission>>
    /\ Change(l, FreshLoop)
    /\ UNCHANGED <<convVars, claims, traceVars, updates, faults>>

\* _wait_until_terminal: look at the turn, and recover again while it is in processing.
PollTurn(l) ==
    /\ loop[l].phase = "polling"
    /\ Change(l, [loop[l] EXCEPT !.phase =
          IF turn[loop[l].turn].status = "processing" THEN "observing" ELSE "draining"])
    /\ UNCHANGED <<convVars, durableVars, traceVars, updates, faults>>

\* The late answer is awaited, and dropped whatever it is.
Drained(l) ==
    /\ loop[l].phase = "draining" /\ loop[l].answer # "running" /\ Own(l) \notin updates
    /\ loop[l].purpose = "overdue" => loop[l].heartbeat # "raised"
    /\ Change(l, FreshLoop)
    /\ UNCHANGED <<convVars, durableVars, traceVars, updates, faults>>

-----------------------------------------------------------------------------
(* The tasks beside a loop                                                  *)

\* The renewed lease ends with the execution deadline.
Extended(t) == IF Lease <= turn[t].deadlineLeft THEN Lease ELSE turn[t].deadlineLeft

\* heartbeat_turn; answering False ends the task.
Heartbeat(l) ==
    /\ loop[l].heartbeat = "beating"
    /\ LET t == loop[l].turn IN
          IF Owns(t, loop[l].token)
          THEN turn' = [turn EXCEPT ![t].leaseLeft = Extended(t)] /\ UNCHANGED loop
          ELSE Change(l, [loop[l] EXCEPT !.heartbeat = "lost"]) /\ UNCHANGED turn
    /\ UNCHANGED <<convVars, claims, admission, traceVars, updates, faults>>

\* A database error ends the task too, though the lease may be live.
HeartbeatRaises(l) ==
    /\ loop[l].heartbeat = "beating" /\ faults < MaxFaults
    /\ faults' = faults + 1
    /\ Change(l, [loop[l] EXCEPT !.heartbeat = "raised"])
    /\ UNCHANGED <<convVars, durableVars, traceVars, updates>>

\* The trace is inserted, unless the turn has one.
Persist(l, left) ==
    LET t == loop[l].turn IN
    /\ trace' = [trace EXCEPT ![t] = IF @ = "none" THEN left ELSE @]
    /\ timely' = IF trace[t] = "none" /\ left \in Valid /\ Owns(t, loop[l].token)
                 THEN timely \cup {t} ELSE timely

\* The trace is inserted and execute returns its result.
AnswerReturns(l) ==
    /\ loop[l].answer = "running"
    /\ \E decision \in Valid :
          Persist(l, decision) /\ Change(l, [loop[l] EXCEPT !.answer = decision])
    /\ UNCHANGED <<convVars, durableVars, withdrawn, updates, faults>>

\* An error leaves no trace, an invalid one, or a valid one: the acknowledgement of its
\* commit is lost, or the last check of what is served raises, because the database
\* fails or because the trace does not match any more.
AnswerRaises(l) ==
    /\ loop[l].answer = "running"
    /\ \E left \in {"none", "invalid"} \cup Valid :
          /\ Persist(l, left)
          /\ \/ UNCHANGED withdrawn
             \/ left \in Valid /\ withdrawn' = withdrawn \cup {loop[l].turn}
    /\ Change(l, [loop[l] EXCEPT !.answer = "error"])
    /\ UNCHANGED <<convVars, durableVars, updates, faults>>

\* The served population of the Workspace changes, or a cited chunk is deleted.  Nothing
\* reads the trace of a settled turn.
Withdraw(t) ==
    /\ trace[t] \in Valid /\ turn[t].status = "processing"
    /\ withdrawn' = withdrawn \cup {t}
    /\ UNCHANGED <<convVars, durableVars, trace, timely, updates, loop, faults>>

\* stage_callback starts a thread of its own for every stage.
ReportStage(l) ==
    /\ loop[l].answer = "running"
    /\ updates' = updates \cup {Own(l)}
    /\ UNCHANGED <<convVars, durableVars, traceVars, loop, faults>>

\* set_turn_stage; its exceptions are suppressed.
StageLands(u) ==
    /\ u \in updates /\ updates' = updates \ {u}
    /\ \/ Owns(u[1], u[2]) /\ turn' = [turn EXCEPT ![u[1]].stage = "working"]
       \/ UNCHANGED turn
    /\ UNCHANGED <<convVars, claims, admission, traceVars, loop, faults>>

\* A killed process, or an exception that leaves a loop and with it the task group: a
\* failed claim, recovery or finish.  The new process begins at run_once.
Fall(p) == loop' = [l \in Loops |-> IF ProcessOf[l] = p THEN FreshLoop ELSE loop[l]]

ProcessFalls(p) ==
    /\ faults < MaxFaults
    /\ faults' = faults + 1
    /\ Fall(p)
    /\ UNCHANGED <<convVars, durableVars, traceVars, updates>>

\* Where the heartbeat task is cancelled it is awaited, and only the cancellation is
\* suppressed: the error of a heartbeat leaves the loop.
HeartbeatErrorEscapes(l) ==
    /\ loop[l].heartbeat = "raised" /\ loop[l].answer # "running"
    /\ \/ loop[l].phase = "executing"
       \/ loop[l].phase = "draining" /\ loop[l].purpose = "overdue" /\ Own(l) \notin updates
    /\ Fall(ProcessOf[l])
    /\ UNCHANGED <<convVars, durableVars, traceVars, updates, faults>>

Less(n) == IF n = 0 THEN 0 ELSE n - 1

Tick ==
    /\ turn' = [t \in Turns |-> [turn[t] EXCEPT !.leaseLeft = Less(@),
                                                !.deadlineLeft = Less(@)]]
    /\ loop' = [l \in Loops |-> [loop[l] EXCEPT !.timer = Less(@)]]
    /\ UNCHANGED <<convVars, claims, admission, traceVars, updates, faults>>

-----------------------------------------------------------------------------

LoopStep(l) ==
    \/ Observe(l) \/ ReadResult(l) \/ ApplyRecovery(l) \/ RecoveryEnds(l)
    \/ ClaimTurn(l) \/ NothingToClaim(l) \/ ContextFails(l) \/ StartAnswer(l)
    \/ SeeAnswer(l) \/ SeeHeartbeatEnd(l) \/ SeeDeadline(l)
    \/ FinishTurn(l) \/ PollTurn(l) \/ Drained(l)
    \/ HeartbeatErrorEscapes(l)

AnswerEnds(l) == AnswerReturns(l) \/ AnswerRaises(l)

Client ==
    \/ ArchiveWorkspace
    \/ \E c \in Conversations :
          CreateConversation(c) \/ ArchiveConversation(c) \/ \E k \in Keys : SubmitTurn(c, k)

Next ==
    \/ Client
    \/ \E l \in Loops :
          LoopStep(l) \/ AnswerEnds(l) \/ Heartbeat(l) \/ HeartbeatRaises(l) \/ ReportStage(l)
    \/ \E u \in updates : StageLands(u)
    \/ \E t \in Turns : Withdraw(t)
    \/ \E p \in Processes : ProcessFalls(p)
    \/ Tick

Spec == Init /\ [][Next]_vars

\* The tasks are scheduled, the database answers and time passes.  A row is locked for
\* a few statements: not every look for expired turns finds it locked.  An answer comes
\* to an end because execute runs under asyncio.timeout(90), and so do its stage updates.
Fairness ==
    /\ \A l \in Loops :
          /\ WF_vars(LoopStep(l)) /\ WF_vars(AnswerEnds(l))
          /\ SF_vars(ObserveRows(l, Expired))
    /\ WF_vars(\E u \in updates : StageLands(u))
    /\ WF_vars(Tick)

FairSpec == Spec /\ Fairness

-----------------------------------------------------------------------------
(* Properties                                                               *)

\* A turn has an open Workspace Admission exactly while it is queued or in processing,
\* whoever settles it (finish_turn, apply_expired_turn_recovery).
AdmissionFollowsTurn ==
    \A t \in Turns : admission[t] =
        IF turn[t].status \in Active THEN "open"
        ELSE IF turn[t].status = "absent" THEN "none" ELSE "closed"

\* A question goes to the providers at most once: a turn is claimed once, and no other
\* loop works on it, whatever crashes and recoveries come between (there is no way back
\* to queued; claim_next_turn, apply_expired_turn_recovery).
ExecutedOnce ==
    /\ \A t \in Turns : claims[t] <= 1
    /\ \A l, m \in Loops : loop[l].turn # None /\ loop[l].turn = loop[m].turn => l = m

\* What the reader is shown is what the Question Trace records: an answered turn has a
\* durable answer, a refused one a durable refusal (finish_turn takes the result from
\* execute, the recovery takes it from the trace).
OutcomeHasTrace ==
    \A t \in Turns :
        /\ turn[t].status = "answered" => trace[t] = "answer"
        /\ turn[t].status = "refused" => trace[t] = "refusal"

\* A result that was durable before the lease ran out, and that still matches what is
\* served, is what its turn ends with, whatever dies or is late
\* (_recover_expired_turns reads only after the expiry was observed).  Only the loop
\* whose own execution raised behind the durable trace may fail the turn, and only
\* while its lease is live (_finalize_answer): a recovery never does.
DurableAnswerKept ==
    [][\A t \in timely \ withdrawn :
         turn[t].status = "processing" /\ turn'[t].status # "processing" =>
           \/ turn'[t].status = StatusOf(trace[t])
           \/ /\ turn'[t].status = "failed" /\ ~LeaseOver(t)
              /\ \E l \in Loops :
                   /\ loop[l].phase = "finishing" /\ Own(l) = <<t, turn[t].token>>
                   /\ loop[l].answer = "error"]_vars

\* The stage of a turn tells its outcome once it has one: no stage update that was
\* under way lands on a settled turn (set_turn_stage).
StageTellsOutcome ==
    \A t \in Turns : turn[t].status \in Outcomes => turn[t].stage = StageOf(turn[t].status)

\* A turn whose lease is live is settled only by the loop that claimed it, and one whose
\* lease is over only by a recovery that observed it: no late result gets through
\* (finish_turn and apply_expired_turn_recovery compare token and times).
SettlementFenced ==
    [][\A t \in Turns : turn[t].status = "processing" /\ turn'[t].status # "processing" =>
          IF LeaseOver(t)
          THEN \E l \in Loops : loop[l].reading = <<t, turn[t].token>>
          ELSE \E l \in Loops : loop[l].phase = "finishing" /\ Own(l) = <<t, turn[t].token>>]_vars

\* Every question that was admitted is settled, although processes die, heartbeats fail
\* and Workspace and conversation are archived meanwhile.
EveryTurnSettles ==
    \A t \in Turns : (turn[t].status \in Active) ~> (turn[t].status \in Outcomes)

\* The public life of the turns of every conversation (ConversationLog).
LogOf(c) == [n \in 1..Cardinality(Asked(c)) |-> turn[<<c, n>>].status]
LogBar == [c \in Conversations |-> LogOf(c)]
Log == INSTANCE ConversationLog WITH log <- LogBar
ImplementsLog == Log!LogSpec
=============================================================================
