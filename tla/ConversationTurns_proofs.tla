---------------------- MODULE ConversationTurns_proofs ----------------------
(***************************************************************************)
(* Proofs about ConversationTurns for any number of loops, processes,      *)
(* conversations, keys and faults.                                         *)
(*                                                                         *)
(* What the properties need beside the types: a turn is claimed once, so   *)
(* every token is 1 and a loop that holds a turn is alone with it; a turn  *)
(* that was observed as expired stays expired or settled; and what a loop  *)
(* holds as its answer, or read in a recovery, is what the trace says.     *)
(***************************************************************************)
EXTENDS ConversationTurns, FiniteSetTheorems, TLAPS

\* The lease of a claimed turn has run out, or the turn is settled: for good.
Spent(t) == claims[t] = 1 /\ (turn[t].status # "processing" \/ LeaseOver(t))

\* A recovery that found nothing loses nothing.
Hopeless(t) == turn[t].status # "processing" \/ t \notin timely \ withdrawn

TurnOK(t) ==
    /\ claims[t] = IF turn[t].status \in {"absent", "queued"} THEN 0 ELSE 1
    /\ turn[t].status = "processing" => turn[t].token = 1
    /\ claims[t] = 0 => trace[t] = "none"
    /\ t \in timely => trace[t] \in Valid

\* r is the state of a loop.
TurnHeld(r) ==
    /\ r.turn # None => r.token = 1 /\ claims[r.turn] = 1
    /\ r.phase \in {"preparing", "executing", "finishing", "polling", "draining"}
          => r.turn # None
    /\ r.purpose # "fresh" => r.turn # None
    /\ r.heartbeat = "beating" => r.turn # None

AnswerHeld(r) ==
    /\ r.answer # None => r.turn # None
    /\ r.phase = "preparing" \/ r.answer = "running" => trace[r.turn] = "none"
    /\ r.answer \in Valid => trace[r.turn] = r.answer
    /\ r.phase = "preparing" => r.answer = None
    /\ r.phase = "executing" => r.answer # None
    /\ r.phase = "finishing" => r.answer \in Results

RecoveryHeld(r) ==
    /\ \A o \in r.observed : o[2] = 1 /\ Spent(o[1])
    /\ r.reading # None => r.reading \in r.observed /\ r.phase = "recovering"
    /\ r.found # None => r.reading # None /\ trace[r.reading[1]] = r.found
    /\ r.reading # None /\ r.found = None => Hopeless(r.reading[1])

LoopOK(r) == TurnHeld(r) /\ AnswerHeld(r) /\ RecoveryHeld(r)

Exclusive ==
    \A l, m \in Loops : loop[l].turn # None /\ loop[l].turn = loop[m].turn => l = m

Promises == AdmissionFollowsTurn /\ OutcomeHasTrace /\ StageTellsOutcome

Inv ==
    /\ TypeOK
    /\ \A t \in Turns : TurnOK(t)
    /\ \A l \in Loops : LoopOK(loop[l])
    /\ Exclusive
    /\ Promises

-----------------------------------------------------------------------------
(* Frames                                                                   *)

\* Steps that change neither the turns nor what the loops know of them.
LEMMA NothingRelevant ==
    ASSUME Inv, UNCHANGED <<turn, claims, admission, trace, timely, withdrawn, loop>>,
           workspaceArchived' \in BOOLEAN,
           conversation' \in [Conversations -> {"absent", "open", "archived"}],
           updates' \in SUBSET Observations, faults' \in 0..MaxFaults
    PROVE  Inv'
<1>1. TypeOK'
  BY DEF Inv, TypeOK
<1>2. \A t \in Turns : TurnOK(t)'
  BY DEF Inv, TurnOK
<1>3. \A l \in Loops : LoopOK(loop[l])'
  BY DEF Inv, LoopOK, TurnHeld, AnswerHeld, RecoveryHeld, Spent, Hopeless, LeaseOver
<1>4. Exclusive' /\ Promises'
  BY DEF Inv, Exclusive, Promises, AdmissionFollowsTurn, OutcomeHasTrace, StageTellsOutcome
<1> QED BY <1>1, <1>2, <1>3, <1>4 DEF Inv

\* Steps of one loop that touch no row.
LEMMA OneLoop ==
    ASSUME Inv, NEW l \in Loops, NEW r \in LoopState, Change(l, r),
           UNCHANGED <<convVars, durableVars, traceVars, updates>>,
           faults' \in 0..MaxFaults,
           r.turn = None \/ r.turn = loop[l].turn,
           LoopOK(r)
    PROVE  Inv'
<1>0. loop' = [loop EXCEPT ![l] = r] /\ loop \in [Loops -> LoopState]
  BY DEF Change, Inv, TypeOK
<1>a. UNCHANGED <<workspaceArchived, conversation, turn, claims, admission, trace, withdrawn,
                  timely, updates>>
  BY DEF convVars, durableVars, traceVars
<1>1. TypeOK'
  BY <1>0, <1>a DEF Inv, TypeOK
<1>2. \A t \in Turns : TurnOK(t)'
  BY <1>a DEF Inv, TurnOK
<1>3. ASSUME NEW m \in Loops PROVE LoopOK(loop[m])'
  <2>1. LoopOK(loop'[m])
    BY <1>0 DEF Inv
  <2> QED BY <2>1, <1>a
             DEF LoopOK, TurnHeld, AnswerHeld, RecoveryHeld, Spent, Hopeless, LeaseOver
<1>4. Exclusive'
  BY <1>0 DEF Inv, Exclusive
<1>5. Promises'
  BY <1>a DEF Inv, Promises, AdmissionFollowsTurn, OutcomeHasTrace, StageTellsOutcome
<1> QED BY <1>1, <1>2, <1>3, <1>4, <1>5 DEF Inv

\* What other loops know of the rows survives a step that claims no turn twice, revives
\* no lease, makes nothing durable behind an expired lease, and keeps the traces.
Steady(t) ==
    /\ claims[t] = 1 => claims'[t] = 1
    /\ Spent(t) => Spent(t)'
    /\ Spent(t) /\ Hopeless(t) => Hopeless(t)'
    /\ trace[t] # "none" => trace'[t] = trace[t]

LEMMA OtherLoops ==
    ASSUME Inv, NEW r \in LoopState, LoopOK(r), \A t \in Turns : Steady(t),
           r.turn # None => trace'[r.turn] = trace[r.turn]
    PROVE  LoopOK(r)'
<1>0. /\ r.turn # None => r.turn \in Turns
      /\ r.reading # None => r.reading \in Observations /\ r.reading[1] \in Turns
      /\ \A o \in r.observed : o[1] \in Turns
      /\ r.found # None => r.found \in Valid
  BY DEF LoopState, Observations
<1>1. TurnHeld(r)'
  BY <1>0 DEF LoopOK, TurnHeld, Steady
<1>2. AnswerHeld(r)'
  <2>1. AnswerHeld(r) /\ TurnHeld(r)
    BY DEF LoopOK
  <2>2. r.phase = "preparing" => r.turn # None
    BY <2>1 DEF TurnHeld
  <2>3. /\ r.answer = "running" => r.answer # None
        /\ r.answer \in Valid => r.answer # None
    BY NothingAssumption DEF Results
  <2> QED BY <2>1, <2>2, <2>3 DEF AnswerHeld
<1>3. RecoveryHeld(r)'
  <2>1. RecoveryHeld(r)
    BY DEF LoopOK
  <2>2. \A o \in r.observed : o[2] = 1 /\ Spent(o[1])'
    BY <2>1, <1>0 DEF RecoveryHeld, Steady
  <2>3. ASSUME r.found # None PROVE trace'[r.reading[1]] = r.found
    BY <2>1, <2>3, <1>0 DEF RecoveryHeld, Steady, Valid
  <2>4. ASSUME r.reading # None, r.found = None PROVE Hopeless(r.reading[1])'
    BY <2>1, <2>4, <1>0 DEF RecoveryHeld, Steady
  <2> QED BY <2>1, <2>2, <2>3, <2>4 DEF RecoveryHeld
<1> QED BY <1>1, <1>2, <1>3 DEF LoopOK

-----------------------------------------------------------------------------
(* Steps of one loop that touch no row                                      *)

LEMMA Initially == Init => Inv
<1> SUFFICES ASSUME Init PROVE Inv
  OBVIOUS
<1>1. FreshLoop \in LoopState
  BY TimingAssumption DEF FreshLoop, LoopState, Phases
<1>2. AbsentTurn \in TurnRow
  BY TimingAssumption DEF AbsentTurn, TurnRow
<1>3. TypeOK
  <2>1. workspaceArchived \in BOOLEAN
    BY Zenon DEF Init
  <2> QED BY <1>1, <1>2, <2>1, FaultAssumption DEF Init, TypeOK
<1>4. \A t \in Turns : TurnOK(t)
  BY DEF Init, TurnOK, AbsentTurn
<1>5. LoopOK(FreshLoop)
  BY NothingAssumption DEF LoopOK, TurnHeld, AnswerHeld, RecoveryHeld, FreshLoop, Results, Valid
<1>6. Exclusive
  BY DEF Init, Exclusive, FreshLoop
<1>7. Promises
  BY DEF Init, Promises, AdmissionFollowsTurn, OutcomeHasTrace, StageTellsOutcome,
         AbsentTurn, Active, Outcomes
<1> QED BY <1>3, <1>4, <1>5, <1>6, <1>7 DEF Inv, Init

LEMMA FreshOK == FreshLoop \in LoopState /\ LoopOK(FreshLoop) /\ FreshLoop.turn = None
<1>1. FreshLoop \in LoopState
  BY TimingAssumption DEF FreshLoop, LoopState, Phases
<1>2. LoopOK(FreshLoop)
  BY NothingAssumption DEF LoopOK, TurnHeld, AnswerHeld, RecoveryHeld, FreshLoop, Results, Valid
<1> QED BY <1>1, <1>2 DEF FreshLoop

LEMMA ObserveStep == ASSUME Inv, NEW l \in Loops, Observe(l) PROVE Inv'
<1>0. PICK seen \in SUBSET Expired : ObserveRows(l, seen)
  BY DEF Observe
<1> DEFINE r == [loop[l] EXCEPT !.phase = "recovering", !.observed = seen]
<1>1. loop[l] \in LoopState /\ LoopOK(loop[l])
  BY DEF Inv, TypeOK
<1>2. seen \in SUBSET Observations
  BY <1>0 DEF Expired, Inv, TypeOK, TurnRow, Observations
<1>3. \A o \in seen : o[2] = 1 /\ Spent(o[1])
  BY <1>0 DEF Expired, Inv, TurnOK, Spent
<1>4. r \in LoopState
  BY <1>1, <1>2 DEF LoopState, Phases
<1>5. loop[l].phase = "observing" /\ loop[l].reading = None
  BY <1>0, <1>1 DEF ObserveRows, LoopOK, RecoveryHeld
<1>6. LoopOK(r)
  <2>1. r.found = None
    BY <1>1, <1>5 DEF LoopOK, RecoveryHeld, LoopState
  <2>2. TurnHeld(r)
    BY <1>1 DEF LoopOK, TurnHeld, LoopState
  <2>3. AnswerHeld(r)
    BY <1>1 DEF LoopOK, AnswerHeld, LoopState
  <2>4. RecoveryHeld(r)
    BY <1>1, <1>3, <1>5, <2>1 DEF RecoveryHeld, LoopState
  <2> QED BY <2>2, <2>3, <2>4 DEF LoopOK
<1>7. r.turn = loop[l].turn
  BY <1>1 DEF LoopState
<1>8. /\ Change(l, r) /\ faults' \in 0..MaxFaults
      /\ UNCHANGED <<convVars, durableVars, traceVars, updates>>
  BY <1>0 DEF ObserveRows, Inv, TypeOK
<1> HIDE DEF r
<1> QED BY <1>4, <1>6, <1>7, <1>8, OneLoop

LEMMA ReadStep == ASSUME Inv, NEW l \in Loops, ReadResult(l) PROVE Inv'
<1>1. loop[l] \in LoopState /\ LoopOK(loop[l])
  BY DEF Inv, TypeOK
<1>2. PICK o \in loop[l].observed :
        Change(l, [loop[l] EXCEPT !.reading = o, !.found = DurableResult(o[1])])
  BY DEF ReadResult
<1> DEFINE r == [loop[l] EXCEPT !.reading = o, !.found = DurableResult(o[1])]
<1>3. o \in Observations /\ o[1] \in Turns /\ o # None
  BY <1>1, NothingAssumption DEF LoopState, Observations
<1>4. DurableResult(o[1]) \in Valid \cup {None}
  BY DEF DurableResult
<1>5. r \in LoopState
  BY <1>1, <1>3, <1>4 DEF LoopState
<1>6. TurnHeld(r) /\ AnswerHeld(r)
  BY <1>1 DEF LoopOK, TurnHeld, AnswerHeld, LoopState
<1>7. RecoveryHeld(r)
  <2>1. loop[l].phase = "recovering" /\ RecoveryHeld(loop[l])
    BY <1>1 DEF ReadResult, LoopOK
  <2>2. DurableResult(o[1]) # None => trace[o[1]] = DurableResult(o[1])
    BY DEF DurableResult
  <2>3. DurableResult(o[1]) = None => o[1] \notin timely \ withdrawn
    BY <1>3, NothingAssumption DEF DurableResult, Inv, TurnOK, Results
  <2> QED BY <1>1, <1>2, <1>3, <2>1, <2>2, <2>3 DEF RecoveryHeld, Hopeless, LoopState
<1>8. r.turn = loop[l].turn
  BY <1>1 DEF LoopState
<1>9. /\ Change(l, r) /\ faults' \in 0..MaxFaults
      /\ UNCHANGED <<convVars, durableVars, traceVars, updates>>
  BY <1>2 DEF ReadResult, Inv, TypeOK
<1> HIDE DEF r
<1> QED BY <1>5, <1>6, <1>7, <1>8, <1>9, OneLoop DEF LoopOK

\* Steps that move a loop on with the turn, the answer and the recovery it has.
LEMMA MovingSteps ==
    ASSUME Inv, NEW l \in Loops,
           \/ RecoveryEnds(l) \/ NothingToClaim(l) \/ ContextFails(l) \/ StartAnswer(l)
           \/ SeeAnswer(l) \/ SeeHeartbeatEnd(l) \/ SeeDeadline(l) \/ PollTurn(l)
           \/ Drained(l) \/ HeartbeatRaises(l)
    PROVE  Inv'
<1>1. loop[l] \in LoopState /\ TurnHeld(loop[l]) /\ AnswerHeld(loop[l]) /\ RecoveryHeld(loop[l])
  BY DEF Inv, TypeOK, LoopOK
<1>2. /\ UNCHANGED <<convVars, durableVars, traceVars, updates>>
      /\ faults' \in 0..MaxFaults
  BY FaultAssumption DEF RecoveryEnds, NothingToClaim, ContextFails, StartAnswer, SeeAnswer,
     SeeHeartbeatEnd, SeeDeadline, PollTurn, Drained, HeartbeatRaises, Inv, TypeOK
<1>3. CASE NothingToClaim(l) \/ Drained(l)
  BY <1>2, <1>3, FreshOK, OneLoop DEF NothingToClaim, Drained
<1>4. CASE RecoveryEnds(l)
  <2>1. PICK p \in {"claiming", "draining", "polling"} :
          /\ Change(l, [loop[l] EXCEPT !.phase = p])
          /\ p # "claiming" => loop[l].turn # None
    BY <1>1, <1>4 DEF RecoveryEnds, LoopState, TurnHeld
  <2> DEFINE r == [loop[l] EXCEPT !.phase = p]
  <2>2. loop[l].observed = {} /\ loop[l].phase = "recovering"
    BY <1>4 DEF RecoveryEnds
  <2>3. r \in LoopState /\ r.turn = loop[l].turn
    BY <1>1 DEF LoopState, Phases
  <2>4. TurnHeld(r)
    BY <1>1, <2>1 DEF TurnHeld, LoopState
  <2>5. AnswerHeld(r)
    BY <1>1 DEF AnswerHeld, LoopState
  <2>6. RecoveryHeld(r)
    BY <1>1, <2>2 DEF RecoveryHeld, LoopState
  <2> HIDE DEF r
  <2> QED BY <1>2, <2>1, <2>3, <2>4, <2>5, <2>6, OneLoop DEF LoopOK, r
<1>5. CASE ContextFails(l)
  <2> DEFINE r == [loop[l] EXCEPT !.phase = "finishing", !.answer = "error"]
  <2>1. loop[l].phase = "preparing" /\ Change(l, r)
    BY <1>5 DEF ContextFails
  <2>2. r \in LoopState /\ r.turn = loop[l].turn
    BY <1>1 DEF LoopState, Phases, Results
  <2>3. loop[l].turn # None /\ trace[loop[l].turn] = "none" /\ loop[l].turn \in Turns
    BY <1>1, <2>1 DEF TurnHeld, AnswerHeld, LoopState
  <2>4. TurnHeld(r)
    BY <1>1, <2>3 DEF TurnHeld, LoopState
  <2>5. AnswerHeld(r)
    BY <1>1, <2>3, NothingAssumption DEF AnswerHeld, LoopState, Results, Valid
  <2>6. RecoveryHeld(r)
    BY <1>1, <2>1 DEF RecoveryHeld, LoopState
  <2> HIDE DEF r
  <2> QED BY <1>2, <2>1, <2>2, <2>4, <2>5, <2>6, OneLoop DEF LoopOK
<1>6. CASE StartAnswer(l)
  <2> DEFINE r == [loop[l] EXCEPT !.phase = "executing", !.answer = "running",
                                  !.heartbeat = "beating", !.timer = Deadline]
  <2>1. loop[l].phase = "preparing" /\ Change(l, r)
    BY <1>6 DEF StartAnswer
  <2>0. Deadline \in 0..Deadline
    BY TimingAssumption
  <2>2. r \in LoopState /\ r.turn = loop[l].turn
    BY <1>1, <2>0 DEF LoopState, Phases
  <2>3. loop[l].turn # None /\ trace[loop[l].turn] = "none" /\ loop[l].turn \in Turns
    BY <1>1, <2>1 DEF TurnHeld, AnswerHeld, LoopState
  <2>4. TurnHeld(r)
    BY <1>1, <2>3 DEF TurnHeld, LoopState
  <2>5. AnswerHeld(r)
    BY <1>1, <2>3, NothingAssumption DEF AnswerHeld, LoopState, Valid
  <2>6. RecoveryHeld(r)
    BY <1>1, <2>1 DEF RecoveryHeld, LoopState
  <2> HIDE DEF r
  <2> QED BY <1>2, <2>1, <2>2, <2>4, <2>5, <2>6, OneLoop DEF LoopOK
<1>7. CASE SeeAnswer(l)
  <2> DEFINE r == [loop[l] EXCEPT !.phase = "finishing", !.heartbeat = "none"]
  <2>1. loop[l].phase = "executing" /\ loop[l].answer # "running" /\ Change(l, r)
    BY <1>7 DEF SeeAnswer
  <2>2. r \in LoopState /\ r.turn = loop[l].turn
    BY <1>1 DEF LoopState, Phases
  <2>3. TurnHeld(r)
    BY <1>1, <2>1 DEF TurnHeld, LoopState
  <2>4. loop[l].answer \in Results
    BY <1>1, <2>1 DEF LoopState, AnswerHeld
  <2>5. AnswerHeld(r)
    BY <1>1, <2>4 DEF AnswerHeld, LoopState
  <2>6. RecoveryHeld(r)
    BY <1>1, <2>1 DEF RecoveryHeld, LoopState
  <2> HIDE DEF r
  <2> QED BY <1>2, <2>1, <2>2, <2>3, <2>5, <2>6, OneLoop DEF LoopOK
<1>8. CASE SeeHeartbeatEnd(l) \/ SeeDeadline(l)
  <2>1. PICK p \in {"unheard", "overdue"} :
          /\ Change(l, [loop[l] EXCEPT !.phase = "observing", !.purpose = p])
          /\ loop[l].phase = "executing"
    BY <1>8 DEF SeeHeartbeatEnd, SeeDeadline
  <2> DEFINE r == [loop[l] EXCEPT !.phase = "observing", !.purpose = p]
  <2>2. r \in LoopState /\ r.turn = loop[l].turn
    BY <1>1 DEF LoopState, Phases
  <2>3. TurnHeld(r)
    BY <1>1, <2>1 DEF TurnHeld, LoopState
  <2>4. AnswerHeld(r)
    BY <1>1 DEF AnswerHeld, LoopState
  <2>5. RecoveryHeld(r)
    BY <1>1, <2>1 DEF RecoveryHeld, LoopState
  <2> HIDE DEF r
  <2> QED BY <1>2, <2>1, <2>2, <2>3, <2>4, <2>5, OneLoop DEF LoopOK, r
<1>9. CASE PollTurn(l)
  <2>1. PICK p \in {"observing", "draining"} :
          Change(l, [loop[l] EXCEPT !.phase = p]) /\ loop[l].phase = "polling"
    BY <1>9 DEF PollTurn
  <2> DEFINE r == [loop[l] EXCEPT !.phase = p]
  <2>2. r \in LoopState /\ r.turn = loop[l].turn
    BY <1>1 DEF LoopState, Phases
  <2>3. TurnHeld(r)
    BY <1>1, <2>1 DEF TurnHeld, LoopState
  <2>4. AnswerHeld(r)
    BY <1>1 DEF AnswerHeld, LoopState
  <2>5. RecoveryHeld(r)
    BY <1>1, <2>1 DEF RecoveryHeld, LoopState
  <2> HIDE DEF r
  <2> QED BY <1>2, <2>1, <2>2, <2>3, <2>4, <2>5, OneLoop DEF LoopOK, r
<1>10. CASE HeartbeatRaises(l)
  <2> DEFINE r == [loop[l] EXCEPT !.heartbeat = "raised"]
  <2>1. r \in LoopState /\ r.turn = loop[l].turn
    BY <1>1 DEF LoopState
  <2>2. TurnHeld(r) /\ AnswerHeld(r) /\ RecoveryHeld(r)
    BY <1>1 DEF TurnHeld, AnswerHeld, RecoveryHeld, LoopState
  <2>3. Change(l, r)
    BY <1>10 DEF HeartbeatRaises
  <2> HIDE DEF r
  <2> QED BY <1>2, <2>1, <2>2, <2>3, OneLoop DEF LoopOK
<1> QED BY <1>3, <1>4, <1>5, <1>6, <1>7, <1>8, <1>9, <1>10

-----------------------------------------------------------------------------
(* Steps that change rows                                                   *)

\* The loops after a step that keeps the traces and changes at most one loop.
LEMMA LoopsKeep ==
    ASSUME Inv, NEW l \in Loops, NEW r \in LoopState, Change(l, r), LoopOK(r),
           r.turn = None \/ r.turn = loop[l].turn,
           UNCHANGED trace, \A t \in Turns : Steady(t)
    PROVE  /\ loop' \in [Loops -> LoopState]
           /\ \A m \in Loops : LoopOK(loop[m])'
           /\ Exclusive'
<1>0. loop' = [loop EXCEPT ![l] = r] /\ loop \in [Loops -> LoopState]
  BY DEF Change, Inv, TypeOK
<1>1. ASSUME NEW m \in Loops PROVE LoopOK(loop[m])'
  <2>1. loop'[m] \in LoopState /\ LoopOK(loop'[m])
    BY <1>0 DEF Inv
  <2>2. PICK q \in LoopState : q = loop'[m] /\ LoopOK(q)
    BY <2>1
  <2>3. LoopOK(q)'
    BY <2>2, OtherLoops
  <2> QED BY <2>2, <2>3 DEF LoopOK, TurnHeld, AnswerHeld, RecoveryHeld, Spent, Hopeless, LeaseOver
<1>2. Exclusive'
  BY <1>0 DEF Inv, Exclusive
<1> QED BY <1>0, <1>1, <1>2

LEMMA SameLoops ==
    ASSUME Inv, UNCHANGED <<loop, trace>>, \A t \in Turns : Steady(t)
    PROVE  /\ loop' \in [Loops -> LoopState]
           /\ \A m \in Loops : LoopOK(loop[m])'
           /\ Exclusive'
<1>1. ASSUME NEW m \in Loops PROVE LoopOK(loop[m])'
  <2>1. PICK q \in LoopState : q = loop[m] /\ LoopOK(q)
    BY DEF Inv, TypeOK
  <2>2. LoopOK(q)'
    BY <2>1, OtherLoops
  <2> QED BY <2>1, <2>2 DEF LoopOK, TurnHeld, AnswerHeld, RecoveryHeld, Spent, Hopeless, LeaseOver
<1> QED BY <1>1 DEF Inv, TypeOK, Exclusive

\* A settlement is right if its status says what the trace says.
LEMMA Settling ==
    ASSUME Inv, NEW t \in Turns, NEW s \in Outcomes, turn[t].status = "processing",
           Settle(t, s), UNCHANGED <<claims, traceVars>>,
           s = "answered" => trace[t] = "answer",
           s = "refused" => trace[t] = "refusal"
    PROVE  /\ turn' \in [Turns -> TurnRow]
           /\ admission' \in [Turns -> {"none", "open", "closed"}]
           /\ \A u \in Turns : TurnOK(u)' /\ Steady(u)
           /\ Promises'
<1> DEFINE row == [AbsentTurn EXCEPT !.status = s, !.key = turn[t].key, !.stage = StageOf(s)]
<1>0. /\ turn' = [turn EXCEPT ![t] = row] /\ admission' = [admission EXCEPT ![t] = "closed"]
      /\ UNCHANGED <<claims, trace, timely, withdrawn>>
      /\ turn \in [Turns -> TurnRow] /\ admission \in [Turns -> {"none", "open", "closed"}]
  BY DEF Settle, Inv, TypeOK, traceVars
<1>1. row \in TurnRow /\ row.status = s /\ row.stage = StageOf(s)
  <2>1. StageOf(s) \in {"final_validated", "refusal", "failure"}
    BY DEF StageOf
  <2>2. turn[t].key \in Keys \cup {None}
    BY <1>0 DEF TurnRow
  <2>3. 0 \in 0..Lease /\ 0 \in 0..Deadline
    BY TimingAssumption
  <2> HIDE DEF StageOf
  <2> QED BY <2>1, <2>2, <2>3 DEF AbsentTurn, TurnRow
<1> HIDE DEF row
<1>2. s \notin Active /\ s # "absent" /\ s # "queued" /\ s # "processing"
  BY DEF Outcomes, Active
<1>3. turn' \in [Turns -> TurnRow] /\ admission' \in [Turns -> {"none", "open", "closed"}]
  BY <1>0, <1>1
<1>4. ASSUME NEW u \in Turns PROVE TurnOK(u)' /\ Steady(u)
  <2>1. TurnOK(u)'
    BY <1>0, <1>1, <1>2 DEF Inv, TurnOK
  <2>2. Steady(u)
    BY <1>0, <1>1, <1>2 DEF Steady, Spent, Hopeless, LeaseOver
  <2> QED BY <2>1, <2>2
<1>5. AdmissionFollowsTurn'
  BY <1>0, <1>1, <1>2 DEF Inv, Promises, AdmissionFollowsTurn
<1>6. OutcomeHasTrace'
  BY <1>0, <1>1, <1>2 DEF Inv, Promises, OutcomeHasTrace
<1>7. StageTellsOutcome'
  <2>1. \A x : StageOf(x)' = StageOf(x)
    BY DEF StageOf
  <2> QED BY <1>0, <1>1, <2>1 DEF Inv, Promises, StageTellsOutcome
<1> QED BY <1>3, <1>4, <1>5, <1>6, <1>7 DEF Promises

LEMMA ApplyStep == ASSUME Inv, NEW l \in Loops, ApplyRecovery(l) PROVE Inv'
<1>1. /\ loop[l] \in LoopState /\ TurnHeld(loop[l]) /\ AnswerHeld(loop[l])
      /\ RecoveryHeld(loop[l]) /\ loop[l].reading # None
  BY DEF Inv, TypeOK, LoopOK, ApplyRecovery
<1> DEFINE t == loop[l].reading[1]
           r == [loop[l] EXCEPT !.observed = @ \ {loop[l].reading}, !.reading = None,
                                !.found = None]
<1>2. t \in Turns /\ loop[l].found \in Valid \cup {None}
  BY <1>1 DEF LoopState, Observations
<1>3. r \in LoopState /\ r.turn = loop[l].turn
  BY <1>1 DEF LoopState
<1>4. LoopOK(r)
  BY <1>1 DEF LoopOK, TurnHeld, AnswerHeld, RecoveryHeld, LoopState
<1>5. /\ Change(l, r) /\ UNCHANGED <<convVars, claims, traceVars, updates, faults>>
      /\ UNCHANGED <<workspaceArchived, conversation, trace, timely, withdrawn>>
  BY DEF ApplyRecovery, convVars, traceVars
<1> HIDE DEF r
<1>6. /\ turn' \in [Turns -> TurnRow]
      /\ admission' \in [Turns -> {"none", "open", "closed"}]
      /\ \A u \in Turns : TurnOK(u)' /\ Steady(u)
      /\ Promises'
  <2>1. CASE turn[t].status = "processing" /\ Settle(t, StatusOf(loop[l].found))
    <3>1. StatusOf(loop[l].found) \in Outcomes
      BY DEF StatusOf, Outcomes
    <3>2. /\ StatusOf(loop[l].found) = "answered" => loop[l].found = "answer"
          /\ StatusOf(loop[l].found) = "refused" => loop[l].found = "refusal"
      BY <1>2 DEF StatusOf, Valid
    <3>3. /\ StatusOf(loop[l].found) = "answered" => trace[t] = "answer"
          /\ StatusOf(loop[l].found) = "refused" => trace[t] = "refusal"
      BY <1>1, <3>2, NothingAssumption DEF RecoveryHeld, Results, Valid
    <3> QED BY <1>2, <1>5, <2>1, <3>1, <3>3, Settling
  <2>2. CASE UNCHANGED <<turn, admission>>
    <3>1. \A u \in Turns : TurnOK(u)' /\ Steady(u)
      BY <1>5, <2>2 DEF Inv, TurnOK, Steady, Spent, Hopeless, LeaseOver
    <3>2. Promises'
      BY <1>5, <2>2 DEF Inv, Promises, AdmissionFollowsTurn, OutcomeHasTrace, StageTellsOutcome
    <3> QED BY <2>2, <3>1, <3>2 DEF Inv, TypeOK
  <2> QED BY <2>1, <2>2 DEF ApplyRecovery, HeldUnder
<1>7. /\ loop' \in [Loops -> LoopState] /\ Exclusive'
      /\ \A m \in Loops : LoopOK(loop[m])'
  BY <1>3, <1>4, <1>5, <1>6, LoopsKeep
<1>8. TypeOK'
  BY <1>5, <1>6, <1>7 DEF Inv, TypeOK
<1> QED BY <1>6, <1>7, <1>8 DEF Inv

LEMMA FinishStep == ASSUME Inv, NEW l \in Loops, FinishTurn(l) PROVE Inv'
<1>1. /\ loop[l] \in LoopState /\ TurnHeld(loop[l]) /\ AnswerHeld(loop[l])
      /\ loop[l].phase = "finishing"
  BY DEF Inv, TypeOK, LoopOK, FinishTurn
<1> DEFINE t == loop[l].turn
           a == loop[l].answer
<1>2. t \in Turns /\ a \in Results
  BY <1>1 DEF LoopState, TurnHeld, AnswerHeld
<1>5. /\ Change(l, FreshLoop) /\ UNCHANGED <<convVars, claims, traceVars, updates, faults>>
      /\ UNCHANGED <<workspaceArchived, conversation, trace, timely, withdrawn>>
  BY DEF FinishTurn, convVars, traceVars
<1>6. /\ turn' \in [Turns -> TurnRow]
      /\ admission' \in [Turns -> {"none", "open", "closed"}]
      /\ \A u \in Turns : TurnOK(u)' /\ Steady(u)
      /\ Promises'
  <2>1. CASE turn[t].status = "processing" /\ Settle(t, StatusOf(a))
    <3>1. StatusOf(a) \in Outcomes
      BY DEF StatusOf, Outcomes
    <3>2. /\ StatusOf(a) = "answered" => a = "answer"
          /\ StatusOf(a) = "refused" => a = "refusal"
      BY <1>2 DEF StatusOf, Valid, Results
    <3>3. /\ StatusOf(a) = "answered" => trace[t] = "answer"
          /\ StatusOf(a) = "refused" => trace[t] = "refusal"
      BY <1>1, <3>2 DEF AnswerHeld, Valid
    <3> QED BY <1>2, <1>5, <2>1, <3>1, <3>3, Settling
  <2>2. CASE UNCHANGED <<turn, admission>>
    <3>1. \A u \in Turns : TurnOK(u)' /\ Steady(u)
      BY <1>5, <2>2 DEF Inv, TurnOK, Steady, Spent, Hopeless, LeaseOver
    <3>2. Promises'
      BY <1>5, <2>2 DEF Inv, Promises, AdmissionFollowsTurn, OutcomeHasTrace, StageTellsOutcome
    <3> QED BY <2>2, <3>1, <3>2 DEF Inv, TypeOK
  <2> QED BY <2>1, <2>2 DEF FinishTurn, Owns, HeldUnder
<1>7. /\ loop' \in [Loops -> LoopState] /\ Exclusive'
      /\ \A m \in Loops : LoopOK(loop[m])'
  BY <1>5, <1>6, FreshOK, LoopsKeep
<1>8. TypeOK'
  BY <1>5, <1>6, <1>7 DEF Inv, TypeOK
<1> QED BY <1>6, <1>7, <1>8 DEF Inv

LEMMA ClaimStep == ASSUME Inv, NEW l \in Loops, ClaimTurn(l) PROVE Inv'
<1>1. PICK t \in Turns :
        /\ turn[t].status = "queued"
        /\ claims' = [claims EXCEPT ![t] = @ + 1]
        /\ turn' = [turn EXCEPT ![t].status = "processing", ![t].token = claims'[t],
                       ![t].leaseLeft = LeaseUntil(t), ![t].deadlineLeft = Deadline]
        /\ Change(l, [FreshLoop EXCEPT !.phase = "preparing", !.turn = t,
                                       !.token = claims'[t]])
  BY DEF ClaimTurn, Claimable
<1>2. UNCHANGED <<workspaceArchived, conversation, admission, trace, timely, withdrawn, updates,
                  faults>>
  BY DEF ClaimTurn, convVars, traceVars
<1>3. /\ turn \in [Turns -> TurnRow] /\ claims \in [Turns -> Nat]
      /\ loop \in [Loops -> LoopState] /\ claims[t] = 0 /\ trace[t] = "none" /\ t # None
  BY <1>1, NothingAssumption DEF Inv, TypeOK, TurnOK
<1>4. claims' = [claims EXCEPT ![t] = 1] /\ claims'[t] = 1
  BY <1>1, <1>3
<1> DEFINE r == [FreshLoop EXCEPT !.phase = "preparing", !.turn = t, !.token = 1]
           row == [turn[t] EXCEPT !.status = "processing", !.token = 1,
                                  !.leaseLeft = LeaseUntil(t), !.deadlineLeft = Deadline]
<1>5. /\ LeaseUntil(t) \in 0..Lease /\ Deadline \in 0..Deadline
  BY TimingAssumption DEF LeaseUntil
<1>6. /\ row \in TurnRow /\ row.status = "processing" /\ row.token = 1
      /\ turn' = [turn EXCEPT ![t] = row]
  <2>1. turn[t] \in TurnRow
    BY <1>3
  <2>2. row \in TurnRow /\ row.status = "processing" /\ row.token = 1
    BY <2>1, <1>5 DEF TurnRow, Active
  <2>3. turn' = [turn EXCEPT ![t] = row]
    BY <1>1, <1>3, <1>4, <2>1 DEF TurnRow
  <2> QED BY <2>2, <2>3
<1>7. /\ r \in LoopState /\ loop' = [loop EXCEPT ![l] = r] /\ r.turn = t
      /\ r.answer = None /\ r.phase = "preparing" /\ r.token = 1 /\ r.observed = {}
      /\ r.reading = None /\ r.found = None
  BY <1>1, <1>4, FreshOK DEF Change, LoopState, FreshLoop, Phases
<1> HIDE DEF r, row
<1>8. ASSUME NEW u \in Turns PROVE TurnOK(u)' /\ Steady(u)
  <2>1. TurnOK(u)'
    BY <1>2, <1>3, <1>4, <1>6 DEF Inv, TurnOK
  <2>2. Steady(u)
    BY <1>2, <1>3, <1>4, <1>6 DEF Steady, Spent, Hopeless, LeaseOver
  <2> QED BY <2>1, <2>2
<1>9. \A m \in Loops : loop[m].turn # t
  BY <1>3 DEF Inv, LoopOK, TurnHeld
<1>10. LoopOK(r)'
  BY <1>2, <1>3, <1>4, <1>7, NothingAssumption
     DEF LoopOK, TurnHeld, AnswerHeld, RecoveryHeld, Valid, Results
<1>11. ASSUME NEW m \in Loops PROVE LoopOK(loop[m])'
  <2>1. CASE m = l
    <3>1. loop'[m] = r
      BY <1>3, <1>7, <2>1
    <3> QED BY <1>10, <3>1 DEF LoopOK, TurnHeld, AnswerHeld, RecoveryHeld, Spent, Hopeless, LeaseOver
  <2>2. CASE m # l
    <3>1. PICK q \in LoopState : q = loop[m] /\ q = loop'[m] /\ LoopOK(q)
      BY <1>3, <1>7, <2>2 DEF Inv
    <3>2. LoopOK(q)'
      BY <1>2, <1>8, <3>1, OtherLoops
    <3> QED BY <3>1, <3>2 DEF LoopOK, TurnHeld, AnswerHeld, RecoveryHeld, Spent, Hopeless, LeaseOver
  <2> QED BY <2>1, <2>2
<1>12. Exclusive'
  BY <1>3, <1>7, <1>9 DEF Inv, Exclusive
<1>13. Promises'
  <2>1. AdmissionFollowsTurn'
    BY <1>1, <1>2, <1>3, <1>6 DEF Inv, Promises, AdmissionFollowsTurn, Active
  <2>2. OutcomeHasTrace'
    BY <1>2, <1>3, <1>6 DEF Inv, Promises, OutcomeHasTrace
  <2>3. StageTellsOutcome'
    <3>1. \A x : StageOf(x)' = StageOf(x)
      BY DEF StageOf
    <3> QED BY <1>3, <1>6, <3>1 DEF Inv, Promises, StageTellsOutcome, Outcomes
  <2> QED BY <2>1, <2>2, <2>3 DEF Promises
<1>14. TypeOK'
  BY <1>2, <1>3, <1>4, <1>6, <1>7 DEF Inv, TypeOK
<1> QED BY <1>8, <1>11, <1>12, <1>13, <1>14 DEF Inv

LEMMA SubmitStep ==
    ASSUME Inv, NEW c \in Conversations, NEW k \in Keys, SubmitTurn(c, k)
    PROVE  Inv'
<1> DEFINE row == [AbsentTurn EXCEPT !.status = "queued", !.key = k]
<1>1. PICK n \in Sequence :
        /\ IsNextSequence(c, n)
        /\ turn' = [turn EXCEPT ![<<c, n>>] = row]
        /\ admission' = [admission EXCEPT ![<<c, n>>] = "open"]
  BY DEF SubmitTurn
<1> DEFINE t == <<c, n>>
<1>2. UNCHANGED <<workspaceArchived, conversation, claims, trace, timely, withdrawn, updates,
                  loop, faults>>
  BY DEF SubmitTurn, convVars, traceVars
<1>3. t \in Turns /\ turn[t].status = "absent"
  <2>1. t \in Turns /\ n \notin Asked(c)
    BY <1>1 DEF Turns, IsNextSequence, Sequence
  <2> QED BY <1>1, <2>1 DEF Asked
<1>4. /\ turn \in [Turns -> TurnRow] /\ admission \in [Turns -> {"none", "open", "closed"}]
      /\ row \in TurnRow /\ row.status = "queued"
  <2>1. 0 \in 0..Lease /\ 0 \in 0..Deadline
    BY TimingAssumption
  <2>2. row \in TurnRow /\ row.status = "queued"
    BY <2>1 DEF TurnRow, AbsentTurn, Active
  <2> QED BY <2>2 DEF Inv, TypeOK
<1> HIDE DEF t, row
<1>5. turn' = [turn EXCEPT ![t] = row] /\ admission' = [admission EXCEPT ![t] = "open"]
  BY <1>1 DEF t
<1>6. ASSUME NEW u \in Turns PROVE TurnOK(u)' /\ Steady(u)
  <2>1. TurnOK(u)'
    BY <1>2, <1>3, <1>4, <1>5 DEF Inv, TurnOK
  <2>2. Steady(u)
    BY <1>2, <1>3, <1>4, <1>5 DEF Steady, Spent, Hopeless, LeaseOver
  <2> QED BY <2>1, <2>2
<1>7. /\ loop' \in [Loops -> LoopState] /\ Exclusive'
      /\ \A m \in Loops : LoopOK(loop[m])'
  BY <1>2, <1>6, SameLoops
<1>8. Promises'
  <2>1. AdmissionFollowsTurn'
    BY <1>3, <1>4, <1>5 DEF Inv, Promises, AdmissionFollowsTurn, Active
  <2>2. OutcomeHasTrace'
    BY <1>2, <1>4, <1>5 DEF Inv, Promises, OutcomeHasTrace
  <2>3. StageTellsOutcome'
    <3>1. \A x : StageOf(x)' = StageOf(x)
      BY DEF StageOf
    <3> QED BY <1>4, <1>5, <3>1 DEF Inv, Promises, StageTellsOutcome, Outcomes
  <2> QED BY <2>1, <2>2, <2>3 DEF Promises
<1>9. TypeOK'
  BY <1>2, <1>4, <1>5, <1>7 DEF Inv, TypeOK
<1> QED BY <1>6, <1>7, <1>8, <1>9 DEF Inv

\* Steps that change the lease or the stage of a turn in processing, or age all.
Gentle(t) ==
    /\ turn'[t] \in TurnRow
    /\ turn'[t].status = turn[t].status /\ turn'[t].token = turn[t].token
    /\ turn[t].status \in Outcomes => turn'[t].stage = turn[t].stage
    /\ LeaseOver(t) => LeaseOver(t)'

LEMMA GentleSteps ==
    ASSUME Inv, UNCHANGED <<claims, admission, traceVars>>, turn' \in [Turns -> TurnRow],
           \A t \in Turns : Gentle(t)
    PROVE  (\A t \in Turns : TurnOK(t)' /\ Steady(t)) /\ Promises'
<1>0. UNCHANGED <<trace, timely, withdrawn>>
  BY DEF traceVars
<1>1. ASSUME NEW t \in Turns PROVE TurnOK(t)' /\ Steady(t)
  <2>1. TurnOK(t)'
    BY <1>0 DEF Inv, TurnOK, Gentle
  <2>2. Steady(t)
    BY <1>0 DEF Gentle, Steady, Spent, Hopeless
  <2> QED BY <2>1, <2>2
<1>2. AdmissionFollowsTurn' /\ OutcomeHasTrace'
  <2>1. AdmissionFollowsTurn'
    BY DEF Inv, Promises, AdmissionFollowsTurn, Gentle
  <2>2. OutcomeHasTrace'
    BY <1>0 DEF Inv, Promises, OutcomeHasTrace, Gentle
  <2> QED BY <2>1, <2>2
<1>3. StageTellsOutcome'
  <2>1. \A x : StageOf(x)' = StageOf(x)
    BY DEF StageOf
  <2> QED BY <2>1 DEF Inv, Promises, StageTellsOutcome, Gentle
<1> QED BY <1>1, <1>2, <1>3 DEF Promises

LEMMA HeartbeatStep == ASSUME Inv, NEW l \in Loops, Heartbeat(l) PROVE Inv'
<1>1. loop[l] \in LoopState /\ TurnHeld(loop[l]) /\ LoopOK(loop[l]) /\ loop[l].turn \in Turns
  BY DEF Inv, TypeOK, LoopOK, Heartbeat, TurnHeld, LoopState
<1> DEFINE t == loop[l].turn
<1>2. /\ UNCHANGED <<convVars, claims, admission, traceVars, updates, faults>>
      /\ UNCHANGED <<workspaceArchived, conversation, trace, timely, withdrawn>>
  BY DEF Heartbeat, convVars, traceVars
<1>3. turn \in [Turns -> TurnRow]
  BY DEF Inv, TypeOK
<1>4. CASE Owns(t, loop[l].token)
  <2>1. turn' = [turn EXCEPT ![t].leaseLeft = Extended(t)] /\ UNCHANGED loop
    BY <1>4 DEF Heartbeat
  <2>2. turn[t].deadlineLeft \in 0..Deadline /\ turn[t] \in TurnRow
    BY <1>1, <1>3 DEF TurnRow
  <2>3. Extended(t) \in 0..Lease
    BY <2>2, TimingAssumption DEF Extended
  <2>4. turn' \in [Turns -> TurnRow]
    BY <1>1, <1>3, <2>1, <2>3 DEF TurnRow
  <2>5. ASSUME NEW u \in Turns PROVE Gentle(u)
    BY <1>1, <1>3, <1>4, <2>1, <2>4 DEF Gentle, Owns, LeaseOver, TurnRow
  <2>6. (\A u \in Turns : TurnOK(u)' /\ Steady(u)) /\ Promises'
    BY <1>2, <2>4, <2>5, GentleSteps
  <2>7. /\ loop' \in [Loops -> LoopState] /\ Exclusive'
        /\ \A m \in Loops : LoopOK(loop[m])'
    BY <1>2, <2>1, <2>6, SameLoops
  <2>8. TypeOK'
    BY <1>2, <2>4, <2>7 DEF Inv, TypeOK
  <2> QED BY <2>6, <2>7, <2>8 DEF Inv
<1>5. CASE ~Owns(t, loop[l].token)
  <2> DEFINE r == [loop[l] EXCEPT !.heartbeat = "lost"]
  <2>1. Change(l, r) /\ UNCHANGED turn
    BY <1>5 DEF Heartbeat
  <2>2. r \in LoopState /\ r.turn = loop[l].turn
    BY <1>1 DEF LoopState
  <2>3. LoopOK(r)
    BY <1>1 DEF LoopOK, TurnHeld, AnswerHeld, RecoveryHeld, LoopState
  <2>4. UNCHANGED <<convVars, durableVars, traceVars, updates>> /\ faults' \in 0..MaxFaults
    BY <1>2, <2>1 DEF durableVars, Inv, TypeOK
  <2> HIDE DEF r
  <2> QED BY <2>1, <2>2, <2>3, <2>4, OneLoop
<1> QED BY <1>4, <1>5

LEMMA StageStep == ASSUME Inv, NEW u \in updates, StageLands(u) PROVE Inv'
<1>1. /\ UNCHANGED <<convVars, claims, admission, traceVars, loop, faults>>
      /\ UNCHANGED <<workspaceArchived, conversation, trace, timely, withdrawn>>
      /\ updates' \in SUBSET Observations /\ turn \in [Turns -> TurnRow] /\ u[1] \in Turns
  BY DEF StageLands, convVars, traceVars, Inv, TypeOK, Observations
<1>2. turn' \in [Turns -> TurnRow]
  BY <1>1 DEF StageLands, TurnRow
<1>3. ASSUME NEW t \in Turns PROVE Gentle(t)
  BY <1>1, <1>2 DEF StageLands, Gentle, Owns, HeldUnder, LeaseOver, TurnRow, Outcomes
<1>4. (\A t \in Turns : TurnOK(t)' /\ Steady(t)) /\ Promises'
  BY <1>1, <1>2, <1>3, GentleSteps
<1>5. /\ loop' \in [Loops -> LoopState] /\ Exclusive'
      /\ \A m \in Loops : LoopOK(loop[m])'
  BY <1>1, <1>4, SameLoops
<1>6. TypeOK'
  BY <1>1, <1>2, <1>5 DEF Inv, TypeOK
<1> QED BY <1>4, <1>5, <1>6 DEF Inv

\* The end of an answer: the loop that holds the turn may make its trace durable, and
\* records what execute came to.
LEMMA AnswerSteps == ASSUME Inv, NEW l \in Loops, AnswerEnds(l) PROVE Inv'
<1> DEFINE t == loop[l].turn
<1>1. /\ loop[l] \in LoopState /\ TurnHeld(loop[l]) /\ AnswerHeld(loop[l])
      /\ RecoveryHeld(loop[l]) /\ loop[l].answer = "running"
  BY DEF Inv, TypeOK, LoopOK, AnswerEnds, AnswerReturns, AnswerRaises
<1>2. t \in Turns /\ trace[t] = "none" /\ t \notin timely /\ claims[t] = 1 /\ t # None
  BY <1>1, NothingAssumption DEF LoopState, AnswerHeld, TurnHeld, Inv, TurnOK, Valid
<1>3. PICK a \in Results, left \in {"none", "invalid"} \cup Valid :
        /\ trace' = [trace EXCEPT ![t] = left]
        /\ Change(l, [loop[l] EXCEPT !.answer = a])
        /\ a \in Valid => left = a
        /\ timely' \in {timely, timely \cup {t}} /\ withdrawn' \in {withdrawn, withdrawn \cup {t}}
        /\ timely' # timely => Owns(t, loop[l].token) /\ left \in Valid
        /\ UNCHANGED <<workspaceArchived, conversation, turn, claims, admission, updates, faults>>
  <2>0. ASSUME NEW left \in {"none", "invalid"} \cup Valid, Persist(l, left)
        PROVE  /\ trace' = [trace EXCEPT ![t] = left]
               /\ timely' \in {timely, timely \cup {t}}
               /\ timely' # timely => Owns(t, loop[l].token) /\ left \in Valid
    BY <1>2, <2>0 DEF Persist
  <2>1. CASE AnswerReturns(l)
    <3>1. PICK d \in Valid : Persist(l, d) /\ Change(l, [loop[l] EXCEPT !.answer = d])
      BY <2>1 DEF AnswerReturns
    <3>2. UNCHANGED <<workspaceArchived, conversation, turn, claims, admission, updates, faults,
                      withdrawn>>
      BY <2>1 DEF AnswerReturns, convVars, durableVars
    <3> QED BY <2>0, <3>1, <3>2 DEF Results
  <2>2. CASE AnswerRaises(l)
    <3>1. PICK left \in {"none", "invalid"} \cup Valid :
            Persist(l, left) /\ withdrawn' \in {withdrawn, withdrawn \cup {t}}
      BY <2>2 DEF AnswerRaises
    <3>2. /\ UNCHANGED <<workspaceArchived, conversation, turn, claims, admission, updates, faults>>
          /\ Change(l, [loop[l] EXCEPT !.answer = "error"])
      BY <2>2 DEF AnswerRaises, convVars, durableVars
    <3>3. "error" \in Results /\ "error" \notin Valid
      BY DEF Results, Valid
    <3> QED BY <2>0, <3>1, <3>2, <3>3
  <2> QED BY <2>1, <2>2 DEF AnswerEnds
<1>r. PICK r \in LoopState : r = [loop[l] EXCEPT !.answer = a]
  BY <1>1 DEF LoopState
<1>4. /\ loop' = [loop EXCEPT ![l] = r] /\ loop \in [Loops -> LoopState]
      /\ trace \in [Turns -> {"none", "invalid"} \cup Valid]
  BY <1>3, <1>r DEF Change, Inv, TypeOK
<1>5. ASSUME NEW u \in Turns PROVE TurnOK(u)' /\ Steady(u)
  <2>1. TurnOK(u)'
    BY <1>2, <1>3, <1>4 DEF Inv, TurnOK
  <2>2. timely' # timely => ~Spent(t)
    BY <1>3 DEF Owns, HeldUnder, Spent
  <2>3. Spent(u)' <=> Spent(u)
    BY <1>3 DEF Spent, LeaseOver
  <2>4. Spent(u) /\ Hopeless(u) => Hopeless(u)'
    BY <1>3, <2>2 DEF Hopeless
  <2>5. trace[u] # "none" => trace'[u] = trace[u]
    BY <1>2, <1>3, <1>4
  <2> QED BY <1>3, <2>1, <2>3, <2>4, <2>5 DEF Steady
<1>6. LoopOK(r)'
  <2>1. /\ r.turn = t /\ r.token = loop[l].token /\ r.phase = loop[l].phase /\ r.answer = a
        /\ r.purpose = loop[l].purpose /\ r.heartbeat = loop[l].heartbeat
        /\ r.observed = loop[l].observed /\ r.reading = loop[l].reading
        /\ r.found = loop[l].found
    BY <1>1, <1>r DEF LoopState
  <2>2. TurnHeld(r)'
    BY <1>1, <1>3, <2>1 DEF TurnHeld
  <2>3. AnswerHeld(r)'
    <3>1. a \in Valid => trace'[t] = a
      BY <1>2, <1>3, <1>4
    <3>2. loop[l].phase # "preparing" /\ a # "running" /\ a # None
      BY <1>1, <1>3, NothingAssumption DEF AnswerHeld, Results, Valid, LoopState
    <3> QED BY <1>2, <1>3, <2>1, <3>1, <3>2 DEF AnswerHeld
  <2>4. RecoveryHeld(r)'
    <3>1. \A o \in r.observed : o[1] \in Turns
      BY <1>1, <2>1 DEF LoopState, Observations
    <3>2. RecoveryHeld(r)
      BY <1>1, <2>1 DEF RecoveryHeld
    <3>3. \A o \in r.observed : o[2] = 1 /\ Spent(o[1])'
      BY <1>5, <3>1, <3>2 DEF RecoveryHeld, Steady
    <3>4. r.found # None => r.reading # None /\ trace'[r.reading[1]] = r.found
      <4>1. r.found # None => r.found \in Valid /\ r.found # "none"
        BY <1>1, <2>1 DEF LoopState, Valid
      <4> QED BY <1>5, <3>1, <3>2, <4>1 DEF RecoveryHeld, Steady
    <3>5. r.reading # None /\ r.found = None => Hopeless(r.reading[1])'
      BY <1>5, <3>1, <3>2 DEF RecoveryHeld, Steady
    <3> QED BY <3>2, <3>3, <3>4, <3>5 DEF RecoveryHeld
  <2> QED BY <2>2, <2>3, <2>4 DEF LoopOK
<1>7. r.turn = loop[l].turn
  BY <1>1, <1>r DEF LoopState
<1>8. ASSUME NEW m \in Loops PROVE LoopOK(loop[m])'
  <2>1. CASE m = l
    <3>1. loop'[m] = r
      BY <1>4, <2>1
    <3> QED BY <1>6, <3>1 DEF LoopOK, TurnHeld, AnswerHeld, RecoveryHeld, Spent, Hopeless, LeaseOver
  <2>2. CASE m # l
    <3>1. PICK q \in LoopState : q = loop[m] /\ q = loop'[m] /\ LoopOK(q)
      BY <1>4, <2>2 DEF Inv
    <3>2. q.turn # None => q.turn # t
      BY <1>2, <2>2, <3>1 DEF Inv, Exclusive
    <3>3. q.turn # None => trace'[q.turn] = trace[q.turn]
      BY <1>3, <1>4, <3>1, <3>2 DEF LoopState
    <3>4. LoopOK(q)'
      BY <1>5, <3>1, <3>3, OtherLoops
    <3> QED BY <3>1, <3>4 DEF LoopOK, TurnHeld, AnswerHeld, RecoveryHeld, Spent, Hopeless, LeaseOver
  <2> QED BY <2>1, <2>2
<1>9. Exclusive'
  BY <1>4, <1>7 DEF Inv, Exclusive
<1>10. Promises'
  <2>1. AdmissionFollowsTurn' /\ StageTellsOutcome'
    BY <1>3 DEF Inv, Promises, AdmissionFollowsTurn, StageTellsOutcome
  <2>2. OutcomeHasTrace'
    BY <1>2, <1>3, <1>4 DEF Inv, Promises, OutcomeHasTrace
  <2> QED BY <2>1, <2>2 DEF Promises
<1>11. TypeOK'
  <2>1. trace' \in [Turns -> {"none", "invalid"} \cup Valid]
    BY <1>2, <1>3, <1>4
  <2>2. loop' \in [Loops -> LoopState]
    BY <1>4
  <2>3. timely' \in SUBSET Turns /\ withdrawn' \in SUBSET Turns
    BY <1>2, <1>3 DEF Inv, TypeOK
  <2> QED BY <1>3, <2>1, <2>2, <2>3 DEF Inv, TypeOK
<1> QED BY <1>5, <1>8, <1>9, <1>10, <1>11 DEF Inv

LEMMA WithdrawStep == ASSUME Inv, NEW t \in Turns, Withdraw(t) PROVE Inv'
<1>1. /\ withdrawn' = withdrawn \cup {t}
      /\ UNCHANGED <<workspaceArchived, conversation, turn, claims, admission, trace, timely,
                     updates, loop, faults>>
  BY DEF Withdraw, convVars, durableVars
<1>2. ASSUME NEW u \in Turns PROVE TurnOK(u)' /\ Steady(u)
  BY <1>1 DEF Inv, TurnOK, Steady, Spent, Hopeless, LeaseOver
<1>3. /\ loop' \in [Loops -> LoopState] /\ Exclusive'
      /\ \A m \in Loops : LoopOK(loop[m])'
  BY <1>1, <1>2, SameLoops
<1>4. Promises'
  BY <1>1 DEF Inv, Promises, AdmissionFollowsTurn, OutcomeHasTrace, StageTellsOutcome
<1>5. TypeOK'
  BY <1>1, <1>3 DEF Inv, TypeOK
<1> QED BY <1>2, <1>3, <1>4, <1>5 DEF Inv

LEMMA FallStep ==
    ASSUME Inv, NEW p, Fall(p), faults' \in 0..MaxFaults,
           UNCHANGED <<convVars, durableVars, traceVars, updates>>
    PROVE  Inv'
<1>1. /\ loop' = [l \in Loops |-> IF ProcessOf[l] = p THEN FreshLoop ELSE loop[l]]
      /\ UNCHANGED <<workspaceArchived, conversation, turn, claims, admission, trace, timely,
                     withdrawn, updates>>
  BY DEF Fall, convVars, durableVars, traceVars
<1>2. \A l \in Loops : loop'[l] = FreshLoop \/ loop'[l] = loop[l]
  BY <1>1
<1>3. TypeOK'
  BY <1>1, <1>2, FreshOK DEF Inv, TypeOK
<1>4. \A t \in Turns : TurnOK(t)'
  BY <1>1 DEF Inv, TurnOK
<1>5. ASSUME NEW l \in Loops PROVE LoopOK(loop[l])'
  <2>1. LoopOK(loop'[l])
    BY <1>2, FreshOK DEF Inv
  <2> QED BY <1>1, <2>1
             DEF LoopOK, TurnHeld, AnswerHeld, RecoveryHeld, Spent, Hopeless, LeaseOver
<1>6. Exclusive'
  BY <1>2, FreshOK DEF Inv, Exclusive
<1>7. Promises'
  BY <1>1 DEF Inv, Promises, AdmissionFollowsTurn, OutcomeHasTrace, StageTellsOutcome
<1> QED BY <1>3, <1>4, <1>5, <1>6, <1>7 DEF Inv

LEMMA TickStep == ASSUME Inv, Tick PROVE Inv'
<1>1. /\ turn' = [t \in Turns |-> [turn[t] EXCEPT !.leaseLeft = Less(@),
                                                  !.deadlineLeft = Less(@)]]
      /\ loop' = [l \in Loops |-> [loop[l] EXCEPT !.timer = Less(@)]]
      /\ UNCHANGED <<convVars, claims, admission, traceVars, updates, faults>>
      /\ UNCHANGED <<workspaceArchived, conversation, trace, timely, withdrawn>>
  BY DEF Tick, convVars, traceVars
<1>2. turn \in [Turns -> TurnRow] /\ loop \in [Loops -> LoopState]
  BY DEF Inv, TypeOK
<1>3. \A N \in Nat : \A n \in 0..N : Less(n) \in 0..N /\ (n = 0 => Less(n) = 0)
  BY DEF Less
<1>4. ASSUME NEW t \in Turns PROVE Gentle(t)
  <2>1. /\ turn[t] \in TurnRow /\ turn[t].leaseLeft \in 0..Lease
        /\ turn[t].deadlineLeft \in 0..Deadline
    BY <1>2 DEF TurnRow
  <2>2. /\ Less(turn[t].leaseLeft) \in 0..Lease /\ Less(turn[t].deadlineLeft) \in 0..Deadline
        /\ turn[t].leaseLeft = 0 => Less(turn[t].leaseLeft) = 0
        /\ turn[t].deadlineLeft = 0 => Less(turn[t].deadlineLeft) = 0
    BY <1>3, <2>1, TimingAssumption
  <2>3. turn'[t] = [turn[t] EXCEPT !.leaseLeft = Less(turn[t].leaseLeft),
                                   !.deadlineLeft = Less(turn[t].deadlineLeft)]
    BY <1>1
  <2> HIDE DEF Less
  <2> QED BY <2>1, <2>2, <2>3 DEF Gentle, TurnRow, LeaseOver
<1>5. turn' \in [Turns -> TurnRow]
  BY <1>1, <1>4 DEF Gentle
<1>6. (\A t \in Turns : TurnOK(t)' /\ Steady(t)) /\ Promises'
  BY <1>1, <1>4, <1>5, GentleSteps
<1>7. ASSUME NEW m \in Loops
      PROVE  /\ loop'[m] \in LoopState /\ loop'[m].turn = loop[m].turn
             /\ LoopOK(loop[m])'
  <2>1. loop[m] \in LoopState /\ LoopOK(loop[m]) /\ loop[m].timer \in 0..Deadline
    BY <1>2 DEF Inv, LoopState
  <2>2. Less(loop[m].timer) \in 0..Deadline
    BY <1>3, <2>1, TimingAssumption
  <2>3. loop'[m] = [loop[m] EXCEPT !.timer = Less(loop[m].timer)]
    BY <1>1
  <2> HIDE DEF Less
  <2>4. loop'[m] \in LoopState /\ loop'[m].turn = loop[m].turn
    BY <2>1, <2>2, <2>3 DEF LoopState
  <2>5. LoopOK(loop'[m])
    BY <2>1, <2>3 DEF LoopOK, TurnHeld, AnswerHeld, RecoveryHeld, LoopState
  <2>6. PICK q \in LoopState : q = loop'[m] /\ LoopOK(q)
    BY <2>4, <2>5
  <2>7. LoopOK(q)'
    BY <1>1, <1>6, <2>6, OtherLoops
  <2>8. LoopOK(loop[m])'
    BY <2>6, <2>7 DEF LoopOK, TurnHeld, AnswerHeld, RecoveryHeld, Spent, Hopeless, LeaseOver
  <2> QED BY <2>4, <2>8
<1>8. loop' \in [Loops -> LoopState]
  BY <1>1, <1>7
<1>9. Exclusive'
  BY <1>7 DEF Inv, Exclusive
<1>10. TypeOK'
  BY <1>1, <1>5, <1>8 DEF Inv, TypeOK
<1> QED BY <1>6, <1>7, <1>9, <1>10 DEF Inv

-----------------------------------------------------------------------------
(* The invariant                                                            *)

LEMMA Inductive == Inv /\ [Next]_vars => Inv'
<1> SUFFICES ASSUME Inv, [Next]_vars PROVE Inv'
  OBVIOUS
<1>0. /\ conversation \in [Conversations -> {"absent", "open", "archived"}]
      /\ workspaceArchived \in BOOLEAN /\ updates \in SUBSET Observations /\ faults \in 0..MaxFaults
  BY DEF Inv, TypeOK
<1>1. CASE UNCHANGED vars
  BY <1>0, <1>1, NothingRelevant DEF vars, convVars, durableVars, traceVars
<1>2. CASE ArchiveWorkspace
  <2>1. workspaceArchived' \in BOOLEAN
    BY <1>2, Zenon DEF ArchiveWorkspace
  <2> QED BY <1>0, <1>2, <2>1, NothingRelevant DEF ArchiveWorkspace, durableVars, traceVars
<1>3. ASSUME NEW c \in Conversations, CreateConversation(c) \/ ArchiveConversation(c) PROVE Inv'
  <2>1. conversation' \in [Conversations -> {"absent", "open", "archived"}]
    BY <1>0, <1>3 DEF CreateConversation, ArchiveConversation
  <2>2. UNCHANGED <<workspaceArchived, durableVars, traceVars, updates, loop, faults>>
    BY <1>3 DEF CreateConversation, ArchiveConversation
  <2> QED BY <1>0, <2>1, <2>2, NothingRelevant DEF durableVars, traceVars
<1>4. ASSUME NEW c \in Conversations, NEW k \in Keys, SubmitTurn(c, k) PROVE Inv'
  BY <1>4, SubmitStep
<1>5. ASSUME NEW l \in Loops, LoopStep(l) PROVE Inv'
  <2>1. CASE HeartbeatErrorEscapes(l)
    BY <1>0, <2>1, FallStep DEF HeartbeatErrorEscapes
  <2> QED BY <1>5, <2>1, ObserveStep, ReadStep, ApplyStep, ClaimStep, FinishStep, MovingSteps
          DEF LoopStep
<1>6. ASSUME NEW l \in Loops, AnswerEnds(l) \/ Heartbeat(l) \/ HeartbeatRaises(l) PROVE Inv'
  BY <1>6, AnswerSteps, HeartbeatStep, MovingSteps
<1>7. ASSUME NEW l \in Loops, ReportStage(l) PROVE Inv'
  <2>1. loop[l].turn \in Turns /\ loop[l].token \in Nat
    BY <1>7, NothingAssumption
       DEF ReportStage, Inv, TypeOK, LoopOK, AnswerHeld, TurnHeld, LoopState
  <2>2. updates' \in SUBSET Observations
    BY <1>0, <1>7, <2>1 DEF ReportStage, Own, Observations
  <2>3. UNCHANGED <<convVars, durableVars, traceVars, loop, faults>>
    BY <1>7 DEF ReportStage
  <2> QED BY <1>0, <2>2, <2>3, NothingRelevant DEF convVars, durableVars, traceVars
<1>8. ASSUME NEW u \in updates, StageLands(u) PROVE Inv'
  BY <1>8, StageStep
<1>9. ASSUME NEW t \in Turns, Withdraw(t) PROVE Inv'
  BY <1>9, WithdrawStep
<1>10. ASSUME NEW p \in Processes, ProcessFalls(p) PROVE Inv'
  <2>1. faults' \in 0..MaxFaults
    BY <1>0, <1>10, FaultAssumption DEF ProcessFalls
  <2> QED BY <1>10, <2>1, FallStep DEF ProcessFalls
<1>11. CASE Tick
  BY <1>11, TickStep
<1> QED BY <1>1, <1>2, <1>3, <1>4, <1>5, <1>6, <1>7, <1>8, <1>9, <1>10, <1>11 DEF Next, Client

\* Inv is an invariant: whatever the loops do, a turn is claimed once and settled from
\* what is durable.
THEOREM Invariance == Spec => []Inv
BY Initially, Inductive, PTL DEF Spec

\* Every turn that is active has an open Workspace Admission, and no settled turn has:
\* the turns of a Workspace that is being deleted can be waited for.
THEOREM AdmissionsFollow == Spec => []AdmissionFollowsTurn
<1>1. Inv => AdmissionFollowsTurn
  BY DEF Inv, Promises
<1> QED BY <1>1, Invariance, PTL

\* A question goes to the providers at most once.
THEOREM ExecutesOnce == Spec => []ExecutedOnce
<1>1. Inv => ExecutedOnce
  <2> SUFFICES ASSUME Inv PROVE ExecutedOnce
    OBVIOUS
  <2>1. \A t \in Turns : claims[t] <= 1
    BY DEF Inv, TurnOK
  <2> QED BY <2>1 DEF Inv, Exclusive, ExecutedOnce
<1> QED BY <1>1, Invariance, PTL

\* What the reader is shown is what the Question Trace records.
THEOREM OutcomesHaveTraces == Spec => []OutcomeHasTrace
<1>1. Inv => OutcomeHasTrace
  BY DEF Inv, Promises
<1> QED BY <1>1, Invariance, PTL

\* No late stage update lands on a settled turn.
THEOREM StagesTellOutcomes == Spec => []StageTellsOutcome
<1>1. Inv => StageTellsOutcome
  BY DEF Inv, Promises
<1> QED BY <1>1, Invariance, PTL

-----------------------------------------------------------------------------
(* Settlement is fenced                                                     *)

SameStatus(t) == turn'[t].status = turn[t].status

\* The steps that settle nothing keep every status.
LEMMA StatusKept ==
    ASSUME Inv,
           \/ UNCHANGED turn
           \/ \E l \in Loops : Heartbeat(l)
           \/ \E u \in updates : StageLands(u)
           \/ Tick
    PROVE  \A t \in Turns : SameStatus(t)
<1>0. turn \in [Turns -> TurnRow]
  BY DEF Inv, TypeOK
<1>1. CASE UNCHANGED turn
  BY <1>1 DEF SameStatus
<1>2. ASSUME NEW l \in Loops, Heartbeat(l) PROVE \A t \in Turns : SameStatus(t)
  BY <1>0, <1>2 DEF Heartbeat, SameStatus, TurnRow
<1>3. ASSUME NEW u \in updates, StageLands(u) PROVE \A t \in Turns : SameStatus(t)
  BY <1>0, <1>3 DEF StageLands, SameStatus, TurnRow
<1>4. CASE Tick
  BY <1>0, <1>4 DEF Tick, SameStatus, TurnRow
<1> QED BY <1>1, <1>2, <1>3, <1>4

\* What a step may do to the status of a turn.
Claims(l) ==
    \E t \in Turns :
        /\ turn[t].status = "queued" /\ turn'[t].status = "processing"
        /\ \A u \in Turns \ {t} : SameStatus(u)

\* A recovery settles an expired turn from what it found durable, and the loop that
\* claimed a live one from what its execution came to.
Settles(l, t, status) ==
    /\ turn[t].status = "processing" /\ turn'[t].status = status
    /\ IF LeaseOver(t)
       THEN /\ loop[l].reading = <<t, turn[t].token>>
            /\ t \in timely \ withdrawn => status = StatusOf(trace[t])
       ELSE /\ loop[l].phase = "finishing" /\ Own(l) = <<t, turn[t].token>>
            /\ \/ status = StatusOf(trace[t])
               \/ status = "failed" /\ loop[l].answer = "error"
    /\ \A u \in Turns \ {t} : SameStatus(u)

Asks(c, n) ==
    /\ ~Busy(c) /\ IsNextSequence(c, n)
    /\ turn'[<<c, n>>].status = "queued"
    /\ \A u \in Turns \ {<<c, n>>} : SameStatus(u)

LEMMA StatusSteps ==
    ASSUME Inv, [Next]_vars
    PROVE  \/ \A t \in Turns : SameStatus(t)
           \/ \E l \in Loops : Claims(l)
           \/ \E l \in Loops, t \in Turns, status \in Outcomes : Settles(l, t, status)
           \/ \E c \in Conversations, n \in Sequence : Asks(c, n)
<1>0. turn \in [Turns -> TurnRow] /\ loop \in [Loops -> LoopState]
  BY DEF Inv, TypeOK
<1>1. CASE UNCHANGED turn
  BY <1>1, StatusKept
<1>2. ASSUME NEW c \in Conversations, NEW k \in Keys, SubmitTurn(c, k)
      PROVE \E n \in Sequence : Asks(c, n)
  <2>1. PICK n \in Sequence :
           /\ IsNextSequence(c, n)
           /\ turn' = [turn EXCEPT ![<<c, n>>] =
                          [AbsentTurn EXCEPT !.status = "queued", !.key = k]]
    BY <1>2 DEF SubmitTurn
  <2>2. ~Busy(c) /\ <<c, n>> \in Turns
    BY <1>2 DEF SubmitTurn, Turns
  <2>3. turn'[<<c, n>>].status = "queued" /\ \A u \in Turns \ {<<c, n>>} : SameStatus(u)
    BY <1>0, <2>1, <2>2 DEF AbsentTurn, SameStatus
  <2> QED BY <2>1, <2>2, <2>3 DEF Asks
<1>3. ASSUME NEW l \in Loops, ClaimTurn(l) PROVE Claims(l)
  BY <1>0, <1>3 DEF ClaimTurn, Claimable, Claims, SameStatus, TurnRow
<1>4. ASSUME NEW l \in Loops, ApplyRecovery(l), turn' # turn
      PROVE \E t \in Turns, status \in Outcomes : Settles(l, t, status)
  <2>1. PICK o \in Observations : o = loop[l].reading
    BY <1>0, <1>4 DEF ApplyRecovery, LoopState
  <2>2. PICK t \in Turns : t = o[1] /\ o = <<t, o[2]>>
    BY DEF Observations
  <2>3. PICK status \in Outcomes : status = StatusOf(loop[l].found)
    BY DEF StatusOf, Outcomes
  <2>4. HeldUnder(t, o[2]) /\ LeaseOver(t) /\ Settle(t, status)
    BY <1>4, <2>1, <2>2, <2>3 DEF ApplyRecovery
  <2>5. turn'[t].status = status /\ \A u \in Turns \ {t} : SameStatus(u)
    BY <1>0, <2>4 DEF Settle, AbsentTurn, SameStatus
  <2>6. turn[t].status = "processing" /\ loop[l].reading = <<t, turn[t].token>>
    BY <2>1, <2>2, <2>4 DEF HeldUnder
  <2>7. t \in timely \ withdrawn => status = StatusOf(trace[t])
    <3>1. loop[l].reading # None /\ RecoveryHeld(loop[l])
      BY <1>4 DEF ApplyRecovery, Inv, LoopOK
    <3>2. t \in timely \ withdrawn => loop[l].found # None
      BY <2>1, <2>2, <2>6, <3>1 DEF RecoveryHeld, Hopeless
    <3>3. loop[l].found # None => trace[t] = loop[l].found
      BY <2>1, <2>2, <3>1 DEF RecoveryHeld
    <3> QED BY <2>3, <3>2, <3>3
  <2> QED BY <2>4, <2>5, <2>6, <2>7 DEF Settles
<1>5. ASSUME NEW l \in Loops, FinishTurn(l), turn' # turn
      PROVE \E t \in Turns, status \in Outcomes : Settles(l, t, status)
  <2>1. loop[l].turn # None
    BY <1>5 DEF Inv, LoopOK, TurnHeld, FinishTurn
  <2>2. PICK t \in Turns : t = loop[l].turn
    BY <1>0, <2>1 DEF LoopState
  <2>3. PICK status \in Outcomes : status = StatusOf(loop[l].answer)
    BY DEF StatusOf, Outcomes
  <2>4. Owns(t, loop[l].token) /\ Settle(t, status) /\ loop[l].phase = "finishing"
    BY <1>5, <2>2, <2>3 DEF FinishTurn
  <2>5. turn'[t].status = status /\ \A u \in Turns \ {t} : SameStatus(u)
    BY <1>0, <2>4 DEF Settle, AbsentTurn, SameStatus
  <2>6. turn[t].status = "processing" /\ ~LeaseOver(t) /\ Own(l) = <<t, turn[t].token>>
    BY <2>2, <2>4 DEF Owns, HeldUnder, Own
  <2>7. status = StatusOf(trace[t]) \/ (status = "failed" /\ loop[l].answer = "error")
    <3>1. loop[l].answer \in Results /\ AnswerHeld(loop[l])
      BY <2>4 DEF Inv, LoopOK, AnswerHeld
    <3>2. CASE loop[l].answer \in Valid
      BY <2>2, <2>3, <3>1, <3>2 DEF AnswerHeld
    <3>3. CASE loop[l].answer = "error"
      BY <2>3, <3>3 DEF StatusOf
    <3> QED BY <3>1, <3>2, <3>3 DEF Results
  <2> QED BY <2>4, <2>5, <2>6, <2>7 DEF Settles
<1>6. \/ UNCHANGED turn
      \/ \E l \in Loops : Heartbeat(l) \/ ClaimTurn(l) \/ ApplyRecovery(l) \/ FinishTurn(l)
      \/ \E u \in updates : StageLands(u)
      \/ Tick
      \/ \E c \in Conversations, k \in Keys : SubmitTurn(c, k)
  BY DEF Next, Client, LoopStep, vars, durableVars, ArchiveWorkspace, CreateConversation,
         ArchiveConversation, Observe, ObserveRows, ReadResult, RecoveryEnds, NothingToClaim, ContextFails,
         StartAnswer, SeeAnswer, SeeHeartbeatEnd, SeeDeadline, PollTurn, Drained, AnswerEnds,
         AnswerReturns, AnswerRaises, HeartbeatRaises, ReportStage, Withdraw, ProcessFalls,
         HeartbeatErrorEscapes
<1> QED BY <1>1, <1>2, <1>3, <1>4, <1>5, <1>6, StatusKept

\* Token and times let no late result through: a live turn is settled by the loop that
\* claimed it, an expired one by a recovery that observed it.
THEOREM SettlementIsFenced == Spec => SettlementFenced
<1> DEFINE Fenced ==
       \A t \in Turns : turn[t].status = "processing" /\ turn'[t].status # "processing" =>
          IF LeaseOver(t)
          THEN \E l \in Loops : loop[l].reading = <<t, turn[t].token>>
          ELSE \E l \in Loops : loop[l].phase = "finishing" /\ Own(l) = <<t, turn[t].token>>
<1>1. Inv /\ [Next]_vars => Fenced
  <2> SUFFICES ASSUME Inv, [Next]_vars PROVE Fenced
    OBVIOUS
  <2>1. CASE \A t \in Turns : SameStatus(t)
    BY <2>1 DEF SameStatus
  <2>2. ASSUME NEW m \in Loops, Claims(m) PROVE Fenced
    BY <2>2 DEF Claims, SameStatus
  <2>3. ASSUME NEW m \in Loops, NEW u \in Turns, NEW status \in Outcomes, Settles(m, u, status)
        PROVE Fenced
    BY <2>3 DEF Settles, SameStatus
  <2>4. ASSUME NEW c \in Conversations, NEW n \in Sequence, Asks(c, n) PROVE Fenced
    <3>1. turn[<<c, n>>].status # "processing"
      BY <2>4 DEF Asks, Busy, Asked, Active
    <3> QED BY <2>4, <3>1 DEF Asks, SameStatus
  <2> QED BY <2>1, <2>2, <2>3, <2>4, StatusSteps
<1>2. Spec => [][Fenced]_vars
  BY <1>1, Invariance, PTL DEF Spec
<1> QED BY <1>2 DEF SettlementFenced

\* A result that was durable in time and is still served is what its turn ends with: no
\* recovery loses it, and only the loop whose execution raised behind the durable trace
\* may fail the turn, while its lease is live.
THEOREM DurableAnswersKept == Spec => DurableAnswerKept
<1> DEFINE Kept ==
       \A t \in timely \ withdrawn :
         turn[t].status = "processing" /\ turn'[t].status # "processing" =>
           \/ turn'[t].status = StatusOf(trace[t])
           \/ /\ turn'[t].status = "failed" /\ ~LeaseOver(t)
              /\ \E l \in Loops :
                   /\ loop[l].phase = "finishing" /\ Own(l) = <<t, turn[t].token>>
                   /\ loop[l].answer = "error"
<1>1. Inv /\ [Next]_vars => Kept
  <2> SUFFICES ASSUME Inv, [Next]_vars PROVE Kept
    OBVIOUS
  <2>0. timely \subseteq Turns
    BY DEF Inv, TypeOK
  <2>1. CASE \A t \in Turns : SameStatus(t)
    BY <2>0, <2>1 DEF SameStatus
  <2>2. ASSUME NEW m \in Loops, Claims(m) PROVE Kept
    BY <2>0, <2>2 DEF Claims, SameStatus
  <2>3. ASSUME NEW m \in Loops, NEW u \in Turns, NEW status \in Outcomes, Settles(m, u, status)
        PROVE Kept
    BY <2>0, <2>3 DEF Settles, SameStatus
  <2>4. ASSUME NEW c \in Conversations, NEW n \in Sequence, Asks(c, n) PROVE Kept
    <3>1. turn[<<c, n>>].status # "processing"
      BY <2>4 DEF Asks, Busy, Asked, Active
    <3> QED BY <2>0, <2>4, <3>1 DEF Asks, SameStatus
  <2> QED BY <2>1, <2>2, <2>3, <2>4, StatusSteps
<1>2. Spec => [][Kept]_vars
  BY <1>1, Invariance, PTL DEF Spec
<1> QED BY <1>2 DEF DurableAnswerKept

-----------------------------------------------------------------------------
(* The turns of a conversation are a log                                    *)

\* The turns of a conversation are numbered without a gap, and only the last is active.
InOrder(c) ==
    \A n \in Asked(c) :
        /\ \A m \in 1..n : m \in Asked(c)
        /\ turn[<<c, n>>].status \in Active => \A m \in Asked(c) : m <= n

Length(c) == Cardinality(Asked(c))

LEMMA AskedFinite == ASSUME NEW c \in Conversations PROVE IsFiniteSet(Asked(c)) /\ Length(c) \in Nat
<1>1. Cardinality(Keys) \in Nat
  BY KeysAssumption, FS_CardinalityType
<1>2. IsFiniteSet(Sequence)
  BY <1>1, FS_Interval DEF Sequence
<1>3. Asked(c) \subseteq Sequence
  BY DEF Asked
<1> QED BY <1>2, <1>3, FS_Subset, FS_CardinalityType DEF Length

\* A gapless set of sequence numbers is an interval.
LEMMA AskedInterval == ASSUME NEW c \in Conversations, InOrder(c) PROVE Asked(c) = 1..Length(c)
<1>1. IsFiniteSet(Asked(c)) /\ Length(c) \in Nat
  BY AskedFinite
<1>2. Cardinality(Keys) \in Nat
  BY KeysAssumption, FS_CardinalityType
<1>3. ASSUME NEW n \in Asked(c) PROVE n \in 1..Length(c)
  <2>1. n \in Nat /\ 1 <= n
    BY <1>2 DEF Asked, Sequence
  <2>2. 1..n \subseteq Asked(c)
    BY <1>3 DEF InOrder
  <2>3. Cardinality(1..n) <= Length(c)
    BY <1>1, <2>2, FS_Subset DEF Length
  <2>4. Cardinality(1..n) = n
    BY <2>1, FS_Interval
  <2> QED BY <1>1, <2>1, <2>3, <2>4
<1>4. Asked(c) \subseteq 1..Length(c) /\ IsFiniteSet(1..Length(c)) /\ Cardinality(1..Length(c)) = Length(c)
  BY <1>1, <1>3, FS_Interval
<1> HIDE DEF Length
<1>5. Cardinality(Asked(c)) = Cardinality(1..Length(c))
  BY <1>4 DEF Length
<1> QED BY <1>4, <1>5, FS_Subset

LEMMA OthersKept ==
    ASSUME NEW c \in Conversations, InOrder(c), \A n \in Sequence : SameStatus(<<c, n>>)
    PROVE  InOrder(c)' /\ LogOf(c)' = LogOf(c)
<1>1. Asked(c)' = Asked(c)
  BY DEF Asked, SameStatus
<1>2. Asked(c) = 1..Cardinality(Asked(c)) /\ Asked(c) \subseteq Sequence
  BY AskedInterval DEF Length, Asked
<1>3. \A n \in Asked(c) : turn'[<<c, n>>].status = turn[<<c, n>>].status
  BY <1>2 DEF SameStatus
<1>4. LogOf(c)' = [n \in Asked(c) |-> turn'[<<c, n>>].status]
  BY <1>1, <1>2 DEF LogOf
<1>5. LogOf(c) = [n \in Asked(c) |-> turn[<<c, n>>].status]
  BY <1>2 DEF LogOf
<1>6. LogOf(c)' = LogOf(c)
  BY <1>3, <1>4, <1>5
<1>7. InOrder(c)'
  BY <1>1, <1>3 DEF InOrder
<1> QED BY <1>6, <1>7

\* An active turn is the last of its conversation, and moving it on is a change of the
\* last entry of the log.
LEMMA MoveOn ==
    ASSUME NEW c \in Conversations, InOrder(c), NEW n \in Sequence, NEW to,
           turn[<<c, n>>].status \in Active, turn'[<<c, n>>].status = to, to # "absent",
           \A m \in Sequence \ {n} : SameStatus(<<c, m>>)
    PROVE  /\ n = Len(LogOf(c)) /\ LogOf(c) # <<>>
           /\ LogOf(c)[n] = turn[<<c, n>>].status
           /\ InOrder(c)'
           /\ LogOf(c)' = [LogOf(c) EXCEPT ![n] = to]
<1>0. Length(c) \in Nat
  BY AskedFinite
<1>1. Asked(c) = 1..Length(c) /\ Asked(c) \subseteq Sequence
  BY AskedInterval DEF Asked
<1>2. n \in Asked(c)
  BY DEF Asked, Active
<1>3. n = Length(c)
  <2>1. \A m \in 1..Length(c) : m <= n
    BY <1>1, <1>2 DEF InOrder
  <2>2. n \in 1..Length(c)
    BY <1>1, <1>2
  <2>3. Length(c) \in 1..Length(c)
    BY <1>0, <2>2
  <2>4. Length(c) <= n
    BY <2>1, <2>3
  <2> QED BY <1>0, <2>2, <2>4
<1>4. Asked(c)' = Asked(c)
  BY <1>2 DEF Asked, SameStatus
<1>5. LogOf(c) = [m \in 1..Length(c) |-> turn[<<c, m>>].status]
  BY DEF LogOf, Length
<1>6. LogOf(c)' = [m \in 1..Length(c) |-> turn'[<<c, m>>].status]
  BY <1>4 DEF LogOf, Length
<1>7. \A m \in Asked(c) \ {n} : turn'[<<c, m>>].status = turn[<<c, m>>].status
  BY <1>1 DEF SameStatus
<1>8. InOrder(c)'
  <2>1. ASSUME NEW m \in Asked(c), turn'[<<c, m>>].status \in Active
        PROVE \A k \in Asked(c) : k <= m
    BY <1>7, <2>1 DEF InOrder
  <2> QED BY <1>4, <2>1 DEF InOrder
<1>9. n \in 1..Length(c)
  BY <1>1, <1>2
<1>10. LogOf(c)' = [LogOf(c) EXCEPT ![n] = to]
  <2>1. LogOf(c)' = [m \in 1..Length(c) |-> IF m = n THEN to ELSE turn[<<c, m>>].status]
    BY <1>1, <1>6, <1>7
  <2>2. [LogOf(c) EXCEPT ![n] = to]
           = [m \in 1..Length(c) |-> IF m = n THEN to ELSE turn[<<c, m>>].status]
    BY <1>5, <1>9
  <2> QED BY <2>1, <2>2
<1>11. Len(LogOf(c)) = Length(c)
  BY <1>0, <1>5
<1>12. LogOf(c)[n] = turn[<<c, n>>].status
  BY <1>5, <1>9
<1>13. LogOf(c) # <<>>
  <2>1. Length(c) # 0
    BY <1>0, <1>9
  <2> QED BY <1>11, <2>1
<1> QED BY <1>3, <1>8, <1>10, <1>11, <1>12, <1>13

\* A new turn is a new last entry.
LEMMA AskNext ==
    ASSUME NEW c \in Conversations, InOrder(c), NEW n \in Sequence, Asks(c, n)
    PROVE  /\ LogOf(c) # <<>> => LogOf(c)[Len(LogOf(c))] \notin Active
           /\ InOrder(c)'
           /\ LogOf(c)' = Append(LogOf(c), "queued")
<1>0. Length(c) \in Nat /\ n \in Nat
  BY AskedFinite, KeysAssumption, FS_CardinalityType DEF Sequence
<1>1. Asked(c) = 1..Length(c) /\ Asked(c) \subseteq Sequence
  BY AskedInterval DEF Asked
<1>2. n = Length(c) + 1
  <2>1. /\ \A m \in 1..Length(c) : m < n
        /\ n = 1 \/ n - 1 \in 1..Length(c)
    BY <1>1 DEF Asks, IsNextSequence
  <2>2. CASE Length(c) = 0
    BY <1>0, <2>1, <2>2
  <2>3. CASE Length(c) # 0
    <3>1. Length(c) \in 1..Length(c)
      BY <1>0, <2>3
    <3>2. Length(c) < n
      BY <2>1, <3>1
    <3> QED BY <1>0, <2>1, <2>3, <3>2
  <2> QED BY <2>2, <2>3
<1>3. \A m \in Asked(c) : m # n
  BY <1>0, <1>1, <1>2
<1>4. \A m \in Sequence \ {n} : turn'[<<c, m>>].status = turn[<<c, m>>].status
  <2>1. \A m \in Sequence \ {n} : <<c, m>> \in Turns \ {<<c, n>>}
    BY DEF Turns
  <2> QED BY <2>1 DEF Asks, SameStatus
<1>5. turn'[<<c, n>>].status = "queued"
  BY DEF Asks
<1>6. Asked(c)' = Asked(c) \cup {n}
  BY <1>4, <1>5 DEF Asked
<1>7. Asked(c)' = 1..(Length(c) + 1)
  BY <1>0, <1>1, <1>2, <1>6
<1>8. Cardinality(1..(Length(c) + 1)) = Length(c) + 1
  BY <1>0, FS_Interval
<1>9. Length(c)' = Length(c) + 1
  BY <1>7, <1>8 DEF Length
<1>10. LogOf(c) = [m \in 1..Length(c) |-> turn[<<c, m>>].status]
  BY DEF LogOf, Length
<1>11. LogOf(c)' = [m \in 1..(Length(c) + 1) |-> turn'[<<c, m>>].status]
  BY <1>9 DEF LogOf, Length
<1>12. Len(LogOf(c)) = Length(c)
  BY <1>0, <1>10
<1>13. \A m \in 1..Length(c) : turn'[<<c, m>>].status = turn[<<c, m>>].status
  BY <1>1, <1>3, <1>4
<1>14. LogOf(c)' = Append(LogOf(c), "queued")
  BY <1>0, <1>2, <1>5, <1>10, <1>11, <1>12, <1>13
<1>15. \A m \in Asked(c) : turn[<<c, m>>].status \notin Active
  BY DEF Asks, Busy
<1>16. LogOf(c) # <<>> => LogOf(c)[Len(LogOf(c))] \notin Active
  <2>1. LogOf(c) # <<>> => Length(c) \in 1..Length(c)
    BY <1>0, <1>10
  <2> QED BY <1>1, <1>10, <1>12, <1>15, <2>1
<1>17. InOrder(c)'
  <2>1. ASSUME NEW m \in Asked(c)' PROVE \A k \in 1..m : k \in Asked(c)'
    BY <1>0, <1>7
  <2>2. ASSUME NEW m \in Asked(c)', turn'[<<c, m>>].status \in Active
        PROVE \A k \in Asked(c)' : k <= m
    <3>1. m = n
      BY <1>1, <1>4, <1>6, <1>15, <2>2
    <3> QED BY <1>0, <1>2, <1>7, <3>1
  <2> QED BY <2>1, <2>2 DEF InOrder
<1> QED BY <1>14, <1>16, <1>17

AllInOrder == \A c \in Conversations : InOrder(c)

\* Moving the last turn of c on, seen in the log.
LEMMA MoveOnBar ==
    ASSUME AllInOrder, NEW t \in Turns, NEW to,
           turn[t].status \in Active, turn'[t].status = to, to # "absent",
           \A u \in Turns \ {t} : SameStatus(u)
    PROVE  /\ AllInOrder'
           /\ \E c \in Conversations :
                 /\ LogBar[c] # <<>> /\ LogBar[c][Len(LogBar[c])] = turn[t].status
                 /\ LogBar' = [LogBar EXCEPT ![c][Len(LogBar[c])] = to]
<1>1. PICK c \in Conversations, n \in Sequence : t = <<c, n>>
  BY DEF Turns
<1>2. \A m \in Sequence \ {n} : SameStatus(<<c, m>>)
  <2>1. \A m \in Sequence \ {n} : <<c, m>> \in Turns \ {t}
    BY <1>1 DEF Turns
  <2> QED BY <2>1
<1>3. \A d \in Conversations \ {c} : \A m \in Sequence : SameStatus(<<d, m>>)
  <2>1. \A d \in Conversations \ {c} : \A m \in Sequence : <<d, m>> \in Turns \ {t}
    BY <1>1 DEF Turns
  <2> QED BY <2>1
<1>4. /\ n = Len(LogOf(c)) /\ LogOf(c) # <<>> /\ LogOf(c)[n] = turn[t].status
      /\ InOrder(c)' /\ LogOf(c)' = [LogOf(c) EXCEPT ![n] = to]
  BY <1>1, <1>2, MoveOn DEF AllInOrder
<1>5. \A d \in Conversations \ {c} : InOrder(d)' /\ LogOf(d)' = LogOf(d)
  BY <1>3, OthersKept DEF AllInOrder
<1>6. AllInOrder'
  BY <1>4, <1>5 DEF AllInOrder
<1>7. LogBar[c] = LogOf(c)
  BY DEF LogBar
<1>8. LogBar' = [LogBar EXCEPT ![c] = [LogBar[c] EXCEPT ![n] = to]]
  BY <1>4, <1>5, <1>7 DEF LogBar
<1>9. LogBar' = [LogBar EXCEPT ![c][Len(LogBar[c])] = to]
  BY <1>4, <1>7, <1>8
<1> QED BY <1>4, <1>6, <1>7, <1>9

LEMMA LogStep ==
    ASSUME Inv, AllInOrder, [Next]_vars
    PROVE  AllInOrder' /\ [Log!Next]_LogBar
<1>1. CASE \A t \in Turns : SameStatus(t)
  <2>1. \A c \in Conversations : InOrder(c)' /\ LogOf(c)' = LogOf(c)
    BY <1>1, OthersKept DEF AllInOrder, Turns
  <2> QED BY <2>1 DEF AllInOrder, LogBar
<1>2. ASSUME NEW l \in Loops, Claims(l) PROVE AllInOrder' /\ Log!Next
  <2>1. PICK t \in Turns :
           /\ turn[t].status = "queued" /\ turn'[t].status = "processing"
           /\ \A u \in Turns \ {t} : SameStatus(u)
    BY <1>2 DEF Claims
  <2>2. /\ AllInOrder'
        /\ \E c \in Conversations :
              /\ LogBar[c] # <<>> /\ LogBar[c][Len(LogBar[c])] = "queued"
              /\ LogBar' = [LogBar EXCEPT ![c][Len(LogBar[c])] = "processing"]
    BY <2>1, MoveOnBar DEF Active
  <2> QED BY <2>2 DEF Log!Next, Log!Take, Log!Advance, Log!LastStatus, LogBar
<1>3. ASSUME NEW l \in Loops, NEW t \in Turns, NEW status \in Outcomes, Settles(l, t, status)
      PROVE AllInOrder' /\ Log!Next
  <2>1. /\ turn[t].status = "processing" /\ turn'[t].status = status /\ status # "absent"
        /\ \A u \in Turns \ {t} : SameStatus(u)
    BY <1>3 DEF Settles, Outcomes
  <2>2. /\ AllInOrder'
        /\ \E c \in Conversations :
              /\ LogBar[c] # <<>> /\ LogBar[c][Len(LogBar[c])] = "processing"
              /\ LogBar' = [LogBar EXCEPT ![c][Len(LogBar[c])] = status]
    BY <2>1, MoveOnBar DEF Active
  <2>3. status \in Log!Outcomes
    BY DEF Outcomes, Log!Outcomes
  <2> QED BY <2>2, <2>3 DEF Log!Next, Log!Settle, Log!Advance, Log!LastStatus, LogBar
<1>4. ASSUME NEW c \in Conversations, NEW n \in Sequence, Asks(c, n) PROVE AllInOrder' /\ Log!Next
  <2>1. /\ LogOf(c) # <<>> => LogOf(c)[Len(LogOf(c))] \notin Active
        /\ InOrder(c)' /\ LogOf(c)' = Append(LogOf(c), "queued")
    BY <1>4, AskNext DEF AllInOrder
  <2>2. \A d \in Conversations \ {c} : \A m \in Sequence : SameStatus(<<d, m>>)
    <3>1. \A d \in Conversations \ {c} : \A m \in Sequence : <<d, m>> \in Turns \ {<<c, n>>}
      BY DEF Turns
    <3> QED BY <1>4, <3>1 DEF Asks
  <2>3. \A d \in Conversations \ {c} : InOrder(d)' /\ LogOf(d)' = LogOf(d)
    BY <2>2, OthersKept DEF AllInOrder
  <2>4. AllInOrder'
    BY <2>1, <2>3 DEF AllInOrder
  <2>5. LogBar[c] = LogOf(c)
    BY DEF LogBar
  <2>6. LogBar' = [LogBar EXCEPT ![c] = Append(LogBar[c], "queued")]
    BY <2>1, <2>3, <2>5 DEF LogBar
  <2>7. LogBar[c] # <<>> => LogBar[c][Len(LogBar[c])] \notin Log!Active
    BY <2>1, <2>5 DEF Active, Log!Active
  <2>8. Log!Ask(c)
    BY <2>6, <2>7 DEF Log!Ask, Log!LastStatus, LogBar
  <2> QED BY <2>4, <2>8 DEF Log!Next
<1> QED BY <1>1, <1>2, <1>3, <1>4, StatusSteps

\* The turns of every conversation, seen by its reader, implement ConversationLog: at most
\* one is under way, each is taken up once and settled once, and none changes after that.
THEOREM Implements == Spec => ImplementsLog
<1>1. Init => AllInOrder /\ LogBar = [c \in Conversations |-> <<>>]
  <2> SUFFICES ASSUME Init PROVE AllInOrder /\ LogBar = [c \in Conversations |-> <<>>]
    OBVIOUS
  <2>1. \A c \in Conversations : Asked(c) = {}
    BY DEF Init, Asked, AbsentTurn, Turns
  <2>2. Cardinality({}) = 0
    BY FS_EmptySet
  <2>3. \A c \in Conversations : LogOf(c) = <<>>
    BY <2>1, <2>2 DEF LogOf
  <2> QED BY <2>1, <2>3 DEF AllInOrder, InOrder, LogBar
<1>2. Init => Log!Init
  BY <1>1 DEF Log!Init, LogBar
<1>3. Inv /\ AllInOrder /\ [Next]_vars => AllInOrder' /\ [Log!Next]_LogBar
  BY LogStep
<1>4. Spec => Log!Init /\ [][Log!Next]_LogBar
  BY <1>1, <1>2, <1>3, Invariance, PTL DEF Spec
<1> QED BY <1>4 DEF ImplementsLog, Log!LogSpec

=============================================================================
