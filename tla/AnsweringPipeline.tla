------------------------- MODULE AnsweringPipeline -------------------------
(***************************************************************************)
(* One question: AnsweringModule.execute from its admission to its trace   *)
(* and result, the recovery loop of generate_with_recovery inside it, and  *)
(* the event stream of execute_stream around it.                           *)
(*                                                                         *)
(* The question runs in one asyncio task.  Between two awaits nothing else *)
(* of the process runs: it can be cancelled, by the deadline or because    *)
(* the client went away, only where it awaits, and the stream emits only   *)
(* then.  Other processes change the corpus at any time, which revokes the *)
(* snapshot that was retrieved; LexicalIndexing says when.                 *)
(*                                                                         *)
(* An answer stands for its text (the digest of it), and what a provider   *)
(* or the verifier says is chosen freely among what the code tells apart.  *)
(***************************************************************************)
EXTENDS Naturals, Sequences

CONSTANTS
    Answers,
    None,
    MaxCalls   \* bound of the calls that are answered; a later one ends by the deadline

VARIABLES
    deployment,  \* what is configured
    pc,          \* where the task is
    valid,       \* the retrieved snapshot is authoritative still
    rec,         \* the locals of generate_with_recovery and its GenerationRecovery
    trace,       \* the row of question_traces
    outcome,     \* what execute returned or raised
    admission,
    queue,       \* stages not yet emitted
    events,      \* what the stream has emitted
    listening,   \* the client is there
    calls,       \* calls begun
    refuted      \* answers that a verification has found unsupported

stream == <<queue, events, listening>>
vars == <<deployment, pc, valid, rec, trace, outcome, admission, stream, calls, refuted>>

\* v3: a retrieval configuration of the third milestone; a Cloudflare model with an answer
\* contract comes with a verifier, and only such a model has one.
Deployments == {d \in [v3 : BOOLEAN, cloudflare : BOOLEAN, verifier : BOOLEAN] :
                    d.verifier => d.cloudflare}

Generation == [decision : {"ANSWER", "REFUSAL"}, answer : Answers \cup {None}]
Support == [answer : Answers \cup {None}, status : {"invalid", "unavailable", "supported",
                                                    "insufficient"}]
Phases == {"source_generation", "generation", "source_sufficiency", "verification", "repair",
           "prune", "source_repair"}
Recovery == [phase : Phases, gen : Generation \cup {None}, support : Support \cup {None},
             feedback : BOOLEAN, rejected : SUBSET (Answers \cup {None}),
             failures : SUBSET (Phases \X (Generation \cup {None})), checked : BOOLEAN,
             inventory : {"unknown", "facts", "empty"}, pruned : Answers \cup {None},
             tried : SUBSET Phases]
Trace == [decision : {"ANSWER", "REFUSAL", "ERROR"}, answer : Answers \cup {None},
          validation : {"not_applicable", "valid", "invalid"}, support : Support \cup {None}]

ASSUME NoneAssumption ==
    None \notin Answers \cup Generation \cup Support \cup Trace \cup {"ANSWER", "REFUSAL", "ERROR"}

\* Where the task awaits: the embedding of the question, or a call of a provider.
Awaiting == pc \in {"embedding", "calling"}

TypeOK ==
    /\ deployment \in Deployments
    /\ pc \in {"started", "embedding", "retrieved", "recovering", "calling", "generated", "failing",
               "delivering", "done"}
    /\ valid \in BOOLEAN
    /\ rec \in Recovery
    /\ trace \in Trace \cup {None}
    /\ outcome \in {"ANSWER", "REFUSAL", "ERROR", None}
    /\ admission \in {"open", "closed"}
    /\ queue \in Seq({"retrieving", "selecting_evidence", "generating"})
    /\ events \in Seq({"started", "retrieving", "selecting_evidence", "generating", "refusal",
                       "failure", "final_validated"})
    /\ listening \in BOOLEAN
    /\ calls \in 0..(MaxCalls + 1)
    /\ refuted \in SUBSET Answers

\* With a verifier an answer is first composed of the facts it finds in the sources.
Init ==
    /\ deployment \in Deployments
    /\ pc = "started"
    /\ valid = TRUE
    /\ rec = [phase |-> IF deployment.v3 /\ deployment.verifier THEN "source_generation"
                        ELSE "generation",
              gen |-> None, support |-> None, feedback |-> FALSE, rejected |-> {},
              failures |-> {}, checked |-> FALSE, inventory |-> "unknown", pruned |-> None,
              tried |-> {}]
    /\ trace = None /\ outcome = None
    /\ admission = "open"
    /\ queue = <<"retrieving">> /\ events = <<"started">>
    /\ listening = TRUE
    /\ calls = 0
    /\ refuted = {}

----------------------------------------------------------------------------
Retrieving == pc \in {"started", "embedding"}

\* The corpus changes after retrieval.
Revoke ==
    /\ valid /\ ~Retrieving
    /\ valid' = FALSE
    /\ UNCHANGED <<deployment, pc, rec, trace, outcome, admission, stream, calls, refuted>>

\* Mutant of End: an error leaves the admission open.
End_open(result) ==
    /\ outcome' = result
    /\ admission' = IF result = "ERROR" THEN admission ELSE "closed"
    /\ pc' = "done"

\* The finally of execute closes the admission on every way out.
End(result) ==
    /\ outcome' = result
    /\ admission' = "closed"
    /\ pc' = "done"

----------------------------------------------------------------------------
\* Retrieval.

NoGeneration == [decision |-> "REFUSAL", answer |-> None, validation |-> "not_applicable",
                 support |-> None]

\* More required groups than four: the question is refused before anything is retrieved, and
\* its trace names no snapshot.  An error hides a commit whose acknowledgement was lost.
Clarify ==
    /\ pc = "started"
    /\ trace' = NoGeneration
    /\ \E result \in {"REFUSAL", "ERROR"} : End(result)
    /\ UNCHANGED <<deployment, valid, rec, stream, calls, refuted>>

Embed ==
    /\ pc = "started"
    /\ pc' = "embedding"
    /\ UNCHANGED <<deployment, valid, rec, trace, outcome, admission, stream, calls, refuted>>

\* A configuration of BM25 only does not embed the question.  The next stage is recorded
\* before the evidence is selected, and nothing is awaited until the generation.
Retrieve ==
    /\ Retrieving
    /\ pc' = "retrieved"
    /\ queue' = Append(queue, "selecting_evidence")
    /\ UNCHANGED <<deployment, valid, rec, trace, outcome, admission, events, listening, calls,
                   refuted>>

\* The corpus is not indexed, an embedding is refused, or two queries saw different snapshots.
RetrieveFails ==
    /\ Retrieving
    /\ End("ERROR")
    /\ UNCHANGED <<deployment, valid, rec, trace, stream, calls, refuted>>

\* Too little was selected.  persist_trace asks in its transaction whether the snapshot is
\* authoritative.
NoEvidence ==
    /\ pc = "retrieved"
    /\ IF valid
       THEN /\ trace' = NoGeneration
            /\ \E result \in {"REFUSAL", "ERROR"} : End(result)
       ELSE End("ERROR") /\ UNCHANGED trace
    /\ UNCHANGED <<deployment, valid, rec, stream, calls, refuted>>

\* The stage is recorded, then the snapshot revalidated, outside the try that keeps a trace.
Generate ==
    /\ pc = "retrieved"
    /\ queue' = Append(queue, "generating")
    /\ IF valid THEN pc' = "recovering" /\ UNCHANGED <<outcome, admission>> ELSE End("ERROR")
    /\ UNCHANGED <<deployment, valid, rec, trace, events, listening, calls, refuted>>

----------------------------------------------------------------------------
\* generate_with_recovery.  Every round begins with a revalidation.

Revoked == deployment.v3 /\ ~valid

Fail(r) == rec' = r /\ pc' = "failing"

Call ==
    /\ pc = "recovering" /\ rec.phase \notin {"prune", "source_repair"}
    /\ IF Revoked
       THEN Fail(rec) /\ UNCHANGED calls
       ELSE /\ rec' = [rec EXCEPT
                   !.tried = @ \cup {rec.phase},
                   !.checked = @ \/ rec.phase = "source_sufficiency",
                   !.gen = IF rec.phase \in {"generation", "repair"} THEN None ELSE @]
            /\ pc' = "calling"
            /\ calls' = IF calls <= MaxCalls THEN calls + 1 ELSE calls
    /\ UNCHANGED <<deployment, valid, trace, outcome, admission, stream, refuted>>

\* Mutant of Candidate: answers that were rejected are not looked up.
Candidate_again(r, a) ==
    LET g == [decision |-> "ANSWER", answer |-> a] IN
    IF ~deployment.verifier
    THEN Fail([r EXCEPT !.gen = g])
    ELSE /\ rec' = [r EXCEPT !.gen = g, !.phase = "verification",
                             !.support = [answer |-> a, status |-> "invalid"]]
         /\ pc' = "recovering"

\* An answer of Cloudflare has to be verified, and only if it was not rejected before.
Candidate(r, a) ==
    LET g == [decision |-> "ANSWER", answer |-> a] IN
    IF ~deployment.verifier \/ a \in r.rejected
    THEN Fail([r EXCEPT !.gen = g])
    ELSE /\ rec' = [r EXCEPT !.gen = g, !.phase = "verification",
                             !.support = [answer |-> a, status |-> "invalid"]]
         /\ pc' = "recovering"

\* A candidate composed of the facts found, or of the statements that were not rejected, is
\* a candidate like any other.
Recompose ==
    /\ pc = "recovering" /\ rec.phase \in {"prune", "source_repair"}
    /\ IF Revoked THEN Fail(rec)
       ELSE Candidate([rec EXCEPT !.tried = @ \cup {rec.phase}], rec.pruned)
    /\ UNCHANGED <<deployment, valid, trace, outcome, admission, stream, calls, refuted>>

\* A call that ends with GENERATION_OUTPUT_INVALID.  kind is the failure observed: "ready" is
\* the inventory of facts that the first verification makes, "unfounded" an empty one;
\* mismatch: an explicit fact differs; missing: facts of the sources are not in the answer;
\* part: some statements, not all, were rejected.
Observations == [kind : {"unsupported", "unfounded", "ready", "malformed", "other"},
                 mismatch : BOOLEAN, missing : BOOLEAN, part : BOOLEAN]
Plain(kind) == [kind |-> kind, mismatch |-> FALSE, missing |-> FALSE, part |-> FALSE]

\* The facts observed are composed to an answer, once, and again while facts are missing.
Composes(r, o) ==
    /\ o.kind \in {"unsupported", "ready"} /\ ~o.mismatch
    /\ o.missing \/ "source_repair" \notin r.tried

\* Sufficiency is asked once; facts of an audit are first tried in one repair.
Doubts(r, o) ==
    /\ r.phase = "verification" /\ o.kind \in {"unsupported", "unfounded"}
    /\ ~(o.kind = "unsupported" /\ ~o.mismatch /\ "repair" \notin r.tried)
    /\ ~r.checked

\* The except branch: what is tried next.  An observation seen before for the same candidate in
\* the same phase ends the recovery; one of another wording does not.
Recovers(r, o) ==
    LET failed == <<r.phase, r.gen>>
        again == [r EXCEPT !.failures = @ \cup {failed}, !.feedback = TRUE]
        next == [again EXCEPT !.rejected = IF r.gen = None \/ o.kind = "ready" THEN @
                                           ELSE @ \cup {r.gen.answer}]
    IN  \/ ~(deployment.v3 /\ deployment.cloudflare) /\ Fail(r)
        \/ failed \in r.failures /\ Fail(r)
        \/ (Composes(r, o) \/ o.part) /\ Fail(next)   \* the composition is refused
        \/ /\ deployment.v3 /\ deployment.cloudflare
           /\ pc' = "recovering"
           /\ IF r.phase = "verification" /\ o.kind = "malformed"
              THEN rec' = again
              ELSE \E a, b \in Answers :
                  /\ o.part => b # r.gen.answer
                  /\ rec' = IF Composes(r, o) /\ a \notin next.rejected
                            THEN [next EXCEPT !.pruned = a, !.phase = "source_repair"]
                            ELSE IF o.part
                            THEN [next EXCEPT !.pruned = b, !.phase = "prune"]
                            ELSE [next EXCEPT !.phase = IF Doubts(r, o)
                                                        THEN "source_sufficiency" ELSE "repair"]

\* An answer to a call comes back, and the snapshot is revalidated.
Returned == pc = "calling" /\ calls <= MaxCalls
Proposing == rec.phase \in {"source_generation", "generation", "repair"}

\* The provider generated an answer; source_generation composed it of the facts found.
Generated(a) ==
    LET g == [decision |-> "ANSWER", answer |-> a] IN
    /\ Returned /\ Proposing
    /\ IF Revoked THEN Fail([rec EXCEPT !.gen = g])
       ELSE IF deployment.v3 /\ deployment.cloudflare
       THEN Candidate([rec EXCEPT !.inventory = IF rec.phase = "source_generation" THEN "facts"
                                                ELSE @], a)
       ELSE rec' = [rec EXCEPT !.gen = g] /\ pc' = "generated"
    /\ UNCHANGED <<deployment, valid, trace, outcome, admission, stream, calls, refuted>>

\* Mutant of GeneratedRefusal: a refusal is one, also after a failure.
GeneratedRefusal_afterFailure ==
    /\ Returned /\ rec.phase \in {"generation", "repair"}
    /\ LET r == [rec EXCEPT !.gen = [decision |-> "REFUSAL", answer |-> None]] IN
       IF Revoked THEN Fail(r) ELSE rec' = r /\ pc' = "generated"
    /\ UNCHANGED <<deployment, valid, trace, outcome, admission, stream, calls, refuted>>

\* It refused.  After a failure a refusal is none: only insufficient sources make it one.
GeneratedRefusal ==
    /\ Returned /\ rec.phase \in {"generation", "repair"}
    /\ LET r == [rec EXCEPT !.gen = [decision |-> "REFUSAL", answer |-> None]] IN
       IF Revoked \/ (deployment.v3 /\ deployment.cloudflare /\ r.feedback)
       THEN Fail(r)
       ELSE rec' = r /\ pc' = "generated"
    /\ UNCHANGED <<deployment, valid, trace, outcome, admission, stream, calls, refuted>>

\* The inventory found no facts to compose an answer of.
NothingFound ==
    /\ Returned /\ rec.phase = "source_generation"
    /\ IF Revoked THEN Fail(rec)
       ELSE /\ rec' = [rec EXCEPT !.gen = [decision |-> "REFUSAL", answer |-> None],
                                  !.support = [answer |-> None, status |-> "invalid"],
                                  !.feedback = TRUE, !.phase = "source_sufficiency"]
            /\ pc' = "recovering"
    /\ UNCHANGED <<deployment, valid, trace, outcome, admission, stream, calls, refuted>>

\* What was generated has no valid structure, and was parsed to an answer or was not.  The
\* error is raised before the snapshot is revalidated, or after.
Misgenerated(g) ==
    /\ Returned /\ Proposing
    /\ rec.phase = "source_generation" => g = None
    /\ IF Revoked THEN Fail([rec EXCEPT !.gen = g])
       ELSE Recovers([rec EXCEPT !.gen = g], Plain("other"))
    /\ UNCHANGED <<deployment, valid, trace, outcome, admission, stream, calls, refuted>>

\* The provider cannot be reached, or a failed completion does not tell its provider.
CallFails ==
    /\ Returned
    /\ Fail([rec EXCEPT !.support = IF rec.phase = "verification" /\ @ # None
                                    THEN [@ EXCEPT !.status = "unavailable"] ELSE @])
    /\ UNCHANGED <<deployment, valid, trace, outcome, admission, stream, calls, refuted>>

\* The verifier audits the answer against the facts of its inventory.
Supported ==
    /\ Returned /\ rec.phase = "verification" /\ rec.inventory = "facts"
    /\ IF Revoked THEN Fail(rec)
       ELSE /\ rec' = [rec EXCEPT !.support.status = "supported"]
            /\ pc' = "generated"
    /\ UNCHANGED <<deployment, valid, trace, outcome, admission, stream, calls, refuted>>

\* It refuses the answer, or its own output is invalid; an inventory is made once and kept.
Verified(o) ==
    /\ Returned /\ rec.phase = "verification"
    /\ CASE rec.inventory = "unknown" -> o.kind \in {"unfounded", "ready", "malformed"}
         [] rec.inventory = "empty"   -> o.kind = "unfounded"
         [] OTHER                     -> o.kind \in {"unsupported", "malformed", "other"}
    /\ o.kind # "unsupported" => o = Plain(o.kind)
    /\ IF Revoked
       THEN Fail(rec) /\ UNCHANGED refuted
       ELSE /\ Recovers([rec EXCEPT !.inventory = CASE o.kind = "unfounded" -> "empty"
                                                    [] o.kind = "ready"     -> "facts"
                                                    [] OTHER                -> @], o)
            /\ refuted' = IF o.kind \in {"unsupported", "unfounded"}
                          THEN refuted \cup {rec.gen.answer} ELSE refuted
    /\ UNCHANGED <<deployment, valid, trace, outcome, admission, stream, calls>>

\* The sources do not answer the question: what was generated gives way to a refusal.
Insufficient ==
    /\ Returned /\ rec.phase = "source_sufficiency"
    /\ IF Revoked THEN Fail(rec)
       ELSE /\ rec' = [rec EXCEPT !.gen = [decision |-> "REFUSAL", answer |-> None],
                                  !.support.status = "insufficient"]
            /\ pc' = "generated"
    /\ UNCHANGED <<deployment, valid, trace, outcome, admission, stream, calls, refuted>>

Answerable ==
    /\ Returned /\ rec.phase = "source_sufficiency"
    /\ IF Revoked THEN Fail(rec)
       ELSE rec' = [rec EXCEPT !.phase = "repair"] /\ pc' = "recovering"
    /\ UNCHANGED <<deployment, valid, trace, outcome, admission, stream, calls, refuted>>

\* The task is cancelled where it awaits; a call that was under way leaves a trace.
Cancelled ==
    \/ pc = "embedding" /\ End("ERROR") /\ UNCHANGED rec
    \/ pc = "calling" /\ Fail(rec) /\ UNCHANGED <<outcome, admission>>

\* The 90 seconds of the request are over.
Deadline ==
    /\ Cancelled
    /\ UNCHANGED <<deployment, valid, trace, stream, calls, refuted>>

----------------------------------------------------------------------------
\* The trace and the result.

\* The except branch of _execute_admitted: the trace of what failed, if the snapshot allows one.
KeepFailure ==
    /\ pc = "failing"
    /\ IF valid
       THEN trace' = [decision |-> IF rec.gen = None THEN "ERROR" ELSE rec.gen.decision,
                      answer |-> IF rec.gen = None THEN None ELSE rec.gen.answer,
                      validation |-> "invalid", support |-> rec.support]
       ELSE UNCHANGED trace
    /\ End("ERROR")
    /\ UNCHANGED <<deployment, valid, rec, stream, calls, refuted>>

\* The final validation of what was not verified refuses it, inside the try.
Unusable ==
    /\ pc = "generated" /\ ~(deployment.v3 /\ deployment.cloudflare)
    /\ Fail(rec)
    /\ UNCHANGED <<deployment, valid, trace, outcome, admission, stream, calls, refuted>>

\* persist_trace decodes the proof of an answer again.
Proven(t) ==
    t.decision = "ANSWER" /\ t.support # None =>
        t.support = [answer |-> t.answer, status |-> "supported"]

Keep ==
    LET t == [decision |-> rec.gen.decision, answer |-> rec.gen.answer,
              validation |-> "valid", support |-> rec.support]
    IN  /\ pc = "generated"
        /\ IF valid /\ Proven(t)
           THEN trace' = t /\ pc' = "delivering" /\ UNCHANGED <<outcome, admission>>
           ELSE End("ERROR") /\ UNCHANGED trace
        /\ UNCHANGED <<deployment, valid, rec, stream, calls, refuted>>

\* Mutant of Deliver: the snapshot is not revalidated.
Deliver_unchecked ==
    /\ pc = "delivering"
    /\ End(trace.decision)
    /\ UNCHANGED <<deployment, valid, rec, trace, stream, calls, refuted>>

\* Final revalidation: the corpus may have changed since the trace was stored.
Deliver ==
    /\ pc = "delivering"
    /\ End(IF Revoked THEN "ERROR" ELSE trace.decision)
    /\ UNCHANGED <<deployment, valid, rec, trace, stream, calls, refuted>>

\* A database error is no KnoraError: it leaves execute at once and keeps no trace of what was
\* under way.  One that was stored may be: its acknowledgement is lost, or the last
\* revalidation fails.
StoreFails ==
    /\ \/ deployment.v3 /\ (pc = "recovering" \/ Returned)
       \/ pc \in {"retrieved", "failing", "generated", "delivering"}
    /\ End("ERROR")
    /\ UNCHANGED <<deployment, valid, rec, trace, stream, calls, refuted>>

----------------------------------------------------------------------------
\* execute_stream.

Emit ==
    /\ listening /\ (Awaiting \/ pc = "done")
    /\ queue # <<>>
    /\ events' = Append(events, Head(queue)) /\ queue' = Tail(queue)
    /\ UNCHANGED <<deployment, pc, valid, rec, trace, outcome, admission, listening, calls,
                   refuted>>

Terminal == CASE outcome = "ANSWER"  -> "final_validated"
              [] outcome = "REFUSAL" -> "refusal"
              [] OTHER               -> "failure"

\* Mutant of Finish: stages in the queue are not waited for.
Finish_early ==
    /\ listening /\ pc = "done"
    /\ events' = Append(events, Terminal)
    /\ listening' = FALSE
    /\ UNCHANGED <<deployment, pc, valid, rec, trace, outcome, admission, queue, calls, refuted>>

\* The stream ends when the task is done and every stage was emitted.
Finish ==
    /\ listening /\ pc = "done" /\ queue = <<>>
    /\ events' = Append(events, Terminal)
    /\ listening' = FALSE
    /\ UNCHANGED <<deployment, pc, valid, rec, trace, outcome, admission, queue, calls, refuted>>

\* The client goes away: the finally of the generator cancels the task.
Disconnect ==
    /\ listening
    /\ listening' = FALSE
    /\ Cancelled \/ (pc = "done" /\ UNCHANGED <<pc, rec, outcome, admission>>)
    /\ UNCHANGED <<deployment, valid, trace, queue, events, calls, refuted>>

----------------------------------------------------------------------------
Return ==
    \/ \E a \in Answers : Generated(a)
    \/ GeneratedRefusal \/ NothingFound
    \/ \E g \in {[decision |-> "ANSWER", answer |-> a] : a \in Answers} \cup {None} :
           Misgenerated(g)
    \/ CallFails \/ Supported
    \/ \E o \in Observations : Verified(o)
    \/ Insufficient \/ Answerable

\* What the task does without waiting for anybody.
Run == Embed \/ Generate \/ Call \/ Recompose \/ KeepFailure \/ Keep \/ Deliver

Next ==
    \/ Clarify \/ Retrieve \/ RetrieveFails \/ NoEvidence
    \/ Run \/ Return \/ Unusable \/ StoreFails
    \/ Revoke \/ Deadline
    \/ Emit \/ Finish \/ Disconnect

Spec == Init /\ [][Next]_vars

\* The event loop resumes the task, and asyncio.timeout is armed from the start.
FairSpec == Spec /\ WF_vars(Run) /\ WF_vars(Deadline)

----------------------------------------------------------------------------
\* An answer that has to be verified is returned only if the verifier found that very answer
\* supported, and never if a verification had refused it before (generate_with_recovery:
\* rejected_answers, validate_trace_support).
AnswersAreProven ==
    outcome = "ANSWER" /\ deployment.v3 /\ deployment.cloudflare =>
        /\ trace.support = [answer |-> trace.answer, status |-> "supported"]
        /\ trace.answer \notin refuted

\* Once something failed, neither a provider nor a repair can talk the question away: a refusal
\* is kept only because the sources were found insufficient.
RefusalsAreEarned ==
    trace # None /\ trace.decision = "REFUSAL" /\ trace.validation = "valid" /\ rec.feedback =>
        trace.support # None /\ trace.support.status = "insufficient"

\* What the corpus no longer vouches for does not leave the process: no trace is stored of it,
\* and under a configuration of v3 no call begins and no result is returned.
RevokedStaysInside ==
    [][~valid => /\ trace' = trace
                 /\ deployment.v3 => calls' = calls /\ outcome' \in {outcome, "ERROR"}]_vars

\* The stream tells the stages in their order, no success before all of them were told, and ends
\* once with what execute came to.
StreamTellsAll ==
    LET told == {i \in DOMAIN events : events[i] \in {"refusal", "failure", "final_validated"}}
    IN  /\ told \subseteq {Len(events)}
        /\ told # {} => events[Len(events)] = Terminal
        /\ events[Len(events)] = "final_validated" =>
               events = <<"started", "retrieving", "selecting_evidence", "generating",
                          "final_validated">>

\* Every question ends, whatever providers, corpus and client do, and its admission is closed.
QuestionEnds == <>(outcome # None /\ admission = "closed")
=============================================================================
