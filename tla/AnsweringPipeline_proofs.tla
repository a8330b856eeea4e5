---------------------- MODULE AnsweringPipeline_proofs ----------------------
(***************************************************************************)
(* Proofs about AnsweringPipeline for any set of answers and any bound of  *)
(* the calls.                                                              *)
(*                                                                         *)
(* The argument follows a candidate through the rounds of the recovery:    *)
(* what a verification refuted is among the rejected answers from then on, *)
(* a candidate that is verified is not among them, and the support that is *)
(* kept beside it names its answer.  A refusal after a failure comes from  *)
(* the look at the sources only, and failures are survived by verified     *)
(* deployments only.                                                       *)
(***************************************************************************)
EXTENDS AnsweringPipeline, SequenceTheorems, TLAPS

\* The deployments that verify what they return, or fail.
Verifying == deployment.v3 /\ deployment.cloudflare

Types ==
    /\ deployment \in Deployments
    /\ pc \in {"started", "embedding", "retrieved", "recovering", "calling", "generated",
               "failing", "delivering", "done"}
    /\ valid \in BOOLEAN
    /\ rec \in Recovery
    /\ trace \in Trace \cup {None}
    /\ outcome \in {"ANSWER", "REFUSAL", "ERROR", None}
    /\ refuted \in SUBSET Answers

\* Where an outcome and a trace may be.
Stages ==
    /\ Retrieving => valid
    /\ outcome # None => pc = "done"
    /\ trace # None => pc \in {"delivering", "done"}

\* Only a verified deployment goes on after a failure.
Survives(r) ==
    /\ r.phase # "generation" => Verifying
    /\ r.feedback => Verifying

\* r holds a candidate that no verification has refuted.
Candidature(r) ==
    /\ r.gen \in Generation /\ r.gen.decision = "ANSWER"
    /\ r.gen.answer \in Answers \ r.rejected
    /\ r.support = [answer |-> r.gen.answer, status |-> "invalid"]

\* What a round of the recovery needs, in r.
Ready(r) ==
    /\ r.phase = "verification" => Candidature(r)
    /\ r.phase = "source_sufficiency" => r.support \in Support
    /\ r.phase \in {"prune", "source_repair"} => r.pruned \in Answers

Rounds(r) == Ready(r) /\ (Verifying => refuted \subseteq r.rejected)

\* What may be said of an answer or a refusal with this support.
Earned(decision, answer, support) ==
    /\ decision = "ANSWER" /\ Verifying =>
           support = [answer |-> answer, status |-> "supported"] /\ answer \notin refuted
    /\ decision = "REFUSAL" /\ rec.feedback => support # None /\ support.status = "insufficient"

Kept == trace # None /\ trace.validation = "valid"

Inv ==
    /\ Types
    /\ Stages
    /\ Survives(rec)
    /\ pc \in {"started", "embedding", "retrieved", "recovering", "calling"} => Rounds(rec)
    /\ pc = "generated" =>
           rec.gen \in Generation /\ Earned(rec.gen.decision, rec.gen.answer, rec.support)
    /\ pc = "delivering" => Kept
    /\ Kept => Earned(trace.decision, trace.answer, trace.support)
    /\ outcome = "ANSWER" => Kept /\ trace.decision = "ANSWER"

----------------------------------------------------------------------------
LEMMA InitInv == Init => Inv
<1> SUFFICES ASSUME Init PROVE Inv
  OBVIOUS
<1>1. rec \in Recovery
  BY DEF Init, Recovery, Phases
<1>2. /\ trace = None /\ outcome = None /\ pc = "started" /\ valid = TRUE /\ refuted = {}
      /\ deployment \in Deployments
  BY DEF Init
<1>3. /\ rec.phase \in {"source_generation", "generation"} /\ rec.feedback = FALSE
      /\ rec.phase = "source_generation" => deployment.v3 /\ deployment.verifier
  BY DEF Init
<1>4. deployment.verifier => deployment.cloudflare
  BY <1>2 DEF Deployments
<1> QED
  BY <1>1, <1>2, <1>3, <1>4, NoneAssumption
  DEF Inv, Types, Stages, Retrieving, Survives, Verifying, Rounds, Ready, Kept

\* The fields of a Recovery may be set one or two at a time.
LEMMA SetField ==
    ASSUME NEW r \in Recovery, NEW p \in Phases, NEW g \in Generation \cup {None},
           NEW s \in Support \cup {None}, NEW b \in BOOLEAN, NEW t \in SUBSET Phases,
           NEW i \in {"unknown", "facts", "empty"}, NEW a \in Answers
    PROVE  /\ [r EXCEPT !.gen = g] \in Recovery
           /\ [r EXCEPT !.support = s] \in Recovery
           /\ [r EXCEPT !.gen = g, !.support = s] \in Recovery
           /\ [r EXCEPT !.gen = g, !.phase = p, !.support = s] \in Recovery
           /\ [r EXCEPT !.tried = t] \in Recovery
           /\ [r EXCEPT !.inventory = i] \in Recovery
           /\ [r EXCEPT !.phase = p] \in Recovery
           /\ [r EXCEPT !.pruned = a, !.phase = p] \in Recovery
           /\ [r EXCEPT !.gen = g, !.support = s, !.feedback = b, !.phase = p] \in Recovery
  BY DEF Recovery

LEMMA SetCall ==
    ASSUME NEW r \in Recovery, NEW g \in Generation \cup {None}, NEW b \in BOOLEAN,
           NEW t \in SUBSET Phases
    PROVE  [r EXCEPT !.tried = t, !.checked = b, !.gen = g] \in Recovery
  BY DEF Recovery

\* Steps that leave the recovery and the records alone.
LEMMA Unmoved ==
    ASSUME Inv, UNCHANGED <<deployment, pc, rec, trace, outcome, refuted>>, valid' \in BOOLEAN,
           Retrieving => valid'
    PROVE  Inv'
  BY DEF Inv, Types, Stages, Retrieving, Survives, Verifying, Rounds, Ready, Candidature, Earned, Kept

\* The task fails with r.
LEMMA FailInv ==
    ASSUME Inv, pc \in {"recovering", "calling", "generated"},
           NEW r \in Recovery, Survives(r), Fail(r),
           UNCHANGED <<deployment, valid, trace, outcome>>, refuted' \in SUBSET Answers
    PROVE  Inv'
<1>1. pc' = "failing" /\ rec' = r /\ outcome = None /\ trace = None
  BY DEF Fail, Inv, Stages
<1>2. Types' /\ Stages' /\ Survives(rec)'
  BY <1>1 DEF Inv, Types, Stages, Retrieving, Survives, Verifying
<1> QED
  BY <1>1, <1>2 DEF Inv, Kept

\* The recovery goes on with r.
LEMMA RoundInv ==
    ASSUME Inv, pc \in {"recovering", "calling"},
           NEW r \in Recovery, Survives(r), Ready(r), pc' \in {"recovering", "calling"},
           rec' = r, UNCHANGED <<deployment, valid, trace, outcome>>,
           refuted' \in SUBSET Answers, Verifying => refuted' \subseteq r.rejected
    PROVE  Inv'
<1>1. outcome = None /\ trace = None
  BY DEF Inv, Stages
<1>2. Types' /\ Stages' /\ Survives(rec)'
  BY <1>1 DEF Inv, Types, Stages, Retrieving, Survives, Verifying
<1>3. Rounds(rec)'
  BY DEF Rounds, Ready, Candidature, Verifying
<1> QED
  BY <1>1, <1>2, <1>3 DEF Inv, Kept

----------------------------------------------------------------------------
\* A candidate is verified only if it was not rejected before.
LEMMA CandidateInv ==
    ASSUME Inv, pc \in {"recovering", "calling"}, Verifying,
           NEW r \in Recovery, refuted \subseteq r.rejected, NEW a \in Answers, Candidate(r, a),
           UNCHANGED <<deployment, valid, trace, outcome>>, refuted' = refuted
    PROVE  Inv'
<1> DEFINE g == [decision |-> "ANSWER", answer |-> a]
           s == [answer |-> a, status |-> "invalid"]
           held == [r EXCEPT !.gen = g]
           taken == [r EXCEPT !.gen = g, !.phase = "verification", !.support = s]
<1>1. g \in Generation /\ s \in Support /\ "verification" \in Phases
  BY DEF Generation, Support, Phases
<1>2. held \in Recovery /\ taken \in Recovery
  BY <1>1, SetField
<1>3. Survives(held) /\ Survives(taken)
  BY DEF Survives
<1>4. CASE Fail(held)
  BY <1>2, <1>3, <1>4, FailInv DEF Inv, Types
<1>5. CASE rec' = taken /\ pc' = "recovering" /\ a \notin r.rejected
  <2>1. /\ taken.gen = g /\ taken.support = s /\ taken.phase = "verification"
        /\ taken.rejected = r.rejected
    BY DEF Recovery
  <2>2. Ready(taken) /\ refuted \subseteq taken.rejected
    <3> HIDE DEF taken
    <3> QED
      BY <1>1, <1>5, <2>1 DEF Ready, Candidature
  <2> HIDE DEF taken
  <2> QED
    BY <1>2, <1>3, <1>5, <2>2, RoundInv DEF Inv, Types
<1> QED
  BY <1>4, <1>5 DEF Candidate

\* What the except branch makes of r: the task fails, or a verifying one goes on, and a candidate
\* that was refuted is rejected.
LEMMA RecoversEffect ==
    ASSUME NEW r \in Recovery, NEW o \in Observations, Survives(r), Recovers(r, o),
           r.phase = "verification" => Candidature(r), ~Verifying => o = Plain("other")
    PROVE  \E n \in Recovery :
               /\ Survives(n)
               /\ \/ Fail(n)
                  \/ /\ Verifying
                     /\ pc' = "recovering" /\ rec' = n
                     /\ r.rejected \subseteq n.rejected
                     /\ r.gen # None /\ o.kind \in {"unsupported", "unfounded"} =>
                            r.gen.answer \in n.rejected
                     /\ Ready(n)
<1> DEFINE failed == <<r.phase, r.gen>>
           more == r.failures \cup {failed}
           again == [r EXCEPT !.failures = more, !.feedback = TRUE]
           reject == IF r.gen = None \/ o.kind = "ready" THEN again.rejected
                     ELSE again.rejected \cup {r.gen.answer}
           next == [again EXCEPT !.rejected = reject]
<1>1. /\ failed \in Phases \X (Generation \cup {None})
      /\ r.gen # None => r.gen.answer \in Answers \cup {None}
  BY DEF Recovery, Generation
<1>2. /\ again \in Recovery
      /\ again.phase = r.phase /\ again.gen = r.gen /\ again.support = r.support
      /\ again.rejected = r.rejected
  <2>1. more \in SUBSET (Phases \X (Generation \cup {None}))
    BY <1>1 DEF Recovery
  <2> HIDE DEF more
  <2> QED
    BY <2>1 DEF Recovery
<1>3. /\ next \in Recovery /\ next.phase = r.phase /\ next.support = r.support
      /\ next.rejected = reject
  <2>1. reject \in SUBSET (Answers \cup {None})
    BY <1>1, <1>2 DEF Recovery
  <2> HIDE DEF reject, again
  <2> QED
    BY <1>2, <2>1 DEF Recovery
<1>4. /\ r.rejected \subseteq reject
      /\ r.gen # None /\ o.kind \in {"unsupported", "unfounded"} => r.gen.answer \in reject
  BY <1>2
<1>5. CASE ~Verifying /\ Fail(r)
  BY <1>5
<1>6. CASE failed \in r.failures /\ Fail(r)
  BY <1>6
<1>7. CASE (Composes(r, o) \/ o.part) /\ Fail(next)
  <2>1. Verifying
    BY <1>7 DEF Composes, Plain
  <2> HIDE DEF next
  <2> QED
    BY <1>3, <1>7, <2>1 DEF Survives
<1>8. CASE /\ Verifying /\ pc' = "recovering"
           /\ r.phase = "verification" /\ o.kind = "malformed" /\ rec' = again
  <2>1. Candidature(again)
    <3> HIDE DEF again
    <3> QED
      BY <1>2, <1>8 DEF Candidature
  <2> HIDE DEF again
  <2>2. Survives(again) /\ Ready(again) /\ r.rejected \subseteq again.rejected
    BY <1>2, <1>8, <2>1 DEF Survives, Ready
  <2> QED
    BY <1>2, <1>8, <2>2
<1>9. CASE /\ Verifying /\ pc' = "recovering"
           /\ ~(r.phase = "verification" /\ o.kind = "malformed")
           /\ \E a, b \in Answers :
                  /\ o.part => b # r.gen.answer
                  /\ rec' = IF Composes(r, o) /\ a \notin next.rejected
                            THEN [next EXCEPT !.pruned = a, !.phase = "source_repair"]
                            ELSE IF o.part
                            THEN [next EXCEPT !.pruned = b, !.phase = "prune"]
                            ELSE [next EXCEPT !.phase = IF Doubts(r, o)
                                                        THEN "source_sufficiency" ELSE "repair"]
  <2>1. PICK a \in Answers, b \in Answers :
            rec' = IF Composes(r, o) /\ a \notin next.rejected
                   THEN [next EXCEPT !.pruned = a, !.phase = "source_repair"]
                   ELSE IF o.part
                   THEN [next EXCEPT !.pruned = b, !.phase = "prune"]
                   ELSE [next EXCEPT !.phase = IF Doubts(r, o)
                                               THEN "source_sufficiency" ELSE "repair"]
    BY <1>9
  <2>2. PICK p \in {"source_repair", "prune"}, c \in Answers :
            \/ rec' = [next EXCEPT !.pruned = c, !.phase = p]
            \/ rec' = [next EXCEPT !.phase = "repair"]
            \/ Doubts(r, o) /\ rec' = [next EXCEPT !.phase = "source_sufficiency"]
    <3> HIDE DEF next
    <3> QED
      BY <2>1
  <2>3. Doubts(r, o) => next.support \in Support
    BY <1>3 DEF Doubts, Candidature, Generation, Support
  <2> HIDE DEF next, reject
  <2>4. rec' \in Recovery /\ rec'.rejected = reject
    <3>1. {"source_repair", "prune", "repair", "source_sufficiency"} \subseteq Phases
      BY DEF Phases
    <3>2. /\ [next EXCEPT !.pruned = c, !.phase = p] \in Recovery
          /\ [next EXCEPT !.phase = "repair"] \in Recovery
          /\ [next EXCEPT !.phase = "source_sufficiency"] \in Recovery
      <4>1. p \in Phases /\ "repair" \in Phases /\ "source_sufficiency" \in Phases
        BY <3>1
      <4>2. [next EXCEPT !.pruned = c, !.phase = p] \in Recovery
        BY <1>3, <4>1, SetField, Zenon
      <4>3. [next EXCEPT !.phase = "repair"] \in Recovery
        BY <1>3, <4>1 DEF Recovery
      <4>4. [next EXCEPT !.phase = "source_sufficiency"] \in Recovery
        BY <1>3, <4>1 DEF Recovery
      <4> QED
        BY <4>2, <4>3, <4>4
    <3>3. rec' \in Recovery
      BY <2>2, <3>2, Zenon
    <3> QED
      BY <1>3, <2>2, <3>3 DEF Recovery
  <2>5. /\ rec'.phase # "verification"
        /\ rec'.phase = "source_sufficiency" => rec'.support \in Support
        /\ rec'.phase \in {"prune", "source_repair"} => rec'.pruned \in Answers
    BY <1>3, <2>2, <2>3 DEF Recovery
  <2> QED
    BY <1>4, <1>9, <2>4, <2>5 DEF Survives, Ready
<1> QED
  BY <1>5, <1>6, <1>7, <1>8, <1>9 DEF Recovers, Verifying

\* The rounds go on, or fail, after what the except branch made of r.
LEMMA RecoversInv ==
    ASSUME Inv, pc = "calling", NEW r \in Recovery, NEW o \in Observations, Survives(r),
           Recovers(r, o), r.phase = "verification" => Candidature(r),
           ~Verifying => o = Plain("other"), refuted \subseteq r.rejected \/ ~Verifying,
           UNCHANGED <<deployment, valid, trace, outcome>>, refuted' \in SUBSET Answers,
           refuted' \subseteq refuted
           \/ /\ r.gen # None /\ o.kind \in {"unsupported", "unfounded"}
              /\ refuted' = refuted \cup {r.gen.answer}
    PROVE  Inv'
<1>1. PICK n \in Recovery :
          /\ Survives(n)
          /\ \/ Fail(n)
             \/ /\ Verifying
                /\ pc' = "recovering" /\ rec' = n
                /\ r.rejected \subseteq n.rejected
                /\ r.gen # None /\ o.kind \in {"unsupported", "unfounded"} =>
                       r.gen.answer \in n.rejected
                /\ Ready(n)
  BY RecoversEffect
<1>2. CASE Fail(n)
  BY <1>1, <1>2, FailInv
<1>3. CASE ~Fail(n)
  <2>1. /\ Verifying /\ pc' = "recovering" /\ rec' = n /\ Ready(n)
        /\ refuted' \subseteq n.rejected
    BY <1>1, <1>3
  <2> QED
    BY <1>1, <2>1, RoundInv
<1> QED
  BY <1>2, <1>3

\* A step that ends the question before a trace was stored.
LEMMA EndInv ==
    ASSUME Inv, trace = None, NEW d \in {"REFUSAL", "ERROR"}, End(d),
           trace' \in {None, NoGeneration}, UNCHANGED <<deployment, valid, rec, refuted>>
    PROVE  Inv'
<1>1. NoGeneration \in Trace /\ NoGeneration.validation = "not_applicable"
  BY DEF NoGeneration, Trace
<1>2. pc' = "done" /\ outcome' = d
  BY DEF End
<1>3. Types' /\ Stages' /\ Survives(rec)'
  BY <1>1, <1>2 DEF Inv, Types, Stages, Retrieving, Survives, Verifying
<1>4. ~Kept'
  BY <1>1 DEF Kept
<1> QED
  BY <1>2, <1>3, <1>4 DEF Inv

----------------------------------------------------------------------------
\* The steps of the retrieval.
LEMMA RetrievalInv ==
    ASSUME Inv, Clarify \/ Embed \/ Retrieve \/ RetrieveFails \/ NoEvidence \/ Generate
    PROVE  Inv'
<1>1. pc \in {"started", "embedding", "retrieved"} /\ trace = None /\ outcome = None /\ Rounds(rec)
  BY DEF Inv, Stages, Clarify, Embed, Retrieve, RetrieveFails, NoEvidence, Generate, Retrieving
<1>2. CASE Clarify \/ RetrieveFails \/ NoEvidence
  BY <1>1, <1>2, EndInv DEF Clarify, RetrieveFails, NoEvidence
<1>3. CASE Embed \/ Retrieve \/ (Generate /\ valid)
  <2>1. /\ pc' \in {"embedding", "retrieved", "recovering"}
        /\ UNCHANGED <<deployment, valid, rec, trace, outcome, refuted>>
        /\ pc' = "embedding" => valid
    BY <1>1, <1>3 DEF Embed, Retrieve, Generate, Inv, Stages, Retrieving
  <2>2. Types' /\ Stages' /\ Survives(rec)' /\ Rounds(rec)'
    BY <1>1, <2>1 DEF Inv, Types, Stages, Retrieving, Survives, Verifying, Rounds, Ready, Candidature
  <2> QED
    BY <1>1, <2>1, <2>2 DEF Inv, Kept
<1>4. CASE Generate /\ ~valid
  BY <1>1, <1>4, EndInv DEF Generate
<1> QED
  BY <1>2, <1>3, <1>4

LEMMA CallInv ==
    ASSUME Inv, Call
    PROVE  Inv'
<1> USE DEF Call
<1>1. rec \in Recovery /\ Survives(rec) /\ Rounds(rec)
  BY DEF Inv, Types
<1>2. CASE Revoked
  BY <1>1, <1>2, FailInv DEF Inv, Types
<1>3. CASE ~Revoked
  <2> DEFINE t == rec.tried \cup {rec.phase}
             b == rec.checked \/ rec.phase = "source_sufficiency"
             g == IF rec.phase \in {"generation", "repair"} THEN None ELSE rec.gen
             r == [rec EXCEPT !.tried = t, !.checked = b, !.gen = g]
  <2>1. rec' = r
    BY <1>3
  <2>2. t \in SUBSET Phases /\ b \in BOOLEAN /\ g \in Generation \cup {None}
    BY <1>1 DEF Recovery
  <2>3. r \in Recovery
    <3> HIDE DEF t, b, g
    <3> QED
      BY <1>1, <2>2, SetCall, Zenon
  <2>4. /\ r.phase = rec.phase /\ r.support = rec.support /\ r.rejected = rec.rejected
        /\ r.feedback = rec.feedback /\ r.pruned = rec.pruned /\ r.gen = g
    <3> HIDE DEF t, b, g
    <3> QED
      BY <1>1 DEF Recovery
  <2> HIDE DEF r
  <2>5. Survives(r) /\ Ready(r)
    BY <1>1, <2>4 DEF Survives, Rounds, Ready, Candidature
  <2> QED
    BY <1>1, <1>3, <2>1, <2>3, <2>4, <2>5, RoundInv DEF Inv, Types, Rounds
<1> QED
  BY <1>2, <1>3

LEMMA RecomposeInv ==
    ASSUME Inv, Recompose
    PROVE  Inv'
<1> USE DEF Recompose
<1>1. rec \in Recovery /\ Survives(rec) /\ Rounds(rec)
  BY DEF Inv, Types
<1>2. CASE Revoked
  BY <1>1, <1>2, FailInv DEF Inv, Types
<1>3. CASE ~Revoked
  <2> DEFINE t == rec.tried \cup {rec.phase}
             r == [rec EXCEPT !.tried = t]
  <2>1. t \in SUBSET Phases
    BY <1>1 DEF Recovery
  <2>2. r \in Recovery /\ r.rejected = rec.rejected
    <3> HIDE DEF t
    <3> QED
      BY <1>1, <2>1 DEF Recovery
  <2>3. Candidate(r, rec.pruned)
    BY <1>3
  <2>4. Verifying /\ rec.pruned \in Answers /\ refuted \subseteq rec.rejected
    BY <1>1 DEF Survives, Rounds, Ready
  <2> HIDE DEF r
  <2> QED
    BY <2>2, <2>3, <2>4, CandidateInv
<1> QED
  BY <1>2, <1>3

----------------------------------------------------------------------------
\* What a call returns.

\* Setting what was generated.
LEMMA SetGen ==
    ASSUME NEW r \in Recovery, NEW g \in Generation \cup {None}
    PROVE  /\ [r EXCEPT !.gen = g] \in Recovery
           /\ [r EXCEPT !.gen = g].gen = g
           /\ [r EXCEPT !.gen = g].phase = r.phase
           /\ [r EXCEPT !.gen = g].rejected = r.rejected
           /\ [r EXCEPT !.gen = g].feedback = r.feedback
           /\ [r EXCEPT !.gen = g].support = r.support
  BY DEF Recovery

LEMMA GenerationTypes ==
    /\ \A a \in Answers : [decision |-> "ANSWER", answer |-> a] \in Generation
    /\ [decision |-> "REFUSAL", answer |-> None] \in Generation
  BY DEF Generation

LEMMA Calling ==
    ASSUME Inv, pc = "calling"
    PROVE  /\ rec \in Recovery /\ Survives(rec) /\ Ready(rec) /\ refuted \in SUBSET Answers
           /\ Verifying => refuted \subseteq rec.rejected
           /\ trace = None /\ outcome = None
  BY DEF Inv, Types, Stages, Rounds

\* The task has a result, and keeps it next.
LEMMA ResultInv ==
    ASSUME Inv, pc = "calling", NEW r \in Recovery, Survives(r), rec' = r, pc' = "generated",
           r.gen \in Generation,
           r.gen.decision = "ANSWER" /\ Verifying =>
               /\ r.support = [answer |-> r.gen.answer, status |-> "supported"]
               /\ r.gen.answer \notin refuted,
           r.gen.decision = "REFUSAL" /\ r.feedback =>
               r.support # None /\ r.support.status = "insufficient",
           UNCHANGED <<deployment, valid, trace, outcome, refuted>>
    PROVE  Inv'
<1>1. outcome = None /\ trace = None
  BY Calling
<1>2. Types' /\ Stages' /\ Survives(rec)'
  BY <1>1 DEF Inv, Types, Stages, Retrieving, Survives, Verifying
<1>3. rec'.gen \in Generation /\ Earned(rec.gen.decision, rec.gen.answer, rec.support)'
  BY DEF Earned, Verifying
<1> QED
  BY <1>1, <1>2, <1>3 DEF Inv, Kept

LEMMA GeneratedInv ==
    ASSUME Inv, NEW a \in Answers, Generated(a)
    PROVE  Inv'
<1> DEFINE g == [decision |-> "ANSWER", answer |-> a]
           r == [rec EXCEPT !.gen = g]
           i == IF rec.phase = "source_generation" THEN "facts" ELSE rec.inventory
           f == [rec EXCEPT !.inventory = i]
<1>1. pc = "calling" /\ g \in Generation
  BY GenerationTypes DEF Generated, Returned
<1>2. /\ r \in Recovery /\ r.gen = g /\ r.phase = rec.phase /\ r.feedback = rec.feedback
  <2> HIDE DEF g
  <2> QED
    BY <1>1, Calling, SetGen
<1>3. Survives(r)
  <2> HIDE DEF r
  <2> QED
    BY <1>1, <1>2, Calling DEF Survives
<1>4. CASE Revoked
  <2>1. Fail(r) /\ refuted' = refuted /\ UNCHANGED <<deployment, valid, trace, outcome>>
    BY <1>4 DEF Generated
  <2> HIDE DEF r
  <2> QED
    BY <1>1, <1>2, <1>3, <2>1, Calling, FailInv
<1>5. CASE ~Revoked /\ Verifying
  <2>1. /\ Candidate(f, a) /\ refuted' = refuted
        /\ UNCHANGED <<deployment, valid, trace, outcome>>
    BY <1>5 DEF Generated, Verifying
  <2>2. i \in {"unknown", "facts", "empty"}
    BY <1>1, Calling DEF Recovery
  <2>3. f \in Recovery /\ f.rejected = rec.rejected
    <3> HIDE DEF i
    <3> QED
      BY <1>1, <2>2, Calling DEF Recovery
  <2> HIDE DEF f
  <2> QED
    BY <1>1, <1>5, <2>1, <2>3, Calling, CandidateInv
<1>6. CASE ~Revoked /\ ~Verifying
  <2>1. /\ rec' = r /\ pc' = "generated"
        /\ UNCHANGED <<deployment, valid, trace, outcome, refuted>>
    BY <1>6 DEF Generated, Verifying
  <2>2. r.gen \in Generation /\ r.gen.decision # "REFUSAL"
    BY <1>1, <1>2
  <2> HIDE DEF r, g
  <2> QED
    BY <1>1, <1>2, <1>3, <1>6, <2>1, <2>2, ResultInv
<1> QED
  BY <1>4, <1>5, <1>6

LEMMA GeneratedRefusalInv ==
    ASSUME Inv, GeneratedRefusal
    PROVE  Inv'
<1> DEFINE g == [decision |-> "REFUSAL", answer |-> None]
           r == [rec EXCEPT !.gen = g]
<1>1. pc = "calling" /\ g \in Generation
  BY GenerationTypes DEF GeneratedRefusal, Returned
<1>2. /\ r \in Recovery /\ r.gen = g /\ r.phase = rec.phase /\ r.feedback = rec.feedback
  <2> HIDE DEF g
  <2> QED
    BY <1>1, Calling, SetGen
<1>3. Survives(r)
  <2> HIDE DEF r
  <2> QED
    BY <1>1, <1>2, Calling DEF Survives
<1>4. /\ \/ Fail(r)
         \/ rec' = r /\ pc' = "generated" /\ ~(Verifying /\ r.feedback)
      /\ UNCHANGED <<deployment, valid, trace, outcome, refuted>>
  BY DEF GeneratedRefusal, Verifying
<1> HIDE DEF r
<1>5. CASE Fail(r)
  BY <1>1, <1>2, <1>3, <1>4, <1>5, Calling, FailInv
<1>6. CASE rec' = r /\ pc' = "generated" /\ ~(Verifying /\ r.feedback)
  <2>1. r.gen \in Generation /\ r.gen.decision # "ANSWER" /\ ~r.feedback
    BY <1>1, <1>2, <1>3, <1>6 DEF Survives
  <2> HIDE DEF g
  <2> QED
    BY <1>1, <1>2, <1>3, <1>4, <1>6, <2>1, ResultInv
<1> QED
  BY <1>4, <1>5, <1>6

LEMMA NothingFoundInv ==
    ASSUME Inv, NothingFound
    PROVE  Inv'
<1> DEFINE g == [decision |-> "REFUSAL", answer |-> None]
           s == [answer |-> None, status |-> "invalid"]
           r == [rec EXCEPT !.gen = g, !.support = s, !.feedback = TRUE,
                            !.phase = "source_sufficiency"]
<1>1. pc = "calling" /\ rec.phase = "source_generation" /\ Verifying
  BY Calling DEF NothingFound, Returned, Survives
<1>2. rec \in Recovery /\ Survives(rec)
  BY <1>1, Calling
<1>3. CASE Revoked
  BY <1>1, <1>2, <1>3, Calling, FailInv DEF NothingFound
<1>4. CASE ~Revoked
  <2>1. /\ rec' = r /\ pc' = "recovering"
        /\ UNCHANGED <<deployment, valid, trace, outcome, refuted>>
    BY <1>4 DEF NothingFound
  <2>2. g \in Generation /\ s \in Support /\ "source_sufficiency" \in Phases
    BY DEF Generation, Support, Phases
  <2>3. /\ r \in Recovery /\ r.support = s /\ r.phase = "source_sufficiency"
        /\ r.rejected = rec.rejected
    <3> HIDE DEF g, s
    <3> QED
      BY <1>2, <2>2 DEF Recovery
  <2> HIDE DEF r
  <2>4. Survives(r) /\ Ready(r)
    BY <1>1, <2>2, <2>3 DEF Survives, Ready
  <2> QED
    BY <1>1, <2>1, <2>3, <2>4, Calling, RoundInv
<1> QED
  BY <1>3, <1>4

LEMMA MisgeneratedInv ==
    ASSUME Inv, NEW g \in {[decision |-> "ANSWER", answer |-> a] : a \in Answers} \cup {None},
           Misgenerated(g)
    PROVE  Inv'
<1> DEFINE r == [rec EXCEPT !.gen = g]
<1>1. pc = "calling" /\ g \in Generation \cup {None} /\ rec.phase # "verification"
  BY GenerationTypes DEF Misgenerated, Returned, Proposing
<1>2. /\ r \in Recovery /\ r.phase = rec.phase /\ r.feedback = rec.feedback
      /\ r.rejected = rec.rejected
  BY <1>1, Calling, SetGen
<1>3. Survives(r)
  <2> HIDE DEF r
  <2> QED
    BY <1>1, <1>2, Calling DEF Survives
<1>4. /\ Fail(r) \/ Recovers(r, Plain("other"))
      /\ UNCHANGED <<deployment, valid, trace, outcome, refuted>>
  BY DEF Misgenerated
<1>5. Plain("other") \in Observations
  BY DEF Plain, Observations
<1> HIDE DEF r
<1>6. CASE Fail(r)
  BY <1>1, <1>2, <1>3, <1>4, <1>6, Calling, FailInv
<1>7. CASE Recovers(r, Plain("other"))
  BY <1>1, <1>2, <1>3, <1>4, <1>5, <1>7, Calling, RecoversInv
<1> QED
  BY <1>4, <1>6, <1>7

LEMMA CallFailsInv ==
    ASSUME Inv, CallFails
    PROVE  Inv'
<1> DEFINE s == IF rec.phase = "verification" /\ rec.support # None
                THEN [rec.support EXCEPT !.status = "unavailable"] ELSE rec.support
           r == [rec EXCEPT !.support = s]
<1>1. pc = "calling"
  BY DEF CallFails, Returned
<1>2. s \in Support \cup {None}
  BY <1>1, Calling DEF Recovery, Support
<1>3. /\ r \in Recovery /\ r.phase = rec.phase /\ r.feedback = rec.feedback
  <2> HIDE DEF s
  <2> QED
    BY <1>1, <1>2, Calling DEF Recovery
<1>4. Fail(r) /\ UNCHANGED <<deployment, valid, trace, outcome, refuted>>
  BY DEF CallFails
<1> HIDE DEF r
<1>5. Survives(r)
  BY <1>1, <1>3, Calling DEF Survives
<1> QED
  BY <1>1, <1>3, <1>4, <1>5, Calling, FailInv

\* What is supported is the candidate of this very verification.
LEMMA SupportedInv ==
    ASSUME Inv, Supported
    PROVE  Inv'
<1> DEFINE s == [rec.support EXCEPT !.status = "supported"]
           r == [rec EXCEPT !.support = s]
<1>1. pc = "calling" /\ rec.phase = "verification" /\ rec \in Recovery /\ Survives(rec)
  BY Calling DEF Supported, Returned
<1>2. Candidature(rec) /\ Verifying /\ refuted \subseteq rec.rejected
  BY <1>1, Calling DEF Ready, Survives
<1>3. CASE Revoked
  BY <1>1, <1>3, Calling, FailInv DEF Supported
<1>4. CASE ~Revoked
  <2>1. /\ rec' = r /\ pc' = "generated"
        /\ UNCHANGED <<deployment, valid, trace, outcome, refuted>>
    BY <1>4 DEF Supported
  <2>2. s = [answer |-> rec.gen.answer, status |-> "supported"] /\ s \in Support
    BY <1>2 DEF Candidature, Generation, Support
  <2>3. /\ r \in Recovery /\ r.gen = rec.gen /\ r.support = s /\ r.phase = rec.phase
        /\ r.feedback = rec.feedback
    <3> HIDE DEF s
    <3> QED
      BY <1>1, <2>2 DEF Recovery
  <2> HIDE DEF r, s
  <2>4. /\ r.gen \in Generation /\ r.gen.decision = "ANSWER"
        /\ r.support = [answer |-> r.gen.answer, status |-> "supported"]
        /\ r.gen.answer \notin refuted
    BY <1>2, <2>2, <2>3 DEF Candidature
  <2>5. Survives(r)
    BY <1>1, <2>3 DEF Survives
  <2> QED
    BY <1>1, <2>1, <2>3, <2>4, <2>5, ResultInv
<1> QED
  BY <1>3, <1>4

\* What a verification refutes is rejected.
LEMMA VerifiedInv ==
    ASSUME Inv, NEW o \in Observations, Verified(o)
    PROVE  Inv'
<1> DEFINE i == CASE o.kind = "unfounded" -> "empty"
                  [] o.kind = "ready"     -> "facts"
                  [] OTHER                -> rec.inventory
           r == [rec EXCEPT !.inventory = i]
<1>1. pc = "calling" /\ rec.phase = "verification" /\ rec \in Recovery /\ Survives(rec)
  BY Calling DEF Verified, Returned
<1>2. Candidature(rec) /\ Verifying /\ refuted \subseteq rec.rejected
  BY <1>1, Calling DEF Ready, Survives
<1>3. CASE Revoked
  BY <1>1, <1>3, Calling, FailInv DEF Verified
<1>4. CASE ~Revoked
  <2>1. /\ Recovers(r, o)
        /\ UNCHANGED <<deployment, valid, trace, outcome>>
        /\ refuted' = IF o.kind \in {"unsupported", "unfounded"}
                      THEN refuted \cup {rec.gen.answer} ELSE refuted
    BY <1>4 DEF Verified
  <2>2. i \in {"unknown", "facts", "empty"}
    BY <1>1 DEF Recovery
  <2>3. /\ r \in Recovery /\ r.gen = rec.gen /\ r.support = rec.support /\ r.phase = rec.phase
        /\ r.feedback = rec.feedback /\ r.rejected = rec.rejected
    <3> HIDE DEF i
    <3> QED
      BY <1>1, <2>2 DEF Recovery
  <2> HIDE DEF r, i
  <2>4. Survives(r) /\ Candidature(r)
    BY <1>1, <1>2, <2>3 DEF Survives, Candidature
  <2>5. rec.gen.answer \in Answers /\ rec.gen # None
    BY <1>2, NoneAssumption DEF Candidature
  <2>6. refuted' \in SUBSET Answers
    BY <1>1, <2>1, <2>5, Calling
  <2>7. \/ refuted' \subseteq refuted
        \/ /\ r.gen # None /\ o.kind \in {"unsupported", "unfounded"}
           /\ refuted' = refuted \cup {r.gen.answer}
    BY <2>1, <2>3, <2>5
  <2> QED
    BY <1>1, <1>2, <2>1, <2>3, <2>4, <2>6, <2>7, RecoversInv
<1> QED
  BY <1>3, <1>4

LEMMA InsufficientInv ==
    ASSUME Inv, Insufficient
    PROVE  Inv'
<1> DEFINE g == [decision |-> "REFUSAL", answer |-> None]
           s == [rec.support EXCEPT !.status = "insufficient"]
           r == [rec EXCEPT !.gen = g, !.support = s]
<1>1. pc = "calling" /\ rec.phase = "source_sufficiency" /\ rec \in Recovery /\ Survives(rec)
  BY Calling DEF Insufficient, Returned
<1>2. rec.support \in Support
  BY <1>1, Calling DEF Ready
<1>3. CASE Revoked
  BY <1>1, <1>3, Calling, FailInv DEF Insufficient
<1>4. CASE ~Revoked
  <2>1. /\ rec' = r /\ pc' = "generated"
        /\ UNCHANGED <<deployment, valid, trace, outcome, refuted>>
    BY <1>4 DEF Insufficient
  <2>2. s \in Support /\ s.status = "insufficient" /\ g \in Generation /\ g.decision = "REFUSAL"
    BY <1>2 DEF Support, Generation
  <2> HIDE DEF s, g
  <2>3. /\ r \in Recovery /\ r.gen = g /\ r.support = s /\ r.phase = rec.phase
        /\ r.feedback = rec.feedback
    BY <1>1, <2>2 DEF Recovery
  <2> HIDE DEF r
  <2>4. Survives(r)
    BY <1>1, <2>3 DEF Survives
  <2>5. r.support # None
    BY <2>2, <2>3, NoneAssumption
  <2> QED
    BY <1>1, <2>1, <2>2, <2>3, <2>4, <2>5, ResultInv
<1> QED
  BY <1>3, <1>4

LEMMA AnswerableInv ==
    ASSUME Inv, Answerable
    PROVE  Inv'
<1> DEFINE r == [rec EXCEPT !.phase = "repair"]
<1>1. pc = "calling" /\ rec.phase = "source_sufficiency" /\ rec \in Recovery /\ Survives(rec)
  BY Calling DEF Answerable, Returned
<1>2. CASE Revoked
  BY <1>1, <1>2, Calling, FailInv DEF Answerable
<1>3. CASE ~Revoked
  <2>1. /\ rec' = r /\ pc' = "recovering"
        /\ UNCHANGED <<deployment, valid, trace, outcome, refuted>>
    BY <1>3 DEF Answerable
  <2>2. /\ r \in Recovery /\ r.phase = "repair" /\ r.feedback = rec.feedback
        /\ r.rejected = rec.rejected
    BY <1>1 DEF Recovery, Phases
  <2> HIDE DEF r
  <2>3. Survives(r) /\ Ready(r)
    BY <1>1, <2>2 DEF Survives, Ready
  <2> QED
    BY <1>1, <2>1, <2>2, <2>3, Calling, RoundInv
<1> QED
  BY <1>2, <1>3

----------------------------------------------------------------------------
\* The ends, and the stream.

LEMMA CancelledInv ==
    ASSUME Inv, Cancelled, UNCHANGED <<deployment, valid, trace, refuted>>
    PROVE  Inv'
<1>1. CASE pc = "embedding" /\ End("ERROR") /\ UNCHANGED rec
  BY <1>1, EndInv DEF Inv, Stages
<1>2. CASE pc = "calling" /\ Fail(rec) /\ UNCHANGED outcome
  BY <1>2, Calling, FailInv
<1> QED
  BY <1>1, <1>2 DEF Cancelled

LEMMA KeepFailureInv ==
    ASSUME Inv, KeepFailure
    PROVE  Inv'
<1> DEFINE d == IF rec.gen = None THEN "ERROR" ELSE rec.gen.decision
           a == IF rec.gen = None THEN None ELSE rec.gen.answer
<1>1. pc = "failing" /\ trace = None /\ rec \in Recovery
  BY DEF KeepFailure, Inv, Stages, Types
<1>2. CASE ~valid
  BY <1>1, <1>2, EndInv DEF KeepFailure
<1>3. CASE valid
  <2>1. /\ trace' = [decision |-> d, answer |-> a, validation |-> "invalid",
                     support |-> rec.support]
        /\ outcome' = "ERROR" /\ pc' = "done"
        /\ UNCHANGED <<deployment, valid, rec, refuted>>
    BY <1>3 DEF KeepFailure, End
  <2>2. d \in {"ANSWER", "REFUSAL", "ERROR"} /\ a \in Answers \cup {None}
    BY <1>1 DEF Recovery, Generation
  <2>3. trace' \in Trace /\ trace'.validation = "invalid"
    <3> HIDE DEF d, a
    <3> QED
      BY <1>1, <2>1, <2>2 DEF Recovery, Trace
  <2>4. Types' /\ Stages' /\ Survives(rec)'
    BY <2>1, <2>3 DEF Inv, Types, Stages, Retrieving, Survives, Verifying
  <2>5. ~Kept'
    BY <2>3 DEF Kept
  <2> QED
    BY <2>1, <2>4, <2>5 DEF Inv
<1> QED
  BY <1>2, <1>3

LEMMA KeepInv ==
    ASSUME Inv, Keep
    PROVE  Inv'
<1> DEFINE t == [decision |-> rec.gen.decision, answer |-> rec.gen.answer,
                 validation |-> "valid", support |-> rec.support]
<1>1. /\ pc = "generated" /\ trace = None /\ outcome = None
      /\ rec.gen \in Generation /\ rec \in Recovery
      /\ Earned(rec.gen.decision, rec.gen.answer, rec.support)
  BY DEF Keep, Inv, Stages, Types
<1>2. CASE End("ERROR") /\ UNCHANGED trace
  BY <1>1, <1>2, EndInv DEF Keep
<1>3. CASE trace' = t /\ pc' = "delivering" /\ UNCHANGED outcome
  <2>1. UNCHANGED <<deployment, valid, rec, refuted>>
    BY DEF Keep
  <2>2. /\ t \in Trace /\ t.validation = "valid"
        /\ Earned(t.decision, t.answer, t.support)
    BY <1>1 DEF Trace, Generation, Recovery
  <2> HIDE DEF t
  <2>3. trace' # None
    BY <1>3, <2>2, NoneAssumption
  <2>4. Types' /\ Stages' /\ Survives(rec)'
    BY <1>1, <1>3, <2>1, <2>2 DEF Inv, Types, Stages, Retrieving, Survives, Verifying
  <2>5. Kept' /\ Earned(trace.decision, trace.answer, trace.support)'
    BY <1>3, <2>1, <2>2, <2>3 DEF Kept, Earned, Verifying
  <2> QED
    BY <1>1, <1>3, <2>4, <2>5, NoneAssumption DEF Inv
<1> QED
  BY <1>2, <1>3 DEF Keep

LEMMA DeliverInv ==
    ASSUME Inv, Deliver
    PROVE  Inv'
<1>1. /\ pc = "delivering" /\ Kept /\ trace \in Trace
      /\ Earned(trace.decision, trace.answer, trace.support)
      /\ pc' = "done" /\ UNCHANGED <<deployment, valid, rec, trace, refuted>>
  BY DEF Deliver, End, Inv, Types, Kept
<1>2. outcome' \in {"ERROR", trace.decision} /\ trace.decision \in {"ANSWER", "REFUSAL", "ERROR"}
  BY <1>1 DEF Deliver, End, Trace
<1>3. Types' /\ Stages' /\ Survives(rec)'
  BY <1>1, <1>2 DEF Inv, Types, Stages, Retrieving, Survives, Verifying
<1>4. Kept' /\ Earned(trace.decision, trace.answer, trace.support)'
  BY <1>1 DEF Kept, Earned, Verifying
<1> QED
  BY <1>1, <1>2, <1>3, <1>4 DEF Inv

LEMMA StoreFailsInv ==
    ASSUME Inv, StoreFails
    PROVE  Inv'
<1>1. UNCHANGED <<deployment, valid, rec, trace, refuted>> /\ End("ERROR")
  BY DEF StoreFails
<1>2. CASE pc # "delivering"
  <2>1. trace = None
    BY <1>2 DEF StoreFails, Returned, Inv, Stages
  <2> QED
    BY <1>1, <2>1, EndInv
<1>3. CASE pc = "delivering"
  <2>1. /\ Kept /\ Earned(trace.decision, trace.answer, trace.support)
        /\ pc' = "done" /\ outcome' = "ERROR"
    BY <1>1, <1>3 DEF End, Inv, Kept
  <2>2. Types' /\ Stages' /\ Survives(rec)'
    BY <1>1, <2>1 DEF Inv, Types, Stages, Retrieving, Survives, Verifying
  <2>3. Kept' /\ Earned(trace.decision, trace.answer, trace.support)'
    BY <1>1, <2>1 DEF Kept, Earned, Verifying
  <2> QED
    BY <2>1, <2>2, <2>3 DEF Inv
<1> QED
  BY <1>2, <1>3

LEMMA UnusableInv ==
    ASSUME Inv, Unusable
    PROVE  Inv'
  BY FailInv DEF Unusable, Inv, Types

\* Revocations, and what the stream tells, are no business of the records.
LEMMA AroundInv ==
    ASSUME Inv, Revoke \/ Emit \/ Finish
    PROVE  Inv'
<1>1. /\ UNCHANGED <<deployment, pc, rec, trace, outcome, refuted>>
      /\ valid' \in BOOLEAN /\ (Retrieving => valid')
  BY DEF Revoke, Emit, Finish, Inv, Types, Stages
<1> QED
  BY <1>1, Unmoved

LEMMA NextInv == Inv /\ [Next]_vars => Inv'
<1> SUFFICES ASSUME Inv, [Next]_vars PROVE Inv'
  OBVIOUS
<1>1. CASE Clarify \/ Embed \/ Retrieve \/ RetrieveFails \/ NoEvidence \/ Generate
  BY <1>1, RetrievalInv
<1>2. CASE Call
  BY <1>2, CallInv
<1>3. CASE Recompose
  BY <1>3, RecomposeInv
<1>4. CASE Return
  <2>1. ASSUME NEW a \in Answers, Generated(a) PROVE Inv'
    BY <2>1, GeneratedInv
  <2>2. ASSUME NEW g \in {[decision |-> "ANSWER", answer |-> a] : a \in Answers} \cup {None},
               Misgenerated(g)
        PROVE  Inv'
    BY <2>2, MisgeneratedInv
  <2>3. ASSUME NEW o \in Observations, Verified(o) PROVE Inv'
    BY <2>3, VerifiedInv
  <2>4. CASE GeneratedRefusal \/ NothingFound
    BY <2>4, GeneratedRefusalInv, NothingFoundInv
  <2>5. CASE CallFails \/ Supported \/ Insufficient \/ Answerable
    BY <2>5, CallFailsInv, SupportedInv, InsufficientInv, AnswerableInv
  <2> QED
    BY <1>4, <2>1, <2>2, <2>3, <2>4, <2>5 DEF Return
<1>5. CASE KeepFailure
  BY <1>5, KeepFailureInv
<1>6. CASE Keep
  BY <1>6, KeepInv
<1>7. CASE Deliver
  BY <1>7, DeliverInv
<1>8. CASE Unusable
  BY <1>8, UnusableInv
<1>9. CASE Revoke \/ Emit \/ Finish
  BY <1>9, AroundInv
<1>10. CASE Deadline
  BY <1>10, CancelledInv DEF Deadline
<1>11. CASE Disconnect
  <2>1. CASE Cancelled
    BY <1>11, <2>1, CancelledInv DEF Disconnect
  <2>2. CASE UNCHANGED <<pc, rec, outcome>>
    BY <1>11, <2>2, Unmoved DEF Disconnect, Inv, Types, Stages
  <2> QED
    BY <1>11, <2>1, <2>2 DEF Disconnect
<1>12. CASE StoreFails
  BY <1>12, StoreFailsInv
<1>13. CASE UNCHANGED vars
  BY <1>13, Unmoved DEF vars, Inv, Types, Stages
<1> QED
  BY <1>1, <1>2, <1>3, <1>4, <1>5, <1>6, <1>7, <1>8, <1>9, <1>10, <1>11, <1>12, <1>13
  DEF Next, Run

\* Every state the question comes through: what a verification refuted is rejected, and a result
\* is a trace that was earned.
THEOREM Invariance == Spec => []Inv
<1> QED
  BY InitInv, NextInv, PTL DEF Spec

\* An answer that has to be verified is returned only if the verifier found that very answer
\* supported, and never if a verification had refused it before (generate_with_recovery:
\* rejected_answers, validate_trace_support).
THEOREM AnswersProven == Spec => []AnswersAreProven
<1>1. Inv => AnswersAreProven
  BY DEF Inv, Kept, Earned, Verifying, AnswersAreProven
<1> QED
  BY <1>1, Invariance, PTL

\* After a failure a refusal is kept only because the sources were found insufficient
\* (generate_with_recovery: a repair that refuses while there is feedback fails).
THEOREM RefusalsEarned == Spec => []RefusalsAreEarned
<1>1. Inv => RefusalsAreEarned
  BY DEF Inv, Kept, Earned, Verifying, RefusalsAreEarned
<1> QED
  BY <1>1, Invariance, PTL

----------------------------------------------------------------------------
Inside ==
    ~valid => /\ trace' = trace
              /\ deployment.v3 => calls' = calls /\ outcome' \in {outcome, "ERROR"}

\* A step taken under a revoked snapshot.
LEMMA StepInside ==
    ASSUME Inv, Next
    PROVE  Inside
<1> SUFFICES ASSUME ~valid
             PROVE  /\ trace' = trace
                    /\ deployment.v3 => calls' = calls /\ outcome' \in {outcome, "ERROR"}
  BY DEF Inside
<1>1. ~Retrieving
  BY DEF Inv, Stages
<1>2. CASE Clarify \/ Embed \/ Retrieve \/ RetrieveFails
  BY <1>1, <1>2 DEF Clarify, Embed, Retrieve, RetrieveFails, Retrieving
<1>3. CASE NoEvidence \/ Generate \/ Keep \/ KeepFailure
  BY <1>3 DEF NoEvidence, Generate, Keep, KeepFailure, End
<1>4. CASE Call
  BY <1>4 DEF Call, Revoked
<1>5. CASE Deliver
  BY <1>5 DEF Deliver, Revoked, End
<1>6. CASE Return
  <2>1. trace' = trace /\ calls' = calls /\ outcome' = outcome
    BY <1>6 DEF Return, Generated, GeneratedRefusal, NothingFound, Misgenerated, CallFails,
                Supported, Verified, Insufficient, Answerable
  <2> QED
    BY <2>1
<1>7. CASE Recompose \/ Unusable \/ Revoke \/ Emit \/ Finish
  BY <1>7 DEF Recompose, Unusable, Revoke, Emit, Finish
<1>8. CASE Deadline \/ Disconnect \/ StoreFails
  BY <1>8 DEF Deadline, Disconnect, Cancelled, StoreFails, End
<1> QED
  BY <1>2, <1>3, <1>4, <1>5, <1>6, <1>7, <1>8 DEF Next, Run

\* What the corpus no longer vouches for does not leave the process: no trace is stored of it,
\* and under a configuration of v3 no call begins and no result is returned (the revalidations
\* of generate_with_recovery, persist_trace and _execute_admitted).
THEOREM RevokedInside == Spec => RevokedStaysInside
<1>1. ASSUME Inv, [Next]_vars
      PROVE  [~valid => /\ trace' = trace
                        /\ deployment.v3 => calls' = calls /\ outcome' \in {outcome, "ERROR"}]_vars
  BY <1>1, StepInside DEF Inside
<1> QED
  BY <1>1, Invariance, PTL DEF Spec, RevokedStaysInside

----------------------------------------------------------------------------
\* The stream.  Stages are told in the order in which they were queued, so what was emitted and
\* what is queued are the two parts of one history.

\* The queue and the events while the question is retrieved, while evidence is selected, and
\* once the generation was announced.
Retrieves ==
    \/ queue = <<"retrieving">> /\ events = <<"started">>
    \/ queue = <<>> /\ events = <<"started", "retrieving">>
Selects ==
    \/ queue = <<"retrieving", "selecting_evidence">> /\ events = <<"started">>
    \/ queue = <<"selecting_evidence">> /\ events = <<"started", "retrieving">>
    \/ queue = <<>> /\ events = <<"started", "retrieving", "selecting_evidence">>
Generates ==
    \/ queue = <<"retrieving", "selecting_evidence", "generating">> /\ events = <<"started">>
    \/ queue = <<"selecting_evidence", "generating">> /\ events = <<"started", "retrieving">>
    \/ queue = <<"generating">> /\ events = <<"started", "retrieving", "selecting_evidence">>
    \/ queue = <<>> /\ events = <<"started", "retrieving", "selecting_evidence", "generating">>

\* The stream has ended: nothing is emitted any more.
Ended ==
    /\ queue = <<>> /\ ~listening /\ pc = "done"
    /\ \/ events = <<"started", "retrieving", Terminal>> /\ outcome # "ANSWER"
       \/ events = <<"started", "retrieving", "selecting_evidence", Terminal>>
          /\ outcome # "ANSWER"
       \/ events = <<"started", "retrieving", "selecting_evidence", "generating", Terminal>>

StreamInv ==
    \/ Retrieves /\ (Retrieving \/ pc = "done") /\ outcome # "ANSWER"
    \/ Selects /\ pc \in {"retrieved", "done"} /\ outcome # "ANSWER"
    \/ Generates /\ ~Retrieving /\ pc # "retrieved"
    \/ Ended

\* What Append makes of the short histories.
LEMMA AppendedSecond ==
    ASSUME NEW a, NEW b
    PROVE  Append(<<a>>, b) = <<a, b>>
<1> DEFINE S == {a, b}
<1>1. <<a>> \in Seq(S) /\ <<a, b>> \in Seq(S) /\ b \in S
  OBVIOUS
<1>2. /\ Append(<<a>>, b) \in Seq(S) /\ Len(Append(<<a>>, b)) = 2
      /\ \A i \in 1..2 : Append(<<a>>, b)[i] = <<a, b>>[i]
  BY <1>1
<1> QED
  BY <1>1, <1>2, SeqEqual

LEMMA AppendedThird ==
    ASSUME NEW a, NEW b, NEW c
    PROVE  Append(<<a, b>>, c) = <<a, b, c>>
<1> DEFINE S == {a, b, c}
<1>1. <<a, b>> \in Seq(S) /\ <<a, b, c>> \in Seq(S) /\ c \in S
  OBVIOUS
<1>2. /\ Append(<<a, b>>, c) \in Seq(S) /\ Len(Append(<<a, b>>, c)) = 3
      /\ \A i \in 1..3 : Append(<<a, b>>, c)[i] = <<a, b, c>>[i]
  BY <1>1
<1> QED
  BY <1>1, <1>2, SeqEqual

LEMMA AppendedFourth ==
    ASSUME NEW a, NEW b, NEW c, NEW d
    PROVE  Append(<<a, b, c>>, d) = <<a, b, c, d>>
<1> DEFINE S == {a, b, c, d}
<1>1. <<a, b, c>> \in Seq(S) /\ <<a, b, c, d>> \in Seq(S) /\ d \in S
  OBVIOUS
<1>2. /\ Append(<<a, b, c>>, d) \in Seq(S) /\ Len(Append(<<a, b, c>>, d)) = 4
      /\ \A i \in 1..4 : Append(<<a, b, c>>, d)[i] = <<a, b, c, d>>[i]
  BY <1>1
<1> QED
  BY <1>1, <1>2, SeqEqual

LEMMA AppendedFifth ==
    ASSUME NEW a, NEW b, NEW c, NEW d, NEW e
    PROVE  Append(<<a, b, c, d>>, e) = <<a, b, c, d, e>>
<1> DEFINE S == {a, b, c, d, e}
<1>1. <<a, b, c, d>> \in Seq(S) /\ <<a, b, c, d, e>> \in Seq(S) /\ e \in S
  OBVIOUS
<1>2. /\ Append(<<a, b, c, d>>, e) \in Seq(S) /\ Len(Append(<<a, b, c, d>>, e)) = 5
      /\ \A i \in 1..5 : Append(<<a, b, c, d>>, e)[i] = <<a, b, c, d, e>>[i]
  BY <1>1
<1> QED
  BY <1>1, <1>2, SeqEqual

\* What is taken from the queue.
LEMMA HeadsAndTails ==
    ASSUME NEW a, NEW b, NEW c
    PROVE  /\ Head(<<a>>) = a /\ Tail(<<a>>) = <<>>
           /\ Head(<<a, b>>) = a /\ Tail(<<a, b>>) = <<b>>
           /\ Head(<<a, b, c>>) = a /\ Tail(<<a, b, c>>) = <<b, c>>
OBVIOUS

LEMMA StreamInit == Init => StreamInv
BY NoneAssumption DEF Init, StreamInv, Retrieves, Retrieving

\* Only an announcement and the stream itself change what is told; a question without a
\* generation is not answered, and one that is done stays as it is.
LEMMA StreamSteps ==
    ASSUME [Next]_vars, ~Retrieve, ~Generate, ~Emit, ~Finish
    PROVE  /\ UNCHANGED <<queue, events>> /\ listening' \in {listening, FALSE}
           /\ pc = "done" => UNCHANGED <<pc, outcome>>
           /\ pc = "done" /\ ~listening => ~listening'
           /\ Retrieving => Retrieving' \/ pc' = "done"
           /\ pc = "retrieved" => pc' \in {"retrieved", "done"}
           /\ Retrieving \/ pc = "retrieved" => outcome' \in {outcome, "REFUSAL", "ERROR"}
           /\ ~Retrieving /\ pc # "retrieved" => ~Retrieving' /\ pc' # "retrieved"
<1> USE DEF Retrieving, stream
<1>1. CASE Clarify \/ Embed \/ RetrieveFails \/ NoEvidence
  BY <1>1 DEF Clarify, Embed, RetrieveFails, NoEvidence, End
<1>2. CASE Call \/ Recompose
  BY <1>2 DEF Call, Recompose, Fail, Candidate
<1>3. CASE Return
  <2>1. ASSUME NEW r, NEW o, Recovers(r, o) PROVE pc' \in {"failing", "recovering"}
    BY <2>1 DEF Recovers, Fail
  <2>2. ASSUME NEW a, Generated(a) PROVE pc' \in {"failing", "recovering", "generated"}
    BY <2>2 DEF Generated, Fail, Candidate
  <2>3. ASSUME NEW g, Misgenerated(g) PROVE pc' \in {"failing", "recovering"}
    BY <2>1, <2>3 DEF Misgenerated, Fail
  <2>4. ASSUME NEW o, Verified(o) PROVE pc' \in {"failing", "recovering"}
    BY <2>1, <2>4 DEF Verified, Fail
  <2>5. pc' \in {"failing", "recovering", "generated"}
    BY <1>3, <2>2, <2>3, <2>4
    DEF Return, GeneratedRefusal, NothingFound, CallFails, Supported, Insufficient, Answerable,
        Fail
  <2>6. pc = "calling" /\ UNCHANGED stream
    BY <1>3 DEF Return, Generated, GeneratedRefusal, NothingFound, Misgenerated, CallFails,
                Supported, Verified, Insufficient, Answerable, Returned
  <2> QED
    BY <2>5, <2>6
<1>4. CASE KeepFailure \/ Keep \/ Deliver \/ Unusable
  BY <1>4 DEF KeepFailure, Keep, Deliver, Unusable, End, Fail
<1>5. CASE Revoke
  BY <1>5 DEF Revoke
<1>6. CASE Deadline \/ Disconnect \/ StoreFails
  BY <1>6 DEF Deadline, Disconnect, Cancelled, StoreFails, Returned, End, Fail
<1>7. CASE UNCHANGED vars
  BY <1>7 DEF vars
<1> QED
  BY <1>1, <1>2, <1>3, <1>4, <1>5, <1>6, <1>7 DEF Next, Run

LEMMA RetrieveTold == ASSUME StreamInv, Retrieve PROVE StreamInv'
<1>1. /\ Retrieving /\ queue' = Append(queue, "selecting_evidence")
      /\ UNCHANGED <<events, outcome>> /\ pc' = "retrieved"
  BY DEF Retrieve
<1>2. Retrieves /\ outcome # "ANSWER"
  BY <1>1 DEF StreamInv, Retrieving, Ended
<1>3. Append(<<"retrieving">>, "selecting_evidence") = <<"retrieving", "selecting_evidence">>
  BY AppendedSecond, Zenon
<1>4. Append(<<>>, "selecting_evidence") = <<"selecting_evidence">>
  OBVIOUS
<1>5. Selects'
  BY <1>1, <1>2, <1>3, <1>4, Zenon DEF Retrieves, Selects
<1> QED
  BY <1>1, <1>2, <1>5 DEF StreamInv

LEMMA GenerateTold == ASSUME StreamInv, Generate PROVE StreamInv'
<1>1. /\ pc = "retrieved" /\ queue' = Append(queue, "generating") /\ events' = events
      /\ pc' \in {"recovering", "done"}
  BY DEF Generate, End
<1>2. Selects
  BY <1>1 DEF StreamInv, Retrieving, Ended
<1>3. Append(<<"retrieving", "selecting_evidence">>, "generating") =
          <<"retrieving", "selecting_evidence", "generating">>
  BY AppendedThird, Zenon
<1>4. Append(<<"selecting_evidence">>, "generating") = <<"selecting_evidence", "generating">>
  BY AppendedSecond, Zenon
<1>5. Append(<<>>, "generating") = <<"generating">>
  OBVIOUS
<1>6. Generates'
  BY <1>1, <1>2, <1>3, <1>4, <1>5, Zenon DEF Selects, Generates
<1> QED
  BY <1>1, <1>6 DEF StreamInv, Retrieving

LEMMA EmitTold == ASSUME StreamInv, Emit PROVE StreamInv'
<1>1. /\ queue # <<>> /\ events' = Append(events, Head(queue)) /\ queue' = Tail(queue)
      /\ UNCHANGED <<pc, outcome>>
  BY DEF Emit
<1>2. /\ Append(<<"started">>, "retrieving") = <<"started", "retrieving">>
      /\ Append(<<"started", "retrieving">>, "selecting_evidence") =
             <<"started", "retrieving", "selecting_evidence">>
      /\ Append(<<"started", "retrieving", "selecting_evidence">>, "generating") =
             <<"started", "retrieving", "selecting_evidence", "generating">>
  BY AppendedSecond, AppendedThird, AppendedFourth, Zenon
<1>3. /\ Head(<<"retrieving">>) = "retrieving" /\ Tail(<<"retrieving">>) = <<>>
      /\ Head(<<"selecting_evidence">>) = "selecting_evidence"
      /\ Tail(<<"selecting_evidence">>) = <<>>
      /\ Head(<<"generating">>) = "generating" /\ Tail(<<"generating">>) = <<>>
  BY HeadsAndTails, Zenon
<1>4. /\ Head(<<"retrieving", "selecting_evidence">>) = "retrieving"
      /\ Tail(<<"retrieving", "selecting_evidence">>) = <<"selecting_evidence">>
      /\ Head(<<"selecting_evidence", "generating">>) = "selecting_evidence"
      /\ Tail(<<"selecting_evidence", "generating">>) = <<"generating">>
  BY HeadsAndTails, Zenon
<1>5. /\ Head(<<"retrieving", "selecting_evidence", "generating">>) = "retrieving"
      /\ Tail(<<"retrieving", "selecting_evidence", "generating">>) =
             <<"selecting_evidence", "generating">>
  OBVIOUS
<1>6. CASE Retrieves /\ (Retrieving \/ pc = "done") /\ outcome # "ANSWER"
  <2>1. Retrieves'
    BY <1>1, <1>2, <1>3, <1>6, Zenon DEF Retrieves
  <2> QED
    BY <1>1, <1>6, <2>1 DEF StreamInv, Retrieving
<1>7. CASE Selects /\ pc \in {"retrieved", "done"} /\ outcome # "ANSWER"
  <2>1. Selects'
    BY <1>1, <1>2, <1>3, <1>4, <1>7, Zenon DEF Selects
  <2> QED
    BY <1>1, <1>7, <2>1 DEF StreamInv
<1>8. CASE Generates /\ ~Retrieving /\ pc # "retrieved"
  <2>1. Generates'
    BY <1>1, <1>2, <1>3, <1>4, <1>5, <1>8, Zenon DEF Generates
  <2> QED
    BY <1>1, <1>8, <2>1 DEF StreamInv, Retrieving
<1> QED
  BY <1>1, <1>6, <1>7, <1>8 DEF StreamInv, Ended

LEMMA FinishTold == ASSUME StreamInv, Finish PROVE StreamInv'
<1>1. /\ pc = "done" /\ queue = <<>> /\ events' = Append(events, Terminal)
      /\ ~listening' /\ UNCHANGED <<pc, outcome, queue>> /\ listening
  BY DEF Finish
<1>2. Terminal' = Terminal
  BY <1>1 DEF Terminal
<1>3. PICK t : t = Terminal
  OBVIOUS
<1>4. CASE Retrieves /\ outcome # "ANSWER"
  <2>1. events' = <<"started", "retrieving", t>>
    BY <1>1, <1>3, <1>4, AppendedThird DEF Retrieves
  <2> QED
    BY <1>1, <1>2, <1>3, <1>4, <2>1 DEF StreamInv, Ended
<1>5. CASE Selects /\ outcome # "ANSWER"
  <2>1. events = <<"started", "retrieving", "selecting_evidence">>
    BY <1>1, <1>5 DEF Selects
  <2>2. events' = <<"started", "retrieving", "selecting_evidence", t>>
    BY <1>1, <1>3, <2>1, AppendedFourth, Zenon
  <2> QED
    BY <1>1, <1>2, <1>3, <1>5, <2>2 DEF StreamInv, Ended
<1>6. CASE Generates
  <2>1. events = <<"started", "retrieving", "selecting_evidence", "generating">>
    BY <1>1, <1>6 DEF Generates
  <2>2. events' = <<"started", "retrieving", "selecting_evidence", "generating", t>>
    BY <1>1, <1>3, <2>1, AppendedFifth, Zenon
  <2> QED
    BY <1>1, <1>2, <1>3, <2>2 DEF StreamInv, Ended
<1> QED
  BY <1>1, <1>4, <1>5, <1>6 DEF StreamInv, Ended

LEMMA StreamNext == StreamInv /\ [Next]_vars => StreamInv'
<1> SUFFICES ASSUME StreamInv, [Next]_vars PROVE StreamInv'
  OBVIOUS
<1>1. CASE Retrieve \/ Generate \/ Emit \/ Finish
  BY <1>1, RetrieveTold, GenerateTold, EmitTold, FinishTold
<1>2. CASE ~Retrieve /\ ~Generate /\ ~Emit /\ ~Finish
  <2>1. /\ UNCHANGED <<queue, events>> /\ listening' \in {listening, FALSE}
        /\ pc = "done" => UNCHANGED <<pc, outcome>>
        /\ pc = "done" /\ ~listening => ~listening'
        /\ Retrieving => Retrieving' \/ pc' = "done"
        /\ pc = "retrieved" => pc' \in {"retrieved", "done"}
        /\ Retrieving \/ pc = "retrieved" => outcome' \in {outcome, "REFUSAL", "ERROR"}
        /\ ~Retrieving /\ pc # "retrieved" => ~Retrieving' /\ pc' # "retrieved"
    BY <1>2, StreamSteps
  <2>2. CASE Retrieves /\ (Retrieving \/ pc = "done") /\ outcome # "ANSWER"
    BY <2>1, <2>2 DEF StreamInv, Retrieves, Retrieving
  <2>3. CASE Selects /\ pc \in {"retrieved", "done"} /\ outcome # "ANSWER"
    BY <2>1, <2>3 DEF StreamInv, Selects
  <2>4. CASE Generates /\ ~Retrieving /\ pc # "retrieved"
    BY <2>1, <2>4 DEF StreamInv, Generates
  <2>5. CASE Ended
    <3>1. Ended'
      BY <2>1, <2>5 DEF Ended, Terminal
    <3> QED
      BY <3>1 DEF StreamInv
  <2> QED
    BY <2>2, <2>3, <2>4, <2>5 DEF StreamInv
<1> QED
  BY <1>1, <1>2

\* The stream tells the stages in their order, no success before all of them were told, and ends
\* once, with what execute came to (execute_stream: the queue is drained before the terminal
\* event).
THEOREM ToldInOrder == Spec => []StreamTellsAll
<1>1. StreamInv => StreamTellsAll
  <2> DEFINE last == {"refusal", "failure", "final_validated"}
             told == {i \in DOMAIN events : events[i] \in last}
  <2> SUFFICES ASSUME StreamInv
               PROVE  /\ told \subseteq {Len(events)}
                      /\ told # {} => events[Len(events)] = Terminal
                      /\ events[Len(events)] = "final_validated" =>
                             events = <<"started", "retrieving", "selecting_evidence",
                                        "generating", "final_validated">>
    BY DEF StreamTellsAll
  <2>1. /\ Terminal \in last /\ (Terminal = "final_validated" => outcome = "ANSWER")
    BY DEF Terminal
  <2>2. CASE \/ events = <<"started">> \/ events = <<"started", "retrieving">>
             \/ events = <<"started", "retrieving", "selecting_evidence">>
             \/ events = <<"started", "retrieving", "selecting_evidence", "generating">>
    <3>1. told = {}
      BY <2>2
    <3>2. events[Len(events)] # "final_validated"
      BY <2>2
    <3> HIDE DEF told
    <3> QED
      BY <3>1, <3>2
  <2>3. CASE events = <<"started", "retrieving", Terminal>> /\ outcome # "ANSWER"
    <3>2. events[Len(events)] = Terminal
      BY <2>3
    <3>1. told \subseteq {Len(events)}
      BY <2>3
    <3> QED
      BY <2>1, <2>3, <3>1, <3>2
  <2>4. CASE /\ events = <<"started", "retrieving", "selecting_evidence", Terminal>>
             /\ outcome # "ANSWER"
    <3>2. events[Len(events)] = Terminal
      BY <2>4
    <3>1. told \subseteq {Len(events)}
      BY <2>4
    <3> QED
      BY <2>1, <2>4, <3>1, <3>2
  <2>5. CASE events = <<"started", "retrieving", "selecting_evidence", "generating", Terminal>>
    <3>2. events[Len(events)] = Terminal
      BY <2>5
    <3>1. told \subseteq {Len(events)}
      BY <2>5
    <3> QED
      BY <2>1, <2>5, <3>1, <3>2
  <2> QED
    BY <2>2, <2>3, <2>4, <2>5 DEF StreamInv, Retrieves, Selects, Generates, Ended
<1> QED
  BY StreamInit, StreamNext, <1>1, PTL DEF Spec
=============================================================================
