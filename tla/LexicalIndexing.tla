-------------------------- MODULE LexicalIndexing --------------------------
(***************************************************************************)
(* The lexical generations of one workspace.  PostgreSQL holds the rows    *)
(* and, for each document, a head that names the desired and the active    *)
(* generation; Qdrant holds the points of the generations.  No transaction *)
(* spans both: points are written between two transactions, and readers    *)
(* query them between two.                                                 *)
(*                                                                         *)
(* A deployment is of one of two modes.  "dynamic": maintenance loops      *)
(* index the whole corpus under a profile computed from it.  "reviewed":   *)
(* the profile is that of a reviewed manifest, and durable jobs extract    *)
(* and index one document each; how a job is leased is the subject of      *)
(* IngestionCoordination, here it only has an owner, the others being      *)
(* fenced.                                                                 *)
(*                                                                         *)
(* Transactions that change a head lock the workspace row and are one      *)
(* step, except that commit_corpus_transition reads before it locks.       *)
(***************************************************************************)
EXTENDS Naturals, FiniteSets

CONSTANTS
    Docs,        \* documents; numbers, for transactions lock them in the order of their ids
    MaxVersion,  \* contents a document may have
    Embedded,    \* the sets of documents that may be embedded before indexing begins
    Manifest,    \* the reviewed population: pairs of a document and its version
    Configs,     \* parser and chunking configurations of extraction
    DenseConfig, \* the one that embedded documents were chunked with
    Workers,     \* maintenance loops, or workers of index jobs
    Readers,     \* questions being answered
    None,        \* SQL NULL
    MaxChanges,  \* bound of the changes of documents and workspace
    MaxRevision, \* bound of the revision of a head
    MaxFailures  \* bound of crashes, failed calls and lost leases

ASSUME BoundsAssumption == MaxVersion \in Nat \ {0} /\ MaxRevision \in Nat
ASSUME DocsAssumption == Docs \subseteq Nat /\ IsFiniteSet(Docs)
ASSUME ConfigAssumption == DenseConfig \in Configs
ASSUME EmbeddedAssumption == Embedded \subseteq SUBSET Docs
ASSUME ManifestAssumption == Manifest \subseteq Docs \X (1..MaxVersion)

VARIABLES
    mode,
    doc,       \* rows of documents; version 0 is a row that does not exist yet
    ws,        \* the row of the workspace
    head,      \* lexical heads; revision 0 is a row that does not exist yet
    row,       \* lexical generations, by document and revision
    points,    \* generations whose points are all in Qdrant
    extract,   \* open extraction jobs
    job,       \* index jobs, by generation
    work,      \* what each worker is doing
    reader,    \* what each reader has seen
    changes, failures

jobs == <<extract, job>>
bounds == <<changes, failures>>
vars == <<mode, doc, ws, head, row, points, jobs, work, reader, bounds>>

Versions == 1..MaxVersion
Ids == Docs \X (1..MaxRevision)
Profiles == SUBSET (Docs \X Versions)

Doc == [version : 0..MaxVersion, revision : Nat, archived : BOOLEAN,
        dense : 0..MaxVersion]   \* the version of the active embedding set
Head == [revision : 0..MaxRevision, desired : 0..MaxRevision, active : 0..MaxRevision]
Row == [version : Versions, source : Nat, workspace : Nat, profile : Profiles,
        config : Configs, status : {"requested", "active"}]
Extraction == [doc : Docs, version : Versions, source : Nat, workspace : Nat,
               config : Configs, reserved : 0..MaxRevision]
Work == [phase : {"idle", "staging", "stale", "committing"}, batch : SUBSET Ids,
         staged : SUBSET Ids, membership : [active : SUBSET Docs, all : SUBSET Docs,
         profiles : SUBSET Profiles, kept : Docs \X Head \cup {None}] \cup {None}]
Reading == [phase : {"idle", "checked", "queried", "retrieved"},
            snapshot : SUBSET Ids, hits : SUBSET Ids]

IdleWork == [phase |-> "idle", batch |-> {}, staged |-> {}, membership |-> None]
IdleReader == [phase |-> "idle", snapshot |-> {}, hits |-> {}]

TypeOK ==
    /\ mode \in {"dynamic", "reviewed"}
    /\ doc \in [Docs -> Doc]
    /\ ws \in [revision : Nat, archived : BOOLEAN]
    /\ head \in [Docs -> Head]
    /\ DOMAIN row \subseteq Ids /\ \A g \in DOMAIN row : row[g] \in Row
    /\ points \subseteq DOMAIN row
    /\ extract \subseteq Extraction
    /\ DOMAIN job \subseteq DOMAIN row
    /\ \A g \in DOMAIN job : job[g] \in [status : {"open", "succeeded", "superseded", "failed"},
                                         owner : Workers \cup {None}]
    /\ work \in [Workers -> Work]
    /\ reader \in [Readers -> Reading]

\* Submission and publication have made the revision of an embedded document 2.
Init ==
    /\ mode \in {"dynamic", "reviewed"}
    /\ \E e \in Embedded :
           doc = [d \in Docs |->
               IF d \in e THEN [version |-> 1, revision |-> 2, archived |-> FALSE, dense |-> 1]
               ELSE [version |-> 0, revision |-> 0, archived |-> FALSE, dense |-> 0]]
    /\ ws = [revision |-> 0, archived |-> FALSE]
    /\ head = [d \in Docs |-> [revision |-> 0, desired |-> 0, active |-> 0]]
    /\ row = <<>> /\ job = <<>>
    /\ points = {} /\ extract = {}
    /\ work = [w \in Workers |-> IdleWork]
    /\ reader = [r \in Readers |-> IdleReader]
    /\ changes = 0 /\ failures = 0

----------------------------------------------------------------------------
\* What the transactions test.

Live == {d \in Docs : doc[d].version # 0 /\ ~doc[d].archived}
Current(g) ==
    /\ row[g].version = doc[g[1]].version
    /\ row[g].source = doc[g[1]].revision
    /\ row[g].workspace = ws.revision
Available(d) == ~ws.archived /\ ~doc[d].archived
Heads == {<<d, head[d].active>> : d \in {e \in Live : head[e].active # 0}}
ProfilesOf(ids) == {row[g].profile : g \in ids}

\* load_generation_in_transaction raises StaleGenerationError.
Stale(g) == ~Current(g) \/ ~Available(g[1]) \/ head[g[1]].desired # g[2]

\* Mutant of Servable: generations of several profiles are served.
Servable_mixedProfiles ==
    /\ ~ws.archived /\ Heads # {}
    /\ \A g \in Heads : row[g].status = "active" /\ Current(g)

\* read_active_generation_in_snapshot and read_active_generations_in_snapshot: every active
\* generation is that of the current snapshot, and all have one profile.
Servable ==
    /\ ~ws.archived
    /\ \A g \in Heads : row[g].status = "active" /\ Current(g)
    /\ Cardinality(ProfilesOf(Heads)) = 1

\* The snapshot a reader holds is authoritative still, and it is of the whole population.
Holds(snapshot) ==
    /\ snapshot \subseteq Heads
    /\ \A g \in snapshot : Available(g[1]) /\ row[g].status = "active" /\ Current(g)
    /\ {g[1] : g \in snapshot} = Live
    /\ mode = "reviewed" => {<<g[1], row[g].version>> : g \in snapshot} = Manifest

----------------------------------------------------------------------------
\* The documents and the workspace change.

Changing == changes < MaxChanges /\ changes' = changes + 1 /\ UNCHANGED failures

NewExtraction(d, c, reserved) ==
    [doc |-> d, version |-> doc'[d].version, source |-> doc'[d].revision,
     workspace |-> ws.revision, config |-> c, reserved |-> reserved]

\* Other content than the current, old or new, is submitted.
Submit(d, v, c) ==
    /\ Changing
    /\ ~ws.archived
    /\ doc[d].version # v
    /\ doc' = [doc EXCEPT ![d].version = v, ![d].revision = @ + 1]
    /\ IF mode = "reviewed"
       THEN extract' = extract \cup {NewExtraction(d, c, 0)}
       ELSE UNCHANGED extract
    /\ UNCHANGED <<mode, ws, head, row, points, job, work, reader>>

\* A dense job publishes the embeddings of the current version, or they are replaced by those
\* of another configuration.
Publish(d) ==
    /\ Changing
    /\ mode = "dynamic"
    /\ doc[d].version # 0
    /\ doc' = [doc EXCEPT ![d].dense = doc[d].version, ![d].revision = @ + 1]
    /\ UNCHANGED <<mode, ws, head, row, points, jobs, work, reader>>

Archive(d) ==
    /\ Changing
    /\ doc[d].version # 0
    /\ doc' = [doc EXCEPT ![d].archived = ~@, ![d].revision = @ + 1]
    /\ UNCHANGED <<mode, ws, head, row, points, jobs, work, reader>>

\* Mutant of MutateWorkspace: the revision is not counted.
MutateWorkspace_sameRevision ==
    /\ Changing
    /\ ws' = [ws EXCEPT !.archived = ~@]
    /\ UNCHANGED <<mode, doc, head, row, points, jobs, work, reader>>

\* The workspace is archived, or is not any more, or gets another name: its revision, which
\* every generation carries, counts all of them.
MutateWorkspace ==
    /\ Changing
    /\ \E archived \in IF ws.archived THEN {FALSE} ELSE BOOLEAN :
           ws' = [archived |-> archived, revision |-> ws.revision + 1]
    /\ UNCHANGED <<mode, doc, head, row, points, jobs, work, reader>>

----------------------------------------------------------------------------
\* The maintenance of a dynamic corpus.

Dense(d) == doc[d].dense = doc[d].version
Corpus == {<<d, doc[d].version>> : d \in Live}

\* prepare_dynamic_corpus keeps the request of a document or makes one.
Kept(d) ==
    LET g == <<d, head[d].desired>> IN
    /\ head[d].desired # 0
    /\ head[d].revision = head[d].desired
    /\ Current(g)
    /\ row[g].profile = Corpus
\* Mutant of Ready: an active generation of any revision will do.
Ready_requested(d) == Kept(d) /\ head[d].active # 0

\* Nothing is left to do for a document.
Ready(d) ==
    Kept(d) /\ head[d].active = head[d].desired /\ row[<<d, head[d].desired>>].status = "active"

Indexable == ~ws.archived /\ Live # {} /\ \A d \in Live : Dense(d)

NewRow(d, profile, c) ==
    [version |-> doc[d].version, source |-> doc[d].revision, workspace |-> ws.revision,
     profile |-> profile, config |-> c, status |-> "requested"]

Requested(ids, profile, c) ==
    [g \in ids \cup DOMAIN row |-> IF g \in ids THEN NewRow(g[1], profile, c) ELSE row[g]]

Prepare(w) ==
    LET fresh == {d \in Live : ~Kept(d)}
        next(d) == head[d].revision + 1
    IN  /\ mode = "dynamic"
        /\ work[w].phase = "idle"
        /\ Indexable
        /\ \E d \in Live : ~Ready(d)
        /\ \A d \in fresh : next(d) <= MaxRevision
        /\ row' = Requested({<<d, next(d)>> : d \in fresh}, Corpus, DenseConfig)
        /\ head' = [d \in Docs |-> IF d \in fresh
                                   THEN [head[d] EXCEPT !.revision = next(d), !.desired = next(d)]
                                   ELSE head[d]]
        /\ work' = [work EXCEPT ![w] = [IdleWork EXCEPT
               !.phase = "staging", !.batch = {<<d, head'[d].desired>> : d \in Live}]]
        /\ UNCHANGED <<mode, doc, ws, points, jobs, reader, bounds>>

\* stage_generation upserts the points and reads them back; it takes no lock.
Stage(w, g) ==
    /\ work[w].phase = "staging"
    /\ g \in work[w].batch \ work[w].staged
    /\ points' = points \cup {g}
    /\ work' = [work EXCEPT ![w].staged = @ \cup {g}]
    /\ UNCHANGED <<mode, doc, ws, head, row, jobs, reader, bounds>>

\* commit_corpus_transition reads the membership before it locks a row.  The session keeps the
\* last head it read, for a variable still names it.
ReadMembership(w) ==
    LET active == {g[1] : g \in Heads} IN
    /\ mode = "dynamic"
    /\ work[w].phase = "staging" /\ work[w].staged = work[w].batch
    /\ \E kept \in {<<d, head[d]>> : d \in active} \cup
                   (IF active = {} THEN {None} ELSE {}) :
           work' = [work EXCEPT ![w].phase = "committing", ![w].membership =
               [active |-> active, all |-> Live, profiles |-> ProfilesOf(Heads), kept |-> kept]]
    /\ UNCHANGED <<mode, doc, ws, head, row, points, jobs, reader, bounds>>

\* The whole corpus is needed when its profile changes or nothing is active yet.
Complete(batch, m) ==
    LET transition == m.profiles # {} /\ ProfilesOf(batch) \cap m.profiles = {}
    IN  (transition \/ m.active = {}) /\ m.all # {} => {g[1] : g \in batch} = m.all

\* The head a transaction compares with: the session returns an instance it still holds.
HeadSeen(w, d) ==
    LET kept == work[w].membership.kept
        first == CHOOSE e \in {g[1] : g \in work[w].batch} :
                     \A g \in work[w].batch : e <= g[1]
    IN  IF kept # None /\ kept[1] = d /\ d = first THEN kept[2] ELSE head[d]

Swaps(g, seen) ==
    /\ seen.desired = g[2] /\ seen.revision = g[2]
    /\ Current(g) /\ Available(g[1])

\* Only a changed column is written: the active generation, unless the head read had it.
Activated(w, d) ==
    LET g == CHOOSE b \in work[w].batch : b[1] = d
    IN  IF HeadSeen(w, d).active = g[2] THEN head[d] ELSE [head[d] EXCEPT !.active = g[2]]

Commit(w) ==
    LET batch == work[w].batch IN
    /\ work[w].phase = "committing"
    /\ IF Complete(batch, work[w].membership) /\ \A g \in batch : Swaps(g, HeadSeen(w, g[1]))
       THEN /\ row' = [g \in DOMAIN row |->
                           IF g \in batch THEN [row[g] EXCEPT !.status = "active"] ELSE row[g]]
            /\ head' = [d \in Docs |-> IF d \in {g[1] : g \in batch} THEN Activated(w, d)
                                       ELSE head[d]]
       ELSE UNCHANGED <<row, head>>
    /\ work' = [work EXCEPT ![w] = IdleWork]
    /\ UNCHANGED <<mode, doc, ws, points, jobs, reader, bounds>>

\* The process dies, the projection does not answer, or the lease of a job runs out unnoticed.
Abandon(w) ==
    /\ work[w].phase # "idle"
    /\ failures < MaxFailures /\ failures' = failures + 1
    /\ work' = [work EXCEPT ![w] = IdleWork]
    /\ UNCHANGED <<mode, doc, ws, head, row, points, jobs, reader, changes>>

----------------------------------------------------------------------------
\* The jobs of a reviewed corpus.

\* request_generation_in_transaction: a served generation of another snapshot, version or
\* profile is withdrawn at once.
Request(d, profile, c) ==
    LET r == head[d].revision + 1
        a == <<d, head[d].active>>
        serves == head[d].active # 0 /\ Current(a) /\ row[a].profile = profile
    IN  /\ r <= MaxRevision
        /\ row' = Requested({<<d, r>>}, profile, c)
        /\ head' = [head EXCEPT ![d] = [revision |-> r, desired |-> r,
                                        active |-> IF serves THEN @.active ELSE 0]]
        /\ job' = [g \in {<<d, r>>} \cup DOMAIN job |->
                       IF g = <<d, r>> THEN [status |-> "open", owner |-> None] ELSE job[g]]

ExtractionStale(j) ==
    \/ j.reserved # 0 /\ head[j.doc].revision # j.reserved
    \/ doc[j.doc].version # j.version \/ doc[j.doc].revision # j.source
    \/ ws.revision # j.workspace
    \/ ~Available(j.doc)

\* An extraction ends: superseded, or with a generation and its index job.
FinishExtraction(j) ==
    /\ extract' = extract \ {j}
    /\ IF ExtractionStale(j)
       THEN UNCHANGED <<head, row, job>>
       ELSE /\ <<j.doc, j.version>> \in Manifest
            /\ Request(j.doc, Manifest, j.config)
    /\ UNCHANGED <<mode, doc, ws, points, work, reader, bounds>>

\* It fails for good; that of a version nobody reviewed always does.
FailExtraction(j) ==
    /\ IF <<j.doc, j.version>> \in Manifest
       THEN failures < MaxFailures /\ failures' = failures + 1
       ELSE UNCHANGED failures
    /\ extract' = extract \ {j}
    /\ UNCHANGED <<mode, doc, ws, head, row, points, job, work, reader, changes>>

\* A reprocess of the current version: an open extraction or a valid desired generation of the
\* same configuration is reused.
Reprocess(d, c) ==
    LET j == [doc |-> d, version |-> doc[d].version, source |-> doc[d].revision,
              workspace |-> ws.revision, config |-> c, reserved |-> 0]
        g == <<d, head[d].desired>>
        desired == /\ head[d].desired # 0 /\ head[d].desired = head[d].revision
                   /\ Current(g) /\ row[g].profile = Manifest /\ row[g].config = c
                   /\ g \in DOMAIN job /\ job[g].status \in {"open", "succeeded"}
    IN  /\ Changing
        /\ mode = "reviewed"
        /\ ~ws.archived /\ doc[d].version # 0
        /\ j \notin extract /\ [j EXCEPT !.reserved = head[d].revision] \notin extract
        /\ ~desired
        /\ extract' = extract \cup {j}
        /\ UNCHANGED <<mode, doc, ws, head, row, points, job, work, reader>>

\* Mutant of Rollback: the desired generation stays desired.
Rollback_keepsDesired(d, g) ==
    /\ Changing
    /\ g[1] = d
    /\ Available(d)
    /\ g \in DOMAIN job /\ job[g].status = "succeeded"
    /\ row[g].status = "active" /\ Current(g)
    /\ head[d].revision < MaxRevision
    /\ head' = [head EXCEPT ![d].revision = @ + 1]
    /\ UNCHANGED doc
    /\ extract' = extract \cup {NewExtraction(d, row[g].config, head'[d].revision)}
    /\ UNCHANGED <<mode, ws, row, points, job, work, reader>>

\* A reprocess that goes back to the configuration of an earlier generation reserves the next
\* revision of the head, which fences the request that is under way.
Rollback(d, g) ==
    /\ Changing
    /\ g[1] = d
    /\ Available(d)
    /\ g \in DOMAIN job /\ job[g].status = "succeeded"
    /\ row[g].status = "active" /\ Current(g)
    /\ head[d].revision < MaxRevision
    /\ head' = [head EXCEPT ![d].revision = @ + 1, ![d].desired = 0]
    /\ UNCHANGED doc
    /\ extract' = extract \cup {NewExtraction(d, row[g].config, head'[d].revision)}
    /\ UNCHANGED <<mode, ws, row, points, job, work, reader>>

\* The reindex command requests what a document has never had: a generation of its version.
Reindex(d) ==
    /\ mode = "reviewed"
    /\ d \in Live /\ Available(d)
    /\ doc[d].dense = doc[d].version
    /\ \A g \in DOMAIN row : ~(g[1] = d /\ row[g].version = doc[d].version)
    /\ Request(d, Manifest, DenseConfig)
    /\ UNCHANGED <<mode, doc, ws, points, extract, work, reader, bounds>>

\* A worker claims an index job, perhaps one whose owner lost its lease, and loads it.
Claim(w, g) ==
    /\ work[w].phase = "idle"
    /\ g \in DOMAIN job /\ job[g].status = "open"
    /\ IF job[g].owner = None
       THEN UNCHANGED failures
       ELSE failures < MaxFailures /\ failures' = failures + 1
    /\ IF Stale(g) \/ <<g[1], row[g].version>> \in Manifest
       THEN /\ job' = [job EXCEPT ![g].owner = w]
            /\ work' = [work EXCEPT ![w] = [IdleWork EXCEPT
                   !.phase = IF Stale(g) THEN "stale" ELSE "staging", !.batch = {g}]]
       ELSE /\ job' = [job EXCEPT ![g] = [status |-> "failed", owner |-> w]]
            /\ UNCHANGED work
    /\ UNCHANGED <<mode, doc, ws, head, row, points, extract, reader, changes>>

Owns(w, g) == job[g].owner = w /\ job[g].status = "open"

\* finalize_success of an index job: superseded, or activate_ready_in_transaction.
Finalize(w) ==
    \E g \in work[w].batch :
        /\ mode = "reviewed"
        /\ work[w].phase = "staging" /\ g \in work[w].staged
        /\ IF ~Owns(w, g)
           THEN UNCHANGED <<head, row, job>>
           ELSE IF Stale(g)
           THEN job' = [job EXCEPT ![g].status = "superseded"] /\ UNCHANGED <<head, row>>
           ELSE /\ head' = [head EXCEPT ![g[1]].active = g[2]]
                /\ row' = [row EXCEPT ![g].status = "active"]
                /\ job' = [job EXCEPT ![g].status = "succeeded"]
        /\ work' = [work EXCEPT ![w] = IdleWork]
        /\ UNCHANGED <<mode, doc, ws, points, extract, reader, bounds>>

\* finalize_superseded asks again whether the work is stale, and refuses when it is not.
Supersede(w) ==
    \E g \in work[w].batch :
        /\ work[w].phase = "stale"
        /\ job' = IF Owns(w, g) /\ Stale(g) THEN [job EXCEPT ![g].status = "superseded"] ELSE job
        /\ work' = [work EXCEPT ![w] = IdleWork]
        /\ UNCHANGED <<mode, doc, ws, head, row, points, extract, reader, bounds>>

\* Mutant of Cleanup: the active generation is not asked for.
Cleanup_desiredOnly(g) ==
    /\ mode = "reviewed"
    /\ g \in points
    /\ g[2] # head[g[1]].desired
    /\ points' = points \ {g}
    /\ UNCHANGED <<mode, doc, ws, head, row, jobs, work, reader, bounds>>

\* The cleanup command deletes the points of a generation no head names, and holds the locks
\* while it does.
Cleanup(g) ==
    /\ mode = "reviewed"
    /\ g \in points
    /\ g[2] \notin {head[g[1]].active, head[g[1]].desired}
    /\ points' = points \ {g}
    /\ UNCHANGED <<mode, doc, ws, head, row, jobs, work, reader, bounds>>

----------------------------------------------------------------------------
\* Readers.  Every transaction that finds the snapshot invalid ends the request as
\* LEXICAL_RETRIEVAL_UNAVAILABLE.

\* The snapshot is read in one transaction and checked in a second, which repeats the tests of
\* the first: nothing else happens between them that the second does not see.
Read(r) ==
    /\ reader[r].phase = "idle"
    /\ Servable /\ Holds(Heads)
    /\ reader' = [reader EXCEPT ![r] =
           [IdleReader EXCEPT !.phase = "checked", !.snapshot = Heads]]
    /\ UNCHANGED <<mode, doc, ws, head, row, points, jobs, work, bounds>>

Query(r) ==
    /\ reader[r].phase = "checked"
    /\ reader' = [reader EXCEPT ![r] =
           [@ EXCEPT !.phase = "queried", !.hits = reader[r].snapshot \cap points]]
    /\ UNCHANGED <<mode, doc, ws, head, row, points, jobs, work, bounds>>

Retrieve(r) ==
    /\ reader[r].phase = "queried"
    /\ reader' = [reader EXCEPT ![r] =
           IF Holds(reader[r].snapshot) THEN [@ EXCEPT !.phase = "retrieved"] ELSE IdleReader]
    /\ UNCHANGED <<mode, doc, ws, head, row, points, jobs, work, bounds>>

\* The answer is generated, checked again, and written with its trace in a transaction that
\* asks whether the snapshot is all that is active now.
Answer(r) ==
    /\ reader[r].phase = "retrieved"
    /\ Holds(reader[r].snapshot) /\ Servable /\ reader[r].snapshot = Heads
    /\ reader' = [reader EXCEPT ![r] = IdleReader]
    /\ UNCHANGED <<mode, doc, ws, head, row, points, jobs, work, bounds>>

Refuse(r) ==
    /\ reader[r].phase = "retrieved"
    /\ ~(Holds(reader[r].snapshot) /\ Servable /\ reader[r].snapshot = Heads)
    /\ reader' = [reader EXCEPT ![r] = IdleReader]
    /\ UNCHANGED <<mode, doc, ws, head, row, points, jobs, work, bounds>>

----------------------------------------------------------------------------
Change ==
    \/ \E d \in Docs, v \in Versions, c \in Configs : Submit(d, v, c)
    \/ \E d \in Docs : Publish(d) \/ Archive(d)
    \/ MutateWorkspace

Maintain(w) == Prepare(w) \/ (\E g \in Ids : Stage(w, g)) \/ ReadMembership(w) \/ Commit(w)

JobStep ==
    \/ \E j \in extract : FinishExtraction(j) \/ FailExtraction(j)
    \/ \E d \in Docs, c \in Configs : Reprocess(d, c)
    \/ \E d \in Docs, g \in Ids : Rollback(d, g)
    \/ \E d \in Docs : Reindex(d)
    \/ \E w \in Workers, g \in Ids : Claim(w, g)
    \/ \E w \in Workers : Finalize(w) \/ Supersede(w)
    \/ \E g \in Ids : Cleanup(g)

ReaderStep(r) == Read(r) \/ Query(r) \/ Retrieve(r) \/ Answer(r) \/ Refuse(r)

Next ==
    \/ Change
    \/ \E w \in Workers : Maintain(w) \/ Abandon(w)
    \/ JobStep
    \/ \E r \in Readers : ReaderStep(r)

Spec == Init /\ [][Next]_vars

\* The worker command runs the maintenance again and again; steps of readers end by themselves.
Fairness == \A w \in Workers : WF_vars(Maintain(w))
FairSpec == Spec /\ Fairness

----------------------------------------------------------------------------
\* A request that was retrieved holds a hit list of the whole snapshot: the points of no
\* generation were deleted under the query (ADR 0019: an invalidated authority is never an
\* observation of empty evidence).
ServedCompletely ==
    \A r \in Readers : reader[r].phase = "retrieved" => reader[r].hits = reader[r].snapshot

\* What is answered from was scored under one profile, and that profile was computed from a
\* corpus with every document of the snapshot, at the very version served.
AnsweredOnOneCorpus ==
    \A r \in Readers : reader[r].phase = "retrieved" =>
        \E p \in Profiles : \A g \in reader[r].snapshot :
            row[g].profile = p /\ <<g[1], row[g].version>> \in p

\* Work found stale stays stale: the second look of finalize_superseded, in a transaction of
\* its own, never turns the worker away.
StaleStaysStale ==
    \A w \in Workers : work[w].phase = "stale" => \A g \in work[w].batch : Stale(g)

\* A generation requested before a rollback was reserved does not become active after it
\* (ADR 0019: the enqueue fences B's old activation).
OnlyNewestActivates ==
    [][mode = "reviewed" => \A d \in Docs :
           head'[d].active \in {head[d].active, 0, head[d].revision}]_vars

\* The compare-and-set of the heads: a generation becomes active only while it is the one
\* desired.
OnlyDesiredActivates ==
    [][\A d \in Docs : head'[d].active \in {head[d].active, 0, head[d].desired}]_vars

\* A corpus that has its embeddings and changes no more is indexed and served in the end.
CorpusIsIndexed == mode = "dynamic" /\ <>[]Indexable => <>[](Servable /\ {g[1] : g \in Heads} = Live)
=============================================================================
