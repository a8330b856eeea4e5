----------------------- MODULE LexicalIndexing_proofs -----------------------
(***************************************************************************)
(* Proofs about LexicalIndexing for any set of documents, workers and      *)
(* readers, any manifest and any bounds.                                   *)
(*                                                                         *)
(* The argument is about revisions.  A row is written once and never takes *)
(* another version, source, workspace or profile; documents, the workspace *)
(* and heads only count upwards, so a generation that is no longer current *)
(* or desired never is again.  In a reviewed corpus a generation is        *)
(* activated once, by the one job it has: a generation whose points the    *)
(* cleanup takes is lost for good, and a reader that holds it finds out.   *)
(***************************************************************************)
EXTENDS LexicalIndexing, FiniteSetTheorems, TLAPS

\* A reviewed generation was active and is not any more.
Lost(g) ==
    /\ mode = "reviewed"
    /\ g \in DOMAIN job /\ job[g].status = "succeeded"
    /\ head[g[1]].active # g[2]

RowOK(g) ==
    /\ g[2] <= head[g[1]].revision
    /\ row[g].source <= doc[g[1]].revision
    /\ row[g].source = doc[g[1]].revision => row[g].version = doc[g[1]].version
    /\ row[g].workspace <= ws.revision
    /\ mode = "dynamic" => <<g[1], row[g].version>> \in row[g].profile
    /\ mode = "reviewed" => row[g].profile = Manifest
    /\ mode = "reviewed" =>
           g \in DOMAIN job /\ (row[g].status = "active" => job[g].status = "succeeded")

HeadOK(d) ==
    /\ head[d].desired \in {0, head[d].revision}
    /\ head[d].desired # 0 => <<d, head[d].desired>> \in DOMAIN row
    /\ head[d].active # 0 => <<d, head[d].active>> \in points

WorkOK(w) ==
    /\ work[w].batch \subseteq DOMAIN row
    /\ work[w].staged \subseteq work[w].batch
    /\ work[w].phase = "committing" => mode = "dynamic" /\ work[w].staged = work[w].batch
    /\ mode = "dynamic" => work[w].staged \subseteq points
    /\ \A g \in work[w].staged : head[g[1]].desired = g[2] => g \in points
    /\ work[w].phase = "stale" => \A g \in work[w].batch : Stale(g)

\* The rows are those of one corpus.
OneCorpus(ids) ==
    \E p \in Profiles : \A g \in ids : row[g].profile = p /\ <<g[1], row[g].version>> \in p

ReaderOK(r) ==
    /\ reader[r].snapshot \subseteq DOMAIN row
    /\ \A g \in reader[r].snapshot : row[g].status = "active"
    /\ OneCorpus(reader[r].snapshot)
    /\ reader[r].hits \subseteq reader[r].snapshot
    /\ reader[r].phase = "checked" => \A g \in reader[r].snapshot : g \in points \/ Lost(g)
    /\ reader[r].phase = "queried" =>
           \A g \in reader[r].snapshot : g \in reader[r].hits \/ Lost(g)
    /\ reader[r].phase = "retrieved" => reader[r].hits = reader[r].snapshot

\* A dynamic corpus has no jobs.
ReviewedOnly == mode = "dynamic" => extract = {} /\ DOMAIN job = {}

Inv ==
    /\ TypeOK
    /\ ReviewedOnly
    /\ \A g \in DOMAIN row : RowOK(g)
    /\ \A d \in Docs : HeadOK(d)
    /\ \A w \in Workers : WorkOK(w)
    /\ \A r \in Readers : ReaderOK(r)

----------------------------------------------------------------------------
LEMMA InitInv == Init => Inv
<1> SUFFICES ASSUME Init PROVE Inv
  OBVIOUS
<1> USE DEF Init
<1>1. DOMAIN row = {} /\ DOMAIN job = {}
  OBVIOUS
<1>2. PICK e \in Embedded :
          doc = [d \in Docs |->
              IF d \in e THEN [version |-> 1, revision |-> 2, archived |-> FALSE, dense |-> 1]
              ELSE [version |-> 0, revision |-> 0, archived |-> FALSE, dense |-> 0]]
  OBVIOUS
<1>3. doc \in [Docs -> Doc]
  BY <1>2, BoundsAssumption DEF Doc
<1>4. head \in [Docs -> Head]
  BY BoundsAssumption DEF Head
<1>5. \A w \in Workers : /\ work[w] = IdleWork /\ work[w] \in Work
                        /\ work[w].batch = {} /\ work[w].staged = {} /\ work[w].phase = "idle"
  BY DEF IdleWork, Work
<1>6. \A r \in Readers : /\ reader[r] = IdleReader /\ reader[r] \in Reading
                        /\ reader[r].snapshot = {} /\ reader[r].hits = {}
                        /\ reader[r].phase = "idle"
  BY DEF IdleReader, Reading
<1>7. TypeOK
  BY <1>1, <1>3, <1>4, <1>5, <1>6 DEF TypeOK
<1>8. \A w \in Workers : WorkOK(w)
  BY <1>1, <1>5 DEF WorkOK
<1>9. \A r \in Readers : ReaderOK(r)
  <2>1. {} \in Profiles
    BY DEF Profiles
  <2> QED
    BY <1>6, <2>1 DEF ReaderOK, OneCorpus
<1>10. \A d \in Docs : HeadOK(d)
  BY DEF HeadOK
<1> QED
  BY <1>1, <1>7, <1>8, <1>9, <1>10 DEF Inv, ReviewedOnly

----------------------------------------------------------------------------
\* What no step takes back.

RowsKept ==
    \A g \in DOMAIN row :
        /\ g \in DOMAIN row'
        /\ row'[g].version = row[g].version /\ row'[g].profile = row[g].profile
        /\ row'[g].source = row[g].source /\ row'[g].workspace = row[g].workspace
        /\ row[g].status = "active" => row'[g].status = "active"
        /\ mode = "reviewed" /\ row'[g].status = "active" /\ row[g].status # "active" =>
               job'[g].status = "succeeded"

JobsKept ==
    \A g \in DOMAIN job :
        g \in DOMAIN job' /\ (job[g].status = "succeeded" => job'[g].status = "succeeded")

RevisionsGrow ==
    /\ \A d \in Docs : /\ doc[d].revision <= doc'[d].revision
                       /\ doc'[d].revision = doc[d].revision => doc'[d] = doc[d]
    /\ ws.revision <= ws'.revision
    /\ ws'.revision = ws.revision => ws' = ws

\* What is desired now is new, and a reviewed generation is activated by an open job.
HeadsGrow ==
    \A d \in Docs :
        /\ head[d].revision <= head'[d].revision
        /\ \/ head'[d].desired \in {0, head[d].desired}
           \/ head'[d].desired > head[d].revision
        /\ \/ head'[d].active \in {0, head[d].active}
           \/ mode = "dynamic"
           \/ job[<<d, head'[d].active>>].status # "succeeded"

PointsKept ==
    \A g \in points :
        \/ g \in points'
        \/ /\ mode = "reviewed" /\ g[2] \notin {head[g[1]].active, head[g[1]].desired}
           /\ UNCHANGED <<head, job>>

Carries == mode' = mode /\ RowsKept /\ JobsKept /\ RevisionsGrow /\ HeadsGrow /\ PointsKept

\* A generation and the rows it is of.
LEMMA Generation ==
    ASSUME Inv, NEW g \in DOMAIN row
    PROVE  /\ g \in Ids /\ g[1] \in Docs /\ g[2] \in Nat /\ g[2] # 0 /\ g = <<g[1], g[2]>>
           /\ row[g] \in Row /\ RowOK(g)
           /\ row[g].source \in Nat /\ row[g].workspace \in Nat
           /\ doc[g[1]].revision \in Nat /\ ws.revision \in Nat
           /\ head[g[1]].revision \in Nat /\ head[g[1]].desired \in Nat
           /\ head[g[1]].active \in Nat
<1>1. g \in Ids /\ row[g] \in Row /\ RowOK(g)
  BY DEF Inv, TypeOK
<1>2. g[1] \in Docs /\ g[2] \in 1..MaxRevision /\ g = <<g[1], g[2]>>
  BY <1>1 DEF Ids
<1>3. doc[g[1]] \in Doc /\ head[g[1]] \in Head /\ ws.revision \in Nat
  BY <1>2 DEF Inv, TypeOK
<1> QED
  BY <1>1, <1>2, <1>3, BoundsAssumption DEF Row, Doc, Head

LEMMA RevisionTypes ==
    ASSUME TypeOK', NEW d \in Docs
    PROVE  /\ doc'[d].revision \in Nat /\ ws'.revision \in Nat /\ head'[d].revision \in Nat
           /\ head'[d].desired \in Nat /\ head'[d].active \in Nat
<1>1. doc'[d] \in Doc /\ head'[d] \in Head
  BY DEF TypeOK
<1> QED
  BY <1>1, BoundsAssumption DEF Doc, Head, TypeOK

\* What is stale stays so: revisions do not come back.
LEMMA StaleCarried ==
    ASSUME Inv, TypeOK', RevisionsGrow, HeadsGrow, RowsKept, NEW g \in DOMAIN row, Stale(g)
    PROVE  Stale(g)'
<1>1. /\ g[1] \in Docs /\ g[2] \in Nat /\ g[2] # 0 /\ RowOK(g)
      /\ row[g].source \in Nat /\ row[g].workspace \in Nat
      /\ doc[g[1]].revision \in Nat /\ ws.revision \in Nat
      /\ head[g[1]].revision \in Nat
  BY Generation
<1>2. doc'[g[1]].revision \in Nat /\ ws'.revision \in Nat /\ head'[g[1]].desired \in Nat
  BY <1>1, RevisionTypes
<1>3. /\ row'[g].version = row[g].version /\ row'[g].source = row[g].source
      /\ row'[g].workspace = row[g].workspace
  BY DEF RowsKept
<1>4. CASE head[g[1]].desired # g[2]
  <2>1. g[2] <= head[g[1]].revision
    BY <1>1 DEF RowOK
  <2>2. \/ head'[g[1]].desired \in {0, head[g[1]].desired}
        \/ head'[g[1]].desired > head[g[1]].revision
    BY <1>1 DEF HeadsGrow
  <2>3. head'[g[1]].desired # g[2]
    BY <1>1, <1>2, <1>4, <2>1, <2>2
  <2> QED
    BY <2>3 DEF Stale
<1>5. CASE ~Current(g)
  <2>1. row[g].source < doc[g[1]].revision \/ row[g].workspace < ws.revision
    BY <1>1, <1>5 DEF Current, RowOK
  <2>2. row[g].source < doc'[g[1]].revision \/ row[g].workspace < ws'.revision
    BY <1>1, <1>2, <2>1 DEF RevisionsGrow
  <2> QED
    BY <1>1, <1>2, <1>3, <2>2 DEF Stale, Current
<1>6. CASE ~Available(g[1])
  <2>1. CASE ws' = ws /\ doc'[g[1]] = doc[g[1]]
    BY <1>6, <2>1 DEF Available, Stale
  <2>2. CASE ~(ws' = ws /\ doc'[g[1]] = doc[g[1]])
    <3>1. row[g].source < doc'[g[1]].revision \/ row[g].workspace < ws'.revision
      BY <1>1, <1>2, <2>2 DEF RevisionsGrow, RowOK
    <3> QED
      BY <1>1, <1>2, <1>3, <3>1 DEF Stale, Current
  <2> QED
    BY <2>1, <2>2
<1> QED
  BY <1>4, <1>5, <1>6 DEF Stale

LEMMA LostCarried ==
    ASSUME Inv, TypeOK', Carries, NEW g \in DOMAIN row, Lost(g)
    PROVE  Lost(g)'
<1>1. g[1] \in Docs /\ g[2] # 0 /\ g = <<g[1], g[2]>>
  BY Generation
<1>2. g \in DOMAIN job' /\ job'[g].status = "succeeded" /\ mode' = mode
  BY DEF Carries, JobsKept, Lost
<1>3. head'[g[1]].active # g[2]
  BY <1>1 DEF Carries, HeadsGrow, Lost
<1> QED
  BY <1>2, <1>3 DEF Lost

LEMMA RowCarried ==
    ASSUME Inv, TypeOK', Carries, NEW g \in DOMAIN row
    PROVE  RowOK(g)'
<1>1. /\ g[1] \in Docs /\ g[2] \in Nat /\ RowOK(g)
      /\ row[g].source \in Nat /\ row[g].workspace \in Nat
      /\ doc[g[1]].revision \in Nat /\ ws.revision \in Nat
      /\ head[g[1]].revision \in Nat
  BY Generation
<1>2. doc'[g[1]].revision \in Nat /\ ws'.revision \in Nat /\ head'[g[1]].revision \in Nat
  BY <1>1, RevisionTypes
<1>3. /\ row'[g].version = row[g].version /\ row'[g].source = row[g].source
      /\ row'[g].workspace = row[g].workspace /\ row'[g].profile = row[g].profile
      /\ mode' = mode
  BY DEF Carries, RowsKept
<1>4. g[2] <= head'[g[1]].revision
  <2>1. g[2] <= head[g[1]].revision
    BY <1>1 DEF RowOK
  <2>2. head[g[1]].revision <= head'[g[1]].revision
    BY <1>1 DEF Carries, HeadsGrow
  <2> QED
    BY <1>1, <1>2, <2>1, <2>2
<1>5. /\ row[g].source <= doc'[g[1]].revision
      /\ row[g].source = doc'[g[1]].revision => row[g].version = doc'[g[1]].version
      /\ row[g].workspace <= ws'.revision
  BY <1>1, <1>2 DEF Carries, RevisionsGrow, RowOK
<1>6. mode = "reviewed" =>
          g \in DOMAIN job' /\ (row'[g].status = "active" => job'[g].status = "succeeded")
  BY <1>1 DEF Carries, RowsKept, JobsKept, RowOK
<1> QED
  BY <1>1, <1>3, <1>4, <1>5, <1>6 DEF RowOK

LEMMA HeadCarried ==
    ASSUME Inv, Carries, NEW d \in Docs, head'[d] = head[d]
    PROVE  HeadOK(d)'
<1>1. HeadOK(d)
  BY DEF Inv
<1>2. head[d].active # 0 => <<d, head[d].active>> \in points'
  BY <1>1 DEF HeadOK, Carries, PointsKept
<1>3. head[d].desired # 0 => <<d, head[d].desired>> \in DOMAIN row'
  BY <1>1 DEF HeadOK, Carries, RowsKept
<1> QED
  BY <1>1, <1>2, <1>3 DEF HeadOK

LEMMA WorkCarried ==
    ASSUME Inv, TypeOK', Carries, NEW w \in Workers, work'[w] = work[w]
    PROVE  WorkOK(w)'
<1>1. WorkOK(w) /\ mode' = mode
  BY DEF Inv, Carries
<1>2. work[w].batch \subseteq DOMAIN row'
  BY <1>1 DEF WorkOK, Carries, RowsKept
<1>3. mode = "dynamic" => work[w].staged \subseteq points'
  BY <1>1 DEF WorkOK, Carries, PointsKept
<1>4. ASSUME NEW g \in work[w].staged, head'[g[1]].desired = g[2]
      PROVE  g \in points'
  <2>1. /\ g[1] \in Docs /\ g[2] \in Nat /\ g[2] # 0 /\ RowOK(g)
        /\ head[g[1]].revision \in Nat
    BY <1>1, Generation DEF WorkOK
  <2>2. head[g[1]].desired = g[2]
    <3>1. g[2] <= head[g[1]].revision
      BY <2>1 DEF RowOK
    <3>2. \/ head'[g[1]].desired \in {0, head[g[1]].desired}
          \/ head'[g[1]].desired > head[g[1]].revision
      BY <2>1 DEF Carries, HeadsGrow
    <3> QED
      BY <1>4, <2>1, <3>1, <3>2
  <2> QED
    BY <1>1, <2>2 DEF WorkOK, Carries, PointsKept
<1>5. work[w].phase = "stale" => \A g \in work[w].batch : Stale(g)'
  BY <1>1, StaleCarried DEF WorkOK, Carries
<1> QED
  BY <1>1, <1>2, <1>3, <1>4, <1>5 DEF WorkOK

LEMMA ReaderCarried ==
    ASSUME Inv, TypeOK', Carries, NEW r \in Readers, reader'[r] = reader[r]
    PROVE  ReaderOK(r)'
<1> DEFINE S == reader[r].snapshot
<1>1. ReaderOK(r)
  BY DEF Inv
<1>2. S \subseteq DOMAIN row /\ S \subseteq DOMAIN row' /\ \A g \in S : row'[g].status = "active"
  BY <1>1 DEF ReaderOK, Carries, RowsKept
<1>3. OneCorpus(S)'
  BY <1>1, <1>2 DEF OneCorpus, ReaderOK, Carries, RowsKept
<1>4. ASSUME NEW g \in S PROVE Lost(g) => Lost(g)'
  BY <1>2, <1>4, LostCarried
<1>5. ASSUME reader[r].phase = "checked", NEW g \in S PROVE g \in points' \/ Lost(g)'
  <2>1. g \in points \/ Lost(g)
    BY <1>1, <1>5 DEF ReaderOK
  <2>2. CASE g \in points /\ g \notin points'
    <3>1. mode = "reviewed" /\ g[2] # head[g[1]].active /\ UNCHANGED <<head, job>> /\ mode' = mode
      BY <2>2 DEF Carries, PointsKept
    <3>2. g \in DOMAIN job /\ job[g].status = "succeeded"
      BY <1>1, <1>2, <3>1, Generation DEF ReaderOK, RowOK
    <3> QED
      BY <3>1, <3>2 DEF Lost
  <2> QED
    BY <1>4, <2>1, <2>2
<1> QED
  BY <1>1, <1>2, <1>3, <1>4, <1>5 DEF ReaderOK

\* A step keeps the invariant when what it touches keeps it.
LEMMA StepInv ==
    ASSUME Inv, TypeOK', Carries, ReviewedOnly',
           \A g \in DOMAIN row' : g \in DOMAIN row \/ RowOK(g)',
           \A d \in Docs : head'[d] = head[d] \/ HeadOK(d)',
           \A w \in Workers : work'[w] = work[w] \/ WorkOK(w)',
           \A r \in Readers : reader'[r] = reader[r] \/ ReaderOK(r)'
    PROVE  Inv'
<1>1. \A g \in DOMAIN row' : RowOK(g)'
  BY RowCarried
<1>2. \A d \in Docs : HeadOK(d)'
  BY HeadCarried
<1>3. \A w \in Workers : WorkOK(w)'
  BY WorkCarried
<1>4. \A r \in Readers : ReaderOK(r)'
  BY ReaderCarried
<1> QED
  BY <1>1, <1>2, <1>3, <1>4 DEF Inv

----------------------------------------------------------------------------
\* The documents and the workspace change.

LEMMA ChangedInv ==
    ASSUME Inv, RevisionsGrow, doc' \in [Docs -> Doc],
           ws' \in [revision : Nat, archived : BOOLEAN], extract' \subseteq Extraction,
           mode = "dynamic" => extract' = {},
           UNCHANGED <<mode, head, row, points, job, work, reader>>
    PROVE  Inv'
<1>1. TypeOK'
  BY DEF Inv, TypeOK
<1>2. Carries
  <2>1. \A d \in Docs : head[d].revision \in Nat
    BY <1>1, RevisionTypes
  <2> QED
    BY <2>1 DEF Carries, RowsKept, JobsKept, HeadsGrow, PointsKept
<1> QED
  BY <1>1, <1>2, StepInv DEF Inv, ReviewedOnly

\* A document is written: its revision counts.
LEMMA WrittenInv ==
    ASSUME Inv, NEW d \in Docs, doc' \in [Docs -> Doc],
           \A c \in Docs : c # d => doc'[c] = doc[c],
           doc'[d].revision = doc[d].revision + 1,
           extract' \subseteq Extraction, mode = "dynamic" => extract' = {},
           UNCHANGED <<mode, ws, head, row, points, job, work, reader>>
    PROVE  Inv'
<1>1. /\ \A c \in Docs : doc[c].revision \in Nat
      /\ ws \in [revision : Nat, archived : BOOLEAN] /\ ws.revision \in Nat
  BY DEF Inv, TypeOK, Doc
<1>2. ASSUME NEW c \in Docs
      PROVE  /\ doc[c].revision <= doc'[c].revision
             /\ doc'[c].revision = doc[c].revision => doc'[c] = doc[c]
  <2>1. CASE c = d
    BY <1>1, <2>1
  <2>2. CASE c # d
    BY <1>1, <2>2
  <2> QED
    BY <2>1, <2>2
<1>3. RevisionsGrow
  BY <1>1, <1>2 DEF RevisionsGrow
<1> QED
  BY <1>1, <1>3, ChangedInv

LEMMA NewExtractionType ==
    ASSUME Inv, NEW d \in Docs, NEW c \in Configs, NEW r \in 0..MaxRevision,
           doc'[d] \in Doc, doc'[d].version \in Versions
    PROVE  NewExtraction(d, c, r) \in Extraction
<1>1. ws.revision \in Nat /\ doc'[d].revision \in Nat
  BY DEF Inv, TypeOK, Doc
<1> QED
  BY <1>1 DEF NewExtraction, Extraction

LEMMA ChangeInv ==
    ASSUME Inv, Change
    PROVE  Inv'
<1>1. doc \in [Docs -> Doc] /\ ws \in [revision : Nat, archived : BOOLEAN] /\ extract \subseteq Extraction
  BY DEF Inv, TypeOK
<1>6. mode = "dynamic" => extract = {}
  BY DEF Inv, ReviewedOnly
<1>2. ASSUME NEW d \in Docs, NEW v \in Versions, NEW c \in Configs, Submit(d, v, c)
      PROVE  Inv'
  <2> DEFINE n == doc[d].revision + 1
  <2>1. doc[d] \in Doc /\ n \in Nat /\ v \in 0..MaxVersion
    BY <1>1, BoundsAssumption DEF Doc, Versions
  <2>2. doc' = [doc EXCEPT ![d].version = v, ![d].revision = n]
    BY <1>1, <1>2 DEF Submit
  <2> HIDE DEF n
  <2>3. /\ doc' \in [Docs -> Doc] /\ \A e \in Docs : e # d => doc'[e] = doc[e]
        /\ doc'[d].version = v /\ doc'[d].revision = n
    BY <1>1, <2>1, <2>2 DEF Doc
  <2>4. UNCHANGED <<mode, ws, head, row, points, job, work, reader>>
    BY <1>2 DEF Submit
  <2>5. extract' \subseteq Extraction
    <3>1. doc'[d] \in Doc /\ 0 \in 0..MaxRevision
      BY <2>3, BoundsAssumption
    <3>2. NewExtraction(d, c, 0) \in Extraction
      BY <2>3, <3>1, NewExtractionType
    <3> QED
      BY <1>1, <1>2, <3>2 DEF Submit
  <2>6. mode = "dynamic" => extract' = {}
    BY <1>2, <1>6 DEF Submit
  <2> QED
    BY <2>3, <2>4, <2>5, <2>6, WrittenInv DEF n
<1>3. ASSUME NEW d \in Docs, Publish(d) PROVE Inv'
  <2> DEFINE n == doc[d].revision + 1
             v == doc[d].version
  <2>1. doc[d] \in Doc /\ n \in Nat /\ v \in 0..MaxVersion
    BY <1>1 DEF Doc
  <2>2. doc' = [doc EXCEPT ![d].dense = v, ![d].revision = n]
    BY <1>1, <1>3 DEF Publish
  <2>3. UNCHANGED <<mode, ws, head, row, points, job, extract, work, reader>>
    BY <1>3 DEF Publish, jobs
  <2> HIDE DEF n, v
  <2>4. /\ doc' \in [Docs -> Doc] /\ \A c \in Docs : c # d => doc'[c] = doc[c]
        /\ doc'[d].revision = n
    BY <1>1, <2>1, <2>2 DEF Doc
  <2> QED
    BY <1>1, <1>6, <2>3, <2>4, WrittenInv DEF n
<1>4. ASSUME NEW d \in Docs, Archive(d) PROVE Inv'
  <2> DEFINE n == doc[d].revision + 1
             a == ~doc[d].archived
  <2>1. doc[d] \in Doc /\ n \in Nat /\ a \in BOOLEAN
    BY <1>1 DEF Doc
  <2>2. doc' = [doc EXCEPT ![d].archived = a, ![d].revision = n]
    BY <1>1, <1>4 DEF Archive
  <2>3. UNCHANGED <<mode, ws, head, row, points, job, extract, work, reader>>
    BY <1>4 DEF Archive, jobs
  <2> HIDE DEF n, a
  <2>4. /\ doc' \in [Docs -> Doc] /\ \A c \in Docs : c # d => doc'[c] = doc[c]
        /\ doc'[d].revision = n
    BY <1>1, <2>1, <2>2 DEF Doc
  <2> QED
    BY <1>1, <1>6, <2>3, <2>4, WrittenInv DEF n
<1>5. ASSUME MutateWorkspace PROVE Inv'
  <2> DEFINE n == ws.revision + 1
  <2>1. ws.revision \in Nat /\ n \in Nat /\ n > ws.revision
    BY <1>1
  <2>2. PICK a \in BOOLEAN : ws' = [archived |-> a, revision |-> n]
    BY <1>5 DEF MutateWorkspace
  <2>3. UNCHANGED <<mode, doc, head, row, points, job, extract, work, reader>>
    BY <1>5 DEF MutateWorkspace, jobs
  <2> HIDE DEF n
  <2>4. ws' \in [revision : Nat, archived : BOOLEAN] /\ ws'.revision = n
    BY <2>1, <2>2
  <2>5. RevisionsGrow
    <3>1. \A d \in Docs : doc[d].revision \in Nat
      BY <1>1 DEF Doc
    <3> QED
      BY <2>1, <2>3, <2>4, <3>1 DEF RevisionsGrow
  <2> QED
    BY <1>1, <1>6, <2>3, <2>4, <2>5, ChangedInv
<1> QED
  BY <1>2, <1>3, <1>4, <1>5 DEF Change

----------------------------------------------------------------------------
\* The jobs of a reviewed corpus.

\* A generation is requested: one that no row has had.
LEMMA RequestInv ==
    ASSUME Inv, mode = "reviewed", NEW d \in Docs, NEW c \in Configs, doc[d].version \in Versions,
           Request(d, Manifest, c), extract' \subseteq Extraction,
           UNCHANGED <<mode, doc, ws, points, work, reader>>
    PROVE  Inv'
<1>0. PICK r : r = head[d].revision + 1
  OBVIOUS
<1> DEFINE id == <<d, r>>
           n == NewRow(d, Manifest, c)
           open == [status |-> "open", owner |-> None]
<1>1. /\ doc[d] \in Doc /\ doc[d].revision \in Nat /\ ws.revision \in Nat
      /\ head \in [Docs -> Head] /\ head[d] \in Head
      /\ head[d].revision \in Nat /\ head[d].active \in 0..MaxRevision
      /\ DOMAIN row \subseteq Ids /\ DOMAIN job \subseteq DOMAIN row /\ points \subseteq DOMAIN row
  BY BoundsAssumption DEF Inv, TypeOK, Doc, Head
<1>2. /\ r \in 1..MaxRevision /\ r > head[d].revision /\ id \in Ids /\ r # 0
      /\ id[1] = d /\ id[2] = r /\ 0 \in 0..MaxRevision /\ r \in 0..MaxRevision
  BY <1>0, <1>1, BoundsAssumption DEF Request, Ids
<1>3. id \notin DOMAIN row
  BY <1>1, <1>2, Generation DEF RowOK
<1>4. /\ n \in Row /\ n.version = doc[d].version /\ n.source = doc[d].revision
      /\ n.workspace = ws.revision /\ n.profile = Manifest /\ n.status = "requested"
  BY <1>1, ManifestAssumption DEF NewRow, Row, Profiles, Versions
<1>5. /\ row' = [g \in {id} \cup DOMAIN row |-> IF g = id THEN n ELSE row[g]]
      /\ job' = [g \in {id} \cup DOMAIN job |-> IF g = id THEN open ELSE job[g]]
  <2>1. \A g \in {id} : g[1] = d
    OBVIOUS
  <2> HIDE DEF id, open
  <2>2. row' = [g \in {id} \cup DOMAIN row |-> IF g \in {id} THEN NewRow(g[1], Manifest, c) ELSE row[g]]
    BY <1>0 DEF Request, Requested, id
  <2>3. job' = [g \in {id} \cup DOMAIN job |-> IF g = id THEN open ELSE job[g]]
    BY <1>0 DEF Request, id, open
  <2> QED
    BY <2>1, <2>2, <2>3
<1>6. PICK a \in {head[d].active, 0} :
          head' = [head EXCEPT ![d] = [revision |-> r, desired |-> r, active |-> a]]
  BY <1>0, <1>1 DEF Request
<1>7. /\ open \in [status : {"open", "succeeded", "superseded", "failed"},
                    owner : Workers \cup {None}]
      /\ open.status = "open"
  OBVIOUS
<1> HIDE DEF id, n, open
<1>8. /\ DOMAIN row' = {id} \cup DOMAIN row /\ row'[id] = n
      /\ \A g \in DOMAIN row : row'[g] = row[g]
  BY <1>3, <1>5
<1>9. /\ DOMAIN job' = {id} \cup DOMAIN job /\ job'[id] = open
      /\ \A g \in DOMAIN job : job'[g] = job[g]
  BY <1>1, <1>3, <1>5
<1>10. /\ head' \in [Docs -> Head] /\ \A e \in Docs : e # d => head'[e] = head[e]
       /\ head'[d].revision = r /\ head'[d].desired = r /\ head'[d].active = a
  BY <1>1, <1>2, <1>6 DEF Head
<1>11. TypeOK'
  <2>1. DOMAIN row' \subseteq Ids /\ \A g \in DOMAIN row' : row'[g] \in Row
    BY <1>1, <1>2, <1>4, <1>8 DEF Inv, TypeOK
  <2>2. /\ DOMAIN job' \subseteq DOMAIN row'
        /\ \A g \in DOMAIN job' : job'[g] \in [status : {"open", "succeeded", "superseded", "failed"},
                                              owner : Workers \cup {None}]
    BY <1>1, <1>7, <1>8, <1>9 DEF Inv, TypeOK
  <2>3. points' \subseteq DOMAIN row'
    BY <1>1, <1>8
  <2> QED
    BY <1>10, <2>1, <2>2, <2>3 DEF Inv, TypeOK
<1>12. Carries
  <2>1. RowsKept
    BY <1>8 DEF RowsKept
  <2>2. JobsKept
    BY <1>9 DEF JobsKept
  <2>3. RevisionsGrow
    BY DEF RevisionsGrow, Inv, TypeOK, Doc
  <2>4. HeadsGrow
    <3>1. \A e \in Docs : head[e].revision \in Nat
      BY <1>1, BoundsAssumption DEF Head
    <3> QED
      BY <1>1, <1>2, <1>10, <3>1 DEF HeadsGrow
  <2> QED
    BY <2>1, <2>2, <2>3, <2>4 DEF Carries, PointsKept
<1>13. RowOK(id)'
  BY <1>1, <1>2, <1>4, <1>8, <1>9, <1>10 DEF RowOK
<1>14. HeadOK(d)'
  BY <1>1, <1>2, <1>8, <1>10 DEF HeadOK, Inv, id
<1> QED
  BY <1>8, <1>10, <1>11, <1>12, <1>13, <1>14, StepInv DEF ReviewedOnly

\* The bookkeeping of the extractions.
LEMMA ExtractionInv ==
    ASSUME Inv,
           \/ \E j \in extract : FinishExtraction(j) \/ FailExtraction(j)
           \/ \E d \in Docs, c \in Configs : Reprocess(d, c)
           \/ \E d \in Docs : Reindex(d)
    PROVE  Inv'
<1>1. /\ extract \subseteq Extraction /\ (mode = "dynamic" => extract = {})
      /\ doc \in [Docs -> Doc] /\ ws \in [revision : Nat, archived : BOOLEAN]
      /\ mode \in {"dynamic", "reviewed"}
  BY DEF Inv, TypeOK, ReviewedOnly
<1>2. ASSUME extract' \subseteq Extraction, mode = "dynamic" => extract' = {},
             UNCHANGED <<mode, doc, ws, head, row, points, job, work, reader>>
      PROVE  Inv'
  <2>1. \A d \in Docs : doc[d].revision \in Nat
    BY <1>1 DEF Doc
  <2>2. RevisionsGrow
    BY <1>1, <1>2, <2>1 DEF RevisionsGrow
  <2> QED
    BY <1>1, <1>2, <2>2, ChangedInv
<1>3. ASSUME NEW j \in extract, FinishExtraction(j) PROVE Inv'
  <2>1. /\ extract' \subseteq Extraction /\ (mode = "dynamic" => extract' = {})
        /\ UNCHANGED <<mode, doc, ws, points, work, reader>>
    BY <1>1, <1>3 DEF FinishExtraction
  <2>2. CASE ExtractionStale(j)
    BY <1>2, <1>3, <2>1, <2>2 DEF FinishExtraction
  <2>3. CASE ~ExtractionStale(j)
    <3>1. /\ j.doc \in Docs /\ j.config \in Configs /\ doc[j.doc].version \in Versions
          /\ Request(j.doc, Manifest, j.config) /\ mode = "reviewed"
      BY <1>1, <1>3, <2>3 DEF FinishExtraction, ExtractionStale, Extraction
    <3> QED
      BY <2>1, <3>1, RequestInv
  <2> QED
    BY <2>2, <2>3
<1>4. ASSUME NEW j \in extract, FailExtraction(j) PROVE Inv'
  BY <1>1, <1>2, <1>4 DEF FailExtraction
<1>5. ASSUME NEW d \in Docs, NEW c \in Configs, Reprocess(d, c) PROVE Inv'
  <2> DEFINE v == doc[d].version
             s == doc[d].revision
             j == [doc |-> d, version |-> v, source |-> s,
                   workspace |-> ws.revision, config |-> c, reserved |-> 0]
  <2>1. /\ extract' = extract \cup {j} /\ mode = "reviewed" /\ v # 0
        /\ UNCHANGED <<mode, doc, ws, head, row, points, job, work, reader>>
    BY <1>5 DEF Reprocess
  <2>2. v \in Versions /\ s \in Nat /\ ws.revision \in Nat /\ 0 \in 0..MaxRevision
    BY <1>1, <2>1, BoundsAssumption DEF Doc, Versions
  <2> HIDE DEF v, s
  <2>3. j \in Extraction
    BY <2>2 DEF Extraction
  <2> QED
    BY <1>1, <1>2, <2>1, <2>3
<1>6. ASSUME NEW d \in Docs, Reindex(d) PROVE Inv'
  <2>1. doc[d].version \in Versions
    BY <1>1, <1>6, BoundsAssumption DEF Reindex, Live, Doc, Versions
  <2> QED
    BY <1>1, <1>6, <2>1, ConfigAssumption, RequestInv DEF Reindex
<1> QED
  BY <1>3, <1>4, <1>5, <1>6

LEMMA RollbackInv ==
    ASSUME Inv, NEW d \in Docs, NEW g \in Ids, Rollback(d, g)
    PROVE  Inv'
<1>1. /\ g[1] = d /\ g \in DOMAIN job /\ Current(g) /\ head[d].revision < MaxRevision
      /\ UNCHANGED <<mode, doc, ws, row, points, job, work, reader>>
  BY DEF Rollback
<1>2. /\ mode = "reviewed" /\ g \in DOMAIN row /\ row[g] \in Row /\ doc[d] \in Doc
      /\ head \in [Docs -> Head] /\ head[d] \in Head /\ head[d].revision \in Nat
      /\ \A e \in Docs : head[e].revision \in Nat
  BY <1>1, BoundsAssumption DEF Inv, TypeOK, ReviewedOnly, Head
<1> DEFINE n == head[d].revision + 1
           z == 0
<1>3. n \in 0..MaxRevision /\ n > head[d].revision /\ z \in 0..MaxRevision /\ z = 0
  BY <1>1, <1>2, BoundsAssumption
<1>4. head' = [head EXCEPT ![d].revision = n, ![d].desired = z]
  BY <1>2 DEF Rollback
<1> HIDE DEF n, z
<1>5. /\ head' \in [Docs -> Head] /\ \A e \in Docs : e # d => head'[e] = head[e]
      /\ head'[d].revision = n /\ head'[d].desired = 0 /\ head'[d].active = head[d].active
  BY <1>2, <1>3, <1>4 DEF Head
<1>6. extract' \subseteq Extraction
  <2>1. row[g].config \in Configs /\ doc'[d] \in Doc /\ doc'[d].version \in Versions
    BY <1>1, <1>2 DEF Current, Row
  <2>2. NewExtraction(d, row[g].config, n) \in Extraction
    BY <1>3, <2>1, NewExtractionType
  <2>3. extract' = extract \cup {NewExtraction(d, row[g].config, n)}
    BY <1>5 DEF Rollback
  <2> QED
    BY <2>2, <2>3 DEF Inv, TypeOK
<1>7. TypeOK'
  BY <1>1, <1>5, <1>6 DEF Inv, TypeOK
<1>8. Carries
  <2>1. RevisionsGrow
    BY <1>1 DEF RevisionsGrow, Inv, TypeOK, Doc
  <2>2. HeadsGrow
    BY <1>2, <1>3, <1>5 DEF HeadsGrow
  <2> QED
    BY <1>1, <2>1, <2>2 DEF Carries, RowsKept, JobsKept, PointsKept
<1>9. HeadOK(d)'
  BY <1>1, <1>5 DEF HeadOK, Inv
<1> QED
  BY <1>1, <1>2, <1>5, <1>7, <1>8, <1>9, StepInv DEF ReviewedOnly

LEMMA CleanupInv ==
    ASSUME Inv, NEW g \in Ids, Cleanup(g)
    PROVE  Inv'
<1>1. /\ mode = "reviewed" /\ g[2] \notin {head[g[1]].active, head[g[1]].desired}
      /\ points' = points \ {g}
      /\ UNCHANGED <<mode, doc, ws, head, row, extract, job, work, reader>>
  BY DEF Cleanup, jobs
<1>2. TypeOK' /\ ReviewedOnly'
  BY <1>1 DEF Inv, TypeOK, ReviewedOnly
<1>3. Carries
  <2>1. RevisionsGrow
    BY <1>1 DEF RevisionsGrow, Inv, TypeOK, Doc
  <2>2. HeadsGrow
    <3>1. \A d \in Docs : head[d].revision \in Nat
      BY <1>2, <1>1, RevisionTypes
    <3> QED
      BY <1>1, <3>1 DEF HeadsGrow
  <2>3. PointsKept
    BY <1>1 DEF PointsKept
  <2> QED
    BY <1>1, <2>1, <2>2, <2>3 DEF Carries, RowsKept, JobsKept
<1> QED
  BY <1>1, <1>2, <1>3, StepInv

\* Revisions, heads and points are left alone.
LEMMA Unmoved ==
    ASSUME Inv, UNCHANGED <<doc, ws, head, points>>
    PROVE  RevisionsGrow /\ HeadsGrow /\ PointsKept
<1>1. \A d \in Docs : head[d].revision \in Nat
  BY BoundsAssumption DEF Inv, TypeOK, Head
<1> QED
  BY <1>1 DEF RevisionsGrow, HeadsGrow, PointsKept, Inv, TypeOK, Doc

\* A worker lets go of what it did.
LEMMA Rested ==
    ASSUME Inv, NEW w \in Workers, work' = [work EXCEPT ![w] = IdleWork]
    PROVE  /\ work' \in [Workers -> Work] /\ WorkOK(w)'
           /\ \A v \in Workers : v # w => work'[v] = work[v]
<1>1. work \in [Workers -> Work]
  BY DEF Inv, TypeOK
<1>2. /\ IdleWork \in Work /\ IdleWork.batch = {} /\ IdleWork.staged = {}
      /\ IdleWork.phase = "idle"
  BY DEF IdleWork, Work
<1>3. work' \in [Workers -> Work] /\ work'[w] = IdleWork
  BY <1>1, <1>2
<1> QED
  BY <1>1, <1>2, <1>3 DEF WorkOK

LEMMA AbandonInv ==
    ASSUME Inv, NEW w \in Workers, Abandon(w)
    PROVE  Inv'
<1>1. /\ work' = [work EXCEPT ![w] = IdleWork]
      /\ UNCHANGED <<mode, doc, ws, head, row, points, extract, job, reader>>
  BY DEF Abandon, jobs
<1>2. /\ work' \in [Workers -> Work] /\ WorkOK(w)'
      /\ \A v \in Workers : v # w => work'[v] = work[v]
  BY <1>1, Rested
<1>3. TypeOK' /\ ReviewedOnly'
  BY <1>1, <1>2 DEF Inv, TypeOK, ReviewedOnly
<1>4. Carries
  BY <1>1, Unmoved DEF Carries, RowsKept, JobsKept
<1> QED
  BY <1>1, <1>2, <1>3, <1>4, StepInv

Jobs == [status : {"open", "succeeded", "superseded", "failed"}, owner : Workers \cup {None}]

LEMMA ClaimInv ==
    ASSUME Inv, NEW w \in Workers, NEW g \in Ids, Claim(w, g)
    PROVE  Inv'
<1>1. /\ g \in DOMAIN job /\ job[g].status = "open"
      /\ UNCHANGED <<mode, doc, ws, head, row, points, extract, reader>>
  BY DEF Claim
<1>2. /\ mode = "reviewed" /\ g \in DOMAIN row /\ job[g] \in Jobs
      /\ DOMAIN job \subseteq DOMAIN row /\ \A h \in DOMAIN job : job[h] \in Jobs
      /\ work \in [Workers -> Work]
  BY <1>1 DEF Inv, TypeOK, ReviewedOnly, Jobs
<1>3. /\ DOMAIN job' = DOMAIN job /\ job'[g] \in Jobs
      /\ \A h \in DOMAIN job : h # g => job'[h] = job[h]
  <2>1. CASE job' = [job EXCEPT ![g].owner = w]
    BY <1>1, <1>2, <2>1 DEF Jobs
  <2>2. CASE job' = [job EXCEPT ![g] = [status |-> "failed", owner |-> w]]
    BY <1>1, <1>2, <2>2 DEF Jobs
  <2> QED
    BY <2>1, <2>2 DEF Claim
<1>4. \A h \in DOMAIN job' : job'[h] \in Jobs
  BY <1>2, <1>3
<1>5. /\ work' \in [Workers -> Work] /\ (work'[w] = work[w] \/ WorkOK(w)')
      /\ \A v \in Workers : v # w => work'[v] = work[v]
  <2>1. CASE UNCHANGED work
    BY <1>2, <2>1
  <2>2. CASE work' = [work EXCEPT ![w] = [IdleWork EXCEPT
                 !.phase = IF Stale(g) THEN "stale" ELSE "staging", !.batch = {g}]]
    <3> DEFINE p == IF Stale(g) THEN "stale" ELSE "staging"
               b == {g}
               x == [IdleWork EXCEPT !.phase = p, !.batch = b]
    <3>1. p \in {"stale", "staging"} /\ (p = "stale" => Stale(g)) /\ b \in SUBSET Ids
      OBVIOUS
    <3>2. work' = [work EXCEPT ![w] = x]
      BY <2>2
    <3> HIDE DEF p, b
    <3>3. x \in Work /\ x.phase = p /\ x.batch = b /\ x.staged = {}
      BY <3>1 DEF IdleWork, Work
    <3> HIDE DEF x
    <3>4. /\ work' \in [Workers -> Work] /\ work'[w] = x
          /\ \A v \in Workers : v # w => work'[v] = work[v]
      BY <1>2, <3>2, <3>3
    <3>5. Stale(g)' = Stale(g)
      BY <1>1 DEF Stale, Current, Available
    <3> QED
      BY <1>1, <1>2, <3>1, <3>3, <3>4, <3>5 DEF WorkOK, b
  <2> QED
    BY <2>1, <2>2 DEF Claim
<1>6. TypeOK' /\ ReviewedOnly'
  BY <1>1, <1>2, <1>3, <1>4, <1>5 DEF Inv, TypeOK, ReviewedOnly, Jobs
<1>7. Carries
  BY <1>1, <1>3, Unmoved DEF Carries, RowsKept, JobsKept
<1> QED
  BY <1>1, <1>5, <1>6, <1>7, StepInv

\* The end of an index job that does not activate.
LEMMA SupersededInv ==
    ASSUME Inv, NEW w \in Workers, NEW g \in work[w].batch,
           \/ job' = job
           \/ Owns(w, g) /\ job' = [job EXCEPT ![g].status = "superseded"],
           work' = [work EXCEPT ![w] = IdleWork],
           UNCHANGED <<mode, doc, ws, head, row, points, extract, reader>>
    PROVE  Inv'
<1>1. /\ work' \in [Workers -> Work] /\ WorkOK(w)'
      /\ \A v \in Workers : v # w => work'[v] = work[v]
  BY Rested
<1>2. \A h \in DOMAIN job : job[h] \in Jobs
  BY DEF Inv, TypeOK, Jobs
<1>3. /\ DOMAIN job' = DOMAIN job /\ \A h \in DOMAIN job : job'[h] \in Jobs
      /\ JobsKept
  <2>1. CASE job' = job
    BY <1>2, <2>1 DEF JobsKept
  <2>2. CASE Owns(w, g) /\ job' = [job EXCEPT ![g].status = "superseded"]
    BY <1>2, <2>2 DEF JobsKept, Owns, Jobs
  <2> QED
    BY <2>1, <2>2
<1>4. TypeOK' /\ ReviewedOnly'
  BY <1>1, <1>3 DEF Inv, TypeOK, ReviewedOnly, Jobs
<1>5. Carries
  BY <1>3, Unmoved DEF Carries, RowsKept
<1> QED
  BY <1>1, <1>4, <1>5, StepInv

LEMMA FinalizeInv ==
    ASSUME Inv, NEW w \in Workers, Finalize(w)
    PROVE  Inv'
<1>1. PICK g \in work[w].batch :
        /\ mode = "reviewed"
        /\ work[w].phase = "staging" /\ g \in work[w].staged
        /\ IF ~Owns(w, g)
           THEN UNCHANGED <<head, row, job>>
           ELSE IF Stale(g)
           THEN job' = [job EXCEPT ![g].status = "superseded"] /\ UNCHANGED <<head, row>>
           ELSE /\ head' = [head EXCEPT ![g[1]].active = g[2]]
                /\ row' = [row EXCEPT ![g].status = "active"]
                /\ job' = [job EXCEPT ![g].status = "succeeded"]
        /\ work' = [work EXCEPT ![w] = IdleWork]
        /\ UNCHANGED <<mode, doc, ws, points, extract, reader, bounds>>
  BY DEF Finalize
<1>2. CASE ~Owns(w, g) \/ Stale(g)
  BY <1>1, <1>2, SupersededInv
<1>3. CASE Owns(w, g) /\ ~Stale(g)
  <2>1. /\ head' = [head EXCEPT ![g[1]].active = g[2]]
        /\ row' = [row EXCEPT ![g].status = "active"]
        /\ job' = [job EXCEPT ![g].status = "succeeded"]
    BY <1>1, <1>3
  <2>2. /\ g \in DOMAIN row /\ WorkOK(w) /\ g \in points /\ head[g[1]].desired = g[2]
    BY <1>1, <1>3 DEF Inv, WorkOK, Stale
  <2>3. /\ g \in Ids /\ g[1] \in Docs /\ g[2] \in 0..MaxRevision /\ g[2] # 0 /\ g = <<g[1], g[2]>>
        /\ g \in DOMAIN job /\ job[g].status # "succeeded"
    <3>1. g[2] \in 1..MaxRevision
      BY <2>2 DEF Inv, TypeOK, Ids
    <3> QED
      BY <1>1, <1>3, <2>2, <3>1, Generation DEF Owns, RowOK
  <2>4. /\ head \in [Docs -> Head] /\ \A h \in DOMAIN row : row[h] \in Row
        /\ \A h \in DOMAIN job : job[h] \in Jobs
        /\ \A d \in Docs : head[d].revision \in Nat
    BY BoundsAssumption DEF Inv, TypeOK, Jobs, Head
  <2>5. /\ head' \in [Docs -> Head] /\ \A d \in Docs : d # g[1] => head'[d] = head[d]
        /\ head'[g[1]].active = g[2] /\ head'[g[1]].desired = head[g[1]].desired
        /\ head'[g[1]].revision = head[g[1]].revision
    BY <2>1, <2>3, <2>4 DEF Head
  <2>6. /\ DOMAIN row' = DOMAIN row /\ \A h \in DOMAIN row : row'[h] \in Row
        /\ \A h \in DOMAIN row : h # g => row'[h] = row[h]
        /\ row'[g].version = row[g].version /\ row'[g].source = row[g].source
        /\ row'[g].workspace = row[g].workspace /\ row'[g].profile = row[g].profile
        /\ row'[g].status = "active"
    BY <2>1, <2>2, <2>4 DEF Row
  <2>7. /\ DOMAIN job' = DOMAIN job /\ \A h \in DOMAIN job : job'[h] \in Jobs
        /\ \A h \in DOMAIN job : h # g => job'[h] = job[h]
        /\ job'[g].status = "succeeded"
    BY <2>1, <2>3, <2>4 DEF Jobs
  <2>8. /\ work' \in [Workers -> Work] /\ WorkOK(w)'
        /\ \A v \in Workers : v # w => work'[v] = work[v]
    BY <1>1, Rested
  <2>9. TypeOK' /\ ReviewedOnly'
    BY <1>1, <2>5, <2>6, <2>7, <2>8 DEF Inv, TypeOK, ReviewedOnly, Jobs
  <2>10. Carries
    <3>1. RowsKept /\ JobsKept
      BY <2>6, <2>7 DEF RowsKept, JobsKept
    <3>2. RevisionsGrow
      BY <1>1 DEF RevisionsGrow, Inv, TypeOK, Doc
    <3>3. HeadsGrow
      BY <2>3, <2>4, <2>5 DEF HeadsGrow
    <3> QED
      BY <1>1, <3>1, <3>2, <3>3 DEF Carries, PointsKept
  <2>11. HeadOK(g[1])'
    <3>1. HeadOK(g[1])
      BY <2>3 DEF Inv
    <3> QED
      BY <1>1, <2>2, <2>3, <2>5, <2>6, <3>1 DEF HeadOK
  <2> QED
    BY <1>1, <2>5, <2>6, <2>8, <2>9, <2>10, <2>11, StepInv
<1> QED
  BY <1>2, <1>3

LEMMA SupersedeInv ==
    ASSUME Inv, NEW w \in Workers, Supersede(w)
    PROVE  Inv'
BY SupersededInv DEF Supersede, bounds

----------------------------------------------------------------------------
\* The maintenance of a dynamic corpus.

\* Active generations are rows with points.
LEMMA HeadsHavePoints ==
    ASSUME Inv
    PROVE  /\ Heads \subseteq points /\ Heads \subseteq DOMAIN row /\ Heads \subseteq Ids
           /\ \A g \in Heads : /\ g[1] \in Live /\ head[g[1]].active = g[2]
                              /\ row[g] \in Row
<1>1. \A g \in Heads : \E d \in Docs : g = <<d, head[d].active>> /\ head[d].active # 0 /\ d \in Live
  BY DEF Heads, Live
<1>2. points \subseteq DOMAIN row /\ DOMAIN row \subseteq Ids /\ \A g \in DOMAIN row : row[g] \in Row
  BY DEF Inv, TypeOK
<1>3. \A g \in Heads : g \in points
  BY <1>1 DEF Inv, HeadOK
<1> QED
  BY <1>1, <1>2, <1>3

LEMMA StageInv ==
    ASSUME Inv, NEW w \in Workers, NEW g \in Ids, Stage(w, g)
    PROVE  Inv'
<1>1. /\ work[w].phase = "staging" /\ g \in work[w].batch
      /\ points' = points \cup {g}
      /\ UNCHANGED <<mode, doc, ws, head, row, extract, job, reader>>
  BY DEF Stage, jobs
<1>2. /\ work \in [Workers -> Work] /\ work[w] \in Work /\ WorkOK(w)
      /\ DOMAIN row \subseteq Ids
  BY DEF Inv, TypeOK
<1> DEFINE s == work[w].staged \cup {g}
<1>3. s \in SUBSET Ids
  BY <1>1, <1>2 DEF WorkOK
<1>4. work' = [work EXCEPT ![w].staged = s]
  BY <1>2 DEF Stage
<1> HIDE DEF s
<1>5. /\ work' \in [Workers -> Work] /\ \A v \in Workers : v # w => work'[v] = work[v]
      /\ work'[w].phase = "staging" /\ work'[w].batch = work[w].batch /\ work'[w].staged = s
  BY <1>1, <1>2, <1>3, <1>4 DEF Work
<1>6. WorkOK(w)'
  BY <1>1, <1>2, <1>5 DEF WorkOK, s
<1>7. TypeOK' /\ ReviewedOnly'
  BY <1>1, <1>2, <1>5 DEF Inv, TypeOK, ReviewedOnly, WorkOK
<1>8. Carries
  <2>1. \A d \in Docs : head[d].revision \in Nat
    BY BoundsAssumption DEF Inv, TypeOK, Head
  <2> QED
    BY <1>1, <2>1 DEF Carries, RowsKept, JobsKept, RevisionsGrow, HeadsGrow, PointsKept, Inv, TypeOK, Doc
<1> QED
  BY <1>1, <1>5, <1>6, <1>7, <1>8, StepInv

LEMMA ReadMembershipInv ==
    ASSUME Inv, NEW w \in Workers, ReadMembership(w)
    PROVE  Inv'
<1> DEFINE active == {g[1] : g \in Heads}
<1>1. /\ mode = "dynamic" /\ work[w].phase = "staging" /\ work[w].staged = work[w].batch
      /\ UNCHANGED <<mode, doc, ws, head, row, points, extract, job, reader>>
  BY DEF ReadMembership, jobs
<1>2. /\ work \in [Workers -> Work] /\ work[w] \in Work /\ WorkOK(w)
      /\ head \in [Docs -> Head]
  BY DEF Inv, TypeOK
<1>3. PICK kept \in {<<d, head[d]>> : d \in active} \cup (IF active = {} THEN {None} ELSE {}) :
          work' = [work EXCEPT ![w].phase = "committing", ![w].membership =
               [active |-> active, all |-> Live, profiles |-> ProfilesOf(Heads), kept |-> kept]]
  BY DEF ReadMembership
<1> DEFINE m == [active |-> active, all |-> Live, profiles |-> ProfilesOf(Heads), kept |-> kept]
           p == "committing"
<1>4. active \subseteq Docs /\ Live \subseteq Docs /\ ProfilesOf(Heads) \subseteq Profiles
  BY HeadsHavePoints DEF Live, ProfilesOf, Row
<1>5. kept \in Docs \X Head \cup {None}
  BY <1>2, <1>4
<1>6. m \in [active : SUBSET Docs, all : SUBSET Docs, profiles : SUBSET Profiles,
             kept : Docs \X Head \cup {None}] \cup {None}
  BY <1>4, <1>5
<1>7. work' = [work EXCEPT ![w].phase = p, ![w].membership = m] /\ p = "committing"
  BY <1>3
<1> HIDE DEF m, p
<1>8. /\ work' \in [Workers -> Work] /\ \A v \in Workers : v # w => work'[v] = work[v]
      /\ work'[w].phase = p /\ work'[w].batch = work[w].batch
      /\ work'[w].staged = work[w].staged
  BY <1>2, <1>6, <1>7 DEF Work
<1>9. WorkOK(w)'
  BY <1>1, <1>2, <1>7, <1>8 DEF WorkOK
<1>10. TypeOK' /\ ReviewedOnly'
  BY <1>1, <1>8 DEF Inv, TypeOK, ReviewedOnly
<1>11. Carries
  BY <1>1, Unmoved DEF Carries, RowsKept, JobsKept
<1> QED
  BY <1>1, <1>8, <1>9, <1>10, <1>11, StepInv

LEMMA CommitInv ==
    ASSUME Inv, NEW w \in Workers, Commit(w)
    PROVE  Inv'
<1> DEFINE batch == work[w].batch
<1>1. /\ work[w].phase = "committing" /\ work' = [work EXCEPT ![w] = IdleWork]
      /\ UNCHANGED <<mode, doc, ws, points, extract, job, reader>>
  BY DEF Commit, jobs
<1>2. /\ mode = "dynamic" /\ batch \subseteq points /\ batch \subseteq DOMAIN row
      /\ batch \subseteq Ids
  BY <1>1 DEF Inv, WorkOK, TypeOK
<1>3. /\ head \in [Docs -> Head] /\ \A g \in DOMAIN row : row[g] \in Row
      /\ \A d \in Docs : head[d].revision \in Nat
  BY BoundsAssumption DEF Inv, TypeOK, Head
<1>4. /\ work' \in [Workers -> Work] /\ WorkOK(w)'
      /\ \A v \in Workers : v # w => work'[v] = work[v]
  BY <1>1, Rested
<1>5. /\ DOMAIN row' = DOMAIN row
      /\ \A g \in DOMAIN row :
             /\ row'[g] \in Row
             /\ row'[g].version = row[g].version /\ row'[g].profile = row[g].profile
             /\ row'[g].source = row[g].source /\ row'[g].workspace = row[g].workspace
             /\ row[g].status = "active" => row'[g].status = "active"
  <2>1. CASE UNCHANGED row
    BY <1>3, <2>1
  <2>2. CASE row' = [g \in DOMAIN row |->
                         IF g \in batch THEN [row[g] EXCEPT !.status = "active"] ELSE row[g]]
    <3> SUFFICES ASSUME NEW g \in DOMAIN row
                 PROVE  /\ row'[g] \in Row
                        /\ row'[g].version = row[g].version /\ row'[g].profile = row[g].profile
                        /\ row'[g].source = row[g].source /\ row'[g].workspace = row[g].workspace
                        /\ row[g].status = "active" => row'[g].status = "active"
      BY <2>2
    <3>1. CASE g \in batch
      BY <1>3, <2>2, <3>1 DEF Row
    <3>2. CASE g \notin batch
      BY <1>3, <2>2, <3>2
    <3> QED
      BY <3>1, <3>2
  <2> QED
    BY <2>1, <2>2 DEF Commit
<1>6. ASSUME NEW d \in Docs
      PROVE  /\ head'[d] \in Head
             /\ head'[d].revision = head[d].revision /\ head'[d].desired = head[d].desired
             /\ \/ head'[d].active = head[d].active
                \/ <<d, head'[d].active>> \in batch
  <2>1. CASE head'[d] = head[d]
    BY <1>3, <2>1
  <2>2. CASE head'[d] # head[d]
    <3>1. d \in {g[1] : g \in batch} /\ head'[d] = Activated(w, d)
      BY <1>3, <2>2 DEF Commit
    <3>2. PICK g : g = CHOOSE b \in batch : b[1] = d
      OBVIOUS
    <3>3. g \in batch /\ g[1] = d
      BY <3>1, <3>2
    <3>4. g[2] \in 0..MaxRevision /\ g = <<d, g[2]>>
      BY <1>2, <3>3, BoundsAssumption DEF Ids
    <3>5. head'[d] = [head[d] EXCEPT !.active = g[2]]
      BY <2>2, <3>1, <3>2 DEF Activated
    <3> QED
      BY <1>3, <3>3, <3>4, <3>5 DEF Head
  <2> QED
    BY <2>1, <2>2
<1>7. head' \in [Docs -> Head]
  <2>1. CASE UNCHANGED head
    BY <1>3, <2>1
  <2>2. CASE head' = [d \in Docs |-> IF d \in {g[1] : g \in batch} THEN Activated(w, d)
                                     ELSE head[d]]
    BY <1>6, <2>2
  <2> QED
    BY <2>1, <2>2 DEF Commit
<1>8. TypeOK' /\ ReviewedOnly'
  BY <1>1, <1>4, <1>5, <1>7 DEF Inv, TypeOK, ReviewedOnly
<1>9. Carries
  <2>1. RowsKept
    BY <1>2, <1>5 DEF RowsKept
  <2>2. HeadsGrow
    <3>1. \A d \in Docs : /\ head'[d].revision = head[d].revision /\ head[d].revision \in Nat
                         /\ head'[d].desired = head[d].desired
      BY <1>3, <1>6
    <3> QED
      BY <1>2, <3>1 DEF HeadsGrow
  <2>3. RevisionsGrow
    BY <1>1 DEF RevisionsGrow, Inv, TypeOK, Doc
  <2> QED
    BY <1>1, <2>1, <2>2, <2>3 DEF Carries, JobsKept, PointsKept
<1>10. ASSUME NEW d \in Docs PROVE HeadOK(d)'
  <2>1. HeadOK(d)
    BY DEF Inv
  <2> QED
    BY <1>1, <1>2, <1>5, <1>6, <2>1 DEF HeadOK
<1> QED
  BY <1>1, <1>4, <1>5, <1>8, <1>9, <1>10, StepInv

LEMMA PrepareInv ==
    ASSUME Inv, NEW w \in Workers, Prepare(w)
    PROVE  Inv'
<1> DEFINE fresh == {d \in Live : ~Kept(d)}
           next(d) == head[d].revision + 1
           ids == {<<d, next(d)>> : d \in fresh}
<1>1. /\ mode = "dynamic" /\ \A d \in fresh : next(d) <= MaxRevision
      /\ row' = Requested(ids, Corpus, DenseConfig)
      /\ head' = [d \in Docs |-> IF d \in fresh
                                 THEN [head[d] EXCEPT !.revision = next(d), !.desired = next(d)]
                                 ELSE head[d]]
      /\ UNCHANGED <<mode, doc, ws, points, extract, job, reader>>
  BY DEF Prepare, jobs
<1>2. /\ head \in [Docs -> Head] /\ \A d \in Docs : head[d] \in Head /\ head[d].revision \in Nat
      /\ work \in [Workers -> Work] /\ fresh \subseteq Live /\ Live \subseteq Docs
      /\ DOMAIN row \subseteq Ids /\ \A g \in DOMAIN row : row[g] \in Row
      /\ ws.revision \in Nat /\ \A d \in Docs : doc[d] \in Doc
  BY BoundsAssumption DEF Inv, TypeOK, Head, Live
<1>3. ASSUME NEW d \in fresh
      PROVE  /\ d \in Docs /\ next(d) \in 1..MaxRevision /\ next(d) \in 0..MaxRevision
             /\ next(d) > head[d].revision /\ next(d) # 0
             /\ <<d, next(d)>> \in Ids /\ <<d, next(d)>> \notin DOMAIN row
  <2>1. d \in Docs /\ next(d) <= MaxRevision
    BY <1>1, <1>2
  <2>3. PICK n \in Nat : n = head[d].revision
    BY <1>2, <2>1
  <2>4. next(d) = n + 1
    BY <2>3
  <2>5. /\ d \in Docs /\ next(d) \in 1..MaxRevision /\ next(d) \in 0..MaxRevision
        /\ next(d) > head[d].revision /\ next(d) # 0
    <3> HIDE DEF next, fresh
    <3> QED
      BY <2>1, <2>3, <2>4, BoundsAssumption
  <2>2. <<d, next(d)>> \notin DOMAIN row
    <3> SUFFICES ASSUME <<d, next(d)>> \in DOMAIN row PROVE FALSE
      OBVIOUS
    <3>1. next(d) <= head[d].revision
      BY DEF Inv, RowOK
    <3> HIDE DEF next, fresh
    <3> QED
      BY <2>3, <2>4, <2>5, <3>1
  <2> QED
    BY <2>5, <2>2 DEF Ids
<1>4. ASSUME NEW d \in Live
      PROVE  /\ doc[d].version \in Versions /\ NewRow(d, Corpus, DenseConfig) \in Row
             /\ <<d, doc[d].version>> \in Corpus
  <2>1. \A e \in Live : doc[e].version \in Versions /\ doc[e].revision \in Nat
    BY <1>2, BoundsAssumption DEF Live, Doc, Versions
  <2>2. Corpus \in Profiles
    BY <1>2, <2>1 DEF Corpus, Profiles
  <2> QED
    BY <1>2, <2>1, <2>2, ConfigAssumption DEF NewRow, Row, Corpus
<1> HIDE DEF next
<1>5. /\ DOMAIN row' = ids \cup DOMAIN row
      /\ \A g \in DOMAIN row : row'[g] = row[g]
      /\ \A d \in fresh : row'[<<d, next(d)>>] = NewRow(d, Corpus, DenseConfig)
  BY <1>1, <1>3 DEF Requested
<1>6. /\ head' \in [Docs -> Head]
      /\ \A d \in Docs : d \notin fresh => head'[d] = head[d]
      /\ \A d \in fresh : /\ head'[d].revision = next(d) /\ head'[d].desired = next(d)
                         /\ head'[d].active = head[d].active
  <2>1. ASSUME NEW d \in fresh
        PROVE  /\ head'[d] \in Head /\ head'[d].active = head[d].active
               /\ head'[d].revision = next(d) /\ head'[d].desired = next(d)
    <3>1. head'[d] = [head[d] EXCEPT !.revision = next(d), !.desired = next(d)]
      BY <1>1, <1>3
    <3>2. head[d] \in Head /\ next(d) \in 0..MaxRevision
      BY <1>2, <1>3
    <3> HIDE DEF fresh
    <3> QED
      BY <3>1, <3>2 DEF Head
  <2>2. \A d \in Docs : d \notin fresh => head'[d] = head[d]
    BY <1>1
  <2>3. \A d \in Docs : head'[d] \in Head
    BY <1>2, <2>1, <2>2
  <2>4. head' \in [Docs -> Head]
    BY <1>1, <2>3
  <2> QED
    BY <2>1, <2>2, <2>4
<1> DEFINE b == {<<d, head'[d].desired>> : d \in Live}
<1>7. b \subseteq DOMAIN row' /\ DOMAIN row' \subseteq Ids
  <2>1. ids \subseteq Ids
    BY <1>3
  <2>2. ASSUME NEW d \in Live PROVE <<d, head'[d].desired>> \in DOMAIN row'
    <3>1. CASE d \in fresh
      BY <1>5, <1>6, <3>1
    <3>2. CASE d \notin fresh
      BY <1>2, <1>5, <1>6, <3>2 DEF Kept, Inv, HeadOK
    <3> QED
      BY <3>1, <3>2
  <2> QED
    BY <1>2, <1>5, <2>1, <2>2
<1>8. /\ work' \in [Workers -> Work] /\ \A v \in Workers : v # w => work'[v] = work[v]
      /\ work'[w].phase = "staging" /\ work'[w].batch = b /\ work'[w].staged = {}
  <2> DEFINE p == "staging"
             x == [IdleWork EXCEPT !.phase = p, !.batch = b]
  <2>1. work' = [work EXCEPT ![w] = x]
    BY DEF Prepare
  <2>2. p \in {"idle", "staging", "stale", "committing"} /\ b \in SUBSET Ids /\ p = "staging"
    BY <1>7
  <2> HIDE DEF b, p
  <2>3. x \in Work /\ x.phase = p /\ x.batch = b /\ x.staged = {}
    BY <2>2 DEF IdleWork, Work
  <2> HIDE DEF x
  <2> QED
    BY <1>2, <2>1, <2>2, <2>3
<1>9. WorkOK(w)'
  BY <1>7, <1>8 DEF WorkOK
<1> HIDE DEF fresh, b
<1>10. TypeOK' /\ ReviewedOnly'
  <2>1. \A g \in DOMAIN row' : row'[g] \in Row
    BY <1>2, <1>4, <1>5 DEF fresh
  <2>2. points' \subseteq DOMAIN row' /\ DOMAIN job' \subseteq DOMAIN row'
    BY <1>1, <1>5 DEF Inv, TypeOK
  <2> QED
    BY <1>1, <1>6, <1>7, <1>8, <2>1, <2>2 DEF Inv, TypeOK, ReviewedOnly
<1>11. Carries
  <2>1. RowsKept
    BY <1>5 DEF RowsKept
  <2>2. HeadsGrow
    <3>1. ASSUME NEW d \in Docs
          PROVE  /\ head[d].revision <= head'[d].revision
                 /\ head'[d].desired = head[d].desired \/ head'[d].desired > head[d].revision
      <4>1. CASE d \in fresh
        <5>1. PICK n : n = next(d)
          OBVIOUS
        <5>2. /\ n > head[d].revision /\ n \in 0..MaxRevision /\ head[d].revision \in Nat
              /\ head'[d].revision = n /\ head'[d].desired = n
          BY <1>2, <1>3, <1>6, <4>1, <5>1
        <5> QED
          BY <5>2, BoundsAssumption
      <4>2. CASE d \notin fresh
        BY <1>2, <1>6, <4>2
      <4> QED
        BY <4>1, <4>2
    <3> QED
      BY <1>1, <3>1 DEF HeadsGrow
  <2>3. RevisionsGrow
    <3>1. UNCHANGED <<doc, ws>> /\ ws.revision \in Nat /\ \A d \in Docs : doc[d].revision \in Nat
      BY <1>1, <1>2 DEF Doc
    <3> QED
      BY <3>1 DEF RevisionsGrow
  <2> QED
    BY <1>1, <2>1, <2>2, <2>3 DEF Carries, JobsKept, PointsKept
<1>12. ASSUME NEW g \in DOMAIN row', g \notin DOMAIN row PROVE RowOK(g)'
  <2>1. PICK d \in fresh : g = <<d, next(d)>>
    BY <1>5, <1>12
  <2>2. PICK r : r = next(d)
    OBVIOUS
  <2>3. /\ g = <<d, r>> /\ d \in Live /\ d \in Docs /\ r \in Nat
        /\ row'[g] = NewRow(d, Corpus, DenseConfig) /\ head'[d].revision = r
    BY <1>2, <1>3, <1>5, <1>6, <2>1, <2>2, BoundsAssumption
  <2>4. /\ row'[g].version = doc[d].version /\ row'[g].source = doc[d].revision
        /\ row'[g].workspace = ws.revision /\ row'[g].profile = Corpus
    BY <2>3 DEF NewRow
  <2>5. doc[d].revision \in Nat /\ ws.revision \in Nat /\ <<d, doc[d].version>> \in Corpus
    BY <1>2, <1>4, <2>3 DEF Doc
  <2>6. g[1] = d /\ g[2] = r /\ mode' = "dynamic" /\ UNCHANGED <<doc, ws>>
    BY <1>1, <2>3
  <2> QED
    BY <2>3, <2>4, <2>5, <2>6 DEF RowOK
<1>13. ASSUME NEW d \in Docs, head'[d] # head[d] PROVE HeadOK(d)'
  <2>1. d \in fresh
    BY <1>6, <1>13
  <2>2. /\ head'[d].desired = head'[d].revision /\ head'[d].active = head[d].active
        /\ <<d, head'[d].desired>> \in DOMAIN row'
    BY <1>5, <1>6, <2>1
  <2>3. HeadOK(d) /\ points' = points
    BY <1>1 DEF Inv
  <2> QED
    BY <2>2, <2>3 DEF HeadOK
<1> QED
  BY <1>1, <1>8, <1>9, <1>10, <1>11, <1>12, <1>13, StepInv

----------------------------------------------------------------------------
\* Readers.

\* Only what a reader has seen changes.
LEMMA SeenInv ==
    ASSUME Inv, NEW r \in Readers, reader' \in [Readers -> Reading],
           \A q \in Readers : q # r => reader'[q] = reader[q],
           ReaderOK(r)',
           UNCHANGED <<mode, doc, ws, head, row, points, extract, job, work>>
    PROVE  Inv'
<1>1. TypeOK' /\ ReviewedOnly'
  BY DEF Inv, TypeOK, ReviewedOnly
<1>2. Carries
  BY Unmoved DEF Carries, RowsKept, JobsKept
<1> QED
  BY <1>1, <1>2, StepInv

LEMMA IdleReaderOK ==
    ASSUME Inv, NEW r \in Readers, reader' = [reader EXCEPT ![r] = IdleReader],
           UNCHANGED <<mode, doc, ws, head, row, points, extract, job, work>>
    PROVE  Inv'
<1>1. /\ IdleReader \in Reading /\ IdleReader.snapshot = {} /\ IdleReader.hits = {}
      /\ IdleReader.phase = "idle"
  BY DEF IdleReader, Reading
<1>2. reader \in [Readers -> Reading]
  BY DEF Inv, TypeOK
<1>3. /\ reader' \in [Readers -> Reading] /\ reader'[r] = IdleReader
      /\ \A q \in Readers : q # r => reader'[q] = reader[q]
  BY <1>1, <1>2
<1>4. ReaderOK(r)'
  <2>1. {} \in Profiles
    BY DEF Profiles
  <2> QED
    BY <1>1, <1>3, <2>1 DEF ReaderOK, OneCorpus
<1> QED
  BY <1>3, <1>4, SeenInv

\* What is served was indexed under one profile, and belongs to it.
LEMMA ServedOnOneCorpus ==
    ASSUME Inv, Servable, Holds(Heads)
    PROVE  OneCorpus(Heads)
<1> DEFINE D == {e \in Live : head[e].active # 0}
           P == ProfilesOf(Heads)
           f == [d \in D |-> row[<<d, head[d].active>>].profile]
<1>1. /\ Heads \subseteq DOMAIN row /\ \A g \in Heads : row[g] \in Row /\ RowOK(g)
      /\ mode \in {"dynamic", "reviewed"}
  BY HeadsHavePoints DEF Inv, TypeOK
<1>2. Heads = {<<d, head[d].active>> : d \in D}
  BY DEF Heads
<1>3. PICK p : P = {p}
  <2>1. IsFiniteSet(D)
    BY DocsAssumption, FS_Subset DEF Live
  <2>2. f \in Surjection(D, P)
    BY <1>2 DEF Surjection, ProfilesOf
  <2>3. IsFiniteSet(P)
    BY <2>1, <2>2, FS_Surjection
  <2> QED
    BY <2>3, FS_Singleton DEF Servable
<1>4. /\ \A g \in Heads : row[g].profile = p
      /\ \E g \in Heads : row[g].profile = p
  BY <1>3 DEF ProfilesOf
<1>5. p \in Profiles
  BY <1>1, <1>4 DEF Row
<1>6. \A g \in Heads : <<g[1], row[g].version>> \in p
  <2>1. CASE mode = "dynamic"
    BY <1>1, <1>4, <2>1 DEF RowOK
  <2>2. CASE mode = "reviewed"
    <3>1. {<<g[1], row[g].version>> : g \in Heads} = Manifest
      BY <2>2 DEF Holds
    <3>2. p = Manifest
      BY <1>1, <1>4, <2>2 DEF RowOK
    <3> QED
      BY <3>1, <3>2
  <2> QED
    BY <1>1, <2>1, <2>2
<1> QED
  BY <1>4, <1>5, <1>6 DEF OneCorpus

LEMMA ReadInv ==
    ASSUME Inv, NEW r \in Readers, Read(r)
    PROVE  Inv'
<1>1. /\ Servable /\ Holds(Heads)
      /\ UNCHANGED <<mode, doc, ws, head, row, points, extract, job, work>>
  BY DEF Read, jobs
<1>2. PICK S : S = Heads
  OBVIOUS
<1>3. /\ S \subseteq points /\ S \subseteq DOMAIN row /\ S \in SUBSET Ids
      /\ \A g \in S : row[g].status = "active"
  BY <1>1, <1>2, HeadsHavePoints DEF Servable
<1>4. OneCorpus(S)
  BY <1>1, <1>2, ServedOnOneCorpus
<1>5. PICK p : p = "checked"
  OBVIOUS
<1>6. reader' = [reader EXCEPT ![r] = [IdleReader EXCEPT !.phase = p, !.snapshot = S]]
  BY <1>2, <1>5 DEF Read
<1>7. PICK x : x = [IdleReader EXCEPT !.phase = p, !.snapshot = S]
  OBVIOUS
<1>8. x \in Reading /\ x.phase = "checked" /\ x.snapshot = S /\ x.hits = {}
  BY <1>3, <1>5, <1>7 DEF IdleReader, Reading
<1>9. /\ reader' \in [Readers -> Reading] /\ reader'[r] = x
      /\ \A q \in Readers : q # r => reader'[q] = reader[q]
  BY <1>6, <1>7, <1>8 DEF Inv, TypeOK
<1>10. ReaderOK(r)'
  BY <1>1, <1>3, <1>4, <1>8, <1>9 DEF ReaderOK, OneCorpus
<1> QED
  BY <1>1, <1>9, <1>10, SeenInv

LEMMA QueryInv ==
    ASSUME Inv, NEW r \in Readers, Query(r)
    PROVE  Inv'
<1>1. /\ reader[r].phase = "checked"
      /\ UNCHANGED <<mode, doc, ws, head, row, points, extract, job, work>>
  BY DEF Query, jobs
<1>2. reader \in [Readers -> Reading] /\ reader[r] \in Reading /\ ReaderOK(r)
  BY DEF Inv, TypeOK
<1>3. PICK h : h = reader[r].snapshot \cap points
  OBVIOUS
<1>4. PICK p : p = "queried"
  OBVIOUS
<1>5. PICK x : x = [reader[r] EXCEPT !.phase = p, !.hits = h]
  OBVIOUS
<1>6. reader' = [reader EXCEPT ![r] = x]
  BY <1>2, <1>3, <1>4, <1>5 DEF Query
<1>7. h \in SUBSET Ids
  BY <1>2, <1>3 DEF Reading
<1>8. /\ x \in Reading /\ x.phase = "queried" /\ x.hits = h
      /\ x.snapshot = reader[r].snapshot
  BY <1>2, <1>4, <1>5, <1>7 DEF Reading
<1>9. /\ reader' \in [Readers -> Reading] /\ reader'[r] = x
      /\ \A q \in Readers : q # r => reader'[q] = reader[q]
  BY <1>2, <1>6, <1>8
<1>10. \A g \in x.snapshot : g \in h \/ Lost(g)'
  BY <1>1, <1>2, <1>3, <1>8 DEF ReaderOK, Lost
<1>11. ReaderOK(r)'
  BY <1>1, <1>2, <1>3, <1>8, <1>9, <1>10 DEF ReaderOK, OneCorpus
<1> QED
  BY <1>1, <1>9, <1>11, SeenInv

\* A snapshot that holds is made of active generations: none of it is lost.
LEMMA RetrieveInv ==
    ASSUME Inv, NEW r \in Readers, Retrieve(r)
    PROVE  Inv'
<1>1. /\ reader[r].phase = "queried"
      /\ UNCHANGED <<mode, doc, ws, head, row, points, extract, job, work>>
  BY DEF Retrieve, jobs
<1>2. reader \in [Readers -> Reading] /\ reader[r] \in Reading /\ ReaderOK(r)
  BY DEF Inv, TypeOK
<1>3. CASE ~Holds(reader[r].snapshot)
  <2>1. reader' = [reader EXCEPT ![r] = IdleReader]
    BY <1>3 DEF Retrieve
  <2> QED
    BY <1>1, <2>1, IdleReaderOK
<1>4. CASE Holds(reader[r].snapshot)
  <2>1. PICK p : p = "retrieved"
    OBVIOUS
  <2>2. PICK x : x = [reader[r] EXCEPT !.phase = p]
    OBVIOUS
  <2>3. reader' = [reader EXCEPT ![r] = x]
    BY <1>2, <1>4, <2>1, <2>2 DEF Retrieve
  <2>4. /\ x \in Reading /\ x.phase = "retrieved" /\ x.hits = reader[r].hits
        /\ x.snapshot = reader[r].snapshot
    BY <1>2, <2>1, <2>2 DEF Reading
  <2>5. /\ reader' \in [Readers -> Reading] /\ reader'[r] = x
        /\ \A q \in Readers : q # r => reader'[q] = reader[q]
    BY <1>2, <2>3, <2>4
  <2>6. \A g \in reader[r].snapshot : ~Lost(g)
    BY <1>4, HeadsHavePoints DEF Holds, Lost
  <2>7. x.hits = x.snapshot
    <3>1. reader[r].hits \subseteq reader[r].snapshot
      BY <1>2 DEF ReaderOK
    <3>2. \A g \in reader[r].snapshot : g \in reader[r].hits
      BY <1>1, <1>2, <2>6 DEF ReaderOK
    <3>3. reader[r].hits = reader[r].snapshot
      BY <3>1, <3>2
    <3> QED
      BY <2>4, <3>3
  <2>8. ReaderOK(r)'
    BY <1>1, <1>2, <2>4, <2>5, <2>7 DEF ReaderOK, OneCorpus
  <2> QED
    BY <1>1, <2>5, <2>8, SeenInv
<1> QED
  BY <1>3, <1>4

LEMMA ReaderInv ==
    ASSUME Inv, NEW r \in Readers, ReaderStep(r)
    PROVE  Inv'
<1>1. CASE Read(r)
  BY <1>1, ReadInv
<1>2. CASE Query(r)
  BY <1>2, QueryInv
<1>3. CASE Retrieve(r)
  BY <1>3, RetrieveInv
<1>4. CASE Answer(r)
  BY <1>4, IdleReaderOK DEF Answer, jobs
<1>5. CASE Refuse(r)
  BY <1>5, IdleReaderOK DEF Refuse, jobs
<1> QED
  BY <1>1, <1>2, <1>3, <1>4, <1>5 DEF ReaderStep

----------------------------------------------------------------------------
LEMMA NextInv == Inv /\ [Next]_vars => Inv'
<1> SUFFICES ASSUME Inv, [Next]_vars PROVE Inv'
  OBVIOUS
<1>1. CASE Change
  BY <1>1, ChangeInv
<1>2. ASSUME NEW w \in Workers, Maintain(w) PROVE Inv'
  <2>1. CASE Prepare(w)
    BY <2>1, PrepareInv
  <2>2. CASE \E g \in Ids : Stage(w, g)
    BY <2>2, StageInv
  <2>3. CASE ReadMembership(w)
    BY <2>3, ReadMembershipInv
  <2>4. CASE Commit(w)
    BY <2>4, CommitInv
  <2> QED
    BY <1>2, <2>1, <2>2, <2>3, <2>4 DEF Maintain
<1>3. CASE JobStep
  <2>1. CASE \/ \E j \in extract : FinishExtraction(j) \/ FailExtraction(j)
             \/ \E d \in Docs, c \in Configs : Reprocess(d, c)
             \/ \E d \in Docs : Reindex(d)
    BY <2>1, ExtractionInv
  <2>2. CASE \E d \in Docs, g \in Ids : Rollback(d, g)
    BY <2>2, RollbackInv
  <2>3. CASE \E w \in Workers, g \in Ids : Claim(w, g)
    BY <2>3, ClaimInv
  <2>4. CASE \E w \in Workers : Finalize(w) \/ Supersede(w)
    BY <2>4, FinalizeInv, SupersedeInv
  <2>5. CASE \E g \in Ids : Cleanup(g)
    BY <2>5, CleanupInv
  <2> QED
    BY <1>3, <2>1, <2>2, <2>3, <2>4, <2>5 DEF JobStep
<1>4. CASE UNCHANGED vars
  <2>1. UNCHANGED <<mode, doc, ws, head, row, points, extract, job, work, reader>>
    BY <1>4 DEF vars, jobs
  <2>2. TypeOK' /\ ReviewedOnly'
    BY <2>1 DEF Inv, TypeOK, ReviewedOnly
  <2>3. Carries
    BY <2>1, Unmoved DEF Carries, RowsKept, JobsKept
  <2> QED
    BY <2>1, <2>2, <2>3, StepInv
<1> QED
  BY <1>1, <1>2, <1>3, <1>4, AbandonInv, ReaderInv DEF Next

\* The invariant holds in every state of every run, of either mode.
THEOREM Invariance == Spec => []Inv
<1> QED
  BY InitInv, NextInv, PTL DEF Spec

\* A request that was retrieved holds a hit list of the whole snapshot: the points of no
\* generation were deleted by the cleanup under its query.
THEOREM RetrievedInFull == Spec => []ServedCompletely
<1>1. Inv => ServedCompletely
  BY DEF Inv, ReaderOK, ServedCompletely
<1> QED
  BY Invariance, <1>1, PTL

\* What is answered from was scored under one profile that knows every document of the
\* snapshot at the version served, whatever the transactions did between the snapshot and the
\* answer.
THEOREM RetrievedOnOneCorpus == Spec => []AnsweredOnOneCorpus
<1>1. Inv => AnsweredOnOneCorpus
  BY DEF Inv, ReaderOK, OneCorpus, AnsweredOnOneCorpus
<1> QED
  BY Invariance, <1>1, PTL

\* What a worker found stale in one transaction is stale in every later one: revisions do not
\* come back, so finalize_superseded is never refused on a second look.
THEOREM StaleForGood == Spec => []StaleStaysStale
<1>1. Inv => StaleStaysStale
  BY DEF Inv, WorkOK, StaleStaysStale
<1> QED
  BY Invariance, <1>1, PTL

\* A reviewed corpus activates nothing but the newest revision of a document, so a rollback
\* fences the request it overtakes.
THEOREM OnlyNewest == Spec => OnlyNewestActivates
<1>1. ASSUME Inv, [Next]_vars, mode = "reviewed", NEW d \in Docs
      PROVE  head'[d].active \in {head[d].active, 0, head[d].revision}
  <2> DEFINE Goal == head'[d].active \in {head[d].active, 0, head[d].revision}
  <2>1. head \in [Docs -> Head] /\ head[d] \in Head
    BY <1>1 DEF Inv, TypeOK
  <2>2. CASE head' = head
    BY <2>2
  <2>3. ASSUME NEW e \in Docs, NEW profile, NEW c, Request(e, profile, c) PROVE Goal
    <3> DEFINE r == head[e].revision + 1
               a == <<e, head[e].active>>
               x == IF head[e].active # 0 /\ Current(a) /\ row[a].profile = profile
                    THEN head[e].active ELSE 0
    <3>1. head' = [head EXCEPT ![e] = [revision |-> r, desired |-> r, active |-> x]]
      BY <2>1, <2>3 DEF Request
    <3>2. x \in {head[e].active, 0}
      OBVIOUS
    <3> HIDE DEF r, x
    <3> QED
      BY <2>1, <3>1, <3>2
  <2>4. ASSUME NEW e \in Docs, NEW g \in Ids, Rollback(e, g) PROVE Goal
    BY <2>1, <2>4 DEF Rollback
  <2>5. ASSUME NEW w \in Workers, Finalize(w) PROVE Goal
    <3>1. PICK g \in work[w].batch : \/ head' = head
                                     \/ ~Stale(g) /\ head' = [head EXCEPT ![g[1]].active = g[2]]
      BY <2>5 DEF Finalize
    <3>2. g \in DOMAIN row
      BY <1>1 DEF Inv, WorkOK
    <3>3. g[1] \in Docs /\ g[2] # 0 /\ HeadOK(g[1])
      BY <1>1, <3>2, Generation DEF Inv
    <3>4. CASE ~Stale(g) /\ head' = [head EXCEPT ![g[1]].active = g[2]]
      <4>1. g[2] = head[g[1]].revision
        BY <3>3, <3>4 DEF Stale, HeadOK
      <4> QED
        BY <2>1, <3>3, <3>4, <4>1
    <3> QED
      BY <3>1, <3>4
  <2>6. ASSUME NEW w \in Workers, Commit(w) PROVE FALSE
    BY <1>1, <2>6 DEF Commit, Inv, WorkOK
  <2>7. CASE JobStep
    <3>1. CASE \E j \in extract : FinishExtraction(j)
      BY <1>1, <2>2, <2>3, <3>1 DEF FinishExtraction, Inv, TypeOK, Extraction
    <3>2. CASE \E e \in Docs : Reindex(e)
      BY <2>3, <3>2 DEF Reindex
    <3> QED
      BY <2>2, <2>4, <2>5, <2>7, <3>1, <3>2
      DEF JobStep, FailExtraction, Reprocess, Claim, Supersede, Cleanup
  <2>8. CASE Change
    BY <2>2, <2>8 DEF Change, Submit, Publish, Archive, MutateWorkspace
  <2>9. ASSUME NEW w \in Workers, Maintain(w) \/ Abandon(w) PROVE Goal
    BY <1>1, <2>2, <2>6, <2>9 DEF Maintain, Abandon, Prepare, Stage, ReadMembership
  <2>10. ASSUME NEW r \in Readers, ReaderStep(r) PROVE Goal
    BY <2>2, <2>10 DEF ReaderStep, Read, Query, Retrieve, Answer, Refuse
  <2> QED
    BY <1>1, <2>2, <2>7, <2>8, <2>9, <2>10 DEF Next, vars
<1>2. Inv /\ [Next]_vars =>
          [mode = "reviewed" => \A d \in Docs :
               head'[d].active \in {head[d].active, 0, head[d].revision}]_vars
  BY <1>1
<1> QED
  BY Invariance, <1>2, PTL DEF Spec, OnlyNewestActivates

=============================================================================
