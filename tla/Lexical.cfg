CONSTANTS
    w1 = w1
    w2 = w2
    r1 = r1
    c1 = c1
    c2 = c2
    Docs <- TwoDocs
    MaxVersion = 2
    Embedded <- OneOrBoth
    Manifest <- OneReviewed
    Configs = {c1, c2}
    DenseConfig = c1
    Workers = {w1, w2}
    Readers = {r1}
    None = None
    MaxChanges = 2
    MaxRevision = 3
    MaxFailures = 1
SPECIFICATION FairSpec
INVARIANTS
    ServedCompletely
    AnsweredOnOneCorpus
    StaleStaysStale
PROPERTIES
    OnlyNewestActivates
    CorpusIsIndexed
CHECK_DEADLOCK FALSE
