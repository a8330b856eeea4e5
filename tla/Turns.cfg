CONSTANTS
    c1 = c1
    k1 = k1
    k2 = k2
    l1 = l1
    l2 = l2
    Conversations = {c1}
    Keys = {k1}
    Loops = {l1, l2}
    Processes = {l1, l2}
    ProcessOf <- ProcessEach
    None = None
    Lease = 1
    Deadline = 2
    MaxFaults = 1
SPECIFICATION FairSpec
INVARIANTS
    ExecutedOnce
    OutcomeHasTrace
PROPERTIES
    DurableAnswerKept
    SettlementFenced
    EveryTurnSettles
