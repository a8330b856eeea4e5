CONSTANTS
    x = x
    y = y
    z = z
    Answers = {x, y, z}
    None = None
    MaxCalls = 7
SPECIFICATION FairSpec
INVARIANTS
    AnswersAreProven
    RefusalsAreEarned
    StreamTellsAll
PROPERTIES
    RevokedStaysInside
    QuestionEnds
CHECK_DEADLOCK FALSE
