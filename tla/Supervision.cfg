CONSTANTS
    None = None
    Capacity = 2
    Wirings = {TRUE, FALSE}
    MaxRuntime = 2
    Interval = 1
    MaxRuns = 3
SPECIFICATION FairSpec
CHECK_DEADLOCK FALSE
INVARIANTS
    PermitsBoundHandlers
    AcceptedInTime
PROPERTIES
    SupervisedRuntimeIsBounded
    SlotsComeBack
