SPECIFICATION Spec

CONSTANTS
    Tabs = {t1, t2}
    Posts = {p1, p2}
    Users = {u1}
    Emails = {e1, e2}
    Ids = {i1, i2}
    MaxAttempts = 1
    MaxSends = 2
    MaxAddressSends = 3
    Life = 2
    Window = 3
    Retention = 0
    LastTick = 6
    MaxTroubles = 1
    MaxPosts = 4
    None = None
    Unknown = Unknown

SYMMETRY Symmetry
CHECK_DEADLOCK FALSE

INVARIANTS
    CodeIsSpent
    TabFollowsRow

PROPERTIES
    ImplementsCodes
