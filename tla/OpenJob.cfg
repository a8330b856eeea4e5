CONSTANTS
    u1 = u1
    u2 = u2
    a = a
    b = b
    w1 = w1
    Uploads = {u1, u2}
    Contents = {a, b}
    Workers = {w1}
    None = None
    MaxAttempts = 2
    SlowUploads = FALSE
    MaxFailures = 1
SPECIFICATION Spec
SYMMETRY Symmetry
INVARIANTS
    OpenJobHasSource
CHECK_DEADLOCK FALSE
