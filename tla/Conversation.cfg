CONSTANTS
    c1 = c1
    k1 = k1
    k2 = k2
    l1 = l1
    l2 = l2
    Conversations = {c1}
    Keys = {k1, k2}
    Loops = {l1}
    Processes = {l1}
    ProcessOf <- OneProcess
    None = None
    Lease = 1
    Deadline = 1
    MaxFaults = 1
SPECIFICATION Spec
SYMMETRY Symmetry
PROPERTIES
    ImplementsLog
