SPECIFICATION Spec
CONSTANTS
    Replica = {A, B}
    Atom = {x, y}
    Encrypted = TRUE
    MaxMerges = 2
    MaxDepth = 2
    MaxGarbage = 0
    MaxFailures = 0
CHECK_DEADLOCK FALSE
INVARIANT OwnStateBroadcast
