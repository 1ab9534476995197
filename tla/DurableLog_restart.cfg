SPECIFICATION Spec
CONSTANTS
    Topic = {t1}
    MaxOps = 3
    MaxRestarts = 1
    MaxFailures = 0
CHECK_DEADLOCK FALSE
INVARIANT AppendOnlyChain
