SPECIFICATION Spec
CONSTANTS
    Replica = {A, B}
    Atom = {x, y}
    Encrypted = TRUE
    MaxMerges = 2
    MaxDepth = 2
    MaxGarbage = 1
    MaxFailures = 1
CHECK_DEADLOCK FALSE
SYMMETRY Symmetry
INVARIANT TypeOK
INVARIANT OwnStateHeld
INVARIANT EffectsCurrent
INVARIANT NoSpuriousRerun
