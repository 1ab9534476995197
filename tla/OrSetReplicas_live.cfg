SPECIFICATION FairSpec
CONSTANTS
    Replica = {A, B, C}
    Element = {x, y}
    MaxCounter = 4
    MaxPublished = 3
    MaxRestarts = 1
CHECK_DEADLOCK FALSE
INVARIANT TypeOK
INVARIANT TagNamesOneInsertion
INVARIANT AddWins
INVARIANT TombstonesObserved
INVARIANT SameHistorySameState
PROPERTY ImplementsAddWins
PROPERTY NoResurrection
PROPERTY Converges
