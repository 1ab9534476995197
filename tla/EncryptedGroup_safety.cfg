SPECIFICATION Spec
CONSTANTS
    Peer = {1, 2, 3}
    Initial = {1, 2}
    Manager = {1}
    MaxStates = 1
    MaxAdds = 1
    MaxRemovals = 1
    MaxFailures = 1
CHECK_DEADLOCK FALSE
INVARIANT TypeOK
INVARIANT OutsidersStayOut
INVARIANT OutsidersReadNothingNew
