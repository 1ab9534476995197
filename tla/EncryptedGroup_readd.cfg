SPECIFICATION Spec
CONSTANTS
    Peer = {1, 2}
    Initial = {1, 2}
    Manager = {1, 2}
    MaxStates = 1
    MaxAdds = 1
    MaxRemovals = 1
    MaxFailures = 0
CHECK_DEADLOCK FALSE
INVARIANT AnnouncedMembersWelcomed
