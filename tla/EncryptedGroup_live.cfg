SPECIFICATION FairSpec
CONSTANTS
    Peer = {1, 2, 3}
    Initial = {1, 2}
    Manager = {1, 2, 3}
    MaxStates = 2
    MaxAdds = 1
    MaxRemovals = 0
    MaxFailures = 0
CHECK_DEADLOCK FALSE
INVARIANT AnnouncedMembersWelcomed
INVARIANT WelcomedOnce
INVARIANT PublishedStateKept
PROPERTY MembersConverge
