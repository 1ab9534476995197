SPECIFICATION FairNodeSpec
CONSTANTS
    Topic = {t1}
    MaxOps = 2
    MaxRestarts = 1
    MaxFailures = 1
    Peer = {p}
    Capacity = 2
    MaxSubs = 2
    MaxRemote = 2
    MaxClosed = 1
CHECK_DEADLOCK FALSE
INVARIANT NodeTypeOK
INVARIANT OfflineWhenAlone
PROPERTY EverythingArrives
PROPERTY NoGaps
INVARIANT TypeOK
INVARIANT BacklinksFollowed
INVARIANT PublishedNeverFork
