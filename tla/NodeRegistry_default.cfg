SPECIFICATION Spec
CONSTANTS
    Segment = {"x", "y", "n", "m", "..", "acme-chat", "run", "p2p", ".local", "share"}
    SafeSegment <- Segments
    Name <- TwoNames
    Link <- OneLink
    Environment <- Shared
    MaxNodes = 2
    MaxLinks = 1
    MaxRestarts = 1
    MaxFailures = 1
CHECK_DEADLOCK FALSE
INVARIANT OneNodePerDirectory
