SPECIFICATION Spec
CONSTANTS
    Segment = {"x", "y", "n", "m", "..", "acme-chat", "run", "p2p", ".local", "share"}
    SafeSegment <- Segments
    Name <- DottedNames
    Link <- OneLink
    Environment <- Apart
    MaxNodes = 2
    MaxLinks = 1
    MaxRestarts = 1
    MaxFailures = 1
CHECK_DEADLOCK FALSE
INVARIANT TypeOK
INVARIANT OneNodePerDirectory
INVARIANT HandlesPinned
INVARIANT SandboxStaysLocal
INVARIANT IdentityKept
