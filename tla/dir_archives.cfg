SPECIFICATION Spec
CONSTANTS
    a = a
    a1 = a1
    a2 = a2
    e = e
    Paths <- MCPaths
    Live = {a, e}
    Rotating = {a}
    RotatedName <- MCRotatedName
    ArchiveName <- MCArchiveName
    Inodes = {i1, i2, i3}
    NoInode = NoInode
    RotationKinds = {"rename", "publish", "compress"}
    SplitLines = {2}
    MaxLines = 2
    MaxRotations = 2
    Rank <- MCRank
    Nested = {e}
    Recursive = TRUE
    Matching = {a2, e}
    Compressed = {a2}
    Gzip = {a2}
    ReadCompressed = TRUE
    FingerprintSize = 2
    BatchSize = 2
    ChunkSize = 2
    Oversize = {1}
    NoRow = NoRow
    MaxStored = 2
    MaxFaults = 1
    MaxStops = 0
INVARIANT
    ReingestNeedsExcuse
PROPERTY
    EventuallyIngested
CHECK_DEADLOCK FALSE
