SPECIFICATION Spec
CONSTANTS
    a = a
    a1 = a1
    a2 = a2
    e = e
    Paths <- MCPaths
    Live = {a}
    Rotating = {a}
    RotatedName <- MCRotatedName
    ArchiveName <- MCArchiveName
    Inodes = {i1, i2, i3}
    NoInode = NoInode
    RotationKinds = {"rename"}
    SplitLines = {}
    MaxLines = 2
    MaxRotations = 1
    Rank <- MCRank
    Nested = {}
    Recursive = FALSE
    Matching = {a, a1}
    Compressed = {a2}
    Gzip = {a2}
    ReadCompressed = TRUE
    FingerprintSize = 1
    BatchSize = 2
    ChunkSize = 2
    Oversize = {}
    NoRow = NoRow
    MaxStored = 2
    MaxFaults = 0
    MaxStops = 0
INVARIANT
    NeverReingested
CHECK_DEADLOCK FALSE
