SPECIFICATION Spec
CONSTANTS
    a = a
    a1 = a1
    a2 = a2
    e = e
    Paths <- MCPaths
    Live = {a}
    Rotating = {a}
    RotatedName <- MCRotatedName
    ArchiveName <- MCArchiveName
    Inodes = {i1, i2, i3}
    NoInode = NoInode
    RotationKinds = {"rename", "copytruncate"}
    SplitLines = {2}
    MaxLines = 3
    MaxRotations = 2
    Rank <- MCRank
    Nested = {}
    Recursive = FALSE
    Matching = {a}
    Compressed = {a2}
    Gzip = {a2}
    ReadCompressed = TRUE
    FingerprintSize = 2
    BatchSize = 2
    ChunkSize = 2
    Oversize = {}
    NoRow = NoRow
    MaxStored = 2
    MaxFaults = 1
    MaxStops = 1
INVARIANTS
    TypeOK
    CursorSound
PROPERTY
    DeliversAtLeastOnce
SYMMETRY InodeSymmetry
CHECK_DEADLOCK FALSE
