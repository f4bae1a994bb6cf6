SPECIFICATION Spec
CONSTANTS
    a = a
    a1 = a1
    a2 = a2
    Paths <- MCPaths
    Live = {a}
    Rotating = {a}
    RotatedName <- MCRotatedName
    ArchiveName <- MCArchiveName
    Inodes = {i1, i2, i3}
    NoInode = NoInode
    RotationKinds = {"rename", "publish"}
    SplitLines = {1}
    MaxLines = 2
    MaxRotations = 2
    BatchSize = 1
    ChunkSize = 2
    Oversize = {2}
    MaxStored = 2
    LogPath = a
    Siblings = {a2}
    ReadCompressed = TRUE
    MaxFaults = 1
    MaxStops = 0
PROPERTY
    ScanDelivers
CHECK_DEADLOCK FALSE
