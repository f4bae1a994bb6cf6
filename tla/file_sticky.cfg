SPECIFICATION Spec
CONSTANTS
    a = a
    a1 = a1
    a2 = a2
    Paths <- MCPaths
    Live = {a}
    Rotating = {a}
    RotatedName <- MCRotatedName
    ArchiveName <- MCArchiveName
    Inodes = {i1, i2, i3}
    NoInode = NoInode
    RotationKinds = {}
    SplitLines = {}
    MaxLines = 2
    MaxRotations = 0
    BatchSize = 2
    ChunkSize = 2
    Oversize = {}
    MaxStored = 2
    LogPath = a
    Siblings = {a2}
    ReadCompressed = FALSE
    MaxFaults = 0
    MaxStops = 0
PROPERTY
    MonitorsNewEntries
CHECK_DEADLOCK FALSE
