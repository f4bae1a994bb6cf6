SPECIFICATION Spec
CONSTANTS
    m1 = m1
    huge = huge
    noise = noise
    login = login
    search = search
    Messages = {m1, noise, huge}
    Unparsable = {noise, huge}
    Oversize = {huge}
    Words = {login, search}
    Matches <- MCMatches
    Conns = {c1}
    Offered <- MCOffered
    NoMessage = NoMessage
    MaxStarts = 2
    MaxFaults = 1
INVARIANTS
    TypeOK
    PredecessorIsSilent
    HitsAreComplete
PROPERTIES
    StopReturns
    EveryMessageStored
CHECK_DEADLOCK FALSE
