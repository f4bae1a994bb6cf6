SPECIFICATION Spec
CONSTANTS
    m1 = m1
    login = login
    search = search
    Messages = {m1}
    Unparsable = {}
    Oversize = {}
    Words = {login, search}
    Matches <- MCMatches
    Conns = {c1}
    Offered <- MCDatagrams
    NoMessage = NoMessage
    MaxStarts = 2
    MaxFaults = 0
PROPERTY
    RestartBinds
CHECK_DEADLOCK FALSE
