SPECIFICATION Spec
CONSTANTS
    Hosts <- MCHosts
    WithPort <- MCWithPort
    DayLength = 4
    Traffics <- MCTraffics
    Keywords <- MCKeywords
    Within <- MCWithin
    PageSize = 1
    TopLimit <- MCTopLimit
    Filters <- MCFilters
    MaxFailures = 1
INVARIANTS
    TypeOK
    AttributedAsServed
    NoLineIsLost
    PagingSkipsNothing
    StatsOnlyLag
    DaysAgree
CHECK_DEADLOCK FALSE
