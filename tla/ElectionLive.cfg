SPECIFICATION FairSpec
CONSTANTS
    n1 = n1
    n2 = n2
    NoNode = NoNode
    Node = {n1, n2}
    Id = {n1, n2}
    AliasOf = n1
    Host <- MCHost
    Pollers = {}
    Campaigners = {n1, n2}
    MaxTerm = 1
    MaxStale = 0
    MaxRestarts = 0
    MaxRediscover = 0
PROPERTIES CandidacyEnds LeaderEmerges SplitBrainHeals
CHECK_DEADLOCK FALSE
