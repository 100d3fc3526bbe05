SPECIFICATION Spec
CONSTANTS
    n1 = n1
    n2 = n2
    NoNode = NoNode
    Node = {n1, n2}
    Id = {n1, n2}
    AliasOf = n1
    Host <- MCHost
    Pollers = {n1}
    Campaigners = {n1, n2}
    MaxTerm = 1
    MaxStale = 0
    MaxRestarts = 1
    MaxRediscover = 1
INVARIANTS NoSelfProxy
CHECK_DEADLOCK FALSE
