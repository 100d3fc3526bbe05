SPECIFICATION Spec
CONSTANTS
    n1 = n1
    n2 = n2
    n3 = n3
    NoNode = NoNode
    Node = {n1, n2, n3}
    Id = {n1, n2, n3}
    AliasOf = n1
    Host <- MCHost
    Pollers = {}
    Campaigners = {n1, n2}
    MaxTerm = 1
    MaxStale = 0
    MaxRestarts = 0
    MaxRediscover = 0
INVARIANTS TypeOK OneGrantPerTerm ElectionsAlwaysWon
PROPERTY TermsOnlyGrow
SYMMETRY Replicas
CHECK_DEADLOCK FALSE
