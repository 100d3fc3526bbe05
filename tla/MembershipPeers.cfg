SPECIFICATION Spec
CONSTANTS
    h1 = h1
    h2 = h2
    h3 = h3
    n2 = n2
    n3 = n3
    seed1 = seed1
    seed2 = seed2
    docker2 = docker2
    Host = {h1, h2, h3}
    Self = h2
    Id = {seed1, n2, seed2, docker2, n3}
    HostOf <- MCHostOf
    Own <- MCOwn
    Seeds = {seed1, seed2}
    DnsIds = {docker2}
    Advertised = {seed2}
    Bare = {n2, n3}
    EnvPeers = {seed1}
    NoRow = NoRow
    MaxAge = 0
    MaxLate = 1
    MaxFaults = 2
INVARIANTS TypeOK NeverFresherThanContact 
PROPERTY UnreachableLeavesPeers
CHECK_DEADLOCK FALSE
