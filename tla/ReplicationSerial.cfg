SPECIFICATION Spec
CONSTANTS
    l = l
    f1 = f1
    f2 = f2
    p1 = p1
    p2 = p2
    NoEvent = NoEvent
    Leader = l
    Follower = {f1, f2}
    Proposer = {p1}
    MaxLog = 2
    MaxAttempts = 1
    MaxTries = 2
    MaxStale = 1
    MaxDisturb = 1
INVARIANTS TypeOK AckMeansApplied CommittedWasStored FollowerPrefix
PROPERTY ImplementsReplicatedLog
SYMMETRY Replicas
CHECK_DEADLOCK FALSE
