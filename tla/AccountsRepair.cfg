SPECIFICATION Spec
CONSTANTS
    r1 = r1
    r2 = r2
    h1 = h1
    h2 = h2
    ana = ana
    bob = bob
    eve = eve
    e1 = e1
    e2 = e2
    e3 = e3
    i1 = i1
    i2 = i2
    i3 = i3
    Replica = {r1, r2}
    Handler = {h1, h2}
    Name = {ana, bob, eve}
    Email = {e1, e2, e3}
    Id = {i1, i2, i3}
    IdOf <- Hash
    NoUser = NoUser
    NoReplica = NoReplica
    AuditLimit = 100
    MaxRequests = 2
    MaxLocal = 2
    MaxElections = 1
    MaxTime = 1
SYMMETRY Symmetry
INVARIANTS BlockedByRepairsOnly CursorPassesKnownUsers
PROPERTIES RegistrationCreates RepairsOnlyAdd
VIEW View
CHECK_DEADLOCK FALSE
