SPECIFICATION Spec
CONSTANTS
    r1 = r1
    r2 = r2
    team = team
    owner = owner
    guest = guest
    meeting = meeting
    invited = invited
    yes = yes
    said = said
    dentist = dentist
    noted = noted
    Replica = {r1, r2}
    Item <- AllItems
    Kind <- MCKind
    Needs <- MCNeeds
    Member <- MCMember
    Note <- MCNote
    Stored <- MeetingHeld
    NoItem = NoItem
    NoReplica = NoReplica
    EventLimit = 1000
    MaxTime = 2
    MaxRequests = 2
    MaxFaults = 0
    FirstLeader = r1
    MaxRounds = 1
INVARIANT AnswersAreIdempotent
CHECK_DEADLOCK FALSE
