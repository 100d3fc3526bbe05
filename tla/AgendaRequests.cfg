SPECIFICATION Spec
CONSTANTS
    r1 = r1
    h1 = h1
    h2 = h2
    u1 = u1
    u2 = u2
    team = team
    club = club
    NoGroup = NoGroup
    NoAppt = NoAppt
    Replica = {r1}
    Leader = r1
    Handler = {h1}
    User = {u1, u2}
    Group = {team, club}
    Flat = {club}
    Creator <- MCCreator
    Slot <- MCSlots
    Rank = {0, 2}
    OwnerRank = 1
    MaxCommands = 4
    MaxFaults = 1
INVARIANTS TypeOK ParticipantsAreMembers OwnerAttends NoDoubleBooking AnswersReachOwner RepeatChangesNothing OnlyMissingTargetsBlock
CHECK_DEADLOCK FALSE
