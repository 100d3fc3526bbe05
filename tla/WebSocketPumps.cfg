SPECIFICATION Spec
CONSTANTS
    c1 = c1
    c2 = c2
    u1 = u1
    Client = {c1, c2}
    User = {u1}
    Owner <- OneUser
    Notes <- Stored
    NoteCount = 2
    Cap = 1
    MayStop = TRUE
INVARIANTS NoPanic NoSilentGap
PROPERTIES HandlerFinishes NothingLeaks
CHECK_DEADLOCK FALSE
