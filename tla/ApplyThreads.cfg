SPECIFICATION FairSpec
CONSTANTS
    loop = loop
    handler = handler
    Thread = {loop, handler}
    MaxLog = 2
    MaxErrors = 2
    MaxRewinds = 1
INVARIANTS TypeOK NothingSkipped AppliedInOrder
PROPERTY WritesResume
CHECK_DEADLOCK FALSE
