SPECIFICATION FairSpec
CONSTANTS
    Event = {e1, e2, bad}
    Malformed = {bad}
    Deletable = {e1}
    Member = {m1, m2}
    NoMember = NoMember
    MaxLog = 3
    MaxFaults = 1
    PollErrors = TRUE
INVARIANTS NotifiedExactlyOnce CommittedIsHandled
PROPERTY EveryRecordIsHandled
CHECK_DEADLOCK FALSE
