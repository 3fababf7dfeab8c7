SPECIFICATION FairSpec
CONSTANTS
    Event = {e1, e2}
    Malformed = {}
    Deletable = {e1}
    Member = {m1}
    NoMember = NoMember
    MaxLog = 2
    MaxFaults = 0
    PollErrors = TRUE
PROPERTY KeptRemindersAreNotified
CHECK_DEADLOCK FALSE
