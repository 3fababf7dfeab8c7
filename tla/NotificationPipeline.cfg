SPECIFICATION FairSpec
CONSTANTS
    Event = {1, 2}
    Relay = {r1}
    BatchSize = 2
    RelayFaults = 1
    Deletable = {1}
    Member = {m1, m2}
    NoMember = NoMember
    ConsumerFaults = 1
    PollErrors = TRUE
INVARIANT NoEventIsLost
PROPERTIES ImplementsDelivery EventuallyNotified
CHECK_DEADLOCK FALSE
