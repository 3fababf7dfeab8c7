SPECIFICATION FairSpec
CONSTANTS
    Delivery = {d1, d2}
    Runner = {r1, r2}
    Chat = {c1}
    NoChat = NoChat
    NoDelivery = NoDelivery
    BatchSize = 2
    Retries = 1
    MaxFaults = 1
    MaxCopies = 3
INVARIANTS
    CopiesAreAccounted
    GivenUpForCause
    OneLateMessagePerRunner
PROPERTY
    EventuallySettled
CHECK_DEADLOCK FALSE
