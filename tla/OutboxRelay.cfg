SPECIFICATION OutboxFairSpec
CONSTANTS
    Event = {1, 2, 3}
    Relay = {r1, r2}
    BatchSize = 2
    RelayFaults = 2
INVARIANTS PublishedIsInLog DuplicatesNeedFaults
PROPERTY EventuallyPublished
CHECK_DEADLOCK FALSE
