SPECIFICATION FairSpec
CONSTANTS
    Reminder = {a, b, c}
    Offset = {1}
    Session = {s1}
    Scheduler = {p1, p2}
    BatchSize = 2
    MaxTime = 2
    MaxFaults = 1
    MaxRevivals = 0
    Ops = {"complete", "create", "delete"}
INVARIANTS ClaimedStaysDue SentHasEvent FiresAtMostOnce
PROPERTY DueIsHandled
CHECK_DEADLOCK FALSE
