SPECIFICATION Spec
CONSTANTS
    Reminder = {a}
    Offset = {1}
    Session = {s1, s2}
    Scheduler = {p1}
    BatchSize = 1
    MaxTime = 2
    MaxFaults = 1
    MaxRevivals = 1
    Ops = {"start", "complete", "edit", "archive", "create", "reschedule", "delete"}
SYMMETRY PeerSymmetry
INVARIANTS TypeOK DoneHasNoPending RelativeFollowsDeadline FiresAtMostOnce
CHECK_DEADLOCK FALSE
