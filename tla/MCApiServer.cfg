SPECIFICATION FairSpec
CONSTANTS
    u1 = u1
    u2 = u2
    u3 = u3
    User = {u1, u2, u3}
    NoUser = NoUser
    NoTask = NoTask
    Request = {q1, q2, q3}
    Call <- MCCall
    InitialTask <- MCInitialTask
    Permission <- MCPermission
    MaxOpenConns = 2
INVARIANTS
    AssigneesArePermitted
    OutsidersSeeNothing
PROPERTIES
    EveryRequestEnds
    StopsInTime
CHECK_DEADLOCK FALSE
