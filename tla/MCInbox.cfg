SPECIFICATION InboxSpec
CONSTANTS
    u1 = u1
    u2 = u2
    User = {u1, u2}
    NoUser = NoUser
    n1 = n1
    n2 = n2
    Note = {n1, n2}
    NoNote = NoNote
    Owner <- MCOwner
    Request = {r1, r2, r3}
    NoTime = NoTime
    Skew = 1
    MaxTime = 2
INVARIANTS
    AckedIsRead
    ListFailsForRace
PROPERTY
    ReadAtIsFinal
SYMMETRY Interchangeable
CHECK_DEADLOCK FALSE
