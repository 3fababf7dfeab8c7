SPECIFICATION FairSpec
CONSTANTS
    u1 = u1
    u2 = u2
    User = {u1, u2}
    NoUser = NoUser
    c1 = c1
    c2 = c2
    Chat = {c1, c2}
    NoLink = NoLink
    t1 = t1
    Token = {t1}
    Sent <- MCSent
    Poller = {p1, p2}
    Lifetime = 1
    MaxTime = 1
    MaxUpdates = 2
    MaxFaults = 1
INVARIANTS
    RepliesAreTrue
    DroppedIsAnswered
PROPERTIES
    ImplementsLinkBook
    EveryUpdateIsHandled
CHECK_DEADLOCK FALSE
