SPECIFICATION Spec
CONSTANTS
    e1 = e1
    e2 = e2
    u1 = u1
    u2 = u2
    Account <- MCAccount
    Token = {t1, t2, t3}
    NoToken = NoToken
    NoAccount = NoAccount
    Request = {r1, r2}
    RefreshTTL = 2
    MaxTime = 2
INVARIANTS
    AnswersAreTrue
    SuccessorExtends
PROPERTIES
    ImplementsSessions
SYMMETRY Interchangeable
CHECK_DEADLOCK FALSE
