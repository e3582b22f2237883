\* Two requests racing on one login while rows expire and are purged.
SPECIFICATION FairSpec
CONSTANTS
    Requests = {r1, r2}
    Users = {u1}
    Tokens = {t1, t2, t3}
    Families = {f1}
    NoToken = NoToken
    NoFamily = NoFamily
    NoUser = NoUser
    RefreshTTL = 1
    Retention = 1
    MaxTime = 3
ACTION_CONSTRAINT TokensInOrder
INVARIANTS
    ChainInv
    NoDoubleExchange
    RetentionHolds
PROPERTIES
    DeadStaysDead
    RevocationEndsSession
    ImplementsRotation
    ExpiredEventuallyPurged
