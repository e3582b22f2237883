\* A replay or a logout racing an exchange.
SPECIFICATION Spec
CONSTANTS
    Requests = {r1, r2}
    Users = {u1}
    Tokens = {t1, t2}
    Families = {f1}
    NoToken = NoToken
    NoFamily = NoFamily
    NoUser = NoUser
    RefreshTTL = 1
    Retention = 1
    MaxTime = 1
SYMMETRY Symmetry
INVARIANT
    RevocationIsFinal
