\* A claim racing the two halves of the DELETE statement.
SPECIFICATION Spec
CONSTANTS
    Requests = {r1}
    Janitors = {j1}
    Users = {u1}
    Keys = {k1}
    Posts = {p1}
    Contents = {"large"}
    NoKey = NoKey
    NoUser = NoUser
    NoPurpose = NoPurpose
    PresignTTL = 1
    GCAfter = 1
    BatchSize = 1
    MaxTime = 2
SYMMETRY Symmetry
INVARIANT
    NoDanglingImage
