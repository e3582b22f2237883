\* Two keys released one per sweep; no symmetry, this is liveness.
SPECIFICATION FairSpec
CONSTANTS
    Requests = {r1}
    Janitors = {j1}
    Users = {u1}
    Keys = {k1, k2}
    Posts = {p1}
    Contents = {"large"}
    NoKey = NoKey
    NoUser = NoUser
    NoPurpose = NoPurpose
    PresignTTL = 1
    GCAfter = 1
    BatchSize = 1
    MaxTime = 3
PROPERTY
    AbandonedCollected
