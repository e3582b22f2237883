\* Two users attaching and PUTting while the sweeps of two replicas overlap.
SPECIFICATION Spec
CONSTANTS
    Requests = {r1, r2}
    Janitors = {j1, j2}
    Users = {u1, u2}
    Keys = {k1, k2}
    Posts = {p1, p2}
    Contents = {"large"}
    NoKey = NoKey
    NoUser = NoUser
    NoPurpose = NoPurpose
    PresignTTL = 0
    GCAfter = 0
    BatchSize = 2
    MaxTime = 1
SYMMETRY Symmetry
INVARIANTS
    ImageInv
    NoFanOut
    ImageOwned
    TrackedImageKept
    NoUntrackedObject
PROPERTY ImplementsImageStore
