\* Registrations, logins and patches racing on one username, while tokens expire.
SPECIFICATION Spec
CONSTANTS
    Requests = {r1, r2}
    Ids = {i1, i2}
    Mailboxes = {m1, m2}
    Forms = {"lower", "mixed", "malformed"}
    Usernames = {n1, n2}
    Secrets = {s1}
    Sizes = {"outside", "fits", "long"}
    Texts = {x1}
    Absent = Absent
    Null = Null
    Empty = Empty
    None = None
    TicksPerSecond = 2
    AccessTTL = 1
    Skew = 1
    MaxTime = 2
SYMMETRY Symmetry
INVARIANTS
    AccountInv
    UniqueIdentity
    RightfulLoginAccepted
    NoLostPatch
PROPERTY
    VerdictsApart
    OwnersOnly
