\* A password of 73 to 128 bytes.
SPECIFICATION Spec
CONSTANTS
    Requests = {r1}
    Ids = {i1}
    Mailboxes = {m1}
    Forms = {"lower"}
    Usernames = {n1}
    Secrets = {s1}
    Sizes = {"fits", "long"}
    Texts = {x1}
    Absent = Absent
    Null = Null
    Empty = Empty
    None = None
    TicksPerSecond = 2
    AccessTTL = 3
    Skew = 0
    MaxTime = 0
SYMMETRY Symmetry
PROPERTY
    ValidRegistrationServed
