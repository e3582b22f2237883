\* Four posts over two instants, so that a page may end between two posts of
\* the same instant; pages of one or two posts.
SPECIFICATION Spec
CONSTANTS
    Readers = {r1}
    Authors = {a1, a2}
    Everyone = Everyone
    Times = {0, 1}
    Ids = {1, 2, 3, 4}
    Limits = {0, 3}
    DefaultLimit = 1
    MaxLimit = 2
    NoCursor = NoCursor
SYMMETRY Symmetry
INVARIANTS
    ScrollInv
    NoRepeat
    NoSkip
PROPERTY
    PagesDescend
