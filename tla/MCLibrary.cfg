\* Two requests at a time, on one manga, by a registered user and another.
CONSTANTS
    w1 = w1
    w2 = w2
    u1 = u1
    u2 = u2
    m1 = m1
    None = None
    Workers = {w1, w2}
    Users = {u1, u2}
    Registered = {u1}
    Mangas = {m1}
    Chapters <- SomeChapters
    Ratings = {10, 11}
    Totals = {0, 1}
SPECIFICATION Spec
SYMMETRY Symmetry
INVARIANTS
    TypeOK
    NoOrphans
    ShownIsStored
    WithinTotal
PROPERTY StoreSpec
CHECK_DEADLOCK FALSE
