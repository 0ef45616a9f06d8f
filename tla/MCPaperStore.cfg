CONSTANTS
    Jobs = {j1, j2}
    Contents = {s1, s2}
    Clients = {c1, c2}
    None = None

SPECIFICATION Spec

INVARIANTS
    NoBytesLost
    RowTellsPlace
    DeletionIsWhole
    OneHolder

CHECK_DEADLOCK FALSE
