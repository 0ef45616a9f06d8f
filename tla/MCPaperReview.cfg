CONSTANTS
    Papers = {p1, p2}
    Clients = {c1}
    None = None

SPECIFICATION ReviewSpec

SYMMETRY Symmetry

CONSTRAINT TwoAtWork

INVARIANTS
    PendingHasReason
    NoPairMissed

CHECK_DEADLOCK FALSE
