CONSTANTS
    Papers = {p1, p2}
    MaxRuns = 2
    None = None

SPECIFICATION Spec

INVARIANTS
    ReadyIsCurrent
    CurrentIsWhole

CHECK_DEADLOCK FALSE
