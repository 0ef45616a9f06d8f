CONSTANTS
    Workspaces = {w1}
    Papers = {p1, p2}
    Requests = {c1, c2, c3}
    Runs = {r1}
    MaxRevision = 3
    None = None

SPECIFICATION Spec

INVARIANTS
    RevisionPinsMembers
    NoDeletedMember
    CleanedNeverActive

CHECK_DEADLOCK FALSE
