CONSTANTS
    Papers = {p1, p2}
    Runs = {r1, r2}
    MaxRevision = 3
    None = None

SPECIFICATION Spec

INVARIANTS
    SessionReadsLiveEntries
    EvolutionFollowsCompletion

PROPERTIES
    NothingForgotten

CHECK_DEADLOCK FALSE
