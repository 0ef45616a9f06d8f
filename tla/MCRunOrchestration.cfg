CONSTANTS
    Sids = {x1, x2, x3}
    None = None
    MaxRunSteps = 3
    MaxSessions = 2
    MaxPlanningRounds = 2
    MaxFailedSessions = 1
    MaxItems = 2
    MaxProposed = 1

SPECIFICATION FairSpec

INVARIANTS
    OneOutcomePerSession
    CheckpointBackedBySql

PROPERTIES
    HistorySpecImplemented
    ExecutionEnds
