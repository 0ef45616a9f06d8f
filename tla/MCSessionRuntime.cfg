CONSTANTS
    Coordinator = Coordinator
    Final = Final
    Specialists = {Planning}
    Execs = {x1, x2}
    None = None
    MaxSteps = 2
    MaxLlm = 2
    MaxTools = 1
    MaxFailures = 2
    RoleSteps = 2
    RoleLlm = 2
    RoleTools = 1
    MaxActions = 2

SPECIFICATION FairSpec

INVARIANTS
    ActionStartedOnce
    EffectsBackCheckpoint
    UsageCountedOnce
    PauseHasContinuation

PROPERTIES
    OutcomeStable
    ExecutionEnds
