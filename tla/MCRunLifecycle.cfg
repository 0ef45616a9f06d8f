CONSTANTS
    Runs = {r1, r2}
    Clients = {c1, c2}
    None = None

SPECIFICATION FairSpec

INVARIANTS
    CompletedHasArtifact
    ClosedTurnMatchesRun
    RunningIsExecuted

PROPERTIES
    TerminalStatusFinal
    TerminalCheckpointFinal
    ReconciledBeforeServing
    PauseHonoured
