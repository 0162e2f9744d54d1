SPECIFICATION Spec
CONSTANTS
    NoToken = NoToken
    Inlining = TRUE
    DumpStats = TRUE
    DumpReports = TRUE
    Passes <- StdPasses
    Kind <- StdKind
    Prerequisites <- StdPrerequisites
    Preserves <- StdPreserves
    Invalidates <- StdInvalidates
    Key <- StdKey
    Options <- MCOptions
    Outcomes <- MCOutcomes
    Effects <- MCNoEffects
    Publishers <- StdAnalyses
    Pipelines <- MCPipelines
    Managers <- MCManagers
    MaxRefresh = 32
    MaxRuns = 1
    MaxExternal = 0
CHECK_DEADLOCK FALSE
INVARIANTS RequirementsMet StandardStabilizes
