SPECIFICATION Spec
CONSTANTS
    NoToken = NoToken
    types = types  rival = rival  clashing = clashing  types2 = types2  derived = derived  rewrite = rewrite
    setup = setup  reader = reader  tslot = tslot  dslot = dslot  o1 = o1  o2 = o2
    Passes <- MCPasses
    Kind <- MCKind
    Prerequisites <- MCPrerequisites
    Preserves <- KeepTypes
    Invalidates <- DropTypes2
    Key <- MCKey
    Options <- MCOptions
    Outcomes <- MCOutcomes
    Effects <- RewriteCommits
    Publishers <- MCPublishers
    Pipelines <- MCPipelines
    Managers <- CachingManager
    MaxRefresh = 3
    MaxRuns = 2
    MaxExternal = 1
CHECK_DEADLOCK FALSE
INVARIANT MarkersBacked
