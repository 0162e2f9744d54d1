SPECIFICATION MCSpec
CONSTANTS
    Nodes <- MCNodes
    Procedures <- MCProcedures
    Facts <- MCFacts
    Problems <- MCProblems
    NormalFlow <- MCNormalFlow
    BypassFlow <- MCBypassFlow
    CallFlow <- MCCallFlow
    ReturnFlow <- MCReturnFlow
    BackwardReturnFlow <- MCBackwardReturnFlow
    MaxStack = 6
    Names = {"carrying", "counting", "passing", "guarding", "labelling"}
INVARIANT TypeOK
INVARIANT NothingSpurious
INVARIANT CoveredIfReplayAgrees
INVARIANT ValuesExact
PROPERTY SolveEnds
CHECK_DEADLOCK FALSE
