SPECIFICATION MCSpec
CONSTANTS
    Nodes <- MCNodes
    Procedures <- MCProcedures
    Facts <- MCFacts
    Problems <- MCProblems
    NormalFlow <- MCNormalFlow
    BypassFlow <- MCBypassFlow
    CallFlow <- MCCallFlow
    ReturnFlow <- MCReturnFlow
    BackwardReturnFlow <- MCBackwardReturnFlow
    MaxStack = 6
    Names = {"choosing"}
CHECK_DEADLOCK FALSE
INVARIANT Covered
