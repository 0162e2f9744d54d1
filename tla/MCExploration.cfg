SPECIFICATION Spec
CONSTANTS
    Tasks <- MCTasks
    Main = "main"
    Inputs <- MCInputs
    Cells <- MCCells
    Conditions <- MCConditions
    Assignments <- MCAssignments
    Expressions <- MCExpressions
    None = "None"
    Scenarios <- MCScenarios
INVARIANT TypeOK
INVARIANT PrefixReplayed
INVARIANT ExhaustedIsComplete
INVARIANT ViolationsFound
INVARIANT ReservationsServed
PROPERTY ExplorationEnds
CHECK_DEADLOCK FALSE
