SPECIFICATION ServiceSpec
CONSTANTS
    None = None
    Jobs = {1}
    Runs = {1, 2}
    MaxConcurrent = 1
CHECK_DEADLOCK FALSE
INVARIANTS
    TypeOK
    ActiveHasRunner
PROPERTIES
    PlanMovesOn
