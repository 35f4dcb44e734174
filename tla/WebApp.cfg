SPECIFICATION Spec
CONSTANTS
    a = a
    b = b
    Items <- MCItems
    Protected = a
    None = None
    MaxEvents <- MCMaxEvents
    MaxCalls <- MCMaxCalls
    MaxFaults <- MCMaxFaults
    Pages <- AllPages
INVARIANTS TypeOK QuietListIsCurrent
CHECK_DEADLOCK FALSE
