SPECIFICATION Spec
CONSTANTS
    None = None
    Jobs = {1}
    Runs = {1}
    MaxConcurrent = 1
    Visits = {1}
    MaxAsks = 2
    MaxClicks = 1
    MaxFaults = 1
CHECK_DEADLOCK FALSE
INVARIANTS
    WizardTypeOK
    WatchedWhileRunning
PROPERTIES
    OverIsNoticed
