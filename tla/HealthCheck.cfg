SPECIFICATION Spec
CONSTANTS
    r1 = r1
    r2 = r2
    Requests <- MCRequests
    MaxFailures = 2
    ResetTimeout = 2
    ProbeInterval = 1
    FailureThreshold = 2
INVARIANTS
    TypeOK
    FlagsMatchState
    ProbeUnderWay
PROPERTIES
    OpenHolds
    RecoversForGood
