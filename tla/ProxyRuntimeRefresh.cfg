SPECIFICATION Spec
CONSTANTS
    r1 = r1
    r2 = r2
    Requests <- MCOneRequest
    MaxVersion = 2
    MaxLosses = 0
    MayWarmUp = FALSE
    MayWithdraw = FALSE
    MaySweep = FALSE
    None = None
INVARIANT FailedRefreshTurnsNobodyAway
