SPECIFICATION Spec
CONSTANTS
    r1 = r1
    r2 = r2
    Requests <- MCRequests
    MaxVersion = 2
    MaxLosses = 0
    MayWarmUp = FALSE
    MayWithdraw = TRUE
    MaySweep = TRUE
    None = None
PROPERTIES
    ServesForGood
    RequestsAreAnswered
