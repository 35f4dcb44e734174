SPECIFICATION Spec
CONSTANTS
    r1 = r1
    r2 = r2
    Requests <- MCOneRequest
    MaxVersion = 2
    MaxLosses = 1
    MayWarmUp = TRUE
    MayWithdraw = TRUE
    MaySweep = FALSE
    None = None
INVARIANT TypeOK
PROPERTIES
    RefreshKeepsOldContent
    ServesForGood
