SPECIFICATION Spec
CONSTANTS
    a1 = a1
    a2 = a2
    d1 = d1
    d2 = d2
    k1 = k1
    k2 = k2
    Actors <- MCActors
    Digests <- MCDigests
    Keys <- MCKeys
    NoArtifact = NoArtifact
    AllowOverwrite = FALSE
    MayDisconnect = FALSE
    MayCrash = FALSE
    MaxBlobId = 2
SYMMETRY MCSymmetry
INVARIANT RacesKeepContent
CHECK_DEADLOCK FALSE
