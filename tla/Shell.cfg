SPECIFICATION Spec
CONSTANTS
    None = None
    Nothing = Nothing
    Permitted = {admin}
    Others = {reader}
    Tokens = {1, 2}
    MaxMoves = 2
    MaxCalls = 2
    MaxFaults = 1
    MaxQuestions = 2
    MaxMessages = 4
INVARIANTS TypeOK StoredIsTheStores GuardedOnlyAfterPermission AnswersFollowQuestions LoadingHasStream
PROPERTIES NavigationSettles
CHECK_DEADLOCK FALSE
