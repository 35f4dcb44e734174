SPECIFICATION Spec
CONSTANTS
    c1 = c1
    c2 = c2
    c3 = c3
    Callers <- MCTwoCallers
    Group = Group
    Member = Member
    MaxChanges = 1
    None = None
INVARIANT TypeOK
PROPERTIES
    StoresNothingOlder
    LoadsEnd
    RuntimesCatchUp
CHECK_DEADLOCK FALSE
