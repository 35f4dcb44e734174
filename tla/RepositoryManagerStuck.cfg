SPECIFICATION Spec
CONSTANTS
    c1 = c1
    c2 = c2
    c3 = c3
    Callers <- MCThreeCallers
    Group = Group
    Member = Member
    MaxChanges = 0
    None = None
PROPERTY GetsReturn
CHECK_DEADLOCK FALSE
