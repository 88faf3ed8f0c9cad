SPECIFICATION Spec
CONSTANTS
    None = None
    a = a
    b = b
    c = c
    src = src
    hidden = hidden
    pms = pms
    ums = ums
    x = x
    y = y
    Shared = Shared
    Unclassified = Unclassified
    Invented = Invented
INVARIANTS
    CodeIsCovered 
CHECK_DEADLOCK FALSE
