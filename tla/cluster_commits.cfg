SPECIFICATION Spec
CONSTANTS
    N = 3
    Commands = {a, b}
    MaxTerm = 2
    MaxLog = 3
INVARIANT
    CommittedAgree
CHECK_DEADLOCK FALSE
