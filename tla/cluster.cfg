SPECIFICATION Spec
CONSTANTS
    N = 4
    Commands = {a, b}
    MaxTerm = 3
    MaxLog = 3
INVARIANTS
    TypeOK
    ElectionSafety
    SteadyWriterCommits
PROPERTY
    OneVotePerTerm
CHECK_DEADLOCK FALSE
