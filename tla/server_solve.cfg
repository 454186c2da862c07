SPECIFICATION Spec
CONSTANTS
    N = 2
    Launches <- SolveLaunches
    SecondInit = {"tolerated"}
INVARIANT
    UniformRanksMeet
CHECK_DEADLOCK FALSE
