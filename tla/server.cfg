SPECIFICATION FairSpec
CONSTANTS
    N = 3
    Launches <- MCLaunches
    SecondInit = {"aborts", "tolerated"}
INVARIANTS
    TypeOK
    SameStream
    CollectivesMatch
    SessionsAgree
    LeaveTogether
PROPERTY
    ShutsDown
CHECK_DEADLOCK FALSE
