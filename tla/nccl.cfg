SPECIFICATION Spec
CONSTANTS
  World = 2
  Gpus = 2
  NativeAvg = FALSE
  MaxAhead = 1
  MaxFaults = 1
  Calls <- MCCalls
  Lists <- MCLists
  Share <- MCShare
INVARIANTS TypeOK CliqueWhole AnswersRight InStep
PROPERTY CallsReturn
CHECK_DEADLOCK FALSE
