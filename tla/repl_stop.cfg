SPECIFICATION FairSpec
CONSTANTS
  Lines <- MCLines
  Scripts <- MCScripts
  SaveFiles = {"s"}
  MaxDepth = 3
  Editors <- MCEditors
  MaxActions = 3
PROPERTY StopEndsScript
CHECK_DEADLOCK FALSE
