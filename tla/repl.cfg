SPECIFICATION FairSpec
CONSTANTS
  Lines <- MCLines
  Scripts <- MCScripts
  SaveFiles = {"s"}
  MaxDepth = 3
  Editors <- MCEditors
  MaxActions = 3
INVARIANTS TypeOK OneNameOneValue ScriptsNest OneCommandUnderWay PanelsCurrent
PROPERTIES LoadAllOrNothing BusyEnds
CHECK_DEADLOCK FALSE
