SPECIFICATION FairSpec
CONSTANTS
  Callers = {c1, c2}
  Tasks = {t1, t2, t3, t4, t5, t6}
  Clients <- WaitsOrNested
  Configs <- NoConfigs
  Hardware = 2
  WorkerArgs = {0}
  Lengths = {2}
  Grains = {1}
  SizeMax = 31
  Failures = {}
PROPERTIES DestructorWaits WaitsReturn LoopsReturn TaskWaitNeverReturns ImplementsTaskGroup
