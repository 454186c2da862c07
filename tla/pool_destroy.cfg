SPECIFICATION Spec
CONSTANTS
  Callers = {c1}
  Tasks = {t1}
  Clients <- Destroys
  Configs <- NoConfigs
  Hardware = 2
  WorkerArgs = {0}
  Lengths = {2}
  Grains = {1}
  SizeMax = 31
  Failures = {}
INVARIANTS PoolOutlivesTasks
