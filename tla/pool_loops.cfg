SPECIFICATION Spec
CONSTANTS
  Callers = {c1, c2}
  Tasks = {t1, t2, t3, t4, t5, t6}
  Clients <- Loops
  Configs <- MCConfigs
  Hardware = 2
  WorkerArgs = {0, 4}
  Lengths = {0, 3}
  Grains = {0, 1, 31}
  SizeMax = 31
  Failures = {"body", "async"}
SYMMETRY CallerSymmetry
INVARIANTS TypeOK InFlightExact LoopsSound LimitsKept
