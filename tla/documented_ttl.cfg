SPECIFICATION TTLSpec
CONSTANTS
  Templates = {t1, t2}
  Breakable = {t1}
  JobNames = {j1, j2, j3}
  Workers = {w1}
  Results = {"complete"}
  Propagations = {"Background"}
  Foreign = {FALSE}
  MaxUid = 1
  MaxGen = 3
  MaxDisturbances = 1
PROPERTY OldJobsExpire
CHECK_DEADLOCK FALSE
