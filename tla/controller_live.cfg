SPECIFICATION LiveSpec
CONSTANTS
  Templates = {t1, t2}
  Breakable = {t1}
  JobNames = {j1, j2, j3}
  Workers = {w1}
  Results = {}
  Propagations = {"Background"}
  Foreign = {FALSE, TRUE}
  MaxUid = 1
  MaxGen = 3
  MaxDisturbances = 1
PROPERTIES StatusSettles DeletionCompletes SupersededIsReleased
CHECK_DEADLOCK FALSE
