SPECIFICATION FairManagerSpec
CONSTANTS
  Templates = {t1}
  Breakable = {}
  JobNames = {j1}
  Workers = {w1, w2}
  Results = {"complete"}
  Propagations = {"Background"}
  Foreign = {FALSE}
  MaxUid = 1
  MaxGen = 2
  MaxDisturbances = 1
PROPERTY StatusSettles
CHECK_DEADLOCK FALSE
