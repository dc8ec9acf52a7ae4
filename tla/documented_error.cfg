SPECIFICATION Spec
CONSTANTS
  Templates = {t1, t2}
  Breakable = {}
  JobNames = {j1, j2}
  Workers = {w1}
  Results = {"failed", "complete"}
  Propagations = {}
  Foreign = {FALSE}
  MaxUid = 1
  MaxGen = 2
  MaxDisturbances = 0
INVARIANT ErrorMeansJobFailed
CHECK_DEADLOCK FALSE
