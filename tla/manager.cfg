SPECIFICATION ManagerSpec
CONSTANTS
  Templates = {t1, t2}
  Breakable = {}
  JobNames = {j1, j2}
  Workers = {w1, w2}
  Results = {"complete"}
  Propagations = {"Background"}
  Foreign = {FALSE}
  MaxUid = 1
  MaxGen = 2
  MaxDisturbances = 1
SYMMETRY Symmetry
INVARIANTS ManagerTypeOK OnlyOneActive ManagerInv
PROPERTY ImplementsSingleWorker
CHECK_DEADLOCK FALSE
