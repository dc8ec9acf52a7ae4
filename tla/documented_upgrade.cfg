SPECIFICATION AnnotatedSpec
CONSTANTS
  Templates = {t1}
  Breakable = {}
  JobNames = {j1, j2, j3}
  Workers = {w1}
  Results = {}
  Propagations = {}
  Foreign = {FALSE}
  MaxUid = 1
  MaxGen = 1
  MaxDisturbances = 0
  MaxMisreadings = 1
INVARIANT UpgradeRerunsOnce
CHECK_DEADLOCK FALSE
