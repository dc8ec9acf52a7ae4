SPECIFICATION Spec
CONSTANTS
  Templates = {t1, t2}
  Breakable = {}
  JobNames = {j1, j2, j3}
  Workers = {w1}
  Results = {}
  Propagations = {"Background"}
  Foreign = {FALSE}
  MaxUid = 1
  MaxGen = 3
  MaxDisturbances = 2
SYMMETRY Symmetry
INVARIANTS NoRedundantRun AcknowledgedIsLaunched NewestIsKept SingleInv
PROPERTIES CurrentNeverRegresses ImplementsPromise
CHECK_DEADLOCK FALSE
