SPECIFICATION Spec
CONSTANTS
  Templates = {t1, t2}
  Breakable = {t1, t2}
  JobNames = {j1, j2}
  Workers = {w1}
  Results = {"failed","complete"}
  Propagations = {"Background", "Foreground"}
  Foreign = {FALSE, TRUE}
  MaxUid = 2
  MaxGen = 1
  MaxDisturbances = 2
SYMMETRY Symmetry
INVARIANTS TypeOK AtMostOneRun NoOrphan SingleInv
PROPERTY ImplementsPromise
CHECK_DEADLOCK FALSE
