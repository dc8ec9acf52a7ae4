SPECIFICATION FairAnnotatedSpec
CONSTANTS
  Templates = {t1, t2}
  Breakable = {}
  JobNames = {j1, j2, j3}
  Workers = {w1}
  Results = {}
  Propagations = {"Background"}
  Foreign = {FALSE}
  MaxUid = 1
  MaxGen = 2
  MaxDisturbances = 0
  MaxMisreadings = 1
INVARIANTS NewestGenerationIsKept AnnotatedInv
PROPERTIES ReconcilesUntilMisread SettlesOnceReadable DeletesOnceReadable
CHECK_DEADLOCK FALSE
