SPECIFICATION FairSpec
CONSTANTS
  Types = {t1, t2}
  Informers = {i1, i2}
  NoInformer = NoInformer
  Contexts = {background, ctx1}
  Background = background
  Callers = {c1, c2}
INVARIANTS
  TypeOK
  HandlesAreShared
  RunOnce
  QuietAfterShutdown
  SyncErrorHasCause
  FactoryInv
PROPERTIES
  NoStartWhileWaiting CallsReturn
CHECK_DEADLOCK FALSE
