SPECIFICATION MemorySpec
CONSTANTS
  Templates = {}
  JobNames = {}
  Clients = {c1}
  UserLabels = {"app"}
  Outcomes = {"Ready", "Error"}
  MaxVersion = 3
INVARIANTS MemoryTypeOK TemplateIsTheUsers HashIsOfTheSpec CacheIsFaithful MemoryInv
PROPERTY OnlyUsersTakeAway
CHECK_DEADLOCK FALSE
