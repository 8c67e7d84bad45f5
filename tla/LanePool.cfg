SPECIFICATION Spec
CONSTANTS
  Cores = 4
  MaxPhases = 3
  Timeouts = TRUE
INVARIANTS
  BodyUsesLiveCaptures
  NoLostWakeup
PROPERTIES
  ImplementsForkJoin
  ImplementsFairForkJoin
  ShutdownEnds
