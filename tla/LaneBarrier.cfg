SPECIFICATION Spec
CONSTANTS
  LaneCount = 4
  GenSize = 2
  MaxRounds = 3
PROPERTIES
  ImplementsBarrier
  ImplementsFairBarrier
