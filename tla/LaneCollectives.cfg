SPECIFICATION Spec
CONSTANTS
  LaneCount = 3
  ProgramLength = 2
INVARIANTS
  CollectivesCorrect
  NoBufferRace
PROPERTY
  AllReturn
