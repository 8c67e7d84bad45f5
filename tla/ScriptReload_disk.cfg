SPECIFICATION SafeSpec
CONSTANTS
  Stems = {a}
  Contents = {A, B, X}
  Compiles = {A, B}
  Absent = Absent
  Torn = Torn
  Short = Short
  Windows = TRUE
  MaxSlots = 2
  MaxEdits = 2
  MaxCrashes = 1
INVARIANT
  OldCacheStays
