\* A C-style loop whose body continues.
SPECIFICATION Spec
CONSTANTS
  MaxCallDepth = 4
  MaxRegisters = 400
  Families = {"forc_continue"}
PROPERTIES
  EveryScriptEnds
