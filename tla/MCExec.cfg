\* Every family of programs: loops left by every jump, arithmetic, values, growable arrays, calls, caches,
\* nesting, types that meet, shorthands and malformed forms.
SPECIFICATION Spec
CONSTANTS
  MaxCallDepth = 4
  MaxRegisters = 400
  Families = {"loops", "arith", "values", "vectors", "calls", "cache", "paths", "uses", "shorthand", "malformed"}
INVARIANTS
  BackendsAgree
  ScratchBalanced
  RunsWhatWasCompiled
PROPERTIES
  AcceptsTheLegal
  EveryScriptEnds
