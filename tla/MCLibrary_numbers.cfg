CONSTANTS
  Parts = {"number"}
  TextLength = 4
  MaxChildren = 30
  Width = 14
  Hang = 2
  Templates = {"fn", "struct", "enum", "let", "priv", "if"}
  Fillings = {"sp", "nl", "behind", "line"}
  NumberSymbols = {"0", "1", "3", "9", "-", "+", "x"}
  NumberLength = 4
  Numerals <- MCNumerals
  Limit64 = 32
  Limit32 = 8
  MaxDigits = 3
  Sizes = {0, 1, 3, 6}
  Aligns = {1, 4}
  PageSize = 4
  Reserve = 10
  BlockSize = 5
  BlockAlign = 4
  MaxLive = 3
  MaxScopes = 2
  MaxBlocks = 3
  Keys = {a, b, c}
  Values = {v1, v2}
  NoValue = NoValue
  Hashes = {0, 5, 7}
  InitCapacity = 2
  Capacity = 8
  PoolCapacity = 4
  GenSize = 3
  PoolValues = {zero, some}
  ZeroObject = zero
  MaxFrees = 2
  Cores = 4
  MaxItems = 6
SPECIFICATION Spec
INVARIANT NumbersFit
