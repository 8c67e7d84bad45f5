CONSTANTS
  Parts = {"record", "function", "constant", "name", "config", "message", "buffer", "path", "words", "query", "os"}
  IntBits = 4
  LongBits = 6
  Texts <- MCTexts
  Listings <- MCListings
  ReadSizes = {0, 1, 2}
  SeekOffsets <- MCOffsets
  Disk = 4
  ListDirMax = 2
  MaxCalls = 4
  Unusual = {}
  MaxChildren = 30
  JsonMaxDepth = 2
  MaxContentLength = 22
  DelimStack = 2
SPECIFICATION MCSpec
INVARIANTS MirrorsTheHeader CallsReachC ConfigsAgree OsVerbsAgree TextsArrive
CHECK_DEADLOCK FALSE
