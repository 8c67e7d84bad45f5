CONSTANTS
  Dirs <- MCDirs
  Bases <- MCBases
  DirName <- MCDirName
  SubDir <- MCSubDir
  Embedded <- MCEmbedded
  Texts <- MCTexts
  Compile <- compile_all_packages
  CutAt <- MCCutAt
  Editable <- MCEditable
  Disks <- MCDisks
  Workspace <- MCWorkspace
  MaxForms = 3
  NoDir = "none"
  NoFile = "none"
  BadImport = "bad"
  Requests = {"textDocument/hover", "textDocument/definition", "textDocument/completion", "textDocument/documentSymbol", "textDocument/formatting", "workspace/symbol", "shutdown", "textDocument/rename"}
  MaxInbox = 1
  MaxOpen = 2
  MaxWrites = 1
  Upwards <- MCUpwards
  Starts <- MCDisks
  Manifests <- MCManifests
  Edits <- MCEdits
  CSources = {"x", "lib"}
  MaxEdits = 2
  MaxCommands = 2
  Known <- MCKnown
  OsVerbs <- MCOsVerbs
  HostTables <- MCHostTables
  HostEntries <- MCHostEntries
  MaxScriptSteps = 4
SPECIFICATION MCSpec
INVARIANTS
  NoGhostDiagnostics
  EditorAndBuildAgree
  RunsWhatItBuilt
  ScriptCallsArrive
PROPERTY
  EveryRequestAnswered
CHECK_DEADLOCK FALSE
