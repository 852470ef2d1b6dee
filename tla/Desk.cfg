SPECIFICATION MCSpec
CONSTANTS
  Parts = {"session", "calibration", "command", "keys", "hardware"}
  Models = {m1, m2}
  NoModel = NoModel
  MaxExchanges = 2
  MaxSessions = 2
  MaxInstalls = 1
  MaxEdits = 1
  MaxRestarts = 1
  MaxFailures = 1
  MaxEvents = 2
  Runners = {a, b}
  Paths = {x, y}
  Layers = 1
  PerLayer = 2
  MaxRuns = 2
  MaxFaults = 1
  Sizes = {"7b", "14b"}
  Quants = {"q4", "q8"}
  Tokens = 2
  MaxOps = 3
  HubFiles <- MCHubFiles
  References <- MCReferences
  OllamaLists <- MCOllamaLists
  CommandTable <- MCCommandTable
  ProjectFiles <- MCProjectFiles
  EditorTexts <- MCEditorTexts
  Letters = {"a", "b"}
  MaxText = 3
  MaxKeys = 7
INVARIANTS
  DeskTypeOK NothingForgotten ScreenHonest CalibrationSound CommandsHonest
  EnterMeansTheScreen MachineProfiled
PROPERTY UndoRollsBackOneExchange
SYMMETRY DeskSymmetry
CHECK_DEADLOCK FALSE
