SPECIFICATION Spec
CONSTANTS
  UnixWindows = {g1, g2}
  WindowsWindows = {g1}
  MaxFiles = 3
  MaxFaults = 1
  MaxCrashes = 1
  Total = 8
  Readings = {2, 5, 6}
  DatasetUnits = 3
  LightUnits = 1
  WorkerUnits = 1
  MinHeadroom = 1
  MaxHeadroom = 2
  MaxWorkers = 2
  Operators = {g1}
  Retained = 3
  MaxLogs = 8
  Verbose = TRUE
CHECK_DEADLOCK FALSE
INVARIANTS SettingsKept PreflightSound LogsKept
PROPERTIES ScansAnswer
