SPECIFICATION Spec
CONSTANTS
  Timeout = 3
  Resolving = 4
  MaxAddresses = 2
  Request = 2
  MaxHeader = 4
  MaxBody = 1
  Cap = 3
  Mark = 1
  Replaced = 2
  MaxWritten = 6
  Base = 4
  Width = 4
  Word = 8192
  NonceSize = 2
  MaxBlob = 4
  KeySize = 2
  MinAccount = 2
  MaxAccount = 4
  U64 = 8
  Rates = {1, 2}
  Counts = {0, 1, 3, 7}
  MaxBuckets = 3
  MaxTiles = 1
  MaxBacklog = 3
  MaxSamples = 3
  TrendWindow = 3
  TrendSpan = 2
  MaxTime = 5
  MaxSessions = 2
  MaxBars = 3
CHECK_DEADLOCK FALSE
INVARIANTS CallSound StreamsWhole JobSound PanelsTrue
PROPERTIES CallEnds
