SPECIFICATION FairSpec
CONSTANTS
  RecentDepth = 2
  MaxFetch = 1
  MaxGap = 2
  MaxReported = 2
  MaxSealed = 1
  StartHeight = 2
  BlockBound = 7
  OwnBound = 1
  FailBound = 1
INVARIANT NoSilentBlock
INVARIANT AnnouncedOnce
INVARIANT YoursIsOurs
INVARIANT WatchKnowsCache
PROPERTY StripFills
