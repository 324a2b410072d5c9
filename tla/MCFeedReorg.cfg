SPECIFICATION FairSpec
CONSTANTS
  RecentDepth = 3
  MaxFetch = 1
  MaxGap = 1
  MaxReported = 3
  MaxSealed = 1
  StartHeight = 3
  BlockBound = 5
  OwnBound = 0
  FailBound = 0
PROPERTY ReorgCorrected
