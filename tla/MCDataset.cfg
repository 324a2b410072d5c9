SPECIFICATION FairSpec
CONSTANTS
  w1 = w1
  w2 = w2
  d1 = d1
  d2 = d2
  Workers = {w1, w2}
  Seeds = {s1, s2, s3}
  NoSeed = noSeed
  Datasets = {d1, d2}
  NoDataset = noDataset
  SeedBound = 2
  UpsetBound = 2
INVARIANT OneDataset
INVARIANT EngineMatchesKey
INVARIANT NoIdleDataset
PROPERTY FastAgain
