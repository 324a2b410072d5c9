SPECIFICATION FairSpec
CONSTANTS
  w1 = w1
  w2 = w2
  a = a
  b = b
  Workers = {w1, w2}
  Session = session
  Work = {a}
  NoJob = noJob
  NoShare = noShare
  ConnBound = 2
  PushBound = 2
  ShareBound = 2
  UpsetBound = 1
INVARIANT TypeOK
INVARIANT PendingAccounts
INVARIANT AnswersAccounted
INVARIANT WorkIsLive
PROPERTY WorkSlotSpec
PROPERTY WorkersFollow
