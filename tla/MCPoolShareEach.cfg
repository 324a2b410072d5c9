SPECIFICATION Spec
CONSTANTS
  w1 = w1
  w2 = w2
  a = a
  b = b
  Workers = {w1, w2}
  Session = session
  Work = {a}
  NoJob = noJob
  NoShare = noShare
  ConnBound = 1
  PushBound = 2
  ShareBound = 3
  UpsetBound = 0
INVARIANT OneShareEach
