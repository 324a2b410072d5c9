SPECIFICATION Spec
CONSTANTS
  w1 = w1
  w2 = w2
  mine = mine
  other = other
  Workers = {w1, w2}
  Session = session
  Accounts = {mine, other}
  NoAccount = noAccount
  Requested = mine
  NoJob = noJob
  NonceBound = 1
  MoveBound = 1
  UpsetBound = 1
  Wins <- MCWins
INVARIANT SubmissionsAccounted
INVARIANT AcceptedAreMined
INVARIANT PaysRequested
INVARIANT QuietTeardown
INVARIANT AnnouncedBeforeHashed
INVARIANT Coherent
PROPERTY CurrentWorkKept
PROPERTY WorkSlotSpec
