SPECIFICATION FairSpec
CONSTANTS
  w1 = w1
  w2 = w2
  a = a
  Session = session
  Ids = {a}
  Nothing = nothing
  Scopes <- MCScopes
CHECK_DEADLOCK FALSE
INVARIANTS DashboardTrue
PROPERTIES CatchesUp
