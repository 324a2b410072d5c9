SPECIFICATION FairSpec
CONSTANTS
  e1 = e1
  e2 = e2
  Engines = {e1, e2}
  NoEngine = noEngine
  NoCode = noCode
  MaxRestarts = 1
  QueueCapacity = 1
  FrameBudget = 1
  Platforms = {"unix", "windows"}
CHECK_DEADLOCK FALSE
INVARIANTS HoldsWhatIs
PROPERTIES EndIsTold LeaseSpec ComesToAnEnd
