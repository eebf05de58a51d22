SPECIFICATION FairSpec
CONSTANTS
  Kinds = {"timer", "self", "ae"}
  Delays = {1}
  Returns <- SomeReturns
  PerSec = 3
  None = None
  Start = 4
  MaxClock = 6
  MaxTimers = 3
  MaxBack = 1
INVARIANTS TypeOK NotEarly NoneLeft OncePerWalk SleepsNotTooLong
PROPERTIES OthersKeepTime DueIsCalled
CHECK_DEADLOCK FALSE
