SPECIFICATION FairSpec
CONSTANTS
  Scripts <- LifetimeScripts
  WriteCap = 1
  IoSem = 2
  Ending <- EndingScripts
CHECK_DEADLOCK FALSE
INVARIANTS TypeOK DispatchedInOrder PendingFirst ResultPerWaiter
PROPERTIES ReturnsWhenCancelled EveryRequestAnswered
