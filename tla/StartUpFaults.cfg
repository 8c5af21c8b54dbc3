\* Two replicas of Tracking.API start, one of them again after a crash; the server goes down twice.
CONSTANTS
  Replicas = {t1, t2}
  Calls <- MCCalls
  Retries <- MCRetries
  MovedAfter = 3
  MaxOutages = 2
  MaxStarts = 3
SPECIFICATION FairSpec
INVARIANTS TypeOK ServingIsReady
PROPERTY EveryStartEnds
CHECK_DEADLOCK FALSE
