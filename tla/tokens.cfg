SPECIFICATION FairSpec
CONSTANTS
  Callers = {c1, c2}
  MaxRefresh = 2
  MaxTime = 5
  Timeout = 2
  Margin = 2
  Ttls = {1, 2, 3}
CHECK_DEADLOCK FALSE
INVARIANTS
  SingleFlight
  CachedTokensAreLive
PROPERTIES
  EveryWaiterIsAnswered
