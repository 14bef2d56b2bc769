SPECIFICATION FairSpec
CONSTANTS
  Ages <- CacheAges
INVARIANTS
  VerdictFollowsSchedule
  PlacementOutcomes
  FaultsRecover
PROPERTIES
  ImplementsPromise
  CaseIsDecided
CHECK_DEADLOCK FALSE
