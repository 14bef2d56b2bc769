SPECIFICATION Spec
CONSTANTS
  Trials = 1
  Ages <- CacheAges
INVARIANTS
  RacesAreExplained
  VerdictIgnoresRaces
PROPERTIES
  ImplementsPromise
CHECK_DEADLOCK FALSE
