SPECIFICATION Spec
CONSTANTS
  Creds = {"c"}
  Keys = {"k1", "k2"}
  Instances = {"status_a", "effect_a", "effect_b"}
  NoCall = NoCall
  NoKey = NoKey
  Calls <- RaceCalls
  request <- RaceRequest
  Faults <- RaceFaults
  MaxOutages = 2
INVARIANTS
  NoFalseAllow
  OneDecisionPerKey
  AnswersAreDurable
  LogIsLinear
PROPERTIES
  RevocationIsRespected
  ImplementsPromise
CHECK_DEADLOCK FALSE
