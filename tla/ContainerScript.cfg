SPECIFICATION FairSpec
CONSTANTS
  Creds = {"c"}
  Keys = {"k1", "k2"}
  Instances = {"status_a", "effect_a", "effect_b"}
  NoCall = NoCall
  NoKey = NoKey
  Calls <- ScriptCalls
  request <- ScriptRequest
  Faults <- ScriptFaults
  MaxOutages = 0
INVARIANTS
  FaultsAreRecovered
PROPERTIES
  EveryKeyIsAnswered
CHECK_DEADLOCK FALSE
