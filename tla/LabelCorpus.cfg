SPECIFICATION CorpusSpec
CONSTANTS
  Principals = {"anton", "agent1", "agent2", "agent3", "intruder"}
  Roles = {"owner", "planner", "broker", "executor", "invalid"}
  Items = {"READ", "invoice", "read", "write", "ledger", "audit", "main", "other", "out-of-scope"}
  Currencies = {"EUR", "USD"}
  base <- Base
  EffectTime = 2
  None = None
  Profiles = {"profile"}
  Digests = {"d", "out-of-scope"}
  Nonces = {"fresh", "seen"}
  Anchor <- AnchoredPolicy
  DecisionTime = 3
  PreseenNonces = {"seen"}
  Bases <- PassingBases
  Source <- Sources
  Point <- Points
  Lcb <- Quantiles
  Threshold = 3
  Corpora <- AllCorpora
INVARIANTS
  FaultsStayInTheirLayer
  ComparisonsPass
