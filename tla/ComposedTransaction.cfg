SPECIFICATION TransactionSpec
CONSTANTS
  Principals = {"anton", "agent1", "agent2", "agent3", "agent4", "intruder"}
  Roles = {"owner", "planner", "broker", "executor", "producer"}
  Items = {"READ", "LIST", "WRITE", "invoice", "other", "secret", "read", "write", "export",
           "ledger", "audit", "main"}
  Currencies = {"EUR", "USD"}
  base <- Base
  EffectTime = 2
  Cases <- AllPaths
  None = None
  Profiles = {"profile", "altered"}
  Digests = {"d", "e"}
  Nonces = {"fresh", "seen"}
  Anchor <- AnchoredPolicy
  DecisionTime = 3
  PreseenNonces = {"seen"}
  Transactions <- Varied
INVARIANTS
  FirstViolation
  AuthorityNeverWidens
  SubjectIsReached
  TwinAgrees
  JointlyAuthorised
  DenialIsLocalised
  BaselinesAreExplained
  LabelsAreTheRules
CHECK_DEADLOCK FALSE
