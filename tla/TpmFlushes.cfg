SPECIFICATION Spec
CONSTANTS
  Runs = {r1}
  Handles = {h1, h2, h3}
  Foreign = {h1}
  Profiles = {"createak", "create-load"}
  Transactions <- ThreeTransactions
  Challenges = {c1, c2, c3}
  Representatives <- BothEnds
  Mutations <- WholePlan
  Free = Free
  Others = Others
  Nothing = Nothing
INVARIANTS
  ContextsAreFlushed
CHECK_DEADLOCK FALSE
