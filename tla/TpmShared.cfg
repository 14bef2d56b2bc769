SPECIFICATION Spec
CONSTANTS
  Runs = {r1, r2}
  Handles = {h1, h2}
  Foreign = {}
  Profiles = {"createak"}
  Transactions <- TwoTransactions
  Challenges = {c1, c2}
  Representatives <- NoPlan
  Mutations <- NoPlan
  Free = Free
  Others = Others
  Nothing = Nothing
SYMMETRY Interchangeable
INVARIANTS
  PublishedIsWhole
  PublishedLeavesNothingNew
  EndedRunsAreGone
PROPERTIES
  NeverOverwritten
CHECK_DEADLOCK FALSE
