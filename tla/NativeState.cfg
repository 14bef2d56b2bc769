SPECIFICATION Spec
\* The scripts end.
CHECK_DEADLOCK FALSE
CONSTANTS
  None = None
  Ids = {1, 2, 3, 4}
  Order <- Positions
  ROOTS = 2
  Offset = 1
  DecisionTime = 3
  FarFuture = 9
  Digests = {"d", "other"}
  Corpora <- AllCorpora
  MaxAttempts = 2
  MaxLate = 1
INVARIANTS
  SavedVectorsAppraise
  MutationsAreRejected
  SummariesAreEarned
