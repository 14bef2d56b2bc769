SPECIFICATION Spec
CONSTANTS
  None = None
  Contents <- TheContents
  Committed <- TheCommitted
  CrossLayerJoins <- Joins
  CrossLayerBinding <- Bindings
  EvidenceVariants <- TheEvidenceVariants
  MeasurementVariants <- TheMeasurementVariants
  NewPolicyVectors <- NewVectors
  NewDelegationCases <- NewPaths
  MaxEvents = 3
INVARIANTS
  PassedRunIsEarned
  SavedSummariesAreTrue
CHECK_DEADLOCK FALSE
