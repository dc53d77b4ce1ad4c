SPECIFICATION Spec
CONSTANTS
  MaxApplies <- MCApplies
  MaxOutside <- MCOutside
  CommitPoint = "between_polls"
  HistoryMayFail = FALSE
  Overlap = FALSE
CHECK_DEADLOCK FALSE
INVARIANT GateIsCausal
PROPERTY ImplementsDeployment
