SPECIFICATION Spec
CONSTANTS
  MaxApplies <- MCApplies
  MaxOutside <- MCOutside
  CommitPoint = "any_time"
  HistoryMayFail = FALSE
  Overlap = FALSE
CHECK_DEADLOCK FALSE
INVARIANTS
  SuccessIsCausal
