SPECIFICATION FairSpec
CONSTANTS
  MaxApplies <- MCApplies
  MaxOutside <- MCOutside
  CommitPoint = "before_response"
  HistoryMayFail = TRUE
  Overlap = FALSE
CHECK_DEADLOCK FALSE
INVARIANTS
  TypeOK
  SuccessIsCausal
  ErrorIsCausal
  HistoryReadAtMostTwice
PROPERTIES
  WaitEnds
