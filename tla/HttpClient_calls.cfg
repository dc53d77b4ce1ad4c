SPECIFICATION FairSpec
CONSTANTS
  RetryAttempts <- MCRetryAttempts
  MaxCalls <- MCCalls
  MaxRecords <- MCRecords
CHECK_DEADLOCK FALSE
INVARIANTS
  TypeOK
  OrphansAreReported
  ContentIsOwn
PROPERTIES
  ForgottenOnlyWhenGone
  CallReturns
