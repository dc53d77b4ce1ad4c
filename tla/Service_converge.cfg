SPECIFICATION FairSpec
CONSTANTS
  p = p
  q = q
  Kinds <- AllServices
  First = First
  Other = Other
  Passwords <- MCPasswords
  Empty = Empty
  Generated = Generated
  Theirs = Theirs
  Null = Null
  Unknown = Unknown
  Absent = Absent
  Versioned = TRUE
  MaxEdits = 2
  MaxFailures = 1
  MaxOutside = 1
  Edited = {"place", "names", "ops", "env"}
  Disturbed = {"port"}
CHECK_DEADLOCK FALSE
INVARIANTS
  TypeOK
  ApplyConverges
  AppliedChangeIsDeployed
  NeverRefused
PROPERTIES
  SecretsAreKept
  Settles
