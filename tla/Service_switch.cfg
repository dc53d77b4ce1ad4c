SPECIFICATION Spec
CONSTANTS
  p = p
  q = q
  Kinds <- OnlyMysql
  First = First
  Other = Other
  Passwords <- MCPasswords
  Empty = Empty
  Generated = Generated
  Theirs = Theirs
  Null = Null
  Unknown = Unknown
  Absent = Absent
  Versioned = FALSE
  MaxEdits = 1
  MaxFailures = 1
  MaxOutside = 0
  Edited = {}
  Disturbed = {}
CHECK_DEADLOCK FALSE
INVARIANTS
  SwitchIsSent
