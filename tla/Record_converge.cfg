SPECIFICATION Spec
CONSTANTS
  a = a
  b = b
  s1 = s1
  s2 = s2
  Kinds <- AllKinds
  Values <- MCValues
  Secrets <- MCSecrets
  Theirs = Theirs
  Default = Default
  Other = Other
  Unset = Unset
  Null = Null
  Mask = Mask
  Absent = Absent
  MaxEdits = 2
  MaxFailures = 2
  MaxOutside = 1
SYMMETRY Symmetry
CHECK_DEADLOCK FALSE
INVARIANTS
  TypeOK
  ApplyConverges
  ConsistentResult
  CompanionKeptOut
  CreatedIsRecorded
PROPERTIES
  CheckedWrites
