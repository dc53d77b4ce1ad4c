SPECIFICATION Spec
CONSTANTS
  a = a
  b = b
  img = img
  Unset = Unset
  Absent = Absent
  Groups = {"source", "env"}
  ValuesOf <- Values
  Default <- First
  Docker = {img}
  MaxEdits = 1
  MaxFailures = 1
  MaxOutside = 0
CHECK_DEADLOCK FALSE
INVARIANTS
  ChangeIsDeployed
