SPECIFICATION Spec
CONSTANTS
  a = a
  b = b
  img = img
  Unset = Unset
  Absent = Absent
  Groups = {"place", "meta", "net", "source", "watch", "build", "env"}
  ValuesOf <- Values
  Default <- First
  Docker = {img}
  MaxEdits = 2
  MaxFailures = 2
  MaxOutside = 1
CHECK_DEADLOCK FALSE
INVARIANTS
  TypeOK
  StateIsHonest
  AppliedChangeIsDeployed
PROPERTY ImplementsReconcile
