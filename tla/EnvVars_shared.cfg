SPECIFICATION Spec
CONSTANTS
  Maps <- AllMaps
  Characters <- Letters
  Sorted <- SortedNames
  OutsideTexts <- UITexts
  Fields = {f1, f2}
  Wiped = Wiped
  Absent = Absent
  Unreadable = Unreadable
  MaxEdits = 3
  MaxFailures = 2
  MaxOutside = 1
INVARIANTS TypeOK BothConverge LeftoversAreReported LegibleMapIsReadBack
PROPERTIES OthersFieldsAreKept
