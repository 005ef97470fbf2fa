\* Ships that move over the field and its borders.
SPECIFICATION Spec
CONSTANTS
  Ids = {i1, i2, i3, i4}
  Absent = Absent
  Field = 4
  NbItems = 2
  Half = 1
  Starts <- LeftStarts
  Steps <- AllSteps
  Reach = 1
SYMMETRY Ships
INVARIANTS
  TypeOK
  Canonical
  FoundWhereItIs
  NeverCrashes
CHECK_DEADLOCK FALSE
