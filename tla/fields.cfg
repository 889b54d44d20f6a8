SPECIFICATION Spec
CONSTANTS
  Los <- MCLos
  His <- MCHis
  Shorts <- MCShorts
  Coordinates <- MCCoordinates
  Drift = 200000
INVARIANTS
  FieldTypeOK
  MemoriesAgree
  MessagesComeBack
CHECK_DEADLOCK FALSE
