SPECIFICATION Spec
CONSTANTS
  Los <- MCLos
  His <- MCNegativeHis
  Shorts <- MCShorts
  Coordinates <- MCCoordinates
  Drift = 200000
INVARIANT
  MessagesComeBack
CHECK_DEADLOCK FALSE
