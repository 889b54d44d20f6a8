SPECIFICATION Spec
CONSTANTS
  Window = 8
  Half = 4
  Enough = 3
  RawHead = 2
  MaxCd = 2
  MaxBlocks = 1
  Inputs <- MCInputs
  Faults = {"read"}
INVARIANTS OkMeansWhole
CHECK_DEADLOCK FALSE
