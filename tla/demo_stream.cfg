SPECIFICATION Spec
CONSTANTS
  Window = 8
  Half = 4
  Enough = 3
  RawHead = 2
  MaxCd = 2
  MaxBlocks = 5
  Inputs <- MCInputs
  Faults = {"read", "abort"}
INVARIANTS ChecksumCoversFile BlocksMetWhole OutputIsPrefix IntactStreamsPass
PROPERTIES Finishes
CHECK_DEADLOCK FALSE
