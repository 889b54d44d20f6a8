SPECIFICATION Spec
CONSTANTS
  MaxEnt = 2
  MaxOld = 2
  Xs <- MCXs
  Leftovers <- MCLeftovers
  Signon = TRUE
INVARIANTS
  EntityTypeOK
  TablesAgree
  RecordsMeetActives
  DemoComesBack
  NothingMissing
CHECK_DEADLOCK FALSE
