\* the archives of ListViewMC; up to MaxChanges times a name changes, names are
\* added, or what is selected is deleted
CONSTANTS
  Archives <- MCArchives
  Names <- MCNames
  Additions <- MCAdditions
  Sorts = {0, 2, 6, 8}
  MaxEntries = 5
  MaxChanges = 1
SPECIFICATION Spec
CONSTRAINT Oriented
INVARIANTS
  RowsInOrder
  ShowsDirectory
  ControlAgrees
  DeletesWhatIsShown
  ExtractsOnce
