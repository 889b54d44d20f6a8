SPECIFICATION ArchiveSpec
CONSTANTS
  small = small
  noise = noise
  empty = empty
  pk = pk
  pk1 = pk1
  fld = fld
  Blob <- MCBlob
  PakName = {pk, pk1}
  DirName = {fld}
  Real <- MCReal
  Comp <- MCComp
  Paks <- MCPaks
  Cap = 22
  Faults = {}
  MaxEntries = 5
  Chunk = 2
  MaxRequest = 2
  Unusual = {}
INVARIANTS EntriesReadable LayoutOK PakRealOK GapSafe WalkReadable
PROPERTIES DeletesWhatWasAsked
CONSTRAINT Undamaged
CHECK_DEADLOCK FALSE
