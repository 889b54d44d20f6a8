SPECIFICATION ArchiveSpec
CONSTANTS
  small = small
  noise = noise
  empty = empty
  pk = pk
  pk1 = pk1
  fld = fld
  Blob <- MCBlob
  PakName = {pk, pk1}
  DirName = {fld}
  Real <- MCReal
  Comp <- MCComp
  Paks <- MCPaks
  Cap = 22
  Faults = {}
  MaxEntries = 4
  Chunk = 2
  MaxRequest = 1
  Unusual = {"adjacent_pak"}
INVARIANTS LayoutOK

CHECK_DEADLOCK FALSE
