SPECIFICATION ArchiveSpec
CONSTANTS
  small = small
  noise = noise
  empty = empty
  pk = pk
  pk1 = pk1
  fld = fld
  Blob <- MCBlob
  PakName = {pk, pk1}
  DirName = {fld}
  Real <- MCReal
  Comp <- MCComp
  Paks <- MCPaks
  Cap = 16
  Faults = {"late_read"}
  MaxEntries = 2
  Chunk = 2
  MaxRequest = 1
  Unusual = {}
INVARIANTS EntriesReadable

CHECK_DEADLOCK FALSE
