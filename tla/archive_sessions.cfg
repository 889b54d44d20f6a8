SPECIFICATION ArchiveSpec
CONSTANTS
  small = small
  noise = noise
  empty = empty
  pk = pk
  pk1 = pk1
  fld = fld
  Blob <- MCBlob
  PakName = {pk, pk1}
  DirName = {fld}
  Real <- MCReal
  Comp <- MCComp
  Paks <- MCPaks
  Cap = 22
  Faults = {"read", "write", "abort", "directory"}
  MaxEntries = 4
  Chunk = 2
  MaxRequest = 2
  Unusual = {}
INVARIANTS AddTypeOK DeleteTypeOK EntriesReadable PositionsAgree LayoutOK FileMatchesDirectory
PROPERTIES StreamsKept ContentsSpec
CONSTRAINT Undamaged
CHECK_DEADLOCK FALSE
