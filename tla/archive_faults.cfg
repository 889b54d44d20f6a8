SPECIFICATION ArchiveSpec
CONSTANTS
  small = small
  noise = noise
  empty = empty
  pk = pk
  pk1 = pk1
  fld = fld
  Blob <- FewBlob
  PakName = {pk}
  DirName = {fld}
  Real <- FewReal
  Comp <- FewComp
  Paks <- FewPaks
  Cap = 6
  Faults = {"read", "late_read", "write", "short_store", "short_tail", "copy", "directory"}
  MaxEntries = 2
  Chunk = 2
  MaxRequest = 1
  Unusual = {}
INVARIANTS LayoutOK FileMatchesDirectory PakRealOK
PROPERTIES ContentsSpec
CONSTRAINT Undamaged
CHECK_DEADLOCK FALSE
