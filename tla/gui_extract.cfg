\* two files, one shorter than a buffer; two operations one after the other
CONSTANTS
  Sizes <- MCSizes
  BufSize = 2
  MaxPiece = 5
  Producers = {1, 2}
  Main = 0
  MaxJobs = 2
SPECIFICATION Spec
INVARIANTS
  OneInCodec
  StreamsWhole
  WholeFiles
PROPERTY
  ReadsReturn
\* the program may end, and a drag may stay where an abort left it
CHECK_DEADLOCK FALSE
