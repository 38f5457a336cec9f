\* Both values of :gvl; no symmetry, because of the liveness properties.
SPECIFICATION SharedSpec
CONSTANTS
  t1 = t1
  t2 = t2
  b1 = b1
  b2 = b2
  NULL = NULL
  Nobody = Nobody
  Threads <- MCThreads
  Blocks <- MCBlocks
  GvlOptions = {TRUE, FALSE}
  BufferLengths = {1}
  DefaultBufferLength = 1
  MaxSource = 1
  MaxConsumed = 1
  MaxUnit = 1
  MaxYield = 1
  MaxTail = 0
  HeaderLengths = {0}
PROPERTIES
  ImplementsCompressor
  LibraryIsAlone
  GvlStopsOthers
  OthersRun
CHECK_DEADLOCK FALSE
