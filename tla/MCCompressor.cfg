\* Threads lock the object; both values of :gvl.
SPECIFICATION Spec
CONSTANTS
  t1 = t1
  t2 = t2
  b1 = b1
  b2 = b2
  NULL = NULL
  Threads <- MCThreads
  Blocks <- MCBlocks
  GvlOptions = {TRUE, FALSE}
  BufferLengths = {0, 2}
  DefaultBufferLength = 3
  MaxSource = 2
  MaxConsumed = 2
  MaxUnit = 2
  MaxYield = 2
  MaxTail = 1
  HeaderLengths = {0, 2}
INVARIANTS
  TypeOK
  Ownership
  CallOwnsObject
  DeliveredInOrder
  NothingLost
  CallerKnowsBytesTaken
PROPERTIES
  ClosedForGood
  ImplementsOutputBuffer
SYMMETRY Symmetry
CHECK_DEADLOCK FALSE
