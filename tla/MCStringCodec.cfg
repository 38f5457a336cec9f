\* Buffers below, at and above the largest unit of the library.
SPECIFICATION Spec
CONSTANTS
  BufferLengths = {0, 1, 2}
  DefaultBufferLength = 3
  MaxSource = 3
  MaxUnit = 2
  MaxYield = 2
  MaxTail = 2
  HeaderLengths = {0, 2}
INVARIANTS
  TypeOK
  RoomIsInString
  OutputKept
  ResultIsComplete
  NotEnoughIsExact
  StateFreed
PROPERTIES
  PassesComeToAnEnd
  Terminates
  ImplementsConversion
