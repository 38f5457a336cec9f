\* Buffers below, at and above the largest unit of the library.
SPECIFICATION Spec
CONSTANTS
  Capacities = {1, 2, 3}
  MaxSource = 2
  MaxConsumed = 2
  MaxUnit = 2
  MaxYield = 2
  MaxTail = 1
  HeaderLengths = {0, 2}
INVARIANTS
  TypeOK
  ReceivedInOrder
  NothingLeftBehind
  NotEnoughIsExact
PROPERTIES
  StepsComeToAnEnd
  CallsEnd
  ImplementsConversion
CHECK_DEADLOCK FALSE
