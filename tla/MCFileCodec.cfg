\* Several calls on one IO; any write may fail, fflush too.
SPECIFICATION Spec
CONSTANTS
  StdioCapacity = 2
  FlushCanFail = TRUE
  MaxWritten = 4
INVARIANTS
  PromisedIsOnDisk
  WriteFailureIsTold
PROPERTIES
  ImplementsDestination
