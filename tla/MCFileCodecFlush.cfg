\* The same; what the comment about fflush asks for.
SPECIFICATION Spec
CONSTANTS
  StdioCapacity = 2
  FlushCanFail = TRUE
  MaxWritten = 4
INVARIANTS
  ReturnedIsOnDisk
