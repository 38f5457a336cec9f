\* Any two options given, any value for each.
SPECIFICATION Spec
CONSTANTS
  FixnumMax = 1000
  SizeRange = 2000
  UintRange = 512
  ByteRange = 256
  Lowest = 9
  Biggest = 16
  Numbers <- MCIntegers
  MaxGiven = 2
INVARIANTS
  TypeOK
  OptionsArriveUnchanged
  OnlyBignumsAreRefusedLate
CHECK_DEADLOCK FALSE
