-------------------------------- MODULE MCOptions --------------------------------
(* Small instances of Options: integers around every border.               *)
EXTENDS Options

MCIntegers ==
  {-1, 0, 1, 2, Lowest - 1, Lowest, Biggest, Biggest + 1, ByteRange + Lowest,
   UintRange + Lowest, FixnumMax, FixnumMax + 1}
================================================================================
