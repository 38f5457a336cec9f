------------------------------ MODULE MCCompressor ------------------------------
(* Small instances of Compressor: two threads, two addresses.              *)
EXTENDS Compressor, TLC

CONSTANTS t1, t2, b1, b2

MCThreads == {t1, t2}
MCBlocks == {b1, b2}
Symmetry == Permutations(MCThreads) \cup Permutations(MCBlocks)
================================================================================
