---------------------------- MODULE MCSharedCompressor ----------------------------
(* Small instances of SharedCompressor: two threads, two addresses.        *)
EXTENDS SharedCompressor

CONSTANTS t1, t2, b1, b2

MCThreads == {t1, t2}
MCBlocks == {b1, b2}
================================================================================
