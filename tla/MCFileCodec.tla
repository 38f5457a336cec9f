------------------------------- MODULE MCFileCodec -------------------------------
(* Small instances of FileCodec.                                           *)
EXTENDS FileCodec
================================================================================
