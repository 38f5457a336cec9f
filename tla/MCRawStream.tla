------------------------------- MODULE MCRawStream -------------------------------
(* Small instances of RawStream.                                           *)
EXTENDS RawStream
================================================================================
