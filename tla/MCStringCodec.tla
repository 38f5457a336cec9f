------------------------------ MODULE MCStringCodec ------------------------------
(* Small instances of StringCodec.                                         *)
EXTENDS StringCodec
================================================================================
