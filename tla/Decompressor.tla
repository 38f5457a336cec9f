------------------------------ MODULE Decompressor ------------------------------
(***************************************************************************)
(* LZWS::Stream::NativeDecompressor, ext/lzws_ext/stream/decompressor.c:   *)
(* the common object of NativeStream with the method read.  There is no    *)
(* finish.  An error of the library (bad header or code length, corrupted  *)
(* source, anything else) is raised as ValidateError,                      *)
(* DecompressorCorruptedSourceError or UnexpectedError: here, "failed".    *)
(***************************************************************************)
EXTENDS NativeStream

(* lzws_ext_allocate_decompressor leaves gvl to Data_Make_Struct, which    *)
(* fills the struct with zeros.                                            *)
DecompressorInit == Init

(* lzws_ext_initialize_decompressor.                                       *)
InitializeDecompressor == InitialStateRaises \/ CreateBufferRaises \/ Initialize

(* read: lzws_ext_decompress.                                              *)
Read(t) ==
  /\ MayCall(t)
  /\ Open
  /\ \E source \in 0 .. MaxSource :
       /\ library.consumed + source <= MaxConsumed   \* bound
       /\ \/ ReleaseGvl(t, "read", source)
          \/ CallUnderGvl("read", source,
                          DecompressAnswers(library, source, Room))

RunDecompress(t) ==
  RunWithoutGvl(t, "read",
                DecompressAnswers(library, call[t].remaining_source_length, Room))

(* read_result: lzws_ext_decompressor_read_result.                         *)
DecompressorReadResult(t) == ReadResult(t) \/ ReadResultRaises(t)

(* close: lzws_ext_decompressor_close.                                     *)
DecompressorClose(t) == Close(t)

(* free_decompressor.                                                      *)
CollectDecompressor == Collect

Next ==
  \/ InitializeDecompressor
  \/ CollectDecompressor
  \/ \E t \in Threads :
       \/ Read(t) \/ RunDecompress(t)
       \/ Return(t) \/ Interrupt(t)
       \/ DecompressorReadResult(t)
       \/ DecompressorClose(t)

Spec == DecompressorInit /\ [][Next]_vars
================================================================================
