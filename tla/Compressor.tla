------------------------------- MODULE Compressor -------------------------------
(***************************************************************************)
(* LZWS::Stream::NativeCompressor, ext/lzws_ext/stream/compressor.c: the   *)
(* common object of NativeStream with the methods write and finish.        *)
(***************************************************************************)
EXTENDS NativeStream

(* write: lzws_ext_compress.                                               *)
WriteMethod(t) ==
  /\ Open
  /\ \E source \in 0 .. MaxSource :
       /\ library.consumed + source <= MaxConsumed   \* bound
       /\ \/ ReleaseGvl(t, "write", source)
          \/ CallUnderGvl("write", source,
                          CompressAnswers(library, source, Room))

Write(t) == MayCall(t) /\ WriteMethod(t)

RunCompress(t) ==
  RunWithoutGvl(t, "write",
                CompressAnswers(library, call[t].remaining_source_length, Room))

(* finish: lzws_ext_compressor_finish.                                     *)
FinishMethod(t) ==
  /\ Open
  /\ \/ ReleaseGvl(t, "finish", 0)
     \/ CallUnderGvl("finish", 0, FinishAnswers(library, Room))

Finish(t) == MayCall(t) /\ FinishMethod(t)

RunFinish(t) ==
  RunWithoutGvl(t, "finish", FinishAnswers(library, Room))

(* initialize: lzws_ext_initialize_compressor.                             *)
InitializeCompressor == InitialStateRaises \/ CreateBufferRaises \/ Initialize

Next ==
  \/ InitializeCompressor
  \/ Collect
  \/ \E t \in Threads :
       \/ Write(t) \/ RunCompress(t)
       \/ Finish(t) \/ RunFinish(t)
       \/ Return(t) \/ Interrupt(t)
       \/ ReadResult(t) \/ ReadResultRaises(t)
       \/ Close(t)

Spec == Init /\ [][Next]_vars
================================================================================
