------------------------------- MODULE StringCodec -------------------------------
(***************************************************************************)
(* LZWS._native_compress_string and LZWS._native_decompress_string,        *)
(* ext/lzws_ext/string.c: one call, from the options to the returned       *)
(* string.  The destination string is grown in portions of                 *)
(* destination_buffer_length while the library asks for more.              *)
(*                                                                         *)
(* One step is one pass of the loop: the library call, which may release   *)
(* the GVL, and everything up to the next one, which may not.              *)
(*                                                                         *)
(* Operators whose name has the form Name_Fault are mutated forms of Name. *)
(***************************************************************************)
EXTENDS LzwsLibrary, Sequences

CONSTANTS
  BufferLengths,        \* values of option :destination_buffer_length, 0 is auto
  DefaultBufferLength,  \* LZWS_DEFAULT_DESTINATION_BUFFER_LENGTH_FOR_*
  MaxSource             \* bound: length of the source string

ASSUME StringCodecAssumption ==
  /\ BufferLengths \subseteq Nat
  /\ DefaultBufferLength \in Nat \ {0}
  /\ MaxSource \in Nat

VARIABLES
  pc,                  \* where the call is
  direction,           \* "compress" or "decompress"
  error,               \* the error raised
  state_live,          \* the library state is allocated
  library,             \* the stream behind state_ptr
  gvl,
  remaining_source_length,
  destination_value,   \* the bytes of the destination string
  destination_length,  \* how many of them are output
  destination_buffer_length,
  remaining_destination_buffer_length,
  parity               \* history: of the number of passes; no pass is a stutter

options == <<direction, gvl, destination_buffer_length>>
buffers == <<destination_value, destination_length,
             remaining_destination_buffer_length>>
vars == <<pc, error, state_live, library, remaining_source_length,
          options, buffers, parity>>

Loops == {"compress", "finish", "decompress"}

Ended == {"returned", "raised", "interrupted"}

LibraryErrors ==
  IF direction = "compress"
  THEN {"unexpected"}
  ELSE {"validate_failed", "decompressor_corrupted_source", "unexpected"}

Errors == {"none", "allocate_failed", "validate_failed", "unexpected",
           "not_enough_destination_buffer", "decompressor_corrupted_source", "no_memory"}

Init ==
  /\ pc = "start"
  /\ direction \in {"compress", "decompress"}
  /\ error = "none"
  /\ state_live = FALSE
  /\ library \in NewStreams(direction)
  /\ gvl \in BOOLEAN
  /\ remaining_source_length \in 0 .. MaxSource
  /\ destination_value = <<>>
  /\ destination_length = 0
  /\ destination_buffer_length \in BufferLengths
  /\ remaining_destination_buffer_length = 0
  /\ parity = 0

(* lzws_*_free_state.                                                      *)
FreeState_Forgotten == UNCHANGED state_live
FreeState == state_live' = FALSE

Raise(e) ==
  /\ pc' = "raised"
  /\ error' = e

--------------------------------------------------------------------------------
(* Up to the loop.                                                         *)

(* An option is not valid, or lzws_*_get_initial_state fails.              *)
InitialStateRaises ==
  /\ pc = "start"
  /\ \E e \in {"allocate_failed", "validate_failed", "unexpected"} : Raise(e)
  /\ UNCHANGED <<state_live, library, remaining_source_length, options, buffers,
                 parity>>

InitialState ==
  /\ pc = "start"
  /\ pc' = "create_buffer"
  /\ state_live' = TRUE
  /\ destination_buffer_length' =
       IF destination_buffer_length = 0
       THEN DefaultBufferLength
       ELSE destination_buffer_length
  /\ UNCHANGED <<error, library, remaining_source_length, direction, gvl, buffers,
                 parity>>

(* LZWS_EXT_CREATE_STRING_BUFFER under rb_protect.                         *)
CreateBufferRaises ==
  /\ pc = "create_buffer"
  /\ FreeState
  /\ Raise("allocate_failed")
  /\ UNCHANGED <<library, remaining_source_length, options, buffers, parity>>

CreateBuffer ==
  /\ pc = "create_buffer"
  /\ pc' = direction
  /\ destination_value' = [i \in 1 .. destination_buffer_length |-> 0]
  /\ destination_length' = 0
  /\ remaining_destination_buffer_length' = destination_buffer_length
  /\ UNCHANGED <<error, state_live, library, remaining_source_length, options, parity>>

--------------------------------------------------------------------------------
(* The loop.                                                               *)

(* rb_str_resize keeps the bytes that both sizes have.                     *)
Resized(string, length) ==
  [i \in 1 .. length |-> IF i \in DOMAIN string THEN string[i] ELSE 0]

(* Where the library writes: behind the bytes that are already output.     *)
WriteOffset_StringStart == 0
WriteOffset == destination_length

(* The test of increase_destination_buffer, with remaining bytes left: the *)
(* library wants to write more at once than the buffer has.                *)
BufferWasEmpty_Never(remaining) == FALSE
BufferWasEmpty_NoRoom(remaining) == remaining = 0
BufferWasEmpty(remaining) == remaining = destination_buffer_length

(* LZWS_EXT_RESIZE_STRING_BUFFER allocates the array of its arguments      *)
(* before rb_protect: NoMemoryError goes up through the C frames, past the *)
(* call that frees the library state.                                      *)
ResizeArgumentsRaise ==
  /\ Raise("no_memory")
  /\ UNCHANGED <<state_live, buffers>>

(* The string size that increase_destination_buffer asks for.              *)
IncreasedLength_ByLength(length) == length + length
IncreasedLength(length) == length + destination_buffer_length

(* increase_destination_buffer: string holds length bytes of output.       *)
Increase(string, length, remaining) ==
  \/ /\ BufferWasEmpty(remaining)
     /\ FreeState
     /\ Raise("not_enough_destination_buffer")
     /\ UNCHANGED buffers
  \/ /\ ~BufferWasEmpty(remaining)
     /\ ResizeArgumentsRaise
  \/ /\ ~BufferWasEmpty(remaining)
     /\ FreeState
     /\ Raise("allocate_failed")
     /\ UNCHANGED buffers
  \/ /\ ~BufferWasEmpty(remaining)
     /\ destination_value' = Resized(string, IncreasedLength(length))
     /\ destination_length' = length
     /\ remaining_destination_buffer_length' = destination_buffer_length
     /\ UNCHANGED <<pc, error, state_live>>

(* The last resize, down to the output, and the return.                    *)
Complete(string, length) ==
  \/ ResizeArgumentsRaise
  \/ FreeState /\ Raise("allocate_failed") /\ UNCHANGED buffers
  \/ /\ FreeState
     /\ pc' = "returned"
     /\ destination_value' = Resized(string, length)
     /\ destination_length' = length
     /\ UNCHANGED <<error, remaining_destination_buffer_length>>

(* After the compress loop the finish loop goes on where it ended.         *)
FinishNext_Returns(string, length, remaining) == Complete(string, length)
FinishNext(string, length, remaining) ==
  /\ pc' = "finish"
  /\ destination_value' = string
  /\ destination_length' = length
  /\ remaining_destination_buffer_length' = remaining
  /\ UNCHANGED <<error, state_live>>

(* What a pass adds to destination_length.                                 *)
Appended_Swapped(prev_remaining, remaining) == remaining - prev_remaining
Appended(prev_remaining, remaining) == prev_remaining - remaining

(* What a pass does with answer o of the library.                          *)
Answered(loop, o) ==
  LET string    == WrittenTo(destination_value, WriteOffset,
                             o.written, library.emitted)
      remaining == remaining_destination_buffer_length - o.written
      length    == destination_length
                     + Appended(remaining_destination_buffer_length, remaining)
  IN  /\ library' = After(library, o, loop = "finish")
      /\ remaining_source_length' = remaining_source_length - o.consumed
      /\ \/ /\ o.result = "failed"
            /\ FreeState
            /\ \E e \in LibraryErrors : Raise(e)
            /\ UNCHANGED buffers
         \/ /\ o.result = "needs_more_destination"
            /\ Increase(string, length, remaining)
         \/ /\ o.result = "ok"
            /\ IF loop = "compress"
               THEN FinishNext(string, length, remaining)
               ELSE Complete(string, length)

(* One pass of loop.                                                       *)
Pass(loop, answers) ==
  /\ pc = loop
  /\ \E o \in answers : Answered(loop, o)
  /\ parity' = 1 - parity
  /\ UNCHANGED options

Compress ==
  Pass("compress",
       CompressAnswers(library, remaining_source_length,
                       remaining_destination_buffer_length))

Finish ==
  Pass("finish", FinishAnswers(library, remaining_destination_buffer_length))

Decompress ==
  Pass("decompress",
       DecompressAnswers(library, remaining_source_length,
                         remaining_destination_buffer_length))

(* rb_thread_call_without_gvl raises a pending interrupt through the C     *)
(* frames.  What that pass did to the buffers is not seen by anyone.       *)
Interrupt ==
  /\ pc \in Loops
  /\ ~gvl
  /\ pc' = "interrupted"
  /\ UNCHANGED <<error, state_live, library, remaining_source_length, options,
                 buffers, parity>>

Next ==
  \/ InitialStateRaises \/ InitialState
  \/ CreateBufferRaises \/ CreateBuffer
  \/ Compress \/ Finish \/ Decompress
  \/ Interrupt

(* The call has ended: nothing more happens.                               *)
Done == pc \in Ended /\ UNCHANGED vars

(* A thread that runs goes on running; the library's calls terminate.      *)
Spec == Init /\ [][Next \/ Done]_vars /\ WF_vars(Next)

--------------------------------------------------------------------------------
(* Properties.                                                             *)

TypeOK ==
  /\ pc \in {"start", "create_buffer"} \cup Loops \cup Ended
  /\ direction \in {"compress", "decompress"}
  /\ error \in Errors
  /\ state_live \in BOOLEAN
  /\ library \in LibraryStream
  /\ gvl \in BOOLEAN
  /\ remaining_source_length \in Nat
  /\ destination_value \in Seq(Nat)
  /\ destination_length \in Nat
  /\ destination_buffer_length \in Nat
  /\ remaining_destination_buffer_length \in Nat
  /\ parity \in {0, 1}

(* The room announced to the library is exactly what the string has behind *)
(* the output: no pass can write past the end of the string.               *)
RoomIsInString ==
  pc \in Loops =>
    Len(destination_value)
      = destination_length + remaining_destination_buffer_length

(* Growing the string loses, repeats and reorders nothing: its first       *)
(* destination_length bytes are the library's whole output so far.         *)
OutputKept ==
  pc \in Loops \cup {"returned"} =>
    /\ destination_length = library.emitted
    /\ \A i \in 1 .. destination_length : destination_value[i] = i

(* A string is returned only with the whole output in it and nothing else; *)
(* for compress, only when all the source is taken and finish is over.     *)
ResultIsComplete ==
  pc = "returned" =>
    /\ Len(destination_value) = library.emitted
    /\ library.owed = 0
    /\ direction = "compress" => /\ remaining_source_length = 0
                                 /\ library.finishing

(* NotEnoughDestinationBufferError is never raised for a buffer that holds *)
(* the largest unit of the library ("2 bytes is the minimal buffer         *)
(* length", test/option.rb), however the passes fill the string.           *)
NotEnoughIsExact ==
  error = "not_enough_destination_buffer" => destination_buffer_length < MaxUnit

(* The library state lives through every pass, and is freed when the call  *)
(* is over, whichever step failed.  Only what unwinds the C frames leaves  *)
(* it allocated: an interrupt, which needs the GVL to be released, and     *)
(* NoMemoryError for the arguments of a resize.                            *)
StateFreed ==
  /\ pc \in Loops => state_live
  /\ pc \in Ended /\ state_live => \/ pc = "interrupted" /\ ~gvl
                                   \/ error = "no_memory"

(* Seen from the caller, who gets the string in one piece, the whole loop  *)
(* of growing and copying is a conversion.                                 *)
Result ==
  INSTANCE Conversion WITH
    status <- CASE pc = "returned"                  -> "returned"
                [] pc \in {"raised", "interrupted"} -> "raised"
                [] OTHER                            -> "running",
    made <- library.emitted + library.owed,
    received <- IF pc = "returned" THEN destination_value ELSE <<>>

ImplementsConversion == Result!Spec

(* What the string is made longer by, at the least: it is only resized when *)
(* less than a unit of room is left.                                       *)
Portion ==
  IF destination_buffer_length < MaxUnit
  THEN 1
  ELSE destination_buffer_length - MaxUnit + 1

(* The output that may still come, and the room that is used already.      *)
Variant ==
  ToCome(library, remaining_source_length)
    + (destination_buffer_length - remaining_destination_buffer_length)

(* Every pass round a loop pays for the room that it asks for with a       *)
(* portion of output, in whatever crumbs the library emits it: so what the *)
(* source can give bounds how often the string is resized and copied, and  *)
(* the loops, which have no bound of their own, come to an end.  The       *)
(* compress loop is left once, for the finish loop, which gives no room.   *)
PassesComeToAnEnd ==
  [][{pc, pc'} \subseteq Loops =>
       /\ Variant \in Nat
       /\ \/ pc' = pc /\ Variant' + Portion <= Variant
          \/ pc = "compress" /\ pc' = "finish" /\ Variant' <= Variant]_vars

(* The call returns or raises: the loop cannot go round for ever.          *)
Terminates == <>(pc \in Ended)
================================================================================
