-------------------------------- MODULE FileCodec --------------------------------
(***************************************************************************)
(* LZWS._native_compress_io and LZWS._native_decompress_io,                *)
(* ext/lzws_ext/io.c, seen from the destination: the bytes that            *)
(* lzws_compress_file or lzws_decompress_file writes pass through the      *)
(* buffer of a stdio FILE, which belongs to the Ruby IO and outlives the   *)
(* call.  A caller may hand the same IO to any number of calls, and closes *)
(* it at the end.                                                          *)
(*                                                                         *)
(* The library, stdio and the system are outside the repository: their     *)
(* steps allow whatever the two functions have to cope with.  As in        *)
(* LzwsLibrary, the byte with number k is represented by k.                *)
(*                                                                         *)
(* Operators whose name has the form Name_Fault are mutated forms of Name. *)
(***************************************************************************)
EXTENDS Integers, Sequences

CONSTANTS
  StdioCapacity,  \* the most bytes that the FILE holds
  FlushCanFail,   \* whether the system may refuse the bytes of fflush
  MaxWritten      \* bound: bytes written over the life of the IO

ASSUME FileCodecAssumption ==
  /\ StdioCapacity \in Nat
  /\ FlushCanFail \in BOOLEAN
  /\ MaxWritten \in Nat

VARIABLES
  pc,        \* "outside" the functions, in the "library", "back" from it
  direction, \* "compress" or "decompress"
  gvl,
  result,    \* args.result
  outcome,   \* how the last call has ended
  open,      \* the Ruby IO of the destination is open
  stdio,     \* the bytes in the FILE
  disk,      \* the bytes in the file
  written,   \* history: how many bytes the library has handed to fwrite
  promised,  \* history: written, when a call last returned without an error
  failed,    \* history: which writes to the disk have failed
  untold     \* history: a write has failed and the caller does not know yet

arguments == <<direction, gvl>>
file == <<open, stdio, disk, written, failed>>
vars == <<pc, arguments, result, outcome, file, promised, untold>>

(* What the library answers when it fails, without LZWS_FILE_.             *)
Failures ==
  {"allocate_failed", "validate_failed", "not_enough_source_buffer",
   "not_enough_destination_buffer", "read_failed", "write_failed", "unknown"}
  \cup IF direction = "decompress" THEN {"decompressor_corrupted_source"} ELSE {}

(* get_file_error and the class that lzws_ext_raise_error raises for it.   *)
FileError_AsIs(failure) == failure
FileError(failure) ==
  [allocate_failed               |-> "AllocateError",
   validate_failed               |-> "ValidateError",
   not_enough_source_buffer      |-> "NotEnoughSourceBufferError",
   not_enough_destination_buffer |-> "NotEnoughDestinationBufferError",
   decompressor_corrupted_source |-> "DecompressorCorruptedSourceError",
   read_failed                   |-> "ReadIOError",
   write_failed                  |-> "WriteIOError",
   unknown                       |-> "UnexpectedError"][failure]

(* What a call can raise before it reaches the library.                    *)
EarlyErrors == {"AccessIOError", "ValidateError", "TypeError", "IOError"}

Errors ==
  EarlyErrors \cup
  {"AllocateError", "NotEnoughSourceBufferError", "NotEnoughDestinationBufferError",
   "DecompressorCorruptedSourceError", "ReadIOError", "WriteIOError",
   "UnexpectedError"}

Init ==
  /\ pc = "outside"
  /\ direction = "compress"
  /\ gvl = FALSE
  /\ result = "ok"
  /\ outcome = "none"
  /\ open = TRUE
  /\ stdio = <<>>
  /\ disk = <<>>
  /\ written = 0
  /\ promised = 0
  /\ failed = {}
  /\ untold = FALSE

--------------------------------------------------------------------------------
(* stdio and the system.                                                   *)

First(s, n) == SubSeq(s, 1, n)
Rest(s, n)  == SubSeq(s, n + 1, Len(s))

Bytes(n) == [i \in 1 .. n |-> written + i]

(* bytes are in the FILE, or on their way to it; the system takes some.    *)
SystemTakes(bytes) ==
  \E n \in 0 .. Len(bytes) :
    /\ Len(bytes) - n <= StdioCapacity
    /\ disk' = disk \o First(bytes, n)
    /\ stdio' = Rest(bytes, n)
    /\ UNCHANGED failed

(* The system takes some of the bytes and refuses the next one.  Whether   *)
(* the FILE keeps the others is up to the C library.                       *)
SystemRefuses(bytes, what) ==
  \E n \in 0 .. Len(bytes) - 1 :
    /\ disk' = disk \o First(bytes, n)
    /\ stdio' \in {Rest(bytes, n), <<>>}
    /\ Len(stdio') <= StdioCapacity
    /\ failed' = failed \cup {what}

--------------------------------------------------------------------------------
(* A call.                                                                 *)

(* GET_FILE or an option raises: neither file has been touched.            *)
Refuse ==
  /\ pc = "outside"
  /\ \E e \in EarlyErrors : outcome' = e
  /\ UNCHANGED <<pc, arguments, result, file, promised, untold>>

Enter ==
  /\ pc = "outside"
  /\ open
  /\ pc' = "library"
  /\ gvl' \in BOOLEAN
  /\ direction' \in {"compress", "decompress"}
  /\ result' = "ok"
  /\ outcome' = "none"
  /\ UNCHANGED <<file, promised, untold>>

(* lzws_*_file hands count bytes to fwrite.                                *)
LibraryWrites ==
  /\ pc = "library"
  /\ \E count \in 1 .. MaxWritten - written :   \* bound
       /\ SystemTakes(stdio \o Bytes(count))
       /\ written' = written + count
  /\ UNCHANGED <<pc, arguments, result, outcome, open, promised, untold>>

LibraryWriteFails ==
  /\ pc = "library"
  /\ \E count \in 1 .. MaxWritten - written :   \* bound
       /\ SystemRefuses(stdio \o Bytes(count), "write")
       /\ written' = written + count
  /\ pc' = "back"
  /\ result' = "write_failed"
  /\ untold' = TRUE
  /\ UNCHANGED <<arguments, outcome, open, promised>>

LibraryFails ==
  /\ pc = "library"
  /\ pc' = "back"
  /\ result' \in Failures \ {"write_failed"}
  /\ UNCHANGED <<arguments, outcome, file, promised, untold>>

LibraryEnds ==
  /\ pc = "library"
  /\ pc' = "back"
  /\ result' = "ok"
  /\ UNCHANGED <<arguments, outcome, file, promised, untold>>

(* rb_thread_call_without_gvl finds an interrupt: before it releases the   *)
(* GVL, which is like never having called, or after it has taken it again. *)
Interrupt ==
  /\ pc = "back"
  /\ ~gvl
  /\ pc' = "outside"
  /\ outcome' = "interrupted"
  /\ untold' = FALSE
  /\ UNCHANGED <<arguments, result, file, promised>>

(* args.result != 0.  Nothing is flushed.                                  *)
IsError_ExceptWrite(r) == r \notin {"ok", "write_failed"}
IsError(r) == r # "ok"

RaiseFileError ==
  /\ pc = "back"
  /\ IsError(result)
  /\ pc' = "outside"
  /\ outcome' = FileError(result)
  /\ untold' = (untold /\ outcome' # "WriteIOError")
  /\ UNCHANGED <<arguments, result, file, promised>>

(* fflush(destination_file).                                               *)
Flush_None == UNCHANGED <<stdio, disk, failed>>
Flush ==
  \/ /\ disk' = disk \o stdio
     /\ stdio' = <<>>
     /\ UNCHANGED failed
  \/ FlushCanFail /\ SystemRefuses(stdio, "flush")

(* Whatever fflush has answered, the function returns nil.                 *)
Return ==
  /\ pc = "back"
  /\ ~IsError(result)
  /\ Flush
  /\ pc' = "outside"
  /\ outcome' = "returned"
  /\ promised' = written
  /\ UNCHANGED <<arguments, result, open, written, untold>>

(* IO#close closes the descriptor; "Ruby itself won't flush stdio file".   *)
Close ==
  /\ pc = "outside"
  /\ open
  /\ open' = FALSE
  /\ stdio' = <<>>
  /\ UNCHANGED <<pc, arguments, result, outcome, disk, written, promised, failed,
                 untold>>

Next ==
  \/ Refuse \/ Enter
  \/ LibraryWrites \/ LibraryWriteFails \/ LibraryFails \/ LibraryEnds
  \/ Interrupt \/ RaiseFileError \/ Return
  \/ Close

Spec == Init /\ [][Next]_vars

--------------------------------------------------------------------------------
(* Properties.                                                             *)

TypeOK ==
  /\ pc \in {"outside", "library", "back"}
  /\ direction \in {"compress", "decompress"}
  /\ gvl \in BOOLEAN
  /\ result \in {"ok"} \cup Failures
  /\ outcome \in {"none", "returned", "interrupted"} \cup Errors
  /\ open \in BOOLEAN
  /\ stdio \in Seq(Nat)
  /\ disk \in Seq(Nat)
  /\ written \in Nat
  /\ promised \in Nat
  /\ failed \subseteq {"write", "flush"}
  /\ untold \in BOOLEAN

(* Every byte written up to the last call that returned nil is in the      *)
(* file, in order, unless the system has refused some: also the bytes that *)
(* an interrupted or failed call had left in the FILE, and whether or not  *)
(* the IO is closed afterwards.                                            *)
PromisedIsOnDisk ==
  failed = {} => /\ promised <= Len(disk)
                 /\ \A i \in 1 .. Len(disk) : disk[i] = i

(* When the system has refused bytes inside the library, the caller gets   *)
(* WriteIOError, or an interrupt in its place, before he has control       *)
(* again; and he never gets WriteIOError for anything else.                *)
WriteFailureIsTold ==
  /\ pc = "outside" => ~untold
  /\ outcome = "WriteIOError" => "write" \in failed

(* Over any number of calls on one IO, whichever are interrupted, fail or  *)
(* return, and through a FILE that holds bytes between them, the file only *)
(* grows by the output's next bytes, and is complete at every return; only *)
(* bytes that the system refuses, or that Close finds in the FILE, lack.   *)
Result ==
  INSTANCE Destination WITH made <- written, file <- disk, broken <- failed # {}

ImplementsDestination == Result!Spec

(* "Ruby itself won't flush stdio file before closing fd, flush is         *)
(* required" (io.c): when the call has returned nil, the output is in the  *)
(* file.                                                                   *)
ReturnedIsOnDisk ==
  outcome = "returned" /\ "write" \notin failed => promised <= Len(disk)
================================================================================
