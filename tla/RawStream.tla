-------------------------------- MODULE RawStream --------------------------------
(***************************************************************************)
(* LZWS::Stream::Raw::Compressor and Decompressor, lib/lzws/stream/raw:    *)
(* the loops that turn the protocol of a native object (write or finish    *)
(* answers that more destination is needed, read_result makes room) into   *)
(* calls that hand all of the output to a writer block.                    *)
(*                                                                         *)
(* flush is in the repository.  The other loops are in the adsp gem, which *)
(* the two classes inherit; they are modelled as far as the protocol of    *)
(* the native objects determines them.  The native object is taken from    *)
(* OutputBuffer, which Compressor and Decompressor implement.              *)
(*                                                                         *)
(* Operators whose name has the form Name_Fault are mutated forms of Name. *)
(***************************************************************************)
EXTENDS LzwsLibrary, Sequences

CONSTANTS
  Capacities,   \* lengths of the destination buffer
  MaxSource,    \* bound: length of the source of one call
  MaxConsumed   \* bound: source bytes taken over the stream's life

ASSUME RawStreamAssumption ==
  /\ Capacities \subseteq Nat \ {0}
  /\ MaxSource \in Nat
  /\ MaxConsumed \in Nat

VARIABLES
  direction,  \* the class: "compress" or "decompress"
  status, capacity, pending, delivered,  \* the native object, as in OutputBuffer
  library,    \* the stream behind it
  method,     \* the method called last; "write" is read of a decompressor
  at,         \* where in the method the thread is, or "outside"
  source,     \* the source bytes that the method has left
  outcome,    \* how the method has ended
  received,   \* the bytes that the writer block has taken
  dropped,    \* history: how many bytes were given to a block that raised
  broken      \* history: some call has raised

Native == INSTANCE OutputBuffer

native == <<status, capacity, pending, delivered>>
writer == <<received, dropped>>
vars == <<direction, native, library, method, at, source, outcome, writer, broken>>

Methods == {"write", "flush", "finish", "close"}

Init ==
  /\ direction \in {"compress", "decompress"}
  /\ status = "open"
  /\ capacity \in Capacities
  /\ pending = <<>>
  /\ delivered = <<>>
  /\ library \in NewStreams(direction)
  /\ method = "write"
  /\ at = "outside"
  /\ source = 0
  /\ outcome = "none"
  /\ received = <<>>
  /\ dropped = 0
  /\ broken = FALSE

--------------------------------------------------------------------------------
(* How a method starts and ends.                                           *)

(* do_not_use_after_close and validate_proc raise, without effect, on a    *)
(* closed stream and without a block; so does close return.                *)
Start(m, place, length) ==
  /\ at = "outside"
  /\ status = "open"
  /\ method' = m
  /\ at' = place
  /\ source' = length
  /\ outcome' = "none"
  /\ UNCHANGED <<direction, native, library, writer, broken>>

(* The part of the source that the native object has not taken.            *)
Rest_Swapped(consumed) == consumed - source
Rest(consumed) == source - consumed

GoTo(place) == at' = place /\ UNCHANGED <<outcome, broken>>

End(how) ==
  /\ at' = "outside"
  /\ outcome' = how
  /\ broken' = (broken \/ how # "returned")

(* write_result: read_result, and the block takes what it has returned.    *)
WriteResult_Nothing == UNCHANGED <<native, writer>>
WriteResult ==
  /\ Native!Drain
  /\ received' = received \o pending
  /\ UNCHANGED dropped

(* The block is a piece of the caller's program: it may raise, and Timeout *)
(* or Thread#raise may strike in it.  The native buffer is empty by then.  *)
WriterRaises_Retries ==
  /\ UNCHANGED native
  /\ received' = received \o pending
  /\ UNCHANGED dropped
WriterRaises ==
  /\ Native!Drain
  /\ dropped' = dropped + Len(pending)
  /\ UNCHANGED received

WriteResultRaises ==
  /\ WriterRaises \/ UNCHANGED <<native, writer>>
  /\ End("raised")

--------------------------------------------------------------------------------
(* The methods.                                                            *)

Write ==
  \E length \in 0 .. MaxSource :
    /\ library.consumed + length <= MaxConsumed   \* bound
    /\ Start("write", "native", length)

Flush ==
  /\ at = "outside"
  /\ status = "open"
  /\ method' = "flush"
  /\ (WriteResult /\ End("returned")) \/ WriteResultRaises
  /\ UNCHANGED <<direction, library, source>>

Finish ==
  /\ direction = "compress"
  /\ Start("finish", "native", 0)

(* A compressor is finished before it is closed.                           *)
CloseStart_Unfinished == "last"
CloseStart == IF direction = "compress" THEN "native" ELSE "last"

Close == Start("close", CloseStart, 0)

Room == capacity - Len(pending)

NativeAnswers ==
  IF method # "write"
  THEN FinishAnswers(library, Room)
  ELSE IF direction = "compress"
       THEN CompressAnswers(library, source, Room)
       ELSE DecompressAnswers(library, source, Room)

(* What follows an answer that is no error.                                *)
AfterAnswer(result) ==
  IF result = "needs_more_destination"
  THEN {"more"}
  ELSE CASE method = "write"  -> {"outside"}
         [] method = "finish" -> {"outside", "last"}
         [] method = "close"  -> {"last"}

(* write, read or finish of the native object, with its reply, unless that *)
(* is lost to an error or an interrupt.                                    *)
CallNative ==
  /\ at = "native"
  /\ \E o \in NativeAnswers :
       /\ library' = After(library, o, method # "write")
       /\ IF o.written = 0 THEN UNCHANGED native ELSE Native!ProduceBytes(o.written)
       /\ source' = Rest(o.consumed)
       /\ \/ End("raised")
          \/ /\ o.result # "failed"
             /\ \E place \in AfterAnswer(o.result) :
                  IF place = "outside" THEN End("returned") ELSE GoTo(place)
  /\ UNCHANGED <<direction, method, writer>>

(* More destination is needed: the buffer is drained.  If there was        *)
(* nothing in it, NotEnoughDestinationError is raised.                     *)
NothingWritten_Never == FALSE
NothingWritten_NotFull == Len(pending) < capacity
NothingWritten == pending = <<>>

MoreDestination ==
  /\ at = "more"
  /\ \/ /\ WriteResult
        /\ IF NothingWritten THEN End("not_enough_destination") ELSE GoTo("native")
     \/ WriteResultRaises
  /\ UNCHANGED <<direction, library, method, source>>

(* What is left in the buffer at the end of finish or close.               *)
LastResult ==
  /\ at = "last"
  /\ \/ /\ WriteResult
        /\ IF method = "close" THEN GoTo("native_close") ELSE End("returned")
     \/ WriteResultRaises
  /\ UNCHANGED <<direction, library, method, source>>

NativeClose ==
  /\ at = "native_close"
  /\ Native!Close
  /\ End("returned")
  /\ UNCHANGED <<direction, library, method, source, writer>>

Inside == CallNative \/ MoreDestination \/ LastResult \/ NativeClose

Next == Write \/ Flush \/ Finish \/ Close \/ Inside

(* A thread that is in a method goes on; native calls and blocks end.      *)
Spec == Init /\ [][Next]_vars /\ WF_vars(Inside)

--------------------------------------------------------------------------------
(* Properties.                                                             *)

TypeOK ==
  /\ direction \in {"compress", "decompress"}
  /\ status \in {"open", "closed"}
  /\ capacity \in Nat
  /\ pending \in Seq(Nat)
  /\ delivered \in Seq(Nat)
  /\ library \in LibraryStream
  /\ method \in Methods
  /\ at \in {"outside", "native", "more", "last", "native_close"}
  /\ source \in Nat
  /\ outcome \in {"none", "returned", "raised", "not_enough_destination"}
  /\ received \in Seq(Nat)
  /\ dropped \in Nat
  /\ broken \in BOOLEAN

(* The writer gets the library's output in order and no byte twice, over   *)
(* any sequence of calls; what it lacks is what it was given when it       *)
(* raised, however often calls are repeated after that.                    *)
ReceivedInOrder ==
  /\ \A i, j \in 1 .. Len(received) : i < j => received[i] < received[j]
  /\ Len(received) + dropped + Len(pending) = library.emitted

(* flush (lib/lzws/stream/raw: "Flushes raw stream and writes next         *)
(* result") and close leave nothing behind in the native buffer, and a     *)
(* closed compressor has finished: also if calls have raised before.       *)
NothingLeftBehind ==
  outcome = "returned" /\ method \in {"flush", "close"} =>
    /\ Len(received) + dropped = library.emitted
    /\ method = "close" /\ direction = "compress" =>
         library.finishing /\ library.owed = 0

(* NotEnoughDestinationError is raised only for a buffer shorter than the  *)
(* largest unit of the library, however full it was before.                *)
NotEnoughIsExact ==
  outcome = "not_enough_destination" => capacity < MaxUnit

(* What the block gets from a pass of the loop, at the least: more         *)
(* destination is needed when less than a unit of room is left.            *)
Portion == IF capacity < MaxUnit THEN 1 ELSE capacity - MaxUnit + 1

(* The output that may still come, and what waits in the buffer.           *)
Undrained == ToCome(library, source) + Len(pending)

(* The order of the places, but for the way back from "more" to "native".  *)
Rank == [native |-> 3, more |-> 2, last |-> 1, native_close |-> 0]

(* Every pass of the loop hands a portion of output to the block, however  *)
(* little each native call has emitted: so what the source and the tail    *)
(* can give bounds how often a method drains the buffer and calls again.   *)
(* All other steps lead on to the end of the method.                       *)
StepsComeToAnEnd ==
  [][at # "outside" /\ at' # "outside" =>
       /\ Undrained \in Nat
       /\ \/ at = "more" /\ Undrained' + Portion <= Undrained
          \/ Rank[at'] < Rank[at] /\ Undrained' <= Undrained]_vars

(* A method that was called returns or raises: the loop that drains and    *)
(* calls again comes to an end.                                            *)
CallsEnd == at # "outside" ~> at = "outside"

(* Up to the first call that raises, and until it is closed, the stream is *)
(* a conversion: the writer has the first bytes of the output, and all of  *)
(* them when it is closed.                                                 *)
Result ==
  INSTANCE Conversion WITH
    status <- IF broken THEN "raised"
              ELSE IF status = "closed" THEN "returned" ELSE "running",
    made <- library.emitted + library.owed

ImplementsConversion == Result!Spec
================================================================================
