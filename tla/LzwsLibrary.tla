------------------------------ MODULE LzwsLibrary ------------------------------
(***************************************************************************)
(* The lzws C library as the extension sees it.  The library itself is not *)
(* in the repository: this module is the contract that the calls in        *)
(* ext/lzws_ext rely on, and nothing of the LZW coding.                    *)
(*                                                                         *)
(* A library stream turns source bytes into output bytes.  The output is a *)
(* fixed sequence, so the byte with number k is represented by k.  Output  *)
(* that exists but has found no room yet is "owed".  The library writes it *)
(* in units of at most MaxUnit bytes, each whole or not at all; when the   *)
(* next unit does not fit it answers NEEDS_MORE_DESTINATION.               *)
(***************************************************************************)
EXTENDS Integers

CONSTANTS
  MaxUnit,       \* the most bytes written at once
  MaxYield,      \* the most output bytes one source byte gives rise to
  MaxTail,       \* the most output bytes that finishing gives rise to
  HeaderLengths  \* bytes owed by a new stream: the magic header, or none

ASSUME LibraryAssumption ==
  /\ MaxUnit \in Nat \ {0}
  /\ MaxYield \in Nat
  /\ MaxTail \in Nat
  /\ HeaderLengths \subseteq Nat

Results == {"ok", "needs_more_destination", "failed"}

(* The state behind state_ptr.                                             *)
LibraryStream ==
  [owed: Nat, emitted: Nat, consumed: Nat, finishing: BOOLEAN]

NewStream(header) ==
  [owed |-> header, emitted |-> 0, consumed |-> 0, finishing |-> FALSE]

(* Only the output of compress begins with a header.                       *)
NewStreams(direction) ==
  {NewStream(header) : header \in IF direction = "compress" THEN HeaderLengths ELSE {0}}

Yield(count) == MaxYield * count

(***************************************************************************)
(* What one call may do to a stream that owes owed bytes, given source     *)
(* bytes of input and room bytes of destination: owed output goes out      *)
(* before new input is taken, and no output is forgotten.                  *)
(***************************************************************************)
Progress(owed, source, room) ==
  {o \in [result: Results,
          consumed: 0 .. source,
          written: 0 .. room,
          owed: 0 .. (owed + Yield(source))] :
     /\ owed <= o.written + o.owed
     /\ o.written + o.owed <= owed + Yield(o.consumed)
     /\ o.consumed > 0 => owed <= o.written}

(* NEEDS_MORE_DESTINATION: the next unit is longer than the room left.     *)
NextUnitDoesNotFit(o, room) ==
  /\ room - o.written < o.owed
  /\ room - o.written < MaxUnit

Answers(owed, source, room) ==
  {o \in Progress(owed, source, room) :
     \/ o.result = "ok" /\ o.owed = 0
     \/ o.result = "needs_more_destination" /\ NextUnitDoesNotFit(o, room)
     \/ o.result = "failed"}

(* lzws_compress eats the whole source before it answers 0.                *)
CompressAnswers(stream, source, room) ==
  {o \in Answers(stream.owed, source, room) :
     o.result = "ok" => o.consumed = source}

(* lzws_decompress may also stop before the end of the source, when what   *)
(* is left of it is not a whole code.                                      *)
DecompressAnswers(stream, source, room) ==
  Answers(stream.owed, source, room)

(* The first lzws_compressor_finish adds the tail of the output.           *)
FinishAnswers(stream, room) ==
  UNION {Answers(stream.owed + tail, 0, room) :
           tail \in IF stream.finishing THEN {0} ELSE 0 .. MaxTail}

(* The stream after a call that ended with o.                              *)
After(stream, o, finishing) ==
  [owed      |-> o.owed,
   emitted   |-> stream.emitted + o.written,
   consumed  |-> stream.consumed + o.consumed,
   finishing |-> stream.finishing \/ finishing]

(* The most output that a stream has still to emit, source being all that  *)
(* it will be given.                                                       *)
ToCome(stream, source) ==
  stream.owed + Yield(source) + (IF stream.finishing THEN 0 ELSE MaxTail)

(* The destination after count bytes, numbered from first + 1, are written *)
(* behind offset.                                                          *)
WrittenTo(memory, offset, count, first) ==
  [i \in DOMAIN memory |->
     IF i \in (offset + 1) .. (offset + count)
     THEN first + (i - offset)
     ELSE memory[i]]
================================================================================
