--------------------------- MODULE StringCodec_proofs ---------------------------
(***************************************************************************)
(* The safety properties of StringCodec, from an inductive invariant.      *)
(***************************************************************************)
EXTENDS StringCodec, LzwsLibrary_proofs

(* Which loop a call is in, and when it has a library state and an error.  *)
Progression ==
  /\ pc \in {"start", "create_buffer"} => library.emitted = 0
  /\ pc = "start" => ~state_live
  /\ pc = "create_buffer" => state_live
  /\ pc \in {"compress", "finish"} => direction = "compress"
  /\ pc = "decompress" => direction = "decompress"
  /\ pc = "finish" => remaining_source_length = 0
  /\ pc # "raised" => error = "none"

(* The room is never larger than the buffer length, which is not zero.     *)
RoomIsBounded ==
  /\ pc \in Loops \cup {"create_buffer"} => destination_buffer_length # 0
  /\ pc \in Loops =>
       remaining_destination_buffer_length <= destination_buffer_length

(* The inductive invariant.                                                *)
IInv ==
  /\ TypeOK
  /\ Progression
  /\ RoomIsBounded
  /\ RoomIsInString
  /\ OutputKept
  /\ ResultIsComplete
  /\ NotEnoughIsExact
  /\ StateFreed

(* The first state satisfies the invariant.                                *)
LEMMA InitIInv == Init => IInv
<1> SUFFICES ASSUME Init PROVE IInv
  OBVIOUS
<1> USE DEF Init
<1>1. PICK header \in HeaderLengths \cup {0} : library = NewStream(header)
  BY DEF NewStreams
<1>2. library \in LibraryStream /\ library.emitted = 0
  BY <1>1, LibraryAssumption DEF NewStream, LibraryStream
<1>3. TypeOK
  <2>1. destination_value \in Seq(Nat)
    BY EmptySeq
  <2>2. destination_buffer_length \in Nat /\ remaining_source_length \in Nat
    BY StringCodecAssumption
  <2>3. pc = "start" /\ error \in Errors /\ state_live \in BOOLEAN /\ gvl \in BOOLEAN
    BY DEF Errors
  <2> QED
    BY <1>2, <2>1, <2>2, <2>3 DEF TypeOK
<1>4. Progression /\ RoomIsBounded
  BY <1>2 DEF Progression, RoomIsBounded, Loops
<1>5. RoomIsInString /\ OutputKept /\ ResultIsComplete
  BY DEF RoomIsInString, OutputKept, ResultIsComplete, Loops
<1>6. NotEnoughIsExact /\ StateFreed
  BY DEF NotEnoughIsExact, StateFreed, Loops, Ended
<1> QED
  BY <1>3, <1>4, <1>5, <1>6 DEF IInv

(* A call that has ended in an error satisfies the invariant, if the error *)
(* is not about a buffer that is large enough.                             *)
LEMMA RaisedIInv ==
  ASSUME TypeOK', pc' = "raised", state_live' => error' = "no_memory",
         error' = "not_enough_destination_buffer"
           => destination_buffer_length' < MaxUnit
  PROVE  IInv'
<1>1. Progression' /\ RoomIsBounded' /\ RoomIsInString' /\ OutputKept'
  BY DEF Progression, RoomIsBounded, RoomIsInString, OutputKept, Loops
<1>2. ResultIsComplete' /\ NotEnoughIsExact' /\ StateFreed'
  BY DEF ResultIsComplete, NotEnoughIsExact, StateFreed, Loops, Ended
<1> QED
  BY <1>1, <1>2 DEF IInv

(* Up to the loop.                                                         *)
LEMMA InitialStateRaisesIInv ==
  ASSUME IInv, InitialStateRaises
  PROVE  IInv'
<1>1. PICK e \in {"allocate_failed", "validate_failed", "unexpected"} : Raise(e)
  BY DEF InitialStateRaises
<1>2. /\ pc = "start" /\ pc' = "raised" /\ error' = e
      /\ UNCHANGED <<state_live, library, remaining_source_length, options, buffers,
                     parity>>
  BY <1>1 DEF InitialStateRaises, Raise
<1>3. TypeOK'
  BY <1>2 DEF IInv, TypeOK, options, buffers, Errors, Ended
<1>4. ~state_live'
  BY <1>2 DEF IInv, Progression
<1> QED
  BY <1>2, <1>3, <1>4, RaisedIInv

LEMMA InitialStateIInv ==
  ASSUME IInv, InitialState
  PROVE  IInv'
<1> USE DEF InitialState
<1>1. /\ UNCHANGED <<error, library, remaining_source_length, direction, gvl,
                     destination_value, destination_length,
                     remaining_destination_buffer_length, parity>>
      /\ pc = "start" /\ pc' = "create_buffer" /\ state_live'
  BY DEF buffers
<1>2. destination_buffer_length' \in Nat \ {0}
  BY StringCodecAssumption DEF IInv, TypeOK
<1>3. TypeOK'
  BY <1>1, <1>2 DEF IInv, TypeOK
<1>4. Progression' /\ RoomIsBounded'
  BY <1>1, <1>2 DEF IInv, Progression, RoomIsBounded, Loops
<1>5. RoomIsInString' /\ OutputKept' /\ ResultIsComplete'
  BY <1>1 DEF RoomIsInString, OutputKept, ResultIsComplete, Loops
<1>6. NotEnoughIsExact' /\ StateFreed'
  BY <1>1 DEF IInv, Progression, NotEnoughIsExact, StateFreed, Loops, Ended
<1> QED
  BY <1>3, <1>4, <1>5, <1>6 DEF IInv

LEMMA CreateBufferRaisesIInv ==
  ASSUME IInv, CreateBufferRaises
  PROVE  IInv'
<1>1. /\ pc' = "raised" /\ error' = "allocate_failed" /\ ~state_live'
      /\ state_live' \in BOOLEAN
      /\ UNCHANGED <<library, remaining_source_length, options, buffers, parity>>
  BY DEF CreateBufferRaises, FreeState, Raise
<1>2. TypeOK'
  BY <1>1 DEF IInv, TypeOK, options, buffers, Errors, Ended
<1> QED
  BY <1>1, <1>2, RaisedIInv

LEMMA CreateBufferIInv ==
  ASSUME IInv, CreateBuffer
  PROVE  IInv'
<1>1. /\ pc = "create_buffer" /\ pc' = direction
      /\ destination_value' = [i \in 1 .. destination_buffer_length |-> 0]
      /\ destination_length' = 0
      /\ remaining_destination_buffer_length' = destination_buffer_length
      /\ UNCHANGED <<error, state_live, library, remaining_source_length,
                     direction, gvl, destination_buffer_length, parity>>
  BY DEF CreateBuffer, options
<1>2. destination_buffer_length \in Nat /\ direction \in {"compress", "decompress"}
  BY DEF IInv, TypeOK
<1>3. /\ destination_value' \in Seq(Nat)
      /\ Len(destination_value') = destination_buffer_length
  <2>1. destination_value' \in [1 .. destination_buffer_length -> Nat]
    BY <1>1
  <2> QED
    BY <1>2, <2>1, FunctionIsSeq
<1>4. TypeOK'
  BY <1>1, <1>2, <1>3 DEF IInv, TypeOK, Loops
<1>5. Progression' /\ RoomIsBounded'
  BY <1>1, <1>2 DEF IInv, Progression, RoomIsBounded, Loops
<1>6. RoomIsInString' /\ OutputKept'
  BY <1>1, <1>2, <1>3 DEF IInv, Progression, RoomIsInString, OutputKept, Loops
<1>7. ResultIsComplete' /\ NotEnoughIsExact' /\ StateFreed'
  BY <1>1, <1>2
     DEF IInv, Progression, ResultIsComplete, NotEnoughIsExact, StateFreed, Loops,
         Ended
<1> QED
  BY <1>4, <1>5, <1>6, <1>7 DEF IInv

--------------------------------------------------------------------------------
(* The loop.                                                               *)

(* A pass, whatever loop it is of: the library is given the room that the  *)
(* string has, and each branch leaves a string that holds the output.      *)
LEMMA AnsweredIInv ==
  ASSUME IInv,
         NEW loop \in Loops, pc = loop,
         NEW source \in Nat, source <= remaining_source_length,
         loop = "compress" => source = remaining_source_length,
         NEW o \in Outcomes(source, remaining_destination_buffer_length),
         o.result = "ok" => /\ o.owed = 0
                            /\ loop = "compress" => o.consumed = source,
         o.result = "needs_more_destination" =>
           remaining_destination_buffer_length - o.written < MaxUnit,
         Answered(loop, o),
         parity' = 1 - parity,
         UNCHANGED options
  PROVE  IInv'
<1> DEFINE room == remaining_destination_buffer_length
           string == WrittenTo(destination_value, destination_length,
                               o.written, library.emitted)
           remaining == room - o.written
           length == destination_length + o.written
<1>1. /\ library \in LibraryStream /\ library.emitted \in Nat
      /\ library.emitted = destination_length
      /\ remaining_source_length \in Nat
      /\ destination_value \in Seq(Nat)
      /\ destination_length \in Nat
      /\ destination_buffer_length \in Nat \ {0}
      /\ room \in Nat /\ room <= destination_buffer_length
      /\ Len(destination_value) = destination_length + room
      /\ direction \in {"compress", "decompress"}
      /\ state_live = TRUE /\ error = "none" /\ gvl \in BOOLEAN /\ parity \in {0, 1}
      /\ \A i \in 1 .. destination_length : destination_value[i] = i
  BY DEF IInv, TypeOK, Progression, RoomIsBounded, RoomIsInString, OutputKept,
         StateFreed, LibraryStream, Loops
<1>2. /\ o.written \in Nat /\ o.written <= room
      /\ o.consumed \in Nat /\ o.consumed <= source
      /\ o.owed \in Nat /\ o.result \in Results
  BY <1>1 DEF Outcomes
<1>3. /\ remaining \in Nat /\ length \in Nat
      /\ remaining <= room /\ length + remaining = destination_length + room
      /\ remaining_source_length - o.consumed \in Nat
  <2>1. room \in Nat /\ o.written \in Nat /\ o.written <= room
    BY <1>1, <1>2
  <2>2. destination_length \in Nat
    BY <1>1
  <2>3. /\ remaining \in Nat /\ length \in Nat
        /\ remaining <= room /\ length + remaining = destination_length + room
    BY <2>1, <2>2
  <2>4. /\ remaining_source_length \in Nat /\ o.consumed \in Nat
        /\ o.consumed <= source /\ source \in Nat
        /\ source <= remaining_source_length
    BY <1>1, <1>2
  <2>5. remaining_source_length - o.consumed \in Nat
    BY <2>4
  <2> QED
    BY <2>3, <2>5
<1>4. /\ library' \in LibraryStream
      /\ library'.emitted = length
      /\ library'.owed = o.owed
      /\ loop = "finish" => library'.finishing
  <2> DEFINE finishing == loop = "finish"
  <2>1. library' = After(library, o, finishing)
    BY DEF Answered
  <2>2. finishing \in BOOLEAN /\ (loop = "finish" => finishing)
    OBVIOUS
  <2> HIDE DEF finishing
  <2>3. /\ After(library, o, finishing) \in LibraryStream
        /\ After(library, o, finishing).emitted = library.emitted + o.written
        /\ After(library, o, finishing).owed = o.owed
        /\ After(library, o, finishing).finishing = (library.finishing \/ finishing)
    <3>1. /\ o.owed \in Nat
          /\ library.emitted + o.written \in Nat
          /\ library.consumed + o.consumed \in Nat
          /\ (library.finishing \/ finishing) \in BOOLEAN
      BY <1>1, <1>2, <2>2 DEF LibraryStream
    <3> QED
      BY <3>1 DEF After, LibraryStream
  <2> QED
    BY <1>1, <2>1, <2>2, <2>3
<1>5. /\ UNCHANGED <<direction, gvl, destination_buffer_length>>
      /\ remaining_source_length' = remaining_source_length - o.consumed
      /\ parity' \in {0, 1}
  BY <1>1 DEF Answered, options
<1>6. /\ string \in Seq(Nat)
      /\ Len(string) = length + remaining
      /\ \A i \in 1 .. length : string[i] = i
  <2>1. destination_value \in [1 .. (destination_length + room) -> Nat]
    BY <1>1, SeqIsFunction
  <2>2. string \in [1 .. (destination_length + room) -> Nat]
    <3> DEFINE whole == destination_length + room
    <3>1. whole \in Nat /\ destination_value \in [1 .. whole -> Nat]
      BY <1>1, <2>1
    <3>2. destination_length \in Nat /\ o.written \in Nat /\ library.emitted \in Nat
      BY <1>1, <1>2
    <3> HIDE DEF whole
    <3>3. string \in [1 .. whole -> Nat]
      BY <3>1, <3>2, WrittenToBytes
    <3> QED
      BY <3>3 DEF whole
  <2>3. ASSUME NEW i \in 1 .. length
        PROVE  string[i] = i
    <3>1. i \in 1 .. (destination_length + room) /\ i \in Nat
      BY <1>1, <1>2, <1>3
    <3>2. string[i] = IF i \in (destination_length + 1) .. (destination_length + o.written)
                      THEN library.emitted + (i - destination_length)
                      ELSE destination_value[i]
      BY <2>1, <3>1 DEF WrittenTo
    <3>3. CASE i <= destination_length
      <4>1. i \notin (destination_length + 1) .. (destination_length + o.written)
        BY <1>1, <3>1, <3>3
      <4>2. i \in 1 .. destination_length
        BY <1>1, <3>1, <3>3
      <4> QED
        BY <1>1, <3>2, <4>1, <4>2
    <3>4. CASE destination_length < i
      <4>1. i \in (destination_length + 1) .. (destination_length + o.written)
        BY <1>1, <1>2, <3>1, <3>4
      <4>2. string[i] = library.emitted + (i - destination_length)
        BY <3>2, <4>1
      <4> QED
        BY <1>1, <3>1, <4>2
    <3> QED
      BY <1>1, <3>1, <3>3, <3>4
  <2> HIDE DEF string
  <2>4. string \in Seq(Nat) /\ Len(string) = destination_length + room
    BY <1>1, <2>2, FunctionIsSeq
  <2> QED
    BY <1>3, <2>3, <2>4
<1>7. \/ /\ o.result = "failed"
         /\ FreeState
         /\ \E e \in LibraryErrors : Raise(e)
         /\ UNCHANGED buffers
      \/ /\ o.result = "needs_more_destination"
         /\ Increase(string, length, remaining)
      \/ /\ o.result = "ok"
         /\ loop = "compress"
         /\ FinishNext(string, length, remaining)
      \/ /\ o.result = "ok"
         /\ loop # "compress"
         /\ Complete(string, length)
  <2>1. Appended(room, room - o.written) = o.written
    BY <1>1, <1>2 DEF Appended
  <2> QED
    BY <2>1 DEF Answered, WriteOffset
<1> HIDE DEF string, length, remaining
<1>8. ASSUME pc' = "raised", state_live' \in BOOLEAN,
             state_live' => error' = "no_memory",
             error' \in Errors, UNCHANGED buffers,
             error' = "not_enough_destination_buffer"
               => destination_buffer_length < MaxUnit
      PROVE  IInv'
  <2>1. TypeOK'
    BY <1>1, <1>3, <1>4, <1>5, <1>8 DEF TypeOK, buffers, Ended
  <2> QED
    BY <1>5, <1>8, <2>1, RaisedIInv
<1>9. ASSUME NEW n \in Nat
      PROVE  /\ Resized(string, n) \in Seq(Nat)
             /\ Len(Resized(string, n)) = n
             /\ \A i \in 1 .. n : i \in 1 .. length => Resized(string, n)[i] = i
  <2>1. DOMAIN string = 1 .. (length + remaining)
        /\ \A i \in DOMAIN string : string[i] \in Nat
    BY <1>6, LenProperties
  <2>2. Resized(string, n) \in [1 .. n -> Nat]
    BY <2>1 DEF Resized
  <2>3. ASSUME NEW i \in 1 .. n, i \in 1 .. length
        PROVE  Resized(string, n)[i] = i
    <3>1. i \in DOMAIN string
      BY <1>3, <2>1, <2>3
    <3>2. Resized(string, n)[i] = string[i]
      BY <3>1 DEF Resized
    <3> QED
      BY <1>6, <2>3, <3>2
  <2> HIDE DEF Resized
  <2> QED
    BY <2>2, <2>3, FunctionIsSeq
<1>10. CASE o.result = "failed" /\ FreeState /\ UNCHANGED buffers
            /\ \E e \in LibraryErrors : Raise(e)
  <2>1. PICK e \in LibraryErrors : pc' = "raised" /\ error' = e
    BY <1>10 DEF Raise
  <2>2. e \in Errors /\ e # "not_enough_destination_buffer"
    BY DEF LibraryErrors, Errors
  <2> QED
    BY <1>8, <1>10, <2>1, <2>2 DEF FreeState
<1>11. CASE o.result = "needs_more_destination" /\ Increase(string, length, remaining)
  <2>1. CASE /\ BufferWasEmpty(remaining)
             /\ FreeState
             /\ Raise("not_enough_destination_buffer")
             /\ UNCHANGED buffers
    <3>1. destination_buffer_length < MaxUnit
      BY <1>11, <2>1 DEF BufferWasEmpty, remaining
    <3> QED
      BY <1>8, <2>1, <3>1 DEF FreeState, Raise, Errors
  <2>2. CASE FreeState /\ Raise("allocate_failed") /\ UNCHANGED buffers
    BY <1>8, <2>2 DEF FreeState, Raise, Errors
  <2>4. CASE ResizeArgumentsRaise
    BY <1>1, <1>8, <2>4 DEF ResizeArgumentsRaise, Raise, Errors
  <2>3. CASE /\ destination_value' = Resized(string, IncreasedLength(length))
             /\ destination_length' = length
             /\ remaining_destination_buffer_length' = destination_buffer_length
             /\ UNCHANGED <<pc, error, state_live>>
    <3> DEFINE n == length + destination_buffer_length
    <3>1. n \in Nat /\ \A i \in 1 .. length : i \in 1 .. n
      BY <1>1, <1>3
    <3>2. destination_value' = Resized(string, n)
      BY <2>3 DEF IncreasedLength
    <3> HIDE DEF n
    <3>3. /\ destination_value' \in Seq(Nat)
          /\ Len(destination_value') = n
          /\ \A i \in 1 .. length : destination_value'[i] = i
      BY <1>9, <3>1, <3>2
    <3>4. TypeOK'
      BY <1>1, <1>3, <1>4, <1>5, <2>3, <3>3 DEF IInv, TypeOK
    <3>5. Progression'
      BY <1>1, <1>2, <1>5, <2>3 DEF IInv, Progression, Loops
    <3>6. RoomIsBounded' /\ RoomIsInString'
      BY <1>1, <1>5, <2>3, <3>3 DEF n, RoomIsBounded, RoomIsInString
    <3>7. OutputKept'
      BY <1>4, <2>3, <3>3 DEF OutputKept
    <3>8. ResultIsComplete' /\ NotEnoughIsExact' /\ StateFreed'
      BY <1>1, <2>3
         DEF IInv, ResultIsComplete, NotEnoughIsExact, StateFreed, Loops, Ended
    <3> QED
      BY <3>4, <3>5, <3>6, <3>7, <3>8 DEF IInv
  <2> QED
    BY <1>11, <2>1, <2>2, <2>3, <2>4 DEF Increase
<1>12. CASE /\ o.result = "ok" /\ loop = "compress"
            /\ FinishNext(string, length, remaining)
  <2>1. /\ pc' = "finish"
        /\ destination_value' = string
        /\ destination_length' = length
        /\ remaining_destination_buffer_length' = remaining
        /\ UNCHANGED <<error, state_live>>
    BY <1>12 DEF FinishNext
  <2>2. TypeOK'
    BY <1>1, <1>3, <1>4, <1>5, <1>6, <2>1 DEF IInv, TypeOK, Loops
  <2>3. Progression'
    <3>1. remaining_source_length' = 0
      BY <1>1, <1>5, <1>12
    <3> QED
      BY <1>1, <1>5, <1>12, <2>1, <3>1 DEF IInv, Progression
  <2>4. RoomIsBounded' /\ RoomIsInString'
    <3>1. remaining <= destination_buffer_length
      BY <1>1, <1>3
    <3> QED
      BY <1>1, <1>5, <1>6, <2>1, <3>1 DEF RoomIsBounded, RoomIsInString
  <2>5. OutputKept'
    BY <1>4, <1>6, <2>1 DEF OutputKept
  <2>6. ResultIsComplete' /\ NotEnoughIsExact' /\ StateFreed'
    BY <1>1, <2>1 DEF ResultIsComplete, NotEnoughIsExact, StateFreed, Loops, Ended
  <2> QED
    BY <2>2, <2>3, <2>4, <2>5, <2>6 DEF IInv
<1>13. CASE o.result = "ok" /\ loop # "compress" /\ Complete(string, length)
  <2>1. CASE FreeState /\ Raise("allocate_failed") /\ UNCHANGED buffers
    BY <1>8, <2>1 DEF FreeState, Raise, Errors
  <2>3. CASE ResizeArgumentsRaise
    BY <1>1, <1>8, <2>3 DEF ResizeArgumentsRaise, Raise, Errors
  <2>2. CASE /\ FreeState
             /\ pc' = "returned"
             /\ destination_value' = Resized(string, length)
             /\ destination_length' = length
             /\ UNCHANGED <<error, remaining_destination_buffer_length>>
    <3>1. /\ destination_value' \in Seq(Nat)
          /\ Len(destination_value') = length
          /\ \A i \in 1 .. length : destination_value'[i] = i
      BY <1>3, <1>9, <2>2
    <3>2. ~state_live' /\ state_live' \in BOOLEAN
      BY <2>2 DEF FreeState
    <3>3. TypeOK'
      BY <1>1, <1>3, <1>4, <1>5, <2>2, <3>1, <3>2 DEF IInv, TypeOK, Ended
    <3>4. Progression' /\ RoomIsBounded' /\ RoomIsInString'
      BY <1>1, <2>2 DEF Progression, RoomIsBounded, RoomIsInString, Loops
    <3>5. OutputKept'
      BY <1>4, <2>2, <3>1 DEF OutputKept
    <3>6. ResultIsComplete'
      <4>1. direction = "compress" => loop = "finish"
        BY <1>13 DEF IInv, Progression, Loops
      <4>2. loop = "finish" => remaining_source_length' = 0 /\ library'.finishing
        BY <1>1, <1>2, <1>4, <1>5 DEF IInv, Progression
      <4> QED
        BY <1>4, <1>5, <1>13, <3>1, <4>1, <4>2 DEF ResultIsComplete
    <3>7. NotEnoughIsExact' /\ StateFreed'
      BY <1>1, <2>2, <3>2 DEF NotEnoughIsExact, StateFreed, Loops, Ended
    <3> QED
      BY <3>3, <3>4, <3>5, <3>6, <3>7 DEF IInv
  <2> QED
    BY <1>13, <2>1, <2>2, <2>3 DEF Complete
<1> QED
  BY <1>7, <1>10, <1>11, <1>12, <1>13

LEMMA CompressIInv ==
  ASSUME IInv, Compress
  PROVE  IInv'
<1>1. /\ pc = "compress" /\ parity' = 1 - parity /\ UNCHANGED options
      /\ "compress" \in Loops
  BY DEF Compress, Pass, Loops
<1>2. PICK o \in CompressAnswers(library, remaining_source_length,
                               remaining_destination_buffer_length) :
        Answered("compress", o)
  BY DEF Compress, Pass
<1>3. /\ library \in LibraryStream /\ remaining_source_length \in Nat
      /\ remaining_destination_buffer_length \in Nat
      /\ remaining_source_length <= remaining_source_length
  BY DEF IInv, TypeOK
<1>4. /\ o \in Outcomes(remaining_source_length, remaining_destination_buffer_length)
      /\ o.result = "ok" => o.owed = 0 /\ o.consumed = remaining_source_length
      /\ o.result = "needs_more_destination" =>
           remaining_destination_buffer_length - o.written < MaxUnit
  BY <1>2, <1>3, CompressOutcomes
<1> QED
  BY <1>1, <1>2, <1>3, <1>4, AnsweredIInv

LEMMA FinishIInv ==
  ASSUME IInv, Finish
  PROVE  IInv'
<1>1. /\ pc = "finish" /\ parity' = 1 - parity /\ UNCHANGED options
      /\ "finish" \in Loops
  BY DEF Finish, Pass, Loops
<1>2. PICK o \in FinishAnswers(library, remaining_destination_buffer_length) :
        Answered("finish", o)
  BY DEF Finish, Pass
<1>3. /\ library \in LibraryStream /\ 0 \in Nat /\ 0 <= remaining_source_length
      /\ remaining_destination_buffer_length \in Nat
  BY DEF IInv, TypeOK
<1>4. /\ o \in Outcomes(0, remaining_destination_buffer_length)
      /\ o.result = "ok" => o.owed = 0
      /\ o.result = "needs_more_destination" =>
           remaining_destination_buffer_length - o.written < MaxUnit
  BY <1>2, <1>3, FinishOutcomes
<1> QED
  BY <1>1, <1>2, <1>3, <1>4, AnsweredIInv

LEMMA DecompressIInv ==
  ASSUME IInv, Decompress
  PROVE  IInv'
<1>1. /\ pc = "decompress" /\ parity' = 1 - parity /\ UNCHANGED options
      /\ "decompress" \in Loops
  BY DEF Decompress, Pass, Loops
<1>2. PICK o \in DecompressAnswers(library, remaining_source_length,
                                 remaining_destination_buffer_length) :
        Answered("decompress", o)
  BY DEF Decompress, Pass
<1>3. /\ library \in LibraryStream /\ remaining_source_length \in Nat
      /\ remaining_destination_buffer_length \in Nat
      /\ remaining_source_length <= remaining_source_length
  BY DEF IInv, TypeOK
<1>4. /\ o \in Outcomes(remaining_source_length, remaining_destination_buffer_length)
      /\ o.result = "ok" => o.owed = 0
      /\ o.result = "needs_more_destination" =>
           remaining_destination_buffer_length - o.written < MaxUnit
  BY <1>2, <1>3, DecompressOutcomes
<1> QED
  BY <1>1, <1>2, <1>3, <1>4, AnsweredIInv

(* An interrupt leaves the state allocated, but only without the GVL.      *)
LEMMA InterruptIInv ==
  ASSUME IInv, Interrupt
  PROVE  IInv'
<1>1. /\ pc \in Loops /\ ~gvl /\ pc' = "interrupted"
      /\ UNCHANGED <<error, state_live, library, remaining_source_length, direction,
                     gvl, destination_buffer_length, destination_value,
                     destination_length, remaining_destination_buffer_length, parity>>
  BY DEF Interrupt, options, buffers
<1>2. TypeOK'
  BY <1>1 DEF IInv, TypeOK, Ended
<1>3. Progression' /\ RoomIsBounded'
  BY <1>1 DEF IInv, Progression, RoomIsBounded, Loops
<1>4. RoomIsInString' /\ OutputKept' /\ ResultIsComplete'
  BY <1>1 DEF RoomIsInString, OutputKept, ResultIsComplete, Loops
<1>5. NotEnoughIsExact' /\ StateFreed'
  BY <1>1 DEF IInv, NotEnoughIsExact, StateFreed, Loops
<1> QED
  BY <1>2, <1>3, <1>4, <1>5 DEF IInv

LEMMA StutterIInv ==
  ASSUME IInv, UNCHANGED vars
  PROVE  IInv'
<1>1. UNCHANGED <<pc, error, state_live, library, remaining_source_length, direction,
                  gvl, destination_buffer_length, destination_value,
                  destination_length, remaining_destination_buffer_length, parity>>
  BY DEF vars, options, buffers
<1>2. TypeOK'
  BY <1>1 DEF IInv, TypeOK
<1>3. Progression' /\ RoomIsBounded' /\ RoomIsInString'
  BY <1>1 DEF IInv, Progression, RoomIsBounded, RoomIsInString
<1>4. OutputKept' /\ ResultIsComplete'
  BY <1>1 DEF IInv, OutputKept, ResultIsComplete
<1>5. NotEnoughIsExact' /\ StateFreed'
  BY <1>1 DEF IInv, NotEnoughIsExact, StateFreed
<1> QED
  BY <1>2, <1>3, <1>4, <1>5 DEF IInv

--------------------------------------------------------------------------------
(* The end of the loops.                                                   *)

(* A pass pays for what it does, if its answer takes what it writes from   *)
(* the output to come and asks for more only when a unit does not fit.     *)
Paid ==
  /\ Variant \in Nat
  /\ \/ pc' = pc /\ Variant' + Portion <= Variant
     \/ pc = "compress" /\ pc' = "finish" /\ Variant' <= Variant

LEMMA AnsweredPays ==
  ASSUME IInv, pc \in Loops, pc' \in Loops,
         NEW o \in [result: Results, consumed: Nat,
                    written: 0 .. remaining_destination_buffer_length, owed: Nat],
         o.result = "needs_more_destination" =>
           remaining_destination_buffer_length - o.written < MaxUnit,
         Answered(pc, o), UNCHANGED options,
         ToCome(library', remaining_source_length') \in Nat,
         o.written + ToCome(library', remaining_source_length')
           <= ToCome(library, remaining_source_length),
         ToCome(library, remaining_source_length) \in Nat
  PROVE  Paid
<1> DEFINE before == ToCome(library, remaining_source_length)
           after  == ToCome(library', remaining_source_length')
           length == destination_buffer_length
           room   == remaining_destination_buffer_length
           room2  == remaining_destination_buffer_length'
           count  == o.written
<1>1. /\ before \in Nat /\ after \in Nat /\ count \in 0 .. room
      /\ count + after <= before
      /\ length \in Nat /\ room \in Nat /\ room <= length
      /\ destination_buffer_length' = length
  BY DEF IInv, TypeOK, RoomIsBounded, options
<1>2. /\ Variant = before + (length - room)
      /\ Variant' = after + (length - room2)
  BY <1>1 DEF Variant
<1>3. \/ /\ room2 = length /\ pc' = pc
         /\ room - count # length /\ room - count < MaxUnit
      \/ room2 = room - count /\ pc = "compress" /\ pc' = "finish"
  <2>1. CASE o.result = "failed"
    BY <2>1 DEF Answered, Raise, Loops
  <2>2. CASE o.result = "needs_more_destination"
    BY <2>2 DEF Answered, Increase, ResizeArgumentsRaise, Raise, BufferWasEmpty, Loops
  <2>3. CASE o.result = "ok"
    BY <2>3 DEF Answered, FinishNext, Complete, ResizeArgumentsRaise, Raise, Loops
  <2> QED
    BY <2>1, <2>2, <2>3 DEF Results
<1>4. Portion = IF length < MaxUnit THEN 1 ELSE length - MaxUnit + 1
  BY DEF Portion
<1> HIDE DEF before, after, length, room, room2, count
<1>5. before + (length - room) \in Nat
  BY <1>1
<1>6. CASE /\ room2 = length /\ pc' = pc
           /\ room - count # length /\ room - count < MaxUnit
  <2>1. CASE length < MaxUnit
    <3>1. room - count + 1 <= length
      BY <1>1, <1>6
    <3> QED
      BY <1>1, <1>2, <1>4, <1>5, <1>6, <2>1, <3>1 DEF Paid
  <2>2. CASE ~(length < MaxUnit)
    <3>1. room - count + 1 <= MaxUnit
      BY <1>1, <1>6, LibraryAssumption
    <3> QED
      BY <1>1, <1>2, <1>4, <1>5, <1>6, <2>2, <3>1, LibraryAssumption DEF Paid
  <2> QED
    BY <2>1, <2>2
<1>7. CASE room2 = room - count /\ pc = "compress" /\ pc' = "finish"
  BY <1>1, <1>2, <1>5, <1>7 DEF Paid
<1> QED
  BY <1>3, <1>6, <1>7

LEMMA PassPays ==
  ASSUME IInv, Next, pc \in Loops, pc' \in Loops
  PROVE  Paid
<1> DEFINE rest == remaining_source_length
           room == remaining_destination_buffer_length
<1>1. library \in LibraryStream /\ rest \in Nat /\ room \in Nat
  BY DEF IInv, TypeOK
<1>2. ToCome(library, rest) \in Nat
  BY <1>1, YieldIsNat, LibraryAssumption DEF ToCome, LibraryStream
<1>3. ASSUME NEW o \in Outcomes(rest, room)
      PROVE  o \in [result: Results, consumed: Nat, written: 0 .. room, owed: Nat]
  BY <1>1, <1>3 DEF Outcomes
<1>4. CASE Compress \/ Decompress
  <2>1. PICK o \in CompressAnswers(library, rest, room)
                  \cup DecompressAnswers(library, rest, room) :
          /\ Answered(pc, o) /\ UNCHANGED options /\ pc # "finish"
    BY <1>4 DEF Compress, Decompress, Pass
  <2>2. /\ o \in Outcomes(rest, room)
        /\ o.result = "needs_more_destination" => room - o.written < MaxUnit
    BY <1>1, <2>1, CompressOutcomes, DecompressOutcomes
  <2>3. /\ library' = After(library, o, FALSE)
        /\ rest' = rest - o.consumed
    BY <2>1 DEF Answered
  <2>4. /\ ToCome(library', rest') \in Nat
        /\ o.written + ToCome(library', rest') <= ToCome(library, rest)
    BY <1>1, <2>1, <2>3, CompressUsesUp
  <2> QED
    BY <1>2, <1>3, <2>1, <2>2, <2>4, AnsweredPays
<1>5. CASE Finish
  <2>1. PICK o \in FinishAnswers(library, room) :
          /\ Answered(pc, o) /\ UNCHANGED options /\ pc = "finish"
    BY <1>5 DEF Finish, Pass
  <2>2. /\ o \in Outcomes(0, room)
        /\ o.result = "needs_more_destination" => room - o.written < MaxUnit
    BY <1>1, <2>1, FinishOutcomes
  <2>3. o.consumed = 0 /\ o \in Outcomes(rest, room)
    BY <1>1, <2>2 DEF Outcomes
  <2>4. /\ library' = After(library, o, TRUE)
        /\ rest' = rest
    <3>1. library' = After(library, o, pc = "finish")
      BY <2>1 DEF Answered
    <3>2. (pc = "finish") = TRUE
      BY <2>1
    <3>3. library' = After(library, o, TRUE)
      BY <3>1, <3>2, Zenon
    <3>4. rest' = rest - o.consumed
      BY <2>1 DEF Answered
    <3>5. rest' = rest
      BY <1>1, <2>3, <3>4
    <3> QED
      BY <3>3, <3>5
  <2>5. /\ ToCome(library', rest') \in Nat
        /\ o.written + ToCome(library', rest') <= ToCome(library, rest)
    BY <1>1, <2>1, <2>4, FinishUsesUp
  <2> QED
    BY <1>2, <1>3, <2>1, <2>2, <2>3, <2>5, AnsweredPays
<1>6. CASE InitialStateRaises \/ InitialState \/ CreateBufferRaises \/ CreateBuffer
             \/ Interrupt
  BY <1>6 DEF InitialStateRaises, InitialState, CreateBufferRaises, CreateBuffer,
              Interrupt, Loops
<1> QED
  BY <1>4, <1>5, <1>6 DEF Next

--------------------------------------------------------------------------------
(* The abstract conversion.                                                *)

(* The start of a call is the start of a conversion.                       *)
LEMMA InitImplements == Init => Result!Init
<1> SUFFICES ASSUME Init PROVE Result!Init
  OBVIOUS
<1>1. library \in LibraryStream /\ pc = "start"
  BY InitIInv DEF Init, IInv, TypeOK
<1> QED
  BY <1>1 DEF Result!Init, LibraryStream

(* A pass makes output, and forgets none.                                  *)
LEMMA PassMakes ==
  ASSUME IInv, Compress \/ Finish \/ Decompress
  PROVE  /\ library.emitted + library.owed <= library'.emitted + library'.owed
         /\ pc \in Loops
         /\ pc' \in Loops \cup {"raised", "returned"}
<1> DEFINE room == remaining_destination_buffer_length
<1>1. /\ library \in LibraryStream /\ remaining_source_length \in Nat
      /\ room \in Nat
  BY DEF IInv, TypeOK
<1>2. \E loop \in Loops, source \in {0, remaining_source_length} :
        /\ pc = loop
        /\ \E o \in Outcomes(source, room) :
             library.owed <= o.written + o.owed /\ Answered(loop, o)
  <2>1. CASE Compress
    <3>1. PICK o \in CompressAnswers(library, remaining_source_length, room) :
            Answered("compress", o)
      BY <2>1 DEF Compress, Pass
    <3> QED
      BY <1>1, <2>1, <3>1, CompressOutcomes DEF Compress, Pass, Loops
  <2>2. CASE Finish
    <3>1. PICK o \in FinishAnswers(library, room) : Answered("finish", o)
      BY <2>2 DEF Finish, Pass
    <3> QED
      BY <1>1, <2>2, <3>1, FinishOutcomes DEF Finish, Pass, Loops
  <2>3. CASE Decompress
    <3>1. PICK o \in DecompressAnswers(library, remaining_source_length, room) :
            Answered("decompress", o)
      BY <2>3 DEF Decompress, Pass
    <3> QED
      BY <1>1, <2>3, <3>1, DecompressOutcomes DEF Decompress, Pass, Loops
  <2> QED
    BY <2>1, <2>2, <2>3
<1>3. PICK loop \in Loops, source \in {0, remaining_source_length} :
        /\ pc = loop
        /\ \E o \in Outcomes(source, room) :
             library.owed <= o.written + o.owed /\ Answered(loop, o)
  BY <1>2
<1>4. PICK o \in Outcomes(source, room) :
        library.owed <= o.written + o.owed /\ Answered(loop, o)
  BY <1>3
<1>5. library' = After(library, o, loop = "finish")
  BY <1>4 DEF Answered
<1>6. /\ library'.emitted = library.emitted + o.written
      /\ library'.owed = o.owed
  BY <1>5 DEF After
<1>7. /\ library.emitted \in Nat /\ library.owed \in Nat
      /\ o.written \in Nat /\ o.owed \in Nat
  BY <1>1 DEF LibraryStream, Outcomes
<1>8. pc' \in Loops \cup {"raised", "returned"}
  BY <1>3, <1>4 DEF Answered, Raise, Increase, ResizeArgumentsRaise, FinishNext,
                    Complete, Loops
<1> QED
  BY <1>3, <1>4, <1>6, <1>7, <1>8

(* Every step of the call is one of the conversion, or invisible.          *)
LEMMA NextImplements ==
  ASSUME IInv, IInv', [Next \/ Done]_vars
  PROVE  [Result!Next]_(Result!vars)
<1>1. CASE InitialStateRaises \/ CreateBufferRaises \/ Interrupt
  BY <1>1 DEF InitialStateRaises, CreateBufferRaises, Interrupt, Raise, Loops,
              Result!Next, Result!Raise
<1>2. CASE InitialState \/ CreateBuffer
  <2>1. /\ pc \in {"start", "create_buffer"} /\ library' = library
        /\ pc' \in {"create_buffer", "compress", "decompress"}
    BY <1>2 DEF InitialState, CreateBuffer, IInv, TypeOK
  <2> QED
    BY <2>1 DEF Result!vars
<1>3. CASE Compress \/ Finish \/ Decompress
  <2>1. /\ library.emitted + library.owed <= library'.emitted + library'.owed
        /\ pc \in Loops
        /\ pc' \in Loops \cup {"raised", "returned"}
    BY <1>3, PassMakes
  <2>2. library'.emitted \in Nat /\ library'.owed \in Nat
    BY DEF IInv, TypeOK, LibraryStream
  <2>3. CASE pc' \in Loops
    BY <2>1, <2>2, <2>3 DEF Loops, Result!Next, Result!Convert
  <2>4. CASE pc' = "raised"
    BY <2>1, <2>4 DEF Loops, Result!Next, Result!Raise
  <2>5. CASE pc' = "returned"
    <3>1. /\ library'.owed = 0
          /\ destination_value' \in Seq(Nat)
          /\ Len(destination_value') = library'.emitted
          /\ \A i \in 1 .. library'.emitted : destination_value'[i] = i
      BY <2>5 DEF IInv, TypeOK, ResultIsComplete, OutputKept
    <3>2. /\ DOMAIN destination_value' = 1 .. library'.emitted
          /\ destination_value' = [i \in DOMAIN destination_value'
                                    |-> destination_value'[i]]
      BY <3>1, LenProperties
    <3>3. destination_value' = Result!Output(library'.emitted)
      BY <3>1, <3>2 DEF Result!Output
    <3>4. library'.emitted + library'.owed = library'.emitted
      BY <2>2, <3>1
    <3> QED
      BY <2>1, <2>2, <2>5, <3>3, <3>4 DEF Loops, Result!Next, Result!Return
  <2> QED
    BY <2>1, <2>3, <2>4, <2>5
<1>4. CASE UNCHANGED vars
  BY <1>4 DEF vars, buffers, options, Result!vars
<1> QED
  BY <1>1, <1>2, <1>3, <1>4 DEF Next, Done

--------------------------------------------------------------------------------
(* Theorems.                                                               *)

(* The inductive invariant holds throughout every call.                    *)
THEOREM Invariance == Spec => []IInv
<1>1. IInv /\ [Next \/ Done]_vars => IInv'
  <2> SUFFICES ASSUME IInv, [Next \/ Done]_vars PROVE IInv'
    OBVIOUS
  <2>1. CASE InitialStateRaises
    BY <2>1, InitialStateRaisesIInv
  <2>2. CASE InitialState
    BY <2>2, InitialStateIInv
  <2>3. CASE CreateBufferRaises
    BY <2>3, CreateBufferRaisesIInv
  <2>4. CASE CreateBuffer
    BY <2>4, CreateBufferIInv
  <2>5. CASE Compress
    BY <2>5, CompressIInv
  <2>6. CASE Finish
    BY <2>6, FinishIInv
  <2>7. CASE Decompress
    BY <2>7, DecompressIInv
  <2>8. CASE Interrupt
    BY <2>8, InterruptIInv
  <2>9. CASE UNCHANGED vars
    BY <2>9, StutterIInv
  <2> QED
    BY <2>1, <2>2, <2>3, <2>4, <2>5, <2>6, <2>7, <2>8, <2>9 DEF Next, Done
<1> QED
  BY <1>1, InitIInv, PTL DEF Spec

(* Every variable of a call of the string codec has its type; the offset   *)
(* and the length of the buffer are never negative.                        *)
THEOREM Types == Spec => []TypeOK
<1>1. IInv => TypeOK
  BY DEF IInv
<1> QED
  BY <1>1, Invariance, PTL

(* No pass of the loop in string.c can write past the end of the           *)
(* destination string.                                                     *)
THEOREM BufferSafety == Spec => []RoomIsInString
<1>1. IInv => RoomIsInString
  BY DEF IInv
<1> QED
  BY <1>1, Invariance, PTL

(* The output made so far survives every growth of the destination string. *)
THEOREM Growth == Spec => []OutputKept
<1>1. IInv => OutputKept
  BY DEF IInv
<1> QED
  BY <1>1, Invariance, PTL

(* The returned string is the whole output of the whole source.            *)
THEOREM Completeness == Spec => []ResultIsComplete
<1>1. IInv => ResultIsComplete
  BY DEF IInv
<1> QED
  BY <1>1, Invariance, PTL

(* The library state is freed on every path but two, an interrupt and a    *)
(* failure to build the arguments of the resize.                           *)
THEOREM ErrorPaths == Spec => []StateFreed
<1>1. IInv => StateFreed
  BY DEF IInv
<1> QED
  BY <1>1, Invariance, PTL

(* A buffer that has room for one unit is never refused.                   *)
THEOREM NotEnough == Spec => []NotEnoughIsExact
<1>1. IInv => NotEnoughIsExact
  BY DEF IInv
<1> QED
  BY <1>1, Invariance, PTL

(* The loops of string.c, which have no bound of their own, come to an end: *)
(* the output that a call can give bounds the number of its passes.        *)
THEOREM Ends == Spec => PassesComeToAnEnd
<1>1. IInv /\ [Next \/ Done]_vars => [{pc, pc'} \subseteq Loops => Paid]_vars
  <2> SUFFICES ASSUME IInv, [Next \/ Done]_vars, UNCHANGED vars => FALSE,
                      {pc, pc'} \subseteq Loops
               PROVE  Paid
    OBVIOUS
  <2>1. Next /\ pc \in Loops /\ pc' \in Loops
    BY DEF Done
  <2> QED
    BY <2>1, PassPays
<1> QED
  BY <1>1, Invariance, PTL DEF Spec, PassesComeToAnEnd, Paid

(* A call is a conversion: whatever the buffer, the string that it returns *)
(* is what the library has made of the source.                             *)
THEOREM Implements == Spec => ImplementsConversion
<1>1. Init => Result!Init
  BY InitImplements
<1>2. IInv /\ IInv' /\ [Next \/ Done]_vars => [Result!Next]_(Result!vars)
  BY NextImplements
<1>3. Spec => Result!Spec
  BY <1>1, <1>2, Invariance, PTL DEF Spec, Result!Spec
<1> QED
  BY <1>3 DEF ImplementsConversion

(* In every state of a Conversion: the caller of the string codec has all, *)
(* if he was given anything.                                               *)
ConversionInv ==
  pc = "returned" =>
    destination_value = Result!Output(library.emitted + library.owed)

(* Conversion says enough: a string that is returned is the whole of the   *)
(* output, byte by byte, and stays so.                                     *)
THEOREM ConversionPromises ==
  ImplementsConversion =>
    [](pc = "returned" =>
         destination_value = [i \in 1 .. library.emitted + library.owed |-> i])
<1>1. Result!Init => ConversionInv
  BY DEF Result!Init, ConversionInv
<1>2. ConversionInv /\ [Result!Next]_(Result!vars) => ConversionInv'
  <2> SUFFICES ASSUME ConversionInv, [Result!Next]_(Result!vars), pc' = "returned"
               PROVE  destination_value' =
                        Result!Output(library'.emitted + library'.owed)
    BY DEF ConversionInv, Result!Output
  <2>1. CASE Result!Return
    BY <2>1 DEF Result!Return
  <2>2. CASE Result!Convert \/ Result!Deliver \/ Result!Raise
    BY <2>2 DEF Result!Convert, Result!Deliver, Result!Raise
  <2>3. CASE UNCHANGED Result!vars
    BY <2>3 DEF Result!vars, ConversionInv
  <2> QED
    BY <2>1, <2>2, <2>3 DEF Result!Next
<1>3. ConversionInv =>
        (pc = "returned" =>
           destination_value = [i \in 1 .. library.emitted + library.owed |-> i])
  BY DEF ConversionInv, Result!Output
<1> QED
  BY <1>1, <1>2, <1>3, PTL DEF ImplementsConversion, Result!Spec

(* So it is with string.c: whatever the buffer and the growth, the string  *)
(* that a call returns is the whole output.                                *)
THEOREM OutputIsWhole ==
  Spec => [](pc = "returned" =>
               destination_value = [i \in 1 .. library.emitted + library.owed |-> i])
BY Implements, ConversionPromises, PTL
================================================================================
