--------------------------- MODULE LzwsLibrary_proofs ---------------------------
(***************************************************************************)
(* Facts about the library's contract: what every answer satisfies,        *)
(* whatever the stream, and what one call makes of the stream and of the   *)
(* destination.                                                            *)
(***************************************************************************)
EXTENDS LzwsLibrary, SequenceTheorems, TLAPS

(* What the callers rely on, whichever function of the library answers.    *)
Outcomes(source, room) ==
  [result: Results, consumed: 0 .. source, written: 0 .. room, owed: Nat]

(* Yield is a natural number, like what it is applied to.                  *)
LEMMA YieldIsNat ==
  ASSUME NEW count \in Nat
  PROVE  Yield(count) \in Nat
BY LibraryAssumption, SMT DEF Yield

(* Every answer is an outcome: it takes no more source than there is and   *)
(* writes no more than there is room for; 0 means that nothing is owed,    *)
(* NEEDS_MORE_DESTINATION that less than a unit of room is left.  Owed      *)
(* output is written or still owed.                                        *)
LEMMA AnswersAreOutcomes ==
  ASSUME NEW owed \in Nat, NEW source \in Nat, NEW room \in Nat,
         NEW o \in Answers(owed, source, room)
  PROVE  /\ o \in Outcomes(source, room)
         /\ o.result = "ok" => o.owed = 0
         /\ o.result = "needs_more_destination" => room - o.written < MaxUnit
         /\ owed <= o.written + o.owed
<1> DEFINE y == Yield(source)
<1>1. y \in Nat
  BY YieldIsNat
<1>2. o \in [result: Results, consumed: 0 .. source, written: 0 .. room,
             owed: 0 .. (owed + y)]
  BY DEF Answers, Progress
<1>3. 0 .. (owed + y) \subseteq Nat
  BY <1>1
<1>4. o \in Outcomes(source, room)
  BY <1>2, <1>3 DEF Outcomes
<1>5. /\ o.result = "ok" => o.owed = 0
      /\ o.result = "needs_more_destination" => room - o.written < MaxUnit
      /\ owed <= o.written + o.owed
  BY DEF Answers, Progress, NextUnitDoesNotFit
<1> QED
  BY <1>4, <1>5

(* The same of each function of the library.                               *)
LEMMA CompressOutcomes ==
  ASSUME NEW stream \in LibraryStream, NEW source \in Nat, NEW room \in Nat,
         NEW o \in CompressAnswers(stream, source, room)
  PROVE  /\ o \in Outcomes(source, room)
         /\ o.result = "ok" => o.owed = 0 /\ o.consumed = source
         /\ o.result = "needs_more_destination" => room - o.written < MaxUnit
         /\ stream.owed <= o.written + o.owed
<1>1. stream.owed \in Nat
  BY DEF LibraryStream
<1>2. /\ o \in Answers(stream.owed, source, room)
      /\ o.result = "ok" => o.consumed = source
  BY DEF CompressAnswers
<1> QED
  BY <1>1, <1>2, AnswersAreOutcomes

LEMMA DecompressOutcomes ==
  ASSUME NEW stream \in LibraryStream, NEW source \in Nat, NEW room \in Nat,
         NEW o \in DecompressAnswers(stream, source, room)
  PROVE  /\ o \in Outcomes(source, room)
         /\ o.result = "ok" => o.owed = 0
         /\ o.result = "needs_more_destination" => room - o.written < MaxUnit
         /\ stream.owed <= o.written + o.owed
<1>1. stream.owed \in Nat
  BY DEF LibraryStream
<1>2. o \in Answers(stream.owed, source, room)
  BY DEF DecompressAnswers
<1> QED
  BY <1>1, <1>2, AnswersAreOutcomes

LEMMA FinishOutcomes ==
  ASSUME NEW stream \in LibraryStream, NEW room \in Nat,
         NEW o \in FinishAnswers(stream, room)
  PROVE  /\ o \in Outcomes(0, room)
         /\ o.result = "ok" => o.owed = 0
         /\ o.result = "needs_more_destination" => room - o.written < MaxUnit
         /\ stream.owed <= o.written + o.owed
<1>1. stream.owed \in Nat
  BY DEF LibraryStream
<1>2. PICK tail \in (IF stream.finishing THEN {0} ELSE 0 .. MaxTail) :
        o \in Answers(stream.owed + tail, 0, room)
  BY DEF FinishAnswers
<1>3. /\ stream.owed + tail \in Nat
      /\ stream.owed <= stream.owed + tail
  BY <1>1, LibraryAssumption
<1>4. /\ o \in Outcomes(0, room)
      /\ o.result = "ok" => o.owed = 0
      /\ o.result = "needs_more_destination" => room - o.written < MaxUnit
      /\ stream.owed + tail <= o.written + o.owed
  BY <1>2, <1>3, AnswersAreOutcomes
<1>5. o.written \in Nat /\ o.owed \in Nat
  BY <1>4 DEF Outcomes
<1> QED
  BY <1>1, <1>2, <1>3, <1>4, <1>5, LibraryAssumption

(* The stream after a call is a stream: it has written and taken what the  *)
(* call wrote and took.                                                    *)
LEMMA AfterIsStream ==
  ASSUME NEW stream \in LibraryStream, NEW source \in Nat, NEW room \in Nat,
         NEW o \in Outcomes(source, room), NEW finishing \in BOOLEAN
  PROVE  /\ After(stream, o, finishing) \in LibraryStream
         /\ After(stream, o, finishing).emitted = stream.emitted + o.written
         /\ After(stream, o, finishing).consumed = stream.consumed + o.consumed
         /\ After(stream, o, finishing).owed = o.owed
         /\ After(stream, o, finishing).finishing = (stream.finishing \/ finishing)
<1>1. /\ o.owed \in Nat
      /\ o.written \in Nat
      /\ o.consumed \in Nat
  BY DEF Outcomes
<1> QED
  BY <1>1 DEF After, LibraryStream

(* What a call takes from the source gives at most the output that the     *)
(* rest of the source then lacks.                                          *)
LEMMA YieldSplits ==
  ASSUME NEW source \in Nat, NEW taken \in 0 .. source
  PROVE  /\ Yield(taken) \in Nat /\ Yield(source - taken) \in Nat
         /\ Yield(source) = Yield(taken) + Yield(source - taken)
<1>1. MaxYield * source = MaxYield * taken + MaxYield * (source - taken)
  BY LibraryAssumption
<1> QED
  BY <1>1, YieldIsNat DEF Yield

(* Every answer to a call takes what it writes from the output to come.    *)
LEMMA AnswersUseUp ==
  ASSUME NEW owed \in Nat, NEW source \in Nat, NEW room \in Nat,
         NEW o \in Answers(owed, source, room)
  PROVE  o.written + o.owed + Yield(source - o.consumed) <= owed + Yield(source)
<1>1. /\ o \in Outcomes(source, room)
      /\ o.written + o.owed <= owed + Yield(o.consumed)
  BY AnswersAreOutcomes DEF Answers, Progress
<1>2. /\ o.written \in Nat /\ o.owed \in Nat /\ o.consumed \in 0 .. source
  BY <1>1 DEF Outcomes
<1>3. /\ Yield(o.consumed) \in Nat /\ Yield(source - o.consumed) \in Nat
      /\ Yield(source) = Yield(o.consumed) + Yield(source - o.consumed)
  BY <1>2, YieldSplits
<1> QED
  BY <1>1, <1>2, <1>3

LEMMA CompressUsesUp ==
  ASSUME NEW stream \in LibraryStream, NEW source \in Nat, NEW room \in Nat,
         NEW o \in CompressAnswers(stream, source, room)
               \cup DecompressAnswers(stream, source, room)
  PROVE  /\ ToCome(After(stream, o, FALSE), source - o.consumed) \in Nat
         /\ o.written + ToCome(After(stream, o, FALSE), source - o.consumed)
              <= ToCome(stream, source)
<1>1. stream.owed \in Nat /\ stream.finishing \in BOOLEAN
  BY DEF LibraryStream
<1>2. o \in Answers(stream.owed, source, room)
  BY DEF CompressAnswers, DecompressAnswers
<1>3. /\ o.written + o.owed + Yield(source - o.consumed)
           <= stream.owed + Yield(source)
      /\ o \in Outcomes(source, room)
  BY <1>1, <1>2, AnswersUseUp, AnswersAreOutcomes
<1>4. o.written \in Nat /\ o.owed \in Nat /\ o.consumed \in 0 .. source
  BY <1>3 DEF Outcomes
<1>5. Yield(source) \in Nat /\ Yield(source - o.consumed) \in Nat
  BY <1>4, YieldSplits, YieldIsNat
<1>6. /\ After(stream, o, FALSE).owed = o.owed
      /\ After(stream, o, FALSE).finishing = stream.finishing
  BY <1>1 DEF After
<1> DEFINE tail  == IF stream.finishing THEN 0 ELSE MaxTail
           later == ToCome(After(stream, o, FALSE), source - o.consumed)
<1>7. /\ ToCome(stream, source) = stream.owed + Yield(source) + tail
      /\ later = o.owed + Yield(source - o.consumed) + tail
  BY <1>6 DEF ToCome
<1>8. tail \in Nat
  BY LibraryAssumption
<1>9. later \in Nat /\ o.written + later <= ToCome(stream, source)
  <2> HIDE DEF tail, later
  <2> QED
    BY <1>1, <1>3, <1>4, <1>5, <1>7, <1>8
<1> QED
  BY <1>9

(* finish adds its tail only once.                                         *)
LEMMA FinishUsesUp ==
  ASSUME NEW stream \in LibraryStream, NEW rest \in Nat, NEW room \in Nat,
         NEW o \in FinishAnswers(stream, room)
  PROVE  /\ ToCome(After(stream, o, TRUE), rest) \in Nat
         /\ o.written + ToCome(After(stream, o, TRUE), rest) <= ToCome(stream, rest)
<1>1. stream.owed \in Nat /\ stream.finishing \in BOOLEAN
  BY DEF LibraryStream
<1>2. PICK tail \in (IF stream.finishing THEN {0} ELSE 0 .. MaxTail) :
        o \in Answers(stream.owed + tail, 0, room)
  BY DEF FinishAnswers
<1>3. tail \in Nat /\ tail <= (IF stream.finishing THEN 0 ELSE MaxTail)
  BY <1>2, LibraryAssumption
<1>4. stream.owed + tail \in Nat
  BY <1>1, <1>3
<1>5. /\ o.written + o.owed + Yield(0 - o.consumed) <= stream.owed + tail + Yield(0)
      /\ o \in Outcomes(0, room)
  BY <1>2, <1>4, AnswersUseUp, AnswersAreOutcomes
<1>6. o.written \in Nat /\ o.owed \in Nat /\ o.consumed = 0
  BY <1>5 DEF Outcomes
<1>7. Yield(0) \in Nat /\ Yield(rest) \in Nat
  BY YieldIsNat
<1>8. o.written + o.owed <= stream.owed + tail
  BY <1>1, <1>3, <1>5, <1>6, <1>7
<1>9. After(stream, o, TRUE).owed = o.owed /\ After(stream, o, TRUE).finishing
  BY DEF After
<1> DEFINE tail0 == IF stream.finishing THEN 0 ELSE MaxTail
           later == ToCome(After(stream, o, TRUE), rest)
<1>10. /\ ToCome(stream, rest) = stream.owed + Yield(rest) + tail0
       /\ later = o.owed + Yield(rest) + 0
  BY <1>9 DEF ToCome
<1>11. tail0 \in Nat /\ tail <= tail0
  BY <1>3, LibraryAssumption
<1>12. later \in Nat /\ o.written + later <= ToCome(stream, rest)
  <2> HIDE DEF tail0, later
  <2> QED
    BY <1>1, <1>3, <1>6, <1>7, <1>8, <1>10, <1>11
<1> QED
  BY <1>12

--------------------------------------------------------------------------------
(* The contract asks nothing impossible of the library.                    *)

(* Write what is owed, if there is room, and take the source; or else fill *)
(* the room.                                                               *)
LEMMA SomeAnswerIsNoFailure ==
  ASSUME NEW owed \in Nat, NEW source \in Nat, NEW room \in Nat
  PROVE  \E o \in Answers(owed, source, room) :
           /\ o.result # "failed"
           /\ o.result = "ok" => o.consumed = source
<1> DEFINE all  == [result |-> "ok", consumed |-> source,
                    written |-> owed, owed |-> 0]
           part == [result |-> "needs_more_destination", consumed |-> 0,
                    written |-> room, owed |-> owed - room]
<1>1. /\ Yield(source) \in Nat /\ Yield(0) \in Nat
      /\ "ok" \in Results /\ "needs_more_destination" \in Results
  BY YieldIsNat DEF Results
<1>2. CASE owed <= room
  <2>1. 0 \in 0 .. (owed + Yield(source)) /\ owed \in 0 .. room /\ source \in 0 .. source
    BY <1>1, <1>2
  <2>2. owed <= owed + 0 /\ owed + 0 <= owed + Yield(source)
    BY <1>1
  <2>3. all \in Answers(owed, source, room)
    BY <1>1, <2>1, <2>2 DEF Answers, Progress
  <2> QED
    BY <2>3
<1>3. CASE room < owed
  <2>1. /\ owed - room \in 0 .. (owed + Yield(source)) /\ room \in 0 .. room
        /\ 0 \in 0 .. source
    BY <1>1, <1>3
  <2>2. /\ owed <= room + (owed - room)
        /\ room + (owed - room) <= owed + Yield(0)
        /\ room - room < owed - room /\ room - room < MaxUnit
    BY <1>1, <1>3, LibraryAssumption
  <2>3. part \in Answers(owed, source, room)
    BY <1>1, <2>1, <2>2 DEF Answers, Progress, NextUnitDoesNotFit
  <2> QED
    BY <2>3
<1> QED
  BY <1>2, <1>3

(* Whatever the stream, the source and the room, every function of the     *)
(* library has an answer that is not an error: the callers' properties are *)
(* not true for want of answers, and lzws_compress can always either eat   *)
(* its source or ask for room, as compressor.c and string.c suppose.       *)
THEOREM ContractCanBeKept ==
  ASSUME NEW stream \in LibraryStream, NEW source \in Nat, NEW room \in Nat
  PROVE  /\ \E o \in CompressAnswers(stream, source, room) : o.result # "failed"
         /\ \E o \in DecompressAnswers(stream, source, room) : o.result # "failed"
         /\ \E o \in FinishAnswers(stream, room) : o.result # "failed"
<1>1. stream.owed \in Nat
  BY DEF LibraryStream
<1>2. PICK o \in Answers(stream.owed, source, room) :
        /\ o.result # "failed"
        /\ o.result = "ok" => o.consumed = source
  BY <1>1, SomeAnswerIsNoFailure
<1>3. o \in CompressAnswers(stream, source, room)
      /\ o \in DecompressAnswers(stream, source, room)
  BY <1>2 DEF CompressAnswers, DecompressAnswers
<1>4. \E p \in FinishAnswers(stream, room) : p.result # "failed"
  <2>1. 0 \in (IF stream.finishing THEN {0} ELSE 0 .. MaxTail)
    BY LibraryAssumption
  <2>2. PICK p \in Answers(stream.owed, 0, room) : p.result # "failed"
    BY <1>1, SomeAnswerIsNoFailure
  <2>3. stream.owed + 0 = stream.owed
    BY <1>1
  <2>4. p \in FinishAnswers(stream, room)
    BY <2>1, <2>2, <2>3 DEF FinishAnswers
  <2> QED
    BY <2>2, <2>4
<1> QED
  BY <1>2, <1>3, <1>4

--------------------------------------------------------------------------------
(* The destination.                                                        *)

(* Writing leaves the destination's length alone and makes bytes of bytes. *)
LEMMA WrittenToBytes ==
  ASSUME NEW length \in Nat, NEW string \in [1 .. length -> Nat],
         NEW offset \in Nat, NEW count \in Nat, NEW first \in Nat
  PROVE  WrittenTo(string, offset, count, first) \in [1 .. length -> Nat]
<1>1. ASSUME NEW i \in 1 .. length
      PROVE  (IF i \in (offset + 1) .. (offset + count)
              THEN first + (i - offset)
              ELSE string[i]) \in Nat
  OBVIOUS
<1> QED
  BY <1>1 DEF WrittenTo

(* A function on 1 .. n is a sequence of length n, and the other way.      *)
LEMMA FunctionIsSeq ==
  ASSUME NEW n \in Nat, NEW f \in [1 .. n -> Nat]
  PROVE  f \in Seq(Nat) /\ Len(f) = n
<1>1. f \in Seq(Nat)
  BY SeqDef
<1>2. DOMAIN f = 1 .. Len(f) /\ Len(f) \in Nat
  BY <1>1, LenProperties
<1>3. DOMAIN f = 1 .. n
  OBVIOUS
<1> HIDE DEF Seq
<1> QED
  BY <1>1, <1>2, <1>3

LEMMA SeqIsFunction ==
  ASSUME NEW s \in Seq(Nat)
  PROVE  Len(s) \in Nat /\ s \in [1 .. Len(s) -> Nat]
BY LenProperties

(* Numbers that go on where others end are those others and the rest.      *)
LEMMA NumbersGoOn ==
  ASSUME NEW s \in Seq(Nat), NEW t \in Seq(Nat), NEW base \in Nat, NEW n \in Nat,
         Len(t) = Len(s) + n,
         \A i \in 1 .. Len(s) : s[i] = base + i,
         \A i \in 1 .. Len(t) : t[i] = base + i
  PROVE  t = s \o [i \in 1 .. n |-> base + Len(s) + i]
<1> DEFINE rest == [i \in 1 .. n |-> base + Len(s) + i]
<1>1. Len(s) \in Nat
  BY LenProperties
<1>2. \A i \in 1 .. n : rest[i] = base + Len(s) + i
  OBVIOUS
<1>3. rest \in Seq(Nat) /\ Len(rest) = n
  <2>1. rest \in [1 .. n -> Nat]
    BY <1>1
  <2> HIDE DEF rest
  <2> QED
    BY <2>1, FunctionIsSeq
<1> HIDE DEF rest
<1>4. /\ s \o rest \in Seq(Nat)
      /\ Len(s \o rest) = Len(s) + n
      /\ \A i \in 1 .. Len(s) + Len(rest) :
           (s \o rest)[i] = IF i <= Len(s) THEN s[i] ELSE rest[i - Len(s)]
  BY <1>3, ConcatProperties
<1>5. ASSUME NEW i \in 1 .. Len(t)
      PROVE  t[i] = (s \o rest)[i]
  <2>1. i \in 1 .. Len(s) + Len(rest) /\ i \in Nat /\ t[i] = base + i
    BY <1>1, <1>3
  <2>2. CASE i <= Len(s)
    <3>1. (s \o rest)[i] = s[i] /\ i \in 1 .. Len(s)
      BY <1>1, <1>4, <2>1, <2>2
    <3> QED
      BY <2>1, <3>1
  <2>3. CASE ~(i <= Len(s))
    <3>1. (s \o rest)[i] = rest[i - Len(s)] /\ i - Len(s) \in 1 .. n
      BY <1>1, <1>3, <1>4, <2>1, <2>3
    <3>2. rest[i - Len(s)] = base + Len(s) + (i - Len(s))
      BY <1>2, <3>1
    <3> QED
      BY <1>1, <2>1, <3>1, <3>2
  <2> QED
    BY <2>2, <2>3
<1>6. t = s \o rest
  BY <1>4, <1>5, SeqEqual
<1> QED
  BY <1>6 DEF rest
================================================================================
