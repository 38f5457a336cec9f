-------------------------- MODULE NativeStream_proofs --------------------------
(***************************************************************************)
(* The inductive invariant of the native streams, and one lemma per action *)
(* of NativeStream saying that the action preserves it.  The theorems on   *)
(* Compressor and Decompressor combine these lemmas.                       *)
(***************************************************************************)
EXTENDS NativeStream, LzwsLibrary_proofs

(* The object is unset, and nothing has happened, until initialize has     *)
(* succeeded; it is open only from then until close or the finalizer.      *)
Lifetime ==
  /\ phase \in {"allocated", "raised"} => object = UnsetObject /\ heap = {}
  /\ phase = "allocated" => lost = NothingLostYet /\ accepted = 0 /\ delivered = <<>>
  /\ Open => phase = "initialized"
  /\ object.state_ptr # NULL => Open

(* Only a call of an open object that gives up the GVL is ever in progress *)
(* between two steps, and then it is the only one.                         *)
ExclusiveCall ==
  \A t \in Threads :
    ~Idle(t) => /\ Open
                /\ ~object.gvl
                /\ \A u \in Threads \ {t} : Idle(u)

(* The destination buffer of an open object, up to the remaining pointer,  *)
(* holds the output that is not delivered yet.                             *)
BufferHoldsOutput ==
  Open =>
    /\ object.destination_buffer_length \in Nat \ {0}
    /\ Len(memory) = object.destination_buffer_length
    /\ object.remaining_destination_buffer + Room = object.destination_buffer_length
    /\ library.emitted = Len(delivered) + ResultLength
    /\ \A i \in 1 .. ResultLength : memory[i] = Len(delivered) + i

(* The source bytes that a call in progress has taken are those that the   *)
(* caller does not know of yet.                                            *)
CallAccounts ==
  \A t \in Threads :
    /\ call[t].remaining_source_length <= call[t].source_length
    /\ call[t].pc = "released" =>
         call[t].remaining_source_length = call[t].source_length
    /\ ~Idle(t) =>
         accepted + BytesUnreported
           + (call[t].source_length - call[t].remaining_source_length)
           = library.consumed

(* The inductive invariant.                                                *)
IInv ==
  /\ TypeOK
  /\ Lifetime
  /\ Ownership
  /\ ExclusiveCall
  /\ BufferHoldsOutput
  /\ DeliveredInOrder
  /\ CallAccounts
  /\ CallerKnowsBytesTaken

--------------------------------------------------------------------------------
(* Facts used in several places.                                           *)

(* Without a pointer there is nothing to use: the object is not open.      *)
LEMMA UnsetObjectIsClosed ==
  /\ UnsetObject \in Object
  /\ UnsetObject.state_ptr = NULL
  /\ UnsetObject.destination_buffer = NULL
  /\ UnsetObject.gvl = FALSE
BY DEF UnsetObject, Object

(* The empty call is a call.                                               *)
LEMMA IdleCallIsCall ==
  IdleCall \in Call /\ IdleCall.pc = "idle"
BY DEF IdleCall, Call, Ops, Results

(* A new stream has written and taken nothing.                             *)
LEMMA NewStreamIsStream ==
  ASSUME NEW header \in Nat
  PROVE  /\ NewStream(header) \in LibraryStream
         /\ NewStream(header).emitted = 0
         /\ NewStream(header).consumed = 0
BY DEF NewStream, LibraryStream

--------------------------------------------------------------------------------
(* Allocation and initialization.                                          *)

(* The allocated object satisfies the invariant.                           *)
LEMMA InitIInv == Init => IInv
<1> SUFFICES ASSUME Init PROVE IInv
  OBVIOUS
<1> USE DEF Init
<1>1. ~Open
  BY UnsetObjectIsClosed DEF Open
<1>2. \A t \in Threads : call[t] = IdleCall /\ Idle(t)
  BY IdleCallIsCall DEF Idle
<1>3. TypeOK
  <2>1. call \in [Threads -> Call]
    BY IdleCallIsCall
  <2>2. memory \in Seq(Nat) /\ delivered \in Seq(Nat)
    BY EmptySeq
  <2>3. library \in LibraryStream
    BY NewStreamIsStream
  <2> QED
    BY <2>1, <2>2, <2>3, UnsetObjectIsClosed DEF TypeOK, Lost, NothingLostYet
<1>4. Lifetime
  BY <1>1, UnsetObjectIsClosed DEF Lifetime
<1>5. Ownership
  BY UnsetObjectIsClosed DEF Ownership
<1>6. ExclusiveCall
  BY <1>2 DEF ExclusiveCall
<1>7. BufferHoldsOutput
  BY <1>1 DEF BufferHoldsOutput
<1>8. DeliveredInOrder
  BY EmptySeq DEF DeliveredInOrder
<1>9. CallAccounts
  BY <1>2 DEF CallAccounts, IdleCall, Idle
<1>10. CallerKnowsBytesTaken
  BY NewStreamIsStream DEF CallerKnowsBytesTaken, BytesUnreported, NothingLostYet,
     UnsetObject
<1> QED
  BY <1>3, <1>4, <1>5, <1>6, <1>7, <1>8, <1>9, <1>10 DEF IInv

(* What initialize does before it succeeds leaves the object unset.        *)
LEMMA InitialStateRaisesIInv == IInv /\ InitialStateRaises => IInv'
<1> SUFFICES ASSUME IInv, InitialStateRaises PROVE IInv'
  OBVIOUS
<1> USE DEF InitialStateRaises
<1>1. ~Open
  BY DEF IInv, Lifetime, Open, UnsetObject
<1>2. TypeOK'
  BY DEF IInv, TypeOK
<1>3. Lifetime' /\ Ownership'
  BY <1>1 DEF IInv, Lifetime, Ownership, Open
<1>4. ExclusiveCall' /\ BufferHoldsOutput'
  BY <1>1 DEF IInv, ExclusiveCall, BufferHoldsOutput, Open, Idle
<1>5. DeliveredInOrder' /\ CallAccounts' /\ CallerKnowsBytesTaken'
  BY DEF IInv, DeliveredInOrder, CallAccounts, CallerKnowsBytesTaken, Idle,
         AllIdle, BytesUnreported
<1> QED
  BY <1>2, <1>3, <1>4, <1>5 DEF IInv

LEMMA CreateBufferRaisesIInv == IInv /\ CreateBufferRaises => IInv'
<1> SUFFICES ASSUME IInv, CreateBufferRaises PROVE IInv'
  OBVIOUS
<1> USE DEF CreateBufferRaises
<1>1. ~Open /\ heap = {}
  BY DEF IInv, Lifetime, Open, UnsetObject
<1>2. heap' = {}
  BY <1>1 DEF BlocksAfterBufferFailed
<1>3. TypeOK'
  BY <1>2 DEF IInv, TypeOK
<1>4. Lifetime' /\ Ownership'
  BY <1>1, <1>2 DEF IInv, Lifetime, Ownership, Open
<1>5. ExclusiveCall' /\ BufferHoldsOutput'
  BY <1>1 DEF IInv, ExclusiveCall, BufferHoldsOutput, Open, Idle
<1>6. DeliveredInOrder' /\ CallAccounts' /\ CallerKnowsBytesTaken'
  BY DEF IInv, DeliveredInOrder, CallAccounts, CallerKnowsBytesTaken, Idle,
         AllIdle, BytesUnreported
<1> QED
  BY <1>3, <1>4, <1>5, <1>6 DEF IInv

(* A successful initialize leaves an open object with an empty buffer.     *)
LEMMA InitializeIInv == IInv /\ Initialize => IInv'
<1> SUFFICES ASSUME IInv, Initialize PROVE IInv'
  OBVIOUS
<1> USE NativeStreamAssumption
<1>0. PICK state \in Blocks \ heap, option \in BufferLengths, gvl \in GvlOptions :
        \E buffer \in Blocks \ (heap \cup {state}) :
          /\ heap' = heap \cup {state, buffer}
          /\ object' = InitializedObject(state, buffer, BufferLength(option), gvl)
          /\ memory' = [i \in 1 .. BufferLength(option) |-> 0]
  BY DEF Initialize
<1>1. PICK buffer \in Blocks \ (heap \cup {state}) :
        /\ heap' = heap \cup {state, buffer}
        /\ object' = InitializedObject(state, buffer, BufferLength(option), gvl)
        /\ memory' = [i \in 1 .. BufferLength(option) |-> 0]
  BY <1>0
<1>2. PICK header \in HeaderLengths : library' = NewStream(header)
  BY DEF Initialize
<1>3. /\ phase = "allocated" /\ phase' = "initialized"
      /\ UNCHANGED <<call, delivered, accepted, lost>>
  BY DEF Initialize
<1> DEFINE length == BufferLength(option)
<1>4. length \in Nat \ {0}
  BY DEF BufferLength
<1>5. /\ heap = {} /\ ~Open
      /\ lost = NothingLostYet /\ accepted = 0 /\ delivered = <<>>
      /\ \A t \in Threads : Idle(t)
  BY <1>3 DEF IInv, Lifetime, Open, UnsetObject, ExclusiveCall
<1>6. /\ object' \in Object
      /\ object'.state_ptr = state
      /\ object'.destination_buffer = buffer
      /\ object'.destination_buffer_length = length
      /\ object'.remaining_destination_buffer = 0
      /\ object'.remaining_destination_buffer_length = length
      /\ object'.gvl = gvl
  BY <1>1, <1>4 DEF InitializedObject, Object
<1>7. state # NULL /\ buffer # NULL /\ state # buffer /\ Open'
  BY <1>6 DEF Open
<1>8. memory' \in Seq(Nat) /\ Len(memory') = length
  <2>1. [i \in 1 .. length |-> 0] \in [1 .. length -> Nat]
    OBVIOUS
  <2> QED
    BY <1>1, <1>4, <2>1, FunctionIsSeq
<1>9. /\ library' \in LibraryStream
      /\ library'.emitted = 0
      /\ library'.consumed = 0
  BY <1>2, NewStreamIsStream, LibraryAssumption
<1>10. TypeOK'
  BY <1>1, <1>3, <1>6, <1>8, <1>9 DEF IInv, TypeOK
<1>11. Lifetime'
  BY <1>3, <1>7 DEF Lifetime
<1>12. Ownership'
  BY <1>1, <1>5, <1>6, <1>7 DEF Ownership
<1>13. ExclusiveCall' /\ AllIdle'
  BY <1>3, <1>5 DEF ExclusiveCall, Idle, AllIdle
<1>14. BufferHoldsOutput'
  <2>1. ResultLength' = 0 /\ Room' = length
    BY <1>4, <1>6 DEF ResultLength, Room
  <2>2. Len(delivered') = 0
    BY <1>3, <1>5, EmptySeq
  <2> QED
    BY <1>4, <1>6, <1>8, <1>9, <2>1, <2>2 DEF BufferHoldsOutput
<1>15. DeliveredInOrder'
  BY <1>3 DEF IInv, DeliveredInOrder
<1>16. CallAccounts'
  BY <1>3, <1>5 DEF IInv, CallAccounts, Idle
<1>17. CallerKnowsBytesTaken'
  BY <1>3, <1>5, <1>9 DEF CallerKnowsBytesTaken, BytesUnreported, NothingLostYet
<1> QED
  BY <1>10, <1>11, <1>12, <1>13, <1>14, <1>15, <1>16, <1>17 DEF IInv

--------------------------------------------------------------------------------
(* Calls into the library.                                                 *)

(* A step of the library on an open object writes behind the output that   *)
(* is in the buffer, never past its end, and leaves the pointers alone.    *)
LEMMA LibraryRanKeepsBuffer ==
  ASSUME TypeOK, Open, BufferHoldsOutput,
         NEW source \in Nat, NEW finishing \in BOOLEAN,
         NEW o \in Outcomes(source, Room),
         LibraryRan(o, finishing), UNCHANGED delivered
  PROVE  /\ object' \in Object
         /\ object'.state_ptr = object.state_ptr
         /\ object'.destination_buffer = object.destination_buffer
         /\ object'.gvl = object.gvl
         /\ library' \in LibraryStream
         /\ library'.consumed = library.consumed + o.consumed
         /\ memory' \in Seq(Nat)
         /\ BufferHoldsOutput'
<1> DEFINE length == object.destination_buffer_length
           offset == object.remaining_destination_buffer
<1>0. /\ library' = After(library, o, finishing)
      /\ memory' = WrittenTo(memory, offset, o.written, library.emitted)
      /\ object' = [object EXCEPT
                       !.remaining_destination_buffer = offset + o.written,
                       !.remaining_destination_buffer_length = Room - o.written]
      /\ delivered' = delivered
  BY DEF LibraryRan, Room
<1>1. /\ object \in Object /\ length \in Nat /\ offset \in Nat /\ Room \in Nat
      /\ library \in LibraryStream /\ library.emitted \in Nat
      /\ memory \in Seq(Nat)
      /\ Len(delivered) \in Nat
  BY LenProperties DEF TypeOK, Object, Room, LibraryStream
<1>2. o.written \in Nat /\ o.written <= Room /\ o.consumed \in Nat
  BY <1>1 DEF Outcomes
<1>3. offset + o.written \in Nat /\ Room - o.written \in Nat
  BY <1>1, <1>2
<1>4. /\ object' \in Object
      /\ object'.state_ptr = object.state_ptr
      /\ object'.destination_buffer = object.destination_buffer
      /\ object'.destination_buffer_length = length
      /\ object'.remaining_destination_buffer = offset + o.written
      /\ object'.remaining_destination_buffer_length = Room - o.written
      /\ object'.gvl = object.gvl
  BY <1>0, <1>1, <1>3 DEF Object
<1>5. /\ library' \in LibraryStream
      /\ library'.emitted = library.emitted + o.written
      /\ library'.consumed = library.consumed + o.consumed
  BY <1>0, <1>1, AfterIsStream
<1>6. /\ length # 0 /\ Len(memory) = length
      /\ offset + Room = length
      /\ library.emitted = Len(delivered) + ResultLength
      /\ \A i \in 1 .. ResultLength : memory[i] = Len(delivered) + i
      /\ ResultLength = offset
  BY <1>1 DEF BufferHoldsOutput, ResultLength
<1>7. memory \in [1 .. length -> Nat]
  BY <1>1, <1>6, SeqIsFunction
<1>8. memory' \in [1 .. length -> Nat]
  BY <1>0, <1>1, <1>2, <1>7, WrittenToBytes
<1>9. memory' \in Seq(Nat) /\ Len(memory') = length
  BY <1>1, <1>8, FunctionIsSeq
<1>10. Room' = Room - o.written /\ ResultLength' = offset + o.written
  BY <1>1, <1>2, <1>4, <1>6 DEF Room, ResultLength
<1>11. ASSUME NEW i \in 1 .. ResultLength'
       PROVE  memory'[i] = Len(delivered) + i
  <2>1. i \in Nat /\ 1 <= i /\ i <= offset + o.written /\ i \in 1 .. length
    BY <1>1, <1>2, <1>6, <1>10
  <2>2. memory'[i] = IF i \in (offset + 1) .. (offset + o.written)
                     THEN library.emitted + (i - offset)
                     ELSE memory[i]
    BY <1>0, <1>7, <2>1 DEF WrittenTo
  <2>3. CASE i <= offset
    <3>1. i \in 1 .. ResultLength /\ i \notin (offset + 1) .. (offset + o.written)
      BY <1>1, <1>2, <1>6, <2>1, <2>3
    <3> QED
      BY <1>6, <2>2, <3>1
  <2>4. CASE offset < i
    <3>1. i \in (offset + 1) .. (offset + o.written)
      BY <1>1, <1>2, <2>1, <2>4
    <3>2. memory'[i] = library.emitted + (i - offset)
      BY <2>2, <3>1
    <3> QED
      BY <1>1, <1>6, <2>1, <3>2
  <2> QED
    BY <1>1, <2>1, <2>3, <2>4
<1>12. BufferHoldsOutput'
  <2>1. library'.emitted = Len(delivered') + ResultLength'
    BY <1>0, <1>1, <1>2, <1>5, <1>6, <1>10
  <2>2. object'.remaining_destination_buffer + Room' = length
    BY <1>1, <1>2, <1>4, <1>6, <1>10
  <2> QED
    BY <1>0, <1>1, <1>4, <1>6, <1>9, <1>11, <2>1, <2>2 DEF BufferHoldsOutput
<1> QED
  BY <1>4, <1>5, <1>9, <1>12

(* A lost report moves its bytes from the call's account to the lost ones. *)
LEMMA LostAccounts ==
  ASSUME lost \in Lost, accepted \in Nat, NEW bytes \in Nat,
         NEW why \in {"failure", "no_memory", "interrupt"}, ReplyLost(why, bytes)
  PROVE  /\ lost' \in Lost /\ accepted' \in Nat
         /\ accepted' + BytesUnreported' = accepted + BytesUnreported + bytes
         /\ why # "interrupt" => lost'.interrupt = lost.interrupt
<1>1. accepted' = accepted /\ lost' = [lost EXCEPT ![why] = @ + bytes]
  BY DEF ReplyLost
<1>2. CASE why = "failure"
  BY <1>1, <1>2 DEF Lost, BytesUnreported
<1>3. CASE why = "no_memory"
  BY <1>1, <1>3 DEF Lost, BytesUnreported
<1>4. CASE why = "interrupt"
  BY <1>1, <1>4 DEF Lost, BytesUnreported
<1> QED
  BY <1>2, <1>3, <1>4

(* Whatever becomes of a reply, its bytes are told or known to be lost.    *)
LEMMA ReplyAccounts ==
  ASSUME lost \in Lost, accepted \in Nat, NEW op, NEW result,
         NEW source \in Nat, NEW remaining \in Nat, remaining <= source,
         Reply(op, result, source, remaining)
  PROVE  /\ lost' \in Lost /\ accepted' \in Nat
         /\ accepted' + BytesUnreported' = accepted + BytesUnreported + (source - remaining)
         /\ lost'.interrupt = lost.interrupt
<1> DEFINE bytes == source - remaining
<1>1. bytes \in Nat
  OBVIOUS
<1>2. CASE \E why \in {"failure", "no_memory"} : ReplyLost(why, bytes)
  <2> HIDE DEF bytes
  <2>1. /\ lost' \in Lost /\ accepted' \in Nat
        /\ accepted' + BytesUnreported' = accepted + BytesUnreported + bytes
        /\ lost'.interrupt = lost.interrupt
    BY <1>1, <1>2, LostAccounts
  <2> QED
    BY <2>1 DEF bytes
<1>3. CASE accepted' = accepted + bytes /\ lost' = lost
  <2>1. BytesUnreported \in Nat /\ BytesUnreported' = BytesUnreported
    BY <1>3 DEF Lost, BytesUnreported
  <2> QED
    BY <1>1, <1>3, <2>1
<1> QED
  BY <1>2, <1>3 DEF Reply, BytesReported

(* A method that runs under the GVL, with answer o of the library: what it *)
(* replies is what the library has taken.                                  *)
LEMMA CallUnderGvlIInv ==
  ASSUME IInv, Open, object.gvl,
         NEW source \in Nat, NEW op \in Ops,
         NEW o \in Outcomes(source, Room),
         LibraryRan(o, op = "finish"),
         Reply(op, o.result, source, source - o.consumed),
         UNCHANGED <<phase, heap, call, delivered>>
  PROVE  IInv'
<1>1. /\ object' \in Object
      /\ object'.state_ptr = object.state_ptr
      /\ object'.destination_buffer = object.destination_buffer
      /\ object'.gvl = object.gvl
      /\ library' \in LibraryStream
      /\ library'.consumed = library.consumed + o.consumed
      /\ memory' \in Seq(Nat)
      /\ BufferHoldsOutput'
  BY LibraryRanKeepsBuffer DEF IInv
<1>2. /\ o.consumed \in Nat /\ o.consumed <= source /\ o.result \in Results
      /\ accepted \in Nat /\ library.consumed \in Nat
  BY DEF Outcomes, IInv, TypeOK, LibraryStream
<1>3. /\ lost' \in Lost /\ accepted' \in Nat
      /\ accepted' + BytesUnreported'
           = accepted + BytesUnreported + (source - (source - o.consumed))
      /\ lost'.interrupt = lost.interrupt
  <2> DEFINE rest == source - o.consumed
  <2>1. rest \in Nat /\ rest <= source /\ Reply(op, o.result, source, rest)
    BY <1>2
  <2> HIDE DEF rest
  <2>2. /\ lost' \in Lost /\ accepted' \in Nat
        /\ accepted' + BytesUnreported' = accepted + BytesUnreported + (source - rest)
        /\ lost'.interrupt = lost.interrupt
    BY <2>1, ReplyAccounts DEF IInv, TypeOK
  <2> QED
    BY <2>2 DEF rest
<1>4. Open' /\ \A t \in Threads : Idle(t) /\ Idle(t)'
  BY <1>1 DEF Open, IInv, ExclusiveCall, Idle
<1>5. TypeOK'
  BY <1>1, <1>3 DEF IInv, TypeOK
<1>6. Lifetime' /\ Ownership'
  BY <1>1, <1>4 DEF IInv, Lifetime, Ownership, Open, UnsetObject
<1>7. ExclusiveCall' /\ DeliveredInOrder'
  BY <1>4 DEF IInv, ExclusiveCall, DeliveredInOrder
<1>8. CallAccounts'
  BY <1>4 DEF IInv, CallAccounts, Idle
<1>9. CallerKnowsBytesTaken'
  <2>1. AllIdle
    BY <1>4 DEF AllIdle
  <2>2. accepted + BytesUnreported = library.consumed
    BY <2>1 DEF IInv, CallerKnowsBytesTaken
  <2>3. accepted' + BytesUnreported' = library'.consumed
    BY <1>1, <1>2, <1>3, <2>2
  <2>4. lost'.interrupt = 0
    BY <1>3 DEF IInv, CallerKnowsBytesTaken
  <2> QED
    BY <2>3, <2>4 DEF CallerKnowsBytesTaken
<1> QED
  BY <1>1, <1>5, <1>6, <1>7, <1>8, <1>9 DEF IInv

(* Giving up the GVL starts a call that owns the object.                   *)
LEMMA ReleaseGvlIInv ==
  ASSUME IInv, Open, AllIdle,
         NEW t \in Threads, NEW op \in Ops, NEW source \in Nat,
         ReleaseGvl(t, op, source)
  PROVE  IInv'
<1> DEFINE new == [pc |-> "released", op |-> op, source_length |-> source,
                   remaining_source_length |-> source, result |-> "ok"]
<1>1. /\ ~object.gvl
      /\ call' = [call EXCEPT ![t] = new]
      /\ UNCHANGED <<phase, object, heap, memory, library, delivered, accepted, lost>>
  BY DEF ReleaseGvl
<1>2. new \in Call
  BY DEF Call, Results
<1>3. call \in [Threads -> Call]
  BY DEF IInv, TypeOK
<1>4. call'[t] = new /\ \A u \in Threads \ {t} : call'[u] = call[u] /\ Idle(u)'
  BY <1>1, <1>3 DEF AllIdle, Idle
<1>5. TypeOK'
  BY <1>1, <1>2, <1>3 DEF IInv, TypeOK
<1>6. Lifetime' /\ Ownership' /\ BufferHoldsOutput' /\ DeliveredInOrder' /\ Open'
  BY <1>1 DEF IInv, Lifetime, Ownership, BufferHoldsOutput, DeliveredInOrder, Open,
              Room, ResultLength
<1>7. ExclusiveCall'
  BY <1>1, <1>4, <1>6 DEF ExclusiveCall
<1>8. /\ accepted + BytesUnreported = library.consumed
      /\ accepted \in Nat /\ BytesUnreported \in Nat
      /\ BytesUnreported' = BytesUnreported
  BY <1>1 DEF IInv, CallerKnowsBytesTaken, TypeOK, Lost, BytesUnreported
<1>9. CallAccounts'
  <2>1. ASSUME NEW u \in Threads, u # t
        PROVE  /\ call'[u].remaining_source_length <= call'[u].source_length
               /\ call'[u].pc = "idle"
    BY <1>4, <2>1 DEF IInv, CallAccounts, Idle
  <2>2. /\ call'[t].remaining_source_length = source
        /\ call'[t].source_length = source
    BY <1>4
  <2>3. accepted' + BytesUnreported' + (source - source) = library'.consumed
    BY <1>1, <1>8
  <2> QED
    BY <2>1, <2>2, <2>3 DEF CallAccounts, Idle
<1>10. CallerKnowsBytesTaken'
  BY <1>1, <1>8 DEF IInv, CallerKnowsBytesTaken
<1> QED
  BY <1>5, <1>6, <1>7, <1>9, <1>10 DEF IInv

(* The wrapper has run: the bytes that it took are those that the call has *)
(* to report.                                                              *)
LEMMA RunWithoutGvlIInv ==
  ASSUME IInv,
         NEW t \in Threads, call[t].pc = "released",
         NEW finishing \in BOOLEAN,
         NEW o \in Outcomes(call[t].remaining_source_length, Room),
         LibraryRan(o, finishing),
         call' = [call EXCEPT
                    ![t].pc = "completed",
                    ![t].remaining_source_length = @ - o.consumed,
                    ![t].result = o.result],
         UNCHANGED <<phase, heap, delivered, accepted, lost>>
  PROVE  IInv'
<1> DEFINE source == call[t].remaining_source_length
<1>1. /\ ~Idle(t) /\ Open /\ ~object.gvl
      /\ \A u \in Threads \ {t} : Idle(u)
  BY DEF Idle, IInv, ExclusiveCall
<1>2. /\ call \in [Threads -> Call] /\ source \in Nat
      /\ call[t].source_length \in Nat /\ source = call[t].source_length
      /\ accepted \in Nat /\ library.consumed \in Nat
      /\ o.consumed \in Nat /\ o.consumed <= source /\ o.result \in Results
      /\ BytesUnreported \in Nat /\ BytesUnreported' = BytesUnreported
  BY DEF IInv, TypeOK, Call, CallAccounts, LibraryStream, Outcomes, Lost,
         BytesUnreported
<1>3. /\ object' \in Object
      /\ object'.state_ptr = object.state_ptr
      /\ object'.destination_buffer = object.destination_buffer
      /\ object'.gvl = object.gvl
      /\ library' \in LibraryStream
      /\ library'.consumed = library.consumed + o.consumed
      /\ memory' \in Seq(Nat)
      /\ BufferHoldsOutput'
  BY <1>1, <1>2, LibraryRanKeepsBuffer DEF IInv
<1> DEFINE new == [call[t] EXCEPT
                     !.pc = "completed",
                     !.remaining_source_length = source - o.consumed,
                     !.result = o.result]
<1>4. call' = [call EXCEPT ![t] = new]
  BY <1>2
<1>5. /\ new \in Call
      /\ new.pc = "completed"
      /\ new.source_length = source
      /\ new.remaining_source_length = source - o.consumed
  <2>1. call[t] \in Call /\ source - o.consumed \in Nat
    BY <1>2
  <2> HIDE DEF source
  <2> QED
    BY <1>2, <2>1 DEF Call
<1> HIDE DEF new
<1>6. call'[t] = new /\ \A u \in Threads \ {t} : call'[u] = call[u]
  BY <1>2, <1>4
<1>7. Open' /\ ~Idle(t)' /\ \A u \in Threads \ {t} : Idle(u)'
  BY <1>1, <1>3, <1>5, <1>6 DEF Open, Idle
<1>8. TypeOK'
  <2>1. call' \in [Threads -> Call]
    BY <1>2, <1>4, <1>5
  <2> QED
    BY <1>3, <2>1 DEF IInv, TypeOK
<1>9. Lifetime' /\ Ownership'
  BY <1>3, <1>7 DEF IInv, Lifetime, Ownership, Open, UnsetObject
<1>10. ExclusiveCall' /\ DeliveredInOrder'
  BY <1>1, <1>3, <1>7 DEF IInv, ExclusiveCall, DeliveredInOrder
<1>11. CallAccounts'
  <2>1. ASSUME NEW u \in Threads, u # t
        PROVE  /\ call'[u].remaining_source_length <= call'[u].source_length
               /\ call'[u].pc = "idle"
    BY <1>1, <1>6, <2>1 DEF IInv, CallAccounts, Idle
  <2>2. accepted + BytesUnreported + (call[t].source_length - source)
          = library.consumed
    BY <1>1 DEF IInv, CallAccounts
  <2>3. accepted' + BytesUnreported' + (source - (source - o.consumed))
          = library'.consumed
    BY <1>2, <1>3, <2>2
  <2>4. source - o.consumed <= source
    BY <1>2
  <2>5. /\ call'[t].remaining_source_length = source - o.consumed
        /\ call'[t].source_length = source
        /\ call'[t].pc = "completed"
    BY <1>5, <1>6
  <2> HIDE DEF source
  <2> QED
    BY <2>1, <2>3, <2>4, <2>5 DEF CallAccounts, Idle
<1>12. CallerKnowsBytesTaken'
  BY <1>3, <1>7 DEF IInv, CallerKnowsBytesTaken, AllIdle
<1> QED
  BY <1>3, <1>8, <1>9, <1>10, <1>11, <1>12 DEF IInv

(* The calls after one thread's call has ended.                            *)
LEMMA CallEnds ==
  ASSUME IInv, NEW t \in Threads, ~Idle(t),
         call' = [call EXCEPT ![t] = IdleCall],
         UNCHANGED <<phase, object, heap, memory, library, delivered>>
  PROVE  /\ call' \in [Threads -> Call]
         /\ AllIdle'
         /\ \A u \in Threads : call'[u].remaining_source_length
                                   <= call'[u].source_length
         /\ Lifetime' /\ Ownership' /\ ExclusiveCall'
         /\ BufferHoldsOutput' /\ DeliveredInOrder'
<1>1. call \in [Threads -> Call] /\ \A u \in Threads \ {t} : Idle(u)
  BY DEF IInv, TypeOK, ExclusiveCall
<1>2. /\ call'[t] = IdleCall
      /\ \A u \in Threads \ {t} : call'[u] = call[u]
  BY <1>1
<1>3. AllIdle'
  BY <1>1, <1>2, IdleCallIsCall DEF AllIdle, Idle
<1>4. phase = "initialized"
  BY DEF IInv, ExclusiveCall, Lifetime
<1>5. Lifetime' /\ Ownership' /\ BufferHoldsOutput' /\ DeliveredInOrder'
  BY <1>4 DEF IInv, Lifetime, Ownership, BufferHoldsOutput, DeliveredInOrder, Open,
              Room, ResultLength
<1>6. ExclusiveCall'
  BY <1>3 DEF ExclusiveCall, AllIdle
<1>7. \A u \in Threads : call'[u].remaining_source_length <= call'[u].source_length
  BY <1>2 DEF IdleCall, IInv, CallAccounts
<1> QED
  BY <1>1, <1>3, <1>5, <1>6, <1>7, IdleCallIsCall

(* A return reports what the call has taken.                               *)
LEMMA ReturnIInv ==
  ASSUME IInv, NEW t \in Threads, Return(t)
  PROVE  IInv'
<1> DEFINE source == call[t].source_length
           remaining == call[t].remaining_source_length
<1>1. /\ call[t].pc = "completed"
      /\ Reply(call[t].op, call[t].result, source, remaining)
      /\ call' = [call EXCEPT ![t] = IdleCall]
      /\ UNCHANGED <<phase, object, heap, memory, library, delivered>>
  BY DEF Return
<1>2. ~Idle(t) /\ Open /\ ~object.gvl
  BY <1>1 DEF Idle, IInv, ExclusiveCall
<1>3. /\ call' \in [Threads -> Call]
      /\ AllIdle'
      /\ \A u \in Threads : call'[u].remaining_source_length
                                <= call'[u].source_length
      /\ Lifetime' /\ Ownership' /\ ExclusiveCall'
      /\ BufferHoldsOutput' /\ DeliveredInOrder'
  <2>1. /\ call' = [call EXCEPT ![t] = IdleCall]
        /\ UNCHANGED <<phase, object, heap, memory, library, delivered>>
    BY <1>1
  <2> QED
    BY <1>2, <2>1, CallEnds
<1>4. /\ source \in Nat /\ remaining \in Nat /\ remaining <= source
      /\ accepted \in Nat /\ library.consumed \in Nat /\ lost \in Lost
  BY DEF IInv, TypeOK, Call, CallAccounts, LibraryStream
<1>5. /\ lost' \in Lost /\ accepted' \in Nat
      /\ accepted' + BytesUnreported' = accepted + BytesUnreported + (source - remaining)
  <2> HIDE DEF source, remaining
  <2> QED
    BY <1>1, <1>4, ReplyAccounts
<1>7. TypeOK'
  BY <1>1, <1>3, <1>5 DEF IInv, TypeOK
<1>8. CallAccounts'
  BY <1>3 DEF CallAccounts, AllIdle, Idle
<1>9. CallerKnowsBytesTaken'
  <2>1. accepted + BytesUnreported + (source - remaining) = library.consumed
    BY <1>2 DEF IInv, CallAccounts
  <2>2. accepted' + BytesUnreported' = library'.consumed
    BY <1>1, <1>5, <2>1
  <2> QED
    BY <1>1, <1>2, <2>2 DEF CallerKnowsBytesTaken
<1> QED
  BY <1>3, <1>7, <1>8, <1>9 DEF IInv

(* An interrupt drops the report of what the call has taken.               *)
LEMMA InterruptIInv ==
  ASSUME IInv, NEW t \in Threads, Interrupt(t)
  PROVE  IInv'
<1> DEFINE source == call[t].source_length
           remaining == call[t].remaining_source_length
<1>1. /\ ~Idle(t)
      /\ ReplyLost("interrupt", source - remaining)
      /\ call' = [call EXCEPT ![t] = IdleCall]
      /\ UNCHANGED <<phase, object, heap, memory, library, delivered>>
  BY DEF Interrupt
<1>2. Open /\ ~object.gvl
  BY <1>1 DEF IInv, ExclusiveCall
<1>3. /\ call' \in [Threads -> Call]
      /\ AllIdle'
      /\ \A u \in Threads : call'[u].remaining_source_length
                                <= call'[u].source_length
      /\ Lifetime' /\ Ownership' /\ ExclusiveCall'
      /\ BufferHoldsOutput' /\ DeliveredInOrder'
  <2>1. UNCHANGED <<phase, object, heap, memory, library, delivered>>
    BY <1>1
  <2> QED
    BY <1>1, <2>1, CallEnds
<1>4. /\ lost' \in Lost /\ accepted' \in Nat
      /\ accepted' + BytesUnreported' = accepted + BytesUnreported + (source - remaining)
  <2>1. source \in Nat /\ remaining \in Nat /\ remaining <= source
    BY DEF IInv, TypeOK, Call, CallAccounts
  <2> HIDE DEF source, remaining
  <2> QED
    BY <1>1, <2>1, LostAccounts DEF IInv, TypeOK
<1>5. TypeOK'
  BY <1>1, <1>3, <1>4 DEF IInv, TypeOK
<1>6. CallAccounts'
  BY <1>3 DEF CallAccounts, AllIdle, Idle
<1>7. CallerKnowsBytesTaken'
  <2>1. accepted + BytesUnreported + (source - remaining) = library.consumed
    BY <1>1 DEF IInv, CallAccounts
  <2>2. accepted' + BytesUnreported' = library'.consumed
    BY <1>1, <1>4, <2>1
  <2> QED
    BY <1>1, <1>2, <2>2 DEF CallerKnowsBytesTaken
<1> QED
  BY <1>3, <1>5, <1>6, <1>7 DEF IInv

--------------------------------------------------------------------------------
(* read_result, close and the finalizer.                                   *)

(* What is in the buffer is the sequence of the bytes that come after the  *)
(* delivered ones.                                                         *)
LEMMA BufferedResultIsNext ==
  ASSUME TypeOK, Open, BufferHoldsOutput
  PROVE  /\ ResultLength \in Nat
         /\ BufferedResult \in Seq(Nat)
         /\ Len(BufferedResult) = ResultLength
         /\ \A i \in 1 .. ResultLength : BufferedResult[i] = Len(delivered) + i
<1>1. /\ object.destination_buffer_length \in Nat
      /\ object.remaining_destination_buffer \in Nat
      /\ Room \in Nat
      /\ Len(delivered) \in Nat
  BY LenProperties DEF TypeOK, Object, Room
<1>2. ResultLength = object.remaining_destination_buffer
  BY <1>1 DEF BufferHoldsOutput, ResultLength
<1>3. ASSUME NEW i \in 1 .. ResultLength
      PROVE  /\ BufferedResult[i] = Len(delivered) + i
             /\ BufferedResult[i] \in Nat
  BY <1>1, <1>2 DEF BufferHoldsOutput, BufferedResult
<1>4. BufferedResult \in [1 .. ResultLength -> Nat]
  BY <1>3 DEF BufferedResult
<1> QED
  BY <1>1, <1>2, <1>3, <1>4, FunctionIsSeq

(* read_result appends the next bytes to the delivered ones and empties    *)
(* the buffer.                                                             *)
LEMMA ReadResultIInv ==
  ASSUME IInv, NEW t \in Threads, ReadResult(t)
  PROVE  IInv'
<1>1. /\ AllIdle /\ Open
      /\ delivered' = delivered \o BufferedResult
      /\ object' = Rewound
      /\ UNCHANGED <<phase, heap, memory, library, call, accepted, lost>>
  BY DEF ReadResult, ReadResultMethod, MayCall
<1> DEFINE length == object.destination_buffer_length
<1>2. /\ object' \in Object
      /\ object'.state_ptr = object.state_ptr
      /\ object'.destination_buffer = object.destination_buffer
      /\ object'.destination_buffer_length = length
      /\ object'.remaining_destination_buffer = 0
      /\ object'.remaining_destination_buffer_length = length
      /\ object'.gvl = object.gvl
  BY <1>1 DEF IInv, TypeOK, Object, Rewound
<1>3. /\ length \in Nat /\ delivered \in Seq(Nat) /\ Len(delivered) \in Nat
  BY LenProperties DEF IInv, TypeOK, Object
<1>4. /\ ResultLength \in Nat
      /\ BufferedResult \in Seq(Nat)
      /\ Len(BufferedResult) = ResultLength
      /\ \A i \in 1 .. ResultLength : BufferedResult[i] = Len(delivered) + i
  BY <1>1, BufferedResultIsNext DEF IInv
<1>5. /\ delivered' \in Seq(Nat)
      /\ Len(delivered') = Len(delivered) + ResultLength
      /\ \A i \in 1 .. (Len(delivered) + ResultLength) :
           delivered'[i] = IF i <= Len(delivered)
                           THEN delivered[i]
                           ELSE BufferedResult[i - Len(delivered)]
  BY <1>1, <1>3, <1>4, ConcatProperties
<1>6. Open' /\ AllIdle'
  BY <1>1, <1>2 DEF Open, AllIdle, Idle
<1>7. TypeOK'
  BY <1>1, <1>2, <1>5 DEF IInv, TypeOK
<1>8. Lifetime' /\ Ownership'
  BY <1>1, <1>2, <1>6 DEF IInv, Lifetime, Ownership
<1>9. ExclusiveCall'
  BY <1>6 DEF ExclusiveCall, AllIdle
<1>10. BufferHoldsOutput'
  <2>1. Room' = length /\ ResultLength' = 0
    BY <1>2, <1>3 DEF Room, ResultLength
  <2>2. library.emitted = Len(delivered) + ResultLength /\ length # 0
        /\ Len(memory) = length
    BY <1>1 DEF IInv, BufferHoldsOutput
  <2> QED
    BY <1>1, <1>2, <1>3, <1>4, <1>5, <2>1, <2>2 DEF BufferHoldsOutput
<1>11. DeliveredInOrder'
  <2>1. ASSUME NEW i \in 1 .. Len(delivered')
        PROVE  delivered'[i] = i
    <3>1. CASE i <= Len(delivered)
      BY <1>3, <1>5, <3>1 DEF IInv, DeliveredInOrder
    <3>2. CASE i > Len(delivered)
      <4>1. i - Len(delivered) \in 1 .. ResultLength
        BY <1>3, <1>4, <1>5, <3>2
      <4>2. delivered'[i] = BufferedResult[i - Len(delivered)]
        BY <1>3, <1>5, <3>2
      <4> QED
        BY <1>3, <1>4, <4>1, <4>2
    <3> QED
      BY <1>3, <3>1, <3>2
  <2> QED
    BY <2>1 DEF DeliveredInOrder
<1>12. CallAccounts' /\ CallerKnowsBytesTaken'
  BY <1>1, <1>2 DEF IInv, CallAccounts, CallerKnowsBytesTaken, BytesUnreported,
                    AllIdle, Idle
<1> QED
  BY <1>7, <1>8, <1>9, <1>10, <1>11, <1>12 DEF IInv

(* A stuttering step.                                                      *)
LEMMA UnchangedIInv == IInv /\ UNCHANGED vars => IInv'
BY DEF vars, IInv, TypeOK, Lifetime, Ownership, ExclusiveCall, BufferHoldsOutput,
       DeliveredInOrder, CallAccounts, CallerKnowsBytesTaken, BytesUnreported, Open,
       Idle, AllIdle, Room, ResultLength

(* read_result that raises has changed nothing.                            *)
LEMMA ReadResultRaisesIInv ==
  ASSUME IInv, NEW t \in Threads, ReadResultRaises(t)
  PROVE  IInv'
<1>1. UNCHANGED vars
  BY DEF ReadResultRaises, ReadResultNoMemory, ObjectAfterNoMemory, vars
<1> QED
  BY <1>1, UnchangedIInv

(* close frees both blocks and clears both pointers.                       *)
LEMMA CloseIInv ==
  ASSUME IInv, NEW t \in Threads, Close(t)
  PROVE  IInv'
<1>1. /\ AllIdle /\ Open
      /\ heap' = {} /\ object' = ClosedObject
      /\ UNCHANGED <<phase, memory, library, call, delivered, accepted, lost>>
  BY DEF Close, CloseMethod, MayCall, BlocksAfterFree, IInv, Ownership
<1>2. /\ object' \in Object
      /\ object'.state_ptr = NULL
      /\ object'.destination_buffer = NULL
      /\ object'.gvl = object.gvl
  BY <1>1 DEF IInv, TypeOK, Object, ClosedObject
<1>3. ~Open' /\ AllIdle' /\ phase' = "initialized"
  BY <1>1, <1>2 DEF Open, AllIdle, Idle, IInv, Lifetime
<1>4. TypeOK'
  BY <1>1, <1>2 DEF IInv, TypeOK
<1>5. Lifetime' /\ Ownership' /\ ExclusiveCall' /\ BufferHoldsOutput'
  BY <1>1, <1>2, <1>3 DEF Lifetime, Ownership, ExclusiveCall, BufferHoldsOutput,
                          AllIdle
<1>6. DeliveredInOrder' /\ CallAccounts' /\ CallerKnowsBytesTaken'
  BY <1>1, <1>2 DEF IInv, DeliveredInOrder, CallAccounts, CallerKnowsBytesTaken,
                    BytesUnreported, AllIdle, Idle
<1> QED
  BY <1>4, <1>5, <1>6 DEF IInv

(* The finalizer frees what is not freed yet, in every phase.              *)
LEMMA CollectIInv ==
  ASSUME IInv, Collect
  PROVE  IInv'
<1>1. /\ AllIdle
      /\ heap' = {} /\ object' = UnsetObject /\ phase' = "collected"
      /\ UNCHANGED <<memory, library, call, delivered, accepted, lost>>
  BY DEF Collect, BlocksAfterFree, IInv, Ownership
<1>2. ~Open' /\ AllIdle'
  BY <1>1, UnsetObjectIsClosed DEF Open, AllIdle, Idle
<1>3. TypeOK'
  BY <1>1, UnsetObjectIsClosed DEF IInv, TypeOK
<1>4. Lifetime' /\ Ownership' /\ ExclusiveCall' /\ BufferHoldsOutput'
  BY <1>1, <1>2, UnsetObjectIsClosed
     DEF Lifetime, Ownership, ExclusiveCall, BufferHoldsOutput, AllIdle
<1>5. DeliveredInOrder' /\ CallAccounts' /\ CallerKnowsBytesTaken'
  BY <1>1, UnsetObjectIsClosed
     DEF IInv, DeliveredInOrder, CallAccounts, CallerKnowsBytesTaken,
         BytesUnreported, AllIdle, Idle
<1> QED
  BY <1>3, <1>4, <1>5 DEF IInv

--------------------------------------------------------------------------------
(* What the invariant implies, and the abstract buffer.                    *)

(* The invariant implies the properties that are not part of it.           *)
LEMMA InvariantImplies == IInv => CallOwnsObject /\ NothingLost
<1> SUFFICES ASSUME IInv PROVE CallOwnsObject /\ NothingLost
  OBVIOUS
<1>1. CallOwnsObject
  BY DEF IInv, ExclusiveCall, Ownership, Open, CallOwnsObject
<1>2. NothingLost
  BY DEF IInv, BufferHoldsOutput, NothingLost
<1> QED
  BY <1>1, <1>2

(* The allocated object is an unopened buffer.                             *)
LEMMA InitImplements == Init => Buffer!Init
<1> SUFFICES ASSUME Init PROVE Buffer!Init
  OBVIOUS
<1>1. ~Open /\ phase = "allocated" /\ delivered = <<>>
  BY UnsetObjectIsClosed DEF Init, Open
<1> QED
  BY <1>1 DEF Buffer!Init, Status, Capacity, Pending

(* Errors before the object is open close the buffer unopened.             *)
LEMMA RaisesImplements ==
  ASSUME IInv, InitialStateRaises \/ CreateBufferRaises
  PROVE  Buffer!Close
<1>1. /\ phase = "allocated" /\ phase' = "raised"
      /\ object' = object /\ delivered' = delivered
  BY DEF InitialStateRaises, CreateBufferRaises
<1>2. ~Open /\ ~Open'
  BY <1>1 DEF IInv, Lifetime, Open, UnsetObject
<1> QED
  BY <1>1, <1>2 DEF Buffer!Close, Status, Capacity, Pending

(* A successful initialize opens the buffer.                               *)
LEMMA InitializeImplements ==
  ASSUME IInv, Initialize
  PROVE  Buffer!Open
<1>1. IInv'
  BY InitializeIInv
<1>2. /\ phase = "allocated" /\ phase' = "initialized" /\ delivered' = delivered
      /\ ~Open /\ delivered = <<>>
  BY DEF Initialize, IInv, Lifetime, Open, UnsetObject
<1>3. /\ Open'
      /\ ResultLength' = 0
      /\ object'.destination_buffer_length \in Nat \ {0}
  <2>0. PICK state \in Blocks \ heap, option \in BufferLengths, gvl \in GvlOptions :
          \E buffer \in Blocks \ (heap \cup {state}) :
            object' = InitializedObject(state, buffer, BufferLength(option), gvl)
    BY DEF Initialize
  <2>1. PICK buffer \in Blocks \ (heap \cup {state}) :
          object' = InitializedObject(state, buffer, BufferLength(option), gvl)
    BY <2>0
  <2>2. BufferLength(option) \in Nat \ {0}
    BY NativeStreamAssumption DEF BufferLength
  <2> QED
    BY <2>1, <2>2, NativeStreamAssumption
       DEF InitializedObject, Open, ResultLength, Room
<1>4. BufferedResult' = <<>>
  <2>1. BufferedResult' \in Seq(Nat) /\ Len(BufferedResult') = 0
    <3>1. BufferedResult' \in [1 .. 0 -> Nat]
      BY <1>3 DEF BufferedResult
    <3> QED
      BY <3>1, FunctionIsSeq
  <2> QED
    BY <2>1, EmptySeq
<1> QED
  BY <1>2, <1>3, <1>4 DEF Buffer!Open, Status, Capacity, Pending

(* A step of the library produces what it has written, or changes nothing  *)
(* if it has written nothing.                                              *)
LEMMA LibraryRanImplements ==
  ASSUME IInv, Open,
         NEW source \in Nat, NEW finishing \in BOOLEAN,
         NEW o \in Outcomes(source, Room),
         LibraryRan(o, finishing), UNCHANGED <<phase, delivered>>
  PROVE  Buffer!Next \/ UNCHANGED Buffer!vars
<1> DEFINE length == object.destination_buffer_length
<1>1. /\ object' \in Object
      /\ object'.state_ptr = object.state_ptr
      /\ object'.destination_buffer = object.destination_buffer
      /\ memory' \in Seq(Nat)
      /\ library' \in LibraryStream
      /\ BufferHoldsOutput'
  BY LibraryRanKeepsBuffer DEF IInv
<1>2. Open' /\ object'.destination_buffer_length = length
  BY <1>1 DEF Open, LibraryRan, IInv, TypeOK, Object
<1>3. /\ o.written \in Nat /\ o.written <= Room
      /\ Room \in Nat /\ length \in Nat /\ Len(delivered) \in Nat
  BY LenProperties DEF Outcomes, IInv, TypeOK, Object, Room
<1>4. Room' = Room - o.written
  BY <1>1 DEF LibraryRan, Room, IInv, TypeOK, Object
<1>5. ResultLength' = ResultLength + o.written /\ ResultLength = length - Room
  BY <1>2, <1>3, <1>4 DEF ResultLength
<1>6. /\ ResultLength \in Nat
      /\ BufferedResult \in Seq(Nat)
      /\ Len(BufferedResult) = ResultLength
      /\ \A i \in 1 .. ResultLength : BufferedResult[i] = Len(delivered) + i
  BY BufferedResultIsNext DEF IInv
<1>7. /\ BufferedResult' \in Seq(Nat)
      /\ Len(BufferedResult') = ResultLength + o.written
      /\ \A i \in 1 .. (ResultLength + o.written) :
           BufferedResult'[i] = Len(delivered) + i
  <2>1. \A i \in 1 .. ResultLength' : memory'[i] = Len(delivered) + i
    BY <1>1, <1>2 DEF BufferHoldsOutput
  <2>2. ASSUME NEW i \in 1 .. ResultLength'
        PROVE  BufferedResult'[i] = Len(delivered) + i /\ BufferedResult'[i] \in Nat
    <3>1. BufferedResult'[i] = memory'[i]
      BY DEF BufferedResult
    <3>2. i \in Nat
      BY <1>3, <1>5, <1>6
    <3> QED
      BY <1>3, <2>1, <3>1, <3>2
  <2>3. BufferedResult' \in [1 .. ResultLength' -> Nat]
    BY <2>2 DEF BufferedResult
  <2>4. ResultLength' \in Nat
    BY <1>3, <1>5, <1>6
  <2> QED
    BY <1>5, <2>2, <2>3, <2>4, FunctionIsSeq
<1> DEFINE next == BufferedResult
                     \o [i \in 1 .. o.written |->
                           Len(delivered) + Len(BufferedResult) + i]
<1>8. BufferedResult' = next
  <2> DEFINE s == BufferedResult
             t == BufferedResult'
             base == Len(delivered)
             n == o.written
  <2>1. /\ s \in Seq(Nat) /\ t \in Seq(Nat) /\ base \in Nat /\ n \in Nat
        /\ Len(t) = Len(s) + n
        /\ \A i \in 1 .. Len(s) : s[i] = base + i
        /\ \A i \in 1 .. Len(t) : t[i] = base + i
    BY <1>3, <1>6, <1>7
  <2> HIDE DEF s, t, base, n
  <2>2. t = s \o [i \in 1 .. n |-> base + Len(s) + i]
    BY <2>1, NumbersGoOn
  <2> QED
    BY <2>2 DEF s, t, base, n
<1>9. /\ Status = "open" /\ Status' = "open"
       /\ Capacity = length /\ Capacity' = length
       /\ Pending = BufferedResult /\ Pending' = next
  BY <1>2, <1>8 DEF Status, Capacity, Pending
<1>10. CASE o.written = 0
  <2>1. /\ Len(BufferedResult') = Len(BufferedResult)
        /\ \A i \in 1 .. Len(BufferedResult') : BufferedResult'[i] = BufferedResult[i]
    BY <1>6, <1>7, <1>10
  <2>2. BufferedResult' = BufferedResult
    BY <1>6, <1>7, <2>1, SeqEqual
  <2> HIDE DEF next
  <2> QED
    BY <1>8, <1>9, <2>2 DEF Buffer!vars
<1>11. CASE o.written # 0
  <2>1. o.written \in 1 .. (length - Len(BufferedResult))
    BY <1>3, <1>5, <1>6, <1>11
  <2>2. next = Pending \o Buffer!Produced(o.written)
    BY <1>9 DEF Buffer!Produced
  <2> HIDE DEF next
  <2> QED
    BY <1>9, <2>1, <2>2 DEF Buffer!Next, Buffer!Produce, Buffer!ProduceBytes
<1> QED
  BY <1>10, <1>11

(* read_result drains the buffer.                                          *)
LEMMA ReadResultImplements ==
  ASSUME IInv, NEW t \in Threads, ReadResult(t)
  PROVE  Buffer!Drain
<1>1. /\ Open /\ object' = Rewound
      /\ delivered' = delivered \o BufferedResult
      /\ phase' = phase
  BY DEF ReadResult, ReadResultMethod
<1>2. /\ object'.state_ptr = object.state_ptr
      /\ object'.destination_buffer = object.destination_buffer
      /\ object'.destination_buffer_length = object.destination_buffer_length
      /\ object'.remaining_destination_buffer_length
           = object.destination_buffer_length
      /\ object.destination_buffer_length \in Nat
  BY <1>1 DEF IInv, TypeOK, Object, Rewound
<1>3. Open' /\ ResultLength' = 0
  BY <1>1, <1>2 DEF Open, ResultLength, Room
<1>4. BufferedResult' = <<>>
  <2>1. BufferedResult' \in [1 .. 0 -> Nat]
    BY <1>3 DEF BufferedResult
  <2>2. BufferedResult' \in Seq(Nat) /\ Len(BufferedResult') = 0
    BY <2>1, FunctionIsSeq
  <2> QED
    BY <2>2, EmptySeq
<1> QED
  BY <1>1, <1>2, <1>3, <1>4 DEF Buffer!Drain, Status, Capacity, Pending

(* close and the finalizer close the buffer, if it is not closed.          *)
LEMMA CloseImplements ==
  ASSUME IInv, NEW t \in Threads, Close(t)
  PROVE  Buffer!Close
<1>1. Open /\ object' = ClosedObject /\ phase' = phase /\ delivered' = delivered
  BY DEF Close, CloseMethod
<1>2. ~Open' /\ phase' = "initialized"
  BY <1>1 DEF ClosedObject, Open, IInv, TypeOK, Object, Lifetime
<1> QED
  BY <1>1, <1>2 DEF Buffer!Close, Status, Capacity, Pending

LEMMA CollectImplements ==
  ASSUME IInv, Collect
  PROVE  Buffer!Next \/ UNCHANGED Buffer!vars
<1>1. object' = UnsetObject /\ phase' = "collected" /\ delivered' = delivered
  BY DEF Collect
<1>2. ~Open' /\ Status' = "closed" /\ Capacity' = 0 /\ Pending' = <<>>
  BY <1>1, UnsetObjectIsClosed DEF Open, Status, Capacity, Pending
<1>3. CASE Status = "closed"
  BY <1>1, <1>2, <1>3 DEF Buffer!vars, Status, Capacity, Pending
<1>4. CASE Status # "closed"
  BY <1>1, <1>2, <1>4 DEF Buffer!Next, Buffer!Close
<1> QED
  BY <1>3, <1>4

(* A step that leaves the object, its phase and its memory alone.          *)
LEMMA SameObjectImplements ==
  ASSUME UNCHANGED <<phase, object, memory, delivered>>
  PROVE  UNCHANGED Buffer!vars
BY DEF Buffer!vars, Status, Capacity, Pending, Open, BufferedResult, ResultLength, Room

(* On a closed object no call is in progress: only the finalizer is left.  *)
LEMMA ClosedObjectIsIdle ==
  ASSUME IInv, object.state_ptr = NULL
  PROVE  ~Open /\ \A t \in Threads : Idle(t)
BY DEF IInv, ExclusiveCall, Open

--------------------------------------------------------------------------------
(* What OutputBuffer promises.                                             *)

(* In every state of an OutputBuffer the bytes are numbered through.       *)
BufferInv ==
  /\ delivered \in Seq(Nat) /\ Pending \in Seq(Nat)
  /\ \A i \in 1 .. Len(delivered) : delivered[i] = i
  /\ \A i \in 1 .. Len(Pending) : Pending[i] = Len(delivered) + i

LEMMA ProduceIsNumbered ==
  ASSUME BufferInv, Buffer!Produce
  PROVE  BufferInv'
<1>1. PICK count \in 1 .. (Capacity - Len(Pending)) : Buffer!ProduceBytes(count)
  BY DEF Buffer!Produce
<1> DEFINE new == Buffer!Produced(count)
<1>2. delivered' = delivered /\ Pending' = Pending \o new
  BY <1>1 DEF Buffer!ProduceBytes
<1>3. Len(delivered) \in Nat /\ Len(Pending) \in Nat /\ count \in Nat
  BY <1>1 DEF BufferInv
<1>4. new \in Seq(Nat) /\ Len(new) = count
      /\ \A i \in 1 .. count : new[i] = Len(delivered) + Len(Pending) + i
  BY <1>3 DEF Buffer!Produced
<1> HIDE DEF new
<1>5. /\ Pending \o new \in Seq(Nat)
      /\ Len(Pending \o new) = Len(Pending) + count
      /\ \A i \in 1 .. Len(Pending) + count :
           (Pending \o new)[i] = IF i <= Len(Pending) THEN Pending[i]
                                                    ELSE new[i - Len(Pending)]
  BY <1>3, <1>4, ConcatProperties DEF BufferInv
<1>6. \A i \in 1 .. Len(Pending) + count :
        (Pending \o new)[i] = Len(delivered) + i
  BY <1>3, <1>4, <1>5 DEF BufferInv
<1> QED
  BY <1>2, <1>5, <1>6 DEF BufferInv

LEMMA DrainIsNumbered ==
  ASSUME BufferInv, Buffer!Drain
  PROVE  BufferInv'
<1>1. delivered' = delivered \o Pending /\ Pending' = <<>>
  BY DEF Buffer!Drain
<1>2. Len(delivered) \in Nat /\ Len(Pending) \in Nat
  BY DEF BufferInv
<1>3. /\ delivered \o Pending \in Seq(Nat)
      /\ Len(delivered \o Pending) = Len(delivered) + Len(Pending)
      /\ \A i \in 1 .. Len(delivered) + Len(Pending) :
           (delivered \o Pending)[i] =
             IF i <= Len(delivered) THEN delivered[i] ELSE Pending[i - Len(delivered)]
  BY <1>2, ConcatProperties DEF BufferInv
<1>4. \A i \in 1 .. Len(delivered) + Len(Pending) : (delivered \o Pending)[i] = i
  BY <1>2, <1>3 DEF BufferInv
<1> QED
  BY <1>1, <1>3, <1>4 DEF BufferInv

(* OutputBuffer says enough: whatever implements it, as the compressor and *)
(* the decompressor do, delivers its output in order.                      *)
THEOREM BufferPromises == ImplementsOutputBuffer => []DeliveredInOrder
<1>1. Buffer!Init => BufferInv
  BY DEF Buffer!Init, BufferInv
<1>2. BufferInv /\ [Buffer!Next]_(Buffer!vars) => BufferInv'
  <2>1. ASSUME BufferInv, UNCHANGED <<delivered, Pending>> \/ Buffer!Open
        PROVE  BufferInv'
    BY <2>1 DEF BufferInv, Buffer!Open
  <2>2. ASSUME BufferInv, Buffer!Close
        PROVE  BufferInv'
    BY <2>2 DEF BufferInv, Buffer!Close
  <2> QED
    BY <2>1, <2>2, ProduceIsNumbered, DrainIsNumbered DEF Buffer!Next, Buffer!vars
<1>3. BufferInv => DeliveredInOrder
  BY DEF BufferInv, DeliveredInOrder
<1> QED
  BY <1>1, <1>2, <1>3, PTL DEF ImplementsOutputBuffer, Buffer!Spec
================================================================================
