-------------------------- MODULE Decompressor_proofs --------------------------
(***************************************************************************)
(* The theorems on Decompressor: each action is one of NativeStream,       *)
(* applied to the answers of one function of the library.                  *)
(***************************************************************************)
EXTENDS Decompressor, NativeStream_proofs

(* What a method finds when it goes on.                                    *)
LEMMA CallerFacts ==
  ASSUME IInv
  PROVE  /\ library \in LibraryStream
         /\ Room \in Nat
         /\ \A t \in Threads : call[t].remaining_source_length \in Nat
         /\ 0 .. MaxSource \subseteq Nat
         /\ "read" \in Ops
BY NativeStreamAssumption DEF IInv, TypeOK, Object, Room, Call, Ops

(* read, under the GVL or up to the point where it is released.            *)
LEMMA ReadIInv ==
  ASSUME IInv, NEW t \in Threads, Read(t)
  PROVE  IInv' /\ (Buffer!Next \/ UNCHANGED Buffer!vars)
<1>1. AllIdle /\ Open
  BY DEF Read, MayCall
<1>2. PICK source \in 0 .. MaxSource :
        \/ ReleaseGvl(t, "read", source)
        \/ CallUnderGvl("read", source, DecompressAnswers(library, source, Room))
  BY DEF Read
<1>3. source \in Nat /\ "read" \in Ops
  BY CallerFacts
<1>4. CASE ReleaseGvl(t, "read", source)
  <2>1. IInv'
    BY <1>1, <1>3, <1>4, ReleaseGvlIInv
  <2>2. UNCHANGED <<phase, object, memory, delivered>>
    BY <1>4 DEF ReleaseGvl
  <2> QED
    BY <2>1, <2>2, SameObjectImplements
<1>5. CASE CallUnderGvl("read", source, DecompressAnswers(library, source, Room))
  <2>1. PICK o \in DecompressAnswers(library, source, Room) :
          /\ LibraryRan(o, "read" = "finish")
          /\ Reply("read", o.result, source, source - o.consumed)
    BY <1>5 DEF CallUnderGvl
  <2>2. object.gvl /\ UNCHANGED <<phase, heap, call, delivered>>
    BY <1>5 DEF CallUnderGvl
  <2>3. o \in Outcomes(source, Room)
    BY <1>3, CallerFacts, DecompressOutcomes
  <2>4. IInv'
    BY <1>1, <1>3, <2>1, <2>2, <2>3, CallUnderGvlIInv
  <2>5. Buffer!Next \/ UNCHANGED Buffer!vars
    BY <1>1, <1>3, <2>1, <2>2, <2>3, LibraryRanImplements
  <2> QED
    BY <2>4, <2>5
<1> QED
  BY <1>2, <1>4, <1>5

(* The wrapper, without the GVL.                                           *)
LEMMA RunIInv ==
  ASSUME IInv, NEW t \in Threads, RunDecompress(t)
  PROVE  IInv' /\ (Buffer!Next \/ UNCHANGED Buffer!vars)
<1> DEFINE source == call[t].remaining_source_length
<1>1. source \in Nat /\ library \in LibraryStream /\ Room \in Nat
  BY CallerFacts
<1>2. /\ call[t].pc = "released" /\ call[t].op = "read"
      /\ UNCHANGED <<phase, heap, delivered, accepted, lost>>
  BY DEF RunDecompress, RunWithoutGvl
<1>3. Open
  BY <1>2 DEF IInv, ExclusiveCall, Idle
<1>4. PICK o \in DecompressAnswers(library, source, Room) :
        /\ LibraryRan(o, FALSE)
        /\ call' = [call EXCEPT
                      ![t].pc = "completed",
                      ![t].remaining_source_length = @ - o.consumed,
                      ![t].result = o.result]
  BY DEF RunDecompress, RunWithoutGvl
<1>5. o \in Outcomes(source, Room)
  BY <1>1, DecompressOutcomes
<1>6. IInv'
  BY <1>2, <1>4, <1>5, RunWithoutGvlIInv
<1>7. Buffer!Next \/ UNCHANGED Buffer!vars
  BY <1>1, <1>2, <1>3, <1>4, <1>5, LibraryRanImplements
<1> QED
  BY <1>6, <1>7

(* Every step preserves the invariant and is a step of the abstract buffer *)
(* or leaves it alone.                                                     *)
LEMMA NextIInv ==
  ASSUME IInv, [Next]_vars
  PROVE  IInv' /\ (Buffer!Next \/ UNCHANGED Buffer!vars)
<1>1. CASE InitializeDecompressor
  <2>1. CASE InitialStateRaises \/ CreateBufferRaises
    BY <2>1, InitialStateRaisesIInv, CreateBufferRaisesIInv, RaisesImplements
       DEF Buffer!Next
  <2>2. CASE Initialize
    BY <2>2, InitializeIInv, InitializeImplements DEF Buffer!Next
  <2> QED
    BY <1>1, <2>1, <2>2 DEF InitializeDecompressor
<1>2. CASE Collect
  BY <1>2, CollectIInv, CollectImplements
<1>3. ASSUME NEW t \in Threads, Read(t)
      PROVE  IInv' /\ (Buffer!Next \/ UNCHANGED Buffer!vars)
  BY <1>3, ReadIInv
<1>4. ASSUME NEW t \in Threads, RunDecompress(t)
      PROVE  IInv' /\ (Buffer!Next \/ UNCHANGED Buffer!vars)
  BY <1>4, RunIInv
<1>5. ASSUME NEW t \in Threads, Return(t) \/ Interrupt(t)
      PROVE  IInv' /\ (Buffer!Next \/ UNCHANGED Buffer!vars)
  <2>1. IInv'
    BY <1>5, ReturnIInv, InterruptIInv
  <2>2. UNCHANGED <<phase, object, memory, delivered>>
    BY <1>5 DEF Return, Interrupt
  <2> QED
    BY <2>1, <2>2, SameObjectImplements
<1>6. ASSUME NEW t \in Threads, ReadResult(t)
      PROVE  IInv' /\ (Buffer!Next \/ UNCHANGED Buffer!vars)
  BY <1>6, ReadResultIInv, ReadResultImplements DEF Buffer!Next
<1>7. ASSUME NEW t \in Threads, ReadResultRaises(t)
      PROVE  IInv' /\ (Buffer!Next \/ UNCHANGED Buffer!vars)
  <2>1. UNCHANGED <<phase, object, memory, delivered>>
    BY <1>7 DEF ReadResultRaises, ReadResultNoMemory, ObjectAfterNoMemory
  <2> QED
    BY <1>7, <2>1, ReadResultRaisesIInv, SameObjectImplements
<1>8. ASSUME NEW t \in Threads, Close(t)
      PROVE  IInv' /\ (Buffer!Next \/ UNCHANGED Buffer!vars)
  BY <1>8, CloseIInv, CloseImplements DEF Buffer!Next
<1>9. CASE UNCHANGED vars
  <2>1. UNCHANGED <<phase, object, memory, delivered>>
    BY <1>9 DEF vars
  <2> QED
    BY <1>9, <2>1, UnchangedIInv, SameObjectImplements
<1> QED
  BY <1>1, <1>2, <1>3, <1>4, <1>5, <1>6, <1>7, <1>8, <1>9
     DEF Next, DecompressorReadResult, DecompressorClose, CollectDecompressor

--------------------------------------------------------------------------------
(* The theorems.                                                           *)

(* The inductive invariant holds in every state of a decompressor.         *)
THEOREM Invariance == Spec => []IInv
<1>1. DecompressorInit => IInv
  BY InitIInv DEF DecompressorInit
<1>2. IInv /\ [Next]_vars => IInv'
  BY NextIInv
<1> QED
  BY <1>1, <1>2, PTL DEF Spec

(* Every field of the decompressor, of its calls and of the library's      *)
(* stream has its type, whatever fails.                                    *)
THEOREM Types == Spec => []TypeOK
<1>1. IInv => TypeOK
  BY DEF IInv
<1> QED
  BY <1>1, Invariance, PTL

(* A decompressor never leaks and never frees twice, whatever fails and    *)
(* whenever it is interrupted or collected.                                *)
THEOREM MemorySafety == Spec => []Ownership
<1>1. IInv => Ownership
  BY DEF IInv
<1> QED
  BY <1>1, Invariance, PTL

(* A call that runs without the GVL never works on freed memory: nobody    *)
(* closes or uses the decompressor under it.                               *)
THEOREM CallSafety == Spec => []CallOwnsObject
<1>1. IInv => CallOwnsObject
  BY InvariantImplies
<1> QED
  BY <1>1, Invariance, PTL

(* read_result hands out the output of the decompressor in order, with no  *)
(* gap and nothing twice.                                                  *)
THEOREM InOrder == Spec => []DeliveredInOrder
<1>1. IInv => DeliveredInOrder
  BY DEF IInv
<1> QED
  BY <1>1, Invariance, PTL

(* Every byte that the library has written is delivered or still in the    *)
(* buffer, and the two descriptions of the buffer agree.                   *)
THEOREM Complete == Spec => []NothingLost
<1>1. IInv => NothingLost
  BY InvariantImplies
<1> QED
  BY <1>1, Invariance, PTL

(* What the caller was told is what the library has taken, but for just    *)
(* the bytes of the calls that raised; with :gvl => true an interrupt      *)
(* costs none.                                                             *)
THEOREM Counts == Spec => []CallerKnowsBytesTaken
<1>1. IInv => CallerKnowsBytesTaken
  BY DEF IInv
<1> QED
  BY <1>1, Invariance, PTL

(* A closed decompressor stays closed and does nothing.                    *)
THEOREM StaysClosed == Spec => ClosedForGood
<1> DEFINE Closed == phase = "initialized" /\ object.state_ptr = NULL
           Quiet == /\ UNCHANGED <<library, memory, delivered, accepted>>
                    /\ object'.state_ptr = NULL
<1>1. IInv /\ [Next]_vars => [Closed => Quiet]_vars
  <2> SUFFICES ASSUME IInv, Next, Closed PROVE Quiet
    OBVIOUS
  <2>1. ~Open /\ \A t \in Threads : Idle(t)
    BY ClosedObjectIsIdle
  <2>2. ~InitializeDecompressor
    BY DEF InitializeDecompressor, InitialStateRaises, CreateBufferRaises, Initialize
  <2>3. \A t \in Threads :
          ~(\/ Read(t) \/ RunDecompress(t) \/ Return(t) \/ Interrupt(t)
            \/ DecompressorReadResult(t) \/ DecompressorClose(t))
    BY <2>1 DEF Read, RunDecompress, RunWithoutGvl, Return, Interrupt,
                DecompressorReadResult, ReadResult, ReadResultMethod,
                ReadResultRaises, ReadResultNoMemory, DecompressorClose, Close,
                CloseMethod, Idle
  <2>4. Collect
    BY <2>2, <2>3 DEF Next, CollectDecompressor
  <2> QED
    BY <2>4, UnsetObjectIsClosed DEF Collect
<1>2. Spec => [][Closed => Quiet]_vars
  BY <1>1, Invariance, PTL DEF Spec
<1> QED
  BY <1>2 DEF ClosedForGood

(* The decompressor implements the bounded buffer of OutputBuffer.         *)
THEOREM Implements == Spec => ImplementsOutputBuffer
<1>1. DecompressorInit => Buffer!Init
  BY InitImplements DEF DecompressorInit
<1>2. IInv /\ [Next]_vars => [Buffer!Next]_(Buffer!vars)
  BY NextIInv
<1>3. Spec => Buffer!Spec
  BY <1>1, <1>2, Invariance, PTL DEF Spec, Buffer!Spec
<1> QED
  BY <1>3 DEF ImplementsOutputBuffer
================================================================================
