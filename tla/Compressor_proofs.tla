--------------------------- MODULE Compressor_proofs ---------------------------
(***************************************************************************)
(* The theorems on Compressor: each of its actions is one of NativeStream, *)
(* applied to the answers of one function of the library.                  *)
(***************************************************************************)
EXTENDS SharedCompressor, NativeStream_proofs

(* What a method finds when it goes on.                                    *)
LEMMA CallerFacts ==
  ASSUME IInv
  PROVE  /\ library \in LibraryStream
         /\ Room \in Nat
         /\ \A t \in Threads : call[t].remaining_source_length \in Nat
         /\ 0 .. MaxSource \subseteq Nat
         /\ "write" \in Ops /\ "finish" \in Ops
BY NativeStreamAssumption DEF IInv, TypeOK, Object, Room, Call, Ops

(* write and finish, under the GVL or up to the point where it is released.*)
LEMMA WriteIInv ==
  ASSUME IInv, NEW t \in Threads, Write(t)
  PROVE  IInv' /\ (Buffer!Next \/ UNCHANGED Buffer!vars)
<1>1. AllIdle /\ Open
  BY DEF Write, WriteMethod, MayCall
<1>2. PICK source \in 0 .. MaxSource :
        \/ ReleaseGvl(t, "write", source)
        \/ CallUnderGvl("write", source, CompressAnswers(library, source, Room))
  BY DEF Write, WriteMethod
<1>3. source \in Nat /\ "write" \in Ops
  BY CallerFacts
<1>4. CASE ReleaseGvl(t, "write", source)
  <2>1. IInv'
    BY <1>1, <1>3, <1>4, ReleaseGvlIInv
  <2>2. UNCHANGED <<phase, object, memory, delivered>>
    BY <1>4 DEF ReleaseGvl
  <2> QED
    BY <2>1, <2>2, SameObjectImplements
<1>5. CASE CallUnderGvl("write", source, CompressAnswers(library, source, Room))
  <2>1. PICK o \in CompressAnswers(library, source, Room) :
          /\ LibraryRan(o, "write" = "finish")
          /\ Reply("write", o.result, source, source - o.consumed)
    BY <1>5 DEF CallUnderGvl
  <2>2. object.gvl /\ UNCHANGED <<phase, heap, call, delivered>>
    BY <1>5 DEF CallUnderGvl
  <2>3. o \in Outcomes(source, Room)
    BY <1>3, CallerFacts, CompressOutcomes
  <2>4. IInv'
    BY <1>1, <1>3, <2>1, <2>2, <2>3, CallUnderGvlIInv
  <2>5. Buffer!Next \/ UNCHANGED Buffer!vars
    BY <1>1, <1>3, <2>1, <2>2, <2>3, LibraryRanImplements
  <2> QED
    BY <2>4, <2>5
<1> QED
  BY <1>2, <1>4, <1>5

LEMMA FinishIInv ==
  ASSUME IInv, NEW t \in Threads, Finish(t)
  PROVE  IInv' /\ (Buffer!Next \/ UNCHANGED Buffer!vars)
<1>1. AllIdle /\ Open
  BY DEF Finish, FinishMethod, MayCall
<1>2. "finish" \in Ops
  BY CallerFacts
<1>3. CASE ReleaseGvl(t, "finish", 0)
  <2>1. IInv'
    BY <1>1, <1>2, <1>3, ReleaseGvlIInv
  <2>2. UNCHANGED <<phase, object, memory, delivered>>
    BY <1>3 DEF ReleaseGvl
  <2> QED
    BY <2>1, <2>2, SameObjectImplements
<1>4. CASE CallUnderGvl("finish", 0, FinishAnswers(library, Room))
  <2>1. PICK o \in FinishAnswers(library, Room) :
          /\ LibraryRan(o, "finish" = "finish")
          /\ Reply("finish", o.result, 0, 0 - o.consumed)
    BY <1>4 DEF CallUnderGvl
  <2>2. object.gvl /\ UNCHANGED <<phase, heap, call, delivered>>
    BY <1>4 DEF CallUnderGvl
  <2>3. o \in Outcomes(0, Room)
    BY CallerFacts, FinishOutcomes
  <2>4. IInv'
    BY <1>1, <1>2, <2>1, <2>2, <2>3, CallUnderGvlIInv
  <2>5. Buffer!Next \/ UNCHANGED Buffer!vars
    BY <1>1, <2>1, <2>2, <2>3, LibraryRanImplements
  <2> QED
    BY <2>4, <2>5
<1> QED
  BY <1>3, <1>4 DEF Finish, FinishMethod

(* The wrappers, without the GVL.                                          *)
LEMMA RunIInv ==
  ASSUME IInv, NEW t \in Threads, RunCompress(t) \/ RunFinish(t)
  PROVE  IInv' /\ (Buffer!Next \/ UNCHANGED Buffer!vars)
<1> DEFINE source == call[t].remaining_source_length
<1>1. source \in Nat /\ library \in LibraryStream /\ Room \in Nat
  BY CallerFacts
<1>2. call[t].pc = "released" /\ UNCHANGED <<phase, heap, delivered, accepted, lost>>
  BY DEF RunCompress, RunFinish, RunWithoutGvl
<1>3. Open
  BY <1>2 DEF IInv, ExclusiveCall, Idle
<1>4. \E finishing \in BOOLEAN, o \in Outcomes(source, Room) :
        /\ LibraryRan(o, finishing)
        /\ call' = [call EXCEPT
                      ![t].pc = "completed",
                      ![t].remaining_source_length = @ - o.consumed,
                      ![t].result = o.result]
  <2>1. CASE RunCompress(t)
    <3>1. PICK o \in CompressAnswers(library, source, Room) :
            /\ LibraryRan(o, FALSE)
            /\ call' = [call EXCEPT
                          ![t].pc = "completed",
                          ![t].remaining_source_length = @ - o.consumed,
                          ![t].result = o.result]
      BY <2>1 DEF RunCompress, RunWithoutGvl
    <3>2. o \in Outcomes(source, Room)
      BY <1>1, CompressOutcomes
    <3> QED
      BY <3>1, <3>2
  <2>2. CASE RunFinish(t)
    <3>1. PICK o \in FinishAnswers(library, Room) :
            /\ LibraryRan(o, TRUE)
            /\ call' = [call EXCEPT
                          ![t].pc = "completed",
                          ![t].remaining_source_length = @ - o.consumed,
                          ![t].result = o.result]
      BY <2>2 DEF RunFinish, RunWithoutGvl
    <3>2. o \in Outcomes(0, Room)
      BY <1>1, FinishOutcomes
    <3>3. o \in Outcomes(source, Room)
      BY <1>1, <3>2 DEF Outcomes
    <3> QED
      BY <3>1, <3>3
  <2> QED
    BY <2>1, <2>2
<1>5. PICK finishing \in BOOLEAN, o \in Outcomes(source, Room) :
        /\ LibraryRan(o, finishing)
        /\ call' = [call EXCEPT
                      ![t].pc = "completed",
                      ![t].remaining_source_length = @ - o.consumed,
                      ![t].result = o.result]
  BY <1>4
<1>6. IInv'
  BY <1>2, <1>5, RunWithoutGvlIInv
<1>7. Buffer!Next \/ UNCHANGED Buffer!vars
  BY <1>1, <1>2, <1>3, <1>5, LibraryRanImplements
<1> QED
  BY <1>6, <1>7

(* Every step preserves the invariant and is a step of the abstract buffer *)
(* or leaves it alone.                                                     *)
LEMMA NextIInv ==
  ASSUME IInv, [Next]_vars
  PROVE  IInv' /\ (Buffer!Next \/ UNCHANGED Buffer!vars)
<1>1. CASE InitializeCompressor
  <2>1. CASE InitialStateRaises \/ CreateBufferRaises
    BY <2>1, InitialStateRaisesIInv, CreateBufferRaisesIInv, RaisesImplements
       DEF Buffer!Next
  <2>2. CASE Initialize
    BY <2>2, InitializeIInv, InitializeImplements DEF Buffer!Next
  <2> QED
    BY <1>1, <2>1, <2>2 DEF InitializeCompressor
<1>2. CASE Collect
  BY <1>2, CollectIInv, CollectImplements
<1>3. ASSUME NEW t \in Threads, Write(t)
      PROVE  IInv' /\ (Buffer!Next \/ UNCHANGED Buffer!vars)
  BY <1>3, WriteIInv
<1>4. ASSUME NEW t \in Threads, Finish(t)
      PROVE  IInv' /\ (Buffer!Next \/ UNCHANGED Buffer!vars)
  BY <1>4, FinishIInv
<1>5. ASSUME NEW t \in Threads, RunCompress(t) \/ RunFinish(t)
      PROVE  IInv' /\ (Buffer!Next \/ UNCHANGED Buffer!vars)
  BY <1>5, RunIInv
<1>6. ASSUME NEW t \in Threads, Return(t) \/ Interrupt(t)
      PROVE  IInv' /\ (Buffer!Next \/ UNCHANGED Buffer!vars)
  <2>1. IInv'
    BY <1>6, ReturnIInv, InterruptIInv
  <2>2. UNCHANGED <<phase, object, memory, delivered>>
    BY <1>6 DEF Return, Interrupt
  <2> QED
    BY <2>1, <2>2, SameObjectImplements
<1>7. ASSUME NEW t \in Threads, ReadResult(t)
      PROVE  IInv' /\ (Buffer!Next \/ UNCHANGED Buffer!vars)
  BY <1>7, ReadResultIInv, ReadResultImplements DEF Buffer!Next
<1>8. ASSUME NEW t \in Threads, ReadResultRaises(t)
      PROVE  IInv' /\ (Buffer!Next \/ UNCHANGED Buffer!vars)
  <2>1. UNCHANGED <<phase, object, memory, delivered>>
    BY <1>8 DEF ReadResultRaises, ReadResultNoMemory, ObjectAfterNoMemory
  <2> QED
    BY <1>8, <2>1, ReadResultRaisesIInv, SameObjectImplements
<1>9. ASSUME NEW t \in Threads, Close(t)
      PROVE  IInv' /\ (Buffer!Next \/ UNCHANGED Buffer!vars)
  BY <1>9, CloseIInv, CloseImplements DEF Buffer!Next
<1>10. CASE UNCHANGED vars
  <2>1. UNCHANGED <<phase, object, memory, delivered>>
    BY <1>10 DEF vars
  <2> QED
    BY <1>10, <2>1, UnchangedIInv, SameObjectImplements
<1> QED
  BY <1>1, <1>2, <1>3, <1>4, <1>5, <1>6, <1>7, <1>8, <1>9, <1>10 DEF Next

--------------------------------------------------------------------------------
(* The theorems.                                                           *)

(* The inductive invariant holds in every state of a compressor.           *)
THEOREM Invariance == Spec => []IInv
<1>1. Init => IInv
  BY InitIInv
<1>2. IInv /\ [Next]_vars => IInv'
  BY NextIInv
<1> QED
  BY <1>1, <1>2, PTL DEF Spec

(* Every field of the compressor, of its calls and of the library's stream *)
(* has its type, whatever fails.                                           *)
THEOREM Types == Spec => []TypeOK
<1>1. IInv => TypeOK
  BY DEF IInv
<1> QED
  BY <1>1, Invariance, PTL

(* A compressor never leaks and never frees twice, whatever fails and      *)
(* whenever it is interrupted or collected.                                *)
THEOREM MemorySafety == Spec => []Ownership
<1>1. IInv => Ownership
  BY DEF IInv
<1> QED
  BY <1>1, Invariance, PTL

(* A call that runs without the GVL never works on freed memory: nobody    *)
(* closes or uses the compressor under it.                                 *)
THEOREM CallSafety == Spec => []CallOwnsObject
<1>1. IInv => CallOwnsObject
  BY InvariantImplies
<1> QED
  BY <1>1, Invariance, PTL

(* read_result hands out the output of the compressor in order, with no    *)
(* gap and nothing twice.                                                  *)
THEOREM InOrder == Spec => []DeliveredInOrder
<1>1. IInv => DeliveredInOrder
  BY DEF IInv
<1> QED
  BY <1>1, Invariance, PTL

(* Every byte that the library has written is delivered or still in the    *)
(* buffer, and the two descriptions of the buffer agree.                   *)
THEOREM Complete == Spec => []NothingLost
<1>1. IInv => NothingLost
  BY InvariantImplies
<1> QED
  BY <1>1, Invariance, PTL

(* What the caller was told is what the library has taken, but for just    *)
(* the bytes of the calls that raised; with :gvl => true an interrupt      *)
(* costs none.                                                             *)
THEOREM Counts == Spec => []CallerKnowsBytesTaken
<1>1. IInv => CallerKnowsBytesTaken
  BY DEF IInv
<1> QED
  BY <1>1, Invariance, PTL

(* A closed compressor stays closed and does nothing.                      *)
THEOREM StaysClosed == Spec => ClosedForGood
<1> DEFINE Closed == phase = "initialized" /\ object.state_ptr = NULL
           Quiet == /\ UNCHANGED <<library, memory, delivered, accepted>>
                    /\ object'.state_ptr = NULL
<1>1. IInv /\ [Next]_vars => [Closed => Quiet]_vars
  <2> SUFFICES ASSUME IInv, Next, Closed PROVE Quiet
    OBVIOUS
  <2>1. ~Open /\ \A t \in Threads : Idle(t)
    BY ClosedObjectIsIdle
  <2>2. ~InitializeCompressor
    BY DEF InitializeCompressor, InitialStateRaises, CreateBufferRaises, Initialize
  <2>3. \A t \in Threads :
          ~(\/ Write(t) \/ RunCompress(t) \/ Finish(t) \/ RunFinish(t)
            \/ Return(t) \/ Interrupt(t)
            \/ ReadResult(t) \/ ReadResultRaises(t) \/ Close(t))
    BY <2>1 DEF Write, WriteMethod, RunCompress, Finish, FinishMethod, RunFinish,
                RunWithoutGvl, Return, Interrupt, ReadResult, ReadResultMethod,
                ReadResultRaises, ReadResultNoMemory, Close, CloseMethod, Idle
  <2>4. Collect
    BY <2>2, <2>3 DEF Next
  <2> QED
    BY <2>4, UnsetObjectIsClosed DEF Collect
<1>2. Spec => [][Closed => Quiet]_vars
  BY <1>1, Invariance, PTL DEF Spec
<1> QED
  BY <1>2 DEF ClosedForGood

(* The compressor implements the bounded buffer of OutputBuffer.           *)
THEOREM Implements == Spec => ImplementsOutputBuffer
<1>1. Init => Buffer!Init
  BY InitImplements
<1>2. IInv /\ [Next]_vars => [Buffer!Next]_(Buffer!vars)
  BY NextIInv
<1>3. Spec => Buffer!Spec
  BY <1>1, <1>2, Invariance, PTL DEF Spec, Buffer!Spec
<1> QED
  BY <1>3 DEF ImplementsOutputBuffer

--------------------------------------------------------------------------------
(* SharedCompressor: the lock lets at most one thread into a call.         *)

(* Whoever is in a call, or is about to make one, has the lock.            *)
LockInv ==
  /\ place \in [Threads -> Places]
  /\ DOMAIN call = Threads
  /\ \A t \in Threads : place[t] \in {"locked", "library"} => owner = t
  /\ \A t \in Threads : ~Idle(t) => place[t] \in {"locked", "library"}

LEMMA InitLockInv == SharedInit => LockInv
BY DEF SharedInit, Init, LockInv, Places, Idle, IdleCall

(* A step that changes the place and the call of one thread only.          *)
LEMMA OneThreadMoves ==
  ASSUME LockInv, NEW t \in Threads, NEW to \in {"locked", "library"},
         place[t] \in {"locked", "library"},
         place' = place \/ Moves(t, to),
         call' = call \/ \E c : call' = [call EXCEPT ![t] = c],
         owner' = owner
  PROVE  LockInv'
<1>1. place' \in [Threads -> Places] /\ DOMAIN call' = Threads
  BY DEF LockInv, Moves, Places
<1>2. \A u \in Threads \ {t} : place'[u] = place[u] /\ call'[u] = call[u]
  BY DEF LockInv, Moves
<1>3. place'[t] \in {"locked", "library"} /\ owner' = t
  BY DEF LockInv, Moves
<1> QED
  BY <1>1, <1>2, <1>3 DEF LockInv, Idle

(* A step that leaves the calls and everybody's places alone.              *)
LEMMA NobodyMoves ==
  ASSUME LockInv, UNCHANGED <<call, owner, place>>
  PROVE  LockInv'
BY DEF LockInv, Idle

LEMMA CallMethodKeeps ==
  ASSUME LockInv, NEW t \in Threads, CallMethod(t)
  PROVE  LockInv'
<1>1. place[t] \in {"locked", "library"} /\ place' = place /\ owner' = owner
  BY DEF CallMethod, locks
<1>2. call' = call \/ \E c : call' = [call EXCEPT ![t] = c]
  BY DEF CallMethod, WriteMethod, FinishMethod, ReleaseGvl, CallUnderGvl,
         ReadResultMethod, ReadResultNoMemory, CloseMethod
<1> QED
  BY <1>1, <1>2, OneThreadMoves

LEMMA RunLibraryKeeps ==
  ASSUME LockInv, NEW t \in Threads, RunLibrary(t)
  PROVE  LockInv'
<1>1. place[t] \in {"locked", "library"} /\ Moves(t, "locked") /\ owner' = owner
  BY DEF RunLibrary
<1>2. CASE object.gvl /\ (WriteMethod(t) \/ FinishMethod(t))
  <2>1. call' = call
    BY <1>2 DEF WriteMethod, FinishMethod, ReleaseGvl, CallUnderGvl
  <2> QED
    BY <1>1, <2>1, OneThreadMoves
<1>3. CASE RunCompress(t) \/ RunFinish(t)
  <2>1. PICK o : call' = [call EXCEPT ![t].pc = "completed",
                                      ![t].remaining_source_length = @ - o.consumed,
                                      ![t].result = o.result]
    BY <1>3 DEF RunCompress, RunFinish, RunWithoutGvl
  <2>2. DOMAIN call' = Threads /\ \A u \in Threads \ {t} : call'[u] = call[u]
    BY <2>1 DEF LockInv
  <2>3. call' = [call EXCEPT ![t] = call'[t]]
    BY <2>1 DEF LockInv
  <2> QED
    BY <1>1, <2>3, OneThreadMoves
<1> QED
  BY <1>2, <1>3 DEF RunLibrary

LEMMA ResumeKeeps ==
  ASSUME LockInv, NEW t \in Threads, Resume(t)
  PROVE  LockInv'
<1>1. place[t] \in {"locked", "library"} /\ place' = place /\ owner' = owner
  BY DEF Resume, locks
<1>2. \E c : call' = [call EXCEPT ![t] = c]
  BY DEF Resume, Return, Interrupt
<1> QED
  BY <1>1, <1>2, OneThreadMoves

LEMMA TryLockKeeps ==
  ASSUME LockInv, NEW t \in Threads, TryLock(t), place[t] \in {"outside", "waiting"}
  PROVE  LockInv'
<1>1. /\ UNCHANGED call
      /\ \/ owner = Nobody /\ owner' = t /\ Moves(t, "locked")
         \/ Moves(t, "waiting") /\ owner' = owner
  BY DEF TryLock, MutexIsFree, vars
<1>2. place' \in [Threads -> Places]
  BY <1>1 DEF LockInv, Moves, Places
<1>3. \A u \in Threads \ {t} : place'[u] = place[u]
  BY <1>1 DEF LockInv, Moves
<1>4. Idle(t)
  BY DEF LockInv
<1>5. CASE owner = Nobody /\ owner' = t /\ Moves(t, "locked")
  <2>1. \A u \in Threads : place[u] \notin {"locked", "library"}
    BY <1>5, SharedAssumption DEF LockInv
  <2> QED
    BY <1>1, <1>2, <1>3, <1>4, <1>5, <2>1 DEF LockInv, Idle
<1>6. CASE Moves(t, "waiting") /\ owner' = owner
  <2>1. place'[t] = "waiting"
    BY <1>6 DEF LockInv, Moves
  <2> QED
    BY <1>1, <1>2, <1>3, <1>4, <1>6, <2>1 DEF LockInv, Idle
<1> QED
  BY <1>1, <1>5, <1>6

LEMMA UnlockKeeps ==
  ASSUME LockInv, NEW t \in Threads, Unlock(t)
  PROVE  LockInv'
<1>1. /\ UNCHANGED call /\ Idle(t) /\ owner = t /\ place'[t] = "outside"
      /\ place' \in [Threads -> Places]
      /\ \A u \in Threads \ {t} : place'[u] = place[u]
  BY DEF Unlock, BlockEnded, vars, Moves, LockInv, Places
<1>2. \A u \in Threads \ {t} : place[u] \notin {"locked", "library"}
  BY <1>1 DEF LockInv
<1> QED
  BY <1>1, <1>2 DEF LockInv, Idle

LEMMA SharedNextKeeps == ASSUME LockInv, [SharedNext]_sharedVars PROVE LockInv'
<1>1. ASSUME NEW t \in Threads, TakeGvl(t) \/ Switch(t) PROVE LockInv'
  BY <1>1, NobodyMoves DEF TakeGvl, Switch, vars
<1>2. ASSUME NEW t \in Threads, EnterLibrary(t) PROVE LockInv'
  BY <1>2, OneThreadMoves DEF EnterLibrary, vars
<1>3. ASSUME NEW t \in Threads, CreateOrCollect(t) PROVE LockInv'
  BY <1>3, NobodyMoves DEF CreateOrCollect, locks, InitializeCompressor,
     InitialStateRaises, CreateBufferRaises, Initialize, Collect
<1>4. ASSUME NEW t \in Threads, Lock(t) \/ LockAgain(t) PROVE LockInv'
  BY <1>4, TryLockKeeps DEF Lock, LockAgain
<1>5. CASE UNCHANGED sharedVars
  BY <1>5, NobodyMoves DEF sharedVars, vars, locks
<1> QED
  BY <1>1, <1>2, <1>3, <1>4, <1>5, RunLibraryKeeps, ResumeKeeps, UnlockKeeps,
     CallMethodKeeps DEF SharedNext

(* Every step of the threads is a step of Compressor, which is told that   *)
(* only one of them is in a call, or does not touch the object.            *)
LEMMA SharedNextImplements ==
  ASSUME IInv, LockInv, [SharedNext]_sharedVars
  PROVE  [Next]_vars
<1>1. ASSUME NEW t \in Threads, CallMethod(t) PROVE Next
  <2>1. \A u \in Threads : Idle(u)
    BY <1>1 DEF CallMethod, LockInv
  <2>2. MayCall(t)
    BY <2>1 DEF MayCall, AllIdle
  <2> QED
    BY <1>1, <2>2 DEF CallMethod, Next, Write, Finish, ReadResult, ReadResultRaises, Close
<1>2. ASSUME NEW t \in Threads, RunLibrary(t) \/ Resume(t) PROVE Next
  <2>1. CASE object.gvl /\ (WriteMethod(t) \/ FinishMethod(t))
    <3>1. MayCall(t)
      BY <2>1 DEF MayCall, AllIdle, IInv, ExclusiveCall
    <3> QED
      BY <2>1, <3>1 DEF Next, Write, Finish
  <2> QED
    BY <1>2, <2>1 DEF RunLibrary, Resume, Next
<1>3. ASSUME NEW t \in Threads, CreateOrCollect(t) PROVE Next
  BY <1>3 DEF CreateOrCollect, Next
<1>4. ASSUME NEW t \in Threads,
             \/ TakeGvl(t) \/ Switch(t) \/ EnterLibrary(t)
             \/ Lock(t) \/ LockAgain(t) \/ Unlock(t)
      PROVE  UNCHANGED vars
  BY <1>4 DEF TakeGvl, Switch, EnterLibrary, Lock, LockAgain, TryLock, Unlock
<1>5. CASE UNCHANGED sharedVars
  BY <1>5 DEF sharedVars
<1> QED
  BY <1>1, <1>2, <1>3, <1>4, <1>5 DEF SharedNext

--------------------------------------------------------------------------------
(* SharedCompressor: a thread in the library.                               *)

(* A thread in the library of a compressor with :gvl => true has the GVL.  *)
GvlKept == \A t \in Threads : place[t] = "library" /\ object.gvl => gvl = t

LEMMA InitGvlKept == SharedInit => GvlKept
BY DEF SharedInit, GvlKept

(* Nobody else is in the library, so nobody else comes to be there without *)
(* the GVL.                                                                *)
LEMMA SharedNextGvlKept ==
  ASSUME GvlKept, LockInv, [SharedNext]_sharedVars
  PROVE  GvlKept'
<1>1. ASSUME NEW t \in Threads,
             \/ TakeGvl(t) \/ Switch(t)
             \/ Lock(t) \/ LockAgain(t) \/ Unlock(t)
      PROVE  GvlKept'
  <2>1. gvl \in {t, Nobody} /\ (gvl = t => place[t] # "library")
    <3>1. CASE TakeGvl(t)
      BY <3>1, SharedAssumption DEF TakeGvl
    <3>2. CASE Switch(t) \/ Lock(t) \/ LockAgain(t) \/ Unlock(t)
      BY <3>2 DEF Switch, Lock, LockAgain, TryLock, Unlock
    <3> QED
      BY <1>1, <3>1, <3>2
  <2>2. \A u \in Threads : ~(place[u] = "library" /\ object.gvl)
    BY <2>1, SharedAssumption DEF GvlKept
  <2>3. /\ UNCHANGED vars
        /\ \/ place' = place
           \/ \E to \in Places \ {"library"} : Moves(t, to)
    BY <1>1 DEF TakeGvl, Switch, Lock, LockAgain, TryLock, Unlock, Places
  <2>4. \A u \in Threads : place'[u] = "library" => place[u] = "library"
    BY <2>3 DEF LockInv, Moves
  <2> QED
    BY <2>2, <2>3, <2>4 DEF GvlKept, vars
<1>2. ASSUME NEW t \in Threads, EnterLibrary(t) PROVE GvlKept'
  <2>1. owner = t /\ gvl' = GvlInLibrary(t) /\ UNCHANGED vars
    BY <1>2 DEF EnterLibrary, LockInv
  <2>2. \A u \in Threads \ {t} : place'[u] # "library"
    BY <1>2, <2>1 DEF EnterLibrary, Moves, LockInv
  <2> QED
    BY <2>1, <2>2 DEF GvlKept, GvlInLibrary, vars
<1>3. ASSUME NEW t \in Threads, RunLibrary(t) \/ Resume(t) \/ CallMethod(t)
      PROVE  GvlKept'
  <2>1. owner = t /\ place'[t] = "locked"
    BY <1>3 DEF RunLibrary, Resume, CallMethod, locks, LockInv, Moves
  <2>2. \A u \in Threads \ {t} : place'[u] # "library"
    BY <1>3, <2>1 DEF RunLibrary, Resume, CallMethod, locks, LockInv, Moves
  <2> QED
    BY <2>1, <2>2 DEF GvlKept
<1>4. ASSUME NEW t \in Threads, CreateOrCollect(t) PROVE GvlKept'
  BY <1>4 DEF CreateOrCollect, locks, GvlKept
<1>5. CASE UNCHANGED sharedVars
  BY <1>5 DEF sharedVars, vars, locks, GvlKept
<1> QED
  BY <1>1, <1>2, <1>3, <1>4, <1>5 DEF SharedNext

(* A step is one of the thread that has the GVL, or of one in the library; *)
(* with :gvl => true they are the same, who takes no step but to leave.    *)
LEMMA GvlStops ==
  ASSUME GvlKept, LockInv, SharedNext, NEW t \in Threads,
         object.gvl, place[t] = "library", place'[t] = "library"
  PROVE  FALSE
<1>1. gvl = t /\ owner = t /\ t # Nobody
  BY SharedAssumption DEF GvlKept, LockInv
<1>2. ASSUME NEW u \in Threads, RunLibrary(u) PROVE FALSE
  <2>1. u = t
    BY <1>1, <1>2 DEF RunLibrary, LockInv
  <2>2. place'[t] = "locked"
    BY <1>2, <2>1 DEF RunLibrary, Moves, LockInv
  <2> QED
    BY <2>2
<1>3. ASSUME NEW u \in Threads,
             \/ TakeGvl(u) \/ Switch(u) \/ EnterLibrary(u) \/ Resume(u)
             \/ Lock(u) \/ LockAgain(u) \/ Unlock(u)
             \/ CallMethod(u) \/ CreateOrCollect(u)
      PROVE  FALSE
  BY <1>1, <1>3 DEF TakeGvl, Switch, EnterLibrary, Resume, Lock, LockAgain,
     TryLock, Unlock, CallMethod, CreateOrCollect
<1> QED
  BY <1>2, <1>3 DEF SharedNext

(* A thread in the library has the Mutex, so no other one is in a method,  *)
(* and the object has a user, so it is not collected.                      *)
LEMMA LibraryHasTheObject ==
  ASSUME LockInv, SharedNext, NEW t \in Threads,
         place[t] = "library", place'[t] = "library"
  PROVE  UNCHANGED vars
<1>1. ASSUME NEW u \in Threads, CallMethod(u) \/ Resume(u) PROVE FALSE
  <2>1. place[u] = "locked"
    BY <1>1 DEF CallMethod, Resume
  <2> QED
    BY <2>1 DEF LockInv
<1>2. ASSUME NEW u \in Threads, RunLibrary(u) PROVE FALSE
  <2>1. place[u] = "library" /\ place'[u] = "locked"
    BY <1>2 DEF RunLibrary, Moves, LockInv
  <2> QED
    BY <2>1 DEF LockInv
<1>3. ASSUME NEW u \in Threads, CreateOrCollect(u) PROVE FALSE
  BY <1>3 DEF CreateOrCollect
<1>4. ASSUME NEW u \in Threads,
             \/ TakeGvl(u) \/ Switch(u) \/ EnterLibrary(u)
             \/ Lock(u) \/ LockAgain(u) \/ Unlock(u)
      PROVE  UNCHANGED vars
  BY <1>4 DEF TakeGvl, Switch, EnterLibrary, Lock, LockAgain, TryLock, Unlock
<1> QED
  BY <1>1, <1>2, <1>3, <1>4 DEF SharedNext

--------------------------------------------------------------------------------
(* The theorems on shared compressors.                                     *)

(* The invariant of the object, who has the Mutex, and who has the GVL     *)
(* while the library runs.                                                 *)
THEOREM SharedInvariance == SharedSpec => [](IInv /\ LockInv /\ GvlKept)
<1>1. SharedInit => IInv /\ LockInv /\ GvlKept
  BY InitIInv, InitLockInv, InitGvlKept DEF SharedInit
<1>2. IInv /\ LockInv /\ GvlKept /\ [SharedNext]_sharedVars
        => IInv' /\ LockInv' /\ GvlKept'
  BY SharedNextImplements, NextIInv, SharedNextKeeps, SharedNextGvlKept
<1> QED
  BY <1>1, <1>2, PTL DEF SharedSpec

(* Threads that lock the compressor use it as Compressor supposes, so all  *)
(* its theorems are theirs.                                                *)
THEOREM LockIsEnough == SharedSpec => ImplementsCompressor
<1>1. SharedInit => Init
  BY DEF SharedInit
<1>2. IInv /\ LockInv /\ [SharedNext]_sharedVars => [Next]_vars
  BY SharedNextImplements
<1>3. SharedSpec => Spec
  BY <1>1, <1>2, SharedInvariance, PTL DEF SharedSpec, Spec
<1> QED
  BY <1>3 DEF ImplementsCompressor

(* In particular: whichever threads call, and whatever interrupts them,    *)
(* nothing leaks and nothing is freed under a thread that is in the        *)
(* library; output is delivered in order and complete; what the callers    *)
(* were told is what the library has taken, but for just the bytes of the  *)
(* calls that raised, of which none was interrupted if they keep the GVL.  *)
THEOREM SharedSafety ==
  SharedSpec => [](/\ Ownership /\ CallOwnsObject
                   /\ DeliveredInOrder /\ NothingLost
                   /\ CallerKnowsBytesTaken)
BY LockIsEnough, MemorySafety, CallSafety, InOrder, Complete, Counts, PTL
   DEF ImplementsCompressor

(* Shared by its threads the compressor is still one bounded buffer, and   *)
(* once closed by one of them it is closed for all.                        *)
THEOREM SharedImplements == SharedSpec => ImplementsOutputBuffer /\ ClosedForGood
BY LockIsEnough, Implements, StaysClosed, PTL DEF ImplementsCompressor

(* While a thread is in the library, with or without the GVL, nobody else  *)
(* touches the compressor: its work may be taken for one step.             *)
THEOREM LibraryCallIsAtomic == SharedSpec => LibraryIsAlone
<1>1. LockInv /\ [SharedNext]_sharedVars
        => [\A t \in Threads :
              place[t] = "library" /\ place'[t] = "library" => UNCHANGED vars]_sharedVars
  <2> SUFFICES ASSUME LockInv, SharedNext, NEW t \in Threads,
                      place[t] = "library", place'[t] = "library"
               PROVE  UNCHANGED vars
    OBVIOUS
  <2> QED
    BY LibraryHasTheObject
<1> QED
  BY <1>1, SharedInvariance, PTL DEF SharedSpec, LibraryIsAlone

(* With :gvl => true no thread does anything while one is in the library.  *)
THEOREM GvlIsHeld == SharedSpec => GvlStopsOthers
<1>1. LockInv /\ GvlKept /\ [SharedNext]_sharedVars
        => [\A t \in Threads :
              object.gvl /\ place[t] = "library" /\ place'[t] = "library"
                => UNCHANGED sharedVars]_sharedVars
  BY GvlStops
<1> QED
  BY <1>1, SharedInvariance, PTL DEF SharedSpec, GvlStopsOthers
================================================================================
