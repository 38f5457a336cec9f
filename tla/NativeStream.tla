------------------------------ MODULE NativeStream ------------------------------
(***************************************************************************)
(* What NativeCompressor and NativeDecompressor have in common: the C      *)
(* object wrapped by Data_Make_Struct, the memory it owns, and the way a   *)
(* Ruby thread calls into the library, with or without the global VM lock  *)
(* (GVL).  stream/compressor.c and stream/decompressor.c repeat this text; *)
(* Compressor and Decompressor give their own methods and next-state       *)
(* relations.                                                              *)
(*                                                                         *)
(* Code that runs under the GVL is one step.  A library call of an object  *)
(* made with :gvl => false is three: the checks before the GVL is          *)
(* released, the library's work, and the return with the GVL taken again.  *)
(*                                                                         *)
(* Operators whose name has the form Name_Fault are mutated forms of Name. *)
(***************************************************************************)
EXTENDS LzwsLibrary, Sequences, FiniteSets

CONSTANTS
  Threads,              \* the Ruby threads that use the object
  Blocks,               \* addresses that malloc can return
  NULL,
  BufferLengths,        \* values of option :destination_buffer_length, 0 is auto
  DefaultBufferLength,  \* what the library takes for 0
  GvlOptions,           \* values of option :gvl
  MaxSource,            \* bound: length of the source string of one call
  MaxConsumed           \* bound: source bytes taken over the object's life

ASSUME NativeStreamAssumption ==
  /\ NULL \notin Blocks
  /\ BufferLengths \subseteq Nat
  /\ DefaultBufferLength \in Nat \ {0}
  /\ GvlOptions \subseteq BOOLEAN
  /\ MaxSource \in Nat
  /\ MaxConsumed \in Nat

VARIABLES
  phase,      \* where the Ruby object is in its life
  object,     \* lzws_ext_compressor_t or lzws_ext_decompressor_t
  heap,       \* the blocks allocated and not freed
  memory,     \* the content of the destination buffer
  library,    \* the stream behind state_ptr
  call,       \* the native call each thread is in
  delivered,  \* history: the bytes that read_result has returned
  accepted,   \* history: the source bytes reported as taken
  lost        \* history: the source bytes taken by calls whose report was
              \* lost, by what has happened to it

vars == <<phase, object, heap, memory, library, call, delivered, accepted, lost>>

Ops == {"write", "finish", "read"}

Object ==
  [state_ptr: Blocks \cup {NULL},
   destination_buffer: Blocks \cup {NULL},
   destination_buffer_length: Nat,
   remaining_destination_buffer: Nat,   \* as an offset into destination_buffer
   remaining_destination_buffer_length: Nat,
   gvl: BOOLEAN]

(* The arguments structure handed to the wrapper, and where the thread is. *)
Call ==
  [pc: {"idle", "released", "completed"},
   op: Ops,
   source_length: Nat,
   remaining_source_length: Nat,
   result: Results]

Lost == [failure: Nat, no_memory: Nat, interrupt: Nat]

NothingLostYet == [failure |-> 0, no_memory |-> 0, interrupt |-> 0]

BytesUnreported == lost.failure + lost.no_memory + lost.interrupt

IdleCall ==
  [pc |-> "idle", op |-> "write", source_length |-> 0,
   remaining_source_length |-> 0, result |-> "ok"]

Idle(t) == call[t].pc = "idle"

AllIdle == \A t \in Threads : Idle(t)

--------------------------------------------------------------------------------
(* Allocation and initialization.                                          *)

(* The struct after lzws_ext_allocate_*.                                   *)
UnsetObject ==
  [state_ptr                           |-> NULL,
   destination_buffer                  |-> NULL,
   destination_buffer_length           |-> 0,
   remaining_destination_buffer        |-> 0,
   remaining_destination_buffer_length |-> 0,
   gvl                                 |-> FALSE]

Init ==
  /\ phase = "allocated"
  /\ object = UnsetObject
  /\ heap = {}
  /\ memory = <<>>
  /\ library = NewStream(0)
  /\ call = [t \in Threads |-> IdleCall]
  /\ delivered = <<>>
  /\ accepted = 0
  /\ lost = NothingLostYet

BufferLength(option) == IF option = 0 THEN DefaultBufferLength ELSE option

InitializedObject(state, buffer, length, gvl) ==
  [state_ptr                           |-> state,
   destination_buffer                  |-> buffer,
   destination_buffer_length           |-> length,
   remaining_destination_buffer        |-> 0,
   remaining_destination_buffer_length |-> length,
   gvl                                 |-> gvl]

(* The options are not valid, or lzws_*_get_initial_state fails: an error  *)
(* is raised before anything is allocated.                                 *)
InitialStateRaises ==
  /\ phase = "allocated"
  /\ phase' = "raised"
  /\ UNCHANGED <<object, heap, memory, library, call, delivered, accepted, lost>>

(* Blocks left when the destination buffer cannot be created: the state is *)
(* freed before the error is raised.                                       *)
BlocksAfterBufferFailed_Leaks(state) == heap \cup {state}
BlocksAfterBufferFailed(state) == (heap \cup {state}) \ {state}

CreateBufferRaises ==
  /\ phase = "allocated"
  /\ phase' = "raised"
  /\ \E state \in Blocks \ heap : heap' = BlocksAfterBufferFailed(state)
  /\ UNCHANGED <<object, memory, library, call, delivered, accepted, lost>>

Initialize ==
  /\ phase = "allocated"
  /\ phase' = "initialized"
  /\ \E state \in Blocks \ heap, option \in BufferLengths, gvl \in GvlOptions :
       \E buffer \in Blocks \ (heap \cup {state}) :
         LET length == BufferLength(option)
         IN  /\ heap' = heap \cup {state, buffer}
             /\ object' = InitializedObject(state, buffer, length, gvl)
             /\ memory' = [i \in 1 .. length |-> 0]
  /\ \E header \in HeaderLengths : library' = NewStream(header)
  /\ UNCHANGED <<call, delivered, accepted, lost>>

--------------------------------------------------------------------------------
(* Calls into the library.                                                 *)

(* DO_NOT_USE_AFTER_CLOSE lets a method go on only if this holds; it       *)
(* raises UsedAfterCloseError, with no effect, if it does not.             *)
Open_Unchecked == phase = "initialized"
Open == object.state_ptr # NULL /\ object.destination_buffer # NULL

(* The callers' rule, README.md "Thread safety": threads lock the object,  *)
(* so that it is in at most one call at a time.                            *)
MayCall_Unlocked(t) == Idle(t)
MayCall(t) == AllIdle

Room == object.remaining_destination_buffer_length

(* The library writes through remaining_destination_buffer and moves it.   *)
LibraryRan(o, finishing) ==
  /\ library' = After(library, o, finishing)
  /\ memory' = WrittenTo(memory, object.remaining_destination_buffer,
                         o.written, library.emitted)
  /\ object' = [object EXCEPT
                  !.remaining_destination_buffer = @ + o.written,
                  !.remaining_destination_buffer_length = @ - o.written]

(* bytes_written or bytes_read of a method's reply.                        *)
BytesReported_WholeSource(source_length, remaining_source_length) ==
  source_length
BytesReported_Swapped(source_length, remaining_source_length) ==
  remaining_source_length - source_length
BytesReported(source_length, remaining_source_length) ==
  source_length - remaining_source_length

(* The caller does not learn the bytes taken if a library error is raised, *)
(* or NoMemoryError for the array that write and read reply with; finish   *)
(* replies without allocating.                                             *)
ReplyLost(why, bytes) ==
  /\ lost' = [lost EXCEPT ![why] = @ + bytes]
  /\ UNCHANGED accepted

Reply(op, result, source_length, remaining_source_length) ==
  \/ /\ result = "failed"
     /\ ReplyLost("failure", source_length - remaining_source_length)
  \/ /\ result # "failed" /\ op # "finish"
     /\ ReplyLost("no_memory", source_length - remaining_source_length)
  \/ /\ result # "failed"
     /\ accepted' = accepted
                      + BytesReported(source_length, remaining_source_length)
     /\ UNCHANGED lost

(* :gvl => true: the whole method runs under the GVL.                      *)
CallUnderGvl(op, source, answers) ==
  /\ object.gvl
  /\ \E o \in answers :
       /\ LibraryRan(o, op = "finish")
       /\ Reply(op, o.result, source, source - o.consumed)
  /\ UNCHANGED <<phase, heap, call, delivered>>

(* :gvl => false: the method's checks are done and the GVL is released.    *)
ReleaseGvl(t, op, source) ==
  /\ ~object.gvl
  /\ call' = [call EXCEPT
                ![t] = [pc |-> "released", op |-> op, source_length |-> source,
                        remaining_source_length |-> source, result |-> "ok"]]
  /\ UNCHANGED <<phase, object, heap, memory, library, delivered, accepted, lost>>

(* The wrapper runs without the GVL.                                       *)
RunWithoutGvl(t, op, answers) ==
  /\ call[t].pc = "released"
  /\ call[t].op = op
  /\ \E o \in answers :
       /\ LibraryRan(o, op = "finish")
       /\ call' = [call EXCEPT
                     ![t].pc = "completed",
                     ![t].remaining_source_length = @ - o.consumed,
                     ![t].result = o.result]
  /\ UNCHANGED <<phase, heap, delivered, accepted, lost>>

(* The GVL is held again and the method returns or raises.                 *)
Return(t) ==
  /\ call[t].pc = "completed"
  /\ Reply(call[t].op, call[t].result, call[t].source_length,
           call[t].remaining_source_length)
  /\ call' = [call EXCEPT ![t] = IdleCall]
  /\ UNCHANGED <<phase, object, heap, memory, library, delivered>>

(* rb_thread_call_without_gvl checks for interrupts before it releases the *)
(* GVL and after it has taken it again: Thread#raise, Thread#kill or       *)
(* Timeout then unwinds the method, whose reply is never made.  Before the *)
(* wrapper has run, it has taken nothing.                                  *)
Interrupt(t) ==
  /\ ~Idle(t)
  /\ ReplyLost("interrupt", call[t].source_length - call[t].remaining_source_length)
  /\ call' = [call EXCEPT ![t] = IdleCall]
  /\ UNCHANGED <<phase, object, heap, memory, library, delivered>>

--------------------------------------------------------------------------------
(* read_result, close and the finalizer.                                   *)

(* The bytes between destination_buffer and remaining_destination_buffer.  *)
ResultLength == object.destination_buffer_length - Room

BufferedResult == [i \in 1 .. ResultLength |-> memory[i]]

Rewound_LengthOnly ==
  [object EXCEPT
     !.remaining_destination_buffer_length = object.destination_buffer_length]
Rewound ==
  [object EXCEPT
     !.remaining_destination_buffer = 0,
     !.remaining_destination_buffer_length = object.destination_buffer_length]

ReadResultMethod ==
  /\ Open
  /\ delivered' = delivered \o BufferedResult
  /\ object' = Rewound
  /\ UNCHANGED <<phase, heap, memory, library, call, accepted, lost>>

ReadResult(t) == MayCall(t) /\ ReadResultMethod

(* rb_str_new cannot allocate the result: NoMemoryError, and no field has  *)
(* been assigned yet.                                                      *)
ObjectAfterNoMemory_Rewound == Rewound
ObjectAfterNoMemory == object

ReadResultNoMemory ==
  /\ Open
  /\ object' = ObjectAfterNoMemory
  /\ UNCHANGED <<phase, heap, memory, library, call, delivered, accepted, lost>>

ReadResultRaises(t) == MayCall(t) /\ ReadResultNoMemory

ClosedObject_KeepsState ==
  [object EXCEPT !.destination_buffer = NULL]
ClosedObject ==
  [object EXCEPT !.state_ptr = NULL, !.destination_buffer = NULL]

(* free of what the two pointers point to, NULL excepted.                  *)
BlocksAfterFree == heap \ {object.state_ptr, object.destination_buffer}

(* The other fields stay as they are.                                      *)
CloseMethod ==
  /\ Open
  /\ heap' = BlocksAfterFree
  /\ object' = ClosedObject
  /\ UNCHANGED <<phase, memory, library, call, delivered, accepted, lost>>

Close(t) == MayCall(t) /\ CloseMethod

(* free_*: the garbage collector found the object unreachable, in whatever *)
(* phase it is.  No thread is inside one of its methods then.              *)
Collect ==
  /\ phase # "collected"
  /\ AllIdle
  /\ phase' = "collected"
  /\ heap' = BlocksAfterFree
  /\ object' = UnsetObject
  /\ UNCHANGED <<memory, library, call, delivered, accepted, lost>>

--------------------------------------------------------------------------------
(* Properties of both streams.                                             *)

TypeOK ==
  /\ phase \in {"allocated", "raised", "initialized", "collected"}
  /\ object \in Object
  /\ heap \subseteq Blocks
  /\ memory \in Seq(Nat)
  /\ library \in LibraryStream
  /\ call \in [Threads -> Call]
  /\ delivered \in Seq(Nat)
  /\ accepted \in Nat
  /\ lost \in Lost

(* Every live block is owned by exactly one pointer of the object and no   *)
(* pointer dangles: whatever fails, whenever the object is closed or       *)
(* collected, nothing leaks and nothing is freed twice.                    *)
Ownership ==
  /\ heap = {object.state_ptr, object.destination_buffer} \ {NULL}
  /\ object.state_ptr = NULL <=> object.destination_buffer = NULL
  /\ object.state_ptr = object.destination_buffer => object.state_ptr = NULL

(* A thread that has released the GVL, or is about to, works on a library  *)
(* state and a buffer that stay allocated until it is back, and has them   *)
(* for itself: nothing closes or uses the object between the check of      *)
(* DO_NOT_USE_AFTER_CLOSE and the end of the call.                         *)
CallOwnsObject ==
  \A t \in Threads :
    ~Idle(t) => /\ object.state_ptr \in heap
                /\ object.destination_buffer \in heap
                /\ \A u \in Threads \ {t} : Idle(u)

(* The bytes handed to the caller are the library's output from the first  *)
(* byte on, in order, with no gap and none twice, over any sequence of     *)
(* calls, failures and interrupts.                                         *)
DeliveredInOrder ==
  \A i \in 1 .. Len(delivered) : delivered[i] = i

(* While the object is open, every byte the library has written is either  *)
(* delivered or still waits in the buffer, which the remaining length and  *)
(* the remaining pointer describe in agreement.                            *)
NothingLost ==
  Open =>
    /\ object.remaining_destination_buffer + Room = object.destination_buffer_length
    /\ library.emitted = Len(delivered) + ResultLength

(* A reply tells the caller exactly what the library has taken during its  *)
(* call, also after earlier replies were lost: his count falls behind the  *)
(* library's by just the bytes of the calls that raised, and by none for   *)
(* an interrupt if the calls keep the GVL.                                 *)
CallerKnowsBytesTaken ==
  /\ AllIdle => accepted + BytesUnreported = library.consumed
  /\ object.gvl => lost.interrupt = 0

(* The object as the abstract buffer of OutputBuffer.                      *)
Status ==
  IF Open THEN "open" ELSE IF phase = "allocated" THEN "unopened" ELSE "closed"

Capacity == IF Open THEN object.destination_buffer_length ELSE 0

Pending == IF Open THEN BufferedResult ELSE <<>>

Buffer ==
  INSTANCE OutputBuffer WITH
    status <- Status, capacity <- Capacity, pending <- Pending

(* Whatever the calls, errors and interrupts, and with or without the GVL, *)
(* the object is a bounded first-in first-out buffer of the output that    *)
(* opens and closes at most once.                                          *)
ImplementsOutputBuffer == Buffer!Spec

(* Once closed or collected an object stays so: no method reaches the      *)
(* library again or returns bytes of the freed buffer.                     *)
ClosedForGood ==
  [][phase = "initialized" /\ object.state_ptr = NULL
       => /\ UNCHANGED <<library, memory, delivered, accepted>>
          /\ object'.state_ptr = NULL]_vars
================================================================================
