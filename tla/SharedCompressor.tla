----------------------------- MODULE SharedCompressor -----------------------------
(***************************************************************************)
(* A NativeCompressor that several Ruby threads share in the way README.md *)
(* "Thread safety" asks for: each locks a Mutex around its calls.  Here    *)
(* the GVL has a holder, who keeps it during a library call or gives it up *)
(* (ext/lzws_ext/gvl.h), a library call takes time with and without it,    *)
(* and the methods of Compressor run without its MayCall: that at most one *)
(* thread is in a call is shown, not supposed.                             *)
(*                                                                         *)
(* The GVL and the Mutex belong to Ruby and are modelled by what the       *)
(* extension relies on.                                                    *)
(*                                                                         *)
(* Operators whose name has the form Name_Fault are mutated forms of Name. *)
(***************************************************************************)
EXTENDS Compressor

CONSTANT Nobody

ASSUME SharedAssumption == Nobody \notin Threads

VARIABLES
  gvl,    \* the thread that runs Ruby code, or Nobody
  owner,  \* the thread that has the Mutex of the compressor, or Nobody
  place   \* where each thread is

locks == <<gvl, owner, place>>
sharedVars == <<vars, locks>>

Places == {"outside", "waiting", "locked", "library"}

SharedInit ==
  /\ Init
  /\ gvl = Nobody
  /\ owner = Nobody
  /\ place = [t \in Threads |-> "outside"]

Moves(t, to) == place' = [place EXCEPT ![t] = to]

--------------------------------------------------------------------------------
(* The GVL.                                                                *)

(* A thread that can go on: it is neither in the library nor asleep.       *)
WantsGvl(t) ==
  /\ gvl # t
  /\ place[t] # "library"
  /\ place[t] = "waiting" => owner = Nobody

TakeGvl(t) ==
  /\ gvl = Nobody
  /\ WantsGvl(t)
  /\ gvl' = t
  /\ UNCHANGED <<vars, owner, place>>

(* The time slice ends: between methods, or when one that has taken the    *)
(* GVL again checks for interrupts.                                        *)
Switch(t) ==
  /\ gvl = t
  /\ place[t] \in {"outside", "locked"} /\ call[t].pc # "released"
  /\ gvl' = Nobody
  /\ UNCHANGED <<vars, owner, place>>

(* LZWS_EXT_GVL_WRAP: who has the GVL while thread t is in the library.   *)
GvlInLibrary_Kept(t) == t
GvlInLibrary_GivenUp(t) == Nobody
GvlInLibrary(t) == IF object.gvl THEN t ELSE Nobody

(* From a method that has its arguments ready.  With :gvl => true they are *)
(* not kept in call: nobody can interrupt the method, so all of it is left *)
(* to the step that ends the library's work.                               *)
EnterLibrary(t) ==
  /\ gvl = t
  /\ place[t] = "locked"
  /\ \/ call[t].pc = "released"
     \/ object.gvl /\ Open /\ Idle(t)
  /\ gvl' = GvlInLibrary(t)
  /\ Moves(t, "library")
  /\ UNCHANGED <<vars, owner>>

RunLibrary(t) ==
  /\ place[t] = "library"
  /\ \/ RunCompress(t) \/ RunFinish(t)
     \/ object.gvl /\ (WriteMethod(t) \/ FinishMethod(t))
  /\ Moves(t, "locked")
  /\ UNCHANGED <<gvl, owner>>

(* The method returns, or raises what interrupted it.                      *)
Resume(t) ==
  /\ gvl = t
  /\ place[t] = "locked"
  /\ Return(t) \/ Interrupt(t)
  /\ UNCHANGED locks

--------------------------------------------------------------------------------
(* The Mutex.                                                              *)

(* The callers lock; if they do not, every one finds the Mutex free.        *)
MutexIsFree_Always == TRUE
MutexIsFree == owner = Nobody

(* A thread that has to wait sleeps without the GVL.                       *)
TryLock(t) ==
  /\ gvl = t
  /\ \/ /\ MutexIsFree
        /\ owner' = t
        /\ Moves(t, "locked")
        /\ UNCHANGED gvl
     \/ /\ ~MutexIsFree
        /\ Moves(t, "waiting")
        /\ gvl' = Nobody
        /\ UNCHANGED owner
  /\ UNCHANGED vars

Lock(t) ==
  /\ place[t] = "outside"
  /\ phase = "initialized"
  /\ TryLock(t)

(* A thread that was woken, and has the GVL, tries again.                  *)
LockAgain(t) == place[t] = "waiting" /\ TryLock(t)

(* synchronize unlocks when the block has ended, be it by an error.        *)
BlockEnded_InCall(t) == TRUE
BlockEnded(t) == Idle(t)

Unlock(t) ==
  /\ gvl = t
  /\ place[t] = "locked" /\ BlockEnded(t)
  /\ owner' = Nobody
  /\ Moves(t, "outside")
  /\ UNCHANGED <<vars, gvl>>

--------------------------------------------------------------------------------
(* The compressor.                                                         *)

(* A method up to the release of the GVL, or one without a library call;   *)
(* with :gvl => true write and finish begin with EnterLibrary.             *)
CallMethod(t) ==
  /\ gvl = t
  /\ place[t] = "locked" /\ Idle(t)
  /\ \/ ~object.gvl /\ (WriteMethod(t) \/ FinishMethod(t))
     \/ ReadResultMethod \/ ReadResultNoMemory
     \/ CloseMethod
  /\ UNCHANGED locks

(* The creator's thread; later, any thread whose allocation starts the     *)
(* garbage collector, when no thread has a reference any more.             *)
CreateOrCollect(t) ==
  /\ gvl = t
  /\ \A u \in Threads : place[u] = "outside"
  /\ InitializeCompressor \/ Collect
  /\ UNCHANGED locks

SharedNext ==
  \E t \in Threads :
    \/ TakeGvl(t) \/ Switch(t)
    \/ EnterLibrary(t) \/ RunLibrary(t) \/ Resume(t)
    \/ Lock(t) \/ LockAgain(t) \/ Unlock(t)
    \/ CallMethod(t) \/ CreateOrCollect(t)

(* Ruby queues the threads that want the GVL, takes it from a thread whose *)
(* time is over, and does not stop one on its way in or out of a method.   *)
(* That the library ever comes back is not supposed.                       *)
Scheduling ==
  \A t \in Threads :
    /\ SF_sharedVars(TakeGvl(t)) /\ SF_sharedVars(Switch(t))
    /\ WF_sharedVars(call[t].pc = "released" /\ EnterLibrary(t))
    /\ SF_sharedVars(Resume(t))
    /\ WF_sharedVars(LockAgain(t))

SharedSpec == SharedInit /\ [][SharedNext]_sharedVars /\ Scheduling

--------------------------------------------------------------------------------
(* Properties.                                                             *)

(* The lock of README.md is enough: threads that hold it use the object as *)
(* Compressor supposes, also while one of them is in the library and the   *)
(* others run, and whatever interrupts them.                               *)
ImplementsCompressor == Spec

(* The library's work is one step here although it takes its time: while a *)
(* thread is in it and other threads run, no method, no finalizer and no   *)
(* other library call touches the object, its buffer or its state.         *)
LibraryIsAlone ==
  [][\A t \in Threads :
       place[t] = "library" /\ place'[t] = "library" => UNCHANGED vars]_sharedVars

(* "enables global VM lock" (README.md, :gvl => true): while a thread is in *)
(* the library nothing else happens, in this object or in another thread,  *)
(* until the library comes back.                                           *)
GvlStopsOthers ==
  [][\A t \in Threads :
       object.gvl /\ place[t] = "library" /\ place'[t] = "library"
         => UNCHANGED sharedVars]_sharedVars

(* ":gvl is disabled by default, this mode allows running multiple         *)
(* compressors/decompressors in different threads simultaneously"          *)
(* (README.md): a thread that can run gets to run even if the library      *)
(* never comes back to another one, unless that one was told by            *)
(* :gvl => true to stay in it with the GVL.                                *)
OthersRun ==
  \A t \in Threads :
    WantsGvl(t) /\ place[t] # "waiting"
      ~> gvl = t \/ \E u \in Threads : object.gvl /\ place[u] = "library"
================================================================================
