# A verification development for ruby-lzws

ruby-lzws wraps the lzws C library (LZW compression, the format of `compress`)
for Ruby. The wrapper is a C extension, `ext/lzws_ext`, and a thin Ruby layer,
`lib/lzws`. The C library and the gem `adsp`, which holds the Ruby classes that
`lib/lzws` specialises, are other projects; they are *external* here.

What can go wrong in such a wrapper is seldom the coding of bytes. It is who owns a
block of memory when a step in the middle fails, what a thread may do while another is
inside the library without the global VM lock (GVL), whether every byte the
library has produced reaches the caller exactly once, and whether a size survives the way
from a Ruby integer to a C type. That is what the modules are about.

Paths below are relative to the repository.

## 1. Inventory

| Component | Source | State | Operations |
|---|---|---|---|
| Native compressor | `ext/lzws_ext/stream/compressor.c` | the C struct behind the Ruby object: library state, destination buffer, its length, the remaining pointer and length, `gvl` | allocate, initialize, write, finish, read_result, close, finalizer |
| Native decompressor | `ext/lzws_ext/stream/decompressor.c` | the same | allocate, initialize, read, read_result, close, finalizer |
| String codec | `ext/lzws_ext/string.c`, `buffer.c` | per call: library state, destination string, remaining lengths | compress, decompress |
| IO codec | `ext/lzws_ext/io.c` | the stdio `FILE` of the destination, which outlives the call, and the file | compress, decompress |
| GVL wrapper | `ext/lzws_ext/gvl.h` | none | call a function with or without the GVL |
| Options | `lib/lzws/option.rb`, `validation.rb`, `ext/lzws_ext/option.{c,h}` | none; a hash becomes C variables | validate and merge, convert |
| Errors | `ext/lzws_ext/error.c`, `lib/lzws/error.rb` | none | map a code to a class |
| Raw streams | `lib/lzws/stream/raw/*.rb` (and `adsp`) | a native object and a writer block | write or read, flush, finish, close |
| Reader and writer | `lib/lzws/stream/{reader,writer}*.rb` | all of it in `adsp` | name the raw stream classes |
| Front ends | `lib/lzws/string.rb`, `file.rb` | none | delegate |
| Entry, build, scripts | `main.c`, `extconf.rb`, `Rakefile`, `scripts` | none | load-time and build-time only |

How they interact: a front end or a raw stream asks *options* for a checked
hash and hands it to a C function, which converts the options again, allocates,
and calls the library through the *GVL wrapper*. Codecs finish within one call.
Native objects live over many calls, from several threads, and end with `close` or with the garbage collector.
There are no callbacks from C to Ruby while the library runs; the raw streams
call the writer block of their caller between two native calls.

What is hard, component by component, and the properties that make each correct:

* **Native streams.** Two C pointers are allocated one after the other, and
  either allocation may fail. They are freed by `close`, or by the finalizer, or by both in
  turn. With `:gvl => false` a method checks, gives up the GVL, works, and
  takes the GVL back: other threads run in between, and the interrupt check on the way back can
  discard the reply. The output buffer is described twice, by a pointer and by
  a length. *Correct* means: nothing leaks or dangles; a call in progress has
  the object for itself; output is delivered once and in order;
  the caller's count of source bytes falls behind the library's by just what calls took that raised; a closed
  object does nothing any more.
* **String codec.** The destination string grows by portions while the library
  asks for more room, and the two loops of compress share the room. Several steps can fail with the
  library state allocated. *Correct* means: the room announced
  to the library is really in the string; growing keeps the output; a returned string is the
  whole output; `NotEnoughDestinationBufferError` only comes when no unit fits; the
  state is freed; the call ends.
* **Raw streams.** A loop turns `needs_more_destination` into read_result, writer block and
  another call. It has no bound of its own. The block is the caller's code and may
  raise when the native buffer is already empty. *Correct* means: the writer gets
  the output in order, none of it twice, and all of it unless it raises; a closed stream has
  left nothing behind; every method ends.
* **GVL wrapper.** With `:gvl => false` other Ruby threads run while one is in the library; with `:gvl => true`
  the library keeps the GVL, and they stop until it is back. *Correct* means: the lock of README.md is enough to make
  the native methods safe; the library stops no other thread with `:gvl => false`, and every one with `:gvl => true`.
* **IO codec.** The bytes written pass through a stdio buffer that neither the library nor
  Ruby's `IO#close` flushes. *Correct* means: after a call that returned, everything is in
  the file, also what an interrupted call had left in the buffer; the caller hears of every write that failed.
* **Options.** Two layers validate, and the C layer narrows integers without looking.
  *Correct* means: the library gets what the caller asked for, or the caller gets `ValidateError`.

`PROJECT.json` lists the hazards, each at its line, with the properties that
would notice it going wrong.

## 2. Modules

| Module | Models | Extends |
|---|---|---|
| `LzwsLibrary` | the contract of the external lzws library | |
| `OutputBuffer` | *abstract*: what a native stream promises about its output | |
| `NativeStream` | what compressor.c and decompressor.c have in common | `LzwsLibrary` |
| `Compressor`, `Decompressor` | the methods of each and their next-state relation | `NativeStream` |
| `SharedCompressor` | a compressor, the threads that share it, the holders of the GVL and of their Mutex | `Compressor` |
| `Conversion` | *abstract*: what one conversion promises its caller | |
| `StringCodec` | one call of compress or decompress on a string | `LzwsLibrary`; an instance of `Conversion` |
| `RawStream` | the loops of a raw stream around a native object | `LzwsLibrary`; instances of `OutputBuffer` and `Conversion` |
| `Destination` | *abstract*: what the calls on one IO promise about the file | |
| `FileCodec` | any number of calls on one destination IO | an instance of `Destination` |
| `Options` | one options hash on its way through both layers | |
| `MC*` | small instances for TLC | the module |
| `*_proofs` | theorems and their proofs | the module and `TLAPS` |

An operator called `Name_Fault` is a mutated form of `Name`, a plausible slip in the code,
such as `Rewound_LengthOnly`, which resets the length and forgets the
pointer. Nothing uses them but the `mutants` of `PROJECT.json`: replacing `Name` with
`Name_Fault` must make the named property fail.

### LzwsLibrary (external)

A library stream is how many output bytes it *owes* (produced, but with no
room yet), how many it has emitted and how many source bytes it has
consumed. The output is a fixed sequence, so the byte number *k* is represented by *k*;
this is what makes "in order, none lost, none twice" a formula. An answer is
nondeterministic within the contract on which the extension's code relies:

* it takes no more than the source and writes no more than the room;
* owed output goes out before new source is taken, and none is forgotten;
* 0 means nothing is owed; from `lzws_compress`, that the source is empty too (the code goes on to
  `finish` without looking at the source again);
* `NEEDS_MORE_DESTINATION` means that the next unit, of at most `MaxUnit` bytes, does not fit
  (`test/option.rb` has 2 as the minimal buffer length).

Errors may come at any point, after any part of the work.

### NativeStream, Compressor, Decompressor

`object` is the C struct, field by field; the remaining pointer is an offset.
`heap` is the set of live blocks, `memory` the contents of the destination buffer.
Code that runs under the GVL is one action, because no other Ruby thread runs:
`Initialize` (and its two failures), `ReadResult`, `Close`, `CallUnderGvl`, the finalizer `Collect`.
A call without the GVL is three: `ReleaseGvl` (checks made, arguments
copied to the C stack), `RunWithoutGvl` (the wrapper), `Return`. `Interrupt` is
`rb_thread_call_without_gvl` raising before or after the wrapper. A build without that
function (`gvl.h`, second branch) behaves as `:gvl => true`, which the model has.

The array of a reply is allocated after the library has worked (`ReplyLost`): if that fails,
or if an interrupt comes, the counts are lost and the output stays. A method of an object that is not open raises `UsedAfterCloseError` and changes
nothing, which is a stuttering step; so `Open` is a guard. `MayCall` is the rule of
README.md, "Thread safety": threads that share an object lock it. The methods
themselves (`WriteMethod`, `CloseMethod`, ...) are separate from that rule, so that `SharedCompressor` can
show what is supposed here. The
finalizer runs when no thread is inside a method, as a method's frame keeps the
object alive. It may run in every phase.

`delivered`, `accepted` and `lost` are history: what read_result has returned, the source bytes
reported as taken, and the source bytes taken by calls whose report was lost, counted by what has happened to it:
a library error, `NoMemoryError` or an interrupt.

### SharedCompressor

Everything that Compressor has, and who runs: `gvl` is the thread that executes Ruby
code, `owner` the one that has the Mutex, `place` where each thread is. `EnterLibrary` leaves the GVL
where `GvlInLibrary` says: with the thread, or with nobody (`gvl.h:12-15`). `RunLibrary` is the end of the library's work; until it comes,
which may be never, the thread stays in the library. With `:gvl => false` it works without the GVL, and `TakeGvl` and
`Resume` are the way back. With `:gvl => true` nothing can come between `RunLibrary` and the end of the method, so the step is
both, and it chooses the arguments as well (`WriteMethod`, `FinishMethod`).
`TryLock`, `LockAgain` and `Unlock` are `Mutex#synchronize` as Ruby does it: who has to wait sleeps without the
GVL, and who is woken may find the Mutex taken again (`MutexIsFree`). The GVL and the Mutex are
Ruby's, so their actions are external and no property is about them; who has the GVL in which part of a
method is `gvl.h` and `compressor.c`. The decompressor goes through the same wrapper and the same
locks, and has no module of its own for this.

### StringCodec

The variables have the names of C's. One action is one pass of the
loop: the library call and all of the code up to the next one, including
`increase_destination_buffer`, the resize and, at the end, the free and the
return. `Interrupt` unwinds the C frames; what its pass has done to locals is
not visible, hence it changes only `pc`. Memory errors of `rb_str_resize`
are caught by `rb_protect` in the code, and are the `allocate_failed` branches here. The array of its arguments is
allocated outside `rb_protect` (`buffer.h:17`); that is `ResizeArgumentsRaise`, which leaves the library
state as it is.

### RawStream

`at` is where in a method the thread is: in the native call (`CallNative`), draining because more
destination is needed (`MoreDestination`), draining for the last time (`LastResult`) or closing
(`NativeClose`). The native object is `OutputBuffer`, which `Compressor` and `Decompressor` are
shown to implement, and a library stream behind it. `WriteResult` is `write_result` of
`raw/compressor.rb` and `raw/decompressor.rb`: read_result, then the block. `WriterRaises` is a
block that raises in between. `flush` is in the repository. The rest of the loops is in `adsp` and is modelled as far as
the protocol of the native objects and the tests leave no choice: drain on `needs_more_destination`, raise
`NotEnoughDestinationError` if there was nothing to drain, finish before close. Where
they leave one, both ways are taken, as for whether finish drains what is left (`AfterAnswer`). These definitions are
marked external in the map.

### FileCodec

The destination is `stdio` (bytes in the `FILE`) and `disk`. The library's
`fwrite` moves some of the bytes to the disk and keeps at most `StdioCapacity`; the system
may refuse some at any moment, and what the `FILE` keeps then is left open. `RaiseFileError`
flushes nothing; `Return` does, and ignores what fflush answers, as the
code does. `Close` drops the buffer: the descriptor is closed by Ruby, and the
comment in `io.c` says that Ruby does not flush. Seen without the `FILE` this is `Destination`: a
step of the library is `Write`, a `Return` that flushes is `Promise`, a step in which the system refuses
bytes, and what comes after it, is `Break`. `get_file_error` and the class raised for its code are
the table `FileError`. The bytes that Ruby itself holds in its own buffer for the
same IO are not modelled.

### Options

`Merged`, `Valid`, `GetOptions` are the Ruby layer; `GetNative` and what it uses are
the C layer, with the sizes of fixnum, `size_t`, `unsigned int` and
`lzws_byte_fast_t` as constants and the conversions as remainders. Which of several
errors is raised first does not matter to any property, so it is a choice.

## 3. Runs

| Run | Question | Bounds |
|---|---|---|
| `compressor`, `decompressor` | memory, exclusive calls, completeness, counts, refinement of `OutputBuffer`; on the compressor also types, order and what a closed object does | 2 threads, 2 addresses, buffers of 2 and (auto) 3 bytes, up to 2 or 3 source bytes, each giving up to 2 bytes, units of 2 |
| `string_codec` | room, growth, completeness, errors, freeing, termination, refinement of `Conversion` | buffers of 1, 2 and (auto) 3 bytes, up to 3 source bytes, a header, a tail |
| `raw_stream` | what the writer receives, what close leaves, when `NotEnoughDestinationError` comes, termination, refinement of `Conversion` | buffers of 1, 2 and 3 bytes, a unit of 2, up to 2 source bytes over any number of calls, a header, a tail |
| `shared_compressor` | is the lock enough; is the library's work as good as one step; do others run while the library works, with `:gvl => false`, and none with `:gvl => true`? | 2 threads, both values of `:gvl`, a buffer of 1, 1 source byte |
| `file_codec` | what is on disk after a call; which failures are told; refinement of `Destination` | 4 bytes written, stdio of 2 |
| `file_codec_flush` | does the comment on fflush hold? (no) | the same |
| `options` | do options arrive unchanged; is every refusal a `ValidateError`? | up to 2 options given, every border value |
| `options_lengths` | are all documented buffer lengths accepted? (no) | the same |

Why these bounds are enough. *Streams:* an object never needs more than two
blocks; two threads are enough for every pair of steps that may collide; the buffer is smaller than what 2 source bytes give, so it fills, is
read and fills again, and units of 2 leave a byte of room unused, the
case `NEEDS_MORE_DESTINATION` is about. Threads and addresses
are interchangeable, and symmetry reduces them; no liveness is checked there. *Strings:* 1 is
below, 2 at and 3 above the library's unit. 3 source bytes with header and tail make the
string grow several times, and the finish loop grows it as well. *Raw streams:* a buffer of 1 is shorter than the
unit, 2 is equal to it and 3 leaves a byte of room in front of a second unit; blocks may raise in every
call and methods be repeated after that. *Sharing:* 2 threads give every pair of holders and waiters, and a collision needs one byte;
symmetry would be unsound with liveness and is not used. *Files:* 4 bytes with a stdio of 2
allow bytes on both sides of the buffer and several calls, the later ones starting with bytes that an interrupted
call has left. *Options:* a value above and below each width, the width being small (a "byte" of 256 beside
an "unsigned int" of 512); two options interact at most.
The proofs need none of these bounds.

The bound `MaxConsumed` (or `MaxWritten`) sits in a guard and is marked *bound*.
Deadlock is not checked for the native and raw streams, the shared compressor and the options: a collected object,
a closed stream, a used up bound and a converted hash have no next step. It is checked for the codecs.

**Fairness.**

* `StringCodec`: `WF_vars(Next)`. A Ruby thread inside the
  call is the only process there, it is scheduled again and again, and library calls
  end. With it `Terminates` says that the loop, which has no bound of its own, ends: each pass
  either takes source, emits output or raises, because `BufferWasEmpty`
  notices a buffer in which nothing fits. `parity` flips at each pass, so that a pass which changes nothing else
  would be seen as going round for ever and not as a stutter.
* `RawStream`: `WF_vars(Inside)`, for the same reason, and because a block returns or raises. Methods
  that nobody calls have no fairness.
* `SharedCompressor`: `Scheduling` is what Ruby does with the GVL. It queues the threads
  that want it (strong fairness of `TakeGvl`), takes it from one whose time slice is
  over (`Switch`), and a thread on its way into or out of a method goes on
  (`EnterLibrary` of a method that gives up the GVL, `Resume`, `LockAgain`). Nothing says that the library returns: `OthersRun`
  holds even if it never does. With `:gvl => true` a thread that never comes back stops all others, and `OthersRun` does not
  claim otherwise: without its second disjunct TLC refutes it with just that behaviour. That a thread gets the
  Mutex in the end is not claimed: Ruby's Mutex lets a newcomer overtake a woken
  thread.
* Native streams, files and options have no liveness: nothing obliges a caller to call.

## 4. Properties

* `Ownership`, `CallOwnsObject` (streams): blocks and pointers correspond one to one,
  in every phase and after every failure; during a call without the GVL nobody else frees or uses them.
  The second relies on the callers' locking, and its mutant `MayCall_Unlocked` shows so.
* `DeliveredInOrder`, `NothingLost`, `CallerKnowsBytesTaken`: no byte is lost, repeated
  or moved over any sequence of calls, library errors, `NoMemoryError` in any method
  and interrupts. `CallerKnowsBytesTaken` is an equation that holds after all of these: at rest, what the caller was told and what the calls
  took that raised is what the library has consumed, so a lost reply spoils no later one; with `:gvl => true` no interrupt loses one.
* `ClosedForGood` (action property), `ImplementsOutputBuffer` (refinement; the mapping sends an open
  object to the bytes between the buffer's start and the remaining pointer).
* `ImplementsCompressor`, `LibraryIsAlone`, `GvlStopsOthers`, `OthersRun` (shared compressor): threads that lock
  use the object as `Compressor` supposes, whatever interrupts them; while one is in the library, no step of another
  touches the object, so that `RunWithoutGvl` and `CallUnderGvl` may stand for work that takes its time; with `:gvl => true` nothing at all happens
  meanwhile; with `:gvl => false` every thread that can run gets to run. The mutants of the last two keep the GVL, or give it up, whatever the option says.
* `RoomIsInString`, `OutputKept`, `ResultIsComplete`, `NotEnoughIsExact`, `StateFreed` (strings).
* `ReceivedInOrder`, `NothingLeftBehind`, `NotEnoughIsExact` (raw streams): over any sequence of calls and errors the
  writer lacks only what it was given when it raised; flush and close leave nothing in the native
  buffer; a closed compressor has finished.
* `Terminates`, `CallsEnd` (liveness) and `PassesComeToAnEnd`, `StepsComeToAnEnd` (action properties): the loops end. The latter
  say why and how soon. In the string codec each pass after which the loop goes on is paid for with a `Portion` of output: with
  buffers of L bytes and units of at most U, at least L - U + 1 bytes (one byte if L < U). What is paid with is `Variant`,
  the output that may still come and the room that is used. So the string is
  resized at most `Variant` / `Portion` times, into however many crumbs the library cuts its output. In the raw streams each drain on the way hands a `Portion` to the writer. Neither needs fairness.
* `ImplementsConversion` (strings and raw streams): seen from the caller, both are one
  conversion, which makes output, hands it over in order, and either returns with all of it or raises.
* `PromisedIsOnDisk`, `WriteFailureIsTold`, `ReturnedIsOnDisk`, `ImplementsDestination` (files): over any sequence of calls, interrupted
  and failed ones among them, the file grows by the next bytes of the output and is complete at every return;
  only bytes that the system refuses, or that nobody flushed before `close`, lack.
* `OptionsArriveUnchanged`, `OnlyBignumsAreRefusedLate`, `AllDocumentedLengths` (options).

### What the code does not keep

* `io.c:101` and `:155` ignore the result of fflush. A full disk met there is not
  reported: `ReturnedIsOnDisk` fails. The same condition met inside the library is a `WriteIOError`.
* `option.c:34` accepts fixnums only. README.md has "0, 2 - inf" for buffer lengths and the Ruby layer accepts
  any non-negative Integer, so a bignum raises `TypeError` from C: `AllDocumentedLengths` fails.
* Stated by the properties as they are, without a document that says otherwise: an interrupt of a string codec without
  the GVL, and a `NoMemoryError` for the arguments of a resize, leak the library state (`StateFreed` allows just these); an interrupt
  of a stream's write or read, and a `NoMemoryError` for its reply, lose the count of the bytes that this call has taken (`CallerKnowsBytesTaken` allows just
  these, to the byte); a writer block that raises loses the bytes it was given (`ReceivedInOrder` allows just this).

## 5. Proofs

Everything below holds for all values of the constants that satisfy the named
assumptions of the modules: `LibraryAssumption` (a unit has a byte or more, the other sizes are
numbers), `NativeStreamAssumption` (`NULL` is no block), `SharedAssumption` (`Nobody` is no thread), `StringCodecAssumption`,
`RawStreamAssumption` (a buffer has a byte or more), `FileCodecAssumption`,
`OptionsAssumption` (the widths are ordered as on every platform: the biggest code length fits in a byte and
in a fixnum, a fixnum fits in `size_t`).

| Module | Theorems and the properties they state |
|---|---|
| `LzwsLibrary_proofs` | `ContractCanBeKept`: every function of the library has, in every state, an answer that is no error |
| `Compressor_proofs`, `Decompressor_proofs` | `Types` (`TypeOK`), `MemorySafety` (`Ownership`), `CallSafety` (`CallOwnsObject`), `InOrder` (`DeliveredInOrder`), `Complete` (`NothingLost`), `Counts` (`CallerKnowsBytesTaken`), `StaysClosed` (`ClosedForGood`), `Implements` (`ImplementsOutputBuffer`) |
| `Compressor_proofs` | `LockIsEnough` (`ImplementsCompressor`): any number of threads that lock, with the GVL kept or given up inside their calls, are a behaviour of `Compressor`; so `SharedSafety` (`Ownership`, `CallOwnsObject`, `DeliveredInOrder`, `NothingLost`, `CallerKnowsBytesTaken`) and `SharedImplements` (`ImplementsOutputBuffer`, `ClosedForGood`) hold of them; `LibraryCallIsAtomic` (`LibraryIsAlone`); `GvlIsHeld` (`GvlStopsOthers`) |
| `NativeStream_proofs` | `BufferPromises`: whatever implements `OutputBuffer` has `DeliveredInOrder` |
| `StringCodec_proofs` | `Types`, `BufferSafety` (`RoomIsInString`), `Growth` (`OutputKept`), `Completeness` (`ResultIsComplete`), `ErrorPaths` (`StateFreed`), `NotEnough` (`NotEnoughIsExact`), `Ends` (`PassesComeToAnEnd`), `Implements` (`ImplementsConversion`), `ConversionPromises`, `OutputIsWhole` |
| `RawStream_proofs` | `Types`, `InOrder` (`ReceivedInOrder`), `Complete` (`NothingLeftBehind`), `NotEnough` (`NotEnoughIsExact`), `Ends` (`StepsComeToAnEnd`), `Implements` (`ImplementsConversion`), `ConversionPromises`, `OutputIsWhole` |
| `FileCodec_proofs` | `Types`, `PromisesKept` (`PromisedIsOnDisk`), `FailuresAreTold` (`WriteFailureIsTold`), `OnlyFlushBreaksIt` (if fflush cannot fail, `ReturnedIsOnDisk`), `Implements` (`ImplementsDestination`), `DestinationPromises` (`PromisedIsOnDisk`) |
| `Options_proofs` | `Types`, `Passage` (`OptionsArriveUnchanged`), `LateRefusals` (`OnlyBignumsAreRefusedLate`), `BignumsNeverArrive`, `OnlyBignumsBreakIt` (if callers give no bignums, `AllDocumentedLengths`) |

So every safety property, every action property and every refinement that a passing run checks is a theorem, and both properties that a
run shows violated are theorems under the condition that excludes their one cause (fflush fails, which the constant `FlushCanFail` rules out; a length is no fixnum). `TypeOK`,
`DeliveredInOrder` and `ClosedForGood`, which
`NativeStream` states for both native objects, are run on the compressor only and proved of both; the types of
`FileCodec` are proved only.

That the abstract specifications are worth implementing is proved as well: `BufferPromises`, `ConversionPromises` and
`DestinationPromises` derive from each of them alone what the caller cares for. `OutputIsWhole`, which follows from it, says more than any invariant that is
run: the string returned, and what a stream's writer has when it is closed without an error, is the whole output, byte by byte.

The argument, module by module:

* `LzwsLibrary_proofs`: what every answer satisfies (it fits the source and the room; 0 owes
  nothing; `NEEDS_MORE_DESTINATION` leaves less than a unit), that writing at an offset keeps the
  other bytes, and that an answer takes what it writes from the output to come (`CompressUsesUp`, `FinishUsesUp`). The other proofs use these lemmas and never the definition of the answers. `ContractCanBeKept`
  guards against a contract so strict that they would hold for want of answers: in each state the library can take all of the source, or
  write into all of the room and ask for more.
* `NativeStream_proofs`: the inductive invariant. `Ownership` alone is not inductive: it needs that a call in progress implies an
  open object (`ExclusiveCall`) and that an object is unset before initialize (`Lifetime`). `DeliveredInOrder` needs that the buffer
  up to the remaining pointer holds the numbers that come next (`BufferHoldsOutput`), which in turn needs that pointer
  and length agree. `CallerKnowsBytesTaken` needs the books of calls in flight (`CallAccounts`). One lemma per action;
  `Compressor_proofs` and `Decompressor_proofs` combine them and add the step simulation of `OutputBuffer`:
  initialize is `Open`, library work is `Produce`, read_result is `Drain`, close and the finalizer
  are `Close`, everything else stutters.
* `LockIsEnough` rests on `LockInv`: only the owner of the Mutex is in a call, and a thread in the library is one.
  Then `MayCall` holds wherever a method starts, and the finalizer finds no call in progress. With `:gvl => true` the start is the end of the
  library's work, and `ExclusiveCall` of the object's own invariant adds that no thread is in the middle of a call; so the two
  invariants are proved together (`SharedInvariance`). `LibraryIsAlone` follows from
  the same: a second thread that touched the object would own the Mutex as well. `GvlIsHeld` adds `GvlKept`: who is in the library of an object
  with `:gvl => true` has the GVL, without which only a thread in the library takes a step.
* `StringCodec_proofs`: the safety properties are inductive together with which loop belongs to which direction
  (`Progression`) and a room that never exceeds the buffer length (`RoomIsBounded`). From the latter, an untouched
  buffer that got `NEEDS_MORE_DESTINATION` is shorter than a unit: `NotEnoughIsExact`. For `Ends`, an answer takes from the output to come what it writes into the room, so that the call alone does not raise
  `Variant`; a resize, after which the room is the whole buffer again, comes when less than a unit of room is left, and takes off the rest, a `Portion` (`AnsweredPays`).
* `RawStream_proofs`: `Books` says where every byte of output is, with the writer, dropped by it, or in the native
  buffer; `Places` what is known at each point of a method, above all that `NEEDS_MORE_DESTINATION` left less than a unit
  of room; `NothingOwed` when the library has no output left, which makes close complete; `Closed` ties the buffer to the status.
  For `Ends`, a native call moves bytes from the output to come into the buffer (`CallUsesUp`), and a drain on the way back takes at least a
  `Portion` out of it; every other step goes to a place of lower `Rank`.
* `FileCodec_proofs`: as long as nothing was refused, `disk` and `stdio` together are 1, 2, ... `written` (`InOrder`);
  a refusal sits in `result` until it is told (`FailureIsInResult`).
  The step simulation of `Destination` rests on `InOrder` while nothing was refused (`NumberedIsOutput`) and on appending alone after
  that (`SystemAppends`).
* `Options_proofs`: between the layers the hash is valid (`Validated`); then each conversion is a remainder of a number below
  the modulus. What C has refused was a whole hash, and what it has let pass had only fixnums for lengths (`LengthsSeen`); the
  two theorems on bignums follow.

**Only model-checked:** `Terminates`, `CallsEnd` and `OthersRun`, as liveness under fairness is out of the prover's
reach. For the first two the theorems `Ends` prove what they rest on.
**Neither:** what the library writes, that is, LZW itself.

## 6. Not modelled, and why

* The lzws library: external; its contract is `LzwsLibrary`.
* Reader and writer: the repository only names their classes; buffering, encodings and the IO loops are in
  `adsp`, and nothing here determines them. The same holds for the presence checks of `ADSP::Validation`.
* A source string changed by another thread while its pointer is in use, and an IO closed under the
  library: README.md asks callers to lock; no code of the repository is involved.
* The source `FILE` of the IO codec: its buffer and position outlive a call, as those of the destination do, but only the library
  reads them. A source that cannot be read shows up as `read_failed`.
* `initialize` called twice on an object: private in Ruby.
* The bytes that a Ruby IO holds in its own buffer beside the stdio buffer: Ruby's, and the extension never looks at it.
* Message texts, constants, registration of methods, build scripts: no behaviour.

## 7. Plan

Done, in this order: `LzwsLibrary`, `OutputBuffer`, `NativeStream`, `Compressor`, `Decompressor`; `StringCodec`;
`FileCodec` and `Options`; `Conversion`, refined by `StringCodec` and `RawStream`; `RawStream`, over
`OutputBuffer`; `SharedCompressor`, over `Compressor`; `Destination`, refined by `FileCodec`; the theorems of section 5, with the
bounds behind the termination of both loops and who has the GVL during a library call.

Left, should the code grow in that direction: a reader and a writer, if they move from `adsp` into the repository; the
interplay of stdio and Ruby's IO buffer, if the extension starts to synchronise them.
