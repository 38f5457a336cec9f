---------------------------- MODULE RawStream_proofs ----------------------------
(***************************************************************************)
(* The safety properties of RawStream, from an inductive invariant, and    *)
(* the refinement of Conversion.                                           *)
(***************************************************************************)
EXTENDS RawStream, LzwsLibrary_proofs

(* Where every byte of output is: with the writer, dropped by it, or in    *)
(* the native buffer, in this order.                                       *)
Books ==
  /\ library.emitted = Len(delivered) + Len(pending)
  /\ \A i \in 1 .. Len(pending) : pending[i] = Len(delivered) + i
  /\ Len(received) + dropped = Len(delivered)
  /\ \A i \in 1 .. Len(received) : received[i] <= Len(delivered)
  /\ \A i, j \in 1 .. Len(received) : i < j => received[i] < received[j]
  /\ ~broken => dropped = 0 /\ \A i \in 1 .. Len(received) : received[i] = i

(* What is known at each place of a method.                                *)
Places ==
  /\ at # "outside" => status = "open" /\ outcome = "none"
  /\ at \in {"native", "more"} => method # "flush"
  /\ at = "last" => method \in {"finish", "close"}
  /\ at = "native_close" => method = "close" /\ pending = <<>>
  /\ at = "more" => capacity - Len(pending) < MaxUnit
  /\ direction = "decompress" /\ at \in {"native", "more"} => method = "write"

(* When nothing is owed: a compressor that is past its finish loop, and a  *)
(* decompressor none of whose calls has raised, between two of its calls.  *)
NothingOwed ==
  /\ direction = "compress" /\ method = "close" /\ at \in {"last", "native_close"} =>
       library.finishing /\ library.owed = 0
  /\ direction = "decompress" /\ ~broken /\ at \in {"outside", "last", "native_close"} =>
       library.owed = 0

(* A closed stream has been closed by close.                               *)
Closed ==
  /\ status = "open" => capacity \in Nat \ {0}
  /\ Len(pending) <= capacity
  /\ status = "closed" => at = "outside" /\ pending = <<>>

(* The inductive invariant.                                                *)
IInv ==
  /\ TypeOK
  /\ Books
  /\ Places
  /\ NothingOwed
  /\ Closed
  /\ NothingLeftBehind
  /\ NotEnoughIsExact

(* The first state satisfies the invariant.                                *)
LEMMA InitIInv == Init => IInv
<1> SUFFICES ASSUME Init PROVE IInv
  OBVIOUS
<1> USE DEF Init
<1>1. PICK header \in Nat : /\ library = NewStream(header)
                            /\ direction = "decompress" => header = 0
  BY LibraryAssumption DEF NewStreams
<1>2. /\ library \in LibraryStream /\ library.emitted = 0
      /\ direction = "decompress" => library.owed = 0
  BY <1>1 DEF NewStream, LibraryStream
<1>3. /\ pending \in Seq(Nat) /\ Len(pending) = 0
      /\ delivered \in Seq(Nat) /\ Len(delivered) = 0
      /\ received \in Seq(Nat) /\ Len(received) = 0
  BY EmptySeq
<1>4. capacity \in Nat \ {0}
  BY RawStreamAssumption
<1>5. TypeOK
  BY <1>2, <1>3, <1>4 DEF TypeOK, Methods
<1>6. Books
  BY <1>2, <1>3 DEF Books
<1>7. Places /\ NothingOwed /\ Closed
  BY <1>2, <1>3, <1>4 DEF Places, NothingOwed, Closed
<1>8. NothingLeftBehind /\ NotEnoughIsExact
  BY DEF NothingLeftBehind, NotEnoughIsExact
<1> QED
  BY <1>5, <1>6, <1>7, <1>8 DEF IInv

--------------------------------------------------------------------------------
(* write_result.                                                           *)

(* Consecutive numbers that go on after d, behind increasing numbers up to d. *)
LEMMA AppendNumbers ==
  ASSUME NEW r \in Seq(Nat), NEW p \in Seq(Nat), NEW d \in Nat,
         \A i \in 1 .. Len(p) : p[i] = d + i,
         \A i \in 1 .. Len(r) : r[i] <= d,
         \A i, j \in 1 .. Len(r) : i < j => r[i] < r[j]
  PROVE  /\ r \o p \in Seq(Nat)
         /\ Len(r \o p) = Len(r) + Len(p)
         /\ \A i \in 1 .. Len(r \o p) : (r \o p)[i] <= d + Len(p)
         /\ \A i, j \in 1 .. Len(r \o p) : i < j => (r \o p)[i] < (r \o p)[j]
         /\ Len(r) = d /\ (\A i \in 1 .. Len(r) : r[i] = i) =>
              \A i \in 1 .. Len(r \o p) : (r \o p)[i] = i
<1> DEFINE n == Len(r)
           m == Len(p)
           q == r \o p
<1>1. n \in Nat /\ m \in Nat
  BY LenProperties
<1>2. q \in Seq(Nat) /\ Len(q) = n + m
  BY ConcatProperties
<1>3. ASSUME NEW i \in 1 .. (n + m)
      PROVE  q[i] = IF i <= n THEN r[i] ELSE p[i - n]
  BY <1>3, ConcatProperties
<1>4. \A i \in 1 .. n : r[i] \in Nat /\ r[i] <= d
  BY LenProperties
<1>5. \A i \in 1 .. m : p[i] = d + i
  OBVIOUS
<1>6. \A i, j \in 1 .. n : i < j => r[i] < r[j]
  OBVIOUS
<1> HIDE DEF n, m, q
<1>7. ASSUME NEW i \in 1 .. (n + m)
      PROVE  /\ i <= n => i \in 1 .. n /\ q[i] = r[i]
             /\ i > n => q[i] = d + (i - n)
  <2>1. i \in Int
    BY <1>1
  <2>2. i > n => i - n \in 1 .. m
    BY <1>1
  <2> QED
    BY <1>1, <1>3, <1>5, <2>1, <2>2
<1>8. \A i \in 1 .. (n + m) : q[i] <= d + m
  BY <1>1, <1>4, <1>7
<1>9. \A i, j \in 1 .. (n + m) : i < j => q[i] < q[j]
  BY <1>1, <1>4, <1>6, <1>7
<1>10. ASSUME n = d, \A i \in 1 .. n : r[i] = i
       PROVE  \A i \in 1 .. (n + m) : q[i] = i
  BY <1>1, <1>7, <1>10
<1> QED
  BY <1>2, <1>8, <1>9, <1>10 DEF n, m, q

(* Draining into the writer, or into nothing if it raises, keeps the books.*)
LEMMA WriteResultBooks ==
  ASSUME IInv, status = "open",
         WriteResult \/ (WriterRaises /\ broken'),
         UNCHANGED library, broken => broken'
  PROVE  /\ Books'
         /\ pending' = <<>> /\ Len(pending') = 0
         /\ delivered' \in Seq(Nat) /\ received' \in Seq(Nat) /\ dropped' \in Nat
         /\ UNCHANGED <<status, capacity>>
<1> DEFINE d == Len(delivered)
           m == Len(pending)
           n == Len(received)
<1>1. /\ pending' = <<>>
      /\ delivered' = delivered \o pending
      /\ UNCHANGED <<status, capacity>>
      /\ \/ received' = received \o pending /\ dropped' = dropped
         \/ received' = received /\ dropped' = dropped + m /\ broken'
  BY DEF WriteResult, WriterRaises, Native!Drain
<1>2. /\ pending \in Seq(Nat) /\ delivered \in Seq(Nat) /\ received \in Seq(Nat)
      /\ d \in Nat /\ m \in Nat /\ n \in Nat /\ dropped \in Nat
      /\ \A i \in 1 .. n : received[i] \in Nat
  BY LenProperties DEF IInv, TypeOK
<1>3. /\ library.emitted = d + m /\ n + dropped = d
      /\ \A i \in 1 .. m : pending[i] = d + i
      /\ \A i \in 1 .. n : received[i] <= d
      /\ \A i, j \in 1 .. n : i < j => received[i] < received[j]
      /\ ~broken => dropped = 0 /\ \A i \in 1 .. n : received[i] = i
  BY DEF IInv, Books
<1>4. Len(pending') = 0
  BY <1>1, EmptySeq
<1>5. delivered' \in Seq(Nat) /\ Len(delivered') = d + m
  BY <1>1, <1>2, ConcatProperties
<1>6. \A i \in 1 .. Len(pending') : pending'[i] = Len(delivered') + i
  BY <1>4
<1>7. /\ received' \in Seq(Nat) /\ dropped' \in Nat
      /\ Len(received') + dropped' = d + m
      /\ \A i \in 1 .. Len(received') : received'[i] <= d + m
      /\ \A i, j \in 1 .. Len(received') : i < j => received'[i] < received'[j]
      /\ ~broken' => dropped' = 0 /\ \A i \in 1 .. Len(received') : received'[i] = i
  <2>1. CASE received' = received /\ dropped' = dropped + m /\ broken'
    <3> HIDE DEF d, m
    <3>1. Len(received') = n
      BY <2>1
    <3>2. \A i \in 1 .. n : received'[i] <= d + m
      <4> HIDE DEF n
      <4> QED
        BY <1>2, <1>3, <2>1
    <3>3. Len(received') + dropped' = d + m /\ dropped' \in Nat
      <4> HIDE DEF n
      <4> QED
        BY <1>2, <1>3, <2>1, <3>1
    <3> QED
      BY <1>2, <1>3, <2>1, <3>1, <3>2, <3>3
  <2>2. CASE received' = received \o pending /\ dropped' = dropped
    <3>1. /\ received' \in Seq(Nat) /\ Len(received') = n + m
          /\ \A i \in 1 .. Len(received') : received'[i] <= d + m
          /\ \A i, j \in 1 .. Len(received') : i < j => received'[i] < received'[j]
          /\ n = d /\ (\A i \in 1 .. n : received[i] = i) =>
               \A i \in 1 .. Len(received') : received'[i] = i
      BY <1>2, <1>3, <2>2, AppendNumbers
    <3> HIDE DEF n, m, d
    <3>2. Len(received') + dropped' = d + m
      BY <1>2, <1>3, <2>2, <3>1
    <3>3. ~broken' => n = d /\ dropped' = 0 /\ \A i \in 1 .. n : received[i] = i
      BY <1>2, <1>3, <2>2
    <3> QED
      BY <1>2, <2>2, <3>1, <3>2, <3>3
  <2> QED
    BY <1>1, <2>1, <2>2
<1>8. Books'
  <2>1. library'.emitted = Len(delivered') + Len(pending')
    <3> HIDE DEF d, m
    <3> QED
      BY <1>2, <1>3, <1>4, <1>5
  <2> HIDE DEF n
  <2>2. Len(delivered') = d + m
    BY <1>5
  <2> QED
    BY <1>6, <1>7, <2>1, <2>2 DEF Books
<1> QED
  BY <1>1, <1>4, <1>5, <1>7, <1>8

(* After a write_result, whichever way it went, the types, the books and   *)
(* the buffer are in order.                                                *)
LEMMA WriteResultFacts ==
  ASSUME IInv, status = "open",
         WriteResult \/ (WriterRaises /\ broken')
           \/ (UNCHANGED <<native, writer>> /\ broken'),
         UNCHANGED <<direction, library>>, broken => broken'
  PROVE  /\ Books' /\ Closed'
         /\ pending' \in Seq(Nat) /\ delivered' \in Seq(Nat)
         /\ received' \in Seq(Nat) /\ dropped' \in Nat
         /\ Len(pending') <= Len(pending)
         /\ UNCHANGED <<status, capacity>>
<1>1. CASE WriteResult \/ (WriterRaises /\ broken')
  <2>1. /\ Books'
        /\ pending' = <<>> /\ Len(pending') = 0
        /\ delivered' \in Seq(Nat) /\ received' \in Seq(Nat) /\ dropped' \in Nat
        /\ UNCHANGED <<status, capacity>>
    BY <1>1, WriteResultBooks
  <2>2. pending' \in Seq(Nat) /\ Len(pending) \in Nat /\ capacity \in Nat
    BY <2>1, EmptySeq, LenProperties DEF IInv, TypeOK
  <2> QED
    BY <2>1, <2>2 DEF IInv, Closed
<1>2. CASE UNCHANGED <<native, writer>> /\ broken'
  <2>1. UNCHANGED <<status, capacity, pending, delivered, received, dropped, library>>
    BY <1>2 DEF native, writer
  <2>2. Len(pending) \in Nat
    BY LenProperties DEF IInv, TypeOK
  <2> QED
    BY <1>2, <2>1, <2>2 DEF IInv, TypeOK, Books, Closed
<1> QED
  BY <1>1, <1>2

--------------------------------------------------------------------------------
(* Every action keeps the invariant.                                       *)

(* A method that starts disturbs nothing but the places.                   *)
LEMMA StartKeeps ==
  ASSUME IInv, NEW m \in Methods \ {"flush"}, NEW place \in {"native", "last"},
         NEW length \in Nat, Start(m, place, length),
         place = "last" => m = "close" /\ direction = "decompress",
         direction = "decompress" /\ place = "native" => m = "write"
  PROVE  IInv'
<1>1. /\ at = "outside" /\ status = "open"
      /\ method' = m /\ at' = place /\ source' = length /\ outcome' = "none"
      /\ UNCHANGED <<direction, status, capacity, pending, delivered, library,
                     received, dropped, broken>>
  BY DEF Start, native, writer
<1>2. TypeOK'
  BY <1>1 DEF IInv, TypeOK
<1>3. Books'
  BY <1>1 DEF IInv, Books
<1>4. Places' /\ NothingOwed' /\ Closed'
  BY <1>1 DEF IInv, Places, NothingOwed, Closed
<1>5. NothingLeftBehind' /\ NotEnoughIsExact'
  BY <1>1 DEF NothingLeftBehind, NotEnoughIsExact
<1> QED
  BY <1>2, <1>3, <1>4, <1>5 DEF IInv

LEMMA StartsKeep == ASSUME IInv, Write \/ Finish \/ Close PROVE IInv'
<1>1. CASE Write
  <2>1. PICK length \in 0 .. MaxSource : Start("write", "native", length)
    BY <1>1 DEF Write
  <2>2. length \in Nat
    BY RawStreamAssumption
  <2> QED
    BY <2>1, <2>2, StartKeeps DEF Methods
<1>2. CASE Finish
  BY <1>2, StartKeeps DEF Finish, Methods
<1>3. CASE Close
  <2>1. direction \in {"compress", "decompress"}
    BY DEF IInv, TypeOK
  <2>2. Start("close", CloseStart, 0)
    BY <1>3 DEF Close
  <2> QED
    BY <2>1, <2>2, StartKeeps DEF CloseStart, Methods
<1> QED
  BY <1>1, <1>2, <1>3

(* A step that is a write_result and an end or a jump.                     *)
LEMMA FlushKeeps == ASSUME IInv, Flush PROVE IInv'
<1>1. /\ at = "outside" /\ status = "open" /\ method' = "flush" /\ at' = "outside"
      /\ UNCHANGED <<direction, library, source>>
      /\ outcome' \in {"returned", "raised"}
      /\ broken' = (broken \/ outcome' # "returned")
  BY DEF Flush, WriteResultRaises, End
<1>2. \/ WriteResult /\ outcome' = "returned"
      \/ WriterRaises /\ outcome' = "raised"
      \/ UNCHANGED <<native, writer>> /\ outcome' = "raised"
  BY DEF Flush, WriteResultRaises, End
<1>3. /\ Books' /\ Closed'
      /\ pending' \in Seq(Nat) /\ delivered' \in Seq(Nat)
      /\ received' \in Seq(Nat) /\ dropped' \in Nat
      /\ UNCHANGED <<status, capacity>>
  BY <1>1, <1>2, WriteResultFacts
<1>4. TypeOK'
  BY <1>1, <1>3 DEF IInv, TypeOK, Methods
<1>5. Places' /\ NothingOwed'
  BY <1>1, <1>3 DEF IInv, Places, NothingOwed
<1>6. NotEnoughIsExact'
  BY <1>1 DEF NotEnoughIsExact
<1>7. NothingLeftBehind'
  <2>1. CASE WriteResult
    <3>1. Len(pending') = 0
      BY <1>1, <2>1, WriteResultBooks
    <3>2. Len(received') \in Nat /\ Len(delivered') \in Nat
      BY <1>3, LenProperties
    <3>3. Len(received') + dropped' = library'.emitted
      BY <1>3, <3>1, <3>2 DEF Books
    <3> QED
      BY <1>1, <3>3 DEF NothingLeftBehind
  <2>2. CASE outcome' = "raised"
    BY <2>2 DEF NothingLeftBehind
  <2> QED
    BY <1>2, <2>1, <2>2
<1> QED
  BY <1>3, <1>4, <1>5, <1>6, <1>7 DEF IInv

(* The loop: the buffer was drained, and if nothing was in it, it is too   *)
(* short for the next unit.                                                *)
LEMMA MoreDestinationKeeps == ASSUME IInv, MoreDestination PROVE IInv'
<1>1. /\ at = "more" /\ status = "open" /\ outcome = "none"
      /\ UNCHANGED <<direction, library, method, source>>
  BY DEF MoreDestination, IInv, Places
<1>2. \/ /\ WriteResult
         /\ pending = <<>> /\ outcome' = "not_enough_destination"
         /\ at' = "outside" /\ broken'
      \/ /\ WriteResult
         /\ at' = "native" /\ UNCHANGED <<outcome, broken>>
      \/ /\ WriterRaises \/ UNCHANGED <<native, writer>>
         /\ at' = "outside" /\ outcome' = "raised" /\ broken'
  BY DEF MoreDestination, WriteResultRaises, End, GoTo, NothingWritten
<1>3. broken \in BOOLEAN /\ broken' \in BOOLEAN /\ (broken => broken')
  BY DEF MoreDestination, WriteResultRaises, End, GoTo, IInv, TypeOK
<1>4. /\ Books' /\ Closed'
      /\ pending' \in Seq(Nat) /\ delivered' \in Seq(Nat)
      /\ received' \in Seq(Nat) /\ dropped' \in Nat
      /\ UNCHANGED <<status, capacity>>
  BY <1>1, <1>2, <1>3, WriteResultFacts
<1>5. TypeOK'
  BY <1>1, <1>2, <1>3, <1>4 DEF IInv, TypeOK
<1>6. method # "flush" /\ (direction = "decompress" => method = "write")
  <2>1. direction = "decompress" => method = "write"
    BY <1>1 DEF IInv, Places
  <2>2. method # "flush"
    BY <1>1 DEF IInv, Places
  <2> QED
    BY <2>1, <2>2
<1>7. Places' /\ NothingOwed'
  BY <1>1, <1>2, <1>4, <1>6 DEF Places, NothingOwed
<1>8. NothingLeftBehind'
  BY <1>1, <1>2 DEF NothingLeftBehind
<1>9. NotEnoughIsExact'
  <2>1. ASSUME outcome' = "not_enough_destination" PROVE capacity' < MaxUnit
    <3>1. pending = <<>>
      BY <1>1, <1>2, <2>1
    <3>2. Len(pending) = 0
      BY <3>1, EmptySeq
    <3>3. capacity - Len(pending) < MaxUnit /\ capacity \in Nat
      BY <1>1 DEF IInv, Places, TypeOK
    <3> QED
      BY <1>4, <3>2, <3>3
  <2> QED
    BY <2>1 DEF NotEnoughIsExact
<1> QED
  BY <1>4, <1>5, <1>7, <1>8, <1>9 DEF IInv

(* The last write_result of finish and close.                              *)
LEMMA LastResultKeeps == ASSUME IInv, LastResult PROVE IInv'
<1>1. /\ at = "last" /\ status = "open" /\ outcome = "none"
      /\ method \in {"finish", "close"}
      /\ UNCHANGED <<direction, library, method, source>>
  BY DEF LastResult, IInv, Places
<1>2. \/ /\ WriteResult /\ method = "close"
         /\ at' = "native_close" /\ UNCHANGED <<outcome, broken>>
      \/ /\ WriteResult /\ method # "close"
         /\ at' = "outside" /\ outcome' = "returned" /\ UNCHANGED broken
      \/ /\ WriterRaises \/ UNCHANGED <<native, writer>>
         /\ at' = "outside" /\ outcome' = "raised" /\ broken'
  <2>1. broken \in BOOLEAN
    BY DEF IInv, TypeOK
  <2> QED
    BY <2>1 DEF LastResult, WriteResultRaises, End, GoTo
<1>3. broken \in BOOLEAN /\ broken' \in BOOLEAN /\ (broken => broken')
  BY DEF LastResult, WriteResultRaises, End, GoTo, IInv, TypeOK
<1>4. /\ Books' /\ Closed'
      /\ pending' \in Seq(Nat) /\ delivered' \in Seq(Nat)
      /\ received' \in Seq(Nat) /\ dropped' \in Nat
      /\ UNCHANGED <<status, capacity>>
  BY <1>1, <1>2, <1>3, WriteResultFacts
<1>5. TypeOK'
  BY <1>1, <1>2, <1>3, <1>4 DEF IInv, TypeOK
<1>6. at' = "native_close" => pending' = <<>>
  <2>1. WriteResult => pending' = <<>>
    BY DEF WriteResult, Native!Drain
  <2> QED
    BY <1>2, <2>1
<1>7. Places'
  BY <1>1, <1>2, <1>4, <1>6 DEF Places
<1>8. NothingOwed'
  BY <1>1, <1>2, <1>3 DEF IInv, NothingOwed
<1>9. NothingLeftBehind' /\ NotEnoughIsExact'
  BY <1>1, <1>2 DEF NothingLeftBehind, NotEnoughIsExact
<1> QED
  BY <1>4, <1>5, <1>7, <1>8, <1>9 DEF IInv

LEMMA NativeCloseKeeps == ASSUME IInv, NativeClose PROVE IInv'
<1>1. /\ at = "native_close" /\ status = "open" /\ method = "close" /\ pending = <<>>
      /\ UNCHANGED <<direction, library, method, source, received, dropped, delivered>>
      /\ status' = "closed" /\ capacity' = 0 /\ pending' = <<>>
      /\ at' = "outside" /\ outcome' = "returned" /\ broken' = broken
  <2>1. broken \in BOOLEAN
    BY DEF IInv, TypeOK
  <2> QED
    BY <2>1 DEF NativeClose, Native!Close, End, writer, IInv, Places
<1>2. pending' \in Seq(Nat) /\ Len(pending') = 0
  BY <1>1, EmptySeq
<1>3. TypeOK'
  BY <1>1, <1>2 DEF IInv, TypeOK
<1>4. Books'
  BY <1>1 DEF IInv, Books
<1>5. Places' /\ NothingOwed' /\ Closed'
  BY <1>1, <1>2 DEF IInv, Places, NothingOwed, Closed
<1>6. NothingLeftBehind' /\ NotEnoughIsExact'
  <2>1. Len(received) \in Nat /\ Len(delivered) \in Nat
    BY LenProperties DEF IInv, TypeOK
  <2>2. Len(received) + dropped = library.emitted
    BY <1>1, <1>2, <2>1 DEF IInv, Books
  <2>3. direction = "compress" => library.finishing /\ library.owed = 0
    BY <1>1 DEF IInv, NothingOwed
  <2> QED
    BY <1>1, <2>2, <2>3 DEF NothingLeftBehind, NotEnoughIsExact
<1> QED
  BY <1>3, <1>4, <1>5, <1>6 DEF IInv

(* What an answer of the library does to its stream and to the buffer.     *)
LEMMA AnswerFacts ==
  ASSUME IInv, at = "native", NEW o \in NativeAnswers
  PROVE  /\ o \in Outcomes(source, Room) /\ o.consumed \in 0 .. source
         /\ o.written \in Nat /\ o.written <= Room
         /\ o.result = "ok" => o.owed = 0
         /\ o.result = "needs_more_destination" => Room - o.written < MaxUnit
         /\ library.owed <= o.written + o.owed
<1>1. /\ source \in Nat /\ library \in LibraryStream
      /\ Room \in Nat
  <2>1. /\ capacity \in Nat /\ Len(pending) \in Nat /\ Len(pending) <= capacity
    BY LenProperties DEF IInv, TypeOK, Closed
  <2> QED
    BY <2>1 DEF Room, IInv, TypeOK
<1>2. /\ o \in Outcomes(source, Room)
      /\ o.result = "ok" => o.owed = 0
      /\ o.result = "needs_more_destination" => Room - o.written < MaxUnit
      /\ library.owed <= o.written + o.owed
  <2>1. CASE method # "write"
    <3>1. o \in FinishAnswers(library, Room)
      BY <2>1 DEF NativeAnswers
    <3>2. /\ o \in Outcomes(0, Room)
          /\ o.result = "ok" => o.owed = 0
          /\ o.result = "needs_more_destination" => Room - o.written < MaxUnit
          /\ library.owed <= o.written + o.owed
      BY <1>1, <3>1, FinishOutcomes
    <3>3. o \in Outcomes(source, Room)
      BY <1>1, <3>2 DEF Outcomes
    <3> QED
      BY <3>2, <3>3
  <2>2. CASE method = "write" /\ direction = "compress"
    <3>1. o \in CompressAnswers(library, source, Room)
      BY <2>2 DEF NativeAnswers
    <3> QED
      BY <1>1, <3>1, CompressOutcomes
  <2>3. CASE method = "write" /\ direction # "compress"
    <3>1. o \in DecompressAnswers(library, source, Room)
      BY <2>3 DEF NativeAnswers
    <3> QED
      BY <1>1, <3>1, DecompressOutcomes
  <2> QED
    BY <2>1, <2>2, <2>3
<1>3. o.consumed \in 0 .. source /\ o.written \in Nat /\ o.written <= Room
  BY <1>1, <1>2 DEF Outcomes
<1> QED
  BY <1>2, <1>3

(* The bytes that the library wrote are behind those that were pending.    *)
LEMMA CallBooks ==
  ASSUME IInv, at = "native", NEW o \in NativeAnswers,
         library' = After(library, o, method # "write"),
         IF o.written = 0 THEN UNCHANGED native ELSE Native!ProduceBytes(o.written),
         UNCHANGED writer, broken => broken'
  PROVE  /\ Books' /\ Closed
         /\ library' \in LibraryStream /\ library'.owed = o.owed
         /\ library'.finishing = (library.finishing \/ method # "write")
         /\ pending' \in Seq(Nat) /\ Len(pending') = Len(pending) + o.written
         /\ UNCHANGED <<status, capacity, delivered, received, dropped>>
<1> DEFINE d == Len(delivered)
           m == Len(pending)
           c == o.written
<1>1. c \in Nat /\ o \in Outcomes(source, Room)
  BY AnswerFacts
<1>2. Room \in Nat
  <2>1. /\ capacity \in Nat /\ Len(pending) \in Nat /\ Len(pending) <= capacity
    BY LenProperties DEF IInv, TypeOK, Closed
  <2> QED
    BY <2>1 DEF Room
<1>3. /\ library' \in LibraryStream /\ library'.owed = o.owed
      /\ library'.emitted = library.emitted + c
      /\ library'.finishing = (library.finishing \/ method # "write")
  <2>1. library \in LibraryStream /\ source \in Nat
    BY DEF IInv, TypeOK
  <2>2. \A f \in BOOLEAN :
          /\ After(library, o, f) \in LibraryStream
          /\ After(library, o, f).owed = o.owed
          /\ After(library, o, f).emitted = library.emitted + c
          /\ After(library, o, f).finishing = (library.finishing \/ f)
    BY <1>1, <1>2, <2>1, AfterIsStream
  <2> DEFINE finishing == method # "write"
  <2>3. finishing \in BOOLEAN /\ library' = After(library, o, finishing)
    OBVIOUS
  <2>4. (library.finishing \/ finishing) = (library.finishing \/ method # "write")
    OBVIOUS
  <2> HIDE DEF finishing, c
  <2> QED
    BY <2>2, <2>3, <2>4
<1>4. /\ pending \in Seq(Nat) /\ d \in Nat /\ m \in Nat
      /\ library.emitted = d + m
      /\ \A i \in 1 .. m : pending[i] = d + i
  BY LenProperties DEF IInv, TypeOK, Books
<1>5. UNCHANGED <<status, capacity, delivered, received, dropped>>
  BY DEF native, writer, Native!ProduceBytes
<1>6. /\ pending' \in Seq(Nat) /\ Len(pending') = m + c
      /\ \A i \in 1 .. (m + c) : pending'[i] = d + i
  <2>1. CASE c = 0
    <3>1. pending' = pending
      BY <2>1 DEF native
    <3> HIDE DEF d, m
    <3>2. m + c = m
      BY <1>4, <2>1
    <3> QED
      BY <1>4, <3>1, <3>2 DEF m
  <2>2. CASE c # 0
    <3> DEFINE p == Native!Produced(c)
    <3>1. pending' = pending \o p
      BY <2>2 DEF Native!ProduceBytes
    <3>2. p = [i \in 1 .. c |-> d + m + i]
      BY DEF Native!Produced
    <3>3. p \in [1 .. c -> Nat] /\ \A i \in 1 .. c : p[i] = d + m + i
      <4> HIDE DEF d, m, c, p
      <4>1. \A i \in 1 .. c : d + m + i \in Nat
        BY <1>1, <1>4
      <4> QED
        BY <3>2, <4>1
    <3>4. p \in Seq(Nat) /\ Len(p) = c
      <4> HIDE DEF c, p
      <4> QED
        BY <1>1, <3>3, FunctionIsSeq
    <3> HIDE DEF p
    <3>5. /\ pending' \in Seq(Nat) /\ Len(pending') = m + c
          /\ \A i \in 1 .. (m + c) :
               pending'[i] = IF i <= m THEN pending[i] ELSE p[i - m]
      <4>1. Len(pending) + Len(p) = m + c
        BY <3>4
      <4>2. /\ pending \o p \in Seq(Nat) /\ Len(pending \o p) = m + c
            /\ \A i \in 1 .. (m + c) :
                 (pending \o p)[i] = IF i <= m THEN pending[i] ELSE p[i - m]
        <5> HIDE DEF c
        <5> QED
          BY <1>4, <3>4, <4>1, ConcatProperties
      <4> QED
        BY <3>1, <4>2
    <3>6. ASSUME NEW i \in 1 .. (m + c) PROVE pending'[i] = d + i
      <4> HIDE DEF d, m, c
      <4>1. CASE i <= m
        <5>1. i \in 1 .. m
          BY <1>1, <1>4, <4>1
        <5>2. pending'[i] = pending[i]
          BY <3>5, <4>1
        <5>3. pending[i] = d + i
          BY <1>4, <5>1
        <5> QED
          BY <5>2, <5>3
      <4>2. CASE i > m
        <5>1. i - m \in 1 .. c
          BY <1>1, <1>4, <4>2
        <5>2. p[i - m] = d + m + (i - m)
          BY <3>3, <5>1
        <5> QED
          BY <1>1, <1>4, <3>5, <4>2, <5>2
      <4> QED
        BY <1>1, <1>4, <4>1, <4>2
    <3> QED
      BY <3>5, <3>6
  <2> QED
    BY <2>1, <2>2
<1>7. Books'
  <2>1. library'.emitted = d + (m + c)
    <3> HIDE DEF d, m, c
    <3> QED
      BY <1>1, <1>3, <1>4
  <2>2. ~broken' => ~broken
    OBVIOUS
  <2> HIDE DEF m, c
  <2> QED
    BY <1>5, <1>6, <2>1, <2>2 DEF IInv, Books
<1> QED
  BY <1>3, <1>5, <1>6, <1>7 DEF IInv

LEMMA CallNativeKeeps == ASSUME IInv, CallNative PROVE IInv'
<1>1. PICK o \in NativeAnswers :
        /\ library' = After(library, o, method # "write")
        /\ IF o.written = 0 THEN UNCHANGED native ELSE Native!ProduceBytes(o.written)
        /\ source' = Rest(o.consumed)
        /\ \/ End("raised")
           \/ /\ o.result # "failed"
              /\ \E place \in AfterAnswer(o.result) :
                   IF place = "outside" THEN End("returned") ELSE GoTo(place)
  BY DEF CallNative
<1>2. /\ at = "native" /\ status = "open" /\ outcome = "none" /\ method # "flush"
      /\ direction = "decompress" => method = "write"
      /\ UNCHANGED <<direction, method, writer>>
  <2>1. at = "native" /\ UNCHANGED <<direction, method, writer>>
    BY DEF CallNative
  <2>2. status = "open" /\ outcome = "none" /\ method # "flush"
    BY <2>1 DEF IInv, Places
  <2>3. direction = "decompress" => method = "write"
    BY <2>1 DEF IInv, Places
  <2> QED
    BY <2>1, <2>2, <2>3
<1>3. /\ o \in Outcomes(source, Room) /\ o.consumed \in 0 .. source
      /\ o.written \in Nat /\ o.written <= Room
      /\ o.result = "ok" => o.owed = 0
      /\ o.result = "needs_more_destination" => Room - o.written < MaxUnit
  BY <1>2, AnswerFacts
<1>4. broken \in BOOLEAN /\ broken' \in BOOLEAN /\ (broken => broken')
  BY <1>1 DEF End, GoTo, IInv, TypeOK
<1>5. /\ Books' /\ Closed
      /\ library' \in LibraryStream /\ library'.owed = o.owed
      /\ library'.finishing = (library.finishing \/ method # "write")
      /\ pending' \in Seq(Nat) /\ Len(pending') = Len(pending) + o.written
      /\ UNCHANGED <<status, capacity, delivered, received, dropped>>
  BY <1>1, <1>2, <1>4, CallBooks
<1>6. \/ at' = "outside" /\ outcome' = "raised" /\ broken'
      \/ /\ o.result = "needs_more_destination"
         /\ at' = "more" /\ UNCHANGED <<outcome, broken>>
      \/ /\ o.result = "ok" /\ method \in {"write", "finish"}
         /\ at' = "outside" /\ outcome' = "returned" /\ UNCHANGED broken
      \/ /\ o.result = "ok" /\ method \in {"finish", "close"}
         /\ at' = "last" /\ UNCHANGED <<outcome, broken>>
  <2>1. CASE End("raised")
    BY <2>1 DEF End
  <2>2. CASE o.result = "needs_more_destination" /\ GoTo("more")
    BY <2>2 DEF GoTo
  <2>3. ASSUME o.result # "failed", o.result # "needs_more_destination",
               NEW place \in AfterAnswer(o.result),
               IF place = "outside" THEN End("returned") ELSE GoTo(place)
        PROVE  \/ /\ o.result = "ok" /\ method \in {"write", "finish"}
                  /\ at' = "outside" /\ outcome' = "returned" /\ UNCHANGED broken
               \/ /\ o.result = "ok" /\ method \in {"finish", "close"}
                  /\ at' = "last" /\ UNCHANGED <<outcome, broken>>
    <3>1. o.result = "ok"
      BY <1>3, <2>3 DEF Outcomes, Results
    <3>2. method \in {"write", "finish", "close"}
      BY <1>2 DEF IInv, TypeOK, Methods
    <3>3. \/ place = "outside" /\ method \in {"write", "finish"}
          \/ place = "last" /\ method \in {"finish", "close"}
      <4>1. CASE method = "write"
        BY <2>3, <4>1 DEF AfterAnswer
      <4>2. CASE method = "finish"
        BY <2>3, <4>2 DEF AfterAnswer
      <4>3. CASE method = "close"
        BY <2>3, <4>3 DEF AfterAnswer
      <4> QED
        BY <3>2, <4>1, <4>2, <4>3
    <3> QED
      BY <1>4, <2>3, <3>1, <3>3 DEF End, GoTo
  <2> QED
    BY <1>1, <2>1, <2>2, <2>3 DEF AfterAnswer
<1>7. TypeOK'
  <2>1. source' \in Nat
    <3>1. source \in Nat
      BY DEF IInv, TypeOK
    <3> QED
      BY <1>1, <1>3, <3>1 DEF Rest
  <2> QED
    BY <1>2, <1>4, <1>5, <1>6, <2>1 DEF IInv, TypeOK, writer
<1>8. Places'
  <2>1. o.result = "needs_more_destination" => capacity' - Len(pending') < MaxUnit
    <3>1. capacity \in Nat /\ Len(pending) \in Nat
      BY LenProperties DEF IInv, TypeOK
    <3> QED
      BY <1>3, <1>5, <3>1, LibraryAssumption DEF Room
  <2> QED
    BY <1>2, <1>5, <1>6, <2>1 DEF Places
<1>9. NothingOwed'
  BY <1>2, <1>3, <1>4, <1>5, <1>6 DEF NothingOwed
<1>10. Closed'
  <2>1. capacity \in Nat /\ Len(pending) \in Nat
    BY LenProperties DEF IInv, TypeOK
  <2> QED
    BY <1>2, <1>3, <1>5, <2>1 DEF Closed, Room
<1>11. NothingLeftBehind' /\ NotEnoughIsExact'
  BY <1>2, <1>6 DEF NothingLeftBehind, NotEnoughIsExact
<1> QED
  BY <1>5, <1>7, <1>8, <1>9, <1>10, <1>11 DEF IInv

--------------------------------------------------------------------------------
(* The theorems.                                                           *)

(* Every step keeps the invariant.                                         *)
LEMMA NextIInv == ASSUME IInv, [Next]_vars PROVE IInv'
<1>1. CASE Next
  BY <1>1, StartsKeep, FlushKeeps, CallNativeKeeps, MoreDestinationKeeps,
     LastResultKeeps, NativeCloseKeeps DEF Next, Inside
<1>2. CASE UNCHANGED vars
  BY <1>2 DEF vars, native, writer, IInv, TypeOK, Books, Places, NothingOwed, Closed,
              NothingLeftBehind, NotEnoughIsExact
<1> QED
  BY <1>1, <1>2

(* The invariant holds in every state of the loops.                        *)
LEMMA Invariance == Spec => []IInv
<1>1. Init => IInv
  BY InitIInv
<1>2. IInv /\ [Next]_vars => IInv'
  BY NextIInv
<1> QED
  BY <1>1, <1>2, PTL DEF Spec

(* Every variable of the loops has its type.                               *)
THEOREM Types == Spec => []TypeOK
<1>1. IInv => TypeOK
  BY DEF IInv
<1> QED
  BY <1>1, Invariance, PTL

(* The writer gets the output in order and nothing twice, also when calls  *)
(* are repeated after a block has raised.                                  *)
THEOREM InOrder == Spec => []ReceivedInOrder
<1>1. IInv => ReceivedInOrder
  <2> SUFFICES ASSUME IInv PROVE ReceivedInOrder
    OBVIOUS
  <2> DEFINE d == Len(delivered)
             m == Len(pending)
             n == Len(received)
  <2>1. d \in Nat /\ m \in Nat /\ n \in Nat /\ dropped \in Nat
    BY LenProperties DEF IInv, TypeOK
  <2>2. library.emitted = d + m /\ n + dropped = d
    BY DEF IInv, Books
  <2>3. n + dropped + m = library.emitted
    <3> HIDE DEF d, m, n
    <3> QED
      BY <2>1, <2>2
  <2> QED
    BY <2>3 DEF IInv, Books, ReceivedInOrder
<1> QED
  BY <1>1, Invariance, PTL

(* flush and close leave nothing in the native buffer, and a compressor    *)
(* that is closed has been finished.                                       *)
THEOREM Complete == Spec => []NothingLeftBehind
<1>1. IInv => NothingLeftBehind
  BY DEF IInv
<1> QED
  BY <1>1, Invariance, PTL

(* The error that asks for more destination is only raised for a buffer    *)
(* that is shorter than the largest unit.                                  *)
THEOREM NotEnough == Spec => []NotEnoughIsExact
<1>1. IInv => NotEnoughIsExact
  BY DEF IInv
<1> QED
  BY <1>1, Invariance, PTL

--------------------------------------------------------------------------------
(* The end of the methods.                                                 *)

(* A native call takes what it writes from the output to come.             *)
LEMMA CallUsesUp ==
  ASSUME IInv, CallNative
  PROVE  Undrained' \in Nat /\ Undrained' <= Undrained
<1>1. PICK o \in NativeAnswers :
        /\ library' = After(library, o, method # "write")
        /\ IF o.written = 0 THEN UNCHANGED native ELSE Native!ProduceBytes(o.written)
        /\ source' = source - o.consumed
  BY DEF CallNative, Rest
<1>2. at = "native"
  BY DEF CallNative
<1>3. /\ o \in Outcomes(source, Room) /\ o.written \in Nat
      /\ o.consumed \in 0 .. source
  BY <1>2, AnswerFacts
<1>4. /\ library \in LibraryStream /\ source \in Nat /\ Room \in Nat
  <2>1. /\ capacity \in Nat /\ Len(pending) \in Nat /\ Len(pending) <= capacity
    BY LenProperties DEF IInv, TypeOK, Closed
  <2> QED
    BY <2>1 DEF Room, IInv, TypeOK
<1>5. /\ ToCome(library', source') \in Nat
      /\ o.written + ToCome(library', source') <= ToCome(library, source)
  <2>1. CASE method = "write"
    <3>1. o \in CompressAnswers(library, source, Room)
                 \cup DecompressAnswers(library, source, Room)
      BY <2>1 DEF NativeAnswers
    <3>2. library' = After(library, o, FALSE)
      <4>1. (method # "write") = FALSE
        BY <2>1
      <4> QED
        BY <1>1, <4>1, Zenon
    <3> QED
      BY <1>1, <1>4, <3>1, <3>2, CompressUsesUp
  <2>2. CASE method # "write"
    <3>1. o \in FinishAnswers(library, Room)
      BY <2>2 DEF NativeAnswers
    <3>2. library' = After(library, o, TRUE)
      <4>1. (method # "write") = TRUE
        BY <2>2
      <4> QED
        BY <1>1, <4>1, Zenon
    <3>3. source' = source
      <4>1. o.consumed = 0
        BY <1>4, <3>1, FinishOutcomes DEF Outcomes
      <4>2. source' = source - o.consumed
        BY <1>1
      <4> QED
        BY <1>4, <4>1, <4>2
    <3> QED
      BY <1>4, <3>1, <3>2, <3>3, FinishUsesUp
  <2> QED
    BY <2>1, <2>2
<1>6. ToCome(library, source) \in Nat
  BY <1>4, YieldIsNat, LibraryAssumption DEF ToCome, LibraryStream
<1>7. Len(pending') = Len(pending) + o.written /\ Len(pending) \in Nat
  <2>1. UNCHANGED writer /\ (broken => broken')
    BY DEF CallNative, End, GoTo
  <2> QED
    BY <1>1, <1>2, <2>1, CallBooks, LenProperties DEF IInv, TypeOK
<1> DEFINE before == ToCome(library, source)
           after  == ToCome(library', source')
           m == Len(pending)
           m2 == Len(pending')
           c == o.written
<1>8. /\ before \in Nat /\ after \in Nat /\ c \in Nat /\ m \in Nat
      /\ c + after <= before /\ m2 = m + c
  BY <1>3, <1>5, <1>6, <1>7
<1>9. Undrained = before + m /\ Undrained' = after + m2
  BY DEF Undrained
<1> HIDE DEF before, after, m, m2, c
<1> QED
  BY <1>8, <1>9

(* What a step inside a method does to the output that it has to drain.    *)
Nearer ==
  /\ Undrained \in Nat
  /\ \/ at = "more" /\ Undrained' + Portion <= Undrained
     \/ Rank[at'] < Rank[at] /\ Undrained' <= Undrained

(* A native call adds to the buffer only what is no longer to come, and a  *)
(* drain that is followed by another call takes a portion out of it.       *)
LEMMA StepComesNearer ==
  ASSUME IInv, Next, at # "outside", at' # "outside"
  PROVE  Nearer
<1> DEFINE before == ToCome(library, source)
           m == Len(pending)
<1>1. before \in Nat /\ m \in Nat
  <2>1. library \in LibraryStream /\ source \in Nat
    BY DEF IInv, TypeOK
  <2>2. before \in Nat
    BY <2>1, YieldIsNat, LibraryAssumption DEF ToCome, LibraryStream
  <2>3. m \in Nat
    BY LenProperties DEF IInv, TypeOK
  <2> HIDE DEF before, m
  <2> QED
    BY <2>2, <2>3
<1>2. Undrained = before + m /\ Undrained \in Nat
  <2>1. Undrained = before + m
    BY DEF Undrained
  <2> HIDE DEF before, m
  <2> QED
    BY <1>1, <2>1
<1>3. CASE CallNative
  <2>1. Undrained' <= Undrained
    BY <1>3, CallUsesUp
  <2>2. at = "native" /\ at' \in {"more", "last"}
    <3>1. at = "native" /\ method \in {"write", "finish", "close"}
      BY <1>3 DEF CallNative, IInv, Places, TypeOK, Methods
    <3>2. PICK o \in NativeAnswers : \E place \in AfterAnswer(o.result) : at' = place
      BY <1>3 DEF CallNative, End, GoTo
    <3> QED
      BY <3>1, <3>2 DEF AfterAnswer
  <2>3. Rank[at'] < Rank[at]
    BY <2>2 DEF Rank
  <2> QED
    BY <1>2, <2>1, <2>3 DEF Nearer
<1>4. CASE MoreDestination
  <2>1. /\ at = "more" /\ pending # <<>> /\ pending' = <<>>
        /\ UNCHANGED <<library, source, capacity>>
    BY <1>4 DEF MoreDestination, WriteResult, WriteResultRaises, End, GoTo,
                NothingWritten, Native!Drain
  <2>2. Undrained' = before
    <3>1. Undrained' = ToCome(library', source') + Len(pending')
      BY DEF Undrained
    <3>2. ToCome(library', source') = before /\ Len(pending') = 0
      BY <2>1, EmptySeq
    <3> HIDE DEF before
    <3> QED
      BY <1>1, <3>1, <3>2
  <2>3. Portion \in Nat /\ Portion <= m
    <3>1. m # 0
      BY <2>1, EmptySeq DEF IInv, TypeOK
    <3>2. capacity \in Nat /\ capacity - m < MaxUnit
      BY <2>1 DEF IInv, TypeOK, Places
    <3> HIDE DEF m
    <3> QED
      BY <1>1, <3>1, <3>2, LibraryAssumption DEF Portion
  <2>4. Undrained' + Portion <= Undrained
    <3> HIDE DEF before, m
    <3> QED
      BY <1>1, <1>2, <2>2, <2>3
  <2> QED
    BY <1>2, <2>1, <2>4 DEF Nearer
<1>5. CASE LastResult
  <2>1. /\ at = "last" /\ at' = "native_close" /\ pending' = <<>>
        /\ UNCHANGED <<library, source>>
    BY <1>5 DEF LastResult, WriteResult, WriteResultRaises, End, GoTo, Native!Drain
  <2>2. Rank[at'] < Rank[at]
    BY <2>1 DEF Rank
  <2>3. Undrained' = before
    <3>1. Undrained' = ToCome(library', source') + Len(pending')
      BY DEF Undrained
    <3>2. ToCome(library', source') = before /\ Len(pending') = 0
      BY <2>1, EmptySeq
    <3> HIDE DEF before
    <3> QED
      BY <1>1, <3>1, <3>2
  <2>4. Undrained' <= Undrained
    <3> HIDE DEF before, m
    <3> QED
      BY <1>1, <1>2, <2>3
  <2> QED
    BY <1>2, <2>2, <2>4 DEF Nearer
<1>6. CASE NativeClose \/ Write \/ Flush \/ Finish \/ Close
  BY <1>6 DEF NativeClose, End, Write, Flush, Finish, Close, Start
<1> QED
  BY <1>3, <1>4, <1>5, <1>6 DEF Next, Inside

(* A method makes only so many steps: the loops of the raw streams, which  *)
(* have no bound of their own, are bounded by the output that is to come.  *)
THEOREM Ends == Spec => StepsComeToAnEnd
<1>1. IInv /\ [Next]_vars => [at # "outside" /\ at' # "outside" => Nearer]_vars
  <2> SUFFICES ASSUME IInv, [Next]_vars, UNCHANGED vars => FALSE,
                      at # "outside", at' # "outside"
               PROVE  Nearer
    OBVIOUS
  <2> QED
    BY StepComesNearer
<1> QED
  BY <1>1, Invariance, PTL DEF Spec, StepsComeToAnEnd, Nearer

--------------------------------------------------------------------------------
(* The abstract conversion.                                                *)

(* The numbers from 1 on are the first bytes of the output.                *)
LEMMA NumbersAreOutput ==
  ASSUME NEW s \in Seq(Nat), \A i \in 1 .. Len(s) : s[i] = i
  PROVE  s = Result!Output(Len(s))
<1> DEFINE n == Len(s)
<1>1. n \in Nat /\ s \in [1 .. n -> Nat]
  BY SeqIsFunction
<1>2. \A i \in 1 .. n : s[i] = i
  OBVIOUS
<1>3. s = [i \in 1 .. n |-> i]
  <2> HIDE DEF n
  <2> QED
    BY <1>1, <1>2
<1> QED
  BY <1>3 DEF Result!Output

(* A write_result delivers, unless it raises.                              *)
LEMMA DeliverStep ==
  ASSUME IInv, IInv', status = "open", UNCHANGED <<status, library>>,
         broken => broken', WriteResult \/ broken'
  PROVE  [Result!Next]_(Result!vars)
<1>1. broken \in BOOLEAN /\ broken' \in BOOLEAN
  BY DEF IInv, TypeOK
<1>2. CASE broken'
  BY <1>1, <1>2 DEF Result!Next, Result!Raise
<1>3. CASE ~broken'
  <2> DEFINE n == Len(received)
             n2 == Len(received')
             made == library.emitted + library.owed
  <2>1. ~broken /\ WriteResult
    BY <1>1, <1>3
  <2>2. received' = Result!Output(n2)
    <3>1. received' \in Seq(Nat) /\ \A i \in 1 .. Len(received') : received'[i] = i
      BY <1>3 DEF IInv, TypeOK, Books
    <3> QED
      BY <3>1, NumbersAreOutput
  <2>3. n2 = n + Len(pending) /\ n \in Nat /\ Len(pending) \in Nat
    BY <2>1, ConcatProperties, LenProperties DEF WriteResult, IInv, TypeOK
  <2>4. n2 <= library.emitted
    <3>1. n + dropped = Len(delivered) /\ dropped = 0
      BY <2>1 DEF IInv, Books
    <3>2. library.emitted = Len(delivered) + Len(pending)
      BY DEF IInv, Books
    <3>3. Len(delivered) \in Nat
      BY LenProperties DEF IInv, TypeOK
    <3> HIDE DEF n, n2
    <3> QED
      BY <2>3, <3>1, <3>2, <3>3
  <2>5. n2 \in n .. made
    <3>1. library.owed \in Nat /\ library.emitted \in Nat
      BY DEF IInv, TypeOK, LibraryStream
    <3> HIDE DEF n, n2
    <3> QED
      BY <2>3, <2>4, <3>1
  <2>6. Result!Deliver
    BY <1>3, <2>1, <2>2, <2>5 DEF Result!Deliver
  <2> QED
    BY <2>6 DEF Result!Next
<1> QED
  BY <1>1, <1>2, <1>3

(* A native call converts, unless it raises.                               *)
LEMMA ConvertStep ==
  ASSUME IInv, IInv', CallNative
  PROVE  [Result!Next]_(Result!vars)
<1>1. broken \in BOOLEAN /\ broken' \in BOOLEAN
  BY DEF IInv, TypeOK
<1>2. PICK o \in NativeAnswers :
        /\ library' = After(library, o, method # "write")
        /\ IF o.written = 0 THEN UNCHANGED native ELSE Native!ProduceBytes(o.written)
  BY DEF CallNative
<1>3. at = "native" /\ status = "open" /\ UNCHANGED writer
  BY DEF CallNative, IInv, Places
<1>4. broken => broken'
  BY DEF CallNative, End, GoTo
<1>5. UNCHANGED <<status, received>>
  BY <1>2 DEF CallNative, native, writer, Native!ProduceBytes
<1>6. CASE broken'
  BY <1>1, <1>3, <1>6 DEF Result!Next, Result!Raise
<1>7. CASE ~broken'
  <2>1. library.owed <= o.written + o.owed /\ o.written \in Nat
    BY <1>3, AnswerFacts
  <2>2. library'.emitted = library.emitted + o.written /\ library'.owed = o.owed
    BY <1>2 DEF After
  <2>3. /\ library.emitted \in Nat /\ library.owed \in Nat
        /\ library'.emitted \in Nat /\ library'.owed \in Nat
    BY DEF IInv, TypeOK, LibraryStream
  <2>4. /\ library'.emitted + library'.owed \in Nat
        /\ library.emitted + library.owed <= library'.emitted + library'.owed
    BY <2>1, <2>2, <2>3
  <2> QED
    BY <1>1, <1>3, <1>4, <1>5, <1>7, <2>4 DEF Result!Next, Result!Convert
<1> QED
  BY <1>1, <1>6, <1>7

(* close of the native object returns when the writer has everything.      *)
LEMMA ReturnStep ==
  ASSUME IInv, IInv', NativeClose
  PROVE  [Result!Next]_(Result!vars)
<1>1. /\ at = "native_close" /\ status = "open" /\ method = "close"
      /\ pending = <<>> /\ Len(pending) = 0
      /\ UNCHANGED <<library, received>>
      /\ status' = "closed" /\ broken' = broken /\ broken \in BOOLEAN
  <2>1. broken \in BOOLEAN
    BY DEF IInv, TypeOK
  <2>2. pending = <<>>
    BY DEF NativeClose, IInv, Places
  <2> QED
    BY <2>1, <2>2, EmptySeq DEF NativeClose, Native!Close, End, writer, IInv, Places
<1>2. CASE broken
  BY <1>1, <1>2 DEF Result!Next, Result!Raise
<1>3. CASE ~broken
  <2> DEFINE n == Len(received)
             made == library.emitted + library.owed
  <2>1. received = Result!Output(n)
    <3>1. received \in Seq(Nat) /\ \A i \in 1 .. Len(received) : received[i] = i
      BY <1>3 DEF IInv, TypeOK, Books
    <3> QED
      BY <3>1, NumbersAreOutput
  <2>2. n = made /\ made \in Nat
    <3>1. library.owed = 0
      BY <1>1, <1>3 DEF IInv, TypeOK, NothingOwed
    <3>2. n + dropped = Len(delivered) /\ dropped = 0
      BY <1>3 DEF IInv, Books
    <3>3. library.emitted = Len(delivered)
      <4>1. Len(delivered) \in Nat
        BY LenProperties DEF IInv, TypeOK
      <4> QED
        BY <1>1, <4>1 DEF IInv, Books
    <3>4. n \in Nat
      BY LenProperties DEF IInv, TypeOK
    <3> HIDE DEF n
    <3> QED
      BY <3>1, <3>2, <3>3, <3>4
  <2>3. Result!Return
    <3> HIDE DEF n
    <3> QED
      BY <1>1, <1>3, <2>1, <2>2 DEF Result!Return
  <2> QED
    BY <2>3 DEF Result!Next
<1> QED
  BY <1>1, <1>2, <1>3

LEMMA NextImplements ==
  ASSUME IInv, IInv', [Next]_vars
  PROVE  [Result!Next]_(Result!vars)
<1>1. CASE Write \/ Finish \/ Close
  BY <1>1 DEF Write, Finish, Close, Start, native, writer, Result!vars
<1>2. CASE Flush
  <2>1. /\ status = "open" /\ UNCHANGED library
        /\ WriteResult \/ WriterRaises \/ UNCHANGED native
        /\ WriteResult \/ broken'
        /\ broken => broken'
    BY <1>2 DEF Flush, WriteResultRaises, End
  <2>2. UNCHANGED status
    BY <2>1 DEF WriteResult, WriterRaises, Native!Drain, native
  <2> QED
    BY <2>1, <2>2, DeliverStep
<1>3. CASE CallNative
  BY <1>3, ConvertStep
<1>4. CASE MoreDestination \/ LastResult
  <2>1. /\ status = "open" /\ UNCHANGED library
        /\ WriteResult \/ WriterRaises \/ UNCHANGED native
        /\ WriteResult \/ broken'
        /\ broken => broken'
    BY <1>4 DEF MoreDestination, LastResult, WriteResultRaises, End, GoTo, IInv, Places
  <2>2. UNCHANGED status
    BY <2>1 DEF WriteResult, WriterRaises, Native!Drain, native
  <2> QED
    BY <2>1, <2>2, DeliverStep
<1>5. CASE NativeClose
  BY <1>5, ReturnStep
<1>6. CASE UNCHANGED vars
  BY <1>6 DEF vars, native, writer, Result!vars
<1> QED
  BY <1>1, <1>2, <1>3, <1>4, <1>5, <1>6 DEF Next, Inside

(* Without an error the stream is a conversion: what the writer has is a   *)
(* first part of the output, and all of it when the stream is closed.      *)
THEOREM Implements == Spec => ImplementsConversion
<1>1. Init => Result!Init
  <2> SUFFICES ASSUME Init PROVE Result!Init
    OBVIOUS
  <2>1. IInv
    BY InitIInv
  <2>2. library.emitted + library.owed \in Nat
    BY <2>1 DEF IInv, TypeOK, LibraryStream
  <2> QED
    BY <2>2 DEF Init, Result!Init
<1>2. IInv /\ IInv' /\ [Next]_vars => [Result!Next]_(Result!vars)
  BY NextImplements
<1>3. Spec => Result!Spec
  BY <1>1, <1>2, Invariance, PTL DEF Spec, Result!Spec
<1> QED
  BY <1>3 DEF ImplementsConversion

(* In every state of a Conversion: the writer of a stream that was closed  *)
(* has all.                                                                *)
ConversionInv ==
  status = "closed" /\ ~broken =>
    received = Result!Output(library.emitted + library.owed)

(* Conversion says enough: if no call has raised, the writer of a closed   *)
(* stream has the whole output, byte by byte.                              *)
THEOREM ConversionPromises ==
  ImplementsConversion =>
    [](status = "closed" /\ ~broken =>
         received = [i \in 1 .. library.emitted + library.owed |-> i])
<1>1. Result!Init => ConversionInv
  BY DEF Result!Init, ConversionInv
<1>2. ConversionInv /\ [Result!Next]_(Result!vars) => ConversionInv'
  <2> SUFFICES ASSUME ConversionInv, [Result!Next]_(Result!vars),
                      status' = "closed", ~broken'
               PROVE  received' = Result!Output(library'.emitted + library'.owed)
    BY DEF ConversionInv, Result!Output
  <2>1. CASE Result!Return
    BY <2>1 DEF Result!Return
  <2>2. CASE Result!Convert \/ Result!Deliver \/ Result!Raise
    BY <2>2 DEF Result!Convert, Result!Deliver, Result!Raise
  <2>3. CASE UNCHANGED Result!vars
    BY <2>3 DEF Result!vars, ConversionInv
  <2> QED
    BY <2>1, <2>2, <2>3 DEF Result!Next
<1>3. ConversionInv =>
        (status = "closed" /\ ~broken =>
           received = [i \in 1 .. library.emitted + library.owed |-> i])
  BY DEF ConversionInv, Result!Output
<1> QED
  BY <1>1, <1>2, <1>3, PTL DEF ImplementsConversion, Result!Spec

(* So it is with the raw streams, whatever the native buffer.              *)
THEOREM OutputIsWhole ==
  Spec => [](status = "closed" /\ ~broken =>
               received = [i \in 1 .. library.emitted + library.owed |-> i])
BY Implements, ConversionPromises, PTL
================================================================================
