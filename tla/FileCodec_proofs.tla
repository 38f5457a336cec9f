---------------------------- MODULE FileCodec_proofs ----------------------------
(***************************************************************************)
(* The safety properties of FileCodec, from an inductive invariant.        *)
(***************************************************************************)
EXTENDS FileCodec, SequenceTheorems, TLAPS

(* The bytes from base + 1 on.                                             *)
Numbered(s, base) == \A i \in 1 .. Len(s) : s[i] = base + i

(* While nothing was refused, the file and the FILE together hold what was *)
(* written, the FILE what follows the file; a closed IO has only the file. *)
InOrder ==
  failed = {} => /\ Numbered(disk, 0)
                 /\ Numbered(stdio, Len(disk))
                 /\ open => written = Len(disk) + Len(stdio)
                 /\ promised <= Len(disk)

(* A write that has failed is in result until the call ends.               *)
FailureIsInResult ==
  /\ pc # "outside" => open
  /\ untold => pc = "back" /\ result = "write_failed"
  /\ result = "write_failed" \/ outcome = "WriteIOError" => "write" \in failed
  /\ pc = "library" => result = "ok"
  /\ FlushCanFail \/ "flush" \notin failed

(* The inductive invariant.                                                *)
IInv == TypeOK /\ InOrder /\ FailureIsInResult

--------------------------------------------------------------------------------
(* Lemmas on the sequences.                                                *)

(* First and Rest cut a sequence in two.                                   *)
LEMMA CutProperties ==
  ASSUME NEW s \in Seq(Nat), NEW n \in 0 .. Len(s)
  PROVE  /\ First(s, n) \in Seq(Nat) /\ Len(First(s, n)) = n
         /\ \A i \in 1 .. n : First(s, n)[i] = s[i]
         /\ Rest(s, n) \in Seq(Nat) /\ Len(Rest(s, n)) = Len(s) - n
         /\ \A i \in 1 .. Len(s) - n : Rest(s, n)[i] = s[n + i]
<1>1. Len(s) \in Nat /\ \A i \in 1 .. Len(s) : s[i] \in Nat
  BY LenProperties, ElementOfSeq
<1>2. First(s, n) \in Seq(Nat) /\ Len(First(s, n)) = n
      /\ \A i \in 1 .. n : First(s, n)[i] = s[i]
  BY <1>1 DEF First
<1>3. Rest(s, n) \in Seq(Nat) /\ Len(Rest(s, n)) = Len(s) - n
      /\ \A i \in 1 .. Len(s) - n : Rest(s, n)[i] = s[n + i]
  BY <1>1 DEF Rest
<1> QED
  BY <1>2, <1>3

(* Numbered sequences can be joined where one ends and the other begins.   *)
LEMMA JoinNumbered ==
  ASSUME NEW s \in Seq(Nat), NEW t \in Seq(Nat), NEW base \in Nat,
         Numbered(s, base), Numbered(t, base + Len(s))
  PROVE  /\ s \o t \in Seq(Nat)
         /\ Len(s \o t) = Len(s) + Len(t)
         /\ Numbered(s \o t, base)
<1>1. /\ s \o t \in Seq(Nat)
      /\ Len(s \o t) = Len(s) + Len(t)
      /\ Len(s) \in Nat /\ Len(t) \in Nat
      /\ \A i \in 1 .. Len(s) + Len(t) :
           (s \o t)[i] = IF i <= Len(s) THEN s[i] ELSE t[i - Len(s)]
  BY ConcatProperties, LenProperties
<1>2. ASSUME NEW i \in 1 .. Len(s) + Len(t)
      PROVE  (s \o t)[i] = base + i
  <2>1. CASE i <= Len(s)
    BY <1>1, <2>1 DEF Numbered
  <2>2. CASE ~(i <= Len(s))
    <3>1. i - Len(s) \in 1 .. Len(t)
      BY <1>1, <2>2
    <3>2. t[i - Len(s)] = base + Len(s) + (i - Len(s))
      BY <3>1 DEF Numbered
    <3> QED
      BY <1>1, <2>2, <3>2
  <2> QED
    BY <2>1, <2>2
<1> QED
  BY <1>1, <1>2 DEF Numbered

(* So can the two halves of a cut be numbered.                             *)
LEMMA CutNumbered ==
  ASSUME NEW s \in Seq(Nat), NEW n \in 0 .. Len(s), NEW base \in Nat,
         Numbered(s, base)
  PROVE  /\ Numbered(First(s, n), base)
         /\ Numbered(Rest(s, n), base + n)
<1>1. Len(s) \in Nat
  BY LenProperties
<1>2. Numbered(First(s, n), base)
  BY <1>1, CutProperties DEF Numbered
<1>3. ASSUME NEW i \in 1 .. Len(s) - n
      PROVE  Rest(s, n)[i] = base + n + i
  <2>1. n + i \in 1 .. Len(s)
    BY <1>1
  <2>2. s[n + i] = base + (n + i)
    BY <2>1 DEF Numbered
  <2> QED
    BY <1>1, <2>2, CutProperties
<1>4. Numbered(Rest(s, n), base + n)
  BY <1>3, CutProperties DEF Numbered
<1> QED
  BY <1>2, <1>4

LEMMA BytesNumbered ==
  ASSUME NEW n \in Nat, written \in Nat
  PROVE  Bytes(n) \in Seq(Nat) /\ Len(Bytes(n)) = n /\ Numbered(Bytes(n), written)
<1>1. Bytes(n) \in [1 .. n -> Nat]
  BY DEF Bytes
<1>2. Bytes(n) \in Seq(Nat) /\ Len(Bytes(n)) = n
  <2>1. Bytes(n) \in Seq(Nat)
    BY <1>1, SeqDef
  <2> QED
    BY <1>1, <2>1, LenProperties
<1> QED
  BY <1>2 DEF Bytes, Numbered

(* Whether the system takes all the bytes it gets or refuses some: what it *)
(* takes goes to the end of the file, in order.                            *)
LEMMA SystemTakesInOrder ==
  ASSUME NEW bytes \in Seq(Nat), disk \in Seq(Nat), SystemTakes(bytes)
  PROVE  /\ disk' \in Seq(Nat) /\ stdio' \in Seq(Nat) /\ failed' = failed
         /\ Len(disk') + Len(stdio') = Len(disk) + Len(bytes)
         /\ Len(disk) <= Len(disk')
         /\ Numbered(disk, 0) /\ Numbered(bytes, Len(disk)) =>
              Numbered(disk', 0) /\ Numbered(stdio', Len(disk'))
<1>1. PICK n \in 0 .. Len(bytes) :
        disk' = disk \o First(bytes, n) /\ stdio' = Rest(bytes, n)
  BY DEF SystemTakes
<1>2. Len(disk) \in Nat /\ Len(bytes) \in Nat /\ n \in Nat
  BY LenProperties
<1>3. /\ First(bytes, n) \in Seq(Nat) /\ Len(First(bytes, n)) = n
      /\ Rest(bytes, n) \in Seq(Nat) /\ Len(Rest(bytes, n)) = Len(bytes) - n
  BY CutProperties
<1>4. disk' \in Seq(Nat) /\ Len(disk') = Len(disk) + n
  BY <1>1, <1>3, ConcatProperties
<1>5. ASSUME Numbered(disk, 0), Numbered(bytes, Len(disk))
      PROVE  Numbered(disk', 0) /\ Numbered(stdio', Len(disk'))
  <2>1. Numbered(First(bytes, n), Len(disk)) /\ Numbered(stdio', Len(disk) + n)
    BY <1>1, <1>2, <1>5, CutNumbered
  <2>2. 0 + Len(disk) = Len(disk)
    BY <1>2
  <2>3. Numbered(disk', 0)
    BY <1>1, <1>3, <1>5, <2>1, <2>2, JoinNumbered
  <2> QED
    BY <1>4, <2>1, <2>3
<1> QED
  BY <1>1, <1>2, <1>3, <1>4, <1>5 DEF SystemTakes

LEMMA SystemRefusesTypes ==
  ASSUME NEW bytes \in Seq(Nat), NEW what, disk \in Seq(Nat),
         SystemRefuses(bytes, what)
  PROVE  disk' \in Seq(Nat) /\ stdio' \in Seq(Nat) /\ failed' = failed \cup {what}
<1>1. PICK n \in 0 .. Len(bytes) - 1 :
        disk' = disk \o First(bytes, n) /\ stdio' \in {Rest(bytes, n), <<>>}
  BY DEF SystemRefuses
<1>2. Len(bytes) \in Nat
  BY LenProperties
<1>3. n \in 0 .. Len(bytes)
  BY <1>2
<1>4. First(bytes, n) \in Seq(Nat) /\ Rest(bytes, n) \in Seq(Nat)
  BY <1>3, CutProperties
<1> QED
  BY <1>1, <1>4, ConcatProperties, EmptySeq DEF SystemRefuses

--------------------------------------------------------------------------------
(* The invariant, action by action.                                        *)

LEMMA InitIInv == Init => IInv
<1> SUFFICES ASSUME Init PROVE IInv
  OBVIOUS
<1>1. Len(<<>>) = 0 /\ <<>> \in Seq(Nat)
  BY EmptySeq
<1>2. TypeOK
  BY <1>1 DEF Init, TypeOK
<1>3. InOrder /\ FailureIsInResult
  BY <1>1 DEF Init, InOrder, Numbered, FailureIsInResult
<1> QED
  BY <1>2, <1>3 DEF IInv

(* Errors are errors.                                                      *)
LEMMA FileErrorIsError ==
  ASSUME NEW r \in Failures
  PROVE  /\ FileError(r) \in Errors
         /\ FileError(r) = "WriteIOError" <=> r = "write_failed"
<1> USE DEF FileError, Errors, EarlyErrors
<1>1. CASE r = "allocate_failed"
  BY <1>1
<1>2. CASE r = "validate_failed"
  BY <1>2
<1>3. CASE r = "not_enough_source_buffer"
  BY <1>3
<1>4. CASE r = "not_enough_destination_buffer"
  BY <1>4
<1>5. CASE r = "decompressor_corrupted_source"
  BY <1>5
<1>6. CASE r = "read_failed"
  BY <1>6
<1>7. CASE r = "write_failed"
  BY <1>7
<1>8. CASE r = "unknown"
  BY <1>8
<1> QED
  BY <1>1, <1>2, <1>3, <1>4, <1>5, <1>6, <1>7, <1>8 DEF Failures

(* Steps that touch neither the bytes nor the promise.                     *)
LEMMA SameFileInOrder ==
  ASSUME InOrder, UNCHANGED <<file, promised>>
  PROVE  InOrder'
BY DEF InOrder, Numbered, file

LEMMA RefuseIInv ==
  ASSUME IInv, Refuse
  PROVE  IInv'
<1> USE DEF IInv, Refuse
<1>1. InOrder'
  BY SameFileInOrder
<1>2. TypeOK'
  BY DEF TypeOK, EarlyErrors, Errors, Failures, arguments, file
<1>3. FailureIsInResult'
  BY DEF FailureIsInResult, EarlyErrors, arguments, file
<1> QED
  BY <1>1, <1>2, <1>3

LEMMA EnterIInv ==
  ASSUME IInv, Enter
  PROVE  IInv'
<1> USE DEF IInv, Enter
<1>1. InOrder'
  BY SameFileInOrder
<1>2. TypeOK'
  BY DEF TypeOK, file
<1>3. FailureIsInResult'
  BY DEF FailureIsInResult, file
<1> QED
  BY <1>1, <1>2, <1>3

LEMMA LibraryWritesIInv ==
  ASSUME IInv, LibraryWrites
  PROVE  IInv'
<1>1. PICK count \in 1 .. MaxWritten - written :
        /\ SystemTakes(stdio \o Bytes(count))
        /\ written' = written + count
  BY DEF LibraryWrites
<1>2. /\ written \in Nat /\ MaxWritten \in Nat /\ promised \in Nat
      /\ stdio \in Seq(Nat) /\ disk \in Seq(Nat)
  BY FileCodecAssumption DEF IInv, TypeOK
<1>3. count \in Nat /\ Len(disk) \in Nat /\ Len(stdio) \in Nat
  BY <1>2, LenProperties
<1> DEFINE bytes == stdio \o Bytes(count)
<1>4. Bytes(count) \in Seq(Nat) /\ Len(Bytes(count)) = count
      /\ Numbered(Bytes(count), written)
  BY <1>2, <1>3, BytesNumbered
<1>5. bytes \in Seq(Nat) /\ Len(bytes) = Len(stdio) + count
  BY <1>2, <1>4, ConcatProperties
<1>6. failed = {} => Numbered(bytes, Len(disk))
  <2> SUFFICES ASSUME failed = {} PROVE Numbered(bytes, Len(disk))
    OBVIOUS
  <2>1. Numbered(stdio, Len(disk)) /\ written = Len(disk) + Len(stdio)
    BY DEF IInv, InOrder, FailureIsInResult, LibraryWrites
  <2> QED
    BY <1>2, <1>3, <1>4, <2>1, JoinNumbered
<1> HIDE DEF bytes
<1>7. /\ disk' \in Seq(Nat) /\ stdio' \in Seq(Nat) /\ failed' = failed
      /\ Len(disk') + Len(stdio') = Len(disk) + Len(bytes)
      /\ Len(disk) <= Len(disk')
      /\ Numbered(disk, 0) /\ Numbered(bytes, Len(disk)) =>
           Numbered(disk', 0) /\ Numbered(stdio', Len(disk'))
  <2>1. SystemTakes(bytes)
    BY <1>1 DEF bytes
  <2> QED
    BY <1>2, <1>5, <2>1, SystemTakesInOrder
<1>8. UNCHANGED <<pc, direction, gvl, result, outcome, open, promised, untold>>
  BY DEF LibraryWrites, arguments
<1>9. TypeOK'
  BY <1>1, <1>2, <1>3, <1>7, <1>8 DEF IInv, TypeOK, Failures
<1>10. InOrder'
  <2> SUFFICES ASSUME failed = {}
               PROVE  /\ Numbered(disk', 0)
                      /\ Numbered(stdio', Len(disk'))
                      /\ open => written' = Len(disk') + Len(stdio')
                      /\ promised <= Len(disk')
    BY <1>7, <1>8 DEF InOrder, Numbered
  <2>1. Numbered(disk', 0) /\ Numbered(stdio', Len(disk'))
    BY <1>6, <1>7 DEF IInv, InOrder
  <2>2. Len(disk') \in Nat /\ Len(stdio') \in Nat
    BY <1>7, LenProperties
  <2>3. promised <= Len(disk) /\ (open => written = Len(disk) + Len(stdio))
    BY DEF IInv, InOrder
  <2>4. promised <= Len(disk')
    BY <1>2, <1>3, <1>7, <2>2, <2>3
  <2>5. open => written' = Len(disk') + Len(stdio')
    BY <1>1, <1>2, <1>3, <1>5, <1>7, <2>2, <2>3
  <2> QED
    BY <2>1, <2>4, <2>5
<1>11. FailureIsInResult'
  BY <1>7, <1>8 DEF IInv, FailureIsInResult
<1> QED
  BY <1>9, <1>10, <1>11 DEF IInv

LEMMA LibraryWriteFailsIInv ==
  ASSUME IInv, LibraryWriteFails
  PROVE  IInv'
<1>1. PICK count \in 1 .. MaxWritten - written :
        /\ SystemRefuses(stdio \o Bytes(count), "write")
        /\ written' = written + count
  BY DEF LibraryWriteFails
<1>2. written \in Nat /\ MaxWritten \in Nat /\ stdio \in Seq(Nat) /\ disk \in Seq(Nat)
  BY FileCodecAssumption DEF IInv, TypeOK
<1>3. count \in Nat
  BY <1>2
<1>4. stdio \o Bytes(count) \in Seq(Nat)
  BY <1>2, <1>3, BytesNumbered, ConcatProperties
<1>5. disk' \in Seq(Nat) /\ stdio' \in Seq(Nat) /\ failed' = failed \cup {"write"}
  BY <1>1, <1>2, <1>4, SystemRefusesTypes
<1>6. /\ pc = "library" /\ pc' = "back" /\ result' = "write_failed" /\ untold'
      /\ untold' \in BOOLEAN
      /\ UNCHANGED <<direction, gvl, outcome, open, promised>>
  BY DEF LibraryWriteFails, arguments
<1>7. TypeOK'
  BY <1>1, <1>2, <1>3, <1>5, <1>6 DEF IInv, TypeOK, Failures
<1>8. InOrder'
  BY <1>5 DEF InOrder
<1>9. FailureIsInResult'
  BY <1>5, <1>6 DEF IInv, FailureIsInResult
<1> QED
  BY <1>7, <1>8, <1>9 DEF IInv

LEMMA LibraryFailsIInv ==
  ASSUME IInv, LibraryFails
  PROVE  IInv'
<1> USE DEF IInv, LibraryFails
<1>1. InOrder'
  BY SameFileInOrder
<1>2. TypeOK'
  BY DEF TypeOK, Failures, arguments, file
<1>3. FailureIsInResult'
  BY DEF FailureIsInResult, file
<1> QED
  BY <1>1, <1>2, <1>3

LEMMA LibraryEndsIInv ==
  ASSUME IInv, LibraryEnds
  PROVE  IInv'
<1> USE DEF IInv, LibraryEnds
<1>1. InOrder'
  BY SameFileInOrder
<1>2. TypeOK'
  BY DEF TypeOK, arguments, file
<1>3. FailureIsInResult'
  BY DEF FailureIsInResult, file
<1> QED
  BY <1>1, <1>2, <1>3

LEMMA InterruptIInv ==
  ASSUME IInv, Interrupt
  PROVE  IInv'
<1> USE DEF IInv, Interrupt
<1>1. InOrder'
  BY SameFileInOrder
<1>2. TypeOK'
  BY DEF TypeOK, Failures, arguments, file
<1>3. FailureIsInResult'
  BY DEF FailureIsInResult, arguments, file
<1> QED
  BY <1>1, <1>2, <1>3

LEMMA RaiseFileErrorIInv ==
  ASSUME IInv, RaiseFileError
  PROVE  IInv'
<1>1. /\ outcome' \in Errors
      /\ outcome' = "WriteIOError" <=> result = "write_failed"
  BY FileErrorIsError DEF IInv, TypeOK, RaiseFileError, IsError
<1>2. /\ pc = "back" /\ pc' = "outside"
      /\ untold' = (untold /\ outcome' # "WriteIOError")
      /\ UNCHANGED <<arguments, result, file, promised>>
  BY DEF RaiseFileError
<1>3. InOrder'
  BY <1>2, SameFileInOrder DEF IInv
<1>4. TypeOK'
  BY <1>1, <1>2 DEF IInv, TypeOK, Failures, arguments, file
<1>5. FailureIsInResult'
  BY <1>1, <1>2 DEF IInv, FailureIsInResult, file
<1> QED
  BY <1>3, <1>4, <1>5 DEF IInv

LEMMA ReturnIInv ==
  ASSUME IInv, Return
  PROVE  IInv'
<1>1. /\ pc = "back" /\ pc' = "outside" /\ result = "ok"
      /\ outcome' = "returned" /\ promised' = written
      /\ UNCHANGED <<direction, gvl, result, open, written, untold>>
  BY DEF Return, IsError, arguments
<1>2. written \in Nat /\ stdio \in Seq(Nat) /\ disk \in Seq(Nat) /\ open
  BY <1>1 DEF IInv, TypeOK, FailureIsInResult
<1>3. CASE disk' = disk \o stdio /\ stdio' = <<>> /\ UNCHANGED failed
  <2>1. /\ disk' \in Seq(Nat) /\ stdio' \in Seq(Nat)
        /\ Len(disk') = Len(disk) + Len(stdio)
        /\ Len(stdio') = 0
    BY <1>2, <1>3, ConcatProperties, EmptySeq
  <2>2. TypeOK'
    BY <1>1, <1>2, <1>3, <2>1 DEF IInv, TypeOK, Failures
  <2>3. InOrder'
    <3> SUFFICES ASSUME failed = {}
                 PROVE  /\ Numbered(disk', 0)
                        /\ Numbered(stdio', Len(disk'))
                        /\ written = Len(disk') + Len(stdio')
                        /\ written <= Len(disk')
      BY <1>1, <1>3 DEF InOrder, Numbered
    <3>1. /\ Numbered(disk, 0) /\ Numbered(stdio, Len(disk))
          /\ written = Len(disk) + Len(stdio)
      BY <1>2 DEF IInv, InOrder
    <3>2. Len(disk) \in Nat /\ Len(stdio) \in Nat /\ 0 + Len(disk) = Len(disk)
      BY <1>2, LenProperties
    <3>3. Numbered(disk', 0)
      BY <1>2, <1>3, <3>1, <3>2, JoinNumbered
    <3>4. Numbered(stdio', Len(disk'))
      BY <2>1 DEF Numbered
    <3> QED
      BY <2>1, <3>1, <3>2, <3>3, <3>4
  <2>4. FailureIsInResult'
    BY <1>1, <1>3 DEF IInv, FailureIsInResult
  <2> QED
    BY <2>2, <2>3, <2>4 DEF IInv
<1>4. CASE FlushCanFail /\ SystemRefuses(stdio, "flush")
  <2>1. disk' \in Seq(Nat) /\ stdio' \in Seq(Nat) /\ failed' = failed \cup {"flush"}
    BY <1>2, <1>4, SystemRefusesTypes
  <2>2. TypeOK'
    BY <1>1, <1>2, <2>1 DEF IInv, TypeOK, Failures
  <2>3. InOrder'
    BY <2>1 DEF InOrder
  <2>4. FailureIsInResult'
    BY <1>1, <1>4, <2>1 DEF IInv, FailureIsInResult
  <2> QED
    BY <2>2, <2>3, <2>4 DEF IInv
<1> QED
  BY <1>3, <1>4 DEF Return, Flush

LEMMA CloseIInv ==
  ASSUME IInv, Close
  PROVE  IInv'
<1>1. /\ pc = "outside" /\ ~open' /\ open' \in BOOLEAN /\ stdio' = <<>>
      /\ UNCHANGED <<pc, direction, gvl, result, outcome, disk, written, promised,
                     failed, untold>>
  BY DEF Close, arguments
<1>2. Len(<<>>) = 0 /\ <<>> \in Seq(Nat)
  BY EmptySeq
<1>3. TypeOK'
  BY <1>1, <1>2 DEF IInv, TypeOK, Failures
<1>4. InOrder'
  BY <1>1, <1>2 DEF IInv, InOrder, Numbered
<1>5. FailureIsInResult'
  BY <1>1 DEF IInv, FailureIsInResult
<1> QED
  BY <1>3, <1>4, <1>5 DEF IInv

LEMMA StutterIInv ==
  ASSUME IInv, UNCHANGED vars
  PROVE  IInv'
<1> USE DEF IInv, vars
<1>1. InOrder'
  BY SameFileInOrder
<1>2. TypeOK'
  BY DEF TypeOK, Failures, arguments, file
<1>3. FailureIsInResult'
  BY DEF FailureIsInResult, file
<1> QED
  BY <1>1, <1>2, <1>3

--------------------------------------------------------------------------------
(* Theorems.                                                               *)

(* The inductive invariant holds throughout the life of an IO.             *)
THEOREM Invariance == Spec => []IInv
<1>1. IInv /\ [Next]_vars => IInv'
  BY RefuseIInv, EnterIInv, LibraryWritesIInv, LibraryWriteFailsIInv, LibraryFailsIInv,
     LibraryEndsIInv, InterruptIInv, RaiseFileErrorIInv, ReturnIInv, CloseIInv,
     StutterIInv
     DEF Next
<1> QED
  BY <1>1, InitIInv, PTL DEF Spec

(* Every variable of a call of io.c has its type.                          *)
THEOREM Types == Spec => []TypeOK
<1>1. IInv => TypeOK
  BY DEF IInv
<1> QED
  BY <1>1, Invariance, PTL

(* What was written before a call that returned nil is in the file, in     *)
(* order, unless the system has refused bytes.                             *)
THEOREM PromisesKept == Spec => []PromisedIsOnDisk
<1>1. IInv => PromisedIsOnDisk
  <2> SUFFICES ASSUME IInv, failed = {}
               PROVE  promised <= Len(disk) /\ \A i \in 1 .. Len(disk) : disk[i] = i
    BY DEF PromisedIsOnDisk
  <2>1. promised <= Len(disk) /\ Numbered(disk, 0)
    BY DEF IInv, InOrder
  <2>2. \A i \in 1 .. Len(disk) : disk[i] = 0 + i /\ i \in Nat
    BY <2>1, LenProperties DEF Numbered, IInv, TypeOK
  <2> QED
    BY <2>1, <2>2
<1> QED
  BY <1>1, Invariance, PTL

(* A failure of the library's own writes is told as an error.              *)
THEOREM FailuresAreTold == Spec => []WriteFailureIsTold
<1>1. IInv => WriteFailureIsTold
  BY DEF IInv, FailureIsInResult, WriteFailureIsTold
<1> QED
  BY <1>1, Invariance, PTL

(* The ignored result of fflush is all that stands between io.c and its    *)
(* comment: where fflush cannot fail, nil means that the file is complete. *)
THEOREM OnlyFlushBreaksIt ==
  ASSUME ~FlushCanFail
  PROVE  Spec => []ReturnedIsOnDisk
<1>1. IInv => ReturnedIsOnDisk
  <2> SUFFICES ASSUME IInv, "write" \notin failed
               PROVE  promised <= Len(disk)
    BY DEF ReturnedIsOnDisk
  <2>1. failed = {}
    BY DEF IInv, TypeOK, FailureIsInResult
  <2> QED
    BY <2>1 DEF IInv, InOrder
<1> QED
  BY <1>1, Invariance, PTL

--------------------------------------------------------------------------------
(* The abstract destination.                                               *)

(* Numbered from 1 on, a sequence is the first bytes of the output.        *)
LEMMA NumberedIsOutput ==
  ASSUME NEW s \in Seq(Nat), Numbered(s, 0)
  PROVE  s = Result!Output(Len(s))
<1> DEFINE n == Len(s)
<1>1. n \in Nat /\ DOMAIN s = 1 .. n /\ s = [i \in 1 .. n |-> s[i]]
  BY LenProperties
<1>2. \A i \in 1 .. n : s[i] = i
  <2>1. \A i \in 1 .. n : s[i] = 0 + i
    BY DEF Numbered
  <2> QED
    BY <1>1, <2>1
<1>3. s = [i \in 1 .. n |-> i]
  <2> HIDE DEF n
  <2> QED
    BY <1>1, <1>2
<1> QED
  BY <1>3 DEF Result!Output

(* Whatever is put behind the file, it is appended.                        *)
LEMMA JoinAppends ==
  ASSUME disk \in Seq(Nat), NEW bytes \in Seq(Nat), disk' = disk \o bytes
  PROVE  Result!Appends
<1>1. Len(disk) \in Nat /\ Len(bytes) \in Nat
  BY LenProperties
<1>2. /\ Len(disk') = Len(disk) + Len(bytes)
      /\ \A i \in 1 .. Len(disk) : disk'[i] = disk[i]
  BY <1>1, ConcatProperties
<1> QED
  BY <1>1, <1>2 DEF Result!Appends

LEMMA SystemAppends ==
  ASSUME disk \in Seq(Nat), NEW bytes \in Seq(Nat), NEW what,
         SystemTakes(bytes) \/ SystemRefuses(bytes, what)
  PROVE  Result!Appends
<1>1. Len(bytes) \in Nat
  BY LenProperties
<1>2. \E n \in 0 .. Len(bytes) : disk' = disk \o First(bytes, n)
  <2>1. CASE SystemTakes(bytes)
    BY <2>1 DEF SystemTakes
  <2>2. CASE SystemRefuses(bytes, what)
    <3>1. PICK n \in 0 .. Len(bytes) - 1 : disk' = disk \o First(bytes, n)
      BY <2>2 DEF SystemRefuses
    <3>2. n \in 0 .. Len(bytes)
      BY <1>1
    <3> QED
      BY <3>1, <3>2
  <2> QED
    BY <2>1, <2>2
<1>3. PICK n \in 0 .. Len(bytes) : disk' = disk \o First(bytes, n)
  BY <1>2
<1>4. First(bytes, n) \in Seq(Nat)
  BY CutProperties
<1> QED
  BY <1>3, <1>4, JoinAppends

(* What fwrite is given.                                                   *)
LEMMA HandedOver ==
  ASSUME IInv, NEW count \in 1 .. MaxWritten - written, written' = written + count
  PROVE  /\ stdio \o Bytes(count) \in Seq(Nat)
         /\ disk \in Seq(Nat)
         /\ written' \in Nat /\ written <= written'
<1>1. /\ written \in Nat /\ MaxWritten \in Nat
      /\ stdio \in Seq(Nat) /\ disk \in Seq(Nat)
  BY FileCodecAssumption DEF IInv, TypeOK
<1>2. count \in Nat
  BY <1>1
<1>3. stdio \o Bytes(count) \in Seq(Nat)
  BY <1>1, <1>2, BytesNumbered, ConcatProperties
<1> QED
  BY <1>1, <1>2, <1>3

(* While nothing was refused, a write brings the file the next bytes.      *)
LEMMA LibraryWritesImplements ==
  ASSUME IInv, IInv', LibraryWrites
  PROVE  Result!Next
<1>1. PICK count \in 1 .. MaxWritten - written :
        /\ SystemTakes(stdio \o Bytes(count))
        /\ written' = written + count
  BY DEF LibraryWrites
<1>2. /\ stdio \o Bytes(count) \in Seq(Nat)
      /\ disk \in Seq(Nat)
      /\ written' \in Nat /\ written <= written'
  BY <1>1, HandedOver
<1>3. open /\ failed' = failed /\ UNCHANGED <<open, promised>>
  BY <1>1 DEF LibraryWrites, SystemTakes, IInv, FailureIsInResult
<1>4. Result!Appends
  BY <1>1, <1>2, SystemAppends
<1>5. CASE failed = {}
  <2>1. /\ disk' \in Seq(Nat) /\ stdio' \in Seq(Nat)
        /\ Numbered(disk', 0) /\ written' = Len(disk') + Len(stdio')
    BY <1>3, <1>5 DEF IInv, TypeOK, InOrder
  <2>2. disk' = Result!Output(Len(disk'))
    BY <2>1, NumberedIsOutput
  <2>3. Len(disk') \in Len(disk) .. written'
    <3>1. Len(disk) \in Nat /\ Len(disk') \in Nat /\ Len(stdio') \in Nat
      BY <1>2, <2>1, LenProperties
    <3> QED
      BY <1>4, <2>1, <3>1 DEF Result!Appends
  <2> QED
    BY <1>2, <1>3, <1>5, <2>2, <2>3 DEF Result!Next, Result!Write, Result!More
<1>6. CASE failed # {}
  BY <1>2, <1>3, <1>4, <1>6 DEF Result!Next, Result!Break, Result!More
<1> QED
  BY <1>5, <1>6

LEMMA LibraryWriteFailsImplements ==
  ASSUME IInv, LibraryWriteFails
  PROVE  Result!Next
<1>1. PICK count \in 1 .. MaxWritten - written :
        /\ SystemRefuses(stdio \o Bytes(count), "write")
        /\ written' = written + count
  BY DEF LibraryWriteFails
<1>2. /\ stdio \o Bytes(count) \in Seq(Nat)
      /\ disk \in Seq(Nat)
      /\ written' \in Nat /\ written <= written'
  BY <1>1, HandedOver
<1>3. open /\ failed' # {} /\ UNCHANGED <<open, promised>>
  BY <1>1 DEF LibraryWriteFails, SystemRefuses, IInv, FailureIsInResult
<1>4. Result!Appends
  BY <1>1, <1>2, SystemAppends
<1> QED
  BY <1>2, <1>3, <1>4 DEF Result!Next, Result!Break, Result!More

(* A return flushes all that is left, or breaks the promise that it makes. *)
LEMMA ReturnImplements ==
  ASSUME IInv, IInv', Return
  PROVE  Result!Next
<1>1. /\ open /\ promised' = written
      /\ UNCHANGED <<open, written>>
  BY DEF Return, IInv, FailureIsInResult
<1>2. /\ written \in Nat /\ stdio \in Seq(Nat) /\ disk \in Seq(Nat)
      /\ written' \in Nat /\ written <= written'
  BY <1>1 DEF IInv, TypeOK
<1>3. CASE disk' = disk \o stdio /\ stdio' = <<>> /\ UNCHANGED failed
  <2>1. CASE failed = {}
    <3>1. /\ disk' \in Seq(Nat) /\ Numbered(disk', 0)
          /\ written' = Len(disk') + Len(stdio')
      BY <1>1, <1>3, <2>1 DEF IInv, TypeOK, InOrder
    <3>2. Len(stdio') = 0 /\ Len(disk') \in Nat
      BY <1>3, <3>1, EmptySeq, LenProperties
    <3>3. Len(disk') = written
      BY <1>1, <3>1, <3>2
    <3>4. disk' = Result!Output(written)
      BY <3>1, <3>3, NumberedIsOutput
    <3> QED
      BY <1>1, <1>3, <2>1, <3>4 DEF Result!Next, Result!Promise
  <2>2. CASE failed # {}
    <3>1. Result!Appends
      BY <1>2, <1>3, JoinAppends
    <3> QED
      BY <1>1, <1>2, <1>3, <2>2, <3>1 DEF Result!Next, Result!Break, Result!More
  <2> QED
    BY <2>1, <2>2
<1>4. CASE SystemRefuses(stdio, "flush")
  <2>1. Result!Appends
    BY <1>2, <1>4, SystemAppends
  <2>2. failed' # {}
    BY <1>4 DEF SystemRefuses
  <2> QED
    BY <1>1, <1>2, <2>1, <2>2 DEF Result!Next, Result!Break, Result!More
<1> QED
  BY <1>3, <1>4 DEF Return, Flush

LEMMA NextImplements ==
  ASSUME IInv, IInv', [Next]_vars
  PROVE  [Result!Next]_(Result!vars)
<1>1. CASE Refuse \/ Enter \/ LibraryFails \/ LibraryEnds \/ Interrupt
             \/ RaiseFileError
  BY <1>1 DEF Refuse, Enter, LibraryFails, LibraryEnds, Interrupt, RaiseFileError,
              file, Result!vars
<1>2. CASE Close
  BY <1>2 DEF Close, Result!Next, Result!Close
<1>3. CASE UNCHANGED vars
  BY <1>3 DEF vars, file, Result!vars
<1> QED
  BY <1>1, <1>2, <1>3, LibraryWritesImplements, LibraryWriteFailsImplements,
     ReturnImplements DEF Next

(* Over all the calls on an IO the file is the output so far, with nothing *)
(* out of its place, and the whole of it whenever a call returns, as long  *)
(* as the system refuses nothing.                                          *)
THEOREM Implements == Spec => ImplementsDestination
<1>1. Init => Result!Init
  BY DEF Init, Result!Init
<1>2. IInv /\ IInv' /\ [Next]_vars => [Result!Next]_(Result!vars)
  BY NextImplements
<1>3. Spec => Result!Spec
  BY <1>1, <1>2, Invariance, PTL DEF Spec, Result!Spec
<1> QED
  BY <1>3 DEF ImplementsDestination

(* In every state of a Destination, until something is refused.            *)
DestinationInv ==
  /\ written \in Nat
  /\ failed = {} => /\ promised \in Nat
                    /\ Len(disk) \in promised .. written
                    /\ disk = Result!Output(Len(disk))

(* Destination says enough: whatever implements it has on the disk what it *)
(* has promised to be there.                                               *)
THEOREM DestinationPromises == ImplementsDestination => []PromisedIsOnDisk
<1> USE DEF Result!Output
<1>1. Result!Init => DestinationInv
  BY DEF Result!Init, DestinationInv
<1>2. DestinationInv /\ [Result!Next]_(Result!vars) => DestinationInv'
  <2> SUFFICES ASSUME DestinationInv, [Result!Next]_(Result!vars)
               PROVE  DestinationInv'
    OBVIOUS
  <2>1. CASE Result!Write
    <3>1. failed = {} /\ failed' = {} /\ promised' = promised /\ written' \in Nat
      BY <2>1 DEF Result!Write, Result!More
    <3>2. PICK n \in Len(disk) .. written' : disk' = Result!Output(n)
      BY <2>1 DEF Result!Write
    <3>3. n \in Nat /\ Len(disk') = n /\ n \in promised .. written'
      BY <3>1, <3>2 DEF DestinationInv
    <3> QED
      BY <3>1, <3>2, <3>3 DEF DestinationInv
  <2>2. CASE Result!Promise
    <3>1. /\ failed = {} /\ failed' = {} /\ promised' = written
          /\ written' = written /\ disk' = Result!Output(written)
      BY <2>2 DEF Result!Promise
    <3>2. written \in Nat /\ Len(disk') = written
      BY <3>1 DEF DestinationInv
    <3> QED
      BY <3>1, <3>2 DEF DestinationInv
  <2>3. CASE Result!Break
    BY <2>3 DEF Result!Break, Result!More, DestinationInv
  <2>4. CASE Result!Close \/ UNCHANGED Result!vars
    BY <2>4 DEF Result!Close, Result!vars, DestinationInv
  <2> QED
    BY <2>1, <2>2, <2>3, <2>4 DEF Result!Next
<1>3. DestinationInv => PromisedIsOnDisk
  BY DEF DestinationInv, PromisedIsOnDisk
<1> QED
  BY <1>1, <1>2, <1>3, PTL DEF ImplementsDestination, Result!Spec
================================================================================
