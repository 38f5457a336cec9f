------------------------------- MODULE Destination -------------------------------
(***************************************************************************)
(* What the io codec promises to a caller about the file that it writes,   *)
(* without the buffer between the library and the system: over any number  *)
(* of calls the file is the first bytes of the output of all of them, and  *)
(* a call that returns promises that it is the whole of it.  FileCodec     *)
(* implements it.                                                          *)
(***************************************************************************)
EXTENDS Integers, Sequences

VARIABLES
  open,      \* the IO is open
  made,      \* how many bytes of output there are
  file,      \* the bytes in the file
  promised,  \* how many of them the caller was promised to find there
  broken     \* the system has refused bytes

vars == <<open, made, file, promised, broken>>

(* The first n bytes.                                                      *)
Output(n) == [i \in 1 .. n |-> i]

Init ==
  /\ open = TRUE
  /\ made = 0
  /\ file = <<>>
  /\ promised = 0
  /\ broken = FALSE

More == made' \in Nat /\ made <= made'

(* More output, of which some bytes reach the file.                        *)
Write ==
  /\ open /\ ~broken
  /\ More
  /\ \E n \in Len(file) .. made' : file' = Output(n)
  /\ UNCHANGED <<open, promised, broken>>

(* A call returns.                                                         *)
Promise ==
  /\ open /\ ~broken
  /\ file' = Output(made)
  /\ promised' = made
  /\ UNCHANGED <<open, made, broken>>

(* Nothing is overwritten.                                                 *)
Appends ==
  /\ Len(file) <= Len(file')
  /\ \A i \in 1 .. Len(file) : file'[i] = file[i]

(* The system refuses bytes, or has refused some before: what follows may  *)
(* have gaps, and calls return that promise in vain.                       *)
Break ==
  /\ open
  /\ More
  /\ Appends
  /\ promised' \in {promised, made'}
  /\ broken' = TRUE
  /\ UNCHANGED open

(* What has not reached the file by now never will.                        *)
Close ==
  /\ open
  /\ open' = FALSE
  /\ UNCHANGED <<made, file, promised, broken>>

Next == Write \/ Promise \/ Break \/ Close

Spec == Init /\ [][Next]_vars
================================================================================
