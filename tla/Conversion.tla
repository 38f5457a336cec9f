------------------------------- MODULE Conversion -------------------------------
(***************************************************************************)
(* What every way of compressing or decompressing promises, without its    *)
(* buffers and loops: as long as nothing is raised, the caller's output    *)
(* consists of the first bytes that the library has made, and it is all of *)
(* them when the conversion returns.  StringCodec and RawStream implement  *)
(* it.                                                                     *)
(***************************************************************************)
EXTENDS Integers, Sequences

VARIABLES
  status,    \* "running", "returned" or "raised"
  made,      \* how many bytes of output the library has made of its source
  received   \* the caller's output

vars == <<status, made, received>>

(* The first n bytes.                                                      *)
Output(n) == [i \in 1 .. n |-> i]

Init ==
  /\ status = "running"
  /\ made \in Nat
  /\ received = <<>>

(* The library works on the source.                                        *)
Convert ==
  /\ status = "running"
  /\ made' \in Nat /\ made <= made'
  /\ UNCHANGED <<status, received>>

(* Some of the output reaches the caller.                                  *)
Deliver ==
  /\ status = "running"
  /\ \E n \in Len(received) .. made : received' = Output(n)
  /\ UNCHANGED <<status, made>>

(* The caller has it all.                                                  *)
Return ==
  /\ status = "running"
  /\ status' = "returned"
  /\ made' \in Nat /\ made <= made'
  /\ received' = Output(made')

(* An error, after which nothing is promised.                              *)
Raise ==
  /\ status # "returned"
  /\ status' = "raised"

Next == Convert \/ Deliver \/ Return \/ Raise

Spec == Init /\ [][Next]_vars
================================================================================
