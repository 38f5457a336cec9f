------------------------------ MODULE OutputBuffer ------------------------------
(***************************************************************************)
(* What a native stream promises about its output: a bounded first-in      *)
(* first-out buffer between the library, which numbers the bytes it        *)
(* produces, and the caller, who drains the buffer as often as he likes.   *)
(* Compressor and Decompressor implement it.                               *)
(***************************************************************************)
EXTENDS Integers, Sequences

VARIABLES
  status,     \* "unopened", "open" or "closed", in this order
  capacity,   \* the most bytes that may be pending
  pending,    \* produced and not drained
  delivered   \* drained

vars == <<status, capacity, pending, delivered>>

Init ==
  /\ status = "unopened"
  /\ capacity = 0
  /\ pending = <<>>
  /\ delivered = <<>>

Open ==
  /\ status = "unopened"
  /\ status' = "open"
  /\ capacity' \in Nat \ {0}
  /\ UNCHANGED <<pending, delivered>>

(* The next count bytes.                                                   *)
Produced(count) ==
  [i \in 1 .. count |-> Len(delivered) + Len(pending) + i]

ProduceBytes(count) ==
  /\ status = "open"
  /\ count \in 1 .. (capacity - Len(pending))
  /\ pending' = pending \o Produced(count)
  /\ UNCHANGED <<status, capacity, delivered>>

Produce == \E count \in 1 .. (capacity - Len(pending)) : ProduceBytes(count)

Drain ==
  /\ status = "open"
  /\ delivered' = delivered \o pending
  /\ pending' = <<>>
  /\ UNCHANGED <<status, capacity>>

(* What is pending is dropped; a buffer that never opened may close too.   *)
Close ==
  /\ status # "closed"
  /\ status' = "closed"
  /\ capacity' = 0
  /\ pending' = <<>>
  /\ UNCHANGED delivered

Next == Open \/ Produce \/ Drain \/ Close

Spec == Init /\ [][Next]_vars
================================================================================
