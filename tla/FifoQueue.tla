------------------------------ MODULE FifoQueue ------------------------------
(***************************************************************************)
(* What a queue promises its two users: blocks of values go in at one end  *)
(* as a whole and come out at the other in the order they went in.  It has *)
(* no capacity; memory, locks and threads are the implementation's matter. *)
(* A block the producer offers is put in once or not at all.               *)
(***************************************************************************)
EXTENDS Integers, Sequences

CONSTANT Values

VARIABLES
  items,   \* the values in the queue, first in first
  given,   \* the block of the producer's call, <<>> outside of one
  pending, \* it is not in the queue yet
  taken    \* the block the last dequeue returned

vars == <<items, given, pending, taken>>

-----------------------------------------------------------------------------
Init == items = <<>> /\ given = <<>> /\ pending = FALSE /\ taken = <<>>

Offer ==
  /\ ~pending
  /\ given' \in Seq(Values)
  /\ pending' = TRUE
  /\ UNCHANGED <<items, taken>>

Put ==
  /\ pending
  /\ items' = items \o given
  /\ pending' = FALSE
  /\ UNCHANGED <<given, taken>>

(* The producer's call is over; a block that is still pending failed.      *)
Leave ==
  /\ given' = <<>>
  /\ pending' = FALSE
  /\ UNCHANGED <<items, taken>>

Take(n) ==
  /\ n <= Len(items)
  /\ taken' = SubSeq(items, 1, n)
  /\ items' = SubSeq(items, n + 1, Len(items))
  /\ UNCHANGED <<given, pending>>

Clear == items' = <<>> /\ UNCHANGED <<given, pending, taken>>

Next ==
  \/ Offer
  \/ Put
  \/ Leave
  \/ \E n \in 0 .. Len(items) : Take(n)
  \/ Clear

Spec == Init /\ [][Next]_vars
=============================================================================
