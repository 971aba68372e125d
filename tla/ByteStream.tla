------------------------------ MODULE ByteStream ------------------------------
(***************************************************************************)
(* What a user of libtins' stream follower is promised of one direction of *)
(* a connection: the bytes that were seen come out in order, without gaps  *)
(* and once each, and whatever is seen and connects to what came out       *)
(* before comes out in the end.                                            *)
(***************************************************************************)
EXTENDS Integers

CONSTANT StreamLength  \* the bytes the peer sends, numbered from zero

VARIABLES
  seen,  \* the bytes that were seen in some packet
  out    \* how many came out

vars == <<seen, out>>

Init == seen = {} /\ out = 0

(* A connection begins, and nothing of the last one counts any more.       *)
Begin == seen' = {} /\ out' = 0

See(bytes) ==
  /\ seen' = seen \cup bytes
  /\ UNCHANGED out

Deliver ==
  /\ out' \in out + 1 .. StreamLength
  /\ out .. out' - 1 \subseteq seen
  /\ UNCHANGED seen

Next ==
  \/ Begin
  \/ \E first, last \in 0 .. StreamLength - 1 : See(first .. last)
  \/ Deliver

Safety == Init /\ [][Next]_vars

Spec == Safety /\ WF_vars(Deliver)
=============================================================================
