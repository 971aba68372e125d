---------------------------- MODULE DatagramRelay ----------------------------
(***************************************************************************)
(* What the injector promises the two ends it stands between: datagrams    *)
(* arrive on one side and come out, cut to a maximal length, on the other. *)
(* Some may be lost; none is invented, altered, duplicated or overtaken.   *)
(* Nothing is promised about which ones are lost.                          *)
(***************************************************************************)
EXTENDS Integers, Sequences

CONSTANTS
  Payloads,   \* what a datagram can carry
  Cut(_)      \* a payload cut to what the relay can take

VARIABLES
  arrived,    \* the payloads that arrived, in that order
  last,       \* the index in arrived of the payload that came out last
  out         \* the payloads that came out, in that order

vars == <<arrived, last, out>>

-----------------------------------------------------------------------------
Init ==
  /\ arrived = <<>>
  /\ last = 0
  /\ out = <<>>

Arrive(p) ==
  /\ arrived' = Append(arrived, p)
  /\ UNCHANGED <<last, out>>

(* One that arrived after the last one relayed comes out; those between    *)
(* the two are lost for good.                                              *)
Relay(i) ==
  /\ i > last
  /\ out' = Append(out, Cut(arrived[i]))
  /\ last' = i
  /\ UNCHANGED arrived

Next ==
  \/ \E p \in Payloads : Arrive(p)
  \/ \E i \in 1 .. Len(arrived) : Relay(i)

Spec == Init /\ [][Next]_vars
=============================================================================
