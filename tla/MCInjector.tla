------------------------------ MODULE MCInjector ------------------------------
(***************************************************************************)
(* Injector with a handful of payloads: an empty one, which makes one      *)
(* packet, and two longer than the receive buffer that agree in all it     *)
(* keeps.  A long one makes twelve packets, so two of them do not fit into *)
(* the pipe together and the program has to wait for its reader.           *)
(***************************************************************************)
EXTENDS Injector

MCPayloads ==
  {[head |-> "a", size |-> 0], [head |-> "c", size |-> 1500], [head |-> "c", size |-> 5000]}
=============================================================================
