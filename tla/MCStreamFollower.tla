-------------------------- MODULE MCStreamFollower --------------------------
(***************************************************************************)
(* StreamFollower on a connection whose sequence numbers wrap around after *)
(* its first bytes, with every segment of up to MaxSegment bytes.          *)
(***************************************************************************)
EXTENDS StreamFollower
=============================================================================
