------------------------------- MODULE MCWire -------------------------------
(***************************************************************************)
(* Wire with the configuration of the repository's injector.ini, payloads  *)
(* of even and odd size that make one, two and three packets, and one      *)
(* whose UDP checksum comes out as zero.  CRCs are linear, so that what a  *)
(* burst does to one does not depend on the data: the bursts are a bit,    *)
(* the widest pair, patterns close to the polynomial, and all sixteen      *)
(* bits.                                                                   *)
(***************************************************************************)
EXTENDS Wire

MCConf ==
  [ source_address |-> <<10, 0, 0, 1>>, source_port |-> 1337,
    destination_address |-> <<10, 0, 0, 2>>, destination_port |-> 4242,
    packet_address |-> 1000 ]

Pattern(n, step) == [i \in 1 .. n |-> (255 - step * i) % 256]

MCPayloads ==
  {<<>>, <<255>>, <<214, 12>>, Pattern(12, 0), Pattern(60, 37), Pattern(151, 91)}

MCBursts ==
  {{0}, {0, 15}, {0, 4, 11, 15}, {0, 5, 12, 15}, 0 .. 15}
=============================================================================
