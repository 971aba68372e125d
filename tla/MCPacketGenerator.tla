-------------------------- MODULE MCPacketGenerator --------------------------
(***************************************************************************)
(* PacketGenerator on groups whose sizes sit on, just below and just above *)
(* every length at which build() chooses differently, up to the 1056 bytes *)
(* the injector's largest data group has.                                  *)
(***************************************************************************)
EXTENDS PacketGenerator

CONSTANT Sizes

MCGroups == [size : Sizes]
=============================================================================
