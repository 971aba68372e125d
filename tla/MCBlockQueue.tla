----------------------------- MODULE MCBlockQueue -----------------------------
(***************************************************************************)
(* BlockQueue with an array that grows by two slots: an empty block, one   *)
(* that may also be an element, and one of two elements that differ.       *)
(***************************************************************************)
EXTENDS BlockQueue

CONSTANTS v1, v2

MCValues == {v1, v2}
MCBlocks == {<<>>, <<v1>>, <<v1, v2>>}
=============================================================================
