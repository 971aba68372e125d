------------------------ MODULE MscDataGroupGenerator ------------------------
(***************************************************************************)
(* dab::msc_data_group_generator: puts an IP datagram into an MSC data     *)
(* group, behind a two-byte header and before a two-byte CRC.              *)
(*                                                                         *)
(* The generator remembers the datagram of the previous call.  One that    *)
(* differs from it gets the next continuity index; an equal one keeps the  *)
(* index, which is how a receiver recognises a repetition.                 *)
(*                                                                         *)
(* A datagram is a value with a size; two datagrams are equal exactly when *)
(* their bytes are.  The constant header fields (flags, group type) and    *)
(* the value of the CRC are left out, their bytes are counted.             *)
(***************************************************************************)
EXTENDS Integers

CONSTANTS
  Datagrams,  \* what build() may be handed, each with a size in bytes
  NoDatagram, \* the empty vector the generator starts with
  NoGroup     \* build() has not been called yet

ASSUME DatagramsAssumption ==
  /\ \A d \in Datagrams : d.size \in Nat
  /\ NoDatagram \notin Datagrams

VARIABLES
  m_last_ip_datagram,  \* the datagram of the previous call
  m_continuity_index,  \* its continuity index, four bits
  m_repetition_index,  \* announced number of repetitions still to come
  group                \* the data group build() returned last

vars == <<m_last_ip_datagram, m_continuity_index, m_repetition_index, group>>

-----------------------------------------------------------------------------
(* Mutated forms; no run or theorem of the project uses them.              *)
NextIndex_NoWrap(ci) == ci + 1
NextIndex_Stuck(ci)  == ci

NextIndex(ci) == (ci + 1) % 16

Remember_Nothing(d) == m_last_ip_datagram

Remember(d) == d

(* header, datagram, CRC                                                   *)
Group(d, ci, ri) ==
  [continuity |-> ci, repetition |-> ri, datagram |-> d, size |-> 2 + d.size + 2]

Init ==
  /\ m_last_ip_datagram = NoDatagram
  /\ m_continuity_index = 15
  /\ m_repetition_index = 0
  /\ group = NoGroup

Build(d) ==
  /\ \/ /\ d # m_last_ip_datagram
        /\ m_continuity_index' = NextIndex(m_continuity_index)
        /\ m_repetition_index' = 0
     \/ /\ d = m_last_ip_datagram
        /\ m_repetition_index' = IF m_repetition_index > 0 THEN m_repetition_index - 1 ELSE 0
        /\ UNCHANGED m_continuity_index
  /\ m_last_ip_datagram' = Remember(d)
  /\ group' = Group(d, m_continuity_index', m_repetition_index')

Next == \E d \in Datagrams : Build(d)

Spec == Init /\ [][Next]_vars

-----------------------------------------------------------------------------
Groups == [continuity : 0 .. 15, repetition : 0 .. 15, datagram : Datagrams, size : Nat]

TypeOK ==
  /\ m_last_ip_datagram \in Datagrams \cup {NoDatagram}
  /\ m_continuity_index \in 0 .. 15
  /\ m_repetition_index \in 0 .. 15
  /\ group \in Groups \cup {NoGroup}

(* Two data groups built one after the other carry the same continuity     *)
(* index exactly when they carry the same datagram, and an index that      *)
(* moves, moves by one modulo sixteen: a receiver may take an index it has *)
(* just seen for a repetition and a jump for a loss.                       *)
IndexTellsRepetition ==
  [][group # NoGroup =>
       IF group'.datagram = group.datagram
       THEN group'.continuity = group.continuity
       ELSE group'.continuity = IF group.continuity = 15 THEN 0 ELSE group.continuity + 1]_vars
=============================================================================
