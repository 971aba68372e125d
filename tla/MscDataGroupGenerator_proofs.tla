-------------------- MODULE MscDataGroupGenerator_proofs --------------------
(***************************************************************************)
(* Proofs about dab::msc_data_group_generator, for every set of datagrams  *)
(* and every order of calls.                                               *)
(***************************************************************************)
EXTENDS MscDataGroupGenerator, TLAPS

(* The members remember the data group that was built last: without this   *)
(* comparing a datagram with m_last_ip_datagram would say nothing about    *)
(* the group before.                                                       *)
RemembersLast ==
  group # NoGroup => /\ group.datagram = m_last_ip_datagram
                     /\ group.continuity = m_continuity_index

Inv == TypeOK /\ RemembersLast

(* The invariant holds before the first group.                             *)
LEMMA InitInv == Init => Inv
BY DEF Init, Inv, TypeOK, RemembersLast

(* After a call the members remember the group it made.                    *)
LEMMA BuildInv ==
  ASSUME TypeOK, NEW d \in Datagrams, Build(d)
  PROVE  Inv'
<1>1. /\ m_continuity_index' \in 0 .. 15 /\ m_repetition_index' \in 0 .. 15
      /\ m_last_ip_datagram' = d
      /\ group' = Group(d, m_continuity_index', m_repetition_index')
  BY DEF Build, TypeOK, NextIndex, Remember
<1>2. /\ group'.datagram = d /\ group'.continuity = m_continuity_index'
      /\ group' \in Groups
  BY <1>1, DatagramsAssumption DEF Group, Groups
<1> QED
  BY <1>1, <1>2 DEF Inv, TypeOK, RemembersLast

(* The invariant is inductive.                                             *)
LEMMA NextInv == Inv /\ [Next]_vars => Inv'
<1> SUFFICES ASSUME Inv, [Next]_vars PROVE Inv'
  OBVIOUS
<1>1. ASSUME NEW d \in Datagrams, Build(d) PROVE Inv'
  BY <1>1, BuildInv DEF Inv
<1>2. CASE UNCHANGED vars
  BY <1>2 DEF vars, Inv, TypeOK, RemembersLast
<1> QED
  BY <1>1, <1>2 DEF Next

(* One call moves the index exactly when its datagram is a new one.        *)
LEMMA BuildTells ==
  ASSUME Inv, group # NoGroup, NEW d \in Datagrams, Build(d)
  PROVE  IF group'.datagram = group.datagram
         THEN group'.continuity = group.continuity
         ELSE group'.continuity = IF group.continuity = 15 THEN 0 ELSE group.continuity + 1
<1>1. /\ group'.datagram = d /\ group'.continuity = m_continuity_index'
  BY DEF Build, Group
<1>2. /\ group.datagram = m_last_ip_datagram /\ group.continuity = m_continuity_index
      /\ m_continuity_index \in 0 .. 15
  BY DEF Inv, TypeOK, RemembersLast
<1>3. m_continuity_index' = IF d = m_last_ip_datagram THEN m_continuity_index
                            ELSE (m_continuity_index + 1) % 16
  BY DEF Build, NextIndex
<1> QED
  BY <1>1, <1>2, <1>3

-----------------------------------------------------------------------------
(* The members of data_group_generator always remember the group built     *)
(* last: its datagram and its continuity index.                            *)
THEOREM Invariance == Spec => []Inv
BY InitInv, NextInv, PTL DEF Spec

(* The continuity and repetition indices never leave their four bits.      *)
THEOREM TypeCorrect == Spec => []TypeOK
<1>1. Inv => TypeOK
  BY DEF Inv
<1> QED
  BY <1>1, Invariance, PTL

(* Of two data groups built one after the other, the second has the index  *)
(* of the first exactly when it carries the same datagram, and the next    *)
(* index modulo sixteen otherwise.                                         *)
THEOREM IndexAlwaysTellsRepetition == Spec => IndexTellsRepetition
<1> DEFINE Tells ==
      group # NoGroup =>
        IF group'.datagram = group.datagram
        THEN group'.continuity = group.continuity
        ELSE group'.continuity = IF group.continuity = 15 THEN 0 ELSE group.continuity + 1
<1>1. Inv /\ [Next]_vars => [Tells]_vars
  <2> SUFFICES ASSUME Inv, Next PROVE Tells
    OBVIOUS
  <2> QED
    BY BuildTells DEF Next
<1>2. IndexTellsRepetition <=> [][Tells]_vars
  BY DEF IndexTellsRepetition
<1> QED
  BY <1>1, <1>2, Invariance, PTL DEF Spec
=============================================================================
