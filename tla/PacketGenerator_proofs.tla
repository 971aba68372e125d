----------------------- MODULE PacketGenerator_proofs -----------------------
(***************************************************************************)
(* Proofs about dab::packet_generator, for data groups of every size and   *)
(* calls in every order.                                                   *)
(*                                                                         *)
(* The properties speak of the packets of the current call only, yet none  *)
(* of them is inductive: what BuildLast writes into the last packet        *)
(* depends on what m_first_last was left at, and on how many packets went  *)
(* before.  Inv adds what the members hold while a call is under way.      *)
(***************************************************************************)
EXTENDS PacketGenerator, TLAPS

(* The argument of an invocation is a suffix of the group, the whole of it *)
(* in the first invocation and not empty in the others.                    *)
RestIsSuffix ==
  /\ rest.from <= rest.to
  /\ building =>
       /\ rest.group \in Groups
       /\ rest.to = rest.group.size
       /\ packets = <<>> => rest.from = 0
       /\ packets # <<>> => rest.from < rest.to

(* The packets built while the recursion goes down are full.               *)
FullSoFar ==
  building => \A i \in 1 .. Len(packets) :
                packets[i].padding = 0 /\ SizeOf(packets[i].data) > 0

(* The flags they got, and what m_first_last tells of them.                *)
FlagsSoFar ==
  /\ ~building => m_first_last \in {1, 3}
  /\ building =>
       /\ Len(packets) = 0 => m_first_last \in {1, 3}
       /\ Len(packets) = 1 => m_first_last = 2
       /\ Len(packets) > 1 => m_first_last = 0
       /\ \A i \in 1 .. Len(packets) : packets[i].first_last = IF i = 1 THEN 2 ELSE 0

Inv ==
  /\ TypeOK
  /\ RestIsSuffix
  /\ FullSoFar
  /\ FlagsSoFar
  /\ PacketsFit
  /\ NoWastedCapacity
  /\ PacketsCoverGroup
  /\ FlagsDelimitGroup
  /\ ContinuityUnbroken

-----------------------------------------------------------------------------
(* The packet lengths and what is left of them for data.                   *)
LEMMA Lengths ==
  /\ kPacketLengths[0] = 24 /\ kPacketLengths[1] = 48
  /\ kPacketLengths[2] = 72 /\ kPacketLengths[3] = 96
  /\ kPacketDataLengths[0] = 19 /\ kPacketDataLengths[1] = 43
  /\ kPacketDataLengths[2] = 67 /\ kPacketDataLengths[3] = 91
BY DEF kPacketLengths, kPacketDataLengths

(* The length chosen for the last packet takes its data and wastes less    *)
(* than one step of 24 bytes.                                              *)
LEMMA LastLengthFits ==
  ASSUME NEW len \in 0 .. 91
  PROVE  /\ LastLength(len) \in {24, 48, 72, 96}
         /\ LastLength(len) - 5 - len \in 0 .. 23
BY Lengths, SMT DEF LastLength

(* What assemble() returns for a slice that fits into the packet.          *)
LEMMA AssembleFits ==
  ASSUME NEW slice, NEW length, NEW fl, NEW ci,
         slice \in Slice, slice.from <= slice.to,
         length \in {24, 48, 72, 96}, length - 5 - SizeOf(slice) \in Nat,
         fl \in 0 .. 3, ci \in 0 .. 3
  PROVE  LET p == Assemble(slice, length, fl, ci)
         IN  /\ p \in Packet
             /\ p.data = slice /\ p.first_last = fl /\ p.continuity = ci
             /\ p.padding = length - 5 - SizeOf(slice)
             /\ p.useful = SizeOf(slice)
             /\ p.useful < 128
             /\ 5 + p.useful + p.padding = p.length
<1> DEFINE p == Assemble(slice, length, fl, ci)
<1>1. SizeOf(slice) \in 0 .. 91
  <2>1. slice.from \in Nat /\ slice.to \in Nat
    BY DEF Slice
  <2>2. SizeOf(slice) = slice.to - slice.from
    BY DEF SizeOf
  <2> QED
    BY <2>1, <2>2
<1>2. SizeOf(slice) % 256 = SizeOf(slice)
  BY <1>1, SMTT(60)
<1>3. kAddress % 1024 \in 0 .. 1023
  BY AddressAssumption, SMTT(60)
<1>4. /\ p.data = slice /\ p.first_last = fl /\ p.continuity = ci
      /\ p.length = length
      /\ p.padding = length - 5 - SizeOf(slice)
      /\ p.useful = SizeOf(slice)
  BY <1>2 DEF Assemble
<1>5. p \in Packet
  BY <1>1, <1>2, <1>3 DEF Assemble, Packet
<1> HIDE DEF p
<1>6. /\ p.useful < 128
      /\ 5 + p.useful + p.padding = p.length
  BY <1>1, <1>4
<1> QED
  BY <1>4, <1>5, <1>6 DEF p

(* The flags and the index a packet gets are two-bit values.               *)
LEMMA NextMembers ==
  ASSUME NEW fl \in 0 .. 3
  PROVE  /\ SplitFirstLast(fl) \in 0 .. 3
         /\ LastFirstLast(fl) \in 0 .. 3
         /\ NextContinuity(fl) = IF fl = 3 THEN 0 ELSE fl + 1
BY DEF SplitFirstLast, LastFirstLast, NextContinuity, Intermediate, LastOfGroup,
       FirstOfGroup, OneAndOnly

-----------------------------------------------------------------------------
(* The invariant holds before the first call of build().                   *)
LEMMA InitInv == Init => Inv
<1> SUFFICES ASSUME Init PROVE Inv
  OBVIOUS
<1>1. TypeOK
  <2>1. rest \in Slice
    BY DEF Init, Slice
  <2>2. packets \in Seq(Packet)
    BY DEF Init
  <2>3. m_first_last \in 0 .. 3 /\ m_continuity_index \in 0 .. 3
    BY DEF Init, OneAndOnly
  <2>4. building \in BOOLEAN
    BY DEF Init
  <2> QED
    BY <2>1, <2>2, <2>3, <2>4 DEF TypeOK
<1>2. 1 .. Len(packets) = {}
  BY DEF Init
<1>3. RestIsSuffix /\ FullSoFar /\ FlagsSoFar
  BY DEF Init, RestIsSuffix, FullSoFar, FlagsSoFar, OneAndOnly
<1>4. PacketsFit /\ NoWastedCapacity /\ FlagsDelimitGroup
  BY <1>2 DEF PacketsFit, NoWastedCapacity, FlagsDelimitGroup
<1>5. PacketsCoverGroup /\ ContinuityUnbroken
  BY <1>2 DEF Init, PacketsCoverGroup, ContinuityUnbroken
<1> QED
  BY <1>1, <1>3, <1>4, <1>5 DEF Inv

(* A call starts from what the previous one left in the two members.       *)
LEMMA BuildInv ==
  ASSUME Inv, NEW g \in Groups, Build(g)
  PROVE  Inv'
BY GroupsAssumption
DEF Build, Inv, TypeOK, RestIsSuffix, FullSoFar, FlagsSoFar, PacketsFit, NoWastedCapacity,
    PacketsCoverGroup, FlagsDelimitGroup, ContinuityUnbroken, Slice

(* A full packet is cut off and the recursion goes on: each part of the    *)
(* invariant gains one packet.                                             *)
LEMMA BuildSplitInv ==
  ASSUME Inv, BuildSplit
  PROVE  Inv'
<1> DEFINE n  == Len(packets)
           hd == SplitHead(rest, 91)
           p  == Assemble(hd, 96, m_first_last', m_continuity_index)
<1>0. /\ TypeOK /\ RestIsSuffix /\ FullSoFar /\ FlagsSoFar /\ PacketsFit
      /\ NoWastedCapacity /\ PacketsCoverGroup /\ ContinuityUnbroken
  BY DEF Inv
<1>1. /\ building /\ building'
      /\ SizeOf(rest) > 91
      /\ m_first_last' = SplitFirstLast(m_first_last)
      /\ packets' = Append(packets, p)
      /\ rest' = [rest EXCEPT !.from = rest.from + 91]
      /\ m_continuity_index' = NextContinuity(m_continuity_index)
  BY Lengths DEF BuildSplit, NeedsSplit, SplitTail
<1>2. /\ rest \in Slice /\ n \in Nat
      /\ m_first_last \in 0 .. 3 /\ m_continuity_index \in 0 .. 3
      /\ packets \in Seq(Packet)
  BY <1>0 DEF TypeOK
<1>n. n \in Nat /\ (n = 0 \/ n = 1 \/ n > 1)
  <2>1. n \in Nat
    BY <1>2
  <2> HIDE DEF n
  <2> QED
    BY <2>1
<1>3. /\ hd \in Slice /\ hd.from <= hd.to /\ SizeOf(hd) = 91
      /\ hd.group = rest.group /\ hd.from = rest.from /\ hd.to = rest.from + 91
  <2>1. rest.group \in Groups \cup {NoGroup} /\ rest.from \in Nat /\ rest.to \in Nat
    BY <1>2 DEF Slice
  <2>2. hd.group = rest.group /\ hd.from = rest.from /\ hd.to = rest.from + 91
    BY <1>2, Zenon DEF SplitHead, Slice
  <2>3. hd \in Slice
    BY <1>2 DEF SplitHead, Slice
  <2> HIDE DEF n, hd
  <2>4. SizeOf(hd) = hd.to - hd.from
    BY DEF SizeOf
  <2> QED
    BY <2>1, <2>2, <2>3, <2>4
<1>4. /\ rest' \in Slice /\ rest'.from = rest.from + 91 /\ rest'.to = rest.to
      /\ rest'.group = rest.group /\ rest'.from < rest'.to
  <2>1. rest.from \in Nat /\ rest.to \in Nat
    BY <1>2 DEF Slice
  <2>2. rest'.from = rest.from + 91 /\ rest'.to = rest.to /\ rest'.group = rest.group
    <3>1. rest' = [rest EXCEPT !.from = rest.from + 91]
      BY <1>1
    <3> QED
      BY <3>1, <1>2, Zenon DEF Slice
  <2>3. rest' \in Slice
    <3>1. rest' = [rest EXCEPT !.from = rest.from + 91]
      BY <1>1
    <3> HIDE DEF n
    <3> QED
      BY <3>1, <1>2 DEF Slice
  <2>4. rest.to - rest.from > 91
    BY <1>1 DEF SizeOf
  <2> HIDE DEF n
  <2> QED
    BY <2>1, <2>2, <2>3, <2>4
<1>5. /\ m_first_last' \in 0 .. 3
      /\ m_continuity_index' = IF m_continuity_index = 3 THEN 0 ELSE m_continuity_index + 1
  BY <1>1, <1>2, NextMembers
<1>6. /\ p \in Packet
      /\ p.data = hd /\ p.first_last = m_first_last' /\ p.continuity = m_continuity_index
      /\ p.padding = 0 /\ p.useful = SizeOf(p.data) /\ p.useful < 128
      /\ 5 + p.useful + p.padding = p.length
  <2> HIDE DEF hd
  <2>1. 96 - 5 - SizeOf(hd) = 0 /\ 96 - 5 - SizeOf(hd) \in Nat
    BY <1>3
  <2>2. 96 \in {24, 48, 72, 96}
    OBVIOUS
  <2>3. m_first_last' \in 0 .. 3 /\ m_continuity_index \in 0 .. 3
    BY <1>2, <1>5
  <2>4. hd \in Slice /\ hd.from <= hd.to
    BY <1>3
  <2>5. /\ p \in Packet
        /\ p.data = hd /\ p.first_last = m_first_last' /\ p.continuity = m_continuity_index
        /\ p.padding = 96 - 5 - SizeOf(hd)
        /\ p.useful = SizeOf(hd) /\ p.useful < 128
        /\ 5 + p.useful + p.padding = p.length
    BY <2>1, <2>2, <2>3, <2>4, AssembleFits
  <2> HIDE DEF p
  <2> QED
    BY <2>1, <2>5
<1> HIDE DEF p, hd
<1>7. /\ packets' \in Seq(Packet) /\ Len(packets') = n + 1 /\ packets' # <<>>
      /\ \A i \in 1 .. n : packets'[i] = packets[i]
      /\ packets'[n + 1] = p
  BY <1>1, <1>2, <1>6
<1>8. TypeOK'
  BY <1>1, <1>2, <1>4, <1>5, <1>7 DEF TypeOK
<1>9. RestIsSuffix'
  <2>1. rest.group \in Groups /\ rest.to = rest.group.size
    BY <1>0, <1>1 DEF RestIsSuffix
  <2>2. rest'.from <= rest'.to
    BY <1>2, <1>4 DEF Slice
  <2> QED
    BY <2>1, <2>2, <1>4, <1>7 DEF RestIsSuffix
<1>10. FullSoFar'
  BY <1>0, <1>1, <1>2, <1>3, <1>6, <1>7 DEF FullSoFar
<1>11. FlagsSoFar'
  <2>1. m_first_last \in IF n = 0 THEN {1, 3} ELSE IF n = 1 THEN {2} ELSE {0}
    <3>1. CASE n = 0
      BY <3>1, <1>0, <1>1 DEF FlagsSoFar
    <3>2. CASE n = 1
      BY <3>2, <1>0, <1>1 DEF FlagsSoFar
    <3>3. CASE n > 1
      BY <3>3, <1>0, <1>1 DEF FlagsSoFar
    <3> QED
      BY <3>1, <3>2, <3>3, <1>n
  <2>2. m_first_last' = IF n = 0 THEN 2 ELSE 0
    BY <2>1, <1>1, <1>2 DEF SplitFirstLast, Intermediate, LastOfGroup, FirstOfGroup,
                            OneAndOnly
  <2> QED
    BY <2>2, <1>0, <1>1, <1>2, <1>6, <1>7 DEF FlagsSoFar
<1>12. PacketsFit'
  BY <1>0, <1>2, <1>6, <1>7 DEF PacketsFit
<1>13. NoWastedCapacity'
  BY <1>0, <1>1, <1>2, <1>3, <1>6, <1>7 DEF NoWastedCapacity, FullSoFar
<1>14. PacketsCoverGroup'
  BY <1>0, <1>1, <1>2, <1>3, <1>4, <1>6, <1>7 DEF PacketsCoverGroup, RestIsSuffix
<1>15. FlagsDelimitGroup'
  BY <1>1 DEF FlagsDelimitGroup
<1>16. ContinuityUnbroken'
  <2>1. \A i \in 2 .. n : packets[i].continuity =
                           IF packets[i - 1].continuity = 3 THEN 0
                           ELSE packets[i - 1].continuity + 1
    BY <1>0 DEF ContinuityUnbroken
  <2>2. n > 0 => m_continuity_index = IF packets[n].continuity = 3 THEN 0
                                      ELSE packets[n].continuity + 1
    BY <1>0, <1>2 DEF ContinuityUnbroken
  <2>3. \A i \in 2 .. n + 1 : packets'[i].continuity =
                               IF packets'[i - 1].continuity = 3 THEN 0
                               ELSE packets'[i - 1].continuity + 1
    <3> SUFFICES ASSUME NEW i \in 2 .. n + 1
                 PROVE  packets'[i].continuity =
                          IF packets'[i - 1].continuity = 3 THEN 0
                          ELSE packets'[i - 1].continuity + 1
      OBVIOUS
    <3>1. CASE i \in 2 .. n
      BY <3>1, <2>1, <1>2, <1>7
    <3>2. CASE i = n + 1
      BY <3>2, <2>2, <1>2, <1>6, <1>7
    <3> QED
      BY <3>1, <3>2, <1>2
  <2>4. m_continuity_index' = IF packets'[n + 1].continuity = 3 THEN 0
                              ELSE packets'[n + 1].continuity + 1
    BY <1>5, <1>6, <1>7
  <2> QED
    BY <2>3, <2>4, <1>7 DEF ContinuityUnbroken
<1> QED
  BY <1>8, <1>9, <1>10, <1>11, <1>12, <1>13, <1>14, <1>15, <1>16 DEF Inv

(* The rest fits into one packet, which takes all of it and ends the       *)
(* group.                                                                  *)
LEMMA BuildLastInv ==
  ASSUME Inv, BuildLast
  PROVE  Inv'
<1> DEFINE n   == Len(packets)
           len == SizeOf(rest)
           p   == Assemble(rest, LastLength(len), m_first_last', m_continuity_index)
<1>0. /\ TypeOK /\ RestIsSuffix /\ FullSoFar /\ FlagsSoFar /\ PacketsFit
      /\ NoWastedCapacity /\ PacketsCoverGroup /\ ContinuityUnbroken
  BY DEF Inv
<1>1. /\ building /\ ~building' /\ building' \in BOOLEAN
      /\ ~(len > 91)
      /\ m_first_last' = LastFirstLast(m_first_last)
      /\ packets' = Append(packets, p)
      /\ rest' = [rest EXCEPT !.from = rest.to]
      /\ m_continuity_index' = NextContinuity(m_continuity_index)
  BY Lengths DEF BuildLast, NeedsSplit
<1>2. /\ rest \in Slice /\ n \in Nat
      /\ m_first_last \in 0 .. 3 /\ m_continuity_index \in 0 .. 3
      /\ packets \in Seq(Packet)
  BY <1>0 DEF TypeOK
<1>n. n \in Nat /\ (n = 0 \/ n = 1 \/ n > 1)
  <2>1. n \in Nat
    BY <1>2
  <2> HIDE DEF n
  <2> QED
    BY <2>1
<1>e. n > 0 <=> packets # <<>>
  BY <1>2
<1>3. /\ rest.from \in Nat /\ rest.to \in Nat /\ rest.from <= rest.to
      /\ len = rest.to - rest.from /\ len \in 0 .. 91
      /\ n > 0 => len > 0
      /\ n = 0 => rest.from = 0 /\ rest.to = rest.group.size
  <2>1. rest.from \in Nat /\ rest.to \in Nat
    BY <1>2 DEF Slice
  <2>2. /\ rest.from <= rest.to
        /\ n > 0 => rest.from < rest.to
        /\ n = 0 => rest.from = 0 /\ rest.to = rest.group.size
    BY <1>0, <1>1, <1>e, <1>n DEF RestIsSuffix
  <2>3. len = rest.to - rest.from
    BY DEF SizeOf
  <2>4. ~(len > 91)
    BY <1>1
  <2> HIDE DEF n, len
  <2> QED
    BY <2>1, <2>2, <2>3, <2>4, <1>n
<1>4. /\ rest' \in Slice /\ rest'.from = rest.to /\ rest'.to = rest.to
      /\ rest'.group = rest.group
  BY <1>1, <1>2 DEF Slice
<1>5. /\ m_first_last' \in 0 .. 3
      /\ m_continuity_index' = IF m_continuity_index = 3 THEN 0 ELSE m_continuity_index + 1
  BY <1>1, <1>2, NextMembers
<1>6. /\ p \in Packet
      /\ p.data = rest /\ p.first_last = m_first_last' /\ p.continuity = m_continuity_index
      /\ p.padding \in 0 .. 23 /\ p.padding < 24
      /\ p.useful = SizeOf(p.data) /\ p.useful < 128
      /\ 5 + p.useful + p.padding = p.length
  <2> HIDE DEF len
  <2>1. /\ LastLength(len) \in {24, 48, 72, 96}
        /\ LastLength(len) - 5 - len \in 0 .. 23
    BY <1>3, LastLengthFits, ZenonT(60)
  <2>2. LastLength(len) - 5 - SizeOf(rest) \in Nat
    BY <2>1 DEF len
  <2>3. /\ p \in Packet
        /\ p.data = rest /\ p.first_last = m_first_last' /\ p.continuity = m_continuity_index
        /\ p.padding = LastLength(len) - 5 - SizeOf(rest)
        /\ p.useful = SizeOf(rest) /\ p.useful < 128
        /\ 5 + p.useful + p.padding = p.length
    <3>1. /\ m_first_last' \in 0 .. 3 /\ m_continuity_index \in 0 .. 3
          /\ rest \in Slice /\ rest.from <= rest.to
      BY <1>2, <1>3, <1>5
    <3>2. LastLength(len) \in {24, 48, 72, 96} /\ LastLength(len) - 5 - SizeOf(rest) \in Nat
      BY <2>1, <2>2
    <3> QED
      BY <3>1, <3>2, AssembleFits
  <2> HIDE DEF p
  <2> QED
    BY <2>1, <2>3 DEF len
<1> HIDE DEF p, len
<1>7. /\ packets' \in Seq(Packet) /\ Len(packets') = n + 1 /\ packets' # <<>>
      /\ \A i \in 1 .. n : packets'[i] = packets[i]
      /\ packets'[n + 1] = p
  BY <1>1, <1>2, <1>6
<1>8. TypeOK'
  BY <1>1, <1>2, <1>4, <1>5, <1>7 DEF TypeOK
<1>9. RestIsSuffix'
  BY <1>1, <1>3, <1>4 DEF RestIsSuffix
<1>10. FullSoFar'
  BY <1>1 DEF FullSoFar
<1>11. m_first_last' = IF n = 0 THEN 3 ELSE 1
  <2>1. m_first_last \in IF n = 0 THEN {1, 3} ELSE {0, 2}
    BY <1>n, <1>0, <1>1 DEF FlagsSoFar
  <2> QED
    BY <2>1, <1>1 DEF LastFirstLast, Intermediate, LastOfGroup, FirstOfGroup, OneAndOnly
<1>12. FlagsSoFar'
  BY <1>1, <1>2, <1>11 DEF FlagsSoFar
<1>13. PacketsFit'
  <2> SUFFICES ASSUME NEW i \in 1 .. n + 1
               PROVE  /\ packets'[i].padding >= 0
                      /\ packets'[i].useful = SizeOf(packets'[i].data)
                      /\ packets'[i].useful < 128
                      /\ 5 + packets'[i].useful + packets'[i].padding = packets'[i].length
    BY <1>7 DEF PacketsFit
  <2>1. CASE i \in 1 .. n
    <3>1. packets'[i] = packets[i]
      BY <2>1, <1>7
    <3>2. /\ packets[i].padding >= 0
          /\ packets[i].useful = SizeOf(packets[i].data)
          /\ packets[i].useful < 128
          /\ 5 + packets[i].useful + packets[i].padding = packets[i].length
      BY <2>1, <1>0 DEF PacketsFit
    <3> QED
      BY <3>1, <3>2
  <2>2. CASE i = n + 1
    <3>1. packets'[i] = p
      BY <2>2, <1>7
    <3>2. p.padding >= 0
      <4>1. p.padding \in 0 .. 23
        BY <1>6
      <4> HIDE DEF n
      <4> QED
        BY <4>1
    <3>3. /\ p.useful = SizeOf(p.data) /\ p.useful < 128
          /\ 5 + p.useful + p.padding = p.length
      BY <1>6, Zenon
    <3> QED
      BY <3>1, <3>2, <3>3, Zenon
  <2>3. i \in 1 .. n \/ i = n + 1
    <3> HIDE DEF n
    <3> QED
      BY <1>n
  <2> QED
    BY <2>1, <2>2, <2>3
<1>14. NoWastedCapacity'
  <2> SUFFICES ASSUME NEW i \in 1 .. n + 1
               PROVE  /\ packets'[i].padding < 24
                      /\ i < n + 1 => packets'[i].padding = 0
                      /\ SizeOf(packets'[i].data) = 0 => rest'.group.size = 0
    BY <1>7 DEF NoWastedCapacity
  <2>1. CASE i \in 1 .. n
    BY <2>1, <1>0, <1>1, <1>7 DEF FullSoFar
  <2>2. CASE i = n + 1
    <3>1. packets'[i].padding < 24 /\ SizeOf(packets'[i].data) = len
      <4>1. packets'[i] = p
        BY <2>2, <1>7
      <4>2. p.padding < 24
        BY <1>6
      <4>3. SizeOf(p.data) = len
        BY <1>6 DEF len
      <4> QED
        BY <4>1, <4>2, <4>3
    <3>2. ~(i < n + 1)
      BY <2>2, <1>n
    <3>3. len = 0 => n = 0 /\ rest.group.size = 0
      <4> HIDE DEF n
      <4> QED
        BY <1>3, <1>n
    <3> QED
      BY <3>1, <3>2, <3>3, <1>4
  <2> QED
    BY <2>1, <2>2, <1>n
<1>15. PacketsCoverGroup'
  <2>1. /\ packets'[n + 1].data.to = rest'.from
        /\ rest'.from = rest'.to
    <3>1. p.data.to = rest.to
      BY <1>6, Zenon
    <3> QED
      BY <3>1, <1>4, <1>7, Zenon
  <2>2. ASSUME NEW i \in 1 .. n + 1
        PROVE  /\ packets'[i].data.group = rest'.group
               /\ packets'[i].data.from = IF i = 1 THEN 0 ELSE packets'[i - 1].data.to
    <3>1. CASE i \in 1 .. n
      <4>1. /\ packets[i].data.group = rest.group
            /\ packets[i].data.from = IF i = 1 THEN 0 ELSE packets[i - 1].data.to
        BY <3>1, <1>0 DEF PacketsCoverGroup
      <4>2. packets'[i] = packets[i]
        BY <3>1, <1>7
      <4>3. i # 1 => packets'[i - 1] = packets[i - 1]
        <5>1. i # 1 => i - 1 \in 1 .. n
          <6> HIDE DEF n
          <6> QED
            BY <3>1, <1>n
        <5> QED
          BY <5>1, <1>7
      <4> QED
        BY <4>1, <4>2, <4>3, <1>4, Zenon
    <3>2. CASE i = n + 1
      <4>1. /\ packets'[i].data.group = rest.group
            /\ packets'[i].data.from = rest.from
        <5>1. packets'[i] = p
          BY <3>2, <1>7, Zenon
        <5> QED
          BY <5>1, <1>6, Zenon
      <4>2. CASE n = 0
        <5>1. i = 1 /\ rest.from = 0
          <6> HIDE DEF n
          <6> QED
            BY <3>2, <4>2, <1>3
        <5> QED
          BY <4>1, <5>1, <1>4, Zenon
      <4>3. CASE n > 0
        <5>1. i # 1 /\ i - 1 = n /\ n \in 1 .. n
          <6> HIDE DEF n
          <6> QED
            BY <3>2, <4>3, <1>n
        <5>2. packets'[n].data.to = rest.from
          <6>1. packets[n].data.to = rest.from
            <7>1. packets # <<>>
              <8> HIDE DEF n
              <8> QED
                BY <4>3, <1>e
            <7> QED
              BY <7>1, <1>0 DEF PacketsCoverGroup
          <6> QED
            BY <6>1, <5>1, <1>7, Zenon
        <5> QED
          BY <4>1, <5>1, <5>2, <1>4, Zenon
      <4>4. n = 0 \/ n > 0
        <5> HIDE DEF n
        <5> QED
          BY <1>n
      <4> QED
        BY <4>2, <4>3, <4>4
    <3>3. i \in 1 .. n \/ i = n + 1
      <4> HIDE DEF n
      <4> QED
        BY <1>n
    <3> QED
      BY <3>1, <3>2, <3>3, Zenon
  <2> QED
    BY <2>1, <2>2, <1>7 DEF PacketsCoverGroup
<1>16. FlagsDelimitGroup'
  BY <1>0, <1>1, <1>2, <1>6, <1>7, <1>11 DEF FlagsDelimitGroup, FlagsSoFar
<1>17. ContinuityUnbroken'
  <2>1. \A i \in 2 .. n : packets[i].continuity =
                           IF packets[i - 1].continuity = 3 THEN 0
                           ELSE packets[i - 1].continuity + 1
    BY <1>0 DEF ContinuityUnbroken
  <2>2. n > 0 => m_continuity_index = IF packets[n].continuity = 3 THEN 0
                                      ELSE packets[n].continuity + 1
    BY <1>0, <1>2 DEF ContinuityUnbroken
  <2> QED
    <3>1. \A i \in 2 .. n + 1 : packets'[i].continuity =
                                 IF packets'[i - 1].continuity = 3 THEN 0
                                 ELSE packets'[i - 1].continuity + 1
      <4> SUFFICES ASSUME NEW i \in 2 .. n + 1
                   PROVE  packets'[i].continuity =
                            IF packets'[i - 1].continuity = 3 THEN 0
                            ELSE packets'[i - 1].continuity + 1
        OBVIOUS
      <4>1. CASE i \in 2 .. n
        BY <4>1, <2>1, <1>n, <1>7
      <4>2. CASE i = n + 1
        BY <4>2, <2>2, <1>n, <1>6, <1>7
      <4> QED
        BY <4>1, <4>2, <1>n
    <3>2. m_continuity_index' = IF packets'[n + 1].continuity = 3 THEN 0
                                ELSE packets'[n + 1].continuity + 1
      BY <1>5, <1>6, <1>7
    <3> QED
      BY <3>1, <3>2, <1>7 DEF ContinuityUnbroken
<1> QED
  BY <1>8, <1>9, <1>10, <1>12, <1>13, <1>14, <1>15, <1>16, <1>17 DEF Inv

(* The invariant is inductive.                                             *)
LEMMA NextInv ==
  ASSUME Inv, [Next]_vars
  PROVE  Inv'
<1>1. ASSUME NEW g \in Groups, Build(g) PROVE Inv'
  BY <1>1, BuildInv
<1>2. CASE BuildSplit
  BY <1>2, BuildSplitInv
<1>3. CASE BuildLast
  BY <1>3, BuildLastInv
<1>4. CASE UNCHANGED vars
  BY <1>4 DEF vars, Inv, TypeOK, RestIsSuffix, FullSoFar, FlagsSoFar, PacketsFit,
              NoWastedCapacity, PacketsCoverGroup, FlagsDelimitGroup, ContinuityUnbroken
<1> QED
  BY <1>1, <1>2, <1>3, <1>4 DEF Next

-----------------------------------------------------------------------------
(* Inv holds in every state build() passes through, whatever groups it is  *)
(* called with and in whatever order.                                      *)
THEOREM Invariance == Spec => []Inv
<1>1. Init => Inv
  BY InitInv
<1>2. Inv /\ [Next]_vars => Inv'
  BY NextInv
<1> QED
  BY <1>1, <1>2, PTL DEF Spec

(* The members of the generator and the fields of its packets keep their   *)
(* types: the two-bit flag and the two-bit index never leave their bits.   *)
THEOREM TypeCorrect == Spec => []TypeOK
<1>1. Inv => TypeOK
  BY DEF Inv
<1> QED
  BY <1>1, Invariance, PTL

(* For a group of any size, header, data, padding and CRC make up every    *)
(* packet, the padding is never negative and the useful data length fits   *)
(* into its seven bits.                                                    *)
THEOREM PacketsAlwaysFit == Spec => []PacketsFit
<1>1. Inv => PacketsFit
  BY DEF Inv
<1> QED
  BY <1>1, Invariance, PTL

(* No packet is empty unless the group is, and none is longer than needed. *)
THEOREM CapacityNeverWasted == Spec => []NoWastedCapacity
<1>1. Inv => NoWastedCapacity
  BY DEF Inv
<1> QED
  BY <1>1, Invariance, PTL

(* The packets of a call carry its group, all of it and in order.          *)
THEOREM GroupAlwaysCovered == Spec => []PacketsCoverGroup
<1>1. Inv => PacketsCoverGroup
  BY DEF Inv
<1> QED
  BY <1>1, Invariance, PTL

(* The first/last flags of a finished call delimit its group, whatever the *)
(* calls before it left in m_first_last.                                   *)
THEOREM FlagsAlwaysDelimit == Spec => []FlagsDelimitGroup
<1>1. Inv => FlagsDelimitGroup
  BY DEF Inv
<1> QED
  BY <1>1, Invariance, PTL

(* The continuity index never skips or repeats a value, within a call or   *)
(* from one call to the next.                                              *)
THEOREM ContinuityNeverBroken == Spec => []ContinuityUnbroken
<1>1. Inv => ContinuityUnbroken
  BY DEF Inv
<1> QED
  BY <1>1, Invariance, PTL
=============================================================================
