--------------------------- MODULE PacketGenerator ---------------------------
(***************************************************************************)
(* dab::packet_generator: cuts an MSC data group into DAB packets.         *)
(*                                                                         *)
(* build() calls itself on the bytes it has not packed yet, so one call    *)
(* by the owner of the generator is a run of invocations.  Each invocation *)
(* is one action here: BuildSplit is one that packs a full packet and      *)
(* recurses, BuildLast the one that packs what is left and ends the        *)
(* recursion.  Two members survive a call and are read by the next one:    *)
(* m_first_last and m_continuity_index.                                    *)
(*                                                                         *)
(* The bytes of a group are abstracted to slices: the bytes from..to-1 of  *)
(* a given group.  A packet is the record of its header fields, the slice  *)
(* it carries and its padding.  The two CRC bytes are counted in the       *)
(* packet's length; their value is not modelled here.                      *)
(***************************************************************************)
EXTENDS Integers, Sequences

CONSTANTS
  Groups,   \* the MSC data groups handed to build(), each with a size in bytes
  NoGroup,  \* stands for "build() has not been called yet"
  kAddress  \* the std::uint16_t the generator was constructed with

ASSUME GroupsAssumption ==
  /\ \A g \in Groups : g.size \in Nat
  /\ NoGroup \notin Groups

ASSUME AddressAssumption == kAddress \in Nat /\ kAddress < 65536

VARIABLES
  m_first_last,        \* first/last flag of the packet built last
  m_continuity_index,  \* continuity index of the next packet
  building,            \* a call of build() is on the stack
  rest,                \* the argument of the innermost invocation: bytes not packed
  packets              \* the packets of this call, in the order they are concatenated

vars == <<m_first_last, m_continuity_index, building, rest, packets>>

-----------------------------------------------------------------------------
(* Packet lengths, and the bytes of data a packet of that length carries:  *)
(* three bytes of header and two of CRC are taken off.                     *)
kPacketLengths     == [i \in 0 .. 3 |-> 24 * (i + 1)]
kPacketDataLengths == [i \in 0 .. 3 |-> kPacketLengths[i] - 5]

(* The values of the two-bit first/last flag.                              *)
Intermediate == 0
LastOfGroup  == 1
FirstOfGroup == 2
OneAndOnly   == 3

(* The mutated forms below stand before the definition they alter; no run  *)
(* or theorem of the project uses them.                                    *)
SplitFirstLast_StaleLast(fl) == IF fl = OneAndOnly THEN FirstOfGroup ELSE Intermediate

SplitFirstLast(fl) ==
  IF fl \in {LastOfGroup, OneAndOnly} THEN FirstOfGroup ELSE Intermediate

LastFirstLast_LosesLast(fl) ==
  CASE fl = FirstOfGroup -> LastOfGroup
    [] fl = Intermediate -> Intermediate
    [] OTHER             -> OneAndOnly

LastFirstLast(fl) ==
  IF fl \in {Intermediate, FirstOfGroup} THEN LastOfGroup ELSE OneAndOnly

NextContinuity_NoWrap(ci) == ci + 1
NextContinuity_Stuck(ci)  == IF ci = 3 THEN 3 ELSE ci + 1

NextContinuity(ci) == (ci + 1) % 4

(* The length chosen for the last packet of a group: the shortest whose    *)
(* data field takes len bytes.                                             *)
LastLength_NoOverhead(len) ==
  IF len > kPacketDataLengths[2] THEN kPacketLengths[3]
  ELSE IF len > kPacketDataLengths[1] THEN kPacketLengths[2]
  ELSE IF len > kPacketLengths[0] THEN kPacketLengths[1]
  ELSE kPacketLengths[0]

LastLength(len) ==
  IF len > kPacketDataLengths[2] THEN kPacketLengths[3]
  ELSE IF len > kPacketDataLengths[1] THEN kPacketLengths[2]
  ELSE IF len > kPacketDataLengths[0] THEN kPacketLengths[1]
  ELSE kPacketLengths[0]

SizeOf(slice) == slice.to - slice.from

(* More bytes than the longest packet carries.                             *)
NeedsSplit_AtLimit(len) == len >= kPacketDataLengths[3]

NeedsSplit(len) == len > kPacketDataLengths[3]

(* split_vector: the first `position` bytes and all the others.            *)
SplitHead(slice, position) == [slice EXCEPT !.to = slice.from + position]

SplitTail_SkipsByte(slice, position) == [slice EXCEPT !.from = slice.from + position + 1]

SplitTail(slice, position) == [slice EXCEPT !.from = slice.from + position]

(* assemble() and build_header().  The address is cut to ten bits, the     *)
(* useful data length passes through a std::uint8_t.  The padding is the   *)
(* size of a vector, computed as packet_length - 5 - size in an unsigned   *)
(* type: a negative value here is a wrapped, huge one there.               *)
Assemble(slice, packet_length, first_last, ci) ==
  [ length     |-> packet_length,
    continuity |-> ci,
    first_last |-> first_last,
    address    |-> kAddress % 1024,
    useful     |-> SizeOf(slice) % 256,
    data       |-> slice,
    padding    |-> packet_length - 5 - SizeOf(slice) ]

-----------------------------------------------------------------------------
Init ==
  /\ m_first_last = OneAndOnly
  /\ m_continuity_index = 0
  /\ building = FALSE
  /\ rest = [group |-> NoGroup, from |-> 0, to |-> 0]
  /\ packets = <<>>

(* The owner calls build(g).                                               *)
Build(g) ==
  /\ ~building
  /\ building' = TRUE
  /\ rest' = [group |-> g, from |-> 0, to |-> g.size]
  /\ packets' = <<>>
  /\ UNCHANGED <<m_first_last, m_continuity_index>>

(* An invocation with more than one packet's worth of data.                *)
BuildSplit ==
  /\ building
  /\ NeedsSplit(SizeOf(rest))
  /\ m_first_last' = SplitFirstLast(m_first_last)
  /\ LET position == kPacketDataLengths[3]
     IN  /\ packets' = Append(packets, Assemble(SplitHead(rest, position), position + 5,
                                                m_first_last', m_continuity_index))
         /\ rest' = SplitTail(rest, position)
  /\ m_continuity_index' = NextContinuity(m_continuity_index)
  /\ UNCHANGED building

(* The invocation that ends the recursion; every caller on the stack then  *)
(* appends the packets it is handed to its own and returns.                *)
BuildLast ==
  /\ building
  /\ ~NeedsSplit(SizeOf(rest))
  /\ m_first_last' = LastFirstLast(m_first_last)
  /\ packets' = Append(packets, Assemble(rest, LastLength(SizeOf(rest)),
                                         m_first_last', m_continuity_index))
  /\ rest' = [rest EXCEPT !.from = rest.to]
  /\ m_continuity_index' = NextContinuity(m_continuity_index)
  /\ building' = FALSE

Next ==
  \/ \E g \in Groups : Build(g)
  \/ BuildSplit
  \/ BuildLast

Spec == Init /\ [][Next]_vars

-----------------------------------------------------------------------------
Slice  == [group : Groups \cup {NoGroup}, from : Nat, to : Nat]
Packet == [length : {24, 48, 72, 96}, continuity : 0 .. 3, first_last : 0 .. 3,
           address : 0 .. 1023, useful : 0 .. 255, data : Slice, padding : Int]

(* Every variable has its type; the two members keep within the two bits   *)
(* build_header() shifts them into.                                        *)
TypeOK ==
  /\ m_first_last \in 0 .. 3
  /\ m_continuity_index \in 0 .. 3
  /\ building \in BOOLEAN
  /\ rest \in Slice
  /\ packets \in Seq(Packet)

(* A packet carries exactly the slice it announces, header, data, padding  *)
(* and CRC add up to its length, the unsigned subtraction that sizes the   *)
(* padding never wraps, and the useful data length leaves the command bit  *)
(* alone.                                                                  *)
PacketsFit ==
  \A i \in 1 .. Len(packets) :
    LET p == packets[i]
    IN  /\ p.padding >= 0
        /\ p.useful = SizeOf(p.data)
        /\ p.useful < 128
        /\ 5 + p.useful + p.padding = p.length

(* No packet is sent for nothing and none is longer than its data needs:   *)
(* only an empty group makes an empty packet, only the last packet of a    *)
(* group is padded, and by less than the step from one packet length to    *)
(* the next.                                                               *)
NoWastedCapacity ==
  \A i \in 1 .. Len(packets) :
    /\ packets[i].padding < 24
    /\ i < Len(packets) => packets[i].padding = 0
    /\ SizeOf(packets[i].data) = 0 => rest.group.size = 0

(* The slices of the packets built so far follow each other without a gap  *)
(* or an overlap from byte 0 of the group to the first byte not packed,    *)
(* and a finished call has packed the whole group: a receiver that joins   *)
(* the useful data of the packets gets the group back.                     *)
PacketsCoverGroup ==
  /\ \A i \in 1 .. Len(packets) :
       /\ packets[i].data.group = rest.group
       /\ packets[i].data.from = IF i = 1 THEN 0 ELSE packets[i - 1].data.to
  /\ packets # <<>> => packets[Len(packets)].data.to = rest.from
  /\ ~building => rest.from = rest.to

(* When build() returns, the flags delimit the group: one packet alone is  *)
(* "one and only", else the first says first, the last says last and the   *)
(* others say neither, whatever the previous call left in m_first_last.    *)
FlagsDelimitGroup ==
  ~building =>
    \A i \in 1 .. Len(packets) :
      packets[i].first_last =
        CASE i = 1 /\ i = Len(packets) -> 3
          [] i = 1 /\ i < Len(packets) -> 2
          [] i > 1 /\ i = Len(packets) -> 1
          [] i > 1 /\ i < Len(packets) -> 0

(* The continuity index counts packets modulo four, within a group and     *)
(* over the end of one: the next packet, of this call or of the next,      *)
(* continues the last one.                                                 *)
ContinuityUnbroken ==
  LET follows(a, b) == b = IF a = 3 THEN 0 ELSE a + 1
  IN  /\ \A i \in 2 .. Len(packets) :
           follows(packets[i - 1].continuity, packets[i].continuity)
      /\ packets # <<>> => follows(packets[Len(packets)].continuity, m_continuity_index)
=============================================================================
