--------------------------------- MODULE Wire ---------------------------------
(***************************************************************************)
(* wrap_data() down to the bytes: what a payload becomes on its way into   *)
(* /tmp/dabdata, and what a receiver of the packets reads in them.         *)
(*                                                                         *)
(* The two generators are the modules MscDataGroupGenerator and            *)
(* PacketGenerator, instantiated on datagrams and groups that know their   *)
(* bytes; this module adds the bytes of every header, checksum and CRC.    *)
(* Receiving is not in the repository (packet_parser.h declares a parser   *)
(* nothing defines): the operators that decode follow the format alone, by *)
(* arithmetic on the bytes, and share no definition with those that        *)
(* encode.                                                                 *)
(*                                                                         *)
(* On its way a burst of bit errors may damage what was written.           *)
(***************************************************************************)
EXTENDS Integers, Sequences, Functions, Crc16, IpUdp

CONSTANTS
  Payloads,     \* sequences of bytes
  Conf,         \* [source_address, source_port, destination_address,
                \*  destination_port, packet_address]
  Bursts,       \* the shapes of bursts: sets of offsets of the bits hit
  MaxPayloads,  \* bound on the payloads of a behaviour
  NoDatagram, NoGroup

(* For the source 0.0.0.0 libtins asks the operating system for an address *)
(* of its own when it serialises; that is not modelled.                    *)
ASSUME ConfAssumption ==
  /\ {Conf.source_port, Conf.destination_port, Conf.packet_address} \subseteq Word16
  /\ Conf.source_address \in [1 .. 4 -> Octet] \ {<<0, 0, 0, 0>>}
  /\ Conf.destination_address \in [1 .. 4 -> Octet]

(* The strings receive() returns are bytes, as many as its buffer has.     *)
ASSUME PayloadsAssumption ==
  \A p \in Payloads : p \in Seq(Octet) /\ Len(p) <= 1024

(* A burst spans at most sixteen bits.                                     *)
ASSUME BurstsAssumption == Bursts \subseteq SUBSET (0 .. 15)

VARIABLES
  pc,        \* where wrap_data() and its caller are
  payload,   \* its argument
  segment,   \* the bytes of the UDP layer once it is serialised
  datagram,  \* the bytes of the IP datagram
  m_last_ip_datagram, group_index, m_repetition_index, group,   \* grouper
  group_bytes,                                                  \* what it returned
  m_first_last, m_continuity_index, building, rest, packets,    \* packer
  written,   \* the bytes the last call returned
  taken,     \* the same bytes as the receiver gets them
  calls      \* ghost: how many payloads there were

grouperVars == <<m_last_ip_datagram, group_index, m_repetition_index, group>>
packerVars  == <<m_first_last, m_continuity_index, building, rest, packets>>
bytesVars   == <<payload, segment, datagram, group_bytes, written, taken, calls>>
vars == <<pc, grouperVars, packerVars, bytesVars>>

Datagrams == {[bytes |-> IpPacket(Conf, UdpSegment(Conf, p)),
               size |-> Len(IpPacket(Conf, UdpSegment(Conf, p)))] : p \in Payloads}

Grouper == INSTANCE MscDataGroupGenerator WITH m_continuity_index <- group_index

Packer == INSTANCE PacketGenerator
            WITH Groups <- Grouper!Groups, kAddress <- Conf.packet_address

(* What stands for "none yet" is neither a datagram nor a group.           *)
ASSUME OutsidersAssumption ==
  NoDatagram \notin Datagrams /\ NoGroup \notin Grouper!Groups

-----------------------------------------------------------------------------
(* Numbers and the sets of bits of Crc16.                                  *)
Bits == [n \in 0 .. 255 |-> {i \in 0 .. 7 : (n \div 2^i) % 2 = 1}]

Number(b) == FoldFunction(+, 0, [i \in b |-> 2^i])

(* x | y on bytes.                                                         *)
Or(x, y) == Number(Bits[x] \cup Bits[y])

BitsOf(bytes) == [i \in DOMAIN bytes |-> Bits[bytes[i]]]

genCRC16_NotInverted(input) ==
  LET init == Register(BitsOf(input))
  IN  <<Number(HighByte(init)), Number(LowByte(init))>>

genCRC16(input) ==
  LET crc == Crc(BitsOf(input))
  IN  <<Number(crc[1]), Number(crc[2])>>

(* Extension, segmentation and user access flags are clear, the CRC flag   *)
(* is set; the type of the group is the first of kDataGroupTypes, zero.    *)
GroupHeader(g) == <<2^6, Or(Or(0, (g.continuity * 16) % 256), g.repetition)>>

GroupBytes(g) ==
  LET data == GroupHeader(g) \o g.datagram.bytes
  IN  data \o genCRC16(data)

LengthBits(length) ==
  CASE length = 96 -> 192 [] length = 72 -> 128 [] length = 48 -> 64 [] length = 24 -> 0

PacketHeader_SwapsFields(p) ==
  << Or(Or(Or(LengthBits(p.length), (p.continuity * 4) % 256), (p.first_last * 16) % 256),
        (Conf.packet_address \div 256) % 4),
     Conf.packet_address % 256,
     p.useful >>

PacketHeader(p) ==
  << Or(Or(Or(LengthBits(p.length), (p.continuity * 16) % 256), (p.first_last * 4) % 256),
        (Conf.packet_address \div 256) % 4),
     Conf.packet_address % 256,
     Or(0, p.useful) >>

PacketBytes(p, bytes) ==
  LET data == PacketHeader(p) \o SubSeq(bytes, p.data.from + 1, p.data.to)
              \o [i \in 1 .. p.padding |-> 0]
  IN  data \o genCRC16(data)

-----------------------------------------------------------------------------
Init ==
  /\ pc = "receive"
  /\ payload = <<>> /\ segment = <<>> /\ datagram = <<>>
  /\ group_bytes = <<>> /\ written = <<>> /\ taken = <<>>
  /\ calls = 0
  /\ Grouper!Init
  /\ Packer!Init

Goto(from, to) == pc = from /\ pc' = to

Receive(p) ==
  /\ Goto("receive", "udp")
  /\ calls < MaxPayloads
  /\ payload' = p
  /\ calls' = calls + 1
  /\ UNCHANGED <<segment, datagram, group_bytes, written, taken, grouperVars, packerVars>>

(* PDU::serialize(): the inner layer, then the outer one.                  *)
SerializeUdp ==
  /\ Goto("udp", "ip")
  /\ segment' = UdpSegment(Conf, payload)
  /\ UNCHANGED <<payload, datagram, group_bytes, written, taken, calls, grouperVars, packerVars>>

SerializeIp ==
  /\ Goto("ip", "group")
  /\ datagram' = IpPacket(Conf, segment)
  /\ UNCHANGED <<payload, segment, group_bytes, written, taken, calls, grouperVars, packerVars>>

BuildGroup ==
  /\ Goto("group", "split")
  /\ Grouper!Build([bytes |-> datagram, size |-> Len(datagram)])
  /\ group_bytes' = GroupBytes(group')
  /\ UNCHANGED <<payload, segment, datagram, written, taken, calls, packerVars>>

Split ==
  /\ Goto("split", "pack")
  /\ Packer!Build(group)
  /\ written' = <<>>
  /\ UNCHANGED <<payload, segment, datagram, group_bytes, taken, calls, grouperVars>>

(* Every invocation of build() appends its packet.                         *)
Pack ==
  /\ \/ Goto("pack", "pack") /\ Packer!BuildSplit
     \/ Goto("pack", "write") /\ Packer!BuildLast
  /\ written' = written \o PacketBytes(packets'[Len(packets')], group_bytes)
  /\ UNCHANGED <<payload, segment, datagram, group_bytes, taken, calls, grouperVars>>

Write ==
  /\ Goto("write", "receive")
  /\ taken' = written
  /\ UNCHANGED <<payload, segment, datagram, group_bytes, written, calls, grouperVars, packerVars>>

(* The bits are numbered in the order they are sent, the highest of a byte *)
(* first.  Only what the first call wrote is damaged (a bound: packets of  *)
(* a later call differ from it in their counters alone).                   *)
Flipped(bytes, positions) ==
  [i \in DOMAIN bytes |->
     Number(Xor(Bits[bytes[i]], {k \in 0 .. 7 : 8 * (i - 1) + 7 - k \in positions}))]

Damage(start, burst) ==
  /\ Goto("receive", "damaged")
  /\ calls = 1
  /\ LET positions == {start + o : o \in burst}
     IN  /\ positions \subseteq 0 .. 8 * Len(taken) - 1
         /\ taken' = Flipped(taken, positions)
  /\ UNCHANGED <<payload, segment, datagram, group_bytes, written, calls, grouperVars, packerVars>>

Next ==
  \/ \E p \in Payloads : Receive(p)
  \/ SerializeUdp \/ SerializeIp \/ BuildGroup \/ Split \/ Pack \/ Write
  \/ \E start \in 0 .. 8 * Len(taken) - 1, burst \in Bursts : Damage(start, burst)

Spec == Init /\ [][Next]_vars

-----------------------------------------------------------------------------
(* The receiver.  Each of these reads bytes by the layout of the format.   *)
At(bytes, i)  == 256 * bytes[i] + bytes[i + 1]
From(bytes, i) == SubSeq(bytes, i, Len(bytes))

(* The CRC of a packet or a group, its last two bytes.                     *)
CrcFits(bytes) == Verifies(BitsOf(bytes))

(* Packets follow each other; the first two bits of each tell its length.  *)
LengthAt(bytes, i) == 24 * (bytes[i] \div 64 + 1)

(* Where the first packet begins, the second, and so on; beyond the last   *)
(* packet, the end of the bytes over and over.                             *)
Starts(bytes) ==
  LET next == [n \in 1 .. Len(bytes) |->
                 [at \in Nat |-> IF at \in DOMAIN bytes THEN at + LengthAt(bytes, at) ELSE at]]
      start[n \in 0 .. Len(bytes)] == IF n = 0 THEN 1 ELSE next[n][start[n - 1]]
  IN  start

Frames(bytes) ==
  LET start == Starts(bytes)
      count == CHOOSE n \in DOMAIN start : /\ start[n] > Len(bytes)
                                           /\ \A m \in 0 .. n - 1 : start[m] <= Len(bytes)
  IN  [n \in 1 .. count |-> [from |-> start[n - 1], to |-> start[n] - 1]]

FrameBytes(bytes, f) == SubSeq(bytes, f.from, f.to)

PacketFields(b) ==
  [ continuity |-> (b[1] \div 16) % 4,
    first_last |-> (b[1] \div 4) % 4,
    address    |-> At(b, 1) % 1024,
    command    |-> b[3] \div 128,
    data       |-> SubSeq(b, 4, 3 + (b[3] % 128)) ]

GroupOf(bytes) ==
  LET fs == Frames(bytes)
      join == [n \in 1 .. Len(fs) |->
                 [before \in Seq(Octet) |->
                    before \o PacketFields(FrameBytes(bytes, fs[n])).data]]
      joined[n \in 0 .. Len(fs)] == IF n = 0 THEN <<>> ELSE join[n][joined[n - 1]]
  IN  joined[Len(fs)]

(* The big-endian words, an odd byte padded below, and their ones'         *)
(* complement sum.                                                         *)
BigSum(bytes) ==
  FoldFunction(+, 0, [i \in DOMAIN bytes |-> IF i % 2 = 1 THEN 256 * bytes[i] ELSE bytes[i]])

OnesSum(bytes) ==
  IF BigSum(bytes) = 0 THEN 0 ELSE 1 + ((BigSum(bytes) - 1) % 65535)

PseudoHeader(ip) == SubSeq(ip, 13, 20) \o <<0, ip[10]>> \o SubSeq(ip, 25, 26)

-----------------------------------------------------------------------------
(* The datagram is made of bytes, the lengths in it are those of its       *)
(* parts, both checksums verify, and the UDP checksum is never the zero    *)
(* that means there is none.                                               *)
ChecksumsVerify ==
  pc \in {"group", "split", "pack", "write"} =>
    /\ \A i \in DOMAIN datagram : datagram[i] \in Octet
    /\ At(datagram, 3) = Len(datagram)
    /\ At(datagram, 25) = Len(datagram) - 20
    /\ OnesSum(SubSeq(datagram, 1, 20)) = 65535
    /\ At(datagram, 27) # 0
    /\ OnesSum(PseudoHeader(datagram) \o From(datagram, 21)) = 65535

(* The group and each of its packets end in the CRC that polynomial        *)
(* division gives.                                                         *)
CrcsAreRemainders ==
  pc = "write" =>
    /\ CrcFits(group_bytes)
    /\ LET fs == Frames(written) IN
       \A i \in DOMAIN fs : fs[i].to <= Len(written) /\ CrcFits(FrameBytes(written, fs[i]))

(* A receiver that knows only the format gets the payload back: packets    *)
(* addressed to the configured component (an address of the documented     *)
(* interval; a larger one is cut to ten bits), flagged at both ends, that  *)
(* join to one data group, the datagram in which goes from the configured  *)
(* source to the configured destination.                                   *)
PayloadSurvives ==
  pc = "write" =>
    LET fs == Frames(written)
        p  == [i \in DOMAIN fs |-> PacketFields(FrameBytes(written, fs[i]))]
        g  == GroupOf(written)
        ip == SubSeq(g, 3, Len(g) - 2)
    IN  /\ \A i \in DOMAIN p :
             /\ p[i].address = Conf.packet_address
             /\ p[i].command = 0
             /\ p[i].first_last = (IF i = 1 THEN 2 ELSE 0) + (IF i = Len(p) THEN 1 ELSE 0)
             /\ i > 1 => p[i].continuity = (p[i - 1].continuity + 1) % 4
        /\ (p[Len(p)].continuity + 1) % 4 = m_continuity_index
        /\ g[1] = 64
        /\ g[2] = 16 * group_index + m_repetition_index
        /\ ip[1] = 69 /\ ip[10] = 17
        /\ SubSeq(ip, 13, 16) = Conf.source_address
        /\ SubSeq(ip, 17, 20) = Conf.destination_address
        /\ At(ip, 21) = Conf.source_port
        /\ At(ip, 23) = Conf.destination_port
        /\ From(ip, 29) = payload

(* Exactly the packets that a burst of at most sixteen bits has changed    *)
(* fail their CRC, wherever the burst falls: on the header, the data or    *)
(* the CRC, or across two packets.                                         *)
BurstIsNoticed ==
  pc = "damaged" =>
    LET fs == Frames(written) IN
      \A i \in DOMAIN fs :
        LET got == FrameBytes(taken, fs[i])
        IN  CrcFits(got) <=> got = FrameBytes(written, fs[i])
=============================================================================
