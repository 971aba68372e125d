-------------------------------- MODULE IpUdp --------------------------------
(***************************************************************************)
(* What libtins makes of                                                   *)
(*   Tins::IP{destination, source} / Tins::UDP{dport, sport} /             *)
(*   Tins::RawPDU{data}                                                    *)
(* when it is serialised: the innermost layer first, each layer filling in *)
(* its length, writing its header with a checksum of zero, and then        *)
(* putting the checksum over it.                                           *)
(*                                                                         *)
(* A byte is a number.  The code sums 16-bit words in the byte order of    *)
(* the machine, which is little-endian here, and stores the sum the same   *)
(* way; lengths and ports are big-endian.                                  *)
(***************************************************************************)
EXTENDS Integers, Sequences, Functions

Octet  == 0 .. 255
Word16 == 0 .. 65535

(* host_to_be() of a 16-bit number, and the number as it lies in memory.   *)
BigEndian(n) == <<(n \div 256) % 256, n % 256>>
LittleEndian_Unreduced(n) == <<n, n \div 256>>

LittleEndian(n) == <<n % 256, n \div 256>>

Swapped(n) == 256 * (n % 256) + (n \div 256)

(* The loop "while (checksum >> 16)": two turns are enough for 32 bits.    *)
Folded(sum) ==
  LET once(n) == (n % 65536) + n \div 65536
  IN  once(once(sum))

(* The bytes as little-endian words, an odd last byte as a word of its own.*)
WordSum(bytes) ==
  FoldFunction(+, 0, [i \in DOMAIN bytes |-> IF i % 2 = 1 THEN bytes[i] ELSE 256 * bytes[i]])

sum_range(bytes) == Folded(WordSum(bytes))

(* The swap of the 32-bit sum leaves it in the upper half, from where the  *)
(* folding that follows brings it down.                                    *)
do_checksum(bytes) == Swapped(sum_range(bytes))

PROTO_UDP   == 17
DEFAULT_TTL == 128

pseudoheader_checksum(saddr, daddr, len, flag) ==
  WordSum(saddr \o daddr \o BigEndian(flag) \o BigEndian(len))

-----------------------------------------------------------------------------
(* UDP::write_serialization().  A checksum of zero would say "none", and   *)
(* is sent as its other representation.                                    *)
UdpChecksum_MayBeZero(sum) == 65535 - Folded(sum)

UdpChecksum(sum) ==
  LET check == 65535 - Folded(sum)
  IN  IF check = 0 THEN 65535 ELSE check

UdpSegment(conf, data) ==
  LET size   == 8 + Len(data)
      ports  == BigEndian(conf.source_port) \o BigEndian(conf.destination_port)
      before == ports \o BigEndian(size % 65536)
      sum    == pseudoheader_checksum(conf.source_address, conf.destination_address,
                                      size % 65536, PROTO_UDP)
                + sum_range(before \o <<0, 0>> \o data)
  IN  before \o LittleEndian(UdpChecksum(sum)) \o data

(* IP::write_serialization() of a datagram without options; fragment       *)
(* offset and type of service keep the zero of init_ip_fields(), the       *)
(* identification its one.                                                 *)
IpPacket(conf, segment) ==
  LET before == <<4 * 16 + 5, 0>> \o BigEndian((20 + Len(segment)) % 65536) \o <<0, 1, 0, 0>>
                \o <<DEFAULT_TTL, PROTO_UDP>>
      after  == conf.source_address \o conf.destination_address
      check  == 65535 - do_checksum(before \o <<0, 0>> \o after)
  IN  before \o BigEndian(check) \o after \o segment
=============================================================================
