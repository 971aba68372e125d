------------------------------- MODULE Injector -------------------------------
(***************************************************************************)
(* The program of packager.cpp between the two things it talks to: the     *)
(* network, whose datagrams reach UDP port 4321, and the process that      *)
(* reads the packets from the FIFO /tmp/dabdata.                           *)
(*                                                                         *)
(* The program is one thread.  Its state is a program counter, the two     *)
(* generators wrap_data() keeps in static objects (the modules             *)
(* MscDataGroupGenerator and PacketGenerator, instantiated below) and the  *)
(* datagram it holds.  receive() opens a socket, takes one datagram and    *)
(* closes the socket again, so the program hears the network only while    *)
(* its program counter is at "receive".                                    *)
(*                                                                         *)
(* The network, the kernel's buffers and the reader are not part of the    *)
(* repository; they are modelled as far as the program's use of them       *)
(* shows.  The ghost variables `arrived' and `received' number what        *)
(* arrived and what receive() returned.                                    *)
(***************************************************************************)
EXTENDS Integers, Sequences, FiniteSets, Functions

CONSTANTS
  Payloads,      \* [head, size]: what a datagram carries; head stands for the
                 \* bytes up to kBufferSize, two payloads with one head agree there
  NoPayload,     \* the program holds no datagram
  NoDatagram, NoGroup,
  PacketAddress, \* configuration_t::packet_address
  SocketCap,     \* datagrams the socket's receive buffer takes
  PipeCap,       \* packets the pipe takes
  MaxArrivals,   \* bound on the datagrams that arrive
  MaxCloses      \* bound on how often the reader goes away

ASSUME PayloadsAssumption ==
  \A p \in Payloads : p.size \in Nat /\ DOMAIN p = {"head", "size"}

ASSUME AddressAssumption == PacketAddress \in Nat /\ PacketAddress < 65536

ASSUME BoundsAssumption ==
  /\ SocketCap \in Nat \ {0}
  /\ PipeCap \in Nat \ {0}
  /\ MaxArrivals \in Nat
  /\ MaxCloses \in Nat

VARIABLES
  pc,                 \* where main() is
  addresses_parse,    \* both configured addresses are dotted quads
  is_pipe,            \* /tmp/dabdata is a FIFO
  fifo,               \* the ofstream: "closed", "pipe", or "nopipe" when the path
                      \* could not be opened or named a regular file
  held,               \* the string receive() returned, until it is written
  m_last_ip_datagram, group_index, m_repetition_index, group,       \* grouper
  m_first_last, m_continuity_index, building, rest, packets,        \* packer
  arrived,            \* ghost: the payloads that arrived, in that order
  socket_buffer,      \* the kernel's buffer of the open socket: indices in arrived
  received,           \* ghost: the indices receive() returned, in that order
  pipe,               \* packets in the pipe, each with the number of its datagram
  reading,            \* some process has the FIFO open for reading
  closes,             \* ghost: how often it went away
  hunting,            \* the reader has not seen the start of a group yet
  heard,              \* continuity index of the last packet it took, -1 at first
  partial,            \* packets of the group it is rebuilding
  rebuilt,            \* the groups it has rebuilt
  confused            \* a packet did not continue the stream

mainVars    == <<pc, addresses_parse, is_pipe, fifo, held>>
grouperVars == <<m_last_ip_datagram, group_index, m_repetition_index, group>>
packerVars  == <<m_first_last, m_continuity_index, building, rest, packets>>
netVars     == <<arrived, socket_buffer, received>>
readerVars  == <<reading, closes, hunting, heard, partial, rebuilt, confused>>
vars == <<mainVars, grouperVars, packerVars, netVars, pipe, readerVars>>

-----------------------------------------------------------------------------
kBufferSize == 1024

(* Mutated form; no run or theorem of the project uses it.                 *)
Cut_Nothing(p) == p

(* receive_from() fills a fixed buffer; the rest of a longer datagram is   *)
(* gone without an error.                                                  *)
Cut(p) == [p EXCEPT !.size = IF p.size > kBufferSize THEN kBufferSize ELSE p.size]

(* The serialised IP datagram: 20 bytes of IP header and 8 of UDP before   *)
(* the payload.  Addresses and ports are the same for every datagram and   *)
(* so is the identification Tins::IP starts with, so equal payloads make   *)
(* equal datagrams.                                                        *)
Datagram(p) == [payload |-> p, size |-> 20 + 8 + p.size]

Datagrams == {Datagram(Cut(p)) : p \in Payloads}

Grouper == INSTANCE MscDataGroupGenerator WITH m_continuity_index <- group_index

Packer == INSTANCE PacketGenerator
            WITH Groups <- Grouper!Groups, kAddress <- PacketAddress

ASSUME OutsidersAssumption ==
  /\ NoPayload \notin {Cut(p) : p \in Payloads}
  /\ NoDatagram \notin Datagrams
  /\ NoGroup \notin Grouper!Groups

-----------------------------------------------------------------------------
Init ==
  /\ pc = "config"
  /\ addresses_parse \in BOOLEAN
  /\ is_pipe \in BOOLEAN
  /\ fifo = "closed"
  /\ held = NoPayload
  /\ Grouper!Init
  /\ Packer!Init
  /\ arrived = <<>> /\ socket_buffer = <<>> /\ received = <<>>
  /\ pipe = <<>>
  /\ reading = FALSE /\ closes = 0
  /\ hunting = TRUE /\ heard = -1 /\ partial = <<>> /\ rebuilt = <<>> /\ confused = FALSE

Goto(from, to) == pc = from /\ pc' = to

(* The program ends.  Its socket goes with what is queued, and so does     *)
(* what is in the pipe, unless a reader still has the other end.           *)
End(from, how) ==
  /\ Goto(from, how)
  /\ socket_buffer' = <<>>
  /\ pipe' = IF reading THEN pipe ELSE <<>>
  /\ UNCHANGED <<addresses_parse, is_pipe, fifo, held, arrived, received>>
  /\ UNCHANGED <<grouperVars, packerVars, readerVars>>

(* INIReader finds a file it can parse, or main() returns 1.               *)
ReadConfig ==
  /\ Goto("config", "open")
  /\ UNCHANGED <<addresses_parse, is_pipe, fifo, held>>
  /\ UNCHANGED <<grouperVars, packerVars, netVars, pipe, readerVars>>

ConfigError == End("config", "exited")

(* Opening a FIFO for writing waits for a reader; anything else opens, or  *)
(* fails, at once, and main() does not ask which.                          *)
OpenFifo ==
  /\ Goto("open", "bind")
  /\ \/ is_pipe /\ reading /\ fifo' = "pipe"
     \/ ~is_pipe /\ fifo' = "nopipe"
  /\ UNCHANGED <<addresses_parse, is_pipe, held>>
  /\ UNCHANGED <<grouperVars, packerVars, netVars, pipe, readerVars>>

(* receive() constructs its socket: it is bound, with nothing queued, or   *)
(* the constructor throws (the port is taken) and main() ends.             *)
Bind ==
  /\ Goto("bind", "receive")
  /\ UNCHANGED <<addresses_parse, is_pipe, fifo, held>>
  /\ UNCHANGED <<grouperVars, packerVars, netVars, pipe, readerVars>>

BindThrows == End("bind", "exited")

(* Mutated form; no run or theorem of the project uses it.                 *)
QueueAfterReceive_Same(buffer) == buffer

(* What is still queued when receive() returns goes with the socket.       *)
QueueAfterReceive(buffer) == <<>>

Receive ==
  /\ Goto("receive", "wrap")
  /\ socket_buffer # <<>>
  /\ held' = Cut(arrived[Head(socket_buffer)])
  /\ received' = Append(received, Head(socket_buffer))
  /\ socket_buffer' = QueueAfterReceive(socket_buffer)
  /\ UNCHANGED <<addresses_parse, is_pipe, fifo, arrived>>
  /\ UNCHANGED <<grouperVars, packerVars, pipe, readerVars>>

(* receive_from() reports an error of the socket instead, in the overload  *)
(* that throws, and main() ends.                                           *)
ReceiveThrows == End("receive", "exited")

(* wrap_data(): the datagram is built and handed to the grouper, or the    *)
(* constructor of an address throws and main() ends.                       *)
Wrap ==
  /\ Goto("wrap", "split")
  /\ addresses_parse
  /\ Grouper!Build(Datagram(held))
  /\ UNCHANGED <<addresses_parse, is_pipe, fifo, held>>
  /\ UNCHANGED <<packerVars, netVars, pipe, readerVars>>

AddressThrows == ~addresses_parse /\ End("wrap", "exited")

(* The packer is called, and runs its recursion down.                      *)
Split ==
  /\ Goto("split", "pack")
  /\ Packer!Build(group)
  /\ UNCHANGED <<addresses_parse, is_pipe, fifo, held>>
  /\ UNCHANGED <<grouperVars, netVars, pipe, readerVars>>

Pack ==
  /\ \/ Goto("pack", "pack") /\ Packer!BuildSplit
     \/ Goto("pack", "write") /\ Packer!BuildLast
  /\ UNCHANGED <<addresses_parse, is_pipe, fifo, held>>
  /\ UNCHANGED <<grouperVars, netVars, pipe, readerVars>>

(* The packets of one datagram leave in one write(): it is short enough    *)
(* for the kernel to put it into the pipe as a whole (BurstIsAtomic), and  *)
(* waits for room.  Without a pipe the stream takes them, or is in a       *)
(* failed state and ignores them; main() looks at neither.                 *)
Burst == [i \in 1 .. Len(packets) |-> [packet |-> packets[i], number |-> Len(received)]]

Write ==
  /\ Goto("write", "bind")
  /\ \/ /\ fifo = "pipe" /\ reading
        /\ Len(pipe) + Len(packets) <= PipeCap
        /\ pipe' = pipe \o Burst
     \/ /\ fifo = "nopipe"
        /\ UNCHANGED pipe
  /\ held' = NoPayload
  /\ UNCHANGED <<addresses_parse, is_pipe, fifo>>
  /\ UNCHANGED <<grouperVars, packerVars, netVars, readerVars>>

(* Writing to a pipe nobody reads raises SIGPIPE, which main() leaves at   *)
(* its default.                                                            *)
BrokenPipe ==
  /\ fifo = "pipe" /\ ~reading
  /\ End("write", "killed")

Main ==
  \/ ReadConfig \/ ConfigError \/ OpenFifo \/ Bind \/ BindThrows \/ Receive
  \/ Wrap \/ AddressThrows \/ Split \/ Pack \/ Write \/ BrokenPipe

-----------------------------------------------------------------------------
(* The surroundings.                                                       *)

(* A datagram reaches the port.  It is queued when a socket is open and    *)
(* has room, and dropped otherwise.                                        *)
Arrive(p) ==
  /\ Len(arrived) < MaxArrivals
  /\ arrived' = Append(arrived, p)
  /\ socket_buffer' = IF pc = "receive" /\ Len(socket_buffer) < SocketCap
                      THEN Append(socket_buffer, Len(arrived) + 1)
                      ELSE socket_buffer
  /\ UNCHANGED <<received, mainVars, grouperVars, packerVars, pipe, readerVars>>

ReaderOpens ==
  /\ ~reading
  /\ reading' = TRUE
  /\ UNCHANGED <<closes, hunting, heard, partial, rebuilt, confused>>
  /\ UNCHANGED <<mainVars, grouperVars, packerVars, netVars, pipe>>

(* The reader goes away, with what it had of a group.  The pipe keeps its  *)
(* packets while the program has it open, and is emptied otherwise.        *)
ReaderCloses ==
  /\ reading
  /\ closes < MaxCloses
  /\ reading' = FALSE
  /\ closes' = closes + 1
  /\ hunting' = TRUE
  /\ heard' = -1
  /\ partial' = <<>>
  /\ pipe' = IF pc \in {"exited", "killed"} THEN <<>> ELSE pipe
  /\ UNCHANGED <<rebuilt, confused>>
  /\ UNCHANGED <<mainVars, grouperVars, packerVars, netVars>>

Starts(p) == p.first_last \in {2, 3}
Ends(p)   == p.first_last \in {1, 3}

(* p comes right after the packet heard before it, and starts a group      *)
(* exactly when none is being rebuilt.                                     *)
Continues(p) ==
  /\ heard >= 0 => p.continuity = (heard + 1) % 4
  /\ Starts(p) <=> partial = <<>>

(* The useful data of ps, joined, is the data group g.                     *)
Joins(ps, g) ==
  /\ \A i \in 1 .. Len(ps) :
       /\ ps[i].data.group = g
       /\ ps[i].data.from = IF i = 1 THEN 0 ELSE ps[i - 1].data.to
  /\ ps[Len(ps)].data.to = g.size

ReaderTakes ==
  /\ reading
  /\ pipe # <<>>
  /\ LET p    == Head(pipe).packet
         ps   == Append(partial, p)
         skip == hunting /\ ~Starts(p)
     IN  /\ heard' = p.continuity
         /\ hunting' = skip
         /\ \/ skip /\ UNCHANGED <<partial, rebuilt, confused>>
            \/ /\ ~skip /\ ~Ends(p)
               /\ partial' = ps
               /\ confused' = (confused \/ ~Continues(p))
               /\ UNCHANGED rebuilt
            \/ /\ ~skip /\ Ends(p)
               /\ partial' = <<>>
               /\ confused' = (confused \/ ~Continues(p) \/ ~Joins(ps, p.data.group))
               /\ rebuilt' = Append(rebuilt, [group  |-> p.data.group,
                                              number |-> Head(pipe).number])
  /\ pipe' = Tail(pipe)
  /\ UNCHANGED <<reading, closes, mainVars, grouperVars, packerVars, netVars>>

Environment ==
  \/ \E p \in Payloads : Arrive(p)
  \/ ReaderOpens
  \/ ReaderCloses
  \/ ReaderTakes

Next == Main \/ ReceiveThrows \/ Environment

(* The thread of main() runs when it can; a reader that has the FIFO open  *)
(* goes on reading.  Nothing is assumed about the network, nor that a      *)
(* reader ever comes or stays, nor that a socket that waits ever fails.    *)
Fairness == WF_vars(Main) /\ WF_vars(ReaderTakes)

Spec     == Init /\ [][Next]_vars
FairSpec == Spec /\ Fairness

-----------------------------------------------------------------------------
Tagged == [packet : Packer!Packet, number : 1 .. MaxArrivals]

TypeOK ==
  /\ pc \in {"config", "open", "bind", "receive", "wrap", "split", "pack", "write",
             "exited", "killed"}
  /\ addresses_parse \in BOOLEAN /\ is_pipe \in BOOLEAN
  /\ fifo \in {"closed", "pipe", "nopipe"}
  /\ held \in {Cut(p) : p \in Payloads} \cup {NoPayload}
  /\ Grouper!TypeOK
  /\ Packer!TypeOK
  /\ arrived \in Seq(Payloads)
  /\ socket_buffer \in Seq(1 .. Len(arrived)) /\ Len(socket_buffer) <= SocketCap
  /\ received \in Seq(1 .. Len(arrived))
  /\ pipe \in Seq(Tagged) /\ Len(pipe) <= PipeCap
  /\ reading \in BOOLEAN /\ closes \in 0 .. MaxCloses
  /\ hunting \in BOOLEAN /\ confused \in BOOLEAN
  /\ heard \in -1 .. 3
  /\ partial \in Seq(Packer!Packet)
  /\ rebuilt \in Seq([group : Grouper!Groups, number : 1 .. MaxArrivals])

Ended == pc \in {"exited", "killed"}

(* Whatever datagrams come, and whenever a reader joins, the packets it    *)
(* takes from the pipe count on without a gap, start and end data groups   *)
(* in turn, and join to the data groups that were built.                   *)
ReaderNeverConfused == ~confused

(* A datagram that receive() returned is not lost inside: as long as the   *)
(* FIFO is a pipe whose reader has stayed, the groups rebuilt, those whose *)
(* last packet is in the pipe and the one the program holds are all that   *)
(* were received, one each and in order.                                   *)
InPipe == {i \in 1 .. Len(pipe) : Ends(pipe[i].packet)}

NothingLostInside ==
  fifo = "pipe" /\ closes = 0 =>
    /\ \A i \in 1 .. Len(rebuilt) : rebuilt[i].number = i
    /\ Len(received) = Len(rebuilt) + Cardinality(InPipe)
                         + (IF held = NoPayload THEN 0 ELSE 1)

(* Of two datagrams received one after the other, the second's data group  *)
(* has the continuity index of the first exactly when it carries the same  *)
(* payload: only then may a receiver take it for a repetition.             *)
RepetitionTold ==
  \A i \in 2 .. Len(rebuilt) :
    rebuilt[i].number = rebuilt[i - 1].number + 1 =>
      (rebuilt[i].group.continuity = rebuilt[i - 1].group.continuity
         <=> rebuilt[i].group.datagram.payload = rebuilt[i - 1].group.datagram.payload)

(* What one datagram makes is at most the 4096 bytes (PIPE_BUF) that a     *)
(* pipe takes as a whole or not at all: the reader never finds part of a   *)
(* datagram's packets in the pipe because the program was killed amid a    *)
(* write.                                                                  *)
BurstBytes == FoldFunction(+, 0, [i \in 1 .. Len(packets) |-> packets[i].length])

BurstIsAtomic == pc = "write" => BurstBytes <= 4096

(* The injector is a datagram relay: what the reader rebuilds are payloads *)
(* that arrived, cut to the buffer, in the order of their arrival, each at *)
(* most once.                                                              *)
Relay == INSTANCE DatagramRelay
           WITH last <- IF rebuilt = <<>> THEN 0
                        ELSE received[rebuilt[Len(rebuilt)].number],
                out  <- [i \in 1 .. Len(rebuilt) |-> rebuilt[i].group.datagram.payload]

RelaySpec == Relay!Spec

(* The program hears the network again and again, unless it has ended or   *)
(* still waits for the first reader of its FIFO.                           *)
ListensAgain == []<>(pc = "receive" \/ Ended \/ pc = "open")

(* A datagram received with the FIFO a pipe reaches the reader, unless     *)
(* the program ends while it holds it or the reader goes away.             *)
ReceivedComesOut ==
  \A k \in 1 .. MaxArrivals :
    fifo = "pipe" /\ Len(received) >= k
      ~> \/ \E i \in 1 .. Len(rebuilt) : rebuilt[i].number = k
         \/ Ended /\ held # NoPayload
         \/ closes > 0
=============================================================================
