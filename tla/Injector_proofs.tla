--------------------------- MODULE Injector_proofs ---------------------------
(***************************************************************************)
(* Proofs about the whole injector, for every set of payloads, every size  *)
(* of the kernel's buffers and every order of arrivals, writes and         *)
(* readers: a reader is never confused, nothing that was received is lost  *)
(* inside, a repetition shows as one, and the program is a datagram relay. *)
(*                                                                         *)
(* What the two generators do is taken from the proofs about them.  The    *)
(* argument here is about the stream of packets from the one the reader    *)
(* took last over those in the pipe to the one that will be built next.    *)
(***************************************************************************)
EXTENDS Injector, SumTheorems, SequenceTheorems, FiniteSetTheorems, TLAPS

PP == INSTANCE PacketGenerator_proofs
        WITH Groups <- Grouper!Groups, kAddress <- PacketAddress

GP == INSTANCE MscDataGroupGenerator_proofs WITH m_continuity_index <- group_index

-----------------------------------------------------------------------------
(* The types of what is not in the generators.                             *)
OwnTypes ==
  /\ pc \in {"config", "open", "bind", "receive", "wrap", "split", "pack", "write",
             "exited", "killed"}
  /\ addresses_parse \in BOOLEAN /\ is_pipe \in BOOLEAN
  /\ fifo \in {"closed", "pipe", "nopipe"}
  /\ held \in {Cut(p) : p \in Payloads} \cup {NoPayload}
  /\ arrived \in Seq(Payloads)
  /\ socket_buffer \in Seq(1 .. Len(arrived)) /\ Len(socket_buffer) <= SocketCap
  /\ received \in Seq(1 .. Len(arrived))
  /\ pipe \in Seq(Tagged) /\ Len(pipe) <= PipeCap
  /\ reading \in BOOLEAN /\ closes \in 0 .. MaxCloses
  /\ hunting \in BOOLEAN /\ confused \in BOOLEAN
  /\ heard \in -1 .. 3
  /\ partial \in Seq(Packer!Packet)
  /\ rebuilt \in Seq([group : Grouper!Groups, number : 1 .. MaxArrivals])

(* The datagrams of which everything was written.                          *)
Written == Len(received) - (IF held = NoPayload THEN 0 ELSE 1)

(* What the program holds, by where main() is.                             *)
MainState ==
  /\ pc \in {"config", "open", "bind", "receive"} => held = NoPayload
  /\ pc \in {"wrap", "split", "pack", "write"} => held # NoPayload
  /\ building <=> pc = "pack"
  /\ pc \in {"split", "pack", "write"} => group # NoGroup /\ group.datagram = Datagram(held)
  /\ pc \in {"pack", "write"} => rest.group = group /\ rest.to = group.size
  /\ pc = "write" => packets # <<>>

(* Before the FIFO is open nothing was received, and only a FIFO has       *)
(* packets in it or a reader that heard some.                              *)
FifoState ==
  /\ pc \in {"config", "open"} => fifo = "closed"
  /\ fifo = "closed" =>
       pc \in {"config", "open", "exited"} /\ received = <<>> /\ rebuilt = <<>>
  /\ fifo # "pipe" => pipe = <<>> /\ heard = -1

(* Datagrams are received in the order of their arrival.                   *)
NetOrder ==
  /\ Len(arrived) <= MaxArrivals
  /\ \A i \in 1 .. Len(received) : received[i] >= i
  /\ \A i, j \in 1 .. Len(received) : i < j => received[i] < received[j]
  /\ \A i \in 1 .. Len(received), j \in 1 .. Len(socket_buffer) :
       received[i] < socket_buffer[j]
  /\ held # NoPayload => received # <<>> /\ held = Cut(arrived[received[Len(received)]])

(* What a packet is that comes right after another one.                    *)
Follows(a, b) ==
  /\ b.packet.continuity = (a.packet.continuity + 1) % 4
  /\ Ends(a.packet) => Starts(b.packet) /\ b.number = a.number + 1
  /\ ~Ends(a.packet) =>
       /\ ~Starts(b.packet)
       /\ b.number = a.number
       /\ b.packet.data.group = a.packet.data.group
       /\ b.packet.data.from = a.packet.data.to

(* The pipe holds packets that follow each other, up to the end of a group.*)
PipeStream ==
  /\ \A i \in 1 .. Len(pipe) :
       /\ pipe[i].packet.data.group \in Grouper!Groups
       /\ Starts(pipe[i].packet) => pipe[i].packet.data.from = 0
       /\ Ends(pipe[i].packet) => pipe[i].packet.data.to = pipe[i].packet.data.group.size
  /\ \A i \in 2 .. Len(pipe) : Follows(pipe[i - 1], pipe[i])
  /\ pipe # <<>> => Ends(pipe[Len(pipe)].packet)

(* The datagrams in the pipe are later ones than those rebuilt, in order,  *)
(* up to the one written last.                                             *)
PipeNumbers ==
  /\ \A i \in 1 .. Len(pipe) : pipe[i].number \in 1 .. Written
  /\ \A i, j \in 1 .. Len(pipe) :
       i < j => /\ pipe[i].number <= pipe[j].number
                /\ Ends(pipe[i].packet) => pipe[i].number < pipe[j].number
  /\ pipe # <<>> => pipe[Len(pipe)].number = Written
  /\ \A i \in 1 .. Len(rebuilt), j \in 1 .. Len(pipe) : rebuilt[i].number < pipe[j].number

(* The continuity index of the packet that will be written next.           *)
NextWritten ==
  IF pc \in {"pack", "write"} /\ packets # <<>> THEN packets[1].continuity ELSE m_continuity_index

(* The reader has the start of a group whose next packet is at the head of *)
(* the pipe, or none and what comes is a start; unless it joined the       *)
(* stream somewhere, which it can only after it went away once.            *)
ReaderPartial ==
  /\ hunting => partial = <<>>
  /\ partial # <<>> => pipe # <<>>
  /\ \A i \in 1 .. Len(partial) :
       /\ partial[i].data.group = partial[1].data.group
       /\ partial[i].data.from = IF i = 1 THEN 0 ELSE partial[i - 1].data.to
  /\ partial # <<>> =>
       /\ pipe[1].packet.data.group = partial[1].data.group
       /\ pipe[1].packet.data.from = partial[Len(partial)].data.to
  /\ pipe # <<>> /\ (~hunting \/ closes = 0) => (Starts(pipe[1].packet) <=> partial = <<>>)

ReaderHeard ==
  /\ pipe # <<>> /\ heard >= 0 => pipe[1].packet.continuity = (heard + 1) % 4
  /\ ~Ended /\ pipe = <<>> /\ heard >= 0 => NextWritten = (heard + 1) % 4
  /\ ~Ended /\ pipe # <<>> => NextWritten = (pipe[Len(pipe)].packet.continuity + 1) % 4

(* The numbers of datagrams with the groups made of them, as the reader    *)
(* has them or will.                                                       *)
Records ==
  {<<rebuilt[i].number, rebuilt[i].group>> : i \in 1 .. Len(rebuilt)}
    \cup {<<pipe[i].number, pipe[i].packet.data.group>> : i \in 1 .. Len(pipe)}

Tells(g, h) == h.continuity = g.continuity <=> h.datagram.payload = g.datagram.payload

RecordsTrue ==
  \A r \in Records :
    /\ r[1] \in 1 .. Written
    /\ r[2] \in Grouper!Groups
    /\ r[2].datagram = Datagram(Cut(arrived[received[r[1]]]))

RecordsTell ==
  /\ \A r, s \in Records : s[1] = r[1] + 1 => Tells(r[2], s[2])
  /\ ~Ended =>
       \A r \in Records :
         r[1] = Written => IF pc \in {"split", "pack", "write"} THEN Tells(r[2], group)
                           ELSE r[2] = group

Counted ==
  fifo = "pipe" /\ closes = 0 =>
    /\ \A i \in 1 .. Len(rebuilt) : rebuilt[i].number = i
    /\ Written = Len(rebuilt) + Cardinality(InPipe)
    /\ pipe # <<>> => pipe[1].number = Len(rebuilt) + 1

(* A reader that has gone away, or has not come, keeps nothing; and the    *)
(* FIFO of a program that has it open had a reader.                        *)
ReaderAway ==
  ~reading => /\ hunting /\ heard = -1 /\ partial = <<>>
              /\ fifo = "pipe" => closes > 0

Inv ==
  /\ OwnTypes
  /\ PP!Inv
  /\ GP!Inv
  /\ MainState
  /\ FifoState
  /\ NetOrder
  /\ PipeStream
  /\ PipeNumbers
  /\ ReaderPartial
  /\ ReaderHeard
  /\ RecordsTrue
  /\ RecordsTell
  /\ Counted
  /\ ~confused

-----------------------------------------------------------------------------
(* The generators, with what is proved of them.                            *)

LEMMA DatagramsHaveSize == \A d \in Datagrams : d.size \in Nat
<1> SUFFICES ASSUME NEW p \in Payloads PROVE Datagram(Cut(p)).size \in Nat
  BY DEF Datagrams
<1>1. Cut(p).size \in Nat
  BY PayloadsAssumption DEF Cut, kBufferSize
<1> QED
  BY <1>1 DEF Datagram

(* Groups have sizes and are not the value for none.                       *)
LEMMA GroupsHaveSize ==
  (\A g \in Grouper!Groups : g.size \in Nat) /\ NoGroup \notin Grouper!Groups
BY OutsidersAssumption DEF Grouper!Groups

(* The group generator starts in its own invariant.                        *)
LEMMA GrouperInit == Grouper!Init => GP!Inv
<1>1. Grouper!Init => GP!Init
  BY DEF Grouper!Init, GP!Init
<1> QED
  BY <1>1, DatagramsHaveSize, OutsidersAssumption, GP!InitInv

(* What wrap_data() knows of a data group it had built.                    *)
LEMMA GrouperBuild ==
  ASSUME GP!Inv, NEW d \in Datagrams, Grouper!Build(d)
  PROVE  GP!Inv' /\ group' \in Grouper!Groups /\ group'.datagram = d
<1>1. GP!Build(d)
  BY DEF Grouper!Build, GP!Build, Grouper!NextIndex, GP!NextIndex, Grouper!Remember,
         GP!Remember, Grouper!Group, GP!Group
<1>2. GP!Inv'
  <2>1. GP!Next
    BY <1>1 DEF GP!Next
  <2> QED
    BY <2>1, DatagramsHaveSize, OutsidersAssumption, GP!NextInv
<1>3. group'.datagram = d
  BY <1>1 DEF GP!Build, GP!Group
<1>4. group' # NoGroup /\ group' \in GP!Groups \cup {NoGroup}
  <2>1. group' \in GP!Groups \cup {NoGroup}
    BY <1>2 DEF GP!Inv, GP!TypeOK
  <2>2. group' # NoGroup
    <3>1. group'.size = 2 + d.size + 2 /\ group'.continuity = group_index' /\ group'.repetition = m_repetition_index'
      BY <1>1 DEF GP!Build, GP!Group
    <3>2. group' \in GP!Groups
      BY <1>1, <1>2, DatagramsHaveSize DEF GP!Build, GP!Group, GP!Groups, GP!Inv, GP!TypeOK
    <3> QED
      BY <3>2, OutsidersAssumption DEF GP!Groups, Grouper!Groups
  <2> QED
    BY <2>1, <2>2
<1> QED
  BY <1>2, <1>3, <1>4 DEF GP!Groups, Grouper!Groups

(* The group built next tells a repetition of the one built last.          *)
LEMMA GrouperTells ==
  ASSUME GP!Inv, NEW d \in Datagrams, Grouper!Build(d), group # NoGroup
  PROVE  group'.continuity = group.continuity <=> group'.datagram = group.datagram
<1>1. GP!Build(d)
  BY DEF Grouper!Build, GP!Build, Grouper!NextIndex, GP!NextIndex, Grouper!Remember,
         GP!Remember, Grouper!Group, GP!Group
<1>2. IF group'.datagram = group.datagram
      THEN group'.continuity = group.continuity
      ELSE group'.continuity = IF group.continuity = 15 THEN 0 ELSE group.continuity + 1
  BY <1>1, DatagramsHaveSize, OutsidersAssumption, GP!BuildTells
<1>3. group.continuity \in 0 .. 15
  BY DEF GP!Inv, GP!TypeOK, GP!Groups
<1> QED
  BY <1>2, <1>3

(* The module of the packer is instantiated twice, by Injector and here    *)
(* with the proofs about it; both mean the same.                           *)
LEMMA PackerSame ==
  /\ Packer!Init => PP!Init
  /\ \A g : Packer!Build(g) => PP!Build(g)
  /\ Packer!BuildSplit => PP!BuildSplit
  /\ Packer!BuildLast => PP!BuildLast
  /\ PP!TypeOK => Packer!TypeOK
<1> USE DEF Packer!NeedsSplit, PP!NeedsSplit, Packer!SizeOf, PP!SizeOf,
      Packer!SplitFirstLast, PP!SplitFirstLast, Packer!LastFirstLast, PP!LastFirstLast,
      Packer!kPacketDataLengths, PP!kPacketDataLengths, Packer!kPacketLengths,
      PP!kPacketLengths, Packer!Assemble, PP!Assemble, Packer!SplitHead, PP!SplitHead,
      Packer!SplitTail, PP!SplitTail, Packer!LastLength, PP!LastLength,
      Packer!NextContinuity, PP!NextContinuity, Packer!LastOfGroup, PP!LastOfGroup,
      Packer!OneAndOnly, PP!OneAndOnly, Packer!FirstOfGroup, PP!FirstOfGroup,
      Packer!Intermediate, PP!Intermediate
<1>1. Packer!Init => PP!Init
  BY DEF Packer!Init, PP!Init
<1>2. \A g : Packer!Build(g) => PP!Build(g)
  BY DEF Packer!Build, PP!Build
<1>3. Packer!BuildSplit => PP!BuildSplit
  BY Zenon DEF Packer!BuildSplit, PP!BuildSplit
<1>4. Packer!BuildLast => PP!BuildLast
  BY Zenon DEF Packer!BuildLast, PP!BuildLast
<1>5. PP!TypeOK => Packer!TypeOK
  BY DEF PP!TypeOK, Packer!TypeOK, PP!Slice, Packer!Slice, PP!Packet, Packer!Packet
<1> QED
  BY <1>1, <1>2, <1>3, <1>4, <1>5

(* The packet generator starts in its own invariant.                       *)
LEMMA PackerInit == Packer!Init => PP!Inv
BY PackerSame, GroupsHaveSize, AddressAssumption, PP!InitInv

(* A call of the packet generator starts with the whole group and no       *)
(* packets.                                                                *)
LEMMA PackerBuild ==
  ASSUME PP!Inv, NEW g \in Grouper!Groups, Packer!Build(g)
  PROVE  /\ PP!Inv' /\ building' /\ packets' = <<>>
         /\ rest'.group = g /\ rest'.to = g.size
         /\ m_continuity_index' = m_continuity_index
<1>1. PP!Build(g)
  BY PackerSame
<1>2. PP!Next
  BY <1>1 DEF PP!Next
<1>3. PP!Inv'
  BY <1>2, GroupsHaveSize, AddressAssumption, PP!NextInv
<1> QED
  BY <1>1, <1>3 DEF PP!Build

(* Both kinds of invocation add one packet, and the first one that is      *)
(* added has the continuity index the generator held.                      *)
LEMMA PackerInvocation ==
  ASSUME PP!Inv, Packer!BuildSplit \/ Packer!BuildLast
  PROVE  /\ PP!Inv' /\ packets' # <<>>
         /\ rest'.group = rest.group /\ rest'.to = rest.to
         /\ packets'[1].continuity =
              IF packets = <<>> THEN m_continuity_index ELSE packets[1].continuity
<1>1. PP!BuildSplit \/ PP!BuildLast
  BY PackerSame
<1>2. PP!Inv'
  <2>1. PP!Next
    BY <1>1 DEF PP!Next
  <2> QED
    BY <2>1, GroupsHaveSize, AddressAssumption, PP!NextInv
<1>3. rest \in PP!Slice /\ packets \in Seq(PP!Packet)
  BY DEF PP!Inv, PP!TypeOK
<1>4. rest'.group = rest.group /\ rest'.to = rest.to
  BY <1>1, <1>3 DEF PP!BuildSplit, PP!BuildLast, PP!SplitTail, PP!Slice
<1>5. PICK p : packets' = Append(packets, p) /\ p.continuity = m_continuity_index
  BY <1>1 DEF PP!BuildSplit, PP!BuildLast, PP!Assemble
<1>6. packets' # <<>>
  BY <1>3, <1>5
<1>7. packets'[1].continuity =
        IF packets = <<>> THEN m_continuity_index ELSE packets[1].continuity
  <2>1. CASE packets = <<>>
    BY <1>5, <2>1
  <2>2. CASE packets # <<>>
    <3>1. 1 \in 1 .. Len(packets)
      BY <1>3, <2>2
    <3> QED
      BY <1>3, <1>5, <2>2, <3>1
  <2> QED
    BY <2>1, <2>2
<1> QED
  BY <1>2, <1>4, <1>6, <1>7

(* Only the last invocation ends the call.                                 *)
LEMMA PackerEnds ==
  /\ Packer!BuildSplit => building'  /\ building
  /\ Packer!BuildLast => ~building' /\ building
BY DEF Packer!BuildSplit, Packer!BuildLast

(* The generators' invariants when they are not called.                    *)
LEMMA GeneratorsRest ==
  /\ PP!Inv /\ UNCHANGED packerVars => PP!Inv'
  /\ GP!Inv /\ UNCHANGED grouperVars => GP!Inv'
<1>1. ASSUME PP!Inv, UNCHANGED packerVars PROVE PP!Inv'
  <2>1. UNCHANGED PP!vars
    BY <1>1 DEF packerVars, PP!vars
  <2> QED
    BY <1>1, <2>1, GroupsHaveSize, AddressAssumption, PP!NextInv
<1>2. ASSUME GP!Inv, UNCHANGED grouperVars PROVE GP!Inv'
  <2>1. UNCHANGED GP!vars
    BY <1>2 DEF grouperVars, GP!vars
  <2> QED
    BY <1>2, <2>1, DatagramsHaveSize, OutsidersAssumption, GP!NextInv
<1> QED
  BY <1>1, <1>2

(* What the packets of a finished call are.                                *)
LEMMA FinishedCall ==
  ASSUME PP!Inv, ~building, packets # <<>>, NEW g, rest.group = g, rest.to = g.size
  PROVE  LET n == Len(packets)
         IN  /\ n \in Nat /\ n > 0
             /\ \A i \in 1 .. n :
                  /\ packets[i] \in Packer!Packet
                  /\ packets[i].data.group = g
                  /\ Starts(packets[i]) <=> i = 1
                  /\ Ends(packets[i]) <=> i = n
                  /\ packets[i].data.from = IF i = 1 THEN 0 ELSE packets[i - 1].data.to
             /\ \A i \in 2 .. n : packets[i].continuity = (packets[i - 1].continuity + 1) % 4
             /\ packets[n].data.to = g.size
             /\ m_continuity_index = (packets[n].continuity + 1) % 4
<1> DEFINE n == Len(packets)
<1>1. /\ packets \in Seq(PP!Packet) /\ n \in Nat /\ n > 0
      /\ \A i \in 1 .. n : packets[i] \in PP!Packet
  BY DEF PP!Inv, PP!TypeOK
<1>2. \A i \in 1 .. n : packets[i] \in Packer!Packet
  BY <1>1 DEF PP!Packet, PP!Slice, Packer!Packet, Packer!Slice
<1>3. /\ \A i \in 1 .. n : /\ packets[i].data.group = g
                           /\ packets[i].data.from = IF i = 1 THEN 0 ELSE packets[i - 1].data.to
      /\ packets[n].data.to = g.size
  BY DEF PP!Inv, PP!PacketsCoverGroup
<1>4. ASSUME NEW i \in 1 .. n
      PROVE  (Starts(packets[i]) <=> i = 1) /\ (Ends(packets[i]) <=> i = n)
  <2>1. packets[i].first_last =
          CASE i = 1 /\ i = n -> 3 [] i = 1 /\ i < n -> 2
            [] i > 1 /\ i = n -> 1 [] i > 1 /\ i < n -> 0
    BY DEF PP!Inv, PP!FlagsDelimitGroup
  <2> QED
    BY <1>1, <2>1 DEF Starts, Ends
<1>5. \A i \in 1 .. n : packets[i].continuity \in 0 .. 3
  BY <1>1 DEF PP!Packet
<1>6. \A c \in 0 .. 3 : (c + 1) % 4 = IF c = 3 THEN 0 ELSE c + 1
  OBVIOUS
<1>7. ASSUME NEW i \in 2 .. n
      PROVE  packets[i].continuity = (packets[i - 1].continuity + 1) % 4
  <2>1. i - 1 \in 1 .. n
    BY <1>1
  <2> QED
    BY <1>5, <1>6, <2>1 DEF PP!Inv, PP!ContinuityUnbroken
<1>8. m_continuity_index = (packets[n].continuity + 1) % 4
  <2>1. n \in 1 .. n
    BY <1>1
  <2> QED
    BY <1>5, <1>6, <2>1 DEF PP!Inv, PP!ContinuityUnbroken
<1> HIDE DEF n
<1> QED
  BY <1>1, <1>2, <1>3, <1>4, <1>7, <1>8 DEF n

(* The invariant covers the types of all variables.                        *)
LEMMA TypesHold == Inv => TypeOK
<1> SUFFICES ASSUME Inv PROVE TypeOK
  OBVIOUS
<1>1. Packer!TypeOK
  BY PackerSame DEF Inv, PP!Inv
<1>2. Grouper!TypeOK
  <2>1. GP!TypeOK
    BY DEF Inv, GP!Inv
  <2> QED
    BY <2>1 DEF GP!TypeOK, Grouper!TypeOK, GP!Groups, Grouper!Groups
<1> QED
  BY <1>1, <1>2 DEF Inv, OwnTypes, TypeOK

(* A step that moves the program counter outside the generators and        *)
(* touches none of what the stream is made of.                             *)
Quiet ==
  /\ addresses_parse' = addresses_parse /\ is_pipe' = is_pipe /\ held' = held
  /\ grouperVars' = grouperVars /\ packerVars' = packerVars /\ netVars' = netVars
  /\ pipe' = pipe /\ closes' = closes
  /\ hunting' = hunting /\ heard' = heard /\ partial' = partial
  /\ rebuilt' = rebuilt /\ confused' = confused
  /\ reading' \in BOOLEAN
  /\ \/ pc' = pc
     \/ /\ pc \in {"config", "open", "bind", "receive"}
        /\ pc' \in {"config", "open", "bind", "receive"}
  /\ \/ fifo' = fifo
     \/ fifo = "closed" /\ fifo' \in {"pipe", "nopipe"}
  /\ pc' \in {"config", "open"} => pc \in {"config", "open"} /\ fifo' = fifo
  /\ fifo' = "closed" => pc' = pc \/ pc' \in {"config", "open", "exited"}

(* A step that touches neither datagrams nor packets keeps the invariant.  *)
LEMMA QuietInv ==
  ASSUME Inv, Quiet
  PROVE  Inv'
<1> USE DEF Inv, Quiet, grouperVars, packerVars, netVars
<1>1. PP!Inv' /\ GP!Inv'
  BY GeneratorsRest
<1>2. OwnTypes'
  BY DEF OwnTypes
<1>3. MainState'
  BY DEF MainState, OwnTypes
<1>4. FifoState'
  BY DEF FifoState, OwnTypes
<1>5. NetOrder'
  BY DEF NetOrder
<1>6. Written' = Written /\ Records' = Records /\ InPipe' = InPipe
  BY DEF Written, Records, InPipe
<1>7. PipeStream' /\ PipeNumbers' /\ ReaderPartial'
  BY <1>6 DEF PipeStream, PipeNumbers, ReaderPartial
<1>8. ReaderHeard'
  <2>1. ~Ended' => ~Ended /\ NextWritten' = NextWritten
    BY DEF NextWritten, Ended
  <2> QED
    BY <2>1 DEF ReaderHeard
<1>9. RecordsTrue'
  BY <1>6 DEF RecordsTrue
<1>10. RecordsTell'
  <2>1. ~Ended' => ~Ended /\ (pc' \in {"split", "pack", "write"} <=> pc \in {"split", "pack", "write"})
    BY DEF Ended
  <2> QED
    BY <1>6, <2>1 DEF RecordsTell
<1>11. Counted'
  <2>1. CASE fifo' = fifo
    BY <1>6, <2>1 DEF Counted
  <2>2. CASE fifo = "closed"
    <3>1. received = <<>> /\ rebuilt = <<>> /\ pipe = <<>>
      BY <2>2 DEF FifoState
    <3>2. held = NoPayload
      BY <3>1 DEF NetOrder
    <3>3. Written = 0
      BY <3>1, <3>2 DEF Written
    <3>4. InPipe = {}
      BY <3>1 DEF InPipe
    <3> QED
      BY <1>6, <3>1, <3>3, <3>4, FS_EmptySet DEF Counted
  <2> QED
    BY <2>1, <2>2
<1> QED
  BY <1>1, <1>2, <1>3, <1>4, <1>5, <1>7, <1>8, <1>9, <1>10, <1>11

(* The invariant holds when the program starts.                            *)
LEMMA InitInv == Init => Inv
<1> SUFFICES ASSUME Init PROVE Inv
  OBVIOUS
<1> USE DEF Init
<1>1. PP!Inv /\ GP!Inv
  BY PackerInit, GrouperInit
<1>2. group = NoGroup /\ building = FALSE /\ packets = <<>>
  BY DEF Grouper!Init, Packer!Init
<1>3. OwnTypes
  <2>1. closes \in 0 .. MaxCloses /\ SocketCap >= 0 /\ PipeCap >= 0
    BY BoundsAssumption
  <2>2. Len(socket_buffer) = 0 /\ Len(pipe) = 0
    OBVIOUS
  <2>3. /\ arrived \in Seq(Payloads) /\ partial \in Seq(Packer!Packet) /\ pipe \in Seq(Tagged)
        /\ socket_buffer \in Seq(1 .. Len(arrived)) /\ received \in Seq(1 .. Len(arrived))
        /\ rebuilt \in Seq([group : Grouper!Groups, number : 1 .. MaxArrivals])
    OBVIOUS
  <2>4. pc = "config" /\ fifo = "closed" /\ held = NoPayload /\ heard = -1
    OBVIOUS
  <2>5. /\ addresses_parse \in BOOLEAN /\ is_pipe \in BOOLEAN /\ hunting \in BOOLEAN
        /\ confused \in BOOLEAN /\ reading \in BOOLEAN
    OBVIOUS
  <2> QED
    BY <2>1, <2>2, <2>3, <2>4, <2>5 DEF OwnTypes
<1>4. MainState /\ FifoState
  BY <1>2 DEF MainState, FifoState
<1>5. NetOrder
  BY BoundsAssumption DEF NetOrder
<1>6. Records = {}
  BY DEF Records
<1>7. PipeStream /\ PipeNumbers
  BY DEF PipeStream, PipeNumbers
<1>8. ReaderPartial /\ ReaderHeard
  BY DEF ReaderPartial, ReaderHeard
<1>9. RecordsTrue /\ RecordsTell
  BY <1>6 DEF RecordsTrue, RecordsTell
<1>10. Counted
  BY DEF Counted
<1> QED
  BY <1>1, <1>3, <1>4, <1>5, <1>7, <1>8, <1>9, <1>10 DEF Inv

(* The steps that are quiet in this sense.                                 *)
LEMMA QuietSteps ==
  ASSUME Inv,
         ReadConfig \/ OpenFifo \/ Bind \/ ReaderOpens \/ UNCHANGED vars
  PROVE  Inv'
<1>0. reading \in BOOLEAN
  BY DEF Inv, OwnTypes
<1>q. Quiet
  <2> USE <1>0 DEF Quiet, Goto, readerVars, mainVars, grouperVars, packerVars, netVars
  <2>0. fifo = "closed" => pc \in {"config", "open", "exited"}
    BY DEF Inv, FifoState
  <2>1. CASE ReadConfig
    BY <2>1 DEF ReadConfig
  <2>2. CASE OpenFifo
    <3>1. fifo = "closed"
      BY <2>2 DEF OpenFifo, Inv, FifoState
    <3> QED
      BY <2>2, <3>1 DEF OpenFifo
  <2>3. CASE Bind
    BY <2>0, <2>3 DEF Bind
  <2>4. CASE ReaderOpens
    BY <2>4 DEF ReaderOpens
  <2>5. CASE UNCHANGED vars
    BY <2>5 DEF vars
  <2> QED
    BY <2>1, <2>2, <2>3, <2>4, <2>5
<1> QED
  BY <1>q, QuietInv

(* The ways the program ends, of which none is amid a call of the packer   *)
(* and only one with the FIFO still closed.                                *)
ProgramEnds ==
  \/ End("config", "exited") \/ End("bind", "exited") \/ End("receive", "exited")
  \/ End("wrap", "exited") \/ End("write", "killed")

LEMMA EndSteps ==
  ConfigError \/ BindThrows \/ ReceiveThrows \/ AddressThrows \/ BrokenPipe => ProgramEnds
BY DEF ProgramEnds, ConfigError, BindThrows, ReceiveThrows, AddressThrows, BrokenPipe

(* When the program ends, the pipe keeps its packets for a reader that is  *)
(* there; without one nobody was promised them.                            *)
LEMMA EndInv ==
  ASSUME Inv, ReaderAway, ProgramEnds
  PROVE  Inv'
<1>0. /\ OwnTypes /\ MainState /\ FifoState /\ NetOrder /\ PipeStream /\ PipeNumbers
      /\ ReaderPartial /\ ReaderHeard /\ RecordsTrue /\ RecordsTell /\ Counted /\ ~confused
      /\ PP!Inv /\ GP!Inv
  BY DEF Inv
<1>1. /\ addresses_parse' = addresses_parse /\ is_pipe' = is_pipe /\ fifo' = fifo
      /\ held' = held /\ arrived' = arrived /\ received' = received
      /\ socket_buffer' = <<>>
      /\ UNCHANGED <<grouperVars, packerVars>>
      /\ reading' = reading /\ closes' = closes /\ hunting' = hunting /\ heard' = heard
      /\ partial' = partial /\ rebuilt' = rebuilt /\ confused' = confused
  BY DEF ProgramEnds, End, readerVars
<1>2. /\ pc \in {"config", "bind", "receive", "wrap", "write"}
      /\ pc' \in {"exited", "killed"} /\ (pc = "config" => pc' = "exited")
  BY DEF ProgramEnds, End, Goto
<1>3. pipe' = pipe \/ (~reading /\ pipe' = <<>>)
  BY DEF ProgramEnds, End
<1>4. PP!Inv' /\ GP!Inv'
  BY <1>0, <1>1, GeneratorsRest
<1>5. OwnTypes'
  <2>1. pipe' \in Seq(Tagged) /\ Len(pipe') <= PipeCap
    <3>1. CASE pipe' = pipe
      BY <1>0, <3>1 DEF OwnTypes
    <3>2. CASE pipe' = <<>>
      <4>1. Len(pipe') = 0 /\ PipeCap >= 0
        BY <3>2, BoundsAssumption
      <4>2. pipe' \in Seq(Tagged)
        BY <3>2
      <4> QED
        BY <4>1, <4>2
    <3> QED
      BY <1>3, <3>1, <3>2
  <2>2. socket_buffer' \in Seq(1 .. Len(arrived')) /\ Len(socket_buffer') <= SocketCap
    <3>1. Len(socket_buffer') = 0 /\ SocketCap >= 0
      BY <1>1, BoundsAssumption
    <3>2. socket_buffer' \in Seq(1 .. Len(arrived'))
      BY <1>1
    <3> QED
      BY <3>1, <3>2
  <2> QED
    BY <1>0, <1>1, <1>2, <2>1, <2>2 DEF OwnTypes
<1>6. MainState'
  BY <1>0, <1>1, <1>2 DEF MainState, grouperVars, packerVars
<1>7. NetOrder'
  <2>1. Len(socket_buffer') = 0
    BY <1>1
  <2> QED
    BY <1>0, <1>1, <2>1 DEF NetOrder
<1>8. FifoState'
  BY <1>0, <1>1, <1>2, <1>3 DEF FifoState
<1>9. Written' = Written
  BY <1>1 DEF Written
<1>10. PipeStream' /\ PipeNumbers'
  BY <1>0, <1>1, <1>3, <1>9 DEF PipeStream, PipeNumbers
<1>11. ReaderPartial'
  BY <1>0, <1>1, <1>3 DEF ReaderPartial, ReaderAway
<1>12. ReaderHeard'
  BY <1>0, <1>1, <1>2, <1>3 DEF ReaderHeard, ReaderAway, Ended
<1>13. Records' \subseteq Records
  BY <1>1, <1>3 DEF Records
<1>14. RecordsTrue'
  BY <1>0, <1>1, <1>9, <1>13 DEF RecordsTrue
<1>15. RecordsTell'
  BY <1>0, <1>2, <1>13 DEF RecordsTell, Ended
<1>16. Counted' /\ ~confused'
  <2>1. CASE pipe' = pipe
    BY <1>0, <1>1, <1>9, <2>1 DEF Counted, InPipe
  <2>2. CASE ~reading
    BY <1>0, <1>1, <2>2 DEF Counted, ReaderAway, OwnTypes
  <2> QED
    BY <1>3, <2>1, <2>2
<1> QED
  BY <1>4, <1>5, <1>6, <1>7, <1>8, <1>10, <1>11, <1>12, <1>14, <1>15, <1>16 DEF Inv

(* One more datagram is held, and none more is written.                    *)
LEMMA ReceiveInv ==
  ASSUME Inv, Receive
  PROVE  Inv'
<1> DEFINE n == Head(socket_buffer)
<1>0. /\ OwnTypes /\ MainState /\ FifoState /\ NetOrder /\ PipeStream /\ PipeNumbers
      /\ ReaderPartial /\ ReaderHeard /\ RecordsTrue /\ RecordsTell /\ Counted /\ ~confused
  BY DEF Inv
<1>1. /\ pc = "receive" /\ pc' = "wrap" /\ socket_buffer # <<>>
      /\ held' = Cut(arrived[n])
      /\ received' = Append(received, n)
      /\ socket_buffer' = <<>>
      /\ UNCHANGED <<addresses_parse, is_pipe, fifo, arrived, grouperVars, packerVars, pipe, readerVars>>
  BY DEF Receive, Goto, QueueAfterReceive
<1>2. /\ n \in 1 .. Len(arrived) /\ n = socket_buffer[1] /\ 1 \in 1 .. Len(socket_buffer)
      /\ Len(arrived) \in Nat
      /\ arrived \in Seq(Payloads)
  BY <1>0, <1>1 DEF OwnTypes
<1>3. arrived[n] \in Payloads /\ Cut(arrived[n]) # NoPayload
  <2>1. arrived[n] \in Payloads
    BY <1>2
  <2>2. NoPayload \notin {Cut(p) : p \in Payloads}
    BY OutsidersAssumption
  <2>3. Cut(arrived[n]) \in {Cut(p) : p \in Payloads}
    BY <2>1
  <2> QED
    BY <2>1, <2>2, <2>3
<1>4. held = NoPayload /\ held' # NoPayload
  BY <1>0, <1>1, <1>3 DEF MainState
<1>5. /\ received' \in Seq(1 .. Len(arrived)) /\ Len(received') = Len(received) + 1
      /\ received'[Len(received) + 1] = n
      /\ \A i \in 1 .. Len(received) : received'[i] = received[i]
      /\ Len(received) \in Nat /\ received' # <<>>
  <2>1. received \in Seq(1 .. Len(arrived))
    BY <1>0 DEF OwnTypes
  <2> QED
    BY <1>1, <1>2, <2>1, AppendProperties
<1> HIDE DEF n
<1>6. PP!Inv' /\ GP!Inv'
  BY <1>1, GeneratorsRest DEF Inv
<1>7. OwnTypes'
  <2>1. /\ arrived' = arrived /\ pipe' = pipe /\ reading' = reading /\ closes' = closes
        /\ hunting' = hunting /\ confused' = confused /\ heard' = heard
        /\ partial' = partial /\ rebuilt' = rebuilt
    BY <1>1 DEF readerVars
  <2>2. held' \in {Cut(p) : p \in Payloads}
    BY <1>1, <1>2
  <2>3. socket_buffer' \in Seq(1 .. Len(arrived)) /\ Len(socket_buffer') <= SocketCap
    BY <1>1, BoundsAssumption
  <2> QED
    BY <1>0, <1>1, <1>5, <2>1, <2>2, <2>3 DEF OwnTypes
<1>8. MainState'
  BY <1>0, <1>1, <1>4 DEF MainState, packerVars
<1>9. FifoState'
  BY <1>0, <1>1 DEF FifoState, readerVars
<1>10. NetOrder'
  <2>1. \A i \in 1 .. Len(received) : received[i] < n /\ received[i] \in Int
    <3>1. \A i \in 1 .. Len(received) : received[i] \in 1 .. Len(arrived)
      BY <1>0 DEF OwnTypes
    <3>2. \A i \in 1 .. Len(received) : received[i] < socket_buffer[1]
      BY <1>0, <1>2 DEF NetOrder
    <3> QED
      BY <1>2, <3>1, <3>2
  <2>2. n >= Len(received) + 1
    <3>1. CASE Len(received) = 0
      BY <1>2, <3>1
    <3>2. CASE Len(received) > 0
      <4>1. Len(received) \in 1 .. Len(received)
        BY <1>5, <3>2
      <4>2. received[Len(received)] >= Len(received)
        BY <1>0, <4>1 DEF NetOrder
      <4> QED
        BY <1>2, <1>5, <2>1, <4>1, <4>2
    <3> QED
      BY <1>5, <3>1, <3>2
  <2>3. ASSUME NEW i \in 1 .. Len(received) + 1
        PROVE  received'[i] >= i
    BY <1>0, <1>5, <2>2 DEF NetOrder
  <2>4. ASSUME NEW i \in 1 .. Len(received) + 1, NEW j \in 1 .. Len(received) + 1, i < j
        PROVE  received'[i] < received'[j]
    <3>1. CASE j \in 1 .. Len(received)
      BY <1>0, <1>5, <2>4, <3>1 DEF NetOrder
    <3>2. CASE j = Len(received) + 1
      BY <1>5, <2>1, <2>4, <3>2
    <3> QED
      BY <1>5, <3>1, <3>2
  <2>5. held' = Cut(arrived'[received'[Len(received')]])
    BY <1>1, <1>5
  <2>6. Len(arrived') <= MaxArrivals
    BY <1>0, <1>1 DEF NetOrder
  <2> QED
    BY <1>1, <1>5, <2>3, <2>4, <2>5, <2>6 DEF NetOrder
<1>11. Written' = Written /\ Records' = Records /\ InPipe' = InPipe
  <2>1. Written' = Written
    BY <1>4, <1>5 DEF Written
  <2> QED
    BY <1>1, <2>1 DEF Records, InPipe, readerVars
<1>12. PipeStream' /\ PipeNumbers' /\ ReaderPartial'
  BY <1>0, <1>1, <1>11 DEF PipeStream, PipeNumbers, ReaderPartial, readerVars
<1>13. ReaderHeard'
  BY <1>0, <1>1 DEF ReaderHeard, Ended, NextWritten, packerVars, readerVars
<1>14. RecordsTrue'
  <2>1. Written = Len(received)
    BY <1>4, <1>5 DEF Written
  <2>2. ASSUME NEW r \in Records
        PROVE  r[2].datagram = Datagram(Cut(arrived'[received'[r[1]]]))
    BY <1>0, <1>1, <1>5, <2>1 DEF RecordsTrue
  <2> QED
    BY <1>0, <1>11, <2>2 DEF RecordsTrue
<1>15. RecordsTell'
  BY <1>0, <1>1, <1>11 DEF RecordsTell, Ended, grouperVars
<1>16. Counted' /\ ~confused'
  BY <1>0, <1>1, <1>11 DEF Counted, readerVars
<1> QED
  BY <1>6, <1>7, <1>8, <1>9, <1>10, <1>12, <1>13, <1>14, <1>15, <1>16 DEF Inv

(* Different payloads make different datagrams.                            *)
LEMMA DatagramTells ==
  ASSUME NEW p, NEW q
  PROVE  Datagram(p) = Datagram(q) <=> p = q
<1>1. Datagram(p).payload = p /\ Datagram(q).payload = q
  BY DEF Datagram
<1> QED
  BY <1>1

(* What is held becomes a data group that tells whether it repeats the one *)
(* before.                                                                 *)
LEMMA WrapInv ==
  ASSUME Inv, Wrap
  PROVE  Inv'
<1>0. /\ OwnTypes /\ MainState /\ FifoState /\ NetOrder /\ PipeStream /\ PipeNumbers
      /\ ReaderPartial /\ ReaderHeard /\ RecordsTrue /\ RecordsTell /\ Counted /\ ~confused
      /\ PP!Inv /\ GP!Inv
  BY DEF Inv
<1>1. /\ pc = "wrap" /\ pc' = "split" /\ Grouper!Build(Datagram(held))
      /\ UNCHANGED <<addresses_parse, is_pipe, fifo, held>>
      /\ UNCHANGED <<packerVars, netVars, pipe, readerVars>>
  BY DEF Wrap, Goto
<1>2. held # NoPayload /\ Datagram(held) \in Datagrams
  BY <1>0, <1>1 DEF MainState, OwnTypes, Datagrams
<1>3. GP!Inv' /\ group' \in Grouper!Groups /\ group'.datagram = Datagram(held)
  BY <1>0, <1>1, <1>2, GrouperBuild
<1>4. PP!Inv'
  BY <1>0, <1>1, GeneratorsRest
<1>5. OwnTypes'
  BY <1>0, <1>1 DEF OwnTypes, netVars, readerVars
<1>6. MainState'
  <2>1. group' # NoGroup
    BY <1>3, GroupsHaveSize
  <2> QED
    BY <1>0, <1>1, <1>2, <1>3, <2>1 DEF MainState, packerVars
<1>7. FifoState' /\ NetOrder'
  BY <1>0, <1>1 DEF FifoState, NetOrder, netVars, readerVars
<1>8. Written' = Written /\ Records' = Records /\ InPipe' = InPipe
  BY <1>1 DEF Written, Records, InPipe, netVars, readerVars
<1>9. PipeStream' /\ PipeNumbers' /\ ReaderPartial'
  BY <1>0, <1>1, <1>8 DEF PipeStream, PipeNumbers, ReaderPartial, readerVars
<1>10. ReaderHeard'
  BY <1>0, <1>1 DEF ReaderHeard, Ended, NextWritten, packerVars, readerVars
<1>11. RecordsTrue'
  BY <1>0, <1>1, <1>8 DEF RecordsTrue, netVars
<1>12. RecordsTell'
  <2>1. ASSUME NEW r \in Records, r[1] = Written
        PROVE  Tells(r[2], group')
    <3>1. r[2] = group /\ group \in Grouper!Groups
      BY <1>0, <1>1, <2>1 DEF RecordsTell, RecordsTrue, Ended
    <3>2. group # NoGroup
      BY <3>1, GroupsHaveSize
    <3>3. group'.continuity = group.continuity <=> group'.datagram = group.datagram
      BY <1>0, <1>1, <1>2, <3>2, GrouperTells
    <3>4. PICK p : group.datagram = Datagram(p)
      BY <1>0, <2>1, <3>1 DEF RecordsTrue
    <3>5. group.datagram.payload = p /\ group'.datagram.payload = held
      BY <1>3, <3>4 DEF Datagram
    <3> QED
      BY <1>3, <3>1, <3>3, <3>4, <3>5, DatagramTells DEF Tells
  <2> QED
    BY <1>0, <1>1, <1>8, <2>1 DEF RecordsTell
<1>13. Counted' /\ ~confused'
  BY <1>0, <1>1, <1>8 DEF Counted, readerVars
<1> QED
  BY <1>3, <1>4, <1>5, <1>6, <1>7, <1>9, <1>10, <1>11, <1>12, <1>13 DEF Inv

(* The packet generator takes over the group in hand.                      *)
LEMMA SplitInv ==
  ASSUME Inv, Split
  PROVE  Inv'
<1>0. /\ OwnTypes /\ MainState /\ FifoState /\ NetOrder /\ PipeStream /\ PipeNumbers
      /\ ReaderPartial /\ ReaderHeard /\ RecordsTrue /\ RecordsTell /\ Counted /\ ~confused
      /\ PP!Inv /\ GP!Inv
  BY DEF Inv
<1>1. /\ pc = "split" /\ pc' = "pack" /\ Packer!Build(group)
      /\ UNCHANGED <<addresses_parse, is_pipe, fifo, held>>
      /\ UNCHANGED <<grouperVars, netVars, pipe, readerVars>>
  BY DEF Split, Goto
<1>2. group \in Grouper!Groups
  <2>1. group \in GP!Groups \cup {NoGroup}
    BY <1>0 DEF GP!Inv, GP!TypeOK
  <2> QED
    BY <1>0, <1>1, <2>1 DEF MainState, GP!Groups, Grouper!Groups
<1>3. /\ PP!Inv' /\ building' /\ packets' = <<>>
      /\ rest'.group = group /\ rest'.to = group.size
      /\ m_continuity_index' = m_continuity_index
  BY <1>0, <1>1, <1>2, PackerBuild
<1>4. GP!Inv'
  BY <1>0, <1>1, GeneratorsRest
<1>5. OwnTypes'
  BY <1>0, <1>1 DEF OwnTypes, netVars, readerVars
<1>6. MainState'
  BY <1>0, <1>1, <1>3 DEF MainState, grouperVars
<1>7. FifoState' /\ NetOrder'
  BY <1>0, <1>1 DEF FifoState, NetOrder, netVars, readerVars
<1>8. Written' = Written /\ Records' = Records /\ InPipe' = InPipe
  BY <1>1 DEF Written, Records, InPipe, netVars, readerVars
<1>9. PipeStream' /\ PipeNumbers' /\ ReaderPartial'
  BY <1>0, <1>1, <1>8 DEF PipeStream, PipeNumbers, ReaderPartial, readerVars
<1>10. ReaderHeard'
  BY <1>0, <1>1, <1>3 DEF ReaderHeard, Ended, NextWritten, readerVars
<1>11. RecordsTrue'
  BY <1>0, <1>1, <1>8 DEF RecordsTrue, netVars
<1>12. RecordsTell'
  BY <1>0, <1>1, <1>8 DEF RecordsTell, Ended, grouperVars
<1>13. Counted' /\ ~confused'
  BY <1>0, <1>1, <1>8 DEF Counted, readerVars
<1> QED
  BY <1>3, <1>4, <1>5, <1>6, <1>7, <1>9, <1>10, <1>11, <1>12, <1>13 DEF Inv

(* The packet built first, not the one built last, is the next one that    *)
(* is written.                                                             *)
LEMMA PackInv ==
  ASSUME Inv, Pack
  PROVE  Inv'
<1>0. /\ OwnTypes /\ MainState /\ FifoState /\ NetOrder /\ PipeStream /\ PipeNumbers
      /\ ReaderPartial /\ ReaderHeard /\ RecordsTrue /\ RecordsTell /\ Counted /\ ~confused
      /\ PP!Inv /\ GP!Inv
  BY DEF Inv
<1>1. /\ pc = "pack"
      /\ \/ pc' = "pack" /\ Packer!BuildSplit
         \/ pc' = "write" /\ Packer!BuildLast
      /\ UNCHANGED <<addresses_parse, is_pipe, fifo, held>>
      /\ UNCHANGED <<grouperVars, netVars, pipe, readerVars>>
  BY DEF Pack, Goto
<1>2. /\ PP!Inv' /\ packets' # <<>>
      /\ rest'.group = rest.group /\ rest'.to = rest.to
      /\ packets'[1].continuity =
           IF packets = <<>> THEN m_continuity_index ELSE packets[1].continuity
  BY <1>0, <1>1, PackerInvocation
<1>3. building' <=> pc' = "pack"
  BY <1>1, PackerEnds
<1>4. GP!Inv'
  BY <1>0, <1>1, GeneratorsRest
<1>5. OwnTypes'
  BY <1>0, <1>1 DEF OwnTypes, netVars, readerVars
<1>6. MainState'
  BY <1>0, <1>1, <1>2, <1>3 DEF MainState, grouperVars
<1>7. FifoState' /\ NetOrder'
  BY <1>0, <1>1 DEF FifoState, NetOrder, netVars, readerVars
<1>8. Written' = Written /\ Records' = Records /\ InPipe' = InPipe
  BY <1>1 DEF Written, Records, InPipe, netVars, readerVars
<1>9. PipeStream' /\ PipeNumbers' /\ ReaderPartial'
  BY <1>0, <1>1, <1>8 DEF PipeStream, PipeNumbers, ReaderPartial, readerVars
<1>10. NextWritten' = NextWritten
  BY <1>1, <1>2 DEF NextWritten
<1>11. ReaderHeard'
  BY <1>0, <1>1, <1>10 DEF ReaderHeard, Ended, readerVars
<1>12. RecordsTrue'
  BY <1>0, <1>1, <1>8 DEF RecordsTrue, netVars
<1>13. RecordsTell'
  BY <1>0, <1>1, <1>8 DEF RecordsTell, Ended, grouperVars
<1>14. Counted' /\ ~confused'
  BY <1>0, <1>1, <1>8 DEF Counted, readerVars
<1> QED
  BY <1>2, <1>4, <1>5, <1>6, <1>7, <1>9, <1>11, <1>12, <1>13, <1>14 DEF Inv

(* Without a pipe what is written is gone.                                 *)
LEMMA WriteNowhereInv ==
  ASSUME Inv, Write, fifo = "nopipe"
  PROVE  Inv'
<1>0. /\ OwnTypes /\ MainState /\ FifoState /\ NetOrder /\ PipeStream /\ PipeNumbers
      /\ ReaderPartial /\ ReaderHeard /\ RecordsTrue /\ RecordsTell /\ Counted /\ ~confused
      /\ PP!Inv /\ GP!Inv
  BY DEF Inv
<1>1. /\ pc = "write" /\ pc' = "bind" /\ held' = NoPayload /\ pipe' = pipe
      /\ UNCHANGED <<addresses_parse, is_pipe, fifo>>
      /\ UNCHANGED <<grouperVars, packerVars, netVars, readerVars>>
  BY DEF Write, Goto
<1>2. pipe = <<>> /\ heard = -1 /\ held # NoPayload /\ fifo' = "nopipe"
  BY <1>0, <1>1 DEF FifoState, MainState
<1>3. PP!Inv' /\ GP!Inv'
  BY <1>0, <1>1, GeneratorsRest
<1>4. OwnTypes'
  BY <1>0, <1>1 DEF OwnTypes, netVars, readerVars
<1>5. MainState' /\ FifoState' /\ NetOrder'
  BY <1>0, <1>1, <1>2 DEF MainState, FifoState, NetOrder, packerVars, grouperVars, netVars, readerVars
<1>6. /\ Written' = Written + 1 /\ Records' = Records /\ Written \in Int
      /\ \A r \in Records : r[1] \in 1 .. Written
  <2>1. Len(received) \in Nat
    BY <1>0 DEF OwnTypes
  <2>2. Written' = Written + 1 /\ Written \in Int
    BY <1>1, <1>2, <2>1 DEF Written, netVars
  <2> QED
    BY <1>0, <1>1, <2>2 DEF Records, RecordsTrue, readerVars
<1>7. PipeStream' /\ PipeNumbers' /\ ReaderPartial' /\ ReaderHeard'
  BY <1>0, <1>1, <1>2 DEF PipeStream, PipeNumbers, ReaderPartial, ReaderHeard, readerVars
<1>8. RecordsTrue'
  BY <1>0, <1>1, <1>6 DEF RecordsTrue, netVars
<1>9. RecordsTell'
  BY <1>0, <1>1, <1>6 DEF RecordsTell
<1>10. Counted' /\ ~confused'
  BY <1>0, <1>1, <1>2 DEF Counted, readerVars
<1> QED
  BY <1>3, <1>4, <1>5, <1>7, <1>8, <1>9, <1>10 DEF Inv

(* What the pipe is after a write.                                         *)
LEMMA BurstInPipe ==
  ASSUME Inv, Write, fifo = "pipe"
  PROVE  LET n == Len(packets)
             L == Len(pipe)
             N == Len(received)
         IN  /\ n \in Nat /\ n > 0 /\ L \in Nat /\ N \in 1 .. MaxArrivals
             /\ Written = N - 1 /\ Written' = N
             /\ pipe' \in Seq(Tagged) /\ Len(pipe') = L + n /\ Len(pipe') <= PipeCap
             /\ \A i \in 1 .. L : pipe'[i] = pipe[i]
             /\ \A k \in 1 .. n : pipe'[L + k].packet = packets[k] /\ pipe'[L + k].number = N
             /\ \A i \in 1 .. (L + n) : i \in 1 .. L \/ \E k \in 1 .. n : i = L + k
             /\ group \in Grouper!Groups
             /\ group.datagram = Datagram(Cut(arrived[received[N]]))
<1> DEFINE n == Len(packets)
           L == Len(pipe)
           N == Len(received)
<1>0. OwnTypes /\ MainState /\ NetOrder /\ PP!Inv /\ GP!Inv
  BY DEF Inv
<1>1. /\ pc = "write" /\ held' = NoPayload /\ received' = received
      /\ L + n <= PipeCap /\ pipe' = pipe \o Burst
  BY DEF Write, Goto, netVars
<1>2. held # NoPayload /\ ~building /\ packets # <<>> /\ rest.group = group /\ rest.to = group.size
  BY <1>0, <1>1 DEF MainState
<1>3. n \in Nat /\ n > 0 /\ \A i \in 1 .. n : packets[i] \in Packer!Packet
  BY <1>0, <1>2, FinishedCall
<1>4. N \in 1 .. MaxArrivals
  <2>1. received \in Seq(1 .. Len(arrived)) /\ received # <<>> /\ arrived \in Seq(Payloads)
    BY <1>0, <1>2 DEF OwnTypes, NetOrder
  <2>2. N \in 1 .. N /\ Len(arrived) \in Nat
    BY <2>1
  <2>3. received[N] \in 1 .. Len(arrived) /\ received[N] >= N /\ Len(arrived) <= MaxArrivals
    BY <1>0, <2>1, <2>2 DEF NetOrder
  <2> QED
    BY <2>2, <2>3, BoundsAssumption
<1>5. Written = N - 1 /\ Written' = N
  BY <1>1, <1>2, <1>4 DEF Written
<1>6. pipe \in Seq(Tagged) /\ L \in Nat
  BY <1>0 DEF OwnTypes
<1>7. /\ Burst \in Seq(Tagged) /\ Len(Burst) = n
      /\ \A k \in 1 .. n : Burst[k].packet = packets[k] /\ Burst[k].number = N
  <2> HIDE DEF n, N
  <2>1. Burst = [i \in 1 .. n |-> [packet |-> packets[i], number |-> N]]
    BY DEF Burst, n, N
  <2>2. \A i \in 1 .. n : [packet |-> packets[i], number |-> N] \in Tagged
    BY <1>3, <1>4 DEF Tagged
  <2> QED
    BY <1>3, <2>1, <2>2
<1>8. /\ pipe' \in Seq(Tagged) /\ Len(pipe') = L + n
      /\ \A i \in 1 .. L : pipe'[i] = pipe[i]
      /\ \A k \in 1 .. n : pipe'[L + k] = Burst[k]
  <2> HIDE DEF n, L, N
  <2> USE DEF L
  <2>1. /\ pipe \o Burst \in Seq(Tagged) /\ Len(pipe \o Burst) = L + n
        /\ \A i \in 1 .. L + n : (pipe \o Burst)[i] = IF i <= L THEN pipe[i] ELSE Burst[i - L]
    BY <1>6, <1>7, ConcatProperties
  <2> HIDE DEF L
  <2>2. \A i \in 1 .. L : pipe'[i] = pipe[i]
    BY <1>1, <1>3, <1>6, <2>1
  <2>3. ASSUME NEW k \in 1 .. n PROVE pipe'[L + k] = Burst[k]
    <3>1. L + k \in 1 .. L + n /\ ~(L + k <= L) /\ (L + k) - L = k
      BY <1>3, <1>6
    <3> QED
      BY <1>1, <2>1, <3>1
  <2> QED
    BY <1>1, <2>1, <2>2, <2>3
<1>9. \A i \in 1 .. (L + n) : i \in 1 .. L \/ \E k \in 1 .. n : i = L + k
  <2> HIDE DEF n, L
  <2> SUFFICES ASSUME NEW i \in 1 .. (L + n), i \notin 1 .. L
               PROVE  \E k \in 1 .. n : i = L + k
    OBVIOUS
  <2>1. i - L \in 1 .. n /\ i = L + (i - L)
    BY <1>3, <1>6
  <2> QED
    BY <2>1
<1>10. group \in Grouper!Groups
  <2>1. group \in GP!Groups \cup {NoGroup}
    BY <1>0 DEF GP!Inv, GP!TypeOK
  <2> QED
    BY <1>0, <1>1, <2>1 DEF MainState, GP!Groups, Grouper!Groups
<1>11. group.datagram = Datagram(Cut(arrived[received[N]]))
  BY <1>0, <1>1, <1>2 DEF MainState, NetOrder
<1> HIDE DEF n, L, N
<1> QED
  BY <1>1, <1>3, <1>4, <1>5, <1>6, <1>7, <1>8, <1>9, <1>10, <1>11 DEF n, L, N

(* The packets of a data group follow the last ones in the pipe.           *)
LEMMA WritePipeInv ==
  ASSUME Inv, Write, fifo = "pipe"
  PROVE  Inv'
<1> DEFINE n == Len(packets)
           L == Len(pipe)
           N == Len(received)
<1>0. /\ OwnTypes /\ MainState /\ FifoState /\ NetOrder /\ PipeStream /\ PipeNumbers
      /\ ReaderPartial /\ ReaderHeard /\ RecordsTrue /\ RecordsTell /\ Counted /\ ~confused
      /\ PP!Inv /\ GP!Inv
  BY DEF Inv
<1>1. /\ pc = "write" /\ pc' = "bind" /\ held' = NoPayload
      /\ UNCHANGED <<addresses_parse, is_pipe, fifo>>
      /\ UNCHANGED <<grouperVars, packerVars, netVars, readerVars>>
  BY DEF Write, Goto
<1>2. held # NoPayload /\ ~building /\ packets # <<>> /\ rest.group = group /\ rest.to = group.size
  BY <1>0, <1>1 DEF MainState
<1>3. /\ n \in Nat /\ n > 0
      /\ \A i \in 1 .. n :
           /\ packets[i] \in Packer!Packet
           /\ packets[i].data.group = group
           /\ Starts(packets[i]) <=> i = 1
           /\ Ends(packets[i]) <=> i = n
           /\ packets[i].data.from = IF i = 1 THEN 0 ELSE packets[i - 1].data.to
      /\ \A i \in 2 .. n : packets[i].continuity = (packets[i - 1].continuity + 1) % 4
      /\ packets[n].data.to = group.size
      /\ m_continuity_index = (packets[n].continuity + 1) % 4
  BY <1>0, <1>2, FinishedCall
<1>4. /\ L \in Nat /\ N \in 1 .. MaxArrivals /\ Written = N - 1 /\ Written' = N
      /\ pipe' \in Seq(Tagged) /\ Len(pipe') = L + n /\ Len(pipe') <= PipeCap
      /\ \A i \in 1 .. L : pipe'[i] = pipe[i]
      /\ \A k \in 1 .. n : pipe'[L + k].packet = packets[k] /\ pipe'[L + k].number = N
      /\ \A i \in 1 .. (L + n) : i \in 1 .. L \/ \E k \in 1 .. n : i = L + k
      /\ group \in Grouper!Groups
      /\ group.datagram = Datagram(Cut(arrived[received[N]]))
  BY BurstInPipe
<1>5. /\ rebuilt' = rebuilt /\ received' = received /\ arrived' = arrived
      /\ partial' = partial /\ hunting' = hunting /\ heard' = heard /\ closes' = closes
      /\ m_continuity_index' = m_continuity_index /\ group' = group
  BY <1>1 DEF readerVars, netVars, packerVars, grouperVars
<1>6. /\ L > 0 <=> pipe # <<>>
      /\ pipe' # <<>> /\ pipe'[1] \in Tagged
  <2>1. pipe \in Seq(Tagged)
    BY <1>0 DEF OwnTypes
  <2>2. Len(pipe') > 0
    BY <1>3, <1>4
  <2> QED
    BY <1>4, <2>1, <2>2
<1>7. \A r \in Records : r[1] \in 1 .. N - 1
  BY <1>0, <1>4 DEF RecordsTrue
<1>8. NextWritten = packets[1].continuity /\ ~Ended /\ NextWritten' = m_continuity_index
  BY <1>1, <1>2, <1>5 DEF NextWritten, Ended
<1> HIDE DEF n, L, N
<1>9. PP!Inv' /\ GP!Inv'
  BY <1>0, <1>1, GeneratorsRest
<1>10. OwnTypes'
  BY <1>0, <1>1, <1>4 DEF OwnTypes, netVars, readerVars
<1>11. MainState' /\ NetOrder'
  BY <1>0, <1>1 DEF MainState, NetOrder, packerVars, grouperVars, netVars
<1>12. FifoState'
  BY <1>0, <1>1 DEF FifoState
<1>13. PipeStream'
  <2>1. ASSUME NEW i \in 1 .. (L + n)
        PROVE  /\ pipe'[i].packet.data.group \in Grouper!Groups
               /\ Starts(pipe'[i].packet) => pipe'[i].packet.data.from = 0
               /\ Ends(pipe'[i].packet) =>
                    pipe'[i].packet.data.to = pipe'[i].packet.data.group.size
    <3>1. CASE i \in 1 .. L
      BY <1>0, <1>4, <3>1 DEF PipeStream, L
    <3>2. ASSUME NEW k \in 1 .. n, i = L + k
          PROVE  /\ pipe'[i].packet.data.group \in Grouper!Groups
                 /\ Starts(pipe'[i].packet) => pipe'[i].packet.data.from = 0
                 /\ Ends(pipe'[i].packet) =>
                      pipe'[i].packet.data.to = pipe'[i].packet.data.group.size
      <4>1. pipe'[i].packet = packets[k]
        BY <1>4, <3>2
      <4>2. packets[k].data.group = group
        BY <1>3
      <4>3. Starts(packets[k]) => packets[k].data.from = 0
        BY <1>3
      <4>4. Ends(packets[k]) => packets[k].data.to = group.size
        BY <1>3
      <4> QED
        BY <1>4, <4>1, <4>2, <4>3, <4>4
    <3> QED
      BY <1>4, <3>1, <3>2
  <2>2. ASSUME NEW i \in 2 .. (L + n)
        PROVE  Follows(pipe'[i - 1], pipe'[i])
    <3>1. CASE i \in 1 .. L
      <4>1. i - 1 \in 1 .. L /\ i \in 2 .. L
        BY <1>4, <3>1
      <4> QED
        BY <1>0, <1>4, <3>1, <4>1 DEF PipeStream, L
    <3>2. CASE i = L + 1
      <4>1. L \in 1 .. L /\ i - 1 = L /\ pipe # <<>> /\ 1 \in 1 .. n
        BY <1>3, <1>4, <1>6, <3>2
      <4>2. pipe'[i - 1] = pipe[L] /\ pipe'[i].packet = packets[1] /\ pipe'[i].number = N
        BY <1>4, <3>2, <4>1
      <4>3. packets[1].continuity = (pipe[L].packet.continuity + 1) % 4
        BY <1>0, <1>8, <4>1 DEF ReaderHeard, L
      <4>4. Ends(pipe[L].packet) /\ pipe[L].number = N - 1
        BY <1>0, <1>4, <4>1 DEF PipeStream, PipeNumbers, L
      <4> QED
        BY <1>3, <1>4, <4>1, <4>2, <4>3, <4>4 DEF Follows
    <3>3. ASSUME NEW k \in 1 .. n, i = L + k, k # 1
          PROVE  Follows(pipe'[i - 1], pipe'[i])
      <4>1. k - 1 \in 1 .. n /\ k \in 2 .. n /\ i - 1 = L + (k - 1) /\ k - 1 # n
        BY <1>3, <1>4, <3>3
      <4>2. /\ pipe'[i - 1].packet = packets[k - 1] /\ pipe'[i - 1].number = N
            /\ pipe'[i].packet = packets[k] /\ pipe'[i].number = N
        BY <1>4, <3>3, <4>1
      <4>3. ~Ends(packets[k - 1]) /\ ~Starts(packets[k])
        BY <1>3, <3>3, <4>1
      <4> QED
        BY <1>3, <3>3, <4>1, <4>2, <4>3 DEF Follows
    <3> QED
      <4>1. i \in 1 .. (L + n)
        BY <1>3, <1>4
      <4> QED
        BY <1>4, <3>1, <3>2, <3>3, <4>1
  <2>3. Ends(pipe'[L + n].packet)
    <3>1. n \in 1 .. n
      BY <1>3
    <3> QED
      BY <1>3, <1>4, <3>1
  <2> QED
    BY <1>4, <2>1, <2>2, <2>3 DEF PipeStream
<1>14. PipeNumbers'
  <2>1. \A i \in 1 .. L : pipe[i].number \in 1 .. N - 1
    BY <1>0, <1>4 DEF PipeNumbers, L
  <2>2. \A i \in 1 .. (L + n) : pipe'[i].number \in 1 .. N
    BY <1>4, <2>1
  <2>3. ASSUME NEW i \in 1 .. (L + n), NEW j \in 1 .. (L + n), i < j
        PROVE  /\ pipe'[i].number <= pipe'[j].number
               /\ Ends(pipe'[i].packet) => pipe'[i].number < pipe'[j].number
    <3>1. CASE j \in 1 .. L
      <4>1. i \in 1 .. L
        BY <1>4, <2>3, <3>1
      <4> QED
        BY <1>0, <1>4, <2>3, <3>1, <4>1 DEF PipeNumbers, L
    <3>2. CASE i \in 1 .. L /\ j \notin 1 .. L
      <4>1. pipe'[j].number = N
        BY <1>4, <3>2
      <4> QED
        BY <1>4, <2>1, <3>2, <4>1
    <3>3. CASE i \notin 1 .. L
      <4>1. PICK k \in 1 .. n : i = L + k
        BY <1>4, <3>3
      <4>2. j \notin 1 .. L /\ k # n
        BY <1>3, <1>4, <2>3, <3>3, <4>1
      <4>3. pipe'[i].number = N /\ ~Ends(pipe'[i].packet)
        BY <1>3, <1>4, <4>1, <4>2
      <4>4. pipe'[j].number = N
        BY <1>4, <4>2
      <4> QED
        BY <1>4, <4>3, <4>4
    <3> QED
      BY <3>1, <3>2, <3>3
  <2>4. pipe'[L + n].number = N
    BY <1>3, <1>4
  <2>5. ASSUME NEW i \in 1 .. Len(rebuilt), NEW j \in 1 .. (L + n)
        PROVE  rebuilt[i].number < pipe'[j].number
    <3>1. <<rebuilt[i].number, rebuilt[i].group>> \in Records
      BY DEF Records
    <3>2. rebuilt[i].number \in 1 .. N - 1
      BY <1>7, <3>1
    <3>3. CASE j \in 1 .. L
      BY <1>0, <1>4, <3>3 DEF PipeNumbers, L
    <3>4. CASE j \notin 1 .. L
      BY <1>4, <3>2, <3>4
    <3> QED
      BY <3>3, <3>4
  <2> QED
    BY <1>4, <1>5, <2>2, <2>3, <2>4, <2>5 DEF PipeNumbers
<1>15. 1 \in 1 .. n /\ L + 1 \in 1 .. (L + n) /\ (L > 0 => 1 \in 1 .. L) /\ (L = 0 \/ L > 0)
  BY <1>3, <1>4
<1>16. ReaderPartial'
  <2>1. hunting' => partial' = <<>>
    BY <1>0, <1>5 DEF ReaderPartial
  <2>2. partial # <<>> => L > 0 /\ pipe'[1] = pipe[1]
    BY <1>0, <1>4, <1>6, <1>15 DEF ReaderPartial
  <2>3. ASSUME ~hunting \/ closes = 0
        PROVE  Starts(pipe'[1].packet) <=> partial = <<>>
    <3>1. CASE L > 0
      BY <1>0, <1>4, <1>6, <1>15, <2>3, <3>1 DEF ReaderPartial
    <3>2. CASE L = 0
      <4>1. pipe'[1].packet = packets[1]
        BY <1>4, <1>15, <3>2
      <4> QED
        BY <1>3, <1>4, <1>15, <2>2, <3>2, <4>1
    <3> QED
      BY <1>15, <3>1, <3>2
  <2>4. \A i \in 1 .. Len(partial') :
          /\ partial'[i].data.group = partial'[1].data.group
          /\ partial'[i].data.from = IF i = 1 THEN 0 ELSE partial'[i - 1].data.to
    BY <1>0, <1>5 DEF ReaderPartial
  <2>5. partial' # <<>> =>
          /\ pipe'[1].packet.data.group = partial'[1].data.group
          /\ pipe'[1].packet.data.from = partial'[Len(partial')].data.to
    BY <1>0, <1>5, <2>2 DEF ReaderPartial
  <2> QED
    BY <1>5, <1>6, <2>1, <2>3, <2>4, <2>5 DEF ReaderPartial
<1>17. ReaderHeard'
  <2>1. heard >= 0 => pipe'[1].packet.continuity = (heard + 1) % 4
    <3>1. CASE L > 0
      BY <1>0, <1>4, <1>6, <1>15, <3>1 DEF ReaderHeard
    <3>2. CASE L = 0
      <4>1. pipe'[1].packet = packets[1]
        BY <1>4, <1>15, <3>2
      <4> QED
        BY <1>0, <1>6, <1>8, <3>2, <4>1 DEF ReaderHeard
    <3> QED
      BY <1>15, <3>1, <3>2
  <2>2. NextWritten' = (pipe'[L + n].packet.continuity + 1) % 4
    <3>1. n \in 1 .. n
      BY <1>3
    <3> QED
      BY <1>3, <1>4, <1>8, <3>1
  <2> QED
    BY <1>4, <1>5, <1>6, <2>1, <2>2 DEF ReaderHeard
<1>18. \A r \in Records' : r \in Records \/ r = <<N, group>>
  <2>1. ASSUME NEW i \in 1 .. (L + n)
        PROVE  \/ <<pipe'[i].number, pipe'[i].packet.data.group>> \in Records
               \/ <<pipe'[i].number, pipe'[i].packet.data.group>> = <<N, group>>
    <3>1. CASE i \in 1 .. L
      BY <1>4, <3>1 DEF Records, L
    <3>2. CASE i \notin 1 .. L
      <4>1. PICK k \in 1 .. n : i = L + k
        BY <1>4, <3>2
      <4>2. pipe'[i].packet = packets[k] /\ pipe'[i].number = N
        BY <1>4, <4>1
      <4>3. packets[k].data.group = group
        BY <1>3
      <4> QED
        BY <4>2, <4>3
    <3> QED
      BY <3>1, <3>2
  <2> QED
    BY <1>4, <1>5, <2>1 DEF Records
<1>19. RecordsTrue'
  BY <1>0, <1>4, <1>5, <1>7, <1>18 DEF RecordsTrue
<1>20. RecordsTell'
  <2>1. ASSUME NEW r \in Records', NEW s \in Records', s[1] = r[1] + 1
        PROVE  Tells(r[2], s[2])
    <3>1. CASE r \in Records /\ s \in Records
      BY <1>0, <2>1, <3>1 DEF RecordsTell
    <3>2. CASE r \in Records /\ s = <<N, group>>
      <4>1. r[1] = Written
        BY <1>4, <1>7, <2>1, <3>2
      <4> QED
        BY <1>0, <1>1, <1>8, <3>2, <4>1 DEF RecordsTell
    <3>3. CASE r = <<N, group>>
      <4>1. s[1] \in 1 .. N
        BY <1>4, <1>7, <1>18
      <4> QED
        BY <1>4, <2>1, <3>3, <4>1
    <3> QED
      BY <1>18, <3>1, <3>2, <3>3
  <2>2. ASSUME NEW r \in Records', r[1] = N
        PROVE  r[2] = group
    BY <1>4, <1>7, <1>18, <2>2
  <2> QED
    BY <1>1, <1>4, <1>5, <2>1, <2>2 DEF RecordsTell
<1>21. Counted'
  <2> SUFFICES ASSUME closes = 0
               PROVE  /\ \A i \in 1 .. Len(rebuilt) : rebuilt[i].number = i
                      /\ N = Len(rebuilt) + Cardinality(InPipe')
                      /\ pipe'[1].number = Len(rebuilt) + 1
    BY <1>4, <1>5 DEF Counted
  <2>1. /\ \A i \in 1 .. Len(rebuilt) : rebuilt[i].number = i
        /\ N - 1 = Len(rebuilt) + Cardinality(InPipe)
        /\ pipe # <<>> => pipe[1].number = Len(rebuilt) + 1
    BY <1>0, <1>4 DEF Counted
  <2>2. IsFiniteSet(InPipe) /\ L + n \notin InPipe
    <3>1. InPipe \in SUBSET (1 .. L)
      BY DEF InPipe, L
    <3>2. IsFiniteSet(1 .. L)
      <4>1. L \in Int
        BY <1>4
      <4> QED
        BY <4>1, FS_Interval
    <3>3. L + n \notin 1 .. L
      BY <1>3, <1>4
    <3> QED
      BY <3>1, <3>2, <3>3, FS_Subset
  <2>3. InPipe' = InPipe \cup {L + n}
    <3>1. ASSUME NEW i \in 1 .. (L + n)
          PROVE  Ends(pipe'[i].packet) <=> i \in InPipe \/ i = L + n
      <4>1. CASE i \in 1 .. L
        BY <1>3, <1>4, <4>1 DEF InPipe, L
      <4>2. CASE i \notin 1 .. L
        <5>1. PICK k \in 1 .. n : i = L + k
          BY <1>4, <4>2
        <5>2. i \notin InPipe
          BY <4>2 DEF InPipe, L
        <5>3. k = n <=> i = L + n
          BY <1>3, <1>4, <5>1
        <5> QED
          BY <1>3, <1>4, <5>1, <5>2, <5>3
      <4> QED
        BY <4>1, <4>2
    <3>2. \A i \in InPipe : i \in 1 .. (L + n)
      BY <1>3, <1>4 DEF InPipe, L
    <3>3. L + n \in 1 .. (L + n)
      BY <1>3, <1>4
    <3>4. InPipe' = {i \in 1 .. (L + n) : Ends(pipe'[i].packet)}
      BY <1>4 DEF InPipe
    <3> QED
      BY <3>1, <3>2, <3>3, <3>4
  <2>4. Cardinality(InPipe') = Cardinality(InPipe) + 1
    BY <2>2, <2>3, FS_AddElement
  <2>5. Cardinality(InPipe) \in Nat /\ Len(rebuilt) \in Nat
    BY <1>0, <2>2, FS_CardinalityType DEF OwnTypes
  <2>6. pipe'[1].number = Len(rebuilt) + 1
    <3>1. CASE L > 0
      BY <1>4, <1>6, <1>15, <2>1, <3>1
    <3>2. CASE L = 0
      <4>1. pipe'[1].number = N
        BY <1>4, <1>15, <3>2
      <4>2. InPipe = {}
        BY <3>2 DEF InPipe, L
      <4> QED
        BY <1>4, <2>1, <2>5, <4>1, <4>2, FS_EmptySet
    <3> QED
      BY <1>15, <3>1, <3>2
  <2> QED
    BY <1>4, <2>1, <2>4, <2>5, <2>6
<1>22. ~confused'
  BY <1>0, <1>1 DEF readerVars
<1> QED
  BY <1>9, <1>10, <1>11, <1>12, <1>13, <1>14, <1>16, <1>17, <1>19, <1>20, <1>21, <1>22
  DEF Inv

(* A burst goes in behind what is in the pipe and continues its index, or  *)
(* no pipe takes it.                                                       *)
LEMMA WriteInv ==
  ASSUME Inv, Write
  PROVE  Inv'
<1>1. fifo \in {"pipe", "nopipe"}
  BY DEF Write
<1> QED
  BY <1>1, WriteNowhereInv, WritePipeInv

(* The kernel queues a datagram behind the others, or drops it.            *)
LEMMA ArriveInv ==
  ASSUME Inv, NEW p \in Payloads, Arrive(p)
  PROVE  Inv'
<1> DEFINE A == Len(arrived)
<1>0. /\ OwnTypes /\ MainState /\ FifoState /\ NetOrder /\ PipeStream /\ PipeNumbers
      /\ ReaderPartial /\ ReaderHeard /\ RecordsTrue /\ RecordsTell /\ Counted /\ ~confused
      /\ PP!Inv /\ GP!Inv
  BY DEF Inv
<1>1. /\ A < MaxArrivals
      /\ arrived' = Append(arrived, p)
      /\ \/ socket_buffer' = Append(socket_buffer, A + 1) /\ Len(socket_buffer) < SocketCap
         \/ socket_buffer' = socket_buffer
      /\ UNCHANGED <<received, mainVars, grouperVars, packerVars, pipe, readerVars>>
  BY DEF Arrive
<1>2. /\ pc' = pc /\ addresses_parse' = addresses_parse /\ is_pipe' = is_pipe
      /\ fifo' = fifo /\ held' = held /\ received' = received /\ pipe' = pipe
      /\ reading' = reading /\ closes' = closes /\ hunting' = hunting /\ heard' = heard
      /\ partial' = partial /\ rebuilt' = rebuilt /\ confused' = confused
      /\ group' = group /\ m_continuity_index' = m_continuity_index
      /\ building' = building /\ rest' = rest /\ packets' = packets
  BY <1>1 DEF mainVars, readerVars, grouperVars, packerVars
<1>3. /\ arrived \in Seq(Payloads) /\ A \in Nat
      /\ received \in Seq(1 .. A) /\ socket_buffer \in Seq(1 .. A)
      /\ SocketCap \in Nat
  BY <1>0, BoundsAssumption DEF OwnTypes
<1>4. /\ arrived' \in Seq(Payloads) /\ Len(arrived') = A + 1
      /\ \A i \in 1 .. A : arrived'[i] = arrived[i]
  BY <1>1, <1>3
<1> HIDE DEF A
<1>5. received' \in Seq(1 .. A + 1) /\ socket_buffer' \in Seq(1 .. A + 1)
  <2>1. Seq(1 .. A) \subseteq Seq(1 .. A + 1)
    <3>1. 1 .. A \subseteq 1 .. A + 1
      BY <1>3
    <3> QED
      BY <3>1, SeqMonotonic
  <2>2. A + 1 \in 1 .. A + 1
    BY <1>3
  <2>3. Append(socket_buffer, A + 1) \in Seq(1 .. A + 1)
    BY <1>3, <2>1, <2>2, AppendProperties
  <2> QED
    BY <1>1, <1>2, <1>3, <2>1, <2>3
<1>6. OwnTypes'
  <2>1. Len(socket_buffer') <= SocketCap
    BY <1>0, <1>1, <1>3 DEF OwnTypes
  <2> QED
    BY <1>0, <1>2, <1>4, <1>5, <2>1 DEF OwnTypes
<1>7. PP!Inv' /\ GP!Inv'
  BY <1>0, <1>1, GeneratorsRest
<1>8. MainState' /\ FifoState'
  BY <1>0, <1>2 DEF MainState, FifoState
<1>9. \A i \in 1 .. Len(received) : received[i] \in 1 .. A
  BY <1>3
<1>10. NetOrder'
  <2>1. ASSUME NEW i \in 1 .. Len(received), NEW j \in 1 .. Len(socket_buffer')
        PROVE  received[i] < socket_buffer'[j]
    <3>1. CASE j \in 1 .. Len(socket_buffer) /\ socket_buffer'[j] = socket_buffer[j]
      BY <1>0, <3>1 DEF NetOrder
    <3>2. CASE socket_buffer'[j] = A + 1
      BY <1>3, <1>9, <3>2
    <3>3. CASE socket_buffer' = socket_buffer
      BY <3>1, <3>3
    <3>4. CASE socket_buffer' = Append(socket_buffer, A + 1)
      <4>1. /\ Len(socket_buffer') = Len(socket_buffer) + 1 /\ Len(socket_buffer) \in Nat
            /\ socket_buffer'[Len(socket_buffer) + 1] = A + 1
            /\ \A k \in 1 .. Len(socket_buffer) : socket_buffer'[k] = socket_buffer[k]
        BY <1>3, <3>4
      <4>2. j \in 1 .. Len(socket_buffer) \/ j = Len(socket_buffer) + 1
        BY <4>1
      <4> QED
        BY <3>1, <3>2, <4>1, <4>2
    <3> QED
      BY <1>1, <3>3, <3>4
  <2>2. held # NoPayload => received # <<>> /\ held = Cut(arrived'[received[Len(received)]])
    <3>1. received # <<>> => Len(received) \in 1 .. Len(received)
      BY <1>3
    <3>2. received # <<>> =>
            arrived'[received[Len(received)]] = arrived[received[Len(received)]]
      BY <1>4, <1>9, <3>1
    <3> QED
      BY <1>0, <3>2 DEF NetOrder
  <2>3. Len(arrived') <= MaxArrivals
    BY <1>1, <1>3, <1>4, BoundsAssumption DEF A
  <2> QED
    BY <1>0, <1>2, <2>1, <2>2, <2>3 DEF NetOrder
<1>11. Written' = Written /\ Records' = Records /\ InPipe' = InPipe
  BY <1>2 DEF Written, Records, InPipe
<1>12. PipeStream' /\ PipeNumbers' /\ ReaderPartial'
  BY <1>0, <1>2, <1>11 DEF PipeStream, PipeNumbers, ReaderPartial
<1>13. ReaderHeard'
  BY <1>0, <1>2 DEF ReaderHeard, Ended, NextWritten
<1>14. RecordsTrue'
  <2>1. Written <= Len(received) /\ Len(received) \in Nat /\ Written \in Int
    BY <1>3 DEF Written
  <2>2. ASSUME NEW r \in Records
        PROVE  r[2].datagram = Datagram(Cut(arrived'[received[r[1]]]))
    <3>1. r[1] \in 1 .. Len(received)
      BY <1>0, <2>1 DEF RecordsTrue
    <3> QED
      BY <1>0, <1>4, <1>9, <3>1 DEF RecordsTrue
  <2> QED
    BY <1>0, <1>2, <1>11, <2>2 DEF RecordsTrue
<1>15. RecordsTell'
  BY <1>0, <1>2, <1>11 DEF RecordsTell, Ended
<1>16. Counted' /\ ~confused'
  BY <1>0, <1>2, <1>11 DEF Counted
<1> QED
  BY <1>6, <1>7, <1>8, <1>10, <1>12, <1>13, <1>14, <1>15, <1>16 DEF Inv

(* A reader that leaves forgets what it had of a group.                    *)
LEMMA ReaderClosesInv ==
  ASSUME Inv, ReaderCloses
  PROVE  Inv'
<1>0. /\ OwnTypes /\ MainState /\ FifoState /\ NetOrder /\ PipeStream /\ PipeNumbers
      /\ ReaderPartial /\ ReaderHeard /\ RecordsTrue /\ RecordsTell /\ Counted /\ ~confused
      /\ PP!Inv /\ GP!Inv
  BY DEF Inv
<1>1. /\ closes < MaxCloses /\ reading' = FALSE /\ closes' = closes + 1 /\ hunting' = TRUE
      /\ heard' = -1 /\ partial' = <<>>
      /\ rebuilt' = rebuilt /\ confused' = confused
      /\ UNCHANGED <<mainVars, grouperVars, packerVars, netVars>>
  BY DEF ReaderCloses
<1>2. pipe' = pipe \/ (Ended /\ pipe' = <<>>)
  BY DEF ReaderCloses, Ended
<1>3. closes' \in 1 .. MaxCloses
  BY <1>0, <1>1, BoundsAssumption DEF OwnTypes
<1>4. PP!Inv' /\ GP!Inv'
  BY <1>0, <1>1, GeneratorsRest
<1>5. OwnTypes'
  <2>1. pipe' \in Seq(Tagged) /\ Len(pipe') <= PipeCap
    <3>1. CASE pipe' = pipe
      BY <1>0, <3>1 DEF OwnTypes
    <3>2. CASE pipe' = <<>>
      <4>1. Len(pipe') = 0 /\ PipeCap >= 0
        BY <3>2, BoundsAssumption
      <4>2. pipe' \in Seq(Tagged)
        BY <3>2
      <4> QED
        BY <4>1, <4>2
    <3> QED
      BY <1>2, <3>1, <3>2
  <2>2. closes' \in 0 .. MaxCloses /\ partial' \in Seq(Packer!Packet) /\ heard' \in -1 .. 3
    BY <1>1, <1>3
  <2> QED
    BY <1>0, <1>1, <2>1, <2>2 DEF OwnTypes, mainVars, netVars
<1>6. MainState' /\ NetOrder'
  BY <1>0, <1>1 DEF MainState, NetOrder, mainVars, grouperVars, packerVars, netVars
<1>7. FifoState'
  BY <1>0, <1>1, <1>2 DEF FifoState, mainVars, netVars
<1>8. Written' = Written
  BY <1>1 DEF Written, mainVars, netVars
<1>9. PipeStream' /\ PipeNumbers'
  BY <1>0, <1>1, <1>2, <1>8 DEF PipeStream, PipeNumbers
<1>10. ReaderPartial'
  BY <1>1, <1>3 DEF ReaderPartial
<1>11. ReaderHeard'
  BY <1>0, <1>1, <1>2 DEF ReaderHeard, Ended, NextWritten, mainVars, packerVars
<1>12. Records' \subseteq Records
  BY <1>1, <1>2 DEF Records
<1>13. RecordsTrue'
  BY <1>0, <1>1, <1>8, <1>12 DEF RecordsTrue, netVars
<1>14. RecordsTell'
  BY <1>0, <1>1, <1>8, <1>12 DEF RecordsTell, Ended, mainVars, grouperVars
<1>15. Counted' /\ ~confused'
  BY <1>0, <1>1, <1>3 DEF Counted
<1> QED
  BY <1>4, <1>5, <1>6, <1>7, <1>9, <1>10, <1>11, <1>13, <1>14, <1>15 DEF Inv

(* The three things a reader may do with a packet: skip it, keep it, or    *)
(* rebuild a group with it.                                                *)
Skips ==
  /\ hunting /\ ~Starts(pipe[1].packet)
  /\ hunting' = TRUE /\ partial' = partial /\ rebuilt' = rebuilt /\ confused' = confused

Keeps ==
  /\ ~(hunting /\ ~Starts(pipe[1].packet)) /\ ~Ends(pipe[1].packet)
  /\ hunting' = FALSE /\ partial' = Append(partial, pipe[1].packet) /\ rebuilt' = rebuilt
  /\ confused' = (confused \/ ~Continues(pipe[1].packet))

Rebuilds ==
  /\ ~(hunting /\ ~Starts(pipe[1].packet)) /\ Ends(pipe[1].packet)
  /\ hunting' = FALSE /\ partial' = <<>>
  /\ confused' = (\/ confused
                  \/ ~Continues(pipe[1].packet)
                  \/ ~Joins(Append(partial, pipe[1].packet), pipe[1].packet.data.group))
  /\ rebuilt' = Append(rebuilt, [group  |-> pipe[1].packet.data.group,
                                 number |-> pipe[1].number])

(* A packet taken from the pipe is skipped, kept or completes a group; a   *)
(* gap it cannot explain does not occur.                                   *)
LEMMA ReaderTakesCases ==
  ASSUME Inv, ReaderTakes
  PROVE  LET L == Len(pipe)
         IN  /\ L \in Nat /\ L > 0 /\ pipe \in Seq(Tagged) /\ pipe # <<>>
             /\ pipe' \in Seq(Tagged) /\ Len(pipe') = L - 1
             /\ \A i \in 1 .. L - 1 : pipe'[i] = pipe[i + 1]
             /\ pipe[1] \in Tagged /\ fifo = "pipe"
             /\ heard' = pipe[1].packet.continuity
             /\ Skips \/ Keeps \/ Rebuilds
             /\ reading' = reading /\ closes' = closes
             /\ UNCHANGED <<mainVars, grouperVars, packerVars, netVars>>
<1>0. pipe \in Seq(Tagged) /\ pipe # <<>> /\ pipe' = Tail(pipe) /\ Head(pipe) = pipe[1]
  BY DEF Inv, OwnTypes, ReaderTakes
<1>1. /\ Len(pipe) \in Nat /\ Len(pipe) > 0 /\ pipe[1] \in Tagged
      /\ pipe' \in Seq(Tagged) /\ Len(pipe') = Len(pipe) - 1
      /\ \A i \in 1 .. Len(pipe) - 1 : pipe'[i] = pipe[i + 1]
  BY <1>0
<1>2. fifo = "pipe"
  BY <1>0 DEF Inv, FifoState
<1>3. /\ heard' = pipe[1].packet.continuity
      /\ reading' = reading /\ closes' = closes
      /\ UNCHANGED <<mainVars, grouperVars, packerVars, netVars>>
  BY <1>0 DEF ReaderTakes
<1>4. Skips \/ Keeps \/ Rebuilds
  <2> DEFINE p    == pipe[1].packet
             skip == hunting /\ ~Starts(p)
  <2>1. /\ hunting' = skip
        /\ \/ skip /\ UNCHANGED <<partial, rebuilt, confused>>
           \/ /\ ~skip /\ ~Ends(p)
              /\ partial' = Append(partial, p)
              /\ confused' = (confused \/ ~Continues(p))
              /\ UNCHANGED rebuilt
           \/ /\ ~skip /\ Ends(p)
              /\ partial' = <<>>
              /\ confused' = (\/ confused \/ ~Continues(p)
                              \/ ~Joins(Append(partial, p), p.data.group))
              /\ rebuilt' = Append(rebuilt, [group  |-> p.data.group, number |-> pipe[1].number])
    BY <1>0, Zenon DEF ReaderTakes
  <2>s. skip \in BOOLEAN /\ (skip => hunting' = TRUE) /\ (~skip => hunting' = FALSE)
    <3>1. skip = TRUE \/ skip = FALSE
      OBVIOUS
    <3> QED
      BY <2>1, <3>1, Zenon
  <2>2. CASE skip /\ UNCHANGED <<partial, rebuilt, confused>>
    BY <2>1, <2>s, <2>2 DEF Skips
  <2>3. CASE /\ ~skip /\ ~Ends(p)
             /\ partial' = Append(partial, p)
             /\ confused' = (confused \/ ~Continues(p))
             /\ UNCHANGED rebuilt
    BY <2>1, <2>s, <2>3, Zenon DEF Keeps
  <2>4. CASE /\ ~skip /\ Ends(p)
             /\ partial' = <<>>
             /\ confused' = (\/ confused \/ ~Continues(p)
                             \/ ~Joins(Append(partial, p), p.data.group))
             /\ rebuilt' = Append(rebuilt, [group  |-> p.data.group, number |-> pipe[1].number])
    BY <2>1, <2>s, <2>4, Zenon DEF Rebuilds
  <2> QED
    BY <2>1, <2>2, <2>3, <2>4, Zenon
<1> QED
  BY <1>0, <1>1, <1>2, <1>3, <1>4

(* What follows the packet at the head of the pipe.                        *)
LEMMA NextInPipe ==
  ASSUME Inv, ReaderTakes
  PROVE  /\ pipe' # <<>> <=> Len(pipe) > 1
         /\ pipe' # <<>> => /\ pipe'[1] = pipe[2]
                            /\ Follows(pipe[1], pipe'[1])
                            /\ pipe'[Len(pipe')] = pipe[Len(pipe)]
         /\ pipe' = <<>> => Ends(pipe[1].packet)
<1> DEFINE L == Len(pipe)
<1>1. /\ L \in Nat /\ L > 0
      /\ pipe' \in Seq(Tagged) /\ Len(pipe') = L - 1
      /\ \A i \in 1 .. L - 1 : pipe'[i] = pipe[i + 1]
  BY ReaderTakesCases
<1>2. PipeStream /\ pipe # <<>>
  BY ReaderTakesCases DEF Inv
<1>3. pipe' # <<>> <=> L > 1
  BY <1>1
<1>4. ASSUME L > 1
      PROVE  pipe'[1] = pipe[2] /\ pipe'[L - 1] = pipe[L] /\ Follows(pipe[1], pipe[2])
  <2>1. 1 \in 1 .. L - 1 /\ L - 1 \in 1 .. L - 1 /\ 2 \in 2 .. L
    BY <1>1, <1>4
  <2>2. pipe'[1] = pipe[1 + 1] /\ pipe'[L - 1] = pipe[(L - 1) + 1]
    BY <1>1, <2>1
  <2>3. Follows(pipe[2 - 1], pipe[2])
    BY <1>2, <2>1 DEF PipeStream
  <2> QED
    BY <1>1, <2>2, <2>3
<1>5. L = 1 => Ends(pipe[1].packet)
  BY <1>2 DEF PipeStream
<1> HIDE DEF L
<1> QED
  BY <1>1, <1>3, <1>4, <1>5 DEF L

(* What the reader takes always continues what it took before, and the     *)
(* packets of a group that ends join to that group.                        *)
LEMMA TakenContinues ==
  ASSUME Inv, ReaderTakes, ~(hunting /\ ~Starts(pipe[1].packet))
  PROVE  LET p  == pipe[1].packet
             ps == Append(partial, p)
         IN  /\ Continues(p)
             /\ ps \in Seq(Packer!Packet) /\ Len(ps) = Len(partial) + 1 /\ Len(partial) \in Nat
             /\ ps[Len(ps)] = p
             /\ \A i \in 1 .. Len(ps) :
                  /\ ps[i].data.group = p.data.group
                  /\ ps[i].data.from = IF i = 1 THEN 0 ELSE ps[i - 1].data.to
             /\ Ends(p) => Joins(ps, p.data.group)
<1> DEFINE p  == pipe[1].packet
           ps == Append(partial, p)
           m  == Len(partial)
<1>0. /\ PipeStream /\ ReaderPartial /\ ReaderHeard
      /\ partial \in Seq(Packer!Packet) /\ m \in Nat /\ hunting \in BOOLEAN
  BY DEF Inv, OwnTypes
<1>1. p \in Packer!Packet /\ pipe # <<>> /\ 1 \in 1 .. Len(pipe)
  BY ReaderTakesCases DEF Tagged
<1>2. Starts(p) <=> partial = <<>>
  <2>1. CASE hunting
    BY <1>0, <2>1 DEF ReaderPartial
  <2>2. CASE ~hunting
    BY <1>0, <1>1, <2>2 DEF ReaderPartial
  <2> QED
    BY <2>1, <2>2
<1>3. Continues(p)
  BY <1>0, <1>1, <1>2 DEF Continues, ReaderHeard
<1>4. /\ ps \in Seq(Packer!Packet) /\ Len(ps) = m + 1
      /\ ps[m + 1] = p
      /\ \A i \in 1 .. m : ps[i] = partial[i]
  BY <1>0, <1>1
<1>5. ASSUME NEW i \in 1 .. m + 1
      PROVE  /\ ps[i].data.group = p.data.group
             /\ ps[i].data.from = IF i = 1 THEN 0 ELSE ps[i - 1].data.to
  <2>1. CASE i \in 1 .. m
    <3>1. partial # <<>>
      BY <1>0, <2>1
    <3>2. partial[i].data.group = p.data.group
      BY <1>0, <2>1, <3>1 DEF ReaderPartial
    <3>3. partial[i].data.from = IF i = 1 THEN 0 ELSE partial[i - 1].data.to
      BY <1>0, <2>1 DEF ReaderPartial
    <3>4. i # 1 => i - 1 \in 1 .. m
      BY <1>0, <2>1
    <3> HIDE DEF ps, p
    <3> QED
      BY <1>4, <2>1, <3>2, <3>3, <3>4
  <2>2. CASE i = m + 1 /\ m = 0
    <3>1. partial = <<>>
      BY <1>0, <2>2
    <3>2. p.data.from = 0
      BY <1>0, <1>1, <1>2, <3>1 DEF PipeStream
    <3> HIDE DEF ps, p
    <3> QED
      BY <1>4, <2>2, <3>2
  <2>3. CASE i = m + 1 /\ m > 0
    <3>1. partial # <<>> /\ m \in 1 .. m /\ i # 1 /\ i - 1 = m
      BY <1>0, <2>3
    <3>2. p.data.from = partial[m].data.to
      BY <1>0, <3>1 DEF ReaderPartial
    <3> HIDE DEF ps, p, m
    <3> QED
      BY <1>4, <2>3, <3>1, <3>2
  <2> QED
    BY <1>0, <2>1, <2>2, <2>3
<1>6. Ends(p) => p.data.to = p.data.group.size
  BY <1>0, <1>1 DEF PipeStream
<1> HIDE DEF ps, p, m
<1>7. Ends(p) => Joins(ps, p.data.group)
  BY <1>4, <1>5, <1>6 DEF Joins
<1> QED
  BY <1>0, <1>3, <1>4, <1>5, <1>7 DEF ps, p, m

(* The places at which groups end, when the packet at the head is gone.    *)
LEMMA InPipeShifts ==
  ASSUME Inv, ReaderTakes
  PROVE  /\ Cardinality(InPipe) \in Nat /\ Cardinality(InPipe') \in Nat
         /\ Cardinality(InPipe) = Cardinality(InPipe') + (IF Ends(pipe[1].packet) THEN 1 ELSE 0)
<1> DEFINE L    == Len(pipe)
           Rest == InPipe \ {1}
           f    == [i \in Rest |-> i - 1]
<1>1. /\ L \in Nat /\ L > 0 /\ Len(pipe') = L - 1
      /\ \A i \in 1 .. L - 1 : pipe'[i] = pipe[i + 1]
  BY ReaderTakesCases
<1>2. IsFiniteSet(InPipe)
  <2>1. L \in Int
    BY <1>1
  <2>2. IsFiniteSet(1 .. L)
    BY <2>1, FS_Interval
  <2>3. InPipe \in SUBSET (1 .. L)
    BY DEF InPipe
  <2> QED
    BY <2>2, <2>3, FS_Subset
<1>3. /\ IsFiniteSet(Rest)
      /\ Cardinality(Rest) = IF 1 \in InPipe THEN Cardinality(InPipe) - 1 ELSE Cardinality(InPipe)
  BY <1>2, FS_RemoveElement
<1>4. 1 \in InPipe <=> Ends(pipe[1].packet)
  BY <1>1 DEF InPipe
<1>5. f \in Bijection(Rest, InPipe')
  <2>1. \A i \in Rest : i \in 2 .. L /\ Ends(pipe[i].packet)
    BY <1>1 DEF InPipe
  <2>2. InPipe' = {i \in 1 .. L - 1 : Ends(pipe'[i].packet)}
    BY <1>1 DEF InPipe
  <2>3. \A i \in Rest : i - 1 \in InPipe'
    BY <1>1, <2>1, <2>2
  <2>4. f \in [Rest -> InPipe']
    BY <2>3
  <2>5. \A i, j \in Rest : f[i] = f[j] => i = j
    BY <2>1
  <2>6. ASSUME NEW k \in InPipe' PROVE \E i \in Rest : f[i] = k
    <3>1. k \in 1 .. L - 1 /\ Ends(pipe[k + 1].packet)
      BY <1>1, <2>2
    <3>2. k + 1 \in Rest
      BY <1>1, <3>1 DEF InPipe
    <3> QED
      BY <3>1, <3>2
  <2> HIDE DEF f, Rest
  <2> QED
    BY <2>4, <2>5, <2>6 DEF Bijection, Injection, Surjection, IsInjective
<1>6. IsFiniteSet(InPipe') /\ Cardinality(InPipe') = Cardinality(Rest)
  <2> HIDE DEF f, Rest
  <2>1. ExistsBijection(Rest, InPipe')
    BY <1>5 DEF ExistsBijection
  <2> QED
    BY <1>3, <2>1, FS_Bijection
<1> HIDE DEF f, Rest
<1> QED
  BY <1>2, <1>3, <1>4, <1>6, FS_CardinalityType

(* Each of the three keeps the invariant.                                  *)
LEMMA ReaderTakesInv ==
  ASSUME Inv, ReaderTakes
  PROVE  Inv'
<1> DEFINE L == Len(pipe)
           p == pipe[1].packet
<1>0. /\ OwnTypes /\ MainState /\ FifoState /\ NetOrder /\ PipeStream /\ PipeNumbers
      /\ ReaderPartial /\ ReaderHeard /\ RecordsTrue /\ RecordsTell /\ Counted /\ ~confused
      /\ PP!Inv /\ GP!Inv
  BY DEF Inv
<1>1. /\ L \in Nat /\ L > 0 /\ pipe \in Seq(Tagged) /\ pipe # <<>>
      /\ pipe' \in Seq(Tagged) /\ Len(pipe') = L - 1
      /\ \A i \in 1 .. L - 1 : pipe'[i] = pipe[i + 1]
      /\ pipe[1] \in Tagged /\ fifo = "pipe"
      /\ heard' = p.continuity
      /\ Skips \/ Keeps \/ Rebuilds
      /\ reading' = reading /\ closes' = closes
      /\ UNCHANGED <<mainVars, grouperVars, packerVars, netVars>>
  BY ReaderTakesCases
<1>2. /\ pipe' # <<>> <=> L > 1
      /\ pipe' # <<>> => /\ pipe'[1] = pipe[2]
                         /\ Follows(pipe[1], pipe'[1])
                         /\ pipe'[Len(pipe')] = pipe[L]
      /\ pipe' = <<>> => Ends(p)
  BY NextInPipe
<1>3. /\ pc' = pc /\ addresses_parse' = addresses_parse /\ is_pipe' = is_pipe
      /\ fifo' = fifo /\ held' = held /\ received' = received /\ arrived' = arrived
      /\ socket_buffer' = socket_buffer
      /\ group' = group /\ m_continuity_index' = m_continuity_index
      /\ building' = building /\ rest' = rest /\ packets' = packets
  BY <1>1 DEF mainVars, netVars, grouperVars, packerVars
<1>4. ASSUME Keeps \/ Rebuilds
      PROVE  LET ps == Append(partial, p)
             IN  /\ Continues(p)
                 /\ ps \in Seq(Packer!Packet) /\ Len(ps) = Len(partial) + 1 /\ Len(partial) \in Nat
                 /\ ps[Len(ps)] = p
                 /\ \A i \in 1 .. Len(ps) :
                      /\ ps[i].data.group = p.data.group
                      /\ ps[i].data.from = IF i = 1 THEN 0 ELSE ps[i - 1].data.to
                 /\ Ends(p) => Joins(ps, p.data.group)
  <2>1. ~(hunting /\ ~Starts(pipe[1].packet))
    BY <1>4 DEF Keeps, Rebuilds
  <2> QED
    BY <2>1, TakenContinues
<1>5. ~confused'
  <2>1. CASE Skips
    BY <1>0, <2>1 DEF Skips
  <2>2. CASE Keeps
    <3>1. Continues(p)
      BY <1>4, <2>2
    <3> QED
      BY <1>0, <2>2, <3>1 DEF Keeps
  <2>3. CASE Rebuilds
    <3>1. Continues(p) /\ Joins(Append(partial, p), p.data.group)
      <4>1. Ends(p)
        BY <2>3 DEF Rebuilds
      <4> QED
        BY <1>4, <2>3, <4>1
    <3> QED
      BY <1>0, <2>3, <3>1 DEF Rebuilds
  <2> QED
    BY <1>1, <2>1, <2>2, <2>3
<1>6. /\ partial \in Seq(Packer!Packet) /\ closes \in Nat
      /\ rebuilt \in Seq([group : Grouper!Groups, number : 1 .. MaxArrivals])
      /\ 1 \in 1 .. L /\ L \in 1 .. L
      /\ p \in Packer!Packet /\ pipe[1].number \in 1 .. MaxArrivals
      /\ p.data.group \in Grouper!Groups
  <2>1. 1 \in 1 .. L /\ L \in 1 .. L
    BY <1>1
  <2>2. p.data.group \in Grouper!Groups
    BY <1>0, <2>1 DEF PipeStream
  <2>3. p \in Packer!Packet /\ pipe[1].number \in 1 .. MaxArrivals
    BY <1>1 DEF Tagged
  <2> QED
    BY <1>0, <2>1, <2>2, <2>3, BoundsAssumption DEF OwnTypes
<1>7. /\ Rebuilds =>
           /\ Len(rebuilt') = Len(rebuilt) + 1
           /\ rebuilt'[Len(rebuilt) + 1].group = p.data.group
           /\ rebuilt'[Len(rebuilt) + 1].number = pipe[1].number
           /\ \A i \in 1 .. Len(rebuilt) : rebuilt'[i] = rebuilt[i]
      /\ ~Rebuilds => rebuilt' = rebuilt
      /\ rebuilt' \in Seq([group : Grouper!Groups, number : 1 .. MaxArrivals])
      /\ Len(rebuilt) \in Nat
  <2>1. CASE Rebuilds
    <3> DEFINE entry == [group |-> p.data.group, number |-> pipe[1].number]
    <3>1. rebuilt' = Append(rebuilt, entry)
      BY <2>1 DEF Rebuilds
    <3>2. entry \in [group : Grouper!Groups, number : 1 .. MaxArrivals]
      BY <1>6
    <3>3. entry.group = p.data.group /\ entry.number = pipe[1].number
      OBVIOUS
    <3> HIDE DEF entry
    <3> QED
      BY <1>6, <2>1, <3>1, <3>2, <3>3, AppendProperties
  <2>2. CASE ~Rebuilds
    BY <1>1, <1>6, <2>2 DEF Skips, Keeps
  <2> QED
    BY <2>1, <2>2
<1> HIDE DEF L, p
<1>8. PP!Inv' /\ GP!Inv'
  BY <1>0, <1>1, GeneratorsRest
<1>9. OwnTypes'
  <2>1. heard' \in -1 .. 3
    BY <1>1, <1>6 DEF Packer!Packet
  <2>2. hunting' \in BOOLEAN /\ confused' \in BOOLEAN /\ partial' \in Seq(Packer!Packet)
    <3>1. CASE Skips
      BY <1>0, <1>6, <3>1 DEF Skips, OwnTypes
    <3>2. CASE Keeps
      <4>1. partial' \in Seq(Packer!Packet) /\ hunting' \in BOOLEAN
        BY <1>4, <3>2 DEF Keeps, p
      <4>2. confused' \in BOOLEAN
        BY <3>2, Zenon DEF Keeps
      <4> QED
        BY <4>1, <4>2
    <3>3. CASE Rebuilds
      <4>1. partial' \in Seq(Packer!Packet) /\ hunting' \in BOOLEAN
        <5>1. partial' = <<>> /\ hunting' = FALSE
          BY <3>3 DEF Rebuilds
        <5> QED
          BY <5>1, EmptySeq
      <4>2. confused' \in BOOLEAN
        BY <3>3, Zenon DEF Rebuilds
      <4> QED
        BY <4>1, <4>2
    <3> QED
      BY <1>1, <3>1, <3>2, <3>3
  <2>3. Len(pipe') <= PipeCap
    BY <1>0, <1>1, BoundsAssumption DEF OwnTypes, L
  <2> QED
    BY <1>0, <1>1, <1>3, <1>7, <2>1, <2>2, <2>3 DEF OwnTypes
<1>10. MainState' /\ NetOrder' /\ FifoState'
  BY <1>0, <1>1, <1>3 DEF MainState, NetOrder, FifoState
<1>11. Written' = Written /\ Ended' = Ended /\ NextWritten' = NextWritten
  BY <1>3 DEF Written, Ended, NextWritten
<1>12. PipeStream'
  <2>1. ASSUME NEW i \in 1 .. L - 1
        PROVE  /\ pipe'[i].packet.data.group \in Grouper!Groups
               /\ Starts(pipe'[i].packet) => pipe'[i].packet.data.from = 0
               /\ Ends(pipe'[i].packet) =>
                    pipe'[i].packet.data.to = pipe'[i].packet.data.group.size
    <3>1. i + 1 \in 1 .. L
      BY <1>1
    <3> QED
      BY <1>0, <1>1, <3>1 DEF PipeStream, L
  <2>2. ASSUME NEW i \in 2 .. L - 1
        PROVE  Follows(pipe'[i - 1], pipe'[i])
    <3>1. i + 1 \in 2 .. L /\ i - 1 \in 1 .. L - 1 /\ i \in 1 .. L - 1 /\ (i + 1) - 1 = i /\ (i - 1) + 1 = i
      BY <1>1
    <3>2. Follows(pipe[(i + 1) - 1], pipe[i + 1])
      BY <1>0, <3>1 DEF PipeStream, L
    <3> QED
      BY <1>1, <3>1, <3>2
  <2>3. pipe' # <<>> => Ends(pipe'[Len(pipe')].packet)
    BY <1>0, <1>1, <1>2 DEF PipeStream, L
  <2> QED
    BY <1>1, <2>1, <2>2, <2>3 DEF PipeStream
<1>13. PipeNumbers'
  <2>1. \A i \in 1 .. L - 1 : i + 1 \in 1 .. L
    BY <1>1
  <2>2. \A i \in 1 .. L - 1 : pipe'[i].number \in 1 .. Written
    BY <1>0, <1>1, <2>1 DEF PipeNumbers, L
  <2>3. ASSUME NEW i \in 1 .. L - 1, NEW j \in 1 .. L - 1, i < j
        PROVE  /\ pipe'[i].number <= pipe'[j].number
               /\ Ends(pipe'[i].packet) => pipe'[i].number < pipe'[j].number
    <3>1. i + 1 \in 1 .. L /\ j + 1 \in 1 .. L /\ i + 1 < j + 1
      BY <1>1, <2>3
    <3>2. /\ pipe[i + 1].number <= pipe[j + 1].number
          /\ Ends(pipe[i + 1].packet) => pipe[i + 1].number < pipe[j + 1].number
      BY <1>0, <3>1 DEF PipeNumbers, L
    <3> QED
      BY <1>1, <3>2
  <2>4. pipe' # <<>> => pipe'[Len(pipe')].number = Written
    BY <1>0, <1>1, <1>2 DEF PipeNumbers, L
  <2>5. ASSUME NEW i \in 1 .. Len(rebuilt'), NEW j \in 1 .. L - 1
        PROVE  rebuilt'[i].number < pipe'[j].number
    <3>1. CASE i \in 1 .. Len(rebuilt) /\ rebuilt'[i] = rebuilt[i]
      BY <1>0, <1>1, <2>1, <3>1 DEF PipeNumbers, L
    <3>2. CASE Rebuilds /\ rebuilt'[i].number = pipe[1].number
      <4>1. Ends(pipe[1].packet) /\ 1 < j + 1
        BY <3>2 DEF Rebuilds
      <4> QED
        BY <1>0, <1>1, <1>6, <2>1, <3>2, <4>1 DEF PipeNumbers, L
    <3>3. CASE Rebuilds
      <4>1. i \in 1 .. Len(rebuilt) \/ i = Len(rebuilt) + 1
        BY <1>7, <3>3
      <4> QED
        BY <1>7, <3>1, <3>2, <3>3, <4>1
    <3> QED
      BY <1>7, <3>1, <3>3
  <2> QED
    BY <1>1, <1>11, <2>2, <2>3, <2>4, <2>5 DEF PipeNumbers
<1>14. closes = 0 => ~Skips
  BY <1>0, <1>1 DEF Skips, ReaderPartial
<1>15. ReaderPartial'
  <2>1. CASE Skips
    <3>1. partial' = <<>> /\ hunting' /\ closes' # 0
      BY <1>0, <1>1, <1>14, <2>1 DEF Skips, ReaderPartial
    <3> QED
      BY <3>1 DEF ReaderPartial
  <2>2. CASE Keeps
    <3>1. /\ partial' = Append(partial, p) /\ ~hunting' /\ ~Ends(p)
      BY <2>2 DEF Keeps, p
    <3>2. /\ Len(partial') = Len(partial) + 1 /\ Len(partial) \in Nat
          /\ partial'[Len(partial')] = p
          /\ \A i \in 1 .. Len(partial') :
               /\ partial'[i].data.group = p.data.group
               /\ partial'[i].data.from = IF i = 1 THEN 0 ELSE partial'[i - 1].data.to
      BY <1>4, <2>2, <3>1
    <3>3. 1 \in 1 .. Len(partial') /\ partial' # <<>>
      BY <1>6, <3>1, <3>2
    <3>4. partial'[1].data.group = p.data.group
      BY <3>2, <3>3
    <3>5. /\ pipe' # <<>>
          /\ ~Starts(pipe'[1].packet)
          /\ pipe'[1].packet.data.group = p.data.group
          /\ pipe'[1].packet.data.from = p.data.to
      BY <1>2, <3>1 DEF Follows, p
    <3> QED
      BY <3>1, <3>2, <3>3, <3>4, <3>5 DEF ReaderPartial
  <2>3. CASE Rebuilds
    <3>1. partial' = <<>> /\ Ends(p)
      BY <2>3 DEF Rebuilds, p
    <3>2. pipe' # <<>> => Starts(pipe'[1].packet)
      BY <1>2, <3>1 DEF Follows, p
    <3> QED
      BY <3>1, <3>2 DEF ReaderPartial
  <2> QED
    BY <1>1, <2>1, <2>2, <2>3
<1>16. ReaderHeard'
  <2>1. pipe' # <<>> => pipe'[1].packet.continuity = (heard' + 1) % 4
    BY <1>1, <1>2 DEF Follows, p
  <2>2. ~Ended /\ pipe' = <<>> => NextWritten = (heard' + 1) % 4
    <3>1. pipe' = <<>> => L = 1
      BY <1>1, <1>2
    <3> QED
      BY <1>0, <1>1, <3>1 DEF ReaderHeard, L, p
  <2>3. ~Ended /\ pipe' # <<>> => NextWritten = (pipe'[Len(pipe')].packet.continuity + 1) % 4
    BY <1>0, <1>1, <1>2 DEF ReaderHeard, L
  <2> QED
    BY <1>11, <2>1, <2>2, <2>3 DEF ReaderHeard
<1>17. Records' \subseteq Records
  <2>1. ASSUME NEW i \in 1 .. Len(rebuilt')
        PROVE  <<rebuilt'[i].number, rebuilt'[i].group>> \in Records
    <3>1. CASE i \in 1 .. Len(rebuilt) /\ rebuilt'[i] = rebuilt[i]
      BY <3>1 DEF Records
    <3>2. CASE rebuilt'[i].number = pipe[1].number /\ rebuilt'[i].group = p.data.group
      BY <1>6, <3>2 DEF Records, L, p
    <3>3. CASE Rebuilds
      <4>1. i \in 1 .. Len(rebuilt) \/ i = Len(rebuilt) + 1
        BY <1>7, <3>3
      <4> QED
        BY <1>7, <3>1, <3>2, <3>3, <4>1
    <3> QED
      BY <1>7, <3>1, <3>3
  <2>2. ASSUME NEW i \in 1 .. L - 1
        PROVE  <<pipe'[i].number, pipe'[i].packet.data.group>> \in Records
    <3>1. i + 1 \in 1 .. L
      BY <1>1
    <3> QED
      BY <1>1, <3>1 DEF Records, L
  <2> QED
    BY <1>1, <2>1, <2>2 DEF Records
<1>18. RecordsTrue'
  BY <1>0, <1>3, <1>11, <1>17 DEF RecordsTrue
<1>19. RecordsTell'
  BY <1>0, <1>3, <1>11, <1>17 DEF RecordsTell
<1>20. Counted'
  <2> SUFFICES ASSUME closes = 0
               PROVE  /\ \A i \in 1 .. Len(rebuilt') : rebuilt'[i].number = i
                      /\ Written = Len(rebuilt') + Cardinality(InPipe')
                      /\ pipe' # <<>> => pipe'[1].number = Len(rebuilt') + 1
    BY <1>1, <1>3, <1>11 DEF Counted
  <2>1. /\ \A i \in 1 .. Len(rebuilt) : rebuilt[i].number = i
        /\ Written = Len(rebuilt) + Cardinality(InPipe)
        /\ pipe[1].number = Len(rebuilt) + 1
    BY <1>0, <1>1 DEF Counted
  <2>2. /\ Cardinality(InPipe) \in Nat /\ Cardinality(InPipe') \in Nat
        /\ Cardinality(InPipe) = Cardinality(InPipe') + (IF Ends(p) THEN 1 ELSE 0)
    BY InPipeShifts DEF p
  <2>3. CASE Keeps
    <3>1. ~Ends(p) /\ rebuilt' = rebuilt
      BY <2>3 DEF Keeps, p
    <3>2. pipe'[1].number = pipe[1].number
      BY <1>2, <3>1 DEF Follows, p
    <3> QED
      BY <2>1, <2>2, <3>1, <3>2
  <2>4. CASE Rebuilds
    <3>1. Ends(p)
      BY <2>4 DEF Rebuilds, p
    <3>2. pipe' # <<>> => pipe'[1].number = pipe[1].number + 1
      BY <1>2, <3>1 DEF Follows, p
    <3>3. \A i \in 1 .. Len(rebuilt') : rebuilt'[i].number = i
      BY <1>7, <2>1, <2>4
    <3> QED
      BY <1>7, <2>1, <2>2, <2>4, <3>1, <3>2, <3>3
  <2> QED
    BY <1>1, <1>14, <2>3, <2>4
<1> QED
  BY <1>5, <1>8, <1>9, <1>10, <1>12, <1>13, <1>15, <1>16, <1>18, <1>19, <1>20 DEF Inv

(* The invariant is inductive.                                             *)
LEMMA NextInv ==
  ASSUME Inv, ReaderAway, [Next]_vars
  PROVE  Inv'
<1>1. CASE ReadConfig \/ OpenFifo \/ Bind \/ ReaderOpens \/ UNCHANGED vars
  BY <1>1, QuietSteps
<1>0. CASE ConfigError \/ BindThrows \/ ReceiveThrows \/ AddressThrows \/ BrokenPipe
  BY <1>0, EndSteps, EndInv
<1>2. CASE Receive
  BY <1>2, ReceiveInv
<1>3. CASE Wrap
  BY <1>3, WrapInv
<1>4. CASE Split
  BY <1>4, SplitInv
<1>5. CASE Pack
  BY <1>5, PackInv
<1>6. CASE Write
  BY <1>6, WriteInv
<1>7. ASSUME NEW p \in Payloads, Arrive(p) PROVE Inv'
  BY <1>7, ArriveInv
<1>8. CASE ReaderCloses
  BY <1>8, ReaderClosesInv
<1>9. CASE ReaderTakes
  BY <1>9, ReaderTakesInv
<1> QED
  BY <1>0, <1>1, <1>2, <1>3, <1>4, <1>5, <1>6, <1>7, <1>8, <1>9
  DEF Next, Main, Environment

(* The FIFO is opened with a reader, and the one that goes away is counted.*)
LEMMA AwayNext ==
  ASSUME Inv, ReaderAway, [Next]_vars
  PROVE  ReaderAway'
<1> USE DEF ReaderAway
<1>1. CASE ReadConfig \/ OpenFifo \/ Bind \/ ReaderOpens \/ UNCHANGED vars
  BY <1>1 DEF ReadConfig, OpenFifo, Bind, ReaderOpens, vars, mainVars, readerVars
<1>2. CASE ConfigError \/ BindThrows \/ ReceiveThrows \/ AddressThrows \/ BrokenPipe
  BY <1>2, EndSteps DEF ProgramEnds, End, readerVars
<1>3. CASE Receive \/ Wrap \/ Split \/ Pack \/ Write
  BY <1>3 DEF Receive, Wrap, Split, Pack, Write, readerVars
<1>4. ASSUME NEW p \in Payloads, Arrive(p) PROVE ReaderAway'
  BY <1>4 DEF Arrive, mainVars, readerVars
<1>5. CASE ReaderCloses
  <2>1. closes \in 0 .. MaxCloses /\ closes' = closes + 1
    BY <1>5 DEF ReaderCloses, Inv, OwnTypes
  <2>2. closes' > 0
    BY <2>1, BoundsAssumption
  <2> QED
    BY <1>5, <2>2 DEF ReaderCloses
<1>6. CASE ReaderTakes
  BY <1>6 DEF ReaderTakes
<1> QED
  BY <1>1, <1>2, <1>3, <1>4, <1>5, <1>6 DEF Next, Main, Environment

-----------------------------------------------------------------------------
(* Inv holds in every state of the injector.                               *)
THEOREM Invariance == Spec => []Inv
<1>1. Init => Inv /\ ReaderAway
  BY InitInv DEF Init, ReaderAway
<1>2. Inv /\ ReaderAway /\ [Next]_vars => Inv' /\ ReaderAway'
  BY NextInv, AwayNext
<1> QED
  BY <1>1, <1>2, PTL DEF Spec

(* Every variable of the program, of its generators, of the kernel's       *)
(* buffers and of the reader keeps its type.                               *)
THEOREM TypeCorrect == Spec => []TypeOK
<1>1. Inv => TypeOK
  BY TypesHold
<1> QED
  BY <1>1, Invariance, PTL

(* Whatever is sent, and whenever a reader comes or goes, what it takes    *)
(* from the FIFO counts on without a gap, and starts, continues and ends   *)
(* data groups in turn.                                                    *)
THEOREM ReaderIsNeverConfused == Spec => []ReaderNeverConfused
<1>1. Inv => ReaderNeverConfused
  BY DEF Inv, ReaderNeverConfused
<1> QED
  BY <1>1, Invariance, PTL

(* A datagram receive() returned is held, in the pipe, or rebuilt, as long *)
(* as the reader of the FIFO stays.                                        *)
THEOREM NothingIsLostInside == Spec => []NothingLostInside
<1>1. Inv => NothingLostInside
  <2> SUFFICES ASSUME Inv, fifo = "pipe", closes = 0
               PROVE  /\ \A i \in 1 .. Len(rebuilt) : rebuilt[i].number = i
                      /\ Len(received) = Len(rebuilt) + Cardinality(InPipe)
                                           + (IF held = NoPayload THEN 0 ELSE 1)
    BY DEF NothingLostInside
  <2>1. /\ \A i \in 1 .. Len(rebuilt) : rebuilt[i].number = i
        /\ Written = Len(rebuilt) + Cardinality(InPipe)
    BY DEF Inv, Counted
  <2>2. Len(received) \in Nat /\ Len(rebuilt) \in Nat
    BY DEF Inv, OwnTypes
  <2>3. Cardinality(InPipe) \in Nat
    <3>1. Len(pipe) \in Int
      BY DEF Inv, OwnTypes
    <3>2. IsFiniteSet(1 .. Len(pipe))
      BY <3>1, FS_Interval
    <3>3. InPipe \in SUBSET (1 .. Len(pipe))
      BY DEF InPipe
    <3> QED
      BY <3>2, <3>3, FS_Subset, FS_CardinalityType
  <2> QED
    BY <2>1, <2>2, <2>3 DEF Written
<1> QED
  BY <1>1, Invariance, PTL

(* A receiver that sees the continuity index of a data group again may     *)
(* take the group for a repetition, and one that sees it change for a new  *)
(* datagram.                                                               *)
THEOREM RepetitionIsTold == Spec => []RepetitionTold
<1>1. Inv => RepetitionTold
  <2> SUFFICES ASSUME Inv, NEW i \in 2 .. Len(rebuilt),
                      rebuilt[i].number = rebuilt[i - 1].number + 1
               PROVE  rebuilt[i].group.continuity = rebuilt[i - 1].group.continuity
                        <=> rebuilt[i].group.datagram.payload
                              = rebuilt[i - 1].group.datagram.payload
    BY DEF RepetitionTold
  <2>1. Len(rebuilt) \in Nat
    BY DEF Inv, OwnTypes
  <2>2. i \in 1 .. Len(rebuilt) /\ i - 1 \in 1 .. Len(rebuilt)
    BY <2>1
  <2>3. /\ <<rebuilt[i].number, rebuilt[i].group>> \in Records
        /\ <<rebuilt[i - 1].number, rebuilt[i - 1].group>> \in Records
    BY <2>2 DEF Records
  <2> QED
    BY <2>3 DEF Inv, RecordsTell, Tells
<1> QED
  BY <1>1, Invariance, PTL

-----------------------------------------------------------------------------
(* The length of a burst.                                                  *)

(* The size of the group the program holds.                                *)
GroupSized == group # NoGroup => group.size = 4 + group.datagram.size

(* Every step keeps the sizes of groups within what main can receive.      *)
LEMMA GroupSizedNext ==
  ASSUME Inv, GroupSized, [Next]_vars
  PROVE  GroupSized'
<1>1. CASE Wrap
  <2>1. Grouper!Build(Datagram(held))
    BY <1>1 DEF Wrap
  <2>2. group'.size = 2 + group'.datagram.size + 2
    BY <2>1 DEF Grouper!Build, Grouper!Group
  <2>3. Datagram(held) \in Datagrams
    BY <1>1 DEF Inv, OwnTypes, MainState, Wrap, Goto, Datagrams
  <2>4. group'.datagram = Datagram(held)
    BY <2>1 DEF Grouper!Build, Grouper!Group
  <2>5. group'.datagram.size \in Nat
    BY <2>3, <2>4, DatagramsHaveSize
  <2> QED
    BY <2>2, <2>5 DEF GroupSized
<1>2. CASE ~Wrap
  <2>1. UNCHANGED grouperVars
    BY <1>2 DEF Next, Main, Environment, ReadConfig, ConfigError, OpenFifo, Bind, BindThrows,
           End, Receive, ReceiveThrows, AddressThrows, Split, Pack, Write, BrokenPipe, Arrive, ReaderOpens,
           ReaderCloses, ReaderTakes, vars
  <2> QED
    BY <2>1 DEF GroupSized, grouperVars
<1> QED
  BY <1>1, <1>2

(* A run of slices from the first byte of a group of at most 1056 bytes to *)
(* the last, in packets of at least 24 bytes of which only the last is     *)
(* padded.                                                                 *)
Slices(n, from, to, pad, length) ==
  /\ n \in Nat \ {0}
  /\ from \in [1 .. n -> Nat] /\ to \in [1 .. n -> Nat]
  /\ pad \in [1 .. n -> Int] /\ length \in [1 .. n -> Int]
  /\ \A i \in 1 .. n :
       /\ from[i] = IF i = 1 THEN 0 ELSE to[i - 1]
       /\ length[i] = 5 + (to[i] - from[i]) + pad[i] /\ length[i] >= 24
       /\ pad[i] \in 0 .. 23
       /\ i < n => pad[i] = 0
  /\ to[n] <= 1056

(* Every packet but the last takes 19 bytes of the group or more, so that  *)
(* there are few, and all that they add to the group's bytes is five to    *)
(* each of them and the padding of the last.                               *)
LEMMA RunOfSlices ==
  ASSUME NEW n \in Nat, NEW from, NEW to, NEW pad, NEW length,
         Slices(n, from, to, pad, length)
  PROVE  Total(length) <= 1359 /\ Total(length) \in Int
<1>1. ASSUME NEW i \in 1 .. n
      PROVE  /\ from[i] \in Nat /\ to[i] \in Nat /\ pad[i] \in 0 .. 23 /\ length[i] \in Int
             /\ length[i] = 5 + (to[i] - from[i]) + pad[i] /\ length[i] >= 24
             /\ i = 1 => from[i] = 0
             /\ i # 1 => from[i] = to[i - 1]
             /\ i < n => pad[i] = 0
  BY DEF Slices
<1>2. n \in 1 .. n /\ n # 0 /\ to[n] <= 1056
  BY DEF Slices
<1>3. \A i \in 1 .. n : from[i] >= 19 * (i - 1)
  <2> DEFINE Short(i) == i \in 1 .. n /\ ~(from[i] >= 19 * (i - 1))
             B == {i \in Nat : Short(i)}
  <2>1. ASSUME NEW i \in Nat, Short(i)
        PROVE  \E j \in Nat : Short(j) /\ j < i
    <3> DEFINE j == i - 1
               a == from[i]
               b == from[j]
    <3>1. i \in 1 .. n /\ ~(a >= 19 * j)
      BY <2>1
    <3>2. a \in Nat /\ (i = 1 => a = 0)
      BY <1>1, <3>1
    <3> HIDE DEF a
    <3>3. i # 1
      BY <3>1, <3>2
    <3>4. j \in 1 .. n /\ j < n /\ j < i /\ j \in Nat
      BY <3>1, <3>3
    <3>5. /\ a = to[j] /\ b \in Nat /\ to[j] \in Nat
          /\ pad[j] = 0 /\ length[j] = 5 + (to[j] - b) + pad[j] /\ length[j] >= 24
      BY <1>1, <3>1, <3>3, <3>4 DEF a
    <3> HIDE DEF b, j, Short
    <3>6. a >= 19 + b
      BY <3>5
    <3>7. ~(b >= 19 * (j - 1))
      BY <3>1, <3>2, <3>4, <3>5, <3>6
    <3> QED
      BY <3>4, <3>7 DEF Short, b
  <2>2. \A i \in B : \E j \in B : j < i
    <3> HIDE DEF Short
    <3> QED
      BY <2>1
  <2>3. B = {}
    <3> HIDE DEF Short
    <3> QED
      BY <2>2, NoLeast
  <2>4. \A i \in Nat : ~Short(i)
    <3> HIDE DEF Short
    <3> QED
      BY <2>3
  <2> QED
    BY <2>4
<1> DEFINE a == from[n]
           b == to[n]
           p == pad[n]
<1>4. a >= 19 * (n - 1)
  BY <1>2, <1>3
<1>5. a \in Nat /\ b \in Nat /\ p \in 0 .. 23 /\ b <= 1056
      /\ length[n] = 5 + (b - a) + p /\ length[n] >= 24
  BY <1>1, <1>2
<1> HIDE DEF a, b, p
<1>6. n <= 56
  <2>1. a <= 1060
    BY <1>5
  <2> QED
    BY <1>4, <1>5, <2>1
<1> DEFINE packed == [i \in 0 .. n |-> 5 * i + (IF i = 0 THEN 0 ELSE to[i])
                                         + (IF i = n THEN p ELSE 0)]
<1>7. ASSUME NEW i \in 1 .. n
      PROVE  packed[i] = 5 * i + to[i] + pad[i] /\ packed[i] \in Int
  <2> DEFINE c == to[i]
             q == pad[i]
  <2>1. c \in Nat /\ q \in 0 .. 23 /\ (i < n => q = 0) /\ (i = n => q = p)
    BY <1>1 DEF p
  <2>2. packed[i] = 5 * i + c + (IF i = n THEN p ELSE 0)
    OBVIOUS
  <2> HIDE DEF c, q, packed
  <2>3. packed[i] = 5 * i + c + q /\ packed[i] \in Int
    BY <1>5, <2>1, <2>2
  <2> QED
    BY <2>3 DEF c, q
<1>8. packed[0] = 0
  BY <1>2
<1>9. packed \in [0 .. n -> Int]
  <2>1. packed = [i \in 0 .. n |-> packed[i]]
    OBVIOUS
  <2> HIDE DEF packed
  <2>2. ASSUME NEW i \in 0 .. n
        PROVE  packed[i] \in Int
    <3>1. i = 0 \/ i \in 1 .. n
      OBVIOUS
    <3> QED
      BY <1>7, <1>8, <3>1
  <2> QED
    BY <2>1, <2>2
<1>10. ASSUME NEW i \in 1 .. n
       PROVE  packed[i] = packed[i - 1] + length[i]
  <2> DEFINE j == i - 1
             c == to[i]
             d == from[i]
             q == pad[i]
  <2>1. packed[i] = 5 * i + c + q
    BY <1>7
  <2>2. d \in Nat /\ c \in Nat /\ q \in Int /\ length[i] = 5 + (c - d) + q
    BY <1>1
  <2>3. packed[j] = 5 * j + d
    <3>1. CASE i = 1
      <4>1. d = 0 /\ j = 0
        BY <1>1, <3>1
      <4> HIDE DEF packed, d, j
      <4> QED
        BY <1>8, <4>1
    <3>2. CASE i # 1
      <4>1. j \in 1 .. n /\ j < n
        BY <3>2
      <4>2. pad[j] = 0 /\ to[j] = d
        BY <1>1, <3>2, <4>1
      <4>3. packed[j] = 5 * j + to[j] + pad[j]
        BY <1>7, <4>1
      <4> HIDE DEF packed, j
      <4> QED
        BY <4>1, <4>2, <4>3, <2>2
    <3> QED
      BY <3>1, <3>2
  <2>4. i = j + 1 /\ j \in Int
    OBVIOUS
  <2> HIDE DEF packed, j, c, d, q
  <2>5. packed[i] = packed[j] + length[i]
    BY <2>1, <2>2, <2>3, <2>4
  <2> QED
    BY <2>5 DEF j
<1>11. packed[n] <= 1359 /\ packed[n] \in Int
  <2>1. packed[n] = 5 * n + b + p
    BY <1>2, <1>7 DEF b, p
  <2> HIDE DEF packed
  <2> QED
    BY <1>5, <1>6, <2>1
<1> HIDE DEF packed
<1>12. Total(length) = packed[n]
  <2>1. Steps(packed, length, n)
    BY <1>8, <1>9, <1>10 DEF Steps, Slices
  <2> QED
    BY <2>1, StepsAddUp, Zenon
<1> DEFINE total == Total(length)
           ends  == packed[n]
<1>13. total = ends /\ ends <= 1359 /\ ends \in Int
  BY <1>11, <1>12
<1> HIDE DEF total, ends
<1>14. total <= 1359 /\ total \in Int
  BY <1>13
<1> QED
  BY <1>14 DEF total

(* The packets of a finished call are such a run: the whole burst of a group *)
(* of the sizes the injector makes stays far below PIPE_BUF.                 *)
LEMMA BurstLength ==
  ASSUME PP!Inv, ~building, packets # <<>>, NEW g, rest.group = g, rest.to = g.size,
         g.size \in 0 .. 1056
  PROVE  /\ Total([i \in 1 .. Len(packets) |-> packets[i].length]) <= 1359
         /\ Total([i \in 1 .. Len(packets) |-> packets[i].length]) \in Int
<1> DEFINE n == Len(packets)
           from   == [i \in 1 .. n |-> packets[i].data.from]
           to     == [i \in 1 .. n |-> packets[i].data.to]
           pad    == [i \in 1 .. n |-> packets[i].padding]
           length == [i \in 1 .. n |-> packets[i].length]
<1>1. /\ n \in Nat /\ n > 0
      /\ \A i \in 1 .. n : packets[i].data.from = IF i = 1 THEN 0 ELSE packets[i - 1].data.to
      /\ packets[n].data.to = g.size
  BY FinishedCall
<1>2. ASSUME NEW i \in 1 .. n
      PROVE  /\ packets[i].length \in {24, 48, 72, 96}
             /\ packets[i].data.from \in Nat /\ packets[i].data.to \in Nat
             /\ packets[i].padding \in Int
  <2>1. packets \in Seq(PP!Packet)
    BY DEF PP!Inv, PP!TypeOK
  <2>2. packets[i] \in PP!Packet
    BY <2>1
  <2> QED
    BY <2>2 DEF PP!Packet, PP!Slice
<1>3. ASSUME NEW i \in 1 .. n
      PROVE  /\ packets[i].length
                  = 5 + (packets[i].data.to - packets[i].data.from) + packets[i].padding
             /\ packets[i].padding >= 0 /\ packets[i].padding < 24
             /\ i < n => packets[i].padding = 0
  <2>1. /\ packets[i].padding >= 0
        /\ packets[i].useful = packets[i].data.to - packets[i].data.from
        /\ 5 + packets[i].useful + packets[i].padding = packets[i].length
    BY DEF PP!Inv, PP!PacketsFit, PP!SizeOf
  <2>2. packets[i].padding < 24 /\ (i < n => packets[i].padding = 0)
    BY DEF PP!Inv, PP!NoWastedCapacity
  <2> QED
    BY <2>1, <2>2
<1>4. n \in Nat \ {0} /\ packets[n].data.to <= 1056
  <2> DEFINE s == g.size
             e == packets[n].data.to
  <2>1. s \in 0 .. 1056 /\ e = s /\ n \in Nat /\ n > 0
    BY <1>1
  <2> HIDE DEF n, s, e
  <2>2. n \in Nat \ {0} /\ e <= 1056
    BY <2>1
  <2> QED
    BY <2>2 DEF e
<1> HIDE DEF n
<1>5. /\ from \in [1 .. n -> Nat] /\ to \in [1 .. n -> Nat]
      /\ pad \in [1 .. n -> Int] /\ length \in [1 .. n -> Int]
  BY <1>2
<1>6. ASSUME NEW i \in 1 .. n
      PROVE  /\ from[i] = IF i = 1 THEN 0 ELSE to[i - 1]
             /\ length[i] = 5 + (to[i] - from[i]) + pad[i] /\ length[i] >= 24
             /\ pad[i] \in 0 .. 23
             /\ i < n => pad[i] = 0
  <2>1. from[i] = IF i = 1 THEN 0 ELSE to[i - 1]
    BY <1>1
  <2>2. length[i] = 5 + (to[i] - from[i]) + pad[i] /\ length[i] >= 24
    BY <1>2, <1>3
  <2>3. pad[i] \in 0 .. 23 /\ (i < n => pad[i] = 0)
    <3> DEFINE q == packets[i].padding
    <3>1. pad[i] = q
      OBVIOUS
    <3>2. q \in Int /\ q >= 0 /\ q < 24 /\ (i < n => q = 0)
      BY <1>2, <1>3
    <3> HIDE DEF pad, q
    <3> QED
      BY <3>1, <3>2
  <2> QED
    BY <2>1, <2>2, <2>3
<1>7. to[n] <= 1056
  BY <1>4
<1> HIDE DEF from, to, pad, length
<1>8. Slices(n, from, to, pad, length)
  BY <1>4, <1>5, <1>6, <1>7 DEF Slices
<1>9. Total(length) <= 1359 /\ Total(length) \in Int
  BY <1>4, <1>8, RunOfSlices
<1> QED
  BY <1>9, Zenon DEF length, n

(* The packets of one datagram, whatever its size was, are fewer bytes     *)
(* than a pipe takes in one piece.                                         *)
THEOREM BurstsAreAtomic == Spec => []BurstIsAtomic
<1>1. Init => GroupSized
  BY DEF Init, Grouper!Init, GroupSized
<1>2. Inv /\ GroupSized /\ [Next]_vars => GroupSized'
  BY GroupSizedNext
<1>3. Inv /\ GroupSized => BurstIsAtomic
  <2> SUFFICES ASSUME Inv, GroupSized, pc = "write"
               PROVE  BurstBytes <= 4096
    BY DEF BurstIsAtomic
  <2>1. /\ ~building /\ packets # <<>> /\ rest.group = group /\ rest.to = group.size
        /\ group # NoGroup /\ group.datagram = Datagram(held) /\ held # NoPayload
    BY DEF Inv, MainState
  <2>2. PICK p \in Payloads : held = Cut(p)
    BY <2>1 DEF Inv, OwnTypes
  <2>3. held.size \in 0 .. 1024
    BY <2>2, PayloadsAssumption DEF Cut, kBufferSize
  <2>4. group.size = 4 + (20 + 8 + held.size)
    BY <2>1, <2>3 DEF GroupSized, Datagram
  <2>5. group.size \in 0 .. 1056
    BY <2>3, <2>4
  <2> DEFINE lengths == [i \in 1 .. Len(packets) |-> packets[i].length]
  <2>6. Total(lengths) <= 1359 /\ Total(lengths) \in Int
    BY <2>1, <2>5, BurstLength DEF Inv
  <2>7. BurstBytes = Total(lengths)
    BY Zenon DEF BurstBytes, Total
  <2> HIDE DEF lengths
  <2> QED
    BY <2>6, <2>7
<1> QED
  BY Invariance, <1>1, <1>2, <1>3, PTL DEF Spec

-----------------------------------------------------------------------------
(* The injector is a relay of datagrams.                                   *)

Out == [i \in 1 .. Len(rebuilt) |-> rebuilt[i].group.datagram.payload]

Last == IF rebuilt = <<>> THEN 0 ELSE received[rebuilt[Len(rebuilt)].number]

(* The datagrams rebuilt, and those in the pipe, are among the received.   *)
LEMMA NumbersReceived ==
  ASSUME Inv
  PROVE  /\ \A i \in 1 .. Len(rebuilt) : rebuilt[i].number \in 1 .. Len(received)
         /\ \A i \in 1 .. Len(pipe) : pipe[i].number \in 1 .. Len(received)
<1>1. Written \in Int /\ Len(received) \in Nat /\ Written <= Len(received)
  BY DEF Inv, OwnTypes, Written
<1>2. \A i \in 1 .. Len(rebuilt) : <<rebuilt[i].number, rebuilt[i].group>> \in Records
  BY DEF Records
<1>3. \A i \in 1 .. Len(rebuilt) : rebuilt[i].number \in 1 .. Written
  BY <1>2 DEF Inv, RecordsTrue
<1>4. \A i \in 1 .. Len(pipe) : pipe[i].number \in 1 .. Written
  BY DEF Inv, PipeNumbers
<1> QED
  BY <1>1, <1>3, <1>4

(* Nothing has arrived and nothing has been relayed.                       *)
LEMMA InitRelay == Init => Relay!Init
<1> SUFFICES ASSUME Init PROVE Relay!Init
  OBVIOUS
<1>1. rebuilt = <<>> /\ arrived = <<>>
  BY DEF Init
<1>2. [i \in 1 .. Len(rebuilt) |-> rebuilt[i].group.datagram.payload] = <<>>
  BY <1>1
<1> QED
  BY <1>1, <1>2 DEF Relay!Init

(* A step that neither hears the network nor rebuilds a group.             *)
LEMMA RelayRests ==
  ASSUME arrived' = arrived, rebuilt' = rebuilt, Last' = Last
  PROVE  UNCHANGED Relay!vars
<1>1. Out' = Out
  BY DEF Out
<1> QED
  BY <1>1 DEF Relay!vars, Out, Last

(* The group a packet completes is the next datagram of the relay.         *)
LEMMA RebuildRelays ==
  ASSUME Inv, ReaderTakes, Rebuilds
  PROVE  \E i \in 1 .. Len(arrived) : Relay!Relay(i)
<1> DEFINE k == pipe[1].number
           n == Len(rebuilt)
           entry == [group |-> pipe[1].packet.data.group, number |-> k]
<1>1. /\ pipe # <<>> /\ 1 \in 1 .. Len(pipe)
      /\ UNCHANGED <<mainVars, grouperVars, packerVars, netVars>>
  BY ReaderTakesCases
<1>2. arrived' = arrived /\ received' = received
  BY <1>1 DEF netVars
<1>3. /\ rebuilt \in Seq([group : Grouper!Groups, number : 1 .. MaxArrivals])
      /\ entry \in [group : Grouper!Groups, number : 1 .. MaxArrivals]
      /\ n \in Nat
  <2>1. pipe[1] \in Tagged
    BY ReaderTakesCases
  <2>2. pipe[1].packet.data.group \in Grouper!Groups
    BY <1>1 DEF Inv, PipeStream
  <2> QED
    BY <2>1, <2>2 DEF Inv, OwnTypes, Tagged
<1>4. /\ Len(rebuilt') = n + 1 /\ rebuilt'[n + 1] = entry /\ rebuilt' # <<>>
      /\ \A i \in 1 .. n : rebuilt'[i] = rebuilt[i]
  <2>1. rebuilt' = Append(rebuilt, entry)
    BY DEF Rebuilds
  <2> HIDE DEF entry
  <2> QED
    BY <1>3, <2>1
<1>5. k \in 1 .. Len(received) /\ received[k] \in 1 .. Len(arrived)
  <2>1. k \in 1 .. Len(received)
    BY <1>1, NumbersReceived
  <2>2. received \in Seq(1 .. Len(arrived))
    BY DEF Inv, OwnTypes
  <2> QED
    BY <2>1, <2>2
<1>6. entry.group.datagram.payload = Cut(arrived[received[k]])
  <2>1. <<k, entry.group>> \in Records
    BY <1>1 DEF Records
  <2>2. entry.group.datagram = Datagram(Cut(arrived[received[k]]))
    BY <2>1 DEF Inv, RecordsTrue
  <2> HIDE DEF entry, k
  <2> QED
    BY <2>2 DEF Datagram
<1>7. received[k] > Last
  <2>1. CASE rebuilt = <<>>
    BY <1>5, <2>1 DEF Last
  <2>2. CASE rebuilt # <<>>
    <3>1. n \in 1 .. n
      BY <1>3, <2>2
    <3>2. rebuilt[n].number < k
      BY <1>1, <3>1 DEF Inv, PipeNumbers
    <3>3. rebuilt[n].number \in 1 .. Len(received)
      BY <3>1, NumbersReceived
    <3>4. received[rebuilt[n].number] < received[k]
      BY <1>5, <3>2, <3>3 DEF Inv, NetOrder
    <3>5. received[rebuilt[n].number] \in 1 .. Len(arrived)
      <4>1. received \in Seq(1 .. Len(arrived))
        BY DEF Inv, OwnTypes
      <4> QED
        BY <3>3, <4>1
    <3> QED
      BY <1>5, <2>2, <3>4, <3>5 DEF Last
  <2> QED
    BY <2>1, <2>2
<1>8. Last' = received[k]
  <2>1. entry.number = k
    OBVIOUS
  <2> HIDE DEF entry, k, n
  <2> QED
    BY <1>2, <1>4, <2>1 DEF Last
<1>9. Out' = Append(Out, Cut(arrived[received[k]]))
  <2> DEFINE S == {rebuilt'[i].group.datagram.payload : i \in 1 .. n + 1}
  <2>1. Out = [i \in 1 .. n |-> rebuilt'[i].group.datagram.payload]
    BY <1>4 DEF Out
  <2>2. Out' = [i \in 1 .. n + 1 |-> rebuilt'[i].group.datagram.payload]
    BY <1>4 DEF Out
  <2>3. rebuilt'[n + 1].group.datagram.payload = Cut(arrived[received[k]])
    BY <1>4, <1>6
  <2> HIDE DEF entry, k, n
  <2>4. \A i \in 1 .. n : i \in 1 .. n + 1
    BY <1>3
  <2>5. n + 1 \in 1 .. n + 1
    BY <1>3
  <2>6. \A i \in 1 .. n + 1 : rebuilt'[i].group.datagram.payload \in S
    OBVIOUS
  <2> HIDE DEF S
  <2>7. Out \in Seq(S) /\ Len(Out) = n /\ \A i \in 1 .. n : Out[i] = rebuilt'[i].group.datagram.payload
    BY <1>3, <2>1, <2>4, <2>6
  <2>8. Out' \in Seq(S) /\ Len(Out') = n + 1
        /\ \A i \in 1 .. n + 1 : Out'[i] = rebuilt'[i].group.datagram.payload
    BY <1>3, <2>2, <2>6
  <2>9. Cut(arrived[received[k]]) \in S
    BY <2>3, <2>5, <2>6
  <2> DEFINE longer == Append(Out, Cut(arrived[received[k]]))
  <2>10. /\ longer \in Seq(S) /\ Len(longer) = n + 1
         /\ \A i \in 1 .. n : longer[i] = Out[i]
         /\ longer[n + 1] = Cut(arrived[received[k]])
    BY <1>3, <2>7, <2>9, AppendProperties
  <2> HIDE DEF longer
  <2>11. ASSUME NEW i \in 1 .. n + 1 PROVE Out'[i] = longer[i]
    <3>1. Out'[i] = rebuilt'[i].group.datagram.payload
      BY <2>8
    <3>2. CASE i = n + 1
      BY <2>3, <2>10, <3>1, <3>2
    <3>3. CASE i \in 1 .. n
      BY <2>7, <2>10, <3>1, <3>3
    <3> QED
      BY <1>3, <3>2, <3>3
  <2>12. Out' = longer
    BY <2>8, <2>10, <2>11, SeqEqual
  <2> QED
    BY <2>12 DEF longer
<1> HIDE DEF k, n, entry
<1>10. PICK i \in 1 .. Len(arrived) : i = received[k]
  BY <1>5
<1>11. /\ i > IF rebuilt = <<>> THEN 0 ELSE received[rebuilt[Len(rebuilt)].number]
       /\ [j \in 1 .. Len(rebuilt) |-> rebuilt[j].group.datagram.payload]'
            = Append([j \in 1 .. Len(rebuilt) |-> rebuilt[j].group.datagram.payload], Cut(arrived[i]))
       /\ (IF rebuilt = <<>> THEN 0 ELSE received[rebuilt[Len(rebuilt)].number])' = i
  BY <1>7, <1>8, <1>9, <1>10, Zenon DEF Last, Out
<1>12. Relay!Relay(i)
  BY <1>2, <1>11, Zenon DEF Relay!Relay
<1> QED
  BY <1>12

(* A step of the injector is a step of the relay, or none.                 *)
LEMMA StepRelays ==
  ASSUME Inv, [Next]_vars
  PROVE  [Relay!Next]_(Relay!vars)
<1>1. ASSUME arrived' = arrived, rebuilt' = rebuilt, received' = received
      PROVE  UNCHANGED Relay!vars
  <2>1. Last' = Last
    BY <1>1 DEF Last
  <2> QED
    BY <1>1, <2>1, RelayRests
<1>2. CASE \/ ReadConfig \/ ConfigError \/ OpenFifo \/ Bind \/ BindThrows \/ AddressThrows
           \/ ReceiveThrows \/ BrokenPipe \/ ReaderOpens \/ UNCHANGED vars
  <2>1. arrived' = arrived /\ rebuilt' = rebuilt /\ received' = received
    BY <1>2 DEF ReadConfig, ConfigError, OpenFifo, Bind, BindThrows, AddressThrows, End,
                ReceiveThrows, BrokenPipe, ReaderOpens, vars, netVars, readerVars
  <2> QED
    BY <1>1, <2>1
<1>3. CASE Wrap \/ Split \/ Pack \/ Write \/ ReaderCloses
  <2>1. arrived' = arrived /\ rebuilt' = rebuilt /\ received' = received
    BY <1>3 DEF Wrap, Split, Pack, Write, ReaderCloses, netVars, readerVars
  <2> QED
    BY <1>1, <2>1
<1>4. CASE Receive
  <2>1. arrived' = arrived /\ rebuilt' = rebuilt
        /\ received' = Append(received, Head(socket_buffer))
    BY <1>4 DEF Receive, readerVars
  <2>2. Last' = Last
    <3>1. CASE rebuilt = <<>>
      BY <2>1, <3>1 DEF Last
    <3>2. CASE rebuilt # <<>>
      <4>1. Len(rebuilt) \in 1 .. Len(rebuilt)
        BY <3>2 DEF Inv, OwnTypes
      <4>2. rebuilt[Len(rebuilt)].number \in 1 .. Len(received)
        BY <4>1, NumbersReceived
      <4>3. received \in Seq(1 .. Len(arrived))
        BY DEF Inv, OwnTypes
      <4>4. \A i \in 1 .. Len(received) : received'[i] = received[i]
        BY <2>1, <4>3
      <4> QED
        BY <2>1, <4>2, <4>4 DEF Last
    <3> QED
      BY <3>1, <3>2
  <2> QED
    BY <2>1, <2>2, RelayRests
<1>5. ASSUME NEW p \in Payloads, Arrive(p) PROVE Relay!Next
  <2>1. arrived' = Append(arrived, p) /\ rebuilt' = rebuilt /\ received' = received
    BY <1>5 DEF Arrive, readerVars
  <2>2. Last' = Last /\ Out' = Out
    BY <2>1 DEF Last, Out
  <2>3. Relay!Arrive(p)
    BY <2>1, <2>2 DEF Relay!Arrive, Last, Out
  <2> QED
    BY <2>3 DEF Relay!Next
<1>6. CASE ReaderTakes
  <2>1. Skips \/ Keeps \/ Rebuilds
    BY <1>6, ReaderTakesCases
  <2>2. CASE Skips \/ Keeps
    <3>1. arrived' = arrived /\ rebuilt' = rebuilt /\ received' = received
      BY <1>6, <2>2 DEF ReaderTakes, Skips, Keeps, netVars
    <3> QED
      BY <1>1, <3>1
  <2>3. CASE Rebuilds
    BY <1>6, <2>3, RebuildRelays DEF Relay!Next
  <2> QED
    BY <2>1, <2>2, <2>3
<1> QED
  BY <1>2, <1>3, <1>4, <1>5, <1>6 DEF Next, Main, Environment

(* What comes out are payloads that arrived, cut to the buffer, in the     *)
(* order of their arrival and each at most once: the injector implements   *)
(* the relay.                                                              *)
THEOREM ImplementsRelay == Spec => RelaySpec
<1>1. Init => Relay!Init
  BY InitRelay
<1>2. Inv /\ [Next]_vars => [Relay!Next]_(Relay!vars)
  BY StepRelays
<1> QED
  BY <1>1, <1>2, Invariance, PTL DEF Spec, RelaySpec, Relay!Spec
=============================================================================
