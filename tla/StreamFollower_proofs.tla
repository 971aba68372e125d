------------------------ MODULE StreamFollower_proofs ------------------------
(***************************************************************************)
(* Proofs about libtins' stream follower, for every stream shorter than    *)
(* half of the sequence numbers, every number of the SYN, and every way of *)
(* a capture to miss, repeat and reorder segments.                         *)
(*                                                                         *)
(* The proofs speak of positions in the stream: SeqOf maps the positions   *)
(* -1 .. StreamLength one to one to sequence numbers, -1 being that of the *)
(* SYN, and the tracker's modular arithmetic and comparisons are those of  *)
(* the positions.                                                          *)
(***************************************************************************)
EXTENDS StreamFollower, SumTheorems, SequenceTheorems, FiniteSetTheorems, NaturalsInduction, TLAPS

Positions == -1 .. StreamLength

(* The next byte's position, or that of the SYN before it is acknowledged. *)
Position == IF Synchronised THEN Len(delivered) ELSE -1

OwnTypes ==
  /\ IsFiniteSet(DOMAIN buffered_payload)
  /\ total_buffered_bytes \in Int
  /\ payload \in Seq(Nat) /\ delivered \in Seq(Nat)

AtPosition ==
  /\ Position \in Positions
  /\ seq_number = SeqOf(Position)
  /\ ~Synchronised => delivered = <<>>

(* Nothing is buffered before a SYN is acknowledged or overtaken, and a    *)
(* packet is only worked on for a stream that is followed.                 *)
FlowState ==
  /\ pc \in {"tracker", "check"} => tracked
  /\ tracked => client_state # "UNKNOWN"
  /\ client_state \in {"UNKNOWN", "SYN_SENT"} =>
       seq_number = InitialSeq /\ DOMAIN buffered_payload = {} /\ arrived = {}

(* An entry of the map holds bytes of the stream that some segment brought. *)
EntriesGiven ==
  \A k \in DOMAIN buffered_payload :
    /\ buffered_payload[k].first + buffered_payload[k].size <= StreamLength
    /\ BytesOf(buffered_payload[k]) \subseteq arrived

(* What a segment brought was given to the user or is in the map.          *)
NothingForgotten ==
  \A b \in arrived :
    b < Position \/ \E k \in DOMAIN buffered_payload : b \in BytesOf(buffered_payload[k])

(* The loop stands on the entry that begins first, also across the wrap;   *)
(* when it has come to the end, no entry connects to the bytes delivered.  *)
WalksInOrder ==
  /\ ~running => iter = End
  /\ iter = End => \A k \in DOMAIN buffered_payload : buffered_payload[k].first > Position
  /\ iter # End => \A k \in DOMAIN buffered_payload :
                     buffered_payload[iter].first <= buffered_payload[k].first

TrackerInv ==
  /\ TrackerTypeOK
  /\ OwnTypes
  /\ AtPosition
  /\ InOrder
  /\ EntriesGiven
  /\ NothingForgotten
  /\ WalksInOrder

HeardOf == tracked => last_seen + stream_keep_alive > last_cleanup

Inv ==
  /\ TrackerInv
  /\ TypeOK /\ now \in Nat
  /\ FlowState
  /\ HeardOf
  /\ BuffersBounded

-----------------------------------------------------------------------------
(* Sequence numbers and positions.                                         *)

LEMMA ModBefore ==
  ASSUME NEW m \in Nat \ {0}, NEW x \in -m .. -1
  PROVE  x % m = (x + m) % m
OBVIOUS

(* The remainder within one modulus of the range, without the division.    *)
LEMMA ModOnce ==
  ASSUME NEW m \in Nat \ {0}, NEW x \in -m .. 2 * m - 1
  PROVE  x % m = IF x < 0 THEN x + m ELSE IF x < m THEN x ELSE x - m
<1>1. ASSUME NEW y \in 0 .. 2 * m - 1
      PROVE  y % m = IF y < m THEN y ELSE y - m
  OBVIOUS
<1>2. CASE x < 0
  <2>1. x \in -m .. -1 /\ x + m \in 0 .. 2 * m - 1 /\ x + m < m
    BY <1>2
  <2>2. x % m = (x + m) % m
    BY <2>1, ModBefore
  <2> QED BY <1>1, <1>2, <2>1, <2>2
<1>3. CASE x >= 0
  BY <1>1, <1>3
<1> QED BY <1>2, <1>3

(* Twice the half is at most the whole.                                    *)
LEMMA HalfIs ==
  ASSUME NEW m \in Nat
  PROVE  m \div 2 \in Nat /\ 2 * (m \div 2) <= m
OBVIOUS

(* The constants as the lemmas use them.                                   *)
LEMMA Numbers ==
  /\ Modulus \in Nat \ {0}
  /\ 2 * (StreamLength + 1) < Modulus
  /\ InitialSeq \in 0 .. Modulus - 1
  /\ StreamLength \in Nat
BY TrackerAssumption, HalfIs

(* The number of a position, without the modulus.                          *)
LEMMA SeqOfIs ==
  ASSUME NEW p \in Positions
  PROVE  /\ SeqOf(p) \in 0 .. Modulus - 1
         /\ SeqOf(p) = IF InitialSeq + 1 + p < Modulus THEN InitialSeq + 1 + p
                       ELSE InitialSeq + 1 + p - Modulus
<1> DEFINE x == InitialSeq + 1 + p
<1>1. x \in 0 .. 2 * Modulus - 1 /\ x \in -Modulus .. 2 * Modulus - 1
  BY Numbers DEF Positions
<1>2. SeqOf(p) = x % Modulus
  BY DEF SeqOf
<1> HIDE DEF x
<1>3. x % Modulus = IF x < 0 THEN x + Modulus ELSE IF x < Modulus THEN x ELSE x - Modulus
  BY <1>1, ModOnce, Numbers
<1>4. /\ SeqOf(p) \in 0 .. Modulus - 1
      /\ SeqOf(p) = IF x < Modulus THEN x ELSE x - Modulus
  BY <1>1, <1>2, <1>3, Numbers
<1> QED BY <1>4, Numbers DEF x, Positions

(* The SYN takes the number before that of the first byte.                 *)
LEMMA SynIsBefore ==
  /\ -1 \in Positions /\ 0 \in Positions
  /\ SeqOf(-1) = InitialSeq
  /\ (InitialSeq + 1) % Modulus = SeqOf(0)
BY Numbers, SeqOfIs DEF Positions, SeqOf

(* seq_compare() compares positions.                                       *)
LEMMA Compares ==
  ASSUME NEW p \in Positions, NEW q \in Positions
  PROVE  /\ seq_compare(SeqOf(p), SeqOf(q)) = IF p = q THEN 0 ELSE IF p < q THEN -1 ELSE 1
         /\ SeqOf(p) = SeqOf(q) <=> p = q
<1> DEFINE a == SeqOf(p)  b == SeqOf(q)  half == Modulus \div 2
<1>1. /\ a \in 0 .. Modulus - 1 /\ b \in 0 .. Modulus - 1
      /\ a = IF InitialSeq + 1 + p < Modulus THEN InitialSeq + 1 + p
             ELSE InitialSeq + 1 + p - Modulus
      /\ b = IF InitialSeq + 1 + q < Modulus THEN InitialSeq + 1 + q
             ELSE InitialSeq + 1 + q - Modulus
  BY SeqOfIs
<1>2. half \in Nat /\ 2 * half <= Modulus /\ StreamLength + 1 < half
  BY TrackerAssumption, HalfIs
<1>3. p \in Int /\ q \in Int /\ p - q < half /\ q - p < half
  BY <1>2, Numbers DEF Positions
<1> HIDE DEF a, b, half
<1>4. (a = b) <=> (p = q)
  BY <1>1, <1>2, <1>3, Numbers
<1>5. a < b => ((b - a < half) <=> p < q)
  BY <1>1, <1>2, <1>3, Numbers
<1>6. a > b => ((a - b > half) <=> p < q)
  BY <1>1, <1>2, <1>3, Numbers
<1>7. (CASE a = b -> 0
         [] a < b -> IF b - a < half THEN -1 ELSE 1
         [] a > b -> IF a - b > half THEN -1 ELSE 1)
      = IF p = q THEN 0 ELSE IF p < q THEN -1 ELSE 1
  <2>1. CASE a = b
    BY <2>1, <1>4, <1>1
  <2>2. CASE a < b
    BY <2>2, <1>4, <1>5, <1>1
  <2>3. CASE a > b
    BY <2>3, <1>4, <1>6, <1>1
  <2> QED BY <2>1, <2>2, <2>3, <1>1
<1> QED BY <1>4, <1>7 DEF a, b, half, seq_compare

(* Differences of numbers are distances in the stream.                     *)
LEMMA Distance ==
  ASSUME NEW p \in Positions, NEW q \in Positions, q <= p
  PROVE  (SeqOf(p) - SeqOf(q)) % Modulus = p - q
<1>1. SeqOf(p) - SeqOf(q) \in -Modulus .. 2 * Modulus - 1
  BY SeqOfIs, Numbers
<1>2. SeqOf(p) - SeqOf(q) \in {p - q, p - q - Modulus}
  BY SeqOfIs, Numbers DEF Positions
<1>3. p - q \in 0 .. Modulus - 1
  BY Numbers DEF Positions
<1> DEFINE x == SeqOf(p) - SeqOf(q)
<1>4. x % Modulus = IF x < 0 THEN x + Modulus ELSE IF x < Modulus THEN x ELSE x - Modulus
  BY <1>1, ModOnce, Numbers
<1> HIDE DEF x
<1> QED BY <1>2, <1>3, <1>4, Numbers DEF x

(* The number behind a chunk is that of the position behind it.            *)
LEMMA Ends ==
  ASSUME NEW p \in Positions, NEW chunk, chunk.size \in Nat, p + chunk.size \in Positions
  PROVE  EndOf(SeqOf(p), chunk) = SeqOf(p + chunk.size)
<1> DEFINE n == chunk.size
<1>1. SeqOf(p) + n \in -Modulus .. 2 * Modulus - 1 /\ n \in Nat
  BY SeqOfIs, Numbers DEF Positions
<1>2. (SeqOf(p) + n) % Modulus = SeqOf(p + n)
  <2> HIDE DEF n
  <2>1. p + n \in Positions
    BY DEF n
  <2> DEFINE x == SeqOf(p) + n
  <2>2. x % Modulus = IF x < 0 THEN x + Modulus ELSE IF x < Modulus THEN x ELSE x - Modulus
    BY <1>1, ModOnce, Numbers
  <2>3. x \in {InitialSeq + 1 + p + n, InitialSeq + 1 + p + n - Modulus} /\ x \in 0 .. 2 * Modulus - 1
    BY SeqOfIs, <1>1, <2>1, Numbers DEF Positions
  <2>4. SeqOf(p + n) \in 0 .. Modulus - 1
        /\ SeqOf(p + n) \in {InitialSeq + 1 + p + n, InitialSeq + 1 + p + n - Modulus}
    BY SeqOfIs, <1>1, <2>1, Numbers DEF Positions
  <2> HIDE DEF x
  <2>5. x % Modulus = SeqOf(p + n)
    BY <2>2, <2>3, <2>4, <1>1, Numbers DEF Positions
  <2> QED BY <2>5 DEF x
<1> QED BY <1>2 DEF EndOf

-----------------------------------------------------------------------------
(* The map and its iterator.                                               *)

(* Every entry of a map is at the number of its first byte.                *)
Placed(map) ==
  \A k \in DOMAIN map : map[k] \in Chunks /\ k = SeqOf(map[k].first)

(* The least number of a set is in it and below the others.                *)
LEMMA LeastIs ==
  ASSUME NEW S \in SUBSET Nat, S # {}
  PROVE  Min(S) \in S /\ \A y \in S : Min(S) <= y
<1>1. PICK n \in S : TRUE
  OBVIOUS
<1>2. \E x \in S : \A y \in S : x <= y
  <2>1. S \in SUBSET Nat /\ S # {}
    OBVIOUS
  <2>2. PICK x \in S : \A y \in S : ~(<<y, x>> \in OpToRel(<, Nat))
    BY <2>1, NatLessThanWellFounded, WFMin
  <2>3. \A y \in S : ~(y < x)
    BY <2>2 DEF OpToRel
  <2> QED BY <2>3
<1> QED BY <1>2 DEF Min

(* A chunk of the map stands under the number of its first byte.           *)
LEMMA Places ==
  ASSUME NEW map, Placed(map), NEW k \in DOMAIN map
  PROVE  /\ map[k].first \in Positions /\ map[k].first \in Nat /\ map[k].size \in Nat
         /\ k = SeqOf(map[k].first)
BY Numbers DEF Placed, Chunks, Positions

(* After the entry that begins first comes the one that begins next.       *)
LEMMA AfterIsNext ==
  ASSUME NEW map, Placed(map), NEW key \in DOMAIN map,
         \A k \in DOMAIN map : map[key].first <= map[k].first
  PROVE  \/ After(map, key) = End /\ DOMAIN map \ {key} = {}
         \/ /\ After(map, key) \in DOMAIN map \ {key}
            /\ \A k \in DOMAIN map \ {key} : map[After(map, key)].first <= map[k].first
<1> DEFINE later == {k \in DOMAIN map : k > key}
           left  == DOMAIN map \ {key}
           wrapped(k) == InitialSeq + 1 + map[k].first >= Modulus
<1>1. \A k \in DOMAIN map :
        /\ k \in Nat
        /\ map[k].first \in Nat /\ map[k].first <= StreamLength
        /\ k = IF wrapped(k) THEN InitialSeq + 1 + map[k].first - Modulus
               ELSE InitialSeq + 1 + map[k].first
  BY Places, SeqOfIs, Numbers DEF Positions
<1>2. later \in SUBSET Nat /\ left \in SUBSET Nat /\ later \subseteq left
  BY <1>1
<1>3. \A k \in left : map[key].first < map[k].first
  BY <1>1, Numbers
<1>4. CASE later # {}
  <2>1. After(map, key) = Min(later)
    BY <1>4 DEF After
  <2>2. After(map, key) \in later /\ \A k \in later : After(map, key) <= k
    BY <2>1, <1>2, <1>4, LeastIs
  <2>3. ASSUME NEW k \in left
        PROVE  map[After(map, key)].first <= map[k].first
    <3> DEFINE next == After(map, key)
    <3> HIDE DEF next
    <3>1. next \in DOMAIN map /\ next > key /\ (k > key => next <= k)
      BY <2>2, <2>3 DEF next
    <3>2. k \in DOMAIN map /\ map[key].first < map[k].first
      BY <1>3, <2>3
    <3> QED BY <3>1, <3>2, <1>1, Numbers DEF next
  <2> QED BY <1>2, <2>2, <2>3
<1>5. CASE later = {} /\ left # {}
  <2>1. After(map, key) = Min(left)
    BY <1>5 DEF After
  <2>2. After(map, key) \in left /\ \A k \in left : After(map, key) <= k
    BY <2>1, <1>2, <1>5, LeastIs
  <2>3. \A k \in left : k <= key /\ k # key
    BY <1>1, <1>5
  <2>4. ASSUME NEW k \in left
        PROVE  map[After(map, key)].first <= map[k].first
    <3> DEFINE next == After(map, key)
    <3> HIDE DEF next
    <3>1. next \in DOMAIN map /\ next <= k /\ next < key
      BY <2>2, <2>3, <1>1 DEF next
    <3>2. k \in DOMAIN map /\ k < key /\ map[key].first < map[k].first
          /\ map[key].first < map[next].first
      BY <1>3, <2>4, <2>3, <2>2, <1>1 DEF next
    <3> QED BY <3>1, <3>2, <1>1, Numbers DEF next
  <2> QED BY <2>2, <2>4
<1>6. CASE later = {} /\ left = {}
  BY <1>6 DEF After
<1> QED BY <1>4, <1>5, <1>6

(* store_payload() leaves the other entries alone, and an entry at seq     *)
(* that holds what the payload holds.                                      *)
LEMMA StoredIs ==
  ASSUME NEW map, Placed(map), NEW seq, NEW chunk \in Chunks, seq = SeqOf(chunk.first)
  PROVE  /\ Placed(Stored(map, seq, chunk))
         /\ DOMAIN Stored(map, seq, chunk) = DOMAIN map \cup {seq}
         /\ \A k \in DOMAIN map \ {seq} : Stored(map, seq, chunk)[k] = map[k]
         /\ \/ Stored(map, seq, chunk)[seq] = chunk
            \/ seq \in DOMAIN map /\ Stored(map, seq, chunk)[seq] = map[seq]
         /\ Stored(map, seq, chunk)[seq].first = chunk.first
         /\ Stored(map, seq, chunk)[seq].size >= chunk.size
<1>1. CASE seq \in DOMAIN map /\ map[seq].size >= chunk.size
  <2>1. Stored(map, seq, chunk) = map
    BY <1>1 DEF Stored
  <2>2. map[seq].first \in Positions /\ chunk.first \in Positions /\ seq = SeqOf(map[seq].first)
    BY <1>1, Places, Numbers DEF Chunks, Positions
  <2>3. map[seq].first = chunk.first
    BY <2>2, Compares
  <2> QED BY <2>1, <2>3, <1>1
<1>2. CASE ~(seq \in DOMAIN map /\ map[seq].size >= chunk.size)
  <2>1. Stored(map, seq, chunk) = With(map, seq, chunk)
    BY <1>2 DEF Stored
  <2>2. /\ DOMAIN With(map, seq, chunk) = DOMAIN map \cup {seq}
        /\ With(map, seq, chunk)[seq] = chunk
        /\ \A k \in DOMAIN map \ {seq} : With(map, seq, chunk)[k] = map[k]
    BY DEF With
  <2>3. chunk.size >= chunk.size
    BY DEF Chunks
  <2> DEFINE new == With(map, seq, chunk)
  <2> HIDE DEF new
  <2>4. Placed(new)
    <3> SUFFICES ASSUME NEW k \in DOMAIN new
                 PROVE  new[k] \in Chunks /\ k = SeqOf(new[k].first)
      BY DEF Placed
    <3>1. CASE k = seq
      BY <3>1, <2>2 DEF new
    <3>2. CASE k # seq
      BY <3>2, <2>2 DEF Placed, new
    <3> QED BY <3>1, <3>2
  <2> QED BY <2>1, <2>2, <2>3, <2>4 DEF new
<1> QED BY <1>1, <1>2

(* What erasing a key leaves.                                              *)
LEMMA WithoutIs ==
  ASSUME NEW map, NEW key
  PROVE  /\ DOMAIN Without(map, key) = DOMAIN map \ {key}
         /\ \A k \in DOMAIN map \ {key} : Without(map, key)[k] = map[k]
BY DEF Without

-----------------------------------------------------------------------------
(* The tracker.                                                            *)

(* The numbers a call may begin with: the tracker's own, or the next one,  *)
(* when the SYN is acknowledged.                                           *)
MayBegin(current) ==
  \/ current = seq_number
  \/ /\ current = SeqOf(0) /\ seq_number = InitialSeq
     /\ DOMAIN buffered_payload = {} /\ arrived = {}

(* The map as the loop finds it.                                           *)
LEMMA MapIs ==
  ASSUME TrackerInv
  PROVE  /\ Placed(buffered_payload)
         /\ \A k \in DOMAIN buffered_payload : k \in Int /\ k # End
<1>1. Placed(buffered_payload)
  BY DEF TrackerInv, TrackerTypeOK, Placed
<1>2. \A k \in DOMAIN buffered_payload : k \in Int
  BY <1>1, Places, SeqOfIs
<1> QED BY <1>1, <1>2, TrackerAssumption

(* Where a call begins.                                                    *)
LEMMA Begins ==
  ASSUME TrackerInv, ~running, NEW current, MayBegin(current),
         seq_number' = current, UNCHANGED delivered
  PROVE  /\ AtPosition' /\ InOrder'
         /\ \A k \in DOMAIN buffered_payload : buffered_payload[k].first >= Position'
         /\ \A b \in arrived :
              b < Position' \/ \E k \in DOMAIN buffered_payload : b \in BytesOf(buffered_payload[k])
         /\ current = seq_number => Position' = Position
         /\ current \in 0 .. Modulus - 1
         /\ current # seq_number => Position' = 0
<1> USE DEF TrackerInv
<1>0. \A k \in DOMAIN buffered_payload : buffered_payload[k].first > Position /\ buffered_payload[k].first \in Nat
  BY MapIs, Places DEF WalksInOrder
<1>1. CASE current = seq_number
  <2>1. Position' = Position /\ Synchronised' = Synchronised
    BY <1>1 DEF Position, Synchronised
  <2>2. AtPosition' /\ InOrder'
    BY <1>1, <2>1 DEF AtPosition, InOrder, Positions
  <2>3. current \in 0 .. Modulus - 1 /\ Position \in Int
    BY <1>1, SeqOfIs DEF AtPosition, Positions
  <2> QED BY <1>0, <1>1, <2>1, <2>2, <2>3 DEF NothingForgotten
<1>2. CASE current # seq_number
  <2>1. /\ current = SeqOf(0) /\ seq_number = InitialSeq
        /\ DOMAIN buffered_payload = {} /\ arrived = {}
    BY <1>2 DEF MayBegin
  <2>2. ~Synchronised /\ Synchronised' /\ delivered = <<>>
    BY <2>1, <1>2 DEF Synchronised, AtPosition
  <2>3. Position' = 0 /\ Len(delivered') = 0 /\ DOMAIN delivered' = {}
    BY <2>2 DEF Position
  <2>4. current \in 0 .. Modulus - 1 /\ 0 \in Positions
    BY <2>1, SynIsBefore, SeqOfIs
  <2>5. AtPosition' /\ InOrder'
    BY <2>1, <2>2, <2>3, <2>4 DEF AtPosition, InOrder, Positions
  <2> QED BY <2>1, <2>3, <2>4, <2>5, <1>2
<1> QED BY <1>1, <1>2

(* The acknowledged SYN sets the number of the first byte.                 *)
LEMMA SetsNumber ==
  ASSUME TrackerInv, NEW current, MayBegin(current), SetSequenceNumber(current)
  PROVE  TrackerInv'
<1>1. /\ seq_number' = current /\ ~running
      /\ UNCHANGED <<buffered_payload, total_buffered_bytes, payload, running, iter, added_some,
                     arrived, delivered>>
  BY DEF SetSequenceNumber
<1>2. /\ AtPosition' /\ InOrder' /\ current \in 0 .. Modulus - 1
      /\ \A b \in arrived :
           b < Position' \/ \E k \in DOMAIN buffered_payload : b \in BytesOf(buffered_payload[k])
      /\ current = seq_number => Position' = Position
      /\ current # seq_number => DOMAIN buffered_payload = {}
  BY <1>1, Begins DEF MayBegin
<1>3. TrackerTypeOK' /\ OwnTypes' /\ EntriesGiven' /\ NothingForgotten'
  BY <1>1, <1>2 DEF TrackerInv, TrackerTypeOK, OwnTypes, EntriesGiven, NothingForgotten
<1>4. WalksInOrder'
  BY <1>1, <1>2 DEF TrackerInv, WalksInOrder
<1> QED BY <1>2, <1>3, <1>4 DEF TrackerInv

(* What is stored of a segment.                                            *)
LEMMA AheadIs ==
  ASSUME NEW c \in Segments, NEW p \in Positions, ~IsOld(SeqOf(p), SeqOf(c.first), c)
  PROVE  LET new == Ahead(SeqOf(p), SeqOf(c.first), c)
         IN  /\ new.chunk \in Chunks
             /\ new.seq = SeqOf(new.chunk.first)
             /\ new.chunk.first >= p
             /\ new.chunk.first + new.chunk.size = c.first + c.size
             /\ new.chunk.first >= c.first
             /\ new.chunk.first = c.first \/ new.chunk.first = p
<1>1. /\ c.first \in Nat /\ c.size \in Nat /\ c.first + c.size <= StreamLength
      /\ c.first \in Positions /\ c.first + c.size \in Positions
      /\ c = Chunk(c.first, c.size) /\ c \in Chunks
  BY Numbers, TrackerAssumption DEF Segments, Positions, Chunks, Chunk
<1>2. EndOf(SeqOf(c.first), c) = SeqOf(c.first + c.size)
  BY <1>1, Ends
<1>3. c.first + c.size >= p
  BY <1>1, <1>2, Compares DEF IsOld, Positions
<1>4. seq_compare(SeqOf(c.first), SeqOf(p)) < 0 <=> c.first < p
  BY <1>1, Compares DEF Positions
<1>5. CASE c.first < p
  <2>1. (SeqOf(p) - SeqOf(c.first)) % Modulus = p - c.first
    <3>1. c.first <= p /\ c.first \in Positions
      BY <1>1, <1>5 DEF Positions
    <3> QED BY <3>1, Distance, Zenon
  <2>2. Ahead(SeqOf(p), SeqOf(c.first), c)
          = [seq |-> SeqOf(p), chunk |-> Chunk(c.first + (p - c.first), c.size - (p - c.first))]
    <3>1. seq_compare(SeqOf(c.first), SeqOf(p)) < 0
      BY <1>4, <1>5
    <3> QED BY <3>1, <2>1 DEF Ahead, Erased
  <2>3. c.first + (p - c.first) = p /\ c.size - (p - c.first) \in 0 .. StreamLength
        /\ p \in 0 .. StreamLength /\ p + (c.size - (p - c.first)) = c.first + c.size
    BY <1>1, <1>3, <1>5, Numbers DEF Positions
  <2> QED BY <2>2, <2>3, <1>5, <1>1 DEF Chunk, Chunks
<1>6. CASE ~(c.first < p)
  <2>1. Ahead(SeqOf(p), SeqOf(c.first), c) = [seq |-> SeqOf(c.first), chunk |-> c]
    BY <1>4, <1>6 DEF Ahead
  <2> QED BY <2>1, <1>1, <1>6 DEF Positions
<1> QED BY <1>5, <1>6

(* A payload is ignored, cut to what is new, and stored under its number.  *)
LEMMA ProcessesPayload ==
  ASSUME TrackerInv, NEW c \in Segments, NEW current, MayBegin(current),
         ProcessPayload(current, SeqOf(c.first), c)
  PROVE  TrackerInv'
<1> DEFINE new == Ahead(current, SeqOf(c.first), c)
           map == Stored(buffered_payload, new.seq, new.chunk)
<1>1. /\ ~running /\ ~IsOld(current, SeqOf(c.first), c)
      /\ buffered_payload' = map
      /\ total_buffered_bytes' = total_buffered_bytes
           + AddedBytes(buffered_payload, new.seq, new.chunk)
      /\ iter' = IF current \in DOMAIN map THEN current ELSE End
      /\ seq_number' = current /\ payload' = <<>> /\ running' = TRUE /\ added_some' = FALSE
      /\ arrived' = arrived \cup BytesOf(c)
      /\ UNCHANGED delivered
  BY DEF ProcessPayload
<1> DEFINE p == Position'
<1>2. /\ AtPosition' /\ InOrder'
      /\ \A k \in DOMAIN buffered_payload : buffered_payload[k].first >= p
      /\ \A b \in arrived :
           b < p \/ \E k \in DOMAIN buffered_payload : b \in BytesOf(buffered_payload[k])
  BY <1>1, Begins
<1>3. current = SeqOf(p) /\ p \in Positions
  BY <1>1, <1>2 DEF AtPosition
<1> HIDE DEF p
<1>4. /\ new.chunk \in Chunks
      /\ new.seq = SeqOf(new.chunk.first)
      /\ new.chunk.first >= p
      /\ new.chunk.first + new.chunk.size = c.first + c.size
      /\ new.chunk.first >= c.first
      /\ new.chunk.first = c.first \/ new.chunk.first = p
  BY <1>1, <1>3, AheadIs
<1> HIDE DEF new
<1>5. Placed(buffered_payload) /\ IsFiniteSet(DOMAIN buffered_payload)
  BY MapIs DEF TrackerInv, OwnTypes
<1>6. /\ Placed(map)
      /\ DOMAIN map = DOMAIN buffered_payload \cup {new.seq}
      /\ \A k \in DOMAIN buffered_payload \ {new.seq} : map[k] = buffered_payload[k]
      /\ \/ map[new.seq] = new.chunk
         \/ new.seq \in DOMAIN buffered_payload /\ map[new.seq] = buffered_payload[new.seq]
      /\ map[new.seq].first = new.chunk.first
      /\ map[new.seq].size >= new.chunk.size
  BY <1>4, <1>5, StoredIs
<1> HIDE DEF map
<1>7. c.first \in Nat /\ c.size \in Nat /\ c.first + c.size <= StreamLength
      /\ new.chunk.first \in Nat /\ new.chunk.size \in Nat /\ StreamLength \in Nat /\ p \in Int
  BY <1>3, <1>4, Numbers, TrackerAssumption DEF Segments, Chunks, Positions
<1>8. BytesOf(c) \subseteq 0 .. StreamLength - 1 /\ BytesOf(new.chunk) \subseteq BytesOf(c)
  BY <1>4, <1>7 DEF BytesOf
<1>9. \A k \in DOMAIN map : map[k].first >= p
  BY <1>2, <1>4, <1>6
<1>10. TrackerTypeOK'
  <2>1. current \in 0 .. Modulus - 1
    BY <1>3, SeqOfIs
  <2> QED BY <1>1, <1>6, <1>8, <2>1 DEF TrackerTypeOK, TrackerInv, Placed
<1>11. OwnTypes'
  <2>1. IsFiniteSet(DOMAIN map)
    BY <1>5, <1>6, FS_AddElement
  <2>2. AddedBytes(buffered_payload, new.seq, new.chunk) \in Int
    BY <1>5, <1>7, Places DEF AddedBytes
  <2>3. payload' \in Seq(Nat)
    BY <1>1, EmptySeq
  <2> QED BY <1>1, <2>1, <2>2, <2>3 DEF OwnTypes, TrackerInv
<1>12. EntriesGiven'
  <2> SUFFICES ASSUME NEW k \in DOMAIN map
               PROVE  map[k].first + map[k].size <= StreamLength /\ BytesOf(map[k]) \subseteq arrived'
    BY <1>1 DEF EntriesGiven
  <2>1. CASE k \in DOMAIN buffered_payload /\ map[k] = buffered_payload[k]
    BY <2>1, <1>1 DEF EntriesGiven, TrackerInv
  <2>2. CASE map[k] = new.chunk
    BY <2>2, <1>1, <1>4, <1>7, <1>8
  <2> QED BY <2>1, <2>2, <1>6
<1>13. NothingForgotten'
  <2> SUFFICES ASSUME NEW b \in arrived'
               PROVE  b < p \/ \E k \in DOMAIN map : b \in BytesOf(map[k])
    BY <1>1 DEF NothingForgotten, p
  <2>0. \A b1 \in BytesOf(new.chunk) : b1 \in BytesOf(map[new.seq])
    BY <1>6, <1>7, Places DEF BytesOf
  <2>1. CASE b \in BytesOf(c)
    <3>1. b < p \/ b \in BytesOf(new.chunk)
      BY <2>1, <1>4, <1>7 DEF BytesOf
    <3> QED BY <3>1, <2>0, <1>6
  <2>2. CASE b \in arrived
    <3>1. CASE b < p
      BY <3>1
    <3>2. ASSUME NEW k \in DOMAIN buffered_payload, b \in BytesOf(buffered_payload[k])
          PROVE  \E k1 \in DOMAIN map : b \in BytesOf(map[k1])
      <4>1. CASE map[k] = buffered_payload[k]
        BY <4>1, <3>2, <1>6
      <4>2. CASE k = new.seq /\ map[k] = new.chunk
        <5>1. buffered_payload[k].first \in Positions /\ buffered_payload[k].size \in Nat
              /\ SeqOf(buffered_payload[k].first) = SeqOf(new.chunk.first)
              /\ new.chunk.first \in Positions
          BY <4>2, <1>4, <1>5, <1>7, Places DEF Chunks, Positions
        <5>2. buffered_payload[k].first = new.chunk.first
          BY <5>1, Compares
        <5>3. map[k].size >= buffered_payload[k].size
          BY <4>2, <1>7, <5>1 DEF map, Stored, With
        <5> QED BY <5>1, <5>2, <5>3, <3>2, <4>2, <1>6, <1>7 DEF BytesOf
      <4> QED BY <4>1, <4>2, <1>6
    <3> QED BY <2>2, <3>1, <3>2, <1>2
  <2> QED BY <2>1, <2>2, <1>1
<1>14. WalksInOrder'
  <2>1. ASSUME NEW k \in DOMAIN map PROVE map[k].first = p <=> k = current
    BY <1>3, <1>6, Places, Compares
  <2>2. CASE current \in DOMAIN map
    <3>1. iter' = current /\ iter' # End
      BY <2>2, <1>1, <1>3, SeqOfIs, TrackerAssumption
    <3>2. map[current].first = p
      BY <2>1, <2>2
    <3> QED BY <3>1, <3>2, <1>1, <1>9 DEF WalksInOrder
  <2>3. CASE current \notin DOMAIN map
    <3>1. iter' = End
      BY <2>3, <1>1
    <3>2. \A k \in DOMAIN map : map[k].first > p
      BY <2>1, <2>3, <1>9, <1>6, <1>7, Places
    <3> QED BY <3>1, <3>2, <1>1 DEF WalksInOrder, p
  <2> QED BY <2>2, <2>3
<1> QED BY <1>2, <1>10, <1>11, <1>12, <1>13, <1>14 DEF TrackerInv

(* The entry the loop stands on, when it goes on.                          *)
LEMMA StandsOn ==
  ASSUME TrackerInv, Continues
  PROVE  /\ iter \in DOMAIN buffered_payload
         /\ iter = SeqOf(buffered_payload[iter].first)
         /\ buffered_payload[iter].first \in Nat /\ buffered_payload[iter].size \in Nat
         /\ buffered_payload[iter].first + buffered_payload[iter].size <= StreamLength
         /\ buffered_payload[iter].first <= Position
         /\ \A k \in DOMAIN buffered_payload :
              buffered_payload[iter].first <= buffered_payload[k].first
         /\ seq_compare(iter, seq_number) < 0 => buffered_payload[iter].first < Position
         /\ iter = seq_number => buffered_payload[iter].first = Position
         /\ EndOf(iter, buffered_payload[iter])
              = SeqOf(buffered_payload[iter].first + buffered_payload[iter].size)
<1> DEFINE e == buffered_payload[iter]
<1>1. iter # End /\ iter \in DOMAIN buffered_payload /\ running
      /\ seq_compare(iter, seq_number) <= 0
  BY DEF Continues, TrackerInv, TrackerTypeOK
<1>2. /\ iter = SeqOf(e.first) /\ e.first \in Positions /\ e.first \in Nat /\ e.size \in Nat
  BY <1>1, MapIs, Places
<1>3. e.first + e.size <= StreamLength
  BY <1>1 DEF TrackerInv, EntriesGiven
<1>4. Position \in Positions /\ seq_number = SeqOf(Position)
  BY DEF TrackerInv, AtPosition
<1>5. /\ e.first <= Position
      /\ seq_compare(iter, seq_number) < 0 => e.first < Position
      /\ iter = seq_number => e.first = Position
  BY <1>1, <1>2, <1>4, Compares DEF Positions
<1>6. e.first + e.size \in Positions
  BY <1>2, <1>3, Numbers DEF Positions
<1>7. EndOf(iter, e) = SeqOf(e.first + e.size)
  BY <1>2, <1>6, Ends
<1> QED BY <1>1, <1>2, <1>3, <1>5, <1>7 DEF TrackerInv, WalksInOrder

(* A chunk that ends before the expected number has nothing new.           *)
LEMMA DropsBuffered ==
  ASSUME TrackerInv, DropBuffered
  PROVE  TrackerInv'
<1> DEFINE e == buffered_payload[iter]
           map == Without(buffered_payload, iter)
<1>1. /\ Continues /\ seq_compare(iter, seq_number) < 0
      /\ seq_compare(EndOf(iter, e), seq_number) <= 0
      /\ buffered_payload' = map
      /\ total_buffered_bytes' = total_buffered_bytes - e.size
      /\ iter' = After(buffered_payload, iter)
      /\ UNCHANGED <<seq_number, payload, running, added_some, arrived, delivered>>
  BY DEF DropBuffered
<1>2. /\ iter \in DOMAIN buffered_payload /\ running
      /\ e.first \in Nat /\ e.size \in Nat /\ e.first + e.size <= StreamLength
      /\ \A k \in DOMAIN buffered_payload : e.first <= buffered_payload[k].first
      /\ EndOf(iter, e) = SeqOf(e.first + e.size)
  BY <1>1, StandsOn DEF Continues
<1>3. Position' = Position /\ Synchronised' = Synchronised
      /\ Position \in Positions /\ seq_number = SeqOf(Position)
  BY <1>1 DEF Position, Synchronised, TrackerInv, AtPosition
<1>4. e.first + e.size <= Position
  BY <1>1, <1>2, <1>3, Numbers, Compares DEF Positions
<1>5. /\ DOMAIN map = DOMAIN buffered_payload \ {iter}
      /\ \A k \in DOMAIN map : map[k] = buffered_payload[k]
  BY WithoutIs
<1> HIDE DEF map
<1>6. AtPosition' /\ InOrder'
  BY <1>1, <1>3 DEF TrackerInv, AtPosition, InOrder, Positions
<1>7. EntriesGiven'
  BY <1>1, <1>5 DEF TrackerInv, EntriesGiven
<1>8. NothingForgotten'
  <2> SUFFICES ASSUME NEW b \in arrived
               PROVE  b < Position \/ \E k \in DOMAIN map : b \in BytesOf(map[k])
    BY <1>1, <1>3 DEF NothingForgotten
  <2>1. CASE b \in BytesOf(e)
    BY <2>1, <1>2, <1>3, <1>4 DEF BytesOf, Positions
  <2>2. CASE b \notin BytesOf(e)
    BY <2>2, <1>5 DEF TrackerInv, NothingForgotten
  <2> QED BY <2>1, <2>2
<1>9. (iter' = End /\ DOMAIN map = {})
      \/ (/\ iter' \in DOMAIN map
          /\ \A k \in DOMAIN map : map[iter'].first <= map[k].first)
  BY <1>1, <1>2, <1>5, MapIs, AfterIsNext
<1>10. WalksInOrder'
  <2>1. iter' \in DOMAIN map => iter' # End
    BY <1>5, MapIs
  <2> QED BY <1>1, <1>2, <1>9, <2>1 DEF WalksInOrder
<1>11. TrackerTypeOK'
  BY <1>1, <1>5, <1>9 DEF TrackerInv, TrackerTypeOK
<1>12. OwnTypes'
  <2>1. IsFiniteSet(DOMAIN map)
    BY <1>5, FS_RemoveElement DEF TrackerInv, OwnTypes
  <2> QED BY <1>1, <1>2, <2>1 DEF TrackerInv, OwnTypes
<1> QED BY <1>6, <1>7, <1>8, <1>10, <1>11, <1>12 DEF TrackerInv

(* The loop ends with nothing left that connects.                          *)
LEMMA Returns ==
  ASSUME TrackerInv, Return
  PROVE  TrackerInv'
<1>1. /\ running /\ ~Continues /\ running' = FALSE /\ iter' = End
      /\ UNCHANGED <<seq_number, buffered_payload, total_buffered_bytes, payload, added_some,
                     arrived, delivered>>
  BY DEF Return
<1>2. Position' = Position /\ Synchronised' = Synchronised
      /\ Position \in Positions /\ seq_number = SeqOf(Position)
  BY <1>1 DEF Position, Synchronised, TrackerInv, AtPosition
<1>3. AtPosition' /\ InOrder' /\ EntriesGiven' /\ NothingForgotten' /\ TrackerTypeOK' /\ OwnTypes'
  BY <1>1, <1>2 DEF TrackerInv, AtPosition, InOrder, EntriesGiven, NothingForgotten, OwnTypes,
                    TrackerTypeOK, Positions
<1>4. \A k \in DOMAIN buffered_payload : buffered_payload[k].first > Position
  <2>1. CASE iter = End
    BY <2>1 DEF TrackerInv, WalksInOrder
  <2>2. CASE iter # End
    <3>1. iter \in DOMAIN buffered_payload /\ ~(seq_compare(iter, seq_number) <= 0)
      BY <1>1, <2>2 DEF Continues, TrackerInv, TrackerTypeOK
    <3>2. buffered_payload[iter].first > Position
      BY <3>1, <1>2, MapIs, Places, Compares DEF Positions
    <3>3. \A k \in DOMAIN buffered_payload :
            /\ buffered_payload[iter].first <= buffered_payload[k].first
            /\ buffered_payload[k].first \in Nat
      BY <2>2, MapIs, Places DEF TrackerInv, WalksInOrder
    <3> QED BY <3>1, <3>2, <3>3, <1>2 DEF Positions
  <2> QED BY <2>1, <2>2
<1>5. WalksInOrder'
  BY <1>1, <1>2, <1>4 DEF WalksInOrder
<1> QED BY <1>3, <1>5 DEF TrackerInv

(* A tracker for a new connection.                                         *)
LEMMA StartsBlank ==
  TrackerInit => TrackerInv
<1> SUFFICES ASSUME TrackerInit PROVE TrackerInv
  OBVIOUS
<1>1. /\ seq_number = InitialSeq /\ buffered_payload = <<>> /\ total_buffered_bytes = 0
      /\ payload = <<>> /\ running = FALSE /\ iter = End /\ added_some = FALSE
      /\ arrived = {} /\ delivered = <<>>
  BY DEF TrackerInit
<1>2. DOMAIN buffered_payload = {} /\ DOMAIN delivered = {}
  BY <1>1
<1>3. ~Synchronised /\ Position = -1
  BY <1>1 DEF Synchronised, Position
<1>4. OwnTypes
  <2>1. payload \in Seq(Nat) /\ delivered \in Seq(Nat)
    BY <1>1, EmptySeq
  <2> QED BY <1>1, <1>2, <2>1, FS_EmptySet DEF OwnTypes
<1>5. TrackerTypeOK /\ AtPosition /\ InOrder /\ EntriesGiven /\ NothingForgotten /\ WalksInOrder
  BY <1>1, <1>2, <1>3, SynIsBefore, Numbers
     DEF TrackerTypeOK, AtPosition, InOrder, EntriesGiven, NothingForgotten, WalksInOrder
<1> QED BY <1>4, <1>5 DEF TrackerInv

(* A new tracker satisfies its invariant.                                  *)
LEMMA StartsFresh ==
  ASSUME Fresh(InitialSeq)
  PROVE  TrackerInv'
<1>1. TrackerInit'
  BY DEF Fresh, TrackerInit
<1>2. (TrackerInit => TrackerInv)'
  BY StartsBlank, PTL
<1> QED BY <1>1, <1>2

(* A step that leaves the tracker alone keeps its invariant.               *)
LEMMA StaysTracker ==
  ASSUME TrackerInv, UNCHANGED trackerVars
  PROVE  TrackerInv'
<1> USE DEF trackerVars
<1>1. Position' = Position /\ Synchronised' = Synchronised
  BY DEF Position, Synchronised
<1>2. AtPosition' /\ InOrder' /\ EntriesGiven' /\ NothingForgotten'
  BY <1>1 DEF TrackerInv, AtPosition, InOrder, EntriesGiven, NothingForgotten
<1>3. TrackerTypeOK' /\ OwnTypes' /\ WalksInOrder'
  BY <1>1 DEF TrackerInv, TrackerTypeOK, OwnTypes, WalksInOrder
<1> QED BY <1>2, <1>3 DEF TrackerInv

(* A run of positions as a sequence.                                       *)
LEMMA RunIs ==
  ASSUME NEW first \in Nat, NEW n \in Nat
  PROVE  /\ [i \in 1 .. n |-> first + i - 1] \in Seq(Nat)
         /\ Len([i \in 1 .. n |-> first + i - 1]) = n
         /\ \A i \in 1 .. n : [j \in 1 .. n |-> first + j - 1][i] = first + i - 1
<1>1. \A i \in 1 .. n : first + i - 1 \in Nat
  OBVIOUS
<1> QED BY <1>1

(* A chunk that connects is delivered, all of it.                          *)
LEMMA AppendsBuffered ==
  ASSUME TrackerInv, AppendBuffered
  PROVE  /\ TrackerInv'
         /\ Synchronised /\ Synchronised'
         /\ buffered_payload[iter].size \in Nat
         /\ Len(delivered') = Len(delivered) + buffered_payload[iter].size
         /\ Len(delivered') <= StreamLength
         /\ Len(delivered) .. Len(delivered') - 1 \subseteq arrived
<1> DEFINE e == buffered_payload[iter]
           map == Without(buffered_payload, iter)
           bytes == [i \in 1 .. e.size |-> e.first + i - 1]
<1>1. /\ Continues /\ iter = seq_number
      /\ buffered_payload' = map
      /\ payload' = payload \o bytes /\ delivered' = delivered \o bytes
      /\ seq_number' = EndOf(seq_number, e)
      /\ total_buffered_bytes' = total_buffered_bytes - e.size
      /\ iter' = After(buffered_payload, iter)
      /\ added_some' = TRUE
      /\ UNCHANGED <<running, arrived>>
  BY DEF AppendBuffered
<1>2. /\ iter \in DOMAIN buffered_payload /\ running
      /\ e.first \in Nat /\ e.size \in Nat /\ e.first + e.size <= StreamLength
      /\ \A k \in DOMAIN buffered_payload : e.first <= buffered_payload[k].first
      /\ EndOf(iter, e) = SeqOf(e.first + e.size)
      /\ e.first = Position
  BY <1>1, StandsOn DEF Continues
<1> DEFINE n == e.size
<1>3. Synchronised /\ Len(delivered) = e.first /\ delivered \in Seq(Nat) /\ payload \in Seq(Nat)
  BY <1>2 DEF Position, TrackerInv, OwnTypes
<1>4. bytes \in Seq(Nat) /\ Len(bytes) = n
      /\ \A i \in 1 .. n : bytes[i] = e.first + i - 1
  BY <1>2, RunIs
<1>5. n \in Nat
  BY <1>2
<1> HIDE DEF bytes, n
<1>6. /\ delivered' \in Seq(Nat) /\ payload' \in Seq(Nat)
      /\ Len(delivered') = Len(delivered) + n
      /\ \A i \in 1 .. Len(delivered) + n :
           delivered'[i] = IF i <= Len(delivered) THEN delivered[i] ELSE bytes[i - Len(delivered)]
  BY <1>1, <1>3, <1>4, ConcatProperties
<1>7. DOMAIN delivered' = 1 .. Len(delivered) + n /\ DOMAIN delivered = 1 .. Len(delivered)
  BY <1>3, <1>6
<1>8. \A i \in DOMAIN delivered' : delivered'[i] = i - 1
  <2> SUFFICES ASSUME NEW i \in 1 .. Len(delivered) + n
               PROVE  delivered'[i] = i - 1
    BY <1>7
  <2> HIDE DEF e
  <2>1. CASE i <= Len(delivered)
    <3>1. i \in DOMAIN delivered /\ delivered'[i] = delivered[i]
      BY <2>1, <1>3, <1>5, <1>6, <1>7
    <3> QED BY <3>1 DEF TrackerInv, InOrder
  <2>2. CASE i > Len(delivered)
    <3>1. i - Len(delivered) \in 1 .. n
      BY <2>2, <1>3, <1>5
    <3>2. delivered'[i] = e.first + (i - Len(delivered)) - 1
      BY <2>2, <3>1, <1>3, <1>4, <1>5, <1>6
    <3> QED BY <3>2, <1>2, <1>3
  <2> QED BY <2>1, <2>2, <1>3
<1>9. seq_number' = SeqOf(Len(delivered')) /\ Len(delivered') \in Nat /\ Len(delivered') <= StreamLength
      /\ Len(delivered') \in Positions
  BY <1>1, <1>2, <1>3, <1>6, Numbers DEF n, Positions
<1>10. Synchronised' /\ Position' = Len(delivered')
  <2>1. seq_number' # InitialSeq
    BY <1>9, SynIsBefore, Compares
  <2> QED BY <2>1, <1>1 DEF Synchronised, Position
<1>11. /\ DOMAIN map = DOMAIN buffered_payload \ {iter}
       /\ \A k \in DOMAIN map : map[k] = buffered_payload[k]
  BY WithoutIs
<1> HIDE DEF map
<1>12. AtPosition' /\ InOrder'
  BY <1>8, <1>9, <1>10 DEF AtPosition, InOrder
<1>13. EntriesGiven'
  BY <1>1, <1>11 DEF TrackerInv, EntriesGiven
<1>14. NothingForgotten'
  <2> SUFFICES ASSUME NEW b \in arrived
               PROVE  b < Position' \/ \E k \in DOMAIN map : b \in BytesOf(map[k])
    BY <1>1 DEF NothingForgotten
  <2>0. Position' = e.first + e.size
    BY <1>10, <1>6, <1>3 DEF n
  <2>1. CASE b \in BytesOf(e)
    BY <2>0, <2>1, <1>2 DEF BytesOf
  <2>2. CASE b < Position
    <3>1. b \in Int
      BY DEF TrackerInv, TrackerTypeOK
    <3> QED BY <2>0, <2>2, <3>1, <1>2
  <2>3. CASE b \notin BytesOf(e) /\ ~(b < Position)
    BY <2>3, <1>11 DEF TrackerInv, NothingForgotten
  <2> QED BY <2>1, <2>2, <2>3
<1>15. (iter' = End /\ DOMAIN map = {})
       \/ (/\ iter' \in DOMAIN map
           /\ \A k \in DOMAIN map : map[iter'].first <= map[k].first)
  BY <1>1, <1>2, <1>11, MapIs, AfterIsNext
<1>16. WalksInOrder'
  <2>1. iter' \in DOMAIN map => iter' # End
    BY <1>11, MapIs
  <2> QED BY <1>1, <1>2, <1>15, <2>1 DEF WalksInOrder
<1>17. TrackerTypeOK'
  <2>1. seq_number' \in 0 .. Modulus - 1
    BY <1>9, SeqOfIs
  <2> QED BY <1>1, <1>11, <1>15, <2>1 DEF TrackerInv, TrackerTypeOK
<1>18. OwnTypes'
  <2>1. IsFiniteSet(DOMAIN map)
    BY <1>11, FS_RemoveElement DEF TrackerInv, OwnTypes
  <2> QED BY <1>1, <1>2, <1>6, <2>1 DEF TrackerInv, OwnTypes
<1>19. Len(delivered) .. Len(delivered') - 1 \subseteq arrived
  <2>1. BytesOf(e) \subseteq arrived
    BY <1>2 DEF TrackerInv, EntriesGiven
  <2> QED BY <2>1, <1>2, <1>3, <1>6 DEF BytesOf, n
<1> QED BY <1>2, <1>3, <1>6, <1>9, <1>10, <1>12, <1>13, <1>14, <1>16, <1>17, <1>18, <1>19
        DEF TrackerInv, n

(* A chunk that overlaps what was delivered loses just that.               *)
LEMMA SlicesBuffered ==
  ASSUME TrackerInv, SliceBuffered
  PROVE  TrackerInv'
<1> DEFINE e == buffered_payload[iter]
           slice == Erased(e, (seq_number - iter) % Modulus)
           more == Stored(buffered_payload, seq_number, slice)
           map == Without(more, iter)
<1>1. /\ Continues /\ seq_compare(iter, seq_number) < 0
      /\ seq_compare(EndOf(iter, e), seq_number) > 0
      /\ buffered_payload' = map
      /\ total_buffered_bytes' = total_buffered_bytes - e.size
           + AddedBytes(buffered_payload, seq_number, slice)
      /\ iter' = After(more, iter)
      /\ UNCHANGED <<seq_number, payload, running, added_some, arrived, delivered>>
  BY DEF SliceBuffered
<1>2. /\ iter \in DOMAIN buffered_payload /\ running
      /\ e.first \in Nat /\ e.size \in Nat /\ e.first + e.size <= StreamLength
      /\ \A k \in DOMAIN buffered_payload : e.first <= buffered_payload[k].first
      /\ EndOf(iter, e) = SeqOf(e.first + e.size)
      /\ e.first < Position /\ iter = SeqOf(e.first)
  BY <1>1, StandsOn DEF Continues
<1>3. Position' = Position /\ Synchronised' = Synchronised
      /\ Position \in Positions /\ seq_number = SeqOf(Position)
  BY <1>1 DEF Position, Synchronised, TrackerInv, AtPosition
<1> DEFINE p == Position
<1>4. /\ p \in Nat /\ p <= StreamLength
      /\ e.first \in Positions /\ e.first + e.size \in Positions /\ e.first <= p
  BY <1>2, <1>3, Numbers DEF Positions
<1>5. p < e.first + e.size
  BY <1>1, <1>2, <1>3, <1>4, Compares DEF Positions
<1>6. slice = Chunk(p, e.first + e.size - p)
  <2>1. (seq_number - iter) % Modulus = p - e.first
    <3>1. (SeqOf(p) - SeqOf(e.first)) % Modulus = p - e.first
      BY <1>3, <1>4, Distance, Zenon
    <3> QED BY <3>1, <1>2, <1>3, Zenon
  <2> HIDE DEF p, e
  <2>2. e.first + (p - e.first) = p /\ e.size - (p - e.first) = e.first + e.size - p
    BY <1>2, <1>4
  <2> QED BY <2>1, <2>2 DEF Erased
<1> HIDE DEF p
<1>7. /\ slice \in Chunks /\ slice.first = p /\ slice.size = e.first + e.size - p
      /\ slice.size \in Nat /\ seq_number = SeqOf(slice.first)
  BY <1>2, <1>3, <1>4, <1>5, <1>6, Numbers DEF Chunks, Chunk, p
<1> HIDE DEF slice
<1>8. Placed(buffered_payload) /\ IsFiniteSet(DOMAIN buffered_payload)
  BY MapIs DEF TrackerInv, OwnTypes
<1>9. /\ Placed(more)
      /\ DOMAIN more = DOMAIN buffered_payload \cup {seq_number}
      /\ \A k \in DOMAIN buffered_payload \ {seq_number} : more[k] = buffered_payload[k]
      /\ \/ more[seq_number] = slice
         \/ seq_number \in DOMAIN buffered_payload /\ more[seq_number] = buffered_payload[seq_number]
      /\ more[seq_number].first = p
      /\ more[seq_number].size >= slice.size
  <2>1. slice \in Chunks /\ seq_number = SeqOf(slice.first)
    BY <1>7
  <2>2. /\ Placed(more)
        /\ DOMAIN more = DOMAIN buffered_payload \cup {seq_number}
        /\ \A k \in DOMAIN buffered_payload \ {seq_number} : more[k] = buffered_payload[k]
        /\ \/ more[seq_number] = slice
           \/ seq_number \in DOMAIN buffered_payload /\ more[seq_number] = buffered_payload[seq_number]
        /\ more[seq_number].first = slice.first
        /\ more[seq_number].size >= slice.size
    BY <2>1, <1>8, StoredIs
  <2> HIDE DEF more
  <2> QED BY <2>2, <1>7
<1>10. seq_number \in DOMAIN buffered_payload =>
         buffered_payload[seq_number].first = p
         /\ buffered_payload[seq_number].size <= more[seq_number].size
  <2> SUFFICES ASSUME seq_number \in DOMAIN buffered_payload
               PROVE  buffered_payload[seq_number].first = p
                      /\ buffered_payload[seq_number].size <= more[seq_number].size
    OBVIOUS
  <2>1. /\ buffered_payload[seq_number].first \in Positions
        /\ buffered_payload[seq_number].size \in Nat
        /\ seq_number = SeqOf(buffered_payload[seq_number].first)
    BY <1>8, Places
  <2>2. buffered_payload[seq_number].first = p
    BY <2>1, <1>3, Compares DEF p
  <2>3. buffered_payload[seq_number].size <= more[seq_number].size
    BY <2>1, <1>7 DEF more, Stored, With
  <2> QED BY <2>2, <2>3
<1> HIDE DEF more
<1>11. iter # seq_number
  BY <1>2, <1>3, <1>4, Compares DEF p
<1>12. /\ DOMAIN map = DOMAIN more \ {iter}
       /\ \A k \in DOMAIN map : map[k] = more[k]
  BY WithoutIs
<1> HIDE DEF map
<1>13. /\ iter \in DOMAIN more /\ more[iter].first = e.first
       /\ \A k \in DOMAIN more : more[iter].first <= more[k].first
  BY <1>2, <1>4, <1>9, <1>11 DEF p
<1>14. (iter' = End /\ DOMAIN map = {})
       \/ (/\ iter' \in DOMAIN map
           /\ \A k \in DOMAIN map : map[iter'].first <= map[k].first)
  BY <1>1, <1>9, <1>12, <1>13, AfterIsNext
<1>15. WalksInOrder'
  <2>1. \A k \in DOMAIN map : k # End
    BY <1>9, <1>12, Places, SeqOfIs, TrackerAssumption
  <2> QED BY <1>1, <1>2, <1>14, <2>1 DEF WalksInOrder
<1>16. AtPosition' /\ InOrder'
  BY <1>1, <1>3 DEF TrackerInv, AtPosition, InOrder, Positions
<1>17. EntriesGiven'
  <2> SUFFICES ASSUME NEW k \in DOMAIN map
               PROVE  map[k].first + map[k].size <= StreamLength /\ BytesOf(map[k]) \subseteq arrived
    BY <1>1 DEF EntriesGiven
  <2>1. CASE k \in DOMAIN buffered_payload /\ map[k] = buffered_payload[k]
    BY <2>1 DEF EntriesGiven, TrackerInv
  <2>2. CASE map[k] = slice
    <3>1. BytesOf(e) \subseteq arrived
      BY <1>2 DEF EntriesGiven, TrackerInv
    <3>2. BytesOf(slice) \subseteq BytesOf(e)
      BY <1>2, <1>4, <1>7 DEF BytesOf, p
    <3>3. slice.first + slice.size <= StreamLength
      BY <1>2, <1>4, <1>7
    <3> QED BY <2>2, <3>1, <3>2, <3>3
  <2> QED BY <2>1, <2>2, <1>9, <1>12
<1>18. NothingForgotten'
  <2> SUFFICES ASSUME NEW b \in arrived
               PROVE  b < p \/ \E k \in DOMAIN map : b \in BytesOf(map[k])
    BY <1>1, <1>3 DEF NothingForgotten, p
  <2>0. b \in Int
    BY DEF TrackerInv, TrackerTypeOK
  <2>1. seq_number \in DOMAIN map /\ map[seq_number] = more[seq_number]
        /\ more[seq_number].size \in Nat
    BY <1>9, <1>11, <1>12, Places
  <2>2. CASE b \in BytesOf(e) /\ ~(b < p)
    <3>1. b \in BytesOf(map[seq_number])
      BY <2>1, <2>2, <1>2, <1>4, <1>7, <1>9 DEF BytesOf
    <3> QED BY <3>1, <2>1
  <2>3. ASSUME NEW k \in DOMAIN buffered_payload, k # iter, b \in BytesOf(buffered_payload[k])
        PROVE  \E k1 \in DOMAIN map : b \in BytesOf(map[k1])
    <3>1. CASE k # seq_number
      BY <3>1, <2>3, <1>9, <1>12
    <3>2. CASE k = seq_number
      <4>1. b \in BytesOf(map[seq_number])
        BY <3>2, <2>1, <2>3, <1>4, <1>8, <1>9, <1>10, Places DEF BytesOf
      <4> QED BY <4>1, <2>1
    <3> QED BY <3>1, <3>2
  <2> QED BY <2>2, <2>3 DEF TrackerInv, NothingForgotten, p
<1>19. TrackerTypeOK'
  BY <1>1, <1>9, <1>12, <1>14 DEF TrackerInv, TrackerTypeOK, Placed
<1>20. OwnTypes'
  <2>1. IsFiniteSet(DOMAIN more)
    BY <1>8, <1>9, FS_AddElement
  <2>2. IsFiniteSet(DOMAIN map)
    BY <2>1, <1>12, FS_RemoveElement
  <2>3. AddedBytes(buffered_payload, seq_number, slice) \in Int
    BY <1>7, <1>8, Places DEF AddedBytes
  <2> QED BY <1>1, <1>2, <2>2, <2>3 DEF TrackerInv, OwnTypes
<1> QED BY <1>15, <1>16, <1>17, <1>18, <1>19, <1>20 DEF TrackerInv

-----------------------------------------------------------------------------
(* The flow and the stream.                                                *)

LEMMA NextStates ==
  ASSUME NEW state \in FlowStates, NEW flags
  PROVE  /\ NextState(state, flags) \in FlowStates
         /\ state # "UNKNOWN" => NextState(state, flags) # "UNKNOWN"
         /\ state # "UNKNOWN" /\ NextState(state, flags) = "SYN_SENT" => state = "SYN_SENT"
<1>1. CASE "FIN" \in flags
  BY <1>1 DEF NextState, FlowStates
<1>2. CASE "FIN" \notin flags /\ "RST" \in flags
  BY <1>2 DEF NextState, FlowStates
<1>3. CASE flags \cap {"FIN", "RST"} = {}
  BY <1>3 DEF NextState, FlowStates
<1> QED BY <1>1, <1>2, <1>3

(* What a packet of the client does to the flow: the tracker may begin at  *)
(* the number, and nothing is buffered while the SYN waits.                *)
LEMMA ClientSteps ==
  ASSUME Inv, tracked, NEW flags
  PROVE  LET current == NextSequenceNumber(client_state, flags)
             state   == NextState(client_state, flags)
         IN  /\ MayBegin(current)
             /\ state \in FlowStates /\ state # "UNKNOWN"
             /\ state = "SYN_SENT" =>
                  /\ client_state = "SYN_SENT" /\ current = seq_number
                  /\ seq_number = InitialSeq /\ DOMAIN buffered_payload = {} /\ arrived = {}
<1>1. client_state \in FlowStates /\ client_state # "UNKNOWN"
  BY DEF Inv, TypeOK, FlowState
<1>2. /\ NextState(client_state, flags) \in FlowStates
      /\ NextState(client_state, flags) # "UNKNOWN"
      /\ NextState(client_state, flags) = "SYN_SENT" => client_state = "SYN_SENT"
  BY <1>1, NextStates
<1>3. client_state = "SYN_SENT" =>
        seq_number = InitialSeq /\ DOMAIN buffered_payload = {} /\ arrived = {}
  BY DEF Inv, FlowState
<1>4. CASE client_state = "SYN_SENT" /\ NextState(client_state, flags) = "ESTABLISHED"
  <2>1. NextSequenceNumber(client_state, flags) = SeqOf(0)
    <3>1. NextSequenceNumber(client_state, flags) = (seq_number + 1) % Modulus
      BY <1>4 DEF NextSequenceNumber
    <3> QED BY <3>1, <1>3, <1>4, SynIsBefore, Zenon
  <2> QED BY <2>1, <1>2, <1>3, <1>4 DEF MayBegin
<1>5. CASE ~(client_state = "SYN_SENT" /\ NextState(client_state, flags) = "ESTABLISHED")
  <2>1. NextSequenceNumber(client_state, flags) = seq_number
    BY <1>5 DEF NextSequenceNumber
  <2> QED BY <2>1, <1>2, <1>3 DEF MayBegin
<1> QED BY <1>4, <1>5

(* The invariant holds before the capture.                                 *)
LEMMA InitInv ==
  Init => Inv
<1> SUFFICES ASSUME Init PROVE Inv
  OBVIOUS
<1>1. TrackerInv
  BY StartsBlank DEF Init
<1>2. DOMAIN buffered_payload = {}
  BY DEF Init, TrackerInit
<1>3. TypeOK /\ now \in Nat
  <2>1. running = (pc = "tracker")
    BY Zenon DEF Init, TrackerInit
  <2>2. /\ pc \in {"idle", "tracker", "check", "cleanup"}
        /\ {client_state, server_state} \subseteq FlowStates
    BY Zenon DEF Init, FlowStates
  <2>3. tracked \in BOOLEAN
    BY Zenon DEF Init
  <2>4. last_seen \in 0 .. now /\ last_cleanup \in 0 .. now /\ now \in Nat
    <3>1. now = 0 /\ last_seen = 0 /\ last_cleanup = 0
      BY DEF Init
    <3> QED BY <3>1
  <2> QED BY <1>1, <2>1, <2>2, <2>3, <2>4 DEF TypeOK, TrackerInv
<1>4. FlowState /\ HeardOf /\ BuffersBounded
  BY <1>2 DEF Init, TrackerInit, FlowState, HeardOf, BuffersBounded
<1> QED BY <1>1, <1>3, <1>4 DEF Inv

(* A SYN makes a stream with a new tracker.                                *)
LEMMA NewStreamInv ==
  ASSUME Inv, NewStream
  PROVE  Inv'
<1>1. TrackerInv'
  BY StartsFresh DEF NewStream
<1>2. /\ pc' \in {"cleanup", "idle"} /\ tracked' = TRUE /\ client_state' = "SYN_SENT"
      /\ server_state' = "UNKNOWN" /\ last_seen' = now
      /\ UNCHANGED <<now, last_cleanup>>
      /\ seq_number' = InitialSeq /\ buffered_payload' = <<>> /\ total_buffered_bytes' = 0
      /\ running' = FALSE /\ arrived' = {}
  BY DEF NewStream, Goto, NextState, Fresh
<1>3. DOMAIN buffered_payload' = {} /\ Cardinality(DOMAIN buffered_payload') = 0
  BY <1>2, FS_EmptySet
<1>4. last_seen \in 0 .. now /\ last_cleanup \in 0 .. now /\ now \in Nat
  BY DEF Inv, TypeOK
<1>5. TypeOK' /\ now' \in Nat
  <2>1. running' = (pc' = "tracker")
    <3>1. running' = FALSE /\ pc' # "tracker"
      BY <1>2
    <3> QED BY <3>1, Zenon
  <2> QED BY <1>1, <1>2, <1>4, <2>1 DEF TypeOK, TrackerInv, FlowStates
<1>6. FlowState' /\ BuffersBounded'
  BY <1>2, <1>3, FollowerAssumption DEF FlowState, BuffersBounded
<1>7. HeardOf'
  BY <1>2, <1>4, FollowerAssumption DEF HeardOf
<1> QED BY <1>1, <1>5, <1>6, <1>7 DEF Inv

(* A packet without data moves the state of the flow.                      *)
LEMMA FromClientInv ==
  ASSUME Inv, NEW flags, FromClient(flags)
  PROVE  Inv'
<1> DEFINE current == NextSequenceNumber(client_state, flags)
           state   == NextState(client_state, flags)
<1>1. /\ pc' = "check" /\ tracked /\ client_state' = state
      /\ SetSequenceNumber(current)
      /\ last_seen' = now
      /\ UNCHANGED <<tracked, server_state, now, last_cleanup>>
  BY DEF FromClient, Goto
<1>2. /\ MayBegin(current)
      /\ state \in FlowStates /\ state # "UNKNOWN"
      /\ state = "SYN_SENT" =>
           /\ client_state = "SYN_SENT" /\ current = seq_number
           /\ seq_number = InitialSeq /\ DOMAIN buffered_payload = {} /\ arrived = {}
  BY <1>1, ClientSteps
<1> HIDE DEF current, state
<1>3. TrackerInv'
  BY <1>1, <1>2, SetsNumber DEF Inv
<1>4. /\ seq_number' = current /\ running' = running /\ ~running
      /\ buffered_payload' = buffered_payload /\ arrived' = arrived
  BY <1>1 DEF SetSequenceNumber
<1>5. last_seen \in 0 .. now /\ last_cleanup \in 0 .. now /\ now \in Nat
  BY DEF Inv, TypeOK
<1>6. TypeOK' /\ now' \in Nat
  <2>1. running' = (pc' = "tracker")
    <3>1. running' = FALSE /\ pc' # "tracker"
      BY <1>1, <1>4 DEF Inv, TrackerInv, TrackerTypeOK
    <3> QED BY <3>1, Zenon
  <2> QED BY <1>1, <1>2, <1>3, <1>5, <2>1 DEF Inv, TypeOK, TrackerInv
<1>7. FlowState' /\ BuffersBounded'
  BY <1>1, <1>2, <1>4 DEF FlowState, BuffersBounded
<1>8. HeardOf'
  BY <1>1, <1>5, FollowerAssumption DEF HeardOf
<1> QED BY <1>3, <1>6, <1>7, <1>8 DEF Inv

(* A packet with data is handed to the tracker.                            *)
LEMMA DataFromClientInv ==
  ASSUME Inv, NEW c \in Segments, NEW flags \in DataFlags, DataFromClient(c, flags)
  PROVE  Inv'
<1> DEFINE current == NextSequenceNumber(client_state, flags)
           state   == NextState(client_state, flags)
<1>1. /\ tracked /\ client_state' = state
      /\ last_seen' = now
      /\ \/ /\ pc' = "tracker"
            /\ ProcessPayload(current, SeqOf(c.first), c)
         \/ /\ pc' = "check"
            /\ SetSequenceNumber(current)
      /\ UNCHANGED <<tracked, server_state, now, last_cleanup>>
  BY DEF DataFromClient, Goto
<1>2. /\ MayBegin(current)
      /\ state \in FlowStates /\ state # "UNKNOWN"
      /\ state = "SYN_SENT" => client_state = "SYN_SENT"
  BY <1>1, ClientSteps
<1>3. state # "SYN_SENT"
  <2>1. CASE flags = {"ACK"}
    BY <1>2, <2>1 DEF NextState
  <2>2. CASE flags = {"FIN", "ACK"}
    BY <1>2, <2>2 DEF NextState
  <2> QED BY <2>1, <2>2 DEF DataFlags
<1> HIDE DEF current, state
<1>4. TrackerInv'
  BY <1>1, <1>2, SetsNumber, ProcessesPayload DEF Inv
<1>5. running' = (pc' = "tracker") /\ pc' \in {"tracker", "check"}
  <2>1. CASE pc' = "tracker" /\ running' = TRUE
    BY <2>1
  <2>2. CASE pc' = "check" /\ running' = FALSE
    BY <2>2
  <2>3. ProcessPayload(current, SeqOf(c.first), c) => running' = TRUE
    BY DEF ProcessPayload
  <2>4. SetSequenceNumber(current) => running' = FALSE
    BY DEF SetSequenceNumber, Inv, TrackerInv, TrackerTypeOK
  <2> QED BY <1>1, <2>1, <2>2, <2>3, <2>4
<1>6. last_seen \in 0 .. now /\ last_cleanup \in 0 .. now /\ now \in Nat
  BY DEF Inv, TypeOK
<1>7. TypeOK' /\ now' \in Nat
  BY <1>1, <1>2, <1>4, <1>5, <1>6 DEF Inv, TypeOK, TrackerInv
<1>8. FlowState' /\ BuffersBounded'
  BY <1>1, <1>2, <1>3, <1>5 DEF FlowState, BuffersBounded
<1>9. HeardOf'
  BY <1>1, <1>6, FollowerAssumption DEF HeardOf
<1> QED BY <1>4, <1>7, <1>8, <1>9 DEF Inv

(* The three branches of the loop.                                         *)
LEMMA TrackerStepInv ==
  ASSUME Inv, TrackerStep
  PROVE  Inv'
<1>1. pc = "tracker" /\ Loop /\ UNCHANGED followerVars
  BY DEF TrackerStep
<1>2. TrackerInv'
  BY <1>1, SlicesBuffered, DropsBuffered, AppendsBuffered DEF Inv, Loop
<1>3. Continues /\ running' = running
  BY <1>1 DEF Loop, SliceBuffered, DropBuffered, AppendBuffered
<1>4. client_state \notin {"UNKNOWN", "SYN_SENT"}
  BY <1>3, StandsOn DEF Inv, FlowState
<1>5. TypeOK' /\ now' \in Nat
  BY <1>1, <1>2, <1>3 DEF Inv, TypeOK, TrackerInv, followerVars
<1>6. FlowState' /\ HeardOf' /\ BuffersBounded'
  BY <1>1, <1>4 DEF Inv, FlowState, HeardOf, BuffersBounded, followerVars
<1> QED BY <1>2, <1>5, <1>6 DEF Inv

(* The call of the tracker is over.                                        *)
LEMMA TrackerReturnsInv ==
  ASSUME Inv, TrackerReturns
  PROVE  Inv'
<1>1. /\ pc = "tracker" /\ pc' = "check" /\ Return
      /\ UNCHANGED <<tracked, client_state, server_state, now, last_seen, last_cleanup>>
  BY DEF TrackerReturns, Goto
<1>2. TrackerInv'
  BY <1>1, Returns DEF Inv
<1>3. running' = FALSE /\ UNCHANGED <<seq_number, buffered_payload, arrived>>
  BY <1>1 DEF Return
<1>4. TypeOK' /\ now' \in Nat
  BY <1>1, <1>2, <1>3 DEF Inv, TypeOK, TrackerInv
<1>5. FlowState' /\ HeardOf' /\ BuffersBounded'
  BY <1>1, <1>3 DEF Inv, FlowState, HeardOf, BuffersBounded
<1> QED BY <1>2, <1>4, <1>5 DEF Inv

(* A stream over its limits, or at its end, is forgotten.                  *)
LEMMA CheckInv ==
  ASSUME Inv, Check
  PROVE  Inv'
<1>1. /\ pc = "check" /\ pc' = "cleanup"
      /\ tracked' = ~(IsFinished \/ BuffersTooMuch)
      /\ UNCHANGED <<trackerVars, client_state, server_state, now, last_seen, last_cleanup>>
  BY DEF Check, Goto
<1>2. TrackerInv'
  BY <1>1, StaysTracker DEF Inv
<1>3. tracked' \in BOOLEAN
  BY <1>1, Zenon
<1>4. UNCHANGED <<seq_number, buffered_payload, total_buffered_bytes, running, arrived>>
  BY <1>1 DEF trackerVars
<1>5. TypeOK' /\ now' \in Nat
  BY <1>1, <1>2, <1>3, <1>4 DEF Inv, TypeOK, TrackerInv
<1>6. BuffersBounded'
  <2>1. Cardinality(DOMAIN buffered_payload) \in Nat /\ total_buffered_bytes \in Int
    BY FS_CardinalityType DEF Inv, TrackerInv, OwnTypes
  <2>2. tracked' => ~BuffersTooMuch
    BY <1>1
  <2> QED BY <1>4, <2>1, <2>2, FollowerAssumption DEF BuffersTooMuch, BuffersBounded
<1> QED BY <1>1, <1>2, <1>4, <1>5, <1>6 DEF Inv, FlowState, HeardOf

(* Time only adds to how long a stream may be silent.                      *)
LEMMA LaterStillHeard ==
  ASSUME NEW then \in Nat, NEW later \in Nat, NEW wait \in Nat, NEW limit \in Nat,
         later >= then, then + wait > limit
  PROVE  later + wait > limit
OBVIOUS

(* Other packets and time leave the tracker alone.                         *)
LEMMA QuietInv ==
  ASSUME Inv, Unrelated \/ (\E flags \in ServerFlags : FromServer(flags)) \/ Tick
  PROVE  Inv'
<1>1. /\ UNCHANGED trackerVars
      /\ UNCHANGED <<tracked, client_state, last_cleanup>>
      /\ pc = "idle" /\ pc' \in {"idle", "cleanup", "check"} /\ (pc' = "check" => tracked)
      /\ server_state' \in FlowStates
      /\ now' \in {now, now + 1} /\ last_seen' \in {last_seen, now}
  BY NextStates DEF Unrelated, FromServer, Tick, Goto, Inv, TypeOK
<1>2. TrackerInv'
  BY <1>1, StaysTracker DEF Inv
<1>3. UNCHANGED <<seq_number, buffered_payload, total_buffered_bytes, running, arrived>>
  BY <1>1 DEF trackerVars
<1>4. last_seen \in 0 .. now /\ last_cleanup \in 0 .. now /\ now \in Nat
  BY DEF Inv, TypeOK
<1>5. TypeOK' /\ now' \in Nat
  BY <1>1, <1>2, <1>3, <1>4 DEF Inv, TypeOK, TrackerInv
<1>6. FlowState' /\ BuffersBounded'
  BY <1>1, <1>3 DEF Inv, FlowState, BuffersBounded
<1>7. HeardOf'
  <2>1. last_seen' >= last_seen /\ last_seen' \in Nat /\ last_seen \in Nat /\ last_cleanup \in Nat
    BY <1>1, <1>4
  <2>2. tracked => last_seen' + stream_keep_alive > last_cleanup
    <3> SUFFICES ASSUME tracked PROVE last_seen' + stream_keep_alive > last_cleanup
      OBVIOUS
    <3>1. last_seen + stream_keep_alive > last_cleanup /\ stream_keep_alive \in Nat
      BY FollowerAssumption DEF Inv, HeardOf
    <3> QED BY <2>1, <3>1, LaterStillHeard, Zenon
  <2>3. tracked' = tracked /\ last_cleanup' = last_cleanup
    BY <1>1
  <2> QED BY <2>2, <2>3, FollowerAssumption DEF HeardOf
<1> QED BY <1>2, <1>5, <1>6, <1>7 DEF Inv

(* Cleaning up removes what has been silent for too long.                  *)
LEMMA CleanupInv ==
  ASSUME Inv, Cleanup
  PROVE  Inv'
<1>1. /\ pc = "cleanup" /\ pc' = "idle"
      /\ tracked' = (tracked /\ ~(CleanupDue /\ Stale))
      /\ last_cleanup' = IF CleanupDue THEN now ELSE last_cleanup
      /\ UNCHANGED <<trackerVars, client_state, server_state, now, last_seen>>
  BY DEF Cleanup, Goto
<1>2. TrackerInv'
  BY <1>1, StaysTracker DEF Inv
<1>3. tracked' \in BOOLEAN /\ (tracked' => tracked /\ ~(CleanupDue /\ Stale))
  BY <1>1, Zenon
<1>4. UNCHANGED <<seq_number, buffered_payload, total_buffered_bytes, running, arrived>>
  BY <1>1 DEF trackerVars
<1>5. last_seen \in 0 .. now /\ last_cleanup \in 0 .. now /\ now \in Nat
  BY DEF Inv, TypeOK
<1>6. TypeOK' /\ now' \in Nat
  BY <1>1, <1>2, <1>3, <1>4, <1>5 DEF Inv, TypeOK, TrackerInv
<1>7. FlowState' /\ BuffersBounded'
  BY <1>1, <1>3, <1>4 DEF Inv, FlowState, BuffersBounded
<1>8. HeardOf'
  BY <1>1, <1>3, <1>5, FollowerAssumption DEF Inv, HeardOf, Stale
<1> QED BY <1>2, <1>6, <1>7, <1>8 DEF Inv

(* The invariant holds of every state: each action keeps it, the loop's    *)
(* and the ones that begin a call by the lemmas about the tracker.         *)
THEOREM Invariance ==
  Spec => []Inv
<1>1. Inv /\ [Next]_vars => Inv'
  <2> SUFFICES ASSUME Inv, [Next]_vars PROVE Inv'
    OBVIOUS
  <2>1. CASE NewStream
    BY <2>1, NewStreamInv
  <2>2. CASE Unrelated \/ (\E flags \in ServerFlags : FromServer(flags)) \/ Tick
    BY <2>2, QuietInv
  <2>3. CASE \E flags \in ClientFlags : FromClient(flags)
    BY <2>3, FromClientInv
  <2>4. CASE \E c \in Segments, flags \in DataFlags : DataFromClient(c, flags)
    BY <2>4, DataFromClientInv
  <2>5. CASE TrackerStep
    BY <2>5, TrackerStepInv
  <2>6. CASE TrackerReturns
    BY <2>6, TrackerReturnsInv
  <2>7. CASE Check
    BY <2>7, CheckInv
  <2>8. CASE Cleanup
    BY <2>8, CleanupInv
  <2>9. CASE UNCHANGED vars
    <3>1. TrackerInv' /\ UNCHANGED trackerVars /\ UNCHANGED followerVars
      BY <2>9, StaysTracker DEF vars, Inv
    <3>2. TypeOK' /\ now' \in Nat
      BY <3>1 DEF Inv, TypeOK, TrackerInv, trackerVars, followerVars
    <3>3. FlowState' /\ HeardOf' /\ BuffersBounded'
      BY <3>1 DEF Inv, FlowState, HeardOf, BuffersBounded, trackerVars, followerVars
    <3> QED BY <3>1, <3>2, <3>3 DEF Inv
  <2> QED BY <2>1, <2>2, <2>3, <2>4, <2>5, <2>6, <2>7, <2>8, <2>9 DEF Next
<1> QED BY InitInv, <1>1, PTL DEF Spec

-----------------------------------------------------------------------------
(* The count of buffered bytes.                                            *)

Measured(map) == IsFiniteSet(DOMAIN map) /\ \A k \in DOMAIN map : map[k].size \in Int

(* The buffered bytes are the total of the sizes.                          *)
LEMMA BytesAre ==
  ASSUME NEW map, Measured(map)
  PROVE  /\ [k \in DOMAIN map |-> map[k].size] \in [DOMAIN map -> Int]
         /\ BufferedBytes(map) = Total([k \in DOMAIN map |-> map[k].size])
         /\ BufferedBytes(map) \in Int
<1>1. [k \in DOMAIN map |-> map[k].size] \in [DOMAIN map -> Int]
  BY DEF Measured
<1>2. BufferedBytes(map) = Total([k \in DOMAIN map |-> map[k].size])
  BY Zenon DEF BufferedBytes, Total
<1>3. Total([k \in DOMAIN map |-> map[k].size]) \in Int
  BY <1>1, TotalIsInteger DEF Measured
<1> QED BY <1>1, <1>2, <1>3

(* Erasing a chunk takes its size from the bytes.                          *)
LEMMA WithoutTakes ==
  ASSUME NEW map, Measured(map), NEW key \in DOMAIN map
  PROVE  /\ Measured(Without(map, key))
         /\ BufferedBytes(Without(map, key)) = BufferedBytes(map) - map[key].size
<1> DEFINE rest == Without(map, key)
           D == DOMAIN map \ {key}
           f == [k \in DOMAIN rest |-> rest[k].size]
           h == [k \in DOMAIN map |-> map[k].size]
<1>1. DOMAIN rest = D /\ \A k \in D : rest[k] = map[k]
  BY DEF Without
<1>2. IsFiniteSet(D)
  BY FS_RemoveElement DEF Measured
<1>3. Measured(rest)
  BY <1>1, <1>2 DEF Measured
<1>4. DOMAIN map = D \cup {key} /\ key \notin D
  OBVIOUS
<1> HIDE DEF rest
<1>5. /\ f \in [D -> Int] /\ h \in [D \cup {key} -> Int]
      /\ h[key] = map[key].size /\ map[key].size \in Int
      /\ \A k \in D : h[k] = f[k]
  BY <1>1, <1>3, <1>4 DEF Measured
<1>6. BufferedBytes(rest) = Total(f) /\ BufferedBytes(map) = Total(h) /\ Total(f) \in Int
  BY <1>3, BytesAre
<1> HIDE DEF D, f, h
<1>7. Total(h) = Total(f) + h[key]
  BY <1>2, <1>4, <1>5, TotalAdds
<1>8. BufferedBytes(rest) = BufferedBytes(map) - map[key].size
  BY <1>5, <1>6, <1>7
<1> QED BY <1>3, <1>8 DEF rest

(* AddedBytes is what store_payload() adds to the map.                     *)
LEMMA StoredAdds ==
  ASSUME NEW map, Measured(map), NEW key, NEW chunk, chunk.size \in Int, chunk.size >= 0
  PROVE  /\ Measured(Stored(map, key, chunk))
         /\ BufferedBytes(Stored(map, key, chunk)) = BufferedBytes(map) + AddedBytes(map, key, chunk)
<1> DEFINE more == With(map, key, chunk)
<1>1. DOMAIN more = DOMAIN map \cup {key} /\ more[key] = chunk
      /\ \A k \in DOMAIN map : k # key => more[k] = map[k]
  BY DEF With
<1>2. Measured(more)
  <2>1. IsFiniteSet(DOMAIN map \cup {key})
    BY FS_AddElement DEF Measured
  <2> QED BY <1>1, <2>1 DEF Measured
<1>3. BufferedBytes(Without(more, key)) = BufferedBytes(more) - chunk.size
      /\ BufferedBytes(more) \in Int /\ BufferedBytes(map) \in Int
  <2>1. key \in DOMAIN more
    BY <1>1
  <2> HIDE DEF more
  <2>2. BufferedBytes(Without(more, key)) = BufferedBytes(more) - more[key].size
    BY <1>2, <2>1, WithoutTakes
  <2> QED BY <1>1, <1>2, <2>2, BytesAre
<1>4. CASE key \in DOMAIN map
  <2>1. Without(more, key) = Without(map, key)
    BY <1>1 DEF Without
  <2>2. BufferedBytes(Without(map, key)) = BufferedBytes(map) - map[key].size
        /\ map[key].size \in Int
    BY <1>4, WithoutTakes DEF Measured
  <2> HIDE DEF more
  <2>3. BufferedBytes(more) = BufferedBytes(map) + (chunk.size - map[key].size)
    BY <1>3, <2>1, <2>2
  <2>4. CASE map[key].size >= chunk.size
    <3>1. Stored(map, key, chunk) = map /\ AddedBytes(map, key, chunk) = 0
      BY <1>4, <2>4 DEF Stored, AddedBytes
    <3> QED BY <1>3, <3>1
  <2>5. CASE ~(map[key].size >= chunk.size)
    <3>1. Stored(map, key, chunk) = more /\ AddedBytes(map, key, chunk) = chunk.size - map[key].size
      BY <1>4, <2>5 DEF Stored, AddedBytes, more
    <3> QED BY <1>2, <2>3, <3>1
  <2> QED BY <2>4, <2>5
<1>5. CASE key \notin DOMAIN map
  <2>1. BufferedBytes(Without(more, key)) = BufferedBytes(map)
    <3>1. DOMAIN Without(more, key) = DOMAIN map /\ \A k \in DOMAIN map : Without(more, key)[k] = map[k]
      BY <1>1, <1>5 DEF Without
    <3>2. [k \in DOMAIN Without(more, key) |-> Without(more, key)[k].size]
            = [k \in DOMAIN map |-> map[k].size]
      BY <3>1
    <3> QED BY <3>2, Zenon DEF BufferedBytes
  <2>2. Stored(map, key, chunk) = more
    BY <1>5, Zenon DEF Stored
  <2>3. AddedBytes(map, key, chunk) = chunk.size
    BY <1>5 DEF AddedBytes
  <2> HIDE DEF more
  <2>4. BufferedBytes(more) = BufferedBytes(map) + chunk.size
    BY <1>3, <2>1
  <2> QED BY <1>2, <2>2, <2>3, <2>4
<1> QED BY <1>4, <1>5

(* Each operation of the tracker leaves the count right.                   *)

LEMMA MapMeasured ==
  ASSUME TrackerInv
  PROVE  Measured(buffered_payload)
BY MapIs, Places DEF TrackerInv, OwnTypes, Measured

(* Storing a payload adds to the count what it adds to the map.            *)
LEMMA ProcessAccounted ==
  ASSUME TrackerInv, BufferAccounted, NEW c \in Segments, NEW current, MayBegin(current),
         ProcessPayload(current, SeqOf(c.first), c)
  PROVE  BufferAccounted'
<1> DEFINE new == Ahead(current, SeqOf(c.first), c)
<1>1. /\ ~running /\ ~IsOld(current, SeqOf(c.first), c)
      /\ buffered_payload' = Stored(buffered_payload, new.seq, new.chunk)
      /\ total_buffered_bytes' = total_buffered_bytes
           + AddedBytes(buffered_payload, new.seq, new.chunk)
      /\ seq_number' = current /\ UNCHANGED delivered
  BY DEF ProcessPayload
<1>2. current = SeqOf(Position') /\ Position' \in Positions
  BY <1>1, Begins DEF AtPosition
<1>3. new.chunk \in Chunks
  <2> DEFINE p == Position'
  <2>1. p \in Positions /\ current = SeqOf(p)
    BY <1>2
  <2> HIDE DEF p
  <2> QED BY <1>1, <2>1, AheadIs
<1> HIDE DEF new
<1>4. new.chunk.size \in Int /\ new.chunk.size >= 0
  BY <1>3, Numbers DEF Chunks
<1>5. BufferedBytes(Stored(buffered_payload, new.seq, new.chunk))
        = BufferedBytes(buffered_payload) + AddedBytes(buffered_payload, new.seq, new.chunk)
  BY <1>4, MapMeasured, StoredAdds
<1> QED BY <1>1, <1>5 DEF BufferAccounted

(* An entry the loop erases was on the count with its size.                *)
LEMMA ErasureAccounted ==
  ASSUME TrackerInv, BufferAccounted, DropBuffered \/ AppendBuffered
  PROVE  BufferAccounted'
<1>1. /\ Continues
      /\ buffered_payload' = Without(buffered_payload, iter)
      /\ total_buffered_bytes' = total_buffered_bytes - buffered_payload[iter].size
  BY DEF DropBuffered, AppendBuffered
<1>2. BufferedBytes(Without(buffered_payload, iter))
        = BufferedBytes(buffered_payload) - buffered_payload[iter].size
  BY <1>1, StandsOn, MapMeasured, WithoutTakes
<1> QED BY <1>1, <1>2 DEF BufferAccounted

(* What is sliced off an entry is counted where it is stored, and all of   *)
(* the entry is taken off.                                                 *)
LEMMA SliceAccounted ==
  ASSUME TrackerInv, BufferAccounted, SliceBuffered
  PROVE  BufferAccounted'
<1> DEFINE e == buffered_payload[iter]
           slice == Erased(e, (seq_number - iter) % Modulus)
           more == Stored(buffered_payload, seq_number, slice)
<1>1. /\ Continues /\ seq_compare(iter, seq_number) < 0
      /\ seq_compare(EndOf(iter, e), seq_number) > 0
      /\ buffered_payload' = Without(more, iter)
      /\ total_buffered_bytes' = total_buffered_bytes - e.size
           + AddedBytes(buffered_payload, seq_number, slice)
  BY DEF SliceBuffered
<1>2. /\ iter \in DOMAIN buffered_payload /\ iter = SeqOf(e.first)
      /\ e.first \in Nat /\ e.size \in Nat /\ e.first + e.size <= StreamLength
      /\ EndOf(iter, e) = SeqOf(e.first + e.size)
      /\ e.first < Position
  BY <1>1, StandsOn
<1>3. Position \in Positions /\ seq_number = SeqOf(Position)
  BY DEF TrackerInv, AtPosition
<1>4. e.first \in Positions /\ e.first + e.size \in Positions
  BY <1>2, Numbers DEF Positions
<1>5. iter # seq_number /\ Position < e.first + e.size
  BY <1>1, <1>2, <1>3, <1>4, Compares DEF Positions
<1>6. (seq_number - iter) % Modulus = Position - e.first
  <2>1. (SeqOf(Position) - SeqOf(e.first)) % Modulus = Position - e.first
    <3>1. e.first <= Position
      BY <1>2, <1>3 DEF Positions
    <3> QED BY <1>3, <1>4, <3>1, Distance, Zenon
  <2> QED BY <2>1, <1>2, <1>3, Zenon
<1>7. slice.size \in Int /\ slice.size >= 0
  <2>1. slice.size = e.size - (Position - e.first)
    BY <1>6 DEF Erased, Chunk
  <2> HIDE DEF slice, e
  <2> QED BY <2>1, <1>2, <1>3, <1>5 DEF Positions
<1> HIDE DEF slice
<1>8. /\ Measured(more)
      /\ BufferedBytes(more)
           = BufferedBytes(buffered_payload) + AddedBytes(buffered_payload, seq_number, slice)
  BY <1>7, MapMeasured, StoredAdds
<1>9. iter \in DOMAIN more /\ more[iter] = e
  BY <1>2, <1>5 DEF Stored, With
<1> HIDE DEF more
<1>10. BufferedBytes(Without(more, iter)) = BufferedBytes(more) - e.size
  BY <1>8, <1>9, WithoutTakes
<1>11. /\ AddedBytes(buffered_payload, seq_number, slice) \in Int
       /\ BufferedBytes(buffered_payload) \in Int
  <2>1. Measured(buffered_payload)
    BY MapMeasured
  <2>2. AddedBytes(buffered_payload, seq_number, slice) \in Int
    BY <2>1, <1>7 DEF AddedBytes, Measured
  <2> QED BY <2>1, <2>2, BytesAre
<1> QED BY <1>1, <1>2, <1>8, <1>10, <1>11 DEF BufferAccounted

(* The empty map holds no bytes.                                           *)
LEMMA NoneBuffered ==
  BufferedBytes(<<>>) = 0
<1>1. [k \in DOMAIN <<>> |-> <<>>[k].size] \in [{} -> Int]
  OBVIOUS
<1>2. Total([k \in DOMAIN <<>> |-> <<>>[k].size]) = 0
  BY <1>1, TotalOfNone
<1> QED BY <1>2, Zenon DEF BufferedBytes, Total

-----------------------------------------------------------------------------
(* The results.                                                            *)

(* Every step leaves the tracker, the flows and the clocks in the states   *)
(* they can be in: sequence numbers below the modulus, entries of the map  *)
(* at the number of their first byte, the iterator on an entry.            *)
THEOREM TypeCorrect ==
  Spec => []TypeOK
<1>1. Inv => TypeOK
  BY DEF Inv
<1> QED BY Invariance, <1>1, PTL

(* Whatever a capture misses, repeats, overlaps or reorders, and wherever  *)
(* the sequence numbers wrap around, the user gets the bytes of the stream *)
(* from the first on, in order and once each.                              *)
THEOREM DeliversInOrder ==
  Spec => []InOrder
<1>1. Inv => InOrder
  BY DEF Inv, TrackerInv
<1> QED BY Invariance, <1>1, PTL

(* When process_payload() has returned, nothing that connects to what was  *)
(* delivered is kept back: the loop has visited every entry it had to,     *)
(* though it starts again at the lowest key after the highest.             *)
THEOREM KeepsNothingBack ==
  Spec => []NothingWithheld
<1>1. ASSUME Inv, ~running, Synchronised
      PROVE  /\ \A k \in DOMAIN buffered_payload : seq_compare(k, seq_number) > 0
             /\ Len(delivered) \notin arrived
  <2>1. Position = Len(delivered) /\ Position \in Positions /\ seq_number = SeqOf(Position)
    BY <1>1 DEF Inv, TrackerInv, AtPosition, Position
  <2>2. \A k \in DOMAIN buffered_payload :
          /\ k = SeqOf(buffered_payload[k].first)
          /\ buffered_payload[k].first \in Positions /\ buffered_payload[k].size \in Nat
          /\ buffered_payload[k].first > Position
    BY <1>1, MapIs, Places DEF Inv, TrackerInv, WalksInOrder
  <2>3. \A k \in DOMAIN buffered_payload : seq_compare(k, seq_number) > 0
    BY <2>1, <2>2, Compares DEF Positions
  <2>4. \A k \in DOMAIN buffered_payload : Position \notin BytesOf(buffered_payload[k])
    BY <2>1, <2>2 DEF BytesOf, Positions
  <2>5. Position \notin arrived
    BY <1>1, <2>1, <2>4 DEF Inv, TrackerInv, NothingForgotten, Positions
  <2> QED BY <2>1, <2>3, <2>5
<1>2. Inv => NothingWithheld
  BY <1>1 DEF NothingWithheld
<1> QED BY Invariance, <1>2, PTL

(* A stream that stays followed keeps within max_buffered_chunks and       *)
(* max_buffered_bytes.                                                     *)
THEOREM BuffersStayBounded ==
  Spec => []BuffersBounded
<1>1. Inv => BuffersBounded
  BY DEF Inv
<1> QED BY Invariance, <1>1, PTL

(* total_buffered_bytes, which the follower compares with its limit, is    *)
(* the number of bytes the map holds, through repeated, longer and shorter *)
(* segments at one place, slices, and entries erased.                      *)
THEOREM CountsBufferedBytes ==
  Spec => []BufferAccounted
<1>1. Init => BufferAccounted
  BY NoneBuffered DEF Init, TrackerInit, BufferAccounted
<1>2. Inv /\ BufferAccounted /\ [Next]_vars => BufferAccounted'
  <2> SUFFICES ASSUME Inv, BufferAccounted, [Next]_vars
               PROVE  BufferAccounted'
    OBVIOUS
  <2>1. CASE NewStream
    BY <2>1, NoneBuffered DEF NewStream, Fresh, BufferAccounted
  <2>2. CASE \/ Unrelated \/ (\E flags \in ServerFlags : FromServer(flags))
             \/ (\E flags \in ClientFlags : FromClient(flags))
             \/ TrackerReturns \/ Check \/ Cleanup \/ Tick \/ UNCHANGED vars
    <3>1. UNCHANGED <<buffered_payload, total_buffered_bytes>>
      BY <2>2 DEF Unrelated, FromServer, FromClient, SetSequenceNumber, TrackerReturns, Return,
                  Check, Cleanup, Tick, vars, trackerVars
    <3> QED BY <3>1 DEF BufferAccounted
  <2>3. ASSUME NEW c \in Segments, NEW flags \in DataFlags, DataFromClient(c, flags)
        PROVE  BufferAccounted'
    <3> DEFINE current == NextSequenceNumber(client_state, flags)
    <3>1. tracked /\ (ProcessPayload(current, SeqOf(c.first), c) \/ SetSequenceNumber(current))
      BY <2>3 DEF DataFromClient
    <3>2. MayBegin(current)
      BY <3>1, ClientSteps
    <3> HIDE DEF current
    <3>3. CASE ProcessPayload(current, SeqOf(c.first), c)
      BY <3>2, <3>3, ProcessAccounted DEF Inv
    <3>4. CASE SetSequenceNumber(current)
      BY <3>4 DEF SetSequenceNumber, BufferAccounted
    <3> QED BY <3>1, <3>3, <3>4
  <2>4. CASE TrackerStep
    BY <2>4, SliceAccounted, ErasureAccounted DEF TrackerStep, Loop, Inv
  <2> QED BY <2>1, <2>2, <2>3, <2>4 DEF Next
<1> QED BY Invariance, <1>1, <1>2, PTL DEF Spec

(* cleanup_streams() runs once in a keep-alive time, is never overdue when *)
(* a packet was handled, leaves no stream that is silent for a keep-alive  *)
(* time, and gives up none that was heard of within one.                   *)
THEOREM SilentStreamsGo ==
  Spec => StaleStreamsGo
<1>1. Inv /\ [Next]_vars =>
        [pc = "cleanup" =>
           /\ now < last_cleanup' + stream_keep_alive
           /\ tracked' => last_cleanup' < last_seen + stream_keep_alive
           /\ tracked /\ ~tracked' => last_seen + stream_keep_alive <= now]_vars
  <2> SUFFICES ASSUME Inv, Next, pc = "cleanup"
               PROVE  /\ now < last_cleanup' + stream_keep_alive
                      /\ tracked' => last_cleanup' < last_seen + stream_keep_alive
                      /\ tracked /\ ~tracked' => last_seen + stream_keep_alive <= now
    OBVIOUS
  <2>1. Cleanup
    BY DEF Next, NewStream, Unrelated, FromClient, DataFromClient, FromServer, TrackerStep,
           TrackerReturns, Check, Tick, Goto
  <2>2. tracked' => tracked /\ ~(CleanupDue /\ Stale)
    BY <2>1, Zenon DEF Cleanup
  <2>3. tracked /\ ~tracked' => Stale
    BY <2>1, Zenon DEF Cleanup
  <2>4. last_seen \in Nat /\ last_cleanup \in Nat /\ now \in Nat /\ stream_keep_alive \in Nat \ {0}
    BY FollowerAssumption DEF Inv, TypeOK
  <2>5. tracked => last_seen + stream_keep_alive > last_cleanup
    BY DEF Inv, HeardOf
  <2>6. last_cleanup' = IF CleanupDue THEN now ELSE last_cleanup
    BY <2>1 DEF Cleanup
  <2>7. now < last_cleanup' + stream_keep_alive
    BY <2>4, <2>6 DEF CleanupDue
  <2>8. tracked' => last_cleanup' < last_seen + stream_keep_alive
    <3>1. CASE CleanupDue
      BY <2>2, <2>4, <2>6, <3>1 DEF Stale
    <3>2. CASE ~CleanupDue
      BY <2>2, <2>4, <2>5, <2>6, <3>2
    <3> QED BY <3>1, <3>2
  <2> QED BY <2>3, <2>7, <2>8 DEF Stale
<1> QED BY Invariance, <1>1, PTL DEF Spec, StaleStreamsGo

-----------------------------------------------------------------------------
(* The byte stream promised.                                               *)

Seen == IF Synchronised THEN arrived ELSE {}
Out  == Len(delivered)

(* A step that shows and delivers nothing stutters.                        *)
LEMMA StepsStutter ==
  ASSUME UNCHANGED <<seq_number, arrived, delivered>>
  PROVE  UNCHANGED <<Seen, Out>>
BY DEF Seen, Out, Synchronised

(* A call that begins: seen are the bytes of the segment, if it is not old *)
(* and the SYN was acknowledged.                                           *)
LEMMA StepsSee ==
  ASSUME Inv, ~running, NEW current, MayBegin(current), NEW c \in Segments,
         seq_number' = current, UNCHANGED delivered,
         arrived' = arrived \/ arrived' = arrived \cup BytesOf(c)
  PROVE  Promised!Next \/ UNCHANGED <<Seen, Out>>
<1>1. Out' = Out
  BY DEF Out
<1>2. c.first \in 0 .. StreamLength - 1 /\ c.first + c.size - 1 \in 0 .. StreamLength - 1
  BY TrackerAssumption DEF Segments
<1>3. current # seq_number => Synchronised' /\ arrived = {}
  BY SynIsBefore, Compares DEF MayBegin, Synchronised
<1>4. current = seq_number => Synchronised' = Synchronised
  BY DEF Synchronised
<1>5. CASE Seen' = Seen
  BY <1>1, <1>5
<1>6. CASE Seen' # Seen
  <2>1. Seen' = Seen \cup BytesOf(c)
    BY <1>3, <1>4, <1>6 DEF Seen
  <2>2. Promised!See(c.first .. c.first + c.size - 1)
    BY <1>1, <2>1 DEF Promised!See, Seen, Out, BytesOf
  <2> QED BY <1>2, <2>2 DEF Promised!Next
<1> QED BY <1>5, <1>6

(* A delivered chunk is what the byte stream promises next.                *)
LEMMA StepsDeliver ==
  ASSUME Inv, AppendBuffered
  PROVE  Promised!Next \/ UNCHANGED <<Seen, Out>>
<1>1. /\ Synchronised /\ Synchronised'
      /\ buffered_payload[iter].size \in Nat
      /\ Len(delivered') = Len(delivered) + buffered_payload[iter].size
      /\ Len(delivered') <= StreamLength
      /\ Len(delivered) .. Len(delivered') - 1 \subseteq arrived
  BY AppendsBuffered DEF Inv
<1>2. Seen' = Seen
  BY <1>1 DEF Seen, AppendBuffered
<1>3. Len(delivered) \in Nat /\ StreamLength \in Nat
  BY Numbers DEF Inv, TrackerInv, OwnTypes
<1>4. CASE Len(delivered') = Len(delivered)
  BY <1>2, <1>4 DEF Out
<1>5. CASE Len(delivered') # Len(delivered)
  <2>1. Len(delivered') \in Len(delivered) + 1 .. StreamLength
    BY <1>1, <1>3, <1>5
  <2>2. Promised!Deliver
    BY <2>1, <1>1, <1>2 DEF Promised!Deliver, Seen
  <2> QED BY <2>2 DEF Promised!Next
<1> QED BY <1>4, <1>5

(* Each direction is the byte stream a user is promised, up to what it has *)
(* to do in the end: a new connection begins one, a segment that counts is *)
(* seen, an entry the loop appends is a delivery of bytes that were seen   *)
(* and connect, and every other step stutters.                             *)
THEOREM ImplementsByteStream ==
  Spec => Promised!Safety
<1>1. Init => Promised!Init
  BY DEF Init, TrackerInit, Promised!Init, Synchronised
<1>2. Inv /\ [Next]_vars => [Promised!Next]_(Promised!vars)
  <2> SUFFICES ASSUME Inv, [Next]_vars
               PROVE  Promised!Next \/ UNCHANGED <<Seen, Out>>
    BY DEF Promised!vars, Seen, Out
  <2>1. CASE NewStream
    <3>1. seq_number' = InitialSeq /\ delivered' = <<>>
      BY <2>1 DEF NewStream, Fresh
    <3>2. Promised!Begin
      BY <3>1 DEF Promised!Begin, Synchronised
    <3> QED BY <3>2 DEF Promised!Next
  <2>2. CASE Unrelated \/ (\E flags \in ServerFlags : FromServer(flags)) \/ Check \/ Cleanup \/ Tick
             \/ UNCHANGED vars
    <3>1. UNCHANGED <<seq_number, arrived, delivered>>
      BY <2>2 DEF Unrelated, FromServer, Check, Cleanup, Tick, vars, trackerVars
    <3> QED BY <3>1, StepsStutter
  <2>3. ASSUME NEW flags, FromClient(flags)
        PROVE  Promised!Next \/ UNCHANGED <<Seen, Out>>
    <3> DEFINE current == NextSequenceNumber(client_state, flags)
    <3>1. tracked /\ SetSequenceNumber(current)
      BY <2>3 DEF FromClient
    <3>2. MayBegin(current)
      BY <3>1, ClientSteps
    <3>3. seq_number' = current /\ UNCHANGED <<arrived, delivered>>
      BY <3>1 DEF SetSequenceNumber
    <3> HIDE DEF current
    <3>4. current # seq_number => arrived = {}
      BY <3>2 DEF MayBegin
    <3>5. UNCHANGED <<Seen, Out>>
      BY <3>3, <3>4 DEF Seen, Out, Synchronised
    <3> QED BY <3>5
  <2>4. ASSUME NEW c \in Segments, NEW flags \in DataFlags, DataFromClient(c, flags)
        PROVE  Promised!Next \/ UNCHANGED <<Seen, Out>>
    <3> DEFINE current == NextSequenceNumber(client_state, flags)
    <3>1. tracked /\ (ProcessPayload(current, SeqOf(c.first), c) \/ SetSequenceNumber(current))
      BY <2>4 DEF DataFromClient
    <3>2. MayBegin(current)
      BY <3>1, ClientSteps
    <3> HIDE DEF current
    <3>3. /\ ~running /\ seq_number' = current /\ UNCHANGED delivered
          /\ arrived' = arrived \/ arrived' = arrived \cup BytesOf(c)
      BY <3>1 DEF SetSequenceNumber, ProcessPayload
    <3> QED BY <3>2, <3>3, StepsSee
  <2>5. CASE TrackerStep \/ TrackerReturns
    <3>1. CASE AppendBuffered
      BY <3>1, StepsDeliver
    <3>2. CASE SliceBuffered \/ DropBuffered \/ Return
      <4>1. UNCHANGED <<seq_number, arrived, delivered>>
        BY <3>2 DEF SliceBuffered, DropBuffered, Return
      <4> QED BY <4>1, StepsStutter
    <3> QED BY <2>5, <3>1, <3>2 DEF TrackerStep, TrackerReturns, Loop
  <2> QED BY <2>1, <2>2, <2>3, <2>4, <2>5 DEF Next
<1> QED BY Invariance, <1>1, <1>2, PTL DEF Spec, Promised!Safety

=============================================================================
