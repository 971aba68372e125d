----------------------------- MODULE DataTracker -----------------------------
(***************************************************************************)
(* Tins::TCPIP::DataTracker: puts the segments of one direction of a TCP   *)
(* connection in order.                                                    *)
(*                                                                         *)
(* process_payload() stores a segment in a map from sequence numbers to    *)
(* payloads and then walks over the map while the entry it stands on does  *)
(* not start after the current sequence number.  One turn of that loop is  *)
(* an action here.  Sequence numbers wrap around at Modulus, and the map   *)
(* is ordered by plain comparison, so that the walk starts again at the    *)
(* lowest key after the highest.                                           *)
(*                                                                         *)
(* Byte number p of the stream has sequence number InitialSeq + 1 + p.  A  *)
(* payload is a record of the first byte it holds and of its size, so that *)
(* bytes in the wrong place show.                                          *)
(***************************************************************************)
EXTENDS Integers, Sequences, FiniteSetsExt, Functions

CONSTANTS
  Modulus,       \* how many sequence numbers there are: 2^32
  InitialSeq,    \* the sequence number of the SYN
  StreamLength,  \* how many bytes the peer sends (a bound)
  MaxSegment,    \* the longest segment (a bound)
  End            \* the end() iterator

(* The stream is shorter than half of the sequence numbers, so that old    *)
(* and new segments can be told apart.                                     *)
ASSUME TrackerAssumption ==
  /\ Modulus \in Nat /\ StreamLength \in Nat /\ MaxSegment \in Nat
  /\ StreamLength + 1 < Modulus \div 2
  /\ InitialSeq \in 0 .. Modulus - 1
  /\ End \notin Int

VARIABLES
  seq_number,            \* the sequence number expected next
  buffered_payload,      \* the map
  total_buffered_bytes,
  payload,               \* what this call added to payload_, in order
  running,               \* a call of process_payload() is in its loop
  iter,                  \* the key the loop stands on, or End
  added_some,            \* what the call will return
  arrived,               \* ghost: the bytes some call was given
  delivered              \* ghost: the bytes payload_ was ever given, in order

trackerVars == <<seq_number, buffered_payload, total_buffered_bytes, payload,
                 running, iter, added_some, arrived, delivered>>

-----------------------------------------------------------------------------
SeqOf(p) == (InitialSeq + 1 + p) % Modulus

(* Half of the numbers are before a given one and half after it.           *)
seq_compare(seq1, seq2) ==
  LET half == Modulus \div 2
  IN  CASE seq1 = seq2 -> 0
        [] seq1 < seq2 -> IF seq2 - seq1 < half THEN -1 ELSE 1
        [] seq1 > seq2 -> IF seq1 - seq2 > half THEN -1 ELSE 1

Chunk(first, size) == [first |-> first, size |-> size]
BytesOf(chunk)     == chunk.first .. chunk.first + chunk.size - 1

(* payload.erase(begin, begin + n)                                         *)
Erased_KeepsFirst(chunk, n) == Chunk(chunk.first, chunk.size - n)

Erased(chunk, n) == Chunk(chunk.first + n, chunk.size - n)

EndOf(seq, chunk) == (seq + chunk.size) % Modulus

With(map, key, chunk) == [k \in DOMAIN map \cup {key} |-> IF k = key THEN chunk ELSE map[k]]
Without(map, key)     == [k \in DOMAIN map \ {key} |-> map[k]]

(* store_payload(): the map with a payload stored at seq, where a longer   *)
(* one already there stays, and the bytes that this adds.                  *)
Stored_FirstWins(map, seq, chunk) == IF seq \in DOMAIN map THEN map ELSE With(map, seq, chunk)

Stored(map, seq, chunk) ==
  IF seq \in DOMAIN map /\ map[seq].size >= chunk.size THEN map ELSE With(map, seq, chunk)

AddedBytes_Whole(map, seq, chunk) ==
  IF seq \in DOMAIN map /\ map[seq].size >= chunk.size THEN 0 ELSE chunk.size

AddedBytes(map, seq, chunk) ==
  LET there == IF seq \in DOMAIN map THEN map[seq].size ELSE 0
  IN  IF there >= chunk.size THEN 0 ELSE chunk.size - there

(* erase_iterator(): on to the next key, and from the last to the first of *)
(* those that are left.                                                    *)
After_StopsAtEnd(map, key) ==
  LET later == {k \in DOMAIN map : k > key}
  IN  IF later # {} THEN Min(later) ELSE End

After(map, key) ==
  LET later == {k \in DOMAIN map : k > key}
      left  == DOMAIN map \ {key}
  IN  CASE later # {}               -> Min(later)
        [] later = {} /\ left # {} -> Min(left)
        [] later = {} /\ left = {} -> End

-----------------------------------------------------------------------------
(* A tracker made for a SYN with that sequence number.                     *)
Fresh(seq) ==
  /\ seq_number' = seq
  /\ buffered_payload' = <<>>
  /\ total_buffered_bytes' = 0
  /\ payload' = <<>>
  /\ running' = FALSE
  /\ iter' = End
  /\ added_some' = FALSE
  /\ arrived' = {}
  /\ delivered' = <<>>

TrackerInit ==
  /\ seq_number = InitialSeq
  /\ buffered_payload = <<>> /\ total_buffered_bytes = 0
  /\ payload = <<>>
  /\ running = FALSE /\ iter = End /\ added_some = FALSE
  /\ arrived = {} /\ delivered = <<>>

(* sequence_number(seq), which Flow calls once the SYN was acknowledged.   *)
SetSequenceNumber(seq) ==
  /\ ~running
  /\ seq_number' = seq
  /\ UNCHANGED <<buffered_payload, total_buffered_bytes, payload, running, iter, added_some,
                 arrived, delivered>>

(* A call, up to the loop.  `current' is the sequence number at the call:  *)
(* Flow may have moved it in the same step.                                *)
IsOld(current, seq, chunk) == seq_compare(EndOf(seq, chunk), current) < 0

Ahead(current, seq, chunk) ==
  IF seq_compare(seq, current) < 0
  THEN [seq |-> current, chunk |-> Erased(chunk, (current - seq) % Modulus)]
  ELSE [seq |-> seq, chunk |-> chunk]

ProcessPayload(current, seq, chunk) ==
  /\ ~running
  /\ ~IsOld(current, seq, chunk)
  /\ LET new == Ahead(current, seq, chunk)
         map == Stored(buffered_payload, new.seq, new.chunk)
     IN  /\ buffered_payload' = map
         /\ total_buffered_bytes' = total_buffered_bytes
              + AddedBytes(buffered_payload, new.seq, new.chunk)
         /\ iter' = IF current \in DOMAIN map THEN current ELSE End
  /\ seq_number' = current
  /\ payload' = <<>>
  /\ running' = TRUE
  /\ added_some' = FALSE
  /\ arrived' = arrived \cup BytesOf(chunk)
  /\ UNCHANGED delivered

(* The loop goes on while the entry does not start after seq_number.       *)
Continues ==
  /\ running
  /\ iter # End
  /\ seq_compare(iter, seq_number) <= 0

(* It starts before and ends after: what is new of it is stored again, at  *)
(* seq_number.  The entry it is moved out of is erased, empty.             *)
SliceBuffered ==
  /\ Continues
  /\ seq_compare(iter, seq_number) < 0
  /\ LET old   == buffered_payload[iter]
         slice == Erased(old, (seq_number - iter) % Modulus)
         map   == Stored(buffered_payload, seq_number, slice)
     IN  /\ seq_compare(EndOf(iter, old), seq_number) > 0
         /\ buffered_payload' = Without(map, iter)
         /\ total_buffered_bytes' = total_buffered_bytes - old.size
              + AddedBytes(buffered_payload, seq_number, slice)
         /\ iter' = After(map, iter)
  /\ UNCHANGED <<seq_number, payload, running, added_some, arrived, delivered>>

(* All of it has been seen.                                                *)
DropBuffered ==
  /\ Continues
  /\ seq_compare(iter, seq_number) < 0
  /\ seq_compare(EndOf(iter, buffered_payload[iter]), seq_number) <= 0
  /\ buffered_payload' = Without(buffered_payload, iter)
  /\ total_buffered_bytes' = total_buffered_bytes - buffered_payload[iter].size
  /\ iter' = After(buffered_payload, iter)
  /\ UNCHANGED <<seq_number, payload, running, added_some, arrived, delivered>>

(* It is the next one.                                                     *)
AppendBuffered ==
  /\ Continues
  /\ iter = seq_number
  /\ LET chunk == buffered_payload[iter]
         bytes == [i \in 1 .. chunk.size |-> chunk.first + i - 1]
     IN  /\ payload' = payload \o bytes
         /\ delivered' = delivered \o bytes
         /\ seq_number' = EndOf(seq_number, chunk)
         /\ total_buffered_bytes' = total_buffered_bytes - chunk.size
  /\ buffered_payload' = Without(buffered_payload, iter)
  /\ iter' = After(buffered_payload, iter)
  /\ added_some' = TRUE
  /\ UNCHANGED <<running, arrived>>

Return ==
  /\ running
  /\ ~Continues
  /\ running' = FALSE
  /\ iter' = End
  /\ UNCHANGED <<seq_number, buffered_payload, total_buffered_bytes, payload, added_some,
                 arrived, delivered>>

Loop == SliceBuffered \/ DropBuffered \/ AppendBuffered

(* The segments of the stream, as often and in whatever order the network  *)
(* shows them.                                                             *)
Segments == {c \in [first : 0 .. StreamLength - 1, size : 1 .. MaxSegment] :
               c.first + c.size <= StreamLength}

TrackerNext ==
  \/ seq_number = InitialSeq /\ arrived = {} /\ SetSequenceNumber(SeqOf(0))
  \/ \E c \in Segments : ProcessPayload(seq_number, SeqOf(c.first), c)
  \/ Loop
  \/ Return

TrackerSpec == TrackerInit /\ [][TrackerNext]_trackerVars

-----------------------------------------------------------------------------
Chunks == [first : 0 .. StreamLength, size : 0 .. StreamLength]

(* Sequence numbers stay below Modulus, every entry of the map is at the   *)
(* number of its first byte, and the iterator is on an entry.              *)
TrackerTypeOK ==
  /\ seq_number \in 0 .. Modulus - 1
  /\ \A k \in DOMAIN buffered_payload :
       buffered_payload[k] \in Chunks /\ k = SeqOf(buffered_payload[k].first)
  /\ iter \in DOMAIN buffered_payload \cup {End}
  /\ running \in BOOLEAN /\ added_some \in BOOLEAN
  /\ arrived \subseteq 0 .. StreamLength - 1

(* Once the SYN was acknowledged.                                          *)
Synchronised == seq_number # InitialSeq

(* What the user gets are the bytes of the stream from the first on, in    *)
(* order and once each, whatever was lost, repeated or overlapped, also    *)
(* where sequence numbers wrap around; and seq_number is the next one's.   *)
InOrder ==
  /\ \A i \in DOMAIN delivered : delivered[i] = i - 1
  /\ Synchronised => seq_number = SeqOf(Len(delivered))

BufferedBytes(map) == FoldFunction(+, 0, [k \in DOMAIN map |-> map[k].size])

(* The count StreamFollower compares with its limit is what the map holds. *)
BufferAccounted == total_buffered_bytes = BufferedBytes(buffered_payload)

(* Between two calls nothing is kept back: no entry of the map starts at   *)
(* or before the next byte, and that byte has not been seen.               *)
NothingWithheld ==
  ~running /\ Synchronised =>
    /\ \A k \in DOMAIN buffered_payload : seq_compare(k, seq_number) > 0
    /\ Len(delivered) \notin arrived
=============================================================================
