# data-injector: a TLA+ verification project

`data-injector` receives UDP datagrams, repackages each one as an IP datagram,
puts that into a DAB MSC data group, splits the group into DAB packets and
writes the packets into a FIFO that a DAB multiplexer reads. This directory
holds TLA+ modules of the program, TLC configurations that model-check them on
small instances, and TLAPS proofs for every value of their constants. Paths
below are relative to the repository.

    tlc -workers 2 -config MCInjector.cfg MCInjector.tla
    tlapm PacketGenerator_proofs.tla

## 1. Inventory

| component | code | state it keeps | operations | hard behaviour |
|---|---|---|---|---|
| packager (`main`, `receive`, `wrap_data`) | `src/packager.cpp` | position in the main loop, configuration, stream to the FIFO, the string in hand, two static generators | read configuration, open FIFO, bind, receive one datagram, wrap, write | the socket lives for one datagram; datagrams in between are lost; opening and writing the FIFO block on the reader; every exception ends the program; unchecked stream errors |
| data group generator | `src/msc_data_group_generator.cpp`, its header, `msc_data_group_constants.h` | last datagram, continuity index (4 bits), repetition index | `build` | index must move exactly when the datagram changes |
| packet generator | `src/packet_generator.cpp`, its header, `packet_constants.h`, `vector_helpers.h` | first/last flag, continuity index (2 bits) | `build`, which recurses | both members survive the call; unsigned subtraction sizes the padding; boundaries at 19/43/67/91 bytes |
| block queue | `include/dab/types/queue.h` (used by the aliases of `common_types.h`) | capacity, first slot, size, backing store, mutex, condition variable | `enqueue`, `dequeue`, `try_dequeue` (one or a block), `clear`, `size`, `approximate_size` | two threads, wait/notify, allocation and copies that throw half way, elements moved within and between stores |
| CRC | `src/crc16.cpp` | none | `genCRC16` | eight steps folded into shifts on operands of three widths |
| configuration reader | `include/INIReader.h` | key/value map, sections, first error line; while parsing: line number, section, name left open | parse, `Get`, `GetInteger`, ... | continuation lines, duplicate keys, truncated names, going on after an error, quotes, narrowing |
| transmission modes, binary literals, parse status, sample types | `include/dab/constants/*`, `include/dab/literals/*`, `include/dab/types/*` | none | compile-time tables | - |
| packet and data group parsers | `include/dab/*/..._parser.h` | - | declared only, there is no definition in this repository | - |
| libtins: IP, UDP, RawPDU serialisation | `libtins/src/{pdu,ip,udp,utils}.cpp` | headers | `serialize` | layers write from the inside out; checksums in machine order; odd sizes, zero checksum; address parsing throws |
| libtins: TCP stream following | `libtins/src/tcp_ip/*`, `internals.cpp` | streams by connection; per flow a state, a sequence number, a map of buffered segments | `process_packet`, `cleanup_streams` | lost, repeated, overlapping and late segments, sequence numbers that wrap around, limits, keep-alive |
| libtins: the rest | `libtins/` | vendored | - | protocol parsers, sniffing, sending |
| boost::asio, kernel (UDP socket, FIFO), the FIFO's reader | outside | - | - | bounded buffers, blocking, SIGPIPE |

How they interact: `main` is one thread that calls everything else
synchronously. `wrap_data` keeps one data group generator and one packet
generator in static objects, so what one datagram leaves in them is what the
next one starts from. Datagrams, packets and blocking cross the process
boundary through two kernel buffers, the socket's and the FIFO's. The queue is
a library type of its own; nothing in `src/` instantiates it beyond the
aliases, and it is modelled as the two-thread component its documentation
describes.

What makes each component correct:

* packet generator: packets carry the group completely and in order, fit
  their announced length, waste no capacity, delimit the group by their flags
  and continue each other's index across calls;
* data group generator: the continuity index tells a repetition from a new
  datagram;
* packager: it relays (what comes out arrived, in order, at most once,
  unaltered up to the buffer's 1024 bytes), it loses nothing it has received
  except when it ends, and it listens again after every datagram;
* CRC: it is the polynomial division its comment names, so that bursts of up to
  sixteen bits never pass;
* configuration reader: what is loaded is what the file as a whole says, and
  nothing of a file with a bad line is used;
* IP/UDP serialisation: lengths and checksums verify and a receiver gets the
  payload back;
* stream following: bytes come out in order, once, and without being kept
  back; limits hold; silent streams go and live ones stay;
* queue: it is a FIFO under every interleaving and every throw, reads no slot
  without an object, loses no wakeup, and its memory follows demand.

## 2. Modules

| module | models | checked by |
|---|---|---|
| `PacketGenerator` | `dab::packet_generator` | `MCPacketGenerator`, `PacketGenerator_proofs` |
| `MscDataGroupGenerator` | `dab::msc_data_group_generator` | `MCMscDataGroupGenerator`, `MscDataGroupGenerator_proofs` |
| `DatagramRelay` | abstract: what the injector promises | refined by `Injector` |
| `Injector` | `packager.cpp`, composing the two generators with network, pipe and reader | `MCInjector`, `Injector_proofs` |
| `FifoQueue` | abstract: what a queue promises | refined by `BlockQueue` |
| `BlockQueue` | `dab::internal::queue` | `MCBlockQueue`, `BlockQueue_proofs` |
| `ConfigReader` | `INIReader.h` and the first half of `main` | `MCConfigReader`, `ConfigReader_proofs` |
| `Crc16` | `crc16.cpp` | through `Wire` and its proofs |
| `IpUdp` | libtins' IP and UDP serialisation | through `Wire` and its proofs |
| `Wire` | `wrap_data` in bytes: the two generators, `Crc16` and `IpUdp` composed, a medium that damages bits | `MCWire`, `Wire_proofs` |
| `ByteStream` | abstract: what a follower of a TCP stream promises | refined by `StreamFollower` |
| `DataTracker` | `Tins::TCPIP::DataTracker` | through `StreamFollower` and its proofs |
| `StreamFollower` | `Tins::TCPIP::StreamFollower`, `Stream` and `Flow` | `MCStreamFollower`, `StreamFollower_proofs` |
| `SumTheorems` | no code: what `FoldFunction(+, 0, f)` computes, and induction by a smallest counterexample | its own proofs; used by `Injector_proofs`, `StreamFollower_proofs` and `Wire_proofs` |

### PacketGenerator

`m_first_last` and `m_continuity_index` are the members. A call of `build` is
a run of actions: `Build(g)` enters it, each `BuildSplit` is one invocation
that cuts off 91 bytes and recurses, `BuildLast` is the invocation that ends
the recursion. `rest` is the argument of the innermost invocation, as the
slice of the group it holds, and `packets` what the invocations have made.
Because of the recursion `build` finishes in the order of the packets: the
header of a packet is written before the recursive call, so the sequence the
model appends is the one the code concatenates. Bytes are slices `from .. to`;
`Assemble` keeps every field of the header (`address` modulo 1024, `useful`
modulo 256, as the code's types cut them). What these fields are in bytes, and
the CRC, is in `Wire`.

### MscDataGroupGenerator

One action, `Build(d)`, with the two branches of the comparison. A datagram is
a value with a size, equal exactly when its bytes are. `m_repetition_index` is
kept although it never leaves zero: nothing in the code sets it to anything
else, which also means the decrement is dead code.

### Injector

`pc` is the position in `main`; its values name the next thing to do
(`config`, `open`, `bind`, `receive`, `wrap`, `split`, `pack`, `write`) or the
end (`exited`: returned or caught an exception, `killed`: SIGPIPE). Every way to end
is an `End`: the socket goes with what it had queued, and the pipe with its
packets unless a reader still has it open. The two
generators are instances with their variables in the composition; `Wrap`,
`Split` and `Pack` are their actions. `held` is the string between `receive`
and the write. `Init` chooses whether the configured addresses are dotted
quads and whether `/tmp/dabdata` is a FIFO; the open stream is `"nopipe"` both
when opening failed (the stream ignores writes) and when the path named a
regular file (the writes succeed and no reader sees them): `main` behaves the
same.

External, modelled from how the program uses them: `Arrive` (the kernel queues
a datagram only when a socket is bound and has room), `Bind`/`BindThrows` (the
port may be taken), `ReceiveThrows` (the socket may report an error), the pipe (a write of at most `PIPE_BUF` bytes goes in as a
whole or waits, and raises SIGPIPE without a reader; asio leaves SIGPIPE alone
on Linux), and a reader that opens and closes the FIFO at any time, takes
packet by packet, rebuilds groups and notices every packet that does not
continue the stream. `arrived` and `received` are ghosts that number the
datagrams; `number` in a pipe entry is a ghost too.

Payloads are `[head, size]`. Two payloads with one `head` agree in their first
1024 bytes, so that two long datagrams can become equal by truncation.

### BlockQueue

The array is `store`, a function from slots to values or `Raw` (no object).
Member functions that cannot fail half way are one action under the mutex
(`Take`, `Wait`, `TryDequeue`, `Clear`). An enqueue is several, during which
the producer holds the mutex: `Enqueue` (call and lock), `Reserve` or `Resize`
or `AllocateThrows`, `Construct`/`ConstructThrows` per element, `Publish` (the
atomic write of `m_size`, which `approximate_size` reads without the lock) and
`Notify`. For the abstract queue a block is `pending` from the call until
`Publish`, so that it is put in once or not at all. `dequeue(elem)` and `do_dequeue` are the block forms for one element
(the code does the same); `enqueue(elem)` is kept apart by `single`, because it
decides on growth differently. A wait may end spuriously. The element type is
one whose copies may throw and whose moves do not (`std::vector<float>`, the
type of `symbol_queue_t`); for a trivially copyable type the behaviours are
the ones without a throw. `size()` and `approximate_size()` change nothing and
are not actions. `demand` and `abandoned` are ghosts.

### ConfigReader

The locals of `ini_parse_stream` are variables and one turn of its loop is one
action: `SkipLine`, `ContinueValue`, `EnterSection`, `AddPair` and `BadLine`
are the branches of its `if` chain. A line is a record of what the parser finds
in it (kind, indentation, name, value); how whitespace and inline comments are
stripped is abstracted. What `fgets` returns is a line here: a line of the file
that is longer than 199 characters is several. A value is the sequence of the
texts that newlines join; a text is known by the number `strtol` reads at its
start, by whether that number is the `whole` of it, and by whether it is a dotted
address. After the parse `Reject` and `Load`
are `main`'s two ways on, `Serve` and `AddressThrows` those of the first
datagram. The properties are about definitions over the whole file
(`IsContinuation`, `SectionOf`, `TextsFor`), not about the loop; these take the
file as a parameter, because they are about no state. They know names in full: that
the parser cuts some of them to 49 characters is no part of what a file says.
`EntriesFollowFile` is therefore about the keys that no longer name of the file is
cut to (`IsUncut`), which the keys `main` asks for always are, and
`ContinuationsKeepTheName`, which makes no such exception, is violated.
`SettingsAsWritten` says what `GetInteger` and the conversion get right: integers of
16 bits that are given once, and defaults; `NumbersAsDocumented`, which is about
every value, is violated.

### Crc16, IpUdp, Wire

`Crc16` has `genCRC16`'s loop with its shifts as operations on sets of bits, next
to the definition by division (`Division`, `Remainders`) and the check of a
receiver (`Verifies`). `IpUdp` computes the bytes of the UDP
and IP layers as libtins does, in little-endian words, with the folding and the
zero rule. `Wire` runs one payload after the other through the steps of
`wrap_data`: `Receive`, `SerializeUdp`, `SerializeIp`, `BuildGroup`, `Split`,
`Pack`, `Write`; the two generators are instances of their modules whose groups
carry bytes. `Damage` flips a burst of bits of what was written. The receiver
does not exist in the repository and is written from the formats, in big-endian
arithmetic and by division, with no definition shared with the sender, so that
the two sides check each other.

### DataTracker, StreamFollower

A call of `process_payload` is `ProcessPayload` up to its loop, one action for
each of the three branches per turn (`SliceBuffered`, `DropBuffered`,
`AppendBuffered`), and `Return`. `buffered_payload` is the map from sequence
numbers (modulo `Modulus`) to payloads; a payload knows the positions of its
bytes in the stream, so a byte erased too much or too little shows. `iter`
follows the map's order by plain comparison. `arrived` and `delivered` are
ghosts. `StreamFollower` adds `Flow::update_state`, the check after each packet
and `cleanup_streams`, for one connection among others (`Unrelated` is any
packet that is not of a followed connection: it may trigger the clean-up).
`NewStream` may leave without a clean-up: that is `callback_not_set`, thrown after
the stream was inserted. The clock moves between packets.
The capture may show any segment at any time: missed, repeated, overlapping,
late, with or without a FIN. Only the client's data is modelled; the two flows are
objects of one class. Left out: data on a SYN, acknowledgement tracking, attaching to running connections,
ignoring data, the out-of-order callback, IPv6, and callbacks of the user that
change the follower.

## 3. Runs

| run | module, cfg | what it asks | bounds |
|---|---|---|---|
| `packets` | `MCPacketGenerator` | all properties of the packet generator | 21 sizes: empty, the smallest and largest group the injector makes (32, 1056), and every length at which `build` chooses differently, one to both sides, for one, two, three and twelve packets; any sequence of calls |
| `data_groups` | `MCMscDataGroupGenerator` | index against repetition | nine datagrams, any sequence, so every index with every predecessor |
| `injector` | `MCInjector` | relay refinement, reader in step, nothing lost inside, repetition, burst size; listening again, received comes out | three arrivals of three payloads (0, 1500, 5000 bytes; the two long ones agree in what is kept), socket buffer of 2, pipe of 13 packets (one burst of twelve fits, two do not), reader leaves at most once |
| `queue` | `MCBlockQueue` | FIFO refinement, memory, wakeups, growth; a resting producer leaves no consumer asleep | blocks of none, one and two elements, the single one also as an element, growth by 2, at most 3 elements, dequeues of up to 2 |
| `queue_clear` | `MCBlockQueue`, `MCBlockQueueClear.cfg` | `clear()` against its comment: violated | as `queue` |
| `config` | `MCConfigReader` | parsed values, error, settings, addresses against the whole file | every file of up to four lines out of 17 kinds (88 741 files) |
| `config_long_name` | `MCConfigReader`, `MCConfigReaderLongName.cfg` | a continuation goes to the same name: violated | files of up to two lines |
| `config_numbers` | `MCConfigReader`, `MCConfigReaderNumbers.cfg` | ports and packet address are the integers the file has, or the defaults: violated | files of up to two lines |
| `config_shipped` | `MCConfigReader`, `MCConfigReaderShipped.cfg` | the shipped file's addresses are addresses: violated | the repository's `injector.ini` |
| `wire` | `MCWire` | lengths, checksums, CRCs, payload back, bursts noticed | six payloads (0, 1, 2, 12, 60 and 151 bytes: one, two and three packets, even and odd, one with a checksum of zero), two in sequence; five shapes of burst at every position |
| `tcp` | `MCStreamFollower` | order, accounting, nothing withheld, limits, clean-up, refinement of `ByteStream` | six bytes in segments of up to three, sixteen sequence numbers that wrap after the third byte, limits of two chunks and four bytes, keep-alive of three in five units of time |
| `keep_alive` | `MCStreamFollower`, `MCStreamFollowerKeepAlive.cfg` | the keep-alive is the longest a silent stream is kept: violated | a stream of one byte, the same otherwise |

Why the bounds are enough. In `packets` the members range over all their
values and the state between calls does not depend on sizes other than through
the comparisons the sizes straddle; the proofs remove the bound. In the
injector three datagrams give two adjacent pairs, a full pipe, a queue cut off
by the closing socket, a continuity index that wraps (twelve packets) and a
reader that joins amid a group. In the queue, three elements over growth steps
of two meet: a block that fills the store exactly, growth by one and two
steps, a shift with and without overlap, a throw after the first of two
copies, and a consumer that wants two and is given one at a time.
Four lines of a file hold a header, a pair, its continuation and one more line
that repeats, ends or spoils what is open. A CRC is linear, so that whether a
burst is noticed does not depend on the bytes it hits; at every position of one,
two and three packets the bursts meet header, padding, CRC and the border of two
packets. Six bytes in overlapping segments reach every branch of the tracker's loop, the replacement of a
shorter segment, and the walk that starts again at the lowest key; sixteen
sequence numbers are enough for a stream shorter than half of them. Five units of
time with a keep-alive of three let a stream be heard of at any time between two
clean-ups and be silent for more than a keep-alive at a later packet.
`CHECK_DEADLOCK FALSE` is set where the modelled system stops: the injector
ends on any exception and its bounded network runs dry, a file has been loaded
or rejected, and the payloads of `wire` are used up.

Fairness. `injector` assumes weak fairness of `Main` (one thread that
is never stopped when it can run) and of a reader that has the FIFO open and
finds packets in it; nothing about the network, and nothing about a reader
coming or staying: where it matters, the properties say so. `queue`
assumes weak fairness of the steps inside a call. It does not assume that the
mutex is fair; a producer that never rests may starve the consumer, so the
property is about a producer that does. A wakeup without notification is never
assumed to happen. `tcp` assumes weak fairness of the steps that handle a packet
already taken: they are a sequential computation that waits for nothing. It
assumes no packet to arrive.

### Findings

* `clear()` resets the counters and leaves the elements alive: for
  `symbol_queue_t` the vectors leak when a later enqueue constructs over them
  or the store is freed (run `queue_clear`). There is no destructor either, so
  elements still queued at destruction leak the same way.
* The reader keeps the quotes around a value, and `injector.ini` has quotes
  around both addresses: the program starts with the shipped file and ends at
  the first datagram (run `config_shipped`).
* A name of more than 49 characters is stored in full for its own line and cut for
  the lines that continue it, so that these go to another key, although the handler
  is to be called "with the same name" (run `config_long_name`). None of the keys
  `main` asks for is affected.
* A port or packet address need not be what the file says (run `config_numbers`).
  `GetInteger` returns the number a value starts with, not the default, when the
  value is "not a valid integer": 10 for `10.9.8.7`, and the first of two lines. And
  `main` narrows what it returns to 16 bits without a check: the file is accepted
  with a port of 70000, and 4464 is used.
* A silent stream may be followed for nearly two keep-alive times, because streams
  are looked at once in a keep-alive time only, although the keep-alive is "the
  maximum time to keep unseen streams" (run `keep_alive`). `StaleStreamsGo` says what
  does hold: no clean-up is overdue once a packet was handled, and it removes what
  was silent for a keep-alive, and nothing else for its silence.

Observed, and stated in the hazards rather than as findings because no
document of the repository says otherwise: datagrams that reach the port while
one is being wrapped or written are lost, including those already queued on
the socket; datagrams longer than 1024 bytes are cut silently; two datagrams
with equal payloads, sent on purpose, look like a repetition on the air,
because identification, addresses and ports never change. An address for the
packets beyond 1023 loses its upper bits; a key given twice joins both values, which
makes an address unusable. A FIN shown before the SYN's acknowledgement leaves a
flow one sequence number behind, and `Stream::auto_cleanup_server_data` sets the
client's flag.

Two comments do not describe the code and have no run of their own. The `@post`
conditions of `do_enqueue` and `do_enqueue_block`
(`queue.h:324` and `:349`) say the size shrinks; it grows, as their callers need.
`DataTracker::process_payload` returns true, and the data callback is called, for a
retransmission that ends exactly at the expected sequence number and adds nothing,
where `data_tracker.h:81` has "the size of the payload will be greater than what it
was"; the model has the case, as an `AppendBuffered` of an empty payload.

## 4. Proofs

`PacketGenerator_proofs` proves the six invariants of the packet generator for
every set of groups of every size, every address and every sequence of calls.
None is inductive. `Inv` adds: the argument of an invocation is a suffix of
the group, all of it at first and never empty later (`RestIsSuffix`); packets
made on the way down are full (`FullSoFar`); and `m_first_last` tells how many
packets the call has made so far: 1 or 3 before the first, 2 after it, 0 after
more (`FlagsSoFar`). The last one is what makes the flags right whatever the
previous call left. One lemma per action shows that each conjunct of `Inv` is
kept; `AssembleFits` and `LastLengthFits` do the arithmetic of one packet.
Assumed: group sizes are natural numbers, the address is 16 bits wide.

`MscDataGroupGenerator_proofs` proves type correctness and the action property
that the index tells a repetition, for every set of datagrams, from the
invariant that the members remember the group built last.

`Wire_proofs` proves all four invariants of the bytes, for every configuration,
every payload that `receive()` can return, every sequence of them and every burst
of up to sixteen bits. It begins with `genCRC16` alone. A turn of its loop, for
every register and every byte: it is eight steps of the division
(`ElementDivides`: bit by bit, each of the sixteen bits of both sides is the same
exclusive or of bits of the register and the byte); registers that differ stay
different (`DifferencePersists`: a step of the division can be undone); and
different bytes make different registers (`ChangedByteTells`). Then, for messages
of every length: the loop goes through the remainders (`TurnsAreRemainders`), what
`genCRC16` completes verifies (`SealedVerifies`), and a burst of up to sixteen
bits is noticed, wherever it falls and whatever follows (`BurstsAreNoticed`).
For the last one, two messages that differ from bit `s` on and within sixteen
bits are divided side by side (`WindowTells`). If the registers agreed at the
end, they would agree after the window, because a step can be undone. Going back
through the window they agree on one bit less at the top with each step, but
always on bit 0, into which a step feeds what it subtracts; so both divisions
subtract at the same steps, and bit `s` is the same after all. That a burst may
hit the CRC too follows from the residue: a message verifies exactly when the
loop, run over all of it, ends in 0x1D0F (`VerifiesResidue`).

What carries this to the bytes of `wrap_data()`:

* Numbers. `Number` and `Bits` undo each other (`NumbersAreBytes`), so that the
  division sees the bits of the bytes sent, and `x | y` of fields that share no
  bit is their sum (`OrAdds`), which is how the headers are read back
  (`GroupHeaderIs`, `PacketHeaderIs`).
* Checksums. libtins sums words with the low byte first and swaps the result, the
  receiver sums them with the high byte first. `256 * WordSum` and `BigSum`
  differ by a multiple of 65535 (`SumsSwap`), folding takes multiples of 65535 away
  (`FoldedIs`), and 256 squared is 1 modulo 65535: with the checksum in place the
  receiver's sum is a positive multiple of 65535, which its ones' complement
  arithmetic reads as 65535 (`MultiplesVerify`). A checksum that
  comes out as zero is sent as 65535, which keeps the multiple (`UdpChecksumIs`).
  No sum exceeds what two folds can take, because a payload has at most 1024 bytes.
* The stream of packets. Packets made on the way down are full, so that the n-th
  begins at 96 * (n - 1) + 1; a receiver who only reads lengths steps to the same
  places (`StartsAre`, `FramesAre`), and joining the data of the packets gives the
  bytes of the group (`GroupOfIs`), because they cover it in order.
* Bursts. A burst of the stream is, in each packet it meets, a burst of up to
  sixteen bits of that packet (`FlippedIs`, `BurstShows`), also where it crosses
  from one packet into the next.

The invariant over the steps takes those of the two generators from their own
proof modules, and adds what each step hands to the next: `Called` (the payload in
hand is one received), `Layers` (each layer is the serialisation of the one
inside), `GroupMade` (the group has the datagram, and `group_bytes` are its bytes),
`PacketsWritten` (`written` is the bytes of the packets so far, which are full
until the last, and stays so while the next payload is on its way), and
`BytesTaken` (what arrives is what was written, or that with one burst of it
flipped). Without the last two nothing would relate the bytes that a receiver holds
to the packets. Assumed: addresses are four bytes, the source is not
0.0.0.0, ports and the packet address
16 bits wide (`ConfAssumption`); payloads are sequences of at most 1024 bytes, the
size of `receive()`'s buffer (`PayloadsAssumption`); bursts are of up to sixteen
bits (`BurstsAssumption`); what stands for "none" is no datagram and no group
(`OutsidersAssumption`). `PayloadsArrive` alone has a hypothesis more, that the
packet address is below 1024: the header has ten bits for it, and a larger one
does not come back.

`Injector_proofs` proves the safety properties of the whole program and its
implementation of `DatagramRelay`, for every set of payloads, every size of the
socket's queue and of the pipe, and every interleaving of network, program and
reader. The invariants of the two generators come from their own proof modules,
instantiated as the injector instantiates the generators. What has to be added
says, stage by stage, how much of which datagram is where: `MainState` (what is
in hand at each `pc`), `NetOrder` and `FifoState` (what the kernel holds),
`PipeStream` and `PipeNumbers` (the packets in the pipe are the tail of what was
written, in whole bursts that continue each other's index), `ReaderPartial` and
`ReaderHeard` (what the reader has of a group, and the index it expects),
`RecordsTrue` and `RecordsTell` (what it has rebuilt), `Counted`; and `ReaderAway`,
that a reader who is gone was counted and keeps nothing of a group, so that a pipe
emptied at the program's end takes nothing from anyone. With these the
branch in which the reader finds a gap it cannot explain is unreachable, which
is `ReaderNeverConfused`. There is one lemma per action; the reader's step is
split into skipping, keeping and rebuilding. Only two steps are visible to the
relay: `Arrive`, and the packet that completes a group.
That a burst is atomic needs a second layer, `GroupSized`: the group in hand is
one that `main` can have received, of at most 1056 bytes. Every packet but the
last takes at least 19 of them, so that there are at most 56; the burst is the
bytes of the group, five more for each packet and the padding of the last one,
1359 bytes at the most (`RunOfSlices`). The real maximum is smaller, because
packets made on the way down are full; far below `PIPE_BUF` either will do.
Assumed: payload sizes are natural numbers, the packet address has 16 bits, the
bounds are natural numbers, and the values that stand for "none" are no
payloads, datagrams or groups (`OutsidersAssumption`).

`BlockQueue_proofs` proves every safety property of the queue and the
implementation of `FifoQueue`, for every growth step, initial capacity, block
size and set of values. `HalfFree` says that the elements never start in the
upper half of the array, because a dequeue moves them down before; it is what
bounds the space that is lost in front of them, and with it the growth.
`DemandCovers` says that the ghost `demand` covers what is held and what an
enqueue under way will add, so that a store that grows never grows past it.
`Copies` and `LiveSlots` say which slots hold objects in the middle of an
enqueue, when some copies are done and others to do, and after one has thrown;
`CallState` what the producer and the consumer remember of their call, and
`SleepsForSome` that a consumer sleeps for something, without which a wakeup
could not be told to be due. The abstract queue moves when an enqueue is
called (`Offer`), with `Publish` (`Put`), when the call returns or throws (`Leave`),
with `Take`, `TryDequeue` and `Clear`; growth, shifts and copies are stutters.

`StreamFollower_proofs` proves order, delivery, limits and clean-up for a stream
of every length under every capture, and the implementation of `ByteStream`'s
safety part. The arithmetic of sequence numbers comes first: positions
`-1 .. StreamLength` map to sequence numbers one to one (`SeqOf`), and
`seq_compare` orders the numbers as the stream orders the positions. That needs
the stream to be shorter than half the numbers, `StreamLength + 1 < Modulus \div 2`;
an assumption with `2 * (StreamLength + 1) < Modulus` instead is too weak when
`Modulus` is odd, as the proof showed (the code's is 2^32). `AtPosition` says
that `seq_number` is the number of the next byte, or of the SYN while that is
not acknowledged; `WalksInOrder` that the loop stands on the entry that begins
first, even where the map's plain order and the stream's differ because the
numbers wrap around (`AfterIsNext`), and that no entry connects to what was
delivered once it has come to the end; `NothingForgotten` that every byte shown
is delivered or in the map. The count of buffered bytes is compared with the sum
over the map at each of the places that change one of them: what storing a chunk
adds (`StoredAdds`), with and without a shorter one it replaces, and what erasing
takes (`WithoutTakes`). `HeardOf` says that no followed stream was silent for a
keep-alive at the last clean-up. One
lemma per turn of the loop; `NewStream`, `ProcessPayload` and `AppendBuffered`
are the visible steps of the refinement.

`ConfigReader_proofs` proves all five properties of the configuration reader for
every set of files. The properties speak of the whole file, so the invariant
says what each local of the parser stands for: `SectionIsLast` (the section is
that of the last header which is no continuation), `NameIsOpen` (the previous
name is empty exactly when no name is open, and otherwise the last pair's, cut
to 49 characters), `FirstError`, and `EntriesKept`, which is about the keys as the
parser keeps them, cut where it cuts (`KeptKeyOf`, `KeptTextsFor`); `Phase`,
`Copied` and `Judged` carry what was read into `main`. The properties are about the
keys as the file has them: `KeysAgree` and `TextsAgree` show that the two are the same
for a key that no longer name of the file is cut to, and `SettingsUncut` that the
keys of the settings are such. The lemmas say what one
more line does to each definition over the file (`OpenStep`, `HeadersStep`,
`PairsStep`, `SaidStep`, `TextsStep`); `PlacesStay` is the fact about sets that
a string only grows at its end. Assumed: files are sequences of lines in which a
name without a word is empty and none of more than 49 characters is cut to a word of
the settings, which are shorter (`FilesAssumption`), and the default numbers fit
and the default addresses are addresses (`DefaultsAssumption`), as
`configuration_t` has them.

`SumTheorems` says of a sum over a finite domain that it is an integer, is zero
on nothing, grows by the value at a new point (`TotalAdds`), and over `1 .. n` is
the last of the partial sums (`TotalOfSteps`); that it is bounded by a bound of its
terms (`TotalBounded`), may be taken in two parts (`TotalOfParts`), and that sums
are related as their terms are (`TotalsRelate`). Such facts are inductions over
data. The library's induction rules take a predicate as a parameter, which the
provers cannot instantiate, so that each lemma takes a smallest counterexample
instead: `NoLeast` says that a set of naturals without a least element is empty,
and `Top` puts the same as a climb from 0.

Only model-checked:

* liveness: `ListensAgain`, `ReceivedComesOut`, `RestingProducerServes`, and the
  fairness in `FollowsTheStream`, of which the safety part is proved;
* the runs that find a violation.

Liveness needs fairness and `ENABLED`, which the installed provers do not reason
about. Every other property of a passing run is the statement of a
theorem, for every value of the constants.

## 5. Not modelled

* The parsers: no code. Transmission modes, literals, status types: tables
  without behaviour.
* libtins apart from what `wrap_data` calls and from its stream following, and
  its bundled googletest: vendored protocol formats, sniffing and test
  infrastructure that make up almost all of the repository's lines and that the
  injector does not use. Fragment reassembly keys streams without the protocol
  (`ip_reassembler.cpp:137`) and is left for unit tests.
* How a line of the configuration is cut into name, value and comment, and the
  syntax of numbers: character-level parsing.
* A configured source address of 0.0.0.0, for which libtins asks the operating
  system for an address at each datagram; `ConfAssumption` excludes it.
* Wording of messages and the log.

## 6. Plan

Done in this order: packet generator (model, run, proofs), data group
generator (model, run, proofs), injector as composition with the relay it
implements, queue with the FIFO it implements; `Crc16` with its proofs,
`ConfigReader`, `IpUdp` and `Wire`, `DataTracker` and `StreamFollower`; then the
proofs about the injector, the queue, the stream follower, the configuration
reader and, on top of those about `Crc16`, about the bytes of `wrap_data()`.

What could follow:

1. The other side of a connection in `StreamFollower`: acknowledgement tracking,
   attaching to running connections, the out-of-order callback and
   `auto_cleanup_server_data`, which the hazards without a property are about.
2. libtins' fragment reassembly (`ip_reassembler.cpp`).
