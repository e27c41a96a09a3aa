# Verification of the FPGA hash join offload

TLA+ modules, TLC configurations and TLAPS proofs for the offload of PostgreSQL
hash joins to an FPGA board: the kernel on the board (`src/src/`), the network
and UART circuits around it (`src/rtl/`), the protocol client and its transports
on the host (`src/host/`), and the PostgreSQL extension that uses them
(`src/pg/`). `PROJECT.json` maps every definition to source lines and lists the
runs, the hazards, the findings and the theorems.

## The system and its parts

The planner hook offers a custom scan for joins that the board can do. Its
executor drains both sides of the join into arrays of (key, TID) rows and calls
`fpga_adapter_run`. The adapter drops duplicate inner keys, prepares a transport
and calls `FpgaClient::run_hash_join`, which sends CONFIGURE, the inner rows and
the outer rows in batches and collects pairs of TIDs. The kernel builds a hash
table from the inner rows and probes it with the outer rows (algorithm A), or
spreads both sides over partitions in DDR2 and joins them one by one (algorithm
B). The executor fetches the rows of the returned pairs from the heap.

| Part | State | Operations | Correct when |
|---|---|---|---|
| `LinearHashTable` (hash_join_linear.hpp) | flags, keys, TIDs, row_count | reset, build, probe | it is a map in which the first row of a key wins |
| Kernel session loop (hash_join_kernel.cpp) | phase, session variables, result_buf, the table, the unread rx stream | one frame, one row, end of a batch, watchdog | rows do not leak between sessions, reports count the pairs sent, DONE means the exact join, sessions end |
| Grace engine (hash_join_grace.hpp) | rows packed in DDR2, counters per partition | partition inner, partition outer, join | rows stay in their slots and are read back as stored |
| `FpgaClient` (fpga_client.cpp) | credit, window of batches in flight, results, last ACK | send a batch, collect_until_ack, end | rows are sent once and in order, the window matches the ACKs, it returns or throws |
| Transports, decoder (udp_transport.cpp, uart_transport.cpp, result_decoder.cpp) | socket or tty buffer, rest of a packet | send, recv, reset, drain, recv_frame | frames of the peer are decoded where they begin, waits end |
| Adapter (fpga_adapter.cpp) | session counter, transport | dedup, capacity check, prepare_udp_session, run | a request ends with its exact join or an error |
| Planner hook (fpga_planner.c) | none | is a join offloadable, which side is built | only joins that the board and the executor answer correctly |
| Executor (fpga_executor.c) | arrays, result pairs, cursor, snapshot | begin, drain, run, fetch, rescan, end | the rows of the SQL join as of the snapshot |
| UDP/IPv4 circuits (udp_ipv4_rx.v, udp_ipv4_tx.v) | two packet buffers, parser, stream; one reply buffer, remote address | per clock | datagrams arrive whole or not at all; replies go out whole, to whom they belong |
| UART bridge (uart_stream_bridge.v) | holding register, shift register | per clock | bytes arrive in order, none twice, and none is lost while the kernel reads in time |
| `SoftwareKernel`, `udp_proxy` | hash map, answers; last client | send; relay | they stand in for the board |
| RMII byte layer, timing monitor, PHY and debug modules, logger, test benches | | | not modelled, see below |

What is hard here: two sequential processes with independent timers (kernel
watchdog 5 s, preparation 6.5 s, client 30 s) over a link that loses datagrams;
frames of earlier sessions still queued; ACKs batched by the kernel against a
window and a credit chosen by the host; reads without a watchdog in algorithm B;
a byte stream without resynchronisation in which a refused frame's payload is
read as headers; state in the board that outlives the host process; TIDs that
travel to the board and back while the tables change; circuits in which several
registers change in one clock. The `hazards` of `PROJECT.json` list these at
their lines.

## Modules

```
LinearProbing      reset/build/probe as operators on a table value
 └ LinearHashTable     the class as a state machine   ── implements ──> JoinTable
     ├ LinearHashTableProofs   (TLAPS)
     └ MCLinearHashTable
GraceLayout        sizes and addresses of algorithm B's memory
 └ GraceMemory         the words behind the partitions ── implements ──> GracePartitions
     ├ GraceMemoryProofs       (TLAPS)
     └ MCGraceMemory
Link               frames, the two directions of the wire, loss and duplication
 ├ GraceEngine (+ LinearProbing, GraceLayout)   algorithm B as operators
 │   └ HashJoinKernel                           the kernel, both algorithms
 │       └ ChaoticHost (+ EquiJoin) ─ MCChaoticHost   kernel against any host
 │           └ ChaoticHostProofs (+ LinearHashTableProofs)   (TLAPS)
 ├ FpgaClient                                   run_hash_join
 │   └ ChaoticKernel ─ MCChaoticKernel          client against any board
 │       └ ChaoticKernelProofs     (TLAPS)
 ├ SoftwareKernel                               the simulation transport
 └ OffloadSession (FpgaClient + HashJoinKernel + SoftwareKernel + the adapter)
     └ MCOffloadSession                         ── implements ──> JoinService
FpgaPlanner (+ GraceLayout), Heap, EquiJoin
 └ FpgaExecutor ─ MCFpgaExecutor                a statement, from plan to last row
     └ FpgaExecutorProofs      (TLAPS)
UdpReceiver        udp_ipv4_rx                  ── implements ──> DatagramQueue
 │   └ MCUdpReceiver
 └ UdpBridge (+ UdpTransmitter) ─ MCUdpBridge   receiver and transmitter
     └ UdpBridgeProofs         (TLAPS), of the receiver alone and of both
UartBridge                                      uart_stream_bridge
 └ UartBridgeProofs        (TLAPS)
UdpProxy
 └ HostReceive ─ MCHostReceive                  transport, decoder, waits
     └ HostReceiveProofs       (TLAPS)
```

The abstractions meet in this order. `UdpBridge` justifies what `Link` says of a
datagram on the board's side (whole, in order, or lost; a reply that fits leaves
the board), and `HostReceive` what it says on the host's side, as long as no one
else sends to the host's port. `GraceMemory` justifies the partitions as sequences
in `GraceEngine`. `OffloadSession` implements `JoinService`, which `FpgaExecutor`
uses for the call of the adapter. `UartBridge` stands alone: what it shows of the
UART is less than `Link` asks for.

**LinearProbing, LinearHashTable.** A table is the record of the storage arrays
and `row_count`. The loops over a chain are "the first step of the set of steps
at which the loop stops" (`First`). The hash is the constant function `slot_of`,
so every result holds for any hash. `Reset` keeps keys and TIDs, as the code
does.

**GraceLayout, GraceMemory.** The sizes of hash_join_types.hpp, the kernel's
check of a CONFIGURE (slot size in uint32_t, sum in uint64_t: `UINT32_RANGE`) and
the adapter's. `ddr2_buf` is a function from addresses to words; a row is packed
into two. Any row may come for any partition, so the hash does not matter, and
the memory is never cleared.

**Link.** `h2k` and `k2h` hold whole frames. The frames of one
`ITransport::send` share a datagram and are lost or duplicated together; the
kernel raises TLAST per frame, hence one datagram per frame on the way back.
`MaxDrops` and `MaxDups` bound the faults. Datagrams are not reordered (the
board is directly attached). A UART is not this link. The kernel writes ACK,
RESULT and, in the default synthesis, DEBUG frames (hash_join_kernel.cpp:377, 430,
485, 514) while the host's next frames are on the line, and the bridge loses bytes
meanwhile, see `UartBridge`. `RX_BUF_TUPLES` bounds the rows of a frame to the
kernel: `rx_key_buf` and `rx_tid_buf` are filled without a check
(hash_join_kernel.cpp:365-374, 472-482), and a longer frame would write behind
them, of which nothing can be said. The client's batches keep to it.

**HashJoinKernel, GraceEngine.** `kpc` is the place in `session_loop`: `IDLE`
(CONFIGURE stage), `BUILD`/`INSERT` (build_loop and its inner batch),
`PROBE`/`LOOKUP`/`CLOSE`, and for algorithm B `GRACE_INNER`, `GRACE_OUTER`,
`GRACE_JOIN`/`GRACE_LOAD` and `STALLED`. A step reads one frame, handles one row, does all that
follows a batch, or joins one partition. `ses` holds the variables that
`session_loop` re-initialises, `ht` the static table and `grace` the partitions.
`junk` counts the bytes of rx in front of the next frame's header: a refused
frame leaves its payload there, and `IdleMisread` reads headers from it (with
the next frame's first bytes when fewer than three are left). Such a header may
look like a RESET; that it looks like a CONFIGURE is excluded. Trip counts of
the loops are kept (`MAX_PROBE_FRAMES` for the code's 1000000). DEBUG and TIMING
frames and the AXI-Lite registers are left out: no decision of the kernel or the
client reads them. Algorithm B puts up to `TX_BUF_SIZE` (256) pairs of a partition
into one RESULT frame (hash_join_grace.hpp:267), of which the transmitter takes
1472 bytes, 122 pairs (`MAX_TX_PAIRS`), and then waits for the end of the frame.
`GraceStall` is the kernel that tries: it stays in `STALLED`. Algorithm A flushes at
`RESULT_FLUSH_PAIRS`, which fit.

**FpgaClient.** `cpc` is the place in `run_hash_join`; "config", "build",
"probe", "probe_end", "final" and "reset" are its calls of `collect_until_ack`.
The sending loop runs until it can send no more before a wait starts
(`CanSend`), as in the code. `LeaveAs` includes `~SessionCleanup`.

**OffloadSession, SoftwareKernel.** The adapter around them: `Request` (a
backend's call, its process fresh or not, so that session ids repeat),
`AdapterRefuses`, `OpenSimulation`, and `prepare_udp_session` as
`OpenUdp`, `GotIdle`, `SkipFrame`, `ResetTimeout` and `DrainThenStart`. Requests
follow one another: the adapter binds a fixed local UDP port without
SO_REUSEADDR. A session over UART is not modelled. In a simulation `send()` has handled a frame
before the client goes on.

**ChaoticHost, ChaoticKernel.** Each side against a peer that may do anything,
which also reaches the client code that the present kernel never triggers.

**FpgaPlanner, FpgaExecutor, Heap.** The hook is a set of operators that return
the paths it adds. `spc` is the place in a statement's life: parsed, planned
(and perhaps kept, with settings changed or an index dropped), drained, run,
fetching. `Heap` is PostgreSQL as the executor relies on it (external): versions
at TIDs, a snapshot, writers and VACUUM, which reuses TIDs. Children are heap
scans. The call of the adapter is one step, with `JoinService`'s outcome.

**UdpReceiver, UdpTransmitter, UdpBridge.** A step is one clock, in which every
part reads the registers' old values. The 42 header bytes of a frame are one
event with the outcome of the checks. `wire` brings any sequence of frames, cut
off or too long ones too; the kernel is ready when it likes, and its replies may be
longer than the transmitter's memory. The diagnostic echo
of rmii_udp_stream_bridge.v is off, as in the default build.

**UartBridge.** A byte takes `BYTE_CLOCKS` on the line in either direction. The
host sends whenever it likes; the kernel reads, writes or computes in any order and
for any time, which covers every frame of either side and every window of the
client. `away` counts the clocks since the kernel last waited in a read and
`punctual` says that they have never reached the time of a byte.

**HostReceive, UdpProxy.** Byte i of the board's n-th frame is `<<n, i>>`, so a
decoder out of step is visible. `recv` hands out a packet in pieces, compares
endpoints and times out; `recv_frame` and `collect_until_ack` are on top of it.
`rx_packet` is resized to 65536 bytes before `recvfrom`, and the `continue` after a
stranger's datagram (udp_transport.cpp:224) or an interrupted call (:219) leads to
the loop's condition, which finds 65536 bytes unread: `TakeUnchecked` hands out
what is there, followed by zeros. The decoder may take a stranger's bytes for any
frame (`Spelled`).
The board is reached directly or through `udp_proxy`, whose `last_client` may be
another one.

## Time and fairness

The client's hard timeout is a setting and counts from the start of a wait
(fpga_client.cpp:369-381), whatever arrives meanwhile: `ClientGivesUp` may happen at
any moment of a wait. `hasty` remembers that it did while an answer was still under
way. Joining the partitions of algorithm B may take longer than any timer. All
other frames and computations take milliseconds, against 5 s of the kernel's
watchdog and 6.5 s of prepare_udp_session; these expire only while the board is
still (`BoardStill`): it waits with nothing on its way to it, or it joins. Outside a
session the kernel may have been waiting for any time, and its watchdog may fire
just when a RESET arrives. In `ChaoticHost` and `ChaoticKernel` timers race freely
with the peer's frames. In a simulation the answers are there before a wait
begins, and the client gives up only without one.

Weak fairness is assumed of the kernel's loop, of the host process and of the
timers: the kernel is a free-running circuit that blocks on rx, and on tx only for
ever, in `STALLED` (`UdpBridge!RepliesSent` shows that the transmitter frees it after
every reply that fits), `rx_byte_guarded` counts cycles, and the client's waits
compare a monotonic clock on every turn. In the circuits the clock runs, the kernel
comes back to reading, goes on with a reply it has begun, and the line becomes
ready again. In `HostReceive` the host process runs and time passes. No fairness
is assumed of the peer in the chaotic models, nor of the watchdog, the link, new
requests, the wire, the proxy or other senders.

## Runs

| Run | Shows |
|---|---|
| table | All call sequences on 4 slots, chains of 3, 3 keys, 2 TIDs. Chains overlap, wrap around and fill before the table. Invariants and `ImplementsJoinTable` |
| grace_memory | All sequences of CONFIGUREs and stored rows on two partitions of two inner rows, 16 words, and a "uint32_t" of 4 bits, so that some announced totals wrap. `RowsInMemory`: no index leaves the slot or the memory. `ImplementsPartitions`: what is read back of a partition is what was put into it in this session, in order, whatever was stored before or beside it |
| kernel | Any frame of three repertoires (A, B, both) at any time, unbounded. `MemoryIsOfSession`: from CONFIGURE on the table or the partitions hold exactly this session's rows. `ReportsCountResults`: the ACK of a RESET and a DONE report equal the pairs sent before them, a PROBING ACK is ahead by less than a RESULT frame. `DoneMeansJoined`: a host that reads DONE has read the exact join of what the kernel was sent. `SessionsEnd`: the kernel is back at IDLE infinitely often, also when the host falls silent or sends empty frames for ever, unless algorithm B waits for a frame, or for a RESULT frame of more matches of one partition than a datagram holds |
| client | Every report over small counts and credits at any time, both algorithms. `WindowAccounting`, `RowsSentInOrder`, `ResetOnceOnExit`, `ClientEnds` |
| session_faultless | Two requests over UDP or the simulation without faults: row counts on both sides of the batch, credit, window, ACK, chain, table, partition, datagram and memory boundaries, and a client that may give up at any time. `NoSpuriousFailure`: a request over UDP whose client does not give up before its answer fails only if the board has no room for its rows or no datagram for its matches, if the kernel had come to rest at a header when the request came; what earlier sessions left in the board's memory does not matter. `InFlightBounded`: the window bounds the frames under way, whatever the credit says; that two packet buffers hold them it does not say. `ImplementsJoinService`, `RequestsEnd` |
| session_loss | Two requests over UDP, up to two datagrams lost in either direction, and a client that may give up at any time, which leaves frames in flight, a kernel in the middle of a session, or algorithm B waiting to the next request. `ImplementsJoinService`: exact join or error, never anything else; `RequestsEnd` |
| query | Eight queries (offloadable and not), four settings, two schemas, up to two committed writes and VACUUMs anywhere in between. `AnswersQuery`: the rows of the SQL join as of the snapshot, each once. `RefusalsWereForeseeable`: the planner's and the adapter's capacity checks agree |
| receiver | Six kinds of frames under any back-pressure. `ReceivesDatagrams`: a queue of whole datagrams. `StreamShowsHead`: TLAST ends a datagram and nothing else. `ReceiverHearsAgain` |
| bridge | Two hosts send while replies of one, two (the maximum) and three bytes are written. `RepliesWhole`: what goes out is a whole reply. `RepliesSent`: every reply that fits goes out |
| uart | Any use of the line by both sides. `BytesInOrder`: an overrun leaves a hole in the stream and nothing else. `StreamIntact`: there is none as long as the kernel has never stayed away for the time of a byte. `RepliesHeard`: the other direction loses nothing in any case |
| receive | Two frames, each lost, delivered or doubled, two stray datagrams or interrupted calls, the relay and a second client, sessions opened anew at any time. `DecoderInStep`: nothing but bytes that the peer has not sent takes the decoder off the frame boundaries, and they harm no later session. `WaitsEnd`: a wait ends with an ACK, the timeout or an exception |

Bounds. Table, batch, credit, window, ACK batch, slots and buffers are scaled
down together so that each limit is reached: tables fill, chains overflow,
partitions overflow, a batch spans a RESULT frame, the window closes, credits run
out, both packet buffers are in use. Three batches per side are the fewest in
which a batched ACK, a pending frame and a frame in flight coexist. Two requests
let frames of one meet the next; a third adds nothing new to the queue to the host,
which is drained when a session is prepared. Two session ids make ids
repeat at once. Two writes let a row go and its TID be used again. Two packet
buffers and three frame ids are enough to tell the buffered datagrams and the
arriving one apart. Buffers of one or two bytes have a first, a last and an only
byte. `TX_BUF_SIZE` and `MAX_TX_PAIRS` are 3 and 2: a partition has matches that fit,
or one too many. Five bytes a direction of the UART, of three clocks each, let a
byte be taken early, late, in the clock of the next one's arrival, and be lost.
`RX_PACKET_SIZE` 6 holds two headers of fill behind a stranger's byte.

### Where code and its documentation disagree

In the run dropped_clause TLC refutes what a test's header says: a join condition
besides the one equality is evaluated nowhere (find_equijoin_key skips it and
plan_fpga_custom_path sets the qual to NIL), so the scan returns too many rows.

The following are not among the regular runs. Each has TLC find the counterexample
to one statement of a comment, a description or a test; the comment above the
property quotes it with its line. Three have a configuration of their own, the
others are a change of one: the property named here takes the place of all
properties of that configuration.

| Property, how to check it | What happens |
|---|---|
| `ReturnsAllPairs`: the window instance (below) with `MaxDups = 1` | A duplicated OUTER_DATA datagram replaces a later row; counts agree and the join is returned wrong (hash_join_kernel.cpp:489) |
| `ReturnsAllPairs`: the window instance with `MAX_PROBE_FRAMES = 2` | probe_loop ends at its trip count with DONE; the client returns a partial join when result_buf was empty. The trip count is 2 here and 1000000 in the code: with `fpga.max_batch_tuples = 1` that many outer rows (hash_join_kernel.cpp:440) |
| `NoSpuriousFailure`: the window instance with `ack_window_frames = 1` | `fpga.ack_window_frames` below ACK_BATCH_FRAMES, which fpga_hashjoin.c:191 offers, deadlocks until the watchdog (hash_join_kernel.cpp:411) |
| `ResetReachesIdle`: MCResetRealign.cfg (MCOffloadSession) | RESET is swallowed by a kernel that reads payload as headers, so prepare_udp_session may start a session on it (hash_join_kernel.cpp:228). The session runs show that this costs errors and no wrong result |
| `SimulationSucceeds`: MCSimulation.cfg (MCOffloadSession) | The software kernel acknowledges inner rows with a count of 0 (software_kernel.hpp:94), and the client throws (fpga_client.cpp:227): simulation mode fails for every non-empty inner side |
| `FailureReturnsFalse`: MCAlgorithmName.cfg (MCFpgaExecutor) | A name such as GRACE passes the planner, which ignores case, and throws in the adapter, outside its try block, through C (fpga_adapter.cpp:339) |
| `ReplyToOneEndpoint`, an invariant: MCUdpBridge.cfg | The destination MAC of a reply mixes two hosts when a packet of the second is accepted while the reply is collected (udp_ipv4_tx.v:267) |
| `EveryReplySent`, a property: MCUdpBridge.cfg | A reply longer than the transmitter's buffer is never sent and blocks its writer for ever (udp_ipv4_tx.v:60). Algorithm B writes such replies: 123 pairs of one partition are 1479 bytes against 1472, 256 pairs are 3075 (hash_join_grace.hpp:267, 276). Nothing in between splits them: udp_stream_packetizer (rmii_udp_stream_bridge.v:352) is not instantiated |
| `KernelAcceptsInTime`, a property: UartBridge.cfg | The UART's holding register is overwritten while the kernel writes or computes for longer than a byte takes (uart_stream_bridge.v:154). The kernel writes frames of ten bytes and more while the client, whose default window is 15 frames, goes on sending |
| `StraysDropped`, an invariant: MCHostReceive.cfg | A stranger's datagram is not dropped, as the log says, but handed out with zeros behind it, and so are zeros after an interrupted recvfrom (udp_transport.cpp:190, 209, 219, 224): the decoder throws, or takes them for a frame |

The window instance is MCSimulation.cfg with `Transports = {"udp"}` and
`Inputs <- MCWindowInputs`: three rows a side in batches of one.

Smaller divergences have no configuration. build() never compares keys and
ERR_DUPLICATE_KEY is never produced, which fpga_planner.c:190 and
fpga_adapter.cpp:320 say it is; harmless, as the adapter dedups and the first row
wins. After the sides are swapped the planner does not compare the new build side
with `fpga.min_inner_rows` ("Joins smaller than this threshold are executed by the
CPU", fpga_hashjoin.c:138). The credit of a batched ACK ignores
frames in flight (hash_join_types.hpp:159 calls it "RX buffer slots available
right now"), and rows_matched of a PROBING ACK counts pairs still in result_buf
(line 161: "result pairs emitted so far"). fpga_hashjoin.c:182 says that 118 rows
"stay within the 1200-byte payload", which holds for int32 keys; with int64 keys
a full batch is 1655 bytes. The header of rmii_udp_stream_bridge.v (line 12)
says that a reply is flushed after `TX_FLUSH_CYCLES`, which nothing reads: only
TLAST ends one. fpga_executor.c:181-184 says that the scan slot "always has a
valid tts_tid", which is true of heap scans only.

Hence the passing session runs are for `MaxDups = 0`, a window of at least
`ACK_BATCH_FRAMES`, fewer than `MAX_PROBE_FRAMES` outer batches and UDP without other
senders; the passing query run is for restriction lists without a second,
non-equality clause; and `SessionsEnd`, `NoSpuriousFailure`, `RepliesSent`,
`StreamIntact` and `DecoderInStep` name the case in which the code does not keep
what its comments promise.

## Proofs

`LinearHashTableProofs` proves, for every table size, chain length, row limit,
hash function and key and TID set that satisfy `TableAssumption` and
`NoTidAssumption`:

* `TypeCorrect`, `RowCountIsExact`, `NoKeyBehindAHole`, `EveryRowReachable`: the
  invariants of the run `table`;
* `Refinement`: `Spec => ImplementsJoinTable`.

The inductive invariant is `IInv`, the conjunction of the four. Storage shape is
needed everywhere; `ChainsUnbroken` is what lets probe() stop at an empty slot,
and is stated with an existential over steps because the rows of one key may be
separated by other keys' rows. Its preservation rests on `FreeSlotFacts` (build()
writes the first empty slot, all before it are occupied) and `BuildHoldsOther`
(no other key's rows move). `ProbeByHolds` then says what probe() returns without
its loop, from which `BuildKeepsOthers` and `BuildFirstWins` give the refinement
step for an insertion. A refusal simulates `Reject` by a counting argument:
the slots of a chain are distinct (`ChainSlotsDistinct`), so a full chain means
MAX_PROBE_DIST occupied slots (`FullChainRows`), hence by `RowCountExact` that many
rows. `FirstStep` (a non-empty set of naturals has a least element) comes from
well-foundedness of strict inclusion on finite sets.

`GraceMemoryProofs` proves, for every number of partitions, slot size, memory
size, integer width and set of rows that satisfy `MemoryAssumption`:

* `MemorySafe`: `Spec => []RowsInMemory`;
* `MemoryRefinement`: `Spec => ImplementsPartitions`.

Neither is inductive alone, as an address says nothing of the room behind it.
The inductive invariant `IInv` is `TypesOK /\ SlotsFit /\ CountsFit`: K slots of
the announced size end before the memory does (which the kernel's check
establishes for the size it stored, wrapped or not), and no slot holds more rows
than it has room for. The arithmetic is in `SlotOrder` (slots do not overlap),
`DivisionOfSum` and `PackedTid` (a packed TID is taken apart again) and
`PartitionsBounded` (an accepted inner side has at most GRACE_MAX_K partitions).
`InnerPlace` and `OuterPlace` say that the words of two rows are apart, hence that
`pack_tuple` leaves the other rows alone (`Untouched`) and is read back
(`ReadBack`); `StoreInnerStep` and `StoreOuterStep` are the refinement steps.

`UdpBridgeProofs`, of the receiver and of the bridge, for every buffer size, set of hosts,
set of frames and reply lengths, too long ones included (`ReceiverAssumption`,
`BridgeAssumption`):

* `ShowsHead`, `ReceiverRefinement`: the receiver's stream shows the head of a
  queue of whole datagrams (`ReceivesDatagrams`), under any back-pressure;
* `SendsWholeReplies`: `Spec => []RepliesWhole`; `BridgeReceives`: the receiver
  keeps its two promises beside the transmitter.

The queue's order is the hard part: the circuit keeps no age of a buffer, and
`next_buf` prefers buffer 0. `OneWaits` says that of two pending buffers one is
being read, so the preference never decides. `ParserFills` says that the buffer
being filled is not pending and holds what has arrived, which makes a packet that
ends with an error disappear without trace. On the way out `ReplyCollected` ties
the collected payload to the bytes the kernel handed over, and `FrameSent` says of
every byte on the line but the first which byte of the frame it is.

`UartBridgeProofs`, for every byte time and number of bytes (`UartAssumption`), and
every behaviour of host and kernel: `BytesTakenInOrder` (`BytesInOrder`),
`PunctualKernelLosesNothing` (`StreamIntact`), `RepliesReachHost` (`RepliesHeard`). That a
byte is not overwritten depends on time: `ByteWaits` says that while the register is
full, the clocks until another byte can arrive and those the kernel has been away
add up to the time of a byte, so that whoever is overrun was away for that long.

`HostReceiveProofs`, for any kinds and numbers of frames, strays and packet size:
`DecoderStaysInStep`. The invariant says that datagrams of the peer are whole frames
in the order of their numbers, in the host's socket and behind it in the relay's
(`Network`), that the decoder's bytes and the transport's rest make up one frame
(`Reader`), and that nothing older than the decoded frames is still to come
(`Order`), the last two as long as the decoder has not been handed foreign bytes.
The hard cases are a relay that forwards between two reads, a new session with a
remainder of the last one, and a drain that meets a stranger's datagram.

`ChaoticHostProofs`, for every table, hash function, memory, slot size, buffer
size and trip count (the assumptions of `Link`, `LinearProbing`, `GraceEngine` and
`HashJoinKernel`) and every host, whose frames carry any algorithm byte, counts
and up to `RX_BUF_TUPLES` rows (`RepertoiresAssumption`):

* `KernelTypeOK`, `MemoryIsolated`, over a link with any faults;
* `ReportsRight`, `DoneIsJoin`, over a link without any (`Faultless`): both compare
  a frame with the RESULT frames read before it, which a link may lose.

`IInv`, the invariant of the first two, is `Types /\ Rooms /\ Memory`. `Rooms` is
what makes them inductive: an outer slot's rows fit the size the CONFIGURE
computed, and the K slots of that size the memory, although nothing compares
addresses again. (The K partitions of the session only: the address of a slot
beyond K may lie behind the memory, and `TypeOK` says nothing of it.) `Memory` states for algorithm A that the table is what inserting
the session's rows leaves (`Loaded`: the storage is valid, its chains are
unbroken, a lookup finds the first row of its key), and for B that each partition
is the subsequence of rows that `partition_of` sends there, and in the middle of
`join_build_loop` how much of it is loaded (`Loading`). What build() and probe() do is
cited from `LinearHashTableProofs` (`HT`). One lemma per action of the kernel shows
that the step keeps `IInv`; `PutRowsRoom` is what a batch of B's rows does.

`Talk`, the invariant of the others, is `Turns /\ Sent`. `Sent` has a witness: the
pairs d of all RESULT frames sent. `Carries` says that reading the frames on the
wire takes the host from the pairs it has to d, each frame being right when it is
read, so that a frame is judged once, when it is sent; `Standing` relates d to
the kernel's state. In algorithm A d followed by result_buf is the reference
join of the rows handled, in order. In B the order is lost between
partitions, and the argument is a count: each pair has been sent as often as
the outer rows of the partitions behind `partition` ask for it (`Joined`,
`NumMatches`); `PartitionJoinCount` is one turn of join_partition_loop, `JoinCount`
counts the pairs of the reference join, and `SameCountsSameBag` turns equal
counts into `IsJoinOf`. Both joins are folds, whose values are obtained from the
least counterexample as below.

`ChaoticKernelProofs`, for every input, configuration, window, batch size, credit
and repertoire of the board (`ChaoticAssumption`: row counts and credits are
numbers):

* `ClientTypeOK`, `WindowAccounted`, over a link with any faults;
* `RowsInOrder`, `ResetOnce`, over a link without any (`Faultless`), because
  there the frames in `h2k` are the record of what was sent; what a link loses
  or doubles is no statement about the client.

`Bookkeeping`, the invariant of the first two, adds the client's types, that
nothing is in flight before the start, and that the RESET loop has a turn left.
The step that matters is a cumulative ACK: `AckedFramesRange` and `RowsOfRest` say
that the batches it takes off the front of the window carry the rows it adds to
`acked_rows`. `Sent`, the invariant of the others, says how far the rows on the wire
have come in each phase (`RowsRecorded`) and which RESETs (`ResetsRecorded`).
`RowsOf` and `FlattenSeq` are recursive functions; what they compute is proved by
the least counterexample (`LeastNumber`, `UpTo`): `SumsExist` and `JoinsExist` give a
function with the recursion's equations, `RowsOfSum` and `FlattenJoins` say that the
operator has its last value, `RowsOfAppend`, `RowsOfRest` and `FlattenAppend` are
what the steps use.

`FpgaExecutorProofs`, for all settings, queries, tables and limits
(`QueryAssumption`; `ClauseAssumption` and `DatabaseAssumption`, which say that
clauses compare columns of the two tables and that the first rows obey their
unique indexes; `LowercaseAssumption` for `pg_strcasecmp` on the names):

* `RefusalsForeseeable`, `ExecutorTypeOK`, without further hypothesis;
* `AnswersTheQuery`: `Spec => []AnswersQuery`, under `NoOtherClauses`: a query whose
  restriction list the hook accepts has no clause beside its one equijoin clause.
  It cannot be dropped, the run dropped_clause shows what happens without it;
  the queries of the run `query` satisfy it.

For the first, the invariant `Refused` keeps the planner's test of the sizes
with the plan (`PlanFits`: whichever way round the hook has put the tables) until
the adapter makes its own; `SameAlgorithm` and `TestsAgree` compare the two tests,
which have their own parsers of the algorithm's name and their own arithmetic.

The others rest on the invariant `Answering`. `Tuples` says that a table has one
version per TID and none of the future, `Constraints` that what a unique index
promises holds now and for the snapshot, `PlanSound` that the plan joins the two
tables by the equijoin clause and has a unique inner side. `ScanSound` follows the
scan: each array lists the rows with a key that the snapshot sees (`Lists`), the
pairs are the TIDs of the matching rows (`PairsRight`), and the rows returned so
far are those of the first pairs (`EmittedRight`). The steps of the others are the
hard ones: `OthersKeep` shows that writes and VACUUM leave what the snapshot sees
where it is (`WrittenSame`, `VacuumSame`) and keep the unique indexes' promise
(`WrittenConstraints`), so that `PairFetched` finds for each TID of a pair the one
version the array was filled from. Uniqueness of the inner keys is what lets the
board keep the first row of a key (`ListsJoin`, on `JoinPairs` for the reference join);
`SqlAsks` ties the matching rows to what SQL asks for.

Only model-checked:

* every liveness property (`SessionsEnd`, `ClientEnds`, `RequestsEnd`,
  `ReceiverHearsAgain`, `RepliesSent`, `WaitsEnd`), which is out of the prover's
  reach;
* the invariants of the whole session (`OffloadSession`) and
  `ImplementsJoinService`. They speak of client, kernel and link together: that no
  frame of an earlier session is taken for one of this one's depends on which
  session ids can still be on the wire, which the invariants of the two sides
  do not say. `InFlightBounded` is in addition a statement about the instance: the
  frames a link doubles are not in the window.

## Not modelled

* The RMII byte layer, the PHY management, LEDs and capture registers, and the
  timing monitor: signal handling and diagnostics without a protocol decision.
* The arithmetic of checksums, the diagnostic echo of the UDP circuits.
* Splitting of a frame over datagrams (int64 keys with more than 84 rows per
  batch) and payload bytes that spell a CONFIGURE header: both need the bytes of
  keys and TIDs, which are model values.
* A session over UART: which frames kernel and client make of a stream with holes
  needs the bytes of keys and TIDs. `UartBridge` shows when there are none.
* Frames of more than `RX_BUF_TUPLES` rows, behind whose buffers the kernel would write.
* OS errors of the transports, the tty's timing, sockets that cannot be opened.
* A child plan that is no heap scan: what the cast in drain_plan reads is
  undefined.
* Concurrent backends, which the fixed port excludes; metrics, logging, debug
  and timing frames, EXPLAIN's text, `raw_udp_send`, the demo, the test benches.

## Plan

1. (done) The table, the kernel, the client, the session; proofs about the table.
2. (done) Algorithm B in the kernel and its memory, with proofs; planner and
   executor; the UDP and UART circuits; the receive path; the software kernel.
3. (done) Proofs about the client, the circuits, the receive path, the planner
   and the executor.
4. (done) Proofs about the kernel: its memory, its reports, the join of both
   algorithms.
5. What is left: `InFlightBounded` for one request over a faultless link, from the
   client's bookkeeping and the kernel's counts of rows; then the session's
   refinement of `JoinService`, from `RowsInOrder` and `DoneIsJoin`.
