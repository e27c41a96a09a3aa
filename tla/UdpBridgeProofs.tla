-------------------------- MODULE UdpBridgeProofs --------------------------
(***************************************************************************)
(* Proofs about the UDP bridge.  The receiver on its own first, for every  *)
(* buffer size and every set of frames: the two packet buffers of          *)
(* udp_ipv4_rx are a queue of whole datagrams.  Then the bridge, for every *)
(* buffer size, set of hosts and set of reply lengths: replies go out      *)
(* whole and to one IP and port, and the receiver is still that queue.     *)
(***************************************************************************)
EXTENDS UdpBridge, SequenceTheorems, TLAPS

-----------------------------------------------------------------------------
(***************************************************************************)
(* The receiver.                                                           *)
(***************************************************************************)
Bytes == Nat \X Nat

\* The registers keep their widths: no index leaves a buffer.
Registers ==
    /\ wire \in [frame : Frames, id : Nat, seen : Nat, phase : {"gap", "header", "payload"}]
    /\ parser \in [state : {"IDLE", "HEADER", "PAYLOAD", "DROP"}, write_buf : Bufs,
                   payload_len : 0..MAX_PAYLOAD_BYTES, payload_remaining : Nat]
    /\ mem \in [Bufs -> [0..(MAX_PAYLOAD_BYTES - 1) -> Bytes]]
    /\ buf \in [Bufs -> [pending : BOOLEAN, len : 0..MAX_PAYLOAD_BYTES]]
    /\ out \in [active : BOOLEAN, read_buf : Bufs, read_len : Nat, read_index : Nat,
                tvalid : BOOLEAN, tlast : BOOLEAN, tdata : Bytes]

\* A pending buffer holds a datagram.
PendingHolds == \A b \in Bufs : buf[b].pending => buf[b].len > 0

\* The stream shows the byte at read_index of a pending buffer.
StreamReads ==
    /\ out.tvalid <=> out.active
    /\ out.active =>
          LET b == out.read_buf
          IN /\ buf[b].pending
             /\ out.read_len = buf[b].len
             /\ out.read_index < buf[b].len
             /\ out.tdata = mem[b][out.read_index]
             /\ out.tlast <=> out.read_index = buf[b].len - 1

\* Of two pending buffers one is being read, so that the other is the newer
\* one: the stream's preference of buffer 0 never decides.
OneWaits == buf[0].pending /\ buf[1].pending => out.active

\* The buffer being filled is no one else's, and holds what has come of the
\* frame.
ParserFills ==
    /\ parser.state \in {"HEADER", "PAYLOAD"} => ~buf[parser.write_buf].pending
    /\ parser.state = "PAYLOAD" =>
          /\ parser.payload_remaining > 0
          /\ parser.payload_len + parser.payload_remaining = wire.frame.length
          /\ \A i \in 0..(parser.payload_len - 1) : mem[parser.write_buf][i] = Byte(i)

IInv == Registers /\ PendingHolds /\ StreamReads /\ OneWaits /\ ParserFills

\* A clock with a given event of the wire.
Edge(event, tready) ==
    /\ WireClock(event)
    /\ ParserClock(event) /\ MemClock(event) /\ RemoteClock(event)
    /\ BufClock(event, tready) /\ OutputClock(tready)

Events == {"idle", "start", "header", "byte", "end"}

-----------------------------------------------------------------------------
(* What the parts of a clock do.                                           *)

\* The two buffers.
LEMMA BufsFacts == /\ 0 \in Bufs /\ 1 \in Bufs
                   /\ \A b \in Bufs : 1 - b \in Bufs /\ 1 - b # b /\ 1 - (1 - b) = b
                   /\ \A b, c \in Bufs : c # b => c = 1 - b
BY DEF Bufs

\* The parser writes into the buffer that is neither pending nor read, and
\* only there.
LEMMA MemStep ==
    ASSUME IInv, NEW event \in Events, NEW tready \in BOOLEAN, Edge(event, tready)
    PROVE  /\ mem' \in [Bufs -> [0..(MAX_PAYLOAD_BYTES - 1) -> Bytes]]
           /\ \A b \in Bufs : buf[b].pending => mem'[b] = mem[b]
           /\ event # "byte" => mem' = mem
           /\ event = "byte" /\ parser.state = "PAYLOAD"
                 /\ parser.payload_len < MAX_PAYLOAD_BYTES =>
                 /\ mem'[parser.write_buf][parser.payload_len] = Byte(parser.payload_len)
                 /\ \A i \in 0..(parser.payload_len - 1) :
                       mem'[parser.write_buf][i] = mem[parser.write_buf][i]
<1> DEFINE w == parser.write_buf
           n == parser.payload_len
<1>1. /\ Registers /\ ParserFills /\ MemClock(event)
      /\ w \in Bufs /\ n \in Nat /\ MAX_PAYLOAD_BYTES \in Nat /\ wire.id \in Nat
  BY ReceiverAssumption DEF IInv, Registers, Edge
<1>2. CASE ~ (event = "byte" /\ parser.state = "PAYLOAD" /\ n < MAX_PAYLOAD_BYTES)
  BY <1>1, <1>2 DEF MemClock, Registers
<1>3. CASE event = "byte" /\ parser.state = "PAYLOAD" /\ n < MAX_PAYLOAD_BYTES
  <2>1. mem' = [mem EXCEPT ![w][n] = Byte(n)]
    BY <1>1, <1>3 DEF MemClock
  <2>2. Byte(n) \in Bytes
    BY <1>1 DEF Byte, Bytes
  <2>3. mem' \in [Bufs -> [0..(MAX_PAYLOAD_BYTES - 1) -> Bytes]]
    BY <1>1, <1>3, <2>1, <2>2 DEF Registers
  <2>4. mem'[w] = [mem[w] EXCEPT ![n] = Byte(n)]
    BY <1>1, <2>1 DEF Registers
  <2>5. \A b \in Bufs : b # w => mem'[b] = mem[b]
    BY <1>1, <2>1 DEF Registers
  <2>6. ~buf[w].pending
    BY <1>1, <1>3 DEF ParserFills
  <2>7. mem[w] \in [0..(MAX_PAYLOAD_BYTES - 1) -> Bytes]
    BY <1>1 DEF Registers
  <2> QED BY <1>1, <1>3, <2>3, <2>4, <2>5, <2>6, <2>7
<1> QED BY <1>2, <1>3

\* What becomes of the flags.
LEMMA BufStep ==
    ASSUME IInv, NEW event \in Events, NEW tready \in BOOLEAN, Edge(event, tready)
    PROVE  /\ buf' \in [Bufs -> [pending : BOOLEAN, len : 0..MAX_PAYLOAD_BYTES]]
           /\ Completes(event) =>
                 /\ buf'[parser.write_buf].pending
                 /\ buf'[parser.write_buf].len = parser.payload_len + 1
           /\ \A b \in Bufs : ~(Completes(event) /\ b = parser.write_buf) =>
                 /\ buf'[b].len = buf[b].len
                 /\ buf'[b].pending <=> /\ buf[b].pending
                                       /\ ~(b = out.read_buf /\ out.tvalid /\ tready /\ out.tlast)
<1>1. /\ Registers /\ BufClock(event, tready)
      /\ parser.write_buf \in Bufs /\ parser.payload_len \in Nat /\ MAX_PAYLOAD_BYTES \in Nat
  BY ReceiverAssumption DEF IInv, Registers, Edge
<1>2. Completes(event) => parser.payload_len + 1 \in 0..MAX_PAYLOAD_BYTES
  BY <1>1 DEF Completes
<1>3. \A b \in Bufs : /\ buf[b].pending \in BOOLEAN /\ buf[b].len \in 0..MAX_PAYLOAD_BYTES
                      /\ buf[b] = [pending |-> buf[b].pending, len |-> buf[b].len]
  BY <1>1 DEF Registers
<1>4. ASSUME NEW b \in Bufs, ~(Completes(event) /\ b = parser.write_buf)
      PROVE  /\ buf'[b] \in [pending : BOOLEAN, len : 0..MAX_PAYLOAD_BYTES]
             /\ buf'[b].len = buf[b].len
             /\ buf'[b].pending <=> buf[b].pending /\ b \notin Released(tready)
  <2>1. buf'[b] = [buf[b] EXCEPT !.pending = buf[b].pending /\ b \notin Released(tready)]
    BY <1>1, <1>4, Zenon DEF BufClock
  <2>2. CASE buf[b].pending /\ b \notin Released(tready)
    <3>1. (buf[b].pending /\ b \notin Released(tready)) = TRUE
      BY <2>2, Zenon
    <3>2. buf'[b] = [buf[b] EXCEPT !.pending = TRUE]
      BY <2>1, <3>1, Zenon
    <3> QED BY <1>3, <2>2, <3>2
  <2>3. CASE ~(buf[b].pending /\ b \notin Released(tready))
    <3>1. (buf[b].pending /\ b \notin Released(tready)) = FALSE
      BY <2>3, Zenon
    <3>2. buf'[b] = [buf[b] EXCEPT !.pending = FALSE]
      BY <2>1, <3>1, Zenon
    <3> QED BY <1>3, <2>3, <3>2
  <2> QED BY <2>2, <2>3
<1>5. ASSUME Completes(event)
      PROVE  /\ buf'[parser.write_buf].pending
             /\ buf'[parser.write_buf].len = parser.payload_len + 1
             /\ buf'[parser.write_buf] \in [pending : BOOLEAN, len : 0..MAX_PAYLOAD_BYTES]
  <2>1. buf'[parser.write_buf] = [pending |-> TRUE, len |-> parser.payload_len + 1]
    BY <1>1, <1>5, Zenon DEF BufClock
  <2> QED BY <1>2, <1>5, <2>1
<1>6. buf' \in [Bufs -> [pending : BOOLEAN, len : 0..MAX_PAYLOAD_BYTES]]
  <2>1. buf' = [b \in Bufs |-> buf'[b]]
    BY <1>1, Zenon DEF BufClock
  <2> QED BY <1>4, <1>5, <2>1
<1>7. \A b \in Bufs : b \in Released(tready) <=>
           b = out.read_buf /\ out.tvalid /\ tready /\ out.tlast
  BY DEF Released
<1> QED BY <1>1, <1>4, <1>5, <1>6, <1>7

OutType == [active : BOOLEAN, read_buf : Bufs, read_len : Nat, read_index : Nat,
            tvalid : BOOLEAN, tlast : BOOLEAN, tdata : Bytes]

\* What becomes of the stream: it rests, begins with the one pending buffer,
\* holds its byte, goes on to the next one or ends.
LEMMA OutStep ==
    ASSUME IInv, NEW event \in Events, NEW tready \in BOOLEAN, Edge(event, tready)
    PROVE  /\ out' \in OutType
           /\ ~out.active /\ (\A b \in Bufs : ~buf[b].pending) => out' = out
           /\ \A b \in Bufs : ~out.active /\ buf[b].pending =>
                 /\ out'.active /\ out'.tvalid
                 /\ out'.read_buf = b /\ out'.read_len = buf[b].len /\ out'.read_index = 0
                 /\ out'.tlast <=> buf[b].len = 1
                 /\ out'.tdata = mem[b][0]
           /\ out.active /\ ~tready => out' = out
           /\ out.active /\ tready /\ out.tlast => ~out'.active /\ ~out'.tvalid
           /\ out.active /\ tready /\ ~out.tlast =>
                 /\ out'.active /\ out'.tvalid
                 /\ out'.read_buf = out.read_buf /\ out'.read_len = out.read_len
                 /\ out'.read_index = out.read_index + 1
                 /\ out'.tdata = mem[out.read_buf][out.read_index + 1]
                 /\ out'.tlast <=> out.read_index + 1 = out.read_len - 1
<1>1. /\ Registers /\ StreamReads /\ OneWaits /\ PendingHolds /\ OutputClock(tready)
      /\ out \in OutType /\ MAX_PAYLOAD_BYTES \in Nat \ {0}
      /\ \A b \in Bufs : /\ buf[b].pending \in BOOLEAN /\ buf[b].len \in 0..MAX_PAYLOAD_BYTES
                         /\ mem[b] \in [0..(MAX_PAYLOAD_BYTES - 1) -> Bytes]
  BY ReceiverAssumption DEF IInv, Registers, Edge, OutType
<1>2. CASE ~out.active /\ \A b \in Bufs : ~buf[b].pending
  BY <1>1, <1>2 DEF OutputClock, StreamReads
<1>3. ASSUME NEW b \in Bufs, ~out.active, buf[b].pending
      PROVE  /\ out' \in OutType
             /\ out'.active /\ out'.tvalid
             /\ out'.read_buf = b /\ out'.read_len = buf[b].len /\ out'.read_index = 0
             /\ out'.tlast <=> buf[b].len = 1
             /\ out'.tdata = mem[b][0]
  <2>1. /\ ~out.tvalid
        /\ {c \in Bufs : buf[c].pending} # {}
        /\ b = IF 0 \in {c \in Bufs : buf[c].pending} THEN 0 ELSE 1
    BY <1>1, <1>3 DEF StreamReads, OneWaits, Bufs
  <2>2. out' = [active |-> TRUE, read_buf |-> b, read_len |-> buf[b].len,
                read_index |-> 0, tvalid |-> TRUE,
                tlast |-> buf[b].len = 1, tdata |-> mem[b][0]]
    BY <1>1, <1>3, <2>1, Zenon DEF OutputClock
  <2>3. mem[b][0] \in Bytes
    BY <1>1
  <2>4. CASE buf[b].len = 1
    <3>1. out' = [active |-> TRUE, read_buf |-> b, read_len |-> buf[b].len,
                  read_index |-> 0, tvalid |-> TRUE, tlast |-> TRUE, tdata |-> mem[b][0]]
      <4>1. (buf[b].len = 1) = TRUE
        BY <2>4, Zenon
      <4> QED BY <2>2, <4>1, Zenon
    <3> QED BY <1>1, <2>3, <2>4, <3>1 DEF OutType
  <2>5. CASE buf[b].len # 1
    <3>1. out' = [active |-> TRUE, read_buf |-> b, read_len |-> buf[b].len,
                  read_index |-> 0, tvalid |-> TRUE, tlast |-> FALSE, tdata |-> mem[b][0]]
      <4>1. (buf[b].len = 1) = FALSE
        BY <2>5, Zenon
      <4> QED BY <2>2, <4>1, Zenon
    <3> QED BY <1>1, <2>3, <2>5, <3>1 DEF OutType
  <2> QED BY <2>4, <2>5
<1>4. CASE out.active /\ ~tready
  BY <1>1, <1>4 DEF OutputClock
<1>5. CASE out.active /\ tready /\ out.tlast
  <2>1. out' = [out EXCEPT !.active = FALSE, !.tvalid = FALSE, !.tlast = FALSE]
    BY <1>1, <1>5 DEF OutputClock, StreamReads
  <2>2. out' \in OutType /\ ~out'.active /\ ~out'.tvalid
    BY <1>1, <2>1 DEF OutType
  <2> QED BY <1>5, <2>2
<1>6. CASE out.active /\ tready /\ ~out.tlast
  <2> DEFINE i == out.read_index + 1
             q == i = out.read_len - 1
  <2>1. out' = [out EXCEPT !.read_index = i, !.tdata = mem[out.read_buf][i], !.tlast = q]
    BY <1>1, <1>6, Zenon DEF OutputClock, StreamReads
  <2>2. out.read_buf \in Bufs /\ i \in 0..(MAX_PAYLOAD_BYTES - 1)
    BY <1>1, <1>6 DEF OutType, StreamReads
  <2>3. mem[out.read_buf][i] \in Bytes
    BY <1>1, <2>2
  <2>4. out \in OutType /\ i \in Nat
    BY <1>1, <2>2
  <2>5. CASE q
    <3>1. out' = [out EXCEPT !.read_index = i, !.tdata = mem[out.read_buf][i], !.tlast = TRUE]
      <4>1. q = TRUE
        BY <2>5, Zenon
      <4> QED BY <2>1, <4>1, Zenon
    <3>2. out' \in OutType
      BY <2>3, <2>4, <3>1 DEF OutType
    <3>3. out'.active /\ out'.tvalid /\ out'.tlast = TRUE
      BY <1>1, <1>6, <3>1 DEF OutType, StreamReads
    <3>4. /\ out'.read_buf = out.read_buf /\ out'.read_len = out.read_len
          /\ out'.read_index = i /\ out'.tdata = mem[out.read_buf][i]
      BY <1>1, <3>1 DEF OutType
    <3> QED BY <1>6, <2>5, <3>2, <3>3, <3>4
  <2>6. CASE ~q
    <3>1. out' = [out EXCEPT !.read_index = i, !.tdata = mem[out.read_buf][i], !.tlast = FALSE]
      <4>1. q = FALSE
        BY <2>6, Zenon
      <4> QED BY <2>1, <4>1, Zenon
    <3>2. out' \in OutType
      BY <2>3, <2>4, <3>1 DEF OutType
    <3>3. out'.active /\ out'.tvalid /\ out'.tlast = FALSE
      BY <1>1, <1>6, <3>1 DEF OutType, StreamReads
    <3>4. /\ out'.read_buf = out.read_buf /\ out'.read_len = out.read_len
          /\ out'.read_index = i /\ out'.tdata = mem[out.read_buf][i]
      BY <1>1, <3>1 DEF OutType
    <3> QED BY <1>6, <2>6, <3>2, <3>3, <3>4
  <2> QED BY <2>5, <2>6
<1>7. /\ out.active \in BOOLEAN /\ out.tlast \in BOOLEAN
  BY <1>1 DEF OutType
<1>8. CASE ~out.active /\ \E b \in Bufs : buf[b].pending
  BY <1>3, <1>8
<1> QED BY <1>2, <1>3, <1>4, <1>5, <1>6, <1>7, <1>8

WireType == [frame : Frames, id : Nat, seen : Nat, phase : {"gap", "header", "payload"}]

ParserType == [state : {"IDLE", "HEADER", "PAYLOAD", "DROP"}, write_buf : Bufs,
               payload_len : 0..MAX_PAYLOAD_BYTES, payload_remaining : Nat]

\* The frame on the wire is the same until the next one starts.
LEMMA WireStep ==
    ASSUME IInv, NEW event \in Events, NEW tready \in BOOLEAN, Edge(event, tready)
    PROVE  /\ wire' \in WireType
           /\ event # "start" => wire'.frame = wire.frame /\ wire'.id = wire.id
<1>1. wire \in WireType /\ WireClock(event) /\ FRAME_IDS \in Nat \ {0}
  BY ReceiverAssumption DEF IInv, Registers, WireType, Edge
<1>2. \A n \in Nat : (n + 1) % FRAME_IDS \in Nat
  BY <1>1
<1>3. CASE event = "start"
  BY <1>1, <1>2, <1>3 DEF WireClock, WireType
<1>4. CASE event # "start"
  BY <1>1, <1>4 DEF WireClock, WireType
<1> QED BY <1>3, <1>4

\* How the parser comes to be in the states in which it fills a buffer.
LEMMA ParserStep ==
    ASSUME IInv, NEW event \in Events, NEW tready \in BOOLEAN, Edge(event, tready)
    PROVE  /\ parser' \in ParserType
           /\ parser'.state \in {"HEADER", "PAYLOAD"} =>
                 /\ parser'.write_buf = parser.write_buf /\ ~Completes(event)
                 /\ IF event = "start" THEN ~Busy(parser.write_buf)
                    ELSE parser.state \in {"HEADER", "PAYLOAD"}
           /\ parser'.state = "PAYLOAD" =>
                 \/ /\ event = "header"
                    /\ parser'.payload_len = 0
                    /\ parser'.payload_remaining = wire.frame.length
                    /\ wire.frame.length > 0
                 \/ /\ event = "byte" /\ parser.state = "PAYLOAD"
                    /\ parser.payload_len < MAX_PAYLOAD_BYTES
                    /\ parser.payload_remaining # 1
                    /\ parser'.payload_len = parser.payload_len + 1
                    /\ parser'.payload_remaining = parser.payload_remaining - 1
                 \/ event \in {"idle", "header"} /\ parser' = parser
<1>1. /\ parser \in ParserType /\ ParserClock(event) /\ ParserFills
      /\ wire.frame \in Frames /\ MAX_PAYLOAD_BYTES \in Nat \ {0}
      /\ wire.frame.length \in Nat
  BY ReceiverAssumption DEF IInv, Registers, ParserType, Edge
<1>0. parser \in ParserType /\ 0 \in 0..MAX_PAYLOAD_BYTES /\ wire.frame.length \in Nat
  BY <1>1
<1>2. CASE event = "idle"
  <2>1. parser' = parser
    BY <1>1, <1>2 DEF ParserClock
  <2> QED BY <1>1, <1>2, <2>1 DEF ParserType, Completes
<1>3. CASE event = "start"
  <2>1. CASE Busy(parser.write_buf)
    <3>1. parser' = [parser EXCEPT !.state = "DROP"]
      BY <1>1, <1>3, <2>1 DEF ParserClock
    <3> QED BY <1>1, <3>1 DEF ParserType
  <2>2. CASE ~Busy(parser.write_buf)
    <3>1. parser' = [parser EXCEPT !.state = "HEADER", !.payload_len = 0, !.payload_remaining = 0]
      BY <1>1, <1>3, <2>2 DEF ParserClock
    <3>2. parser' \in ParserType /\ parser'.state = "HEADER" /\ parser'.write_buf = parser.write_buf
      BY <1>0, <3>1 DEF ParserType
    <3> QED BY <1>3, <2>2, <3>2 DEF Completes
  <2> QED BY <2>1, <2>2
<1>4. CASE event = "header"
  <2>1. CASE parser.state # "HEADER"
    <3>1. parser' = parser
      BY <1>1, <1>4, <2>1 DEF ParserClock
    <3> QED BY <1>1, <1>4, <2>1, <3>1 DEF ParserType, Completes
  <2>2. CASE parser.state = "HEADER" /\ (~wire.frame.accepted \/ wire.frame.length = 0)
    <3>1. \/ parser' = [parser EXCEPT !.state = "DROP"]
          \/ parser' = [parser EXCEPT !.state = "DROP", !.payload_len = 0,
                                      !.payload_remaining = wire.frame.length]
      BY <1>1, <1>4, <2>2 DEF ParserClock
    <3>2. parser' \in ParserType /\ parser'.state = "DROP"
      BY <1>0, <3>1 DEF ParserType
    <3> QED BY <3>2
  <2>3. CASE parser.state = "HEADER" /\ wire.frame.accepted /\ wire.frame.length # 0
    <3>1. parser' = [parser EXCEPT !.state = "PAYLOAD", !.payload_len = 0,
                                   !.payload_remaining = wire.frame.length]
      BY <1>1, <1>4, <2>3 DEF ParserClock
    <3>2. /\ parser' \in ParserType /\ parser'.write_buf = parser.write_buf
          /\ parser'.payload_len = 0 /\ parser'.payload_remaining = wire.frame.length
      BY <1>0, <3>1 DEF ParserType
    <3> QED BY <1>1, <1>4, <2>3, <3>2 DEF Completes
  <2> QED BY <2>1, <2>2, <2>3
<1>5. CASE event = "byte"
  <2>1. NextWriteBuf(parser.write_buf) \in Bufs
    BY <1>1, BufsFacts DEF NextWriteBuf, ParserType
  <2>2. CASE parser.state # "PAYLOAD"
    BY <1>1, <1>5, <2>2 DEF ParserClock, ParserType, Completes
  <2>3. CASE parser.state = "PAYLOAD" /\ parser.payload_len >= MAX_PAYLOAD_BYTES
    BY <1>1, <1>5, <2>3 DEF ParserClock, ParserType
  <2>4. CASE parser.state = "PAYLOAD" /\ parser.payload_len < MAX_PAYLOAD_BYTES
    <3>0. parser' = [parser EXCEPT
                        !.state = IF Completes(event) THEN "DROP" ELSE @,
                        !.payload_len = @ + 1, !.payload_remaining = @ - 1,
                        !.write_buf = IF Completes(event) THEN NextWriteBuf(@) ELSE @]
      <4>1. ~(parser.payload_len >= MAX_PAYLOAD_BYTES)
        BY <1>1, <2>4 DEF ParserType
      <4> QED BY <1>1, <1>5, <2>4, <4>1 DEF ParserClock
    <3>1. /\ parser.payload_remaining - 1 \in Nat
          /\ parser.payload_len + 1 \in 0..MAX_PAYLOAD_BYTES
      BY <1>1, <2>4 DEF ParserFills, ParserType
    <3>2. CASE Completes(event)
      <4>1. parser' = [parser EXCEPT !.state = "DROP", !.payload_len = @ + 1,
                                     !.payload_remaining = @ - 1,
                                     !.write_buf = NextWriteBuf(parser.write_buf)]
        BY <1>5, <2>4, <3>0, <3>2, Zenon
      <4>2. parser' \in ParserType /\ parser'.state = "DROP"
        BY <1>0, <2>1, <3>1, <4>1 DEF ParserType
      <4> QED BY <4>2
    <3>3. CASE ~Completes(event)
      <4>1. parser' = [parser EXCEPT !.state = parser.state, !.payload_len = @ + 1,
                                     !.payload_remaining = @ - 1, !.write_buf = parser.write_buf]
        BY <1>5, <2>4, <3>0, <3>3, Zenon
      <4>2. parser.payload_remaining # 1
        BY <1>5, <2>4, <3>3 DEF Completes
      <4>3. /\ parser' \in ParserType /\ parser'.write_buf = parser.write_buf
            /\ parser'.payload_len = parser.payload_len + 1
            /\ parser'.payload_remaining = parser.payload_remaining - 1
        BY <1>0, <3>1, <4>1 DEF ParserType
      <4> QED BY <1>5, <2>4, <3>3, <4>2, <4>3
    <3> QED BY <3>2, <3>3
  <2> QED BY <1>1, <2>2, <2>3, <2>4 DEF ParserType
<1>6. CASE event = "end"
  BY <1>1, <1>6 DEF ParserClock, ParserType
<1> QED BY <1>2, <1>3, <1>4, <1>5, <1>6 DEF Events

-----------------------------------------------------------------------------
(* The invariant.                                                          *)

\* After reset both buffers are free.
LEMMA InitIInv == ReceiverInit => IInv
<1> SUFFICES ASSUME ReceiverInit PROVE IInv
  OBVIOUS
<1>1. MAX_PAYLOAD_BYTES \in Nat \ {0} /\ 0 \in 0..MAX_PAYLOAD_BYTES
  BY ReceiverAssumption
<1>2. <<0, 0>> \in Bytes
  BY DEF Bytes
<1>3. wire \in WireType
  BY DEF ReceiverInit, WireType
<1>4. parser \in ParserType /\ parser.state = "IDLE"
  BY <1>1 DEF ReceiverInit, ParserType, Bufs
<1>5. mem \in [Bufs -> [0..(MAX_PAYLOAD_BYTES - 1) -> Bytes]]
  BY <1>2 DEF ReceiverInit
<1>6. /\ buf \in [Bufs -> [pending : BOOLEAN, len : 0..MAX_PAYLOAD_BYTES]]
      /\ \A b \in Bufs : ~buf[b].pending
  BY <1>1 DEF ReceiverInit
<1>7. out \in OutType /\ ~out.active /\ ~out.tvalid
  BY <1>2 DEF ReceiverInit, OutType, Bufs
<1> QED BY <1>3, <1>4, <1>5, <1>6, <1>7, BufsFacts
        DEF IInv, Registers, WireType, ParserType, OutType, PendingHolds, StreamReads,
            OneWaits, ParserFills

\* A byte that completes a payload is put into a buffer that is free.
LEMMA CompletesInFree ==
    ASSUME IInv, NEW event \in Events, Completes(event)
    PROVE  /\ parser.write_buf \in Bufs
           /\ ~buf[parser.write_buf].pending
           /\ event = "byte" /\ parser.state = "PAYLOAD"
           /\ parser.payload_len + 1 = wire.frame.length
           /\ parser.payload_len < MAX_PAYLOAD_BYTES /\ parser.payload_len \in Nat
           /\ out.active => out.read_buf # parser.write_buf
BY DEF IInv, Registers, ParserFills, StreamReads, Completes

\* Every clock preserves the invariant.
LEMMA EdgeIInv ==
    ASSUME IInv, NEW event \in Events, NEW tready \in BOOLEAN, Edge(event, tready)
    PROVE  IInv'
<1>1. Registers'
  BY MemStep, BufStep, OutStep, WireStep, ParserStep
     DEF Registers, OutType, WireType, ParserType
<1>2. /\ Registers /\ PendingHolds /\ StreamReads /\ OneWaits /\ ParserFills
      /\ MAX_PAYLOAD_BYTES \in Nat \ {0}
      /\ parser.write_buf \in Bufs /\ out.read_buf \in Bufs
      /\ \A b \in Bufs : buf[b].len \in Nat
  BY ReceiverAssumption DEF IInv, Registers
<1>3. PendingHolds'
  <2> SUFFICES ASSUME NEW b \in Bufs, buf'[b].pending PROVE buf'[b].len > 0
    BY DEF PendingHolds
  <2>1. CASE Completes(event) /\ b = parser.write_buf
    BY <2>1, BufStep, CompletesInFree
  <2>2. CASE ~(Completes(event) /\ b = parser.write_buf)
    BY <1>2, <2>2, BufStep DEF PendingHolds
  <2> QED BY <2>1, <2>2
<1>4. StreamReads'
  <2>1. CASE ~out.active /\ \A b \in Bufs : ~buf[b].pending
    <3>1. out' = out
      BY <2>1, OutStep
    <3> QED BY <1>2, <2>1, <3>1 DEF StreamReads
  <2>2. ASSUME NEW b \in Bufs, ~out.active, buf[b].pending
        PROVE  StreamReads'
    <3>1. /\ out'.active /\ out'.tvalid
          /\ out'.read_buf = b /\ out'.read_len = buf[b].len /\ out'.read_index = 0
          /\ out'.tlast <=> buf[b].len = 1
          /\ out'.tdata = mem[b][0]
      BY <2>2, OutStep
    <3>2. ~(Completes(event) /\ b = parser.write_buf) /\ ~out.tvalid
      BY <1>2, <2>2, CompletesInFree DEF StreamReads
    <3>3. buf'[b].pending /\ buf'[b].len = buf[b].len
      BY <2>2, <3>2, BufStep
    <3>4. mem'[b] = mem[b]
      BY <2>2, MemStep
    <3>5. buf[b].len > 0
      BY <1>2, <2>2 DEF PendingHolds
    <3> QED BY <1>2, <3>1, <3>3, <3>4, <3>5 DEF StreamReads
  <2>3. CASE out.active /\ ~tready
    <3>1. out' = out
      BY <2>3, OutStep
    <3>2. ~(Completes(event) /\ out.read_buf = parser.write_buf)
      BY <2>3, CompletesInFree
    <3>3. /\ buf'[out.read_buf].pending /\ buf'[out.read_buf].len = buf[out.read_buf].len
          /\ mem'[out.read_buf] = mem[out.read_buf]
      BY <1>2, <2>3, <3>2, BufStep, MemStep DEF StreamReads
    <3> QED BY <1>2, <3>1, <3>3 DEF StreamReads
  <2>4. CASE out.active /\ tready /\ out.tlast
    BY <2>4, OutStep DEF StreamReads
  <2>5. CASE out.active /\ tready /\ ~out.tlast
    <3>1. /\ out'.active /\ out'.tvalid
          /\ out'.read_buf = out.read_buf /\ out'.read_len = out.read_len
          /\ out'.read_index = out.read_index + 1
          /\ out'.tdata = mem[out.read_buf][out.read_index + 1]
          /\ out'.tlast <=> out.read_index + 1 = out.read_len - 1
      BY <2>5, OutStep
    <3>2. ~(Completes(event) /\ out.read_buf = parser.write_buf)
      BY <2>5, CompletesInFree
    <3>3. /\ buf'[out.read_buf].pending /\ buf'[out.read_buf].len = buf[out.read_buf].len
          /\ mem'[out.read_buf] = mem[out.read_buf]
      BY <1>2, <2>5, <3>2, BufStep, MemStep DEF StreamReads
    <3>4. out.read_index \in Nat /\ out.read_len \in Nat
      BY <1>2 DEF Registers
    <3>5. /\ out.read_len = buf[out.read_buf].len /\ out.read_index < buf[out.read_buf].len
          /\ out.read_index # buf[out.read_buf].len - 1
      BY <1>2, <2>5 DEF StreamReads
    <3> QED BY <1>2, <3>1, <3>3, <3>4, <3>5 DEF StreamReads
  <2>6. out.active \in BOOLEAN /\ out.tlast \in BOOLEAN
    BY <1>2 DEF Registers
  <2> QED BY <2>1, <2>2, <2>3, <2>4, <2>5, <2>6
<1>5. OneWaits'
  <2> SUFFICES ASSUME buf'[0].pending, buf'[1].pending, ~out'.active PROVE FALSE
    BY DEF OneWaits
  <2>1. \A b \in Bufs : buf'[b].pending /\ ~buf[b].pending =>
              Completes(event) /\ b = parser.write_buf
    BY BufStep
  <2>2. CASE out.active
    <3>1. tready /\ out.tlast
      BY <1>2, <2>2, OutStep DEF Registers
    <3>2. ~(Completes(event) /\ out.read_buf = parser.write_buf)
      BY <2>2, CompletesInFree
    <3>3. ~buf'[out.read_buf].pending
      BY <1>2, <2>2, <3>1, <3>2, BufStep DEF StreamReads
    <3> QED BY <1>2, <3>3 DEF Bufs
  <2>3. CASE ~out.active
    <3>1. \A b \in Bufs : ~buf[b].pending
      BY <2>3, OutStep
    <3> QED BY <2>1, <3>1, BufsFacts
  <2> QED BY <2>2, <2>3
<1>6. ParserFills'
  <2>1. ASSUME parser'.state \in {"HEADER", "PAYLOAD"}
        PROVE  /\ parser'.write_buf = parser.write_buf
               /\ ~buf[parser.write_buf].pending
               /\ ~buf'[parser.write_buf].pending
    <3>1. parser'.write_buf = parser.write_buf /\ ~Completes(event)
      BY <2>1, ParserStep
    <3>2. ~buf[parser.write_buf].pending
      BY <1>2, <2>1, ParserStep DEF ParserFills, Busy
    <3> QED BY <1>2, <3>1, <3>2, BufStep
  <2>2. ASSUME parser'.state = "PAYLOAD"
        PROVE  /\ parser'.payload_remaining > 0
               /\ parser'.payload_len + parser'.payload_remaining = wire'.frame.length
               /\ \A i \in 0..(parser'.payload_len - 1) :
                     mem'[parser'.write_buf][i] = <<wire'.id, i>>
    <3>1. parser'.write_buf = parser.write_buf
      BY <2>1, <2>2
    <3>2. CASE /\ event = "header"
               /\ parser'.payload_len = 0
               /\ parser'.payload_remaining = wire.frame.length
               /\ wire.frame.length > 0
      <4>1. wire.frame.length \in Nat
        BY <1>2, ReceiverAssumption DEF Registers
      <4> QED BY <3>2, <4>1, WireStep
    <3>3. CASE /\ event = "byte" /\ parser.state = "PAYLOAD"
               /\ parser.payload_len < MAX_PAYLOAD_BYTES
               /\ parser.payload_remaining # 1
               /\ parser'.payload_len = parser.payload_len + 1
               /\ parser'.payload_remaining = parser.payload_remaining - 1
      <4>1. wire'.frame = wire.frame /\ wire'.id = wire.id
        BY <3>3, WireStep
      <4>2. /\ parser.payload_remaining \in Nat /\ parser.payload_len \in Nat
            /\ parser.payload_remaining > 0
            /\ parser.payload_len + parser.payload_remaining = wire.frame.length
            /\ \A i \in 0..(parser.payload_len - 1) : mem[parser.write_buf][i] = Byte(i)
        BY <1>2, <3>3 DEF Registers, ParserFills
      <4>3. /\ mem'[parser.write_buf][parser.payload_len] = Byte(parser.payload_len)
            /\ \A i \in 0..(parser.payload_len - 1) :
                  mem'[parser.write_buf][i] = mem[parser.write_buf][i]
        BY <3>3, MemStep
      <4>4. \A i \in 0..parser.payload_len : mem'[parser.write_buf][i] = Byte(i)
        <5> SUFFICES ASSUME NEW i \in 0..parser.payload_len
                     PROVE  mem'[parser.write_buf][i] = Byte(i)
          OBVIOUS
        <5>1. i = parser.payload_len \/ i \in 0..(parser.payload_len - 1)
          BY <4>2
        <5> QED BY <4>2, <4>3, <5>1
      <4> QED BY <3>1, <3>3, <4>1, <4>2, <4>4 DEF Byte
    <3>4. CASE event \in {"idle", "header"} /\ parser' = parser
      <4>1. wire'.frame = wire.frame /\ wire'.id = wire.id /\ mem' = mem
        BY <3>4, WireStep, MemStep
      <4> QED BY <1>2, <2>2, <3>4, <4>1 DEF ParserFills, Byte
    <3> QED BY <2>2, <3>2, <3>3, <3>4, ParserStep
  <2> QED BY <2>1, <2>2 DEF ParserFills, Byte
<1> QED BY <1>1, <1>3, <1>4, <1>5, <1>6 DEF IInv

\* The receiver's clocks without their fairness, as any circuit around it
\* has them.
ReceiverSafety == ReceiverInit /\ [][ReceiverNext]_receiver

\* The inductive invariant holds throughout.
LEMMA ReceiverInvariant == ReceiverSafety => []IInv
<1>1. ReceiverInit => IInv
  BY InitIInv
<1>2. IInv /\ [ReceiverNext]_receiver => IInv'
  <2> SUFFICES ASSUME IInv, [ReceiverNext]_receiver PROVE IInv'
    OBVIOUS
  <2>1. ASSUME NEW tready \in BOOLEAN, ReceiverClock(tready) PROVE IInv'
    <3>1. PICK event \in Events : Edge(event, tready)
      BY <2>1 DEF ReceiverClock, Edge, Events
    <3> QED BY <3>1, EdgeIInv
  <2>2. CASE UNCHANGED receiver
    BY <2>2 DEF receiver, IInv, Registers, PendingHolds, StreamReads, OneWaits, ParserFills, Byte
  <2> QED BY <2>1, <2>2 DEF ReceiverNext
<1> QED BY <1>1, <1>2, PTL DEF ReceiverSafety

-----------------------------------------------------------------------------
(* The queue.                                                              *)

\* What is left of a buffered datagram is a sequence of bytes.
LEMMA RestSeq ==
    ASSUME IInv, NEW b \in Bufs, buf[b].pending
    PROVE  LET first == IF out.active /\ out.read_buf = b THEN out.read_index ELSE 0
           IN /\ Rest(b) \in Seq(Bytes)
              /\ first \in Nat /\ first < buf[b].len
              /\ Len(Rest(b)) = buf[b].len - first
              /\ \A i \in 1..Len(Rest(b)) : Rest(b)[i] = mem[b][first + i - 1]
<1> DEFINE first == IF out.active /\ out.read_buf = b THEN out.read_index ELSE 0
           n == buf[b].len - first
<1>1. /\ buf[b].len \in 0..MAX_PAYLOAD_BYTES /\ buf[b].len > 0
      /\ mem[b] \in [0..(MAX_PAYLOAD_BYTES - 1) -> Bytes]
      /\ MAX_PAYLOAD_BYTES \in Nat
  BY ReceiverAssumption DEF IInv, Registers, PendingHolds
<1>2. first \in Nat /\ first < buf[b].len
  BY <1>1 DEF IInv, Registers, StreamReads
<1>3. Rest(b) = [i \in 1..n |-> mem[b][first + i - 1]]
  BY DEF Rest
<1> HIDE DEF first
<1>4. n \in Nat
  BY <1>1, <1>2
<1>5. \A i \in 1..n : mem[b][first + i - 1] \in Bytes
  BY <1>1, <1>2
<1>6. Rest(b) \in Seq(Bytes) /\ Len(Rest(b)) = n
  BY <1>3, <1>4, <1>5, IsASeq
<1> QED BY <1>2, <1>3, <1>6 DEF first

\* Sequences of at most two elements.
LEMMA ShortSeqs ==
    ASSUME NEW S, NEW x \in S, NEW y \in S
    PROVE  /\ <<>> \o <<>> = <<>> /\ <<x>> \o <<>> = <<x>> /\ <<>> \o <<x>> = <<x>>
           /\ <<x>> \o <<y>> = <<x, y>>
           /\ Head(<<x>>) = x /\ Head(<<x, y>>) = x
           /\ Tail(<<x>>) = <<>> /\ Tail(<<x, y>>) = <<y>>
           /\ Append(<<>>, x) = <<x>> /\ Append(<<x>>, y) = <<x, y>>
<1>1. <<>> \in Seq(S) /\ <<x>> \in Seq(S) /\ <<y>> \in Seq(S) /\ <<x, y>> \in Seq(S)
  OBVIOUS
<1>2. <<>> \o <<>> = <<>> /\ <<x>> \o <<>> = <<x>> /\ <<>> \o <<x>> = <<x>>
  BY <1>1, ConcatSimplifications
<1>3. <<x>> \o <<y>> = <<x, y>>
  <2>1. <<x>> \o <<y>> \in Seq(S) /\ Len(<<x>> \o <<y>>) = 2 /\ Len(<<x, y>>) = 2
    BY <1>1, ConcatProperties
  <2>2. \A i \in 1..2 : (<<x>> \o <<y>>)[i] = <<x, y>>[i]
    BY <1>1, ConcatProperties
  <2> QED BY <1>1, <2>1, <2>2, SeqEqual
<1>4. Head(<<x>>) = x /\ Head(<<x, y>>) = x
  OBVIOUS
<1>5. Tail(<<x>>) = <<>>
  OBVIOUS
<1>6. Tail(<<x, y>>) = <<y>>
  OBVIOUS
<1>7. Append(<<>>, x) = <<x>> /\ Append(<<x>>, y) = <<x, y>>
  BY <1>1, <1>2, <1>3, AppendIsConcat
<1> QED BY <1>2, <1>3, <1>4, <1>5, <1>6, <1>7

\* The queue of a receiver whose stream rests has at most one datagram, and
\* that of one whose stream runs begins with the one being read.
WaitForms ==
    /\ ~out.active /\ (\A b \in Bufs : ~buf[b].pending) => Waiting = <<>>
    /\ \A b \in Bufs : ~out.active /\ buf[b].pending => Waiting = <<Rest(b)>>
    /\ out.active /\ ~buf[1 - out.read_buf].pending => Waiting = <<Rest(out.read_buf)>>
    /\ out.active /\ buf[1 - out.read_buf].pending =>
          Waiting = <<Rest(out.read_buf), Rest(1 - out.read_buf)>>

\* The queue has one of these forms.
LEMMA WaitingForms == IInv => WaitForms
<1> SUFFICES ASSUME IInv PROVE WaitForms
  OBVIOUS
<1>1. \A b \in Bufs : buf[b].pending => Rest(b) \in Seq(Bytes)
  BY RestSeq
<1>2. out.read_buf \in Bufs /\ (out.active => buf[out.read_buf].pending)
  BY DEF IInv, Registers, StreamReads
<1>3. 1 - out.read_buf \in Bufs /\ 1 - 0 = 1
  BY <1>2, BufsFacts
<1>4. CASE ~out.active /\ \A b \in Bufs : ~buf[b].pending
  BY <1>4, BufsFacts DEF WaitForms, Waiting, Held
<1>5. ASSUME NEW b \in Bufs, ~out.active, buf[b].pending
      PROVE  Waiting = <<Rest(b)>>
  <2>1. ~buf[1 - b].pending
    BY <1>5 DEF IInv, OneWaits, Bufs
  <2>2. Waiting = Held(0) \o Held(1)
    BY <1>3, <1>5 DEF Waiting
  <2>3. Held(b) = <<Rest(b)>> /\ Held(1 - b) = <<>>
    BY <1>5, <2>1 DEF Held
  <2>4. Waiting = Held(b) \o Held(1 - b) \/ Waiting = Held(1 - b) \o Held(b)
    <3>1. (b = 0 /\ 1 - b = 1) \/ (b = 1 /\ 1 - b = 0)
      BY DEF Bufs
    <3> QED BY <2>2, <3>1
  <2> QED BY <1>1, <1>5, <2>3, <2>4, ShortSeqs
<1>6. ASSUME out.active
      PROVE  Waiting = <<Rest(out.read_buf)>> \o Held(1 - out.read_buf)
  BY <1>2, <1>6 DEF Waiting, Held
<1>7. CASE out.active /\ ~buf[1 - out.read_buf].pending
  BY <1>1, <1>2, <1>6, <1>7, ShortSeqs DEF WaitForms, Held
<1>8. CASE out.active /\ buf[1 - out.read_buf].pending
  BY <1>1, <1>2, <1>3, <1>6, <1>8, ShortSeqs DEF WaitForms, Held
<1> QED BY <1>4, <1>5, <1>7, <1>8 DEF WaitForms

\* In a state of the invariant the stream shows the queue's first byte.
LEMMA HeadShown == ReceiverSafety => []StreamShowsHead
<1>1. IInv => StreamShowsHead
  <2> SUFFICES ASSUME IInv, out.tvalid
               PROVE  /\ out.tdata = Head(Head(Waiting))
                      /\ out.tlast <=> Len(Head(Waiting)) = 1
    BY DEF StreamShowsHead
  <2> DEFINE b == out.read_buf
  <2>1. /\ out.active /\ b \in Bufs /\ buf[b].pending /\ out.read_index \in Nat
        /\ out.tdata = mem[b][out.read_index] /\ buf[b].len \in Nat
        /\ out.tlast <=> out.read_index = buf[b].len - 1
    BY DEF IInv, Registers, StreamReads
  <2>2. /\ Rest(b) \in Seq(Bytes) /\ out.read_index < buf[b].len
        /\ Len(Rest(b)) = buf[b].len - out.read_index
        /\ \A i \in 1..Len(Rest(b)) : Rest(b)[i] = mem[b][out.read_index + i - 1]
    BY <2>1, RestSeq
  <2>3. Head(Waiting) = Rest(b)
    <3>1. CASE buf[1 - b].pending
      <4>1. Rest(1 - b) \in Seq(Bytes)
        BY <2>1, <3>1, RestSeq, BufsFacts
      <4> QED BY <2>1, <2>2, <3>1, <4>1, WaitingForms, ShortSeqs DEF WaitForms
    <3>2. CASE ~buf[1 - b].pending
      BY <2>1, <2>2, <3>2, WaitingForms, ShortSeqs DEF WaitForms
    <3> QED BY <3>1, <3>2
  <2>4. Rest(b)[1] = mem[b][out.read_index]
    BY <2>1, <2>2
  <2>5. Head(Rest(b)) = Rest(b)[1]
    BY <2>2
  <2>6. Head(Head(Waiting)) = out.tdata
    BY <2>1, <2>3, <2>4, <2>5
  <2>7. Len(Head(Waiting)) = buf[b].len - out.read_index
    BY <2>2, <2>3
  <2>8. out.tlast <=> Len(Head(Waiting)) = 1
    <3>1. buf[b].len - out.read_index = 1 <=> out.read_index = buf[b].len - 1
      BY <2>1
    <3> QED BY <2>1, <2>7, <3>1
  <2> QED BY <2>6, <2>8
<1> QED BY <1>1, ReceiverInvariant, PTL

\* The byte on the stream is the first that waits, and TLAST marks the last
\* byte of a datagram and no other (udp_ipv4_rx.v, payload output), whatever
\* comes in while it is held.
THEOREM ShowsHead == ReceiverSpec => []StreamShowsHead
BY HeadShown, PTL DEF ReceiverSpec, ReceiverSafety

\* Where the stream is in a buffer.
ReadPoint(b) == IF out.active /\ out.read_buf = b THEN out.read_index ELSE 0

\* A buffer that the stream does not advance in keeps its rest.
LEMMA RestKept ==
    ASSUME IInv, NEW event \in Events, NEW tready \in BOOLEAN, Edge(event, tready),
           NEW b \in Bufs, buf[b].pending, ReadPoint(b)' = ReadPoint(b)
    PROVE  Rest(b)' = Rest(b)
<1>1. ~(Completes(event) /\ b = parser.write_buf)
  BY CompletesInFree
<1>2. buf'[b].len = buf[b].len /\ mem'[b] = mem[b]
  BY <1>1, BufStep, MemStep
<1>3. Rest(b) = [i \in 1..(buf[b].len - ReadPoint(b)) |-> mem[b][ReadPoint(b) + i - 1]]
  BY DEF Rest, ReadPoint
<1>4. Rest(b)' = [i \in 1..(buf'[b].len - ReadPoint(b)') |-> mem'[b][ReadPoint(b)' + i - 1]]
  BY DEF Rest, ReadPoint
<1> QED BY <1>2, <1>3, <1>4

\* A byte that is taken leaves the tail of its datagram.
LEMMA RestAdvances ==
    ASSUME IInv, NEW event \in Events, NEW tready \in BOOLEAN, Edge(event, tready),
           out.active, tready, NEW b \in Bufs, b = out.read_buf
    PROVE  /\ out.tlast <=> Len(Rest(b)) = 1
           /\ ~out.tlast => Rest(b)' = Tail(Rest(b))
<1> DEFINE n == out.read_index
<1>1. /\ b \in Bufs /\ buf[b].pending /\ n \in Nat /\ n < buf[b].len /\ buf[b].len \in Nat
      /\ out.tlast <=> n = buf[b].len - 1
  BY DEF IInv, Registers, StreamReads
<1>2. /\ Rest(b) \in Seq(Bytes) /\ Len(Rest(b)) = buf[b].len - n
      /\ \A i \in 1..Len(Rest(b)) : Rest(b)[i] = mem[b][n + i - 1]
  BY <1>1, RestSeq
<1>3. out.tlast <=> Len(Rest(b)) = 1
  BY <1>1, <1>2
<1>4. ASSUME ~out.tlast PROVE Rest(b)' = Tail(Rest(b))
  <2>1. /\ out'.active /\ out'.read_buf = b /\ out'.read_index = n + 1
    BY <1>4, OutStep
  <2>2. buf'[b].len = buf[b].len /\ mem'[b] = mem[b]
    BY <1>1, CompletesInFree, BufStep, MemStep
  <2>3. Rest(b)' = [i \in 1..(buf[b].len - (n + 1)) |-> mem[b][(n + 1) + i - 1]]
    BY <2>1, <2>2 DEF Rest
  <2>4. Tail(Rest(b)) = [i \in 1..(buf[b].len - (n + 1)) |-> mem[b][(n + 1) + i - 1]]
    <3>1. Rest(b) # <<>>
      BY <1>1, <1>2
    <3>2. /\ Tail(Rest(b)) \in Seq(Bytes) /\ Len(Tail(Rest(b))) = buf[b].len - (n + 1)
          /\ \A i \in 1..Len(Tail(Rest(b))) : Tail(Rest(b))[i] = Rest(b)[i + 1]
      BY <1>1, <1>2, <3>1, HeadTailProperties
    <3>3. ASSUME NEW i \in 1..(buf[b].len - (n + 1))
          PROVE  Tail(Rest(b))[i] = mem[b][(n + 1) + i - 1]
      <4>1. n \in Nat /\ buf[b].len \in Nat
        BY <1>1
      <4>2. i + 1 \in 1..(buf[b].len - n) /\ n + (i + 1) - 1 = (n + 1) + i - 1
        BY <4>1
      <4>3. Rest(b)[i + 1] = mem[b][n + (i + 1) - 1]
        BY <1>2, <4>2
      <4> QED BY <3>2, <4>2, <4>3
    <3> QED BY <3>2, <3>3
  <2> QED BY <2>3, <2>4
<1> QED BY <1>3, <1>4

\* The payload of the frame on the wire, as the refinement has it.
FramePayload == [i \in 1..wire.frame.length |-> Byte(i - 1)]

\* The byte that completes a datagram makes the buffer hold the payload of
\* the frame.
LEMMA RestArrives ==
    ASSUME IInv, NEW event \in Events, NEW tready \in BOOLEAN, Edge(event, tready),
           Completes(event), NEW w \in Bufs, w = parser.write_buf, ReadPoint(w)' = 0
    PROVE  FramePayload \in Seq(Bytes) /\ FramePayload # <<>> /\ Rest(w)' = FramePayload
<1> DEFINE n == parser.payload_len
<1>1. /\ w \in Bufs /\ n \in Nat /\ n + 1 = wire.frame.length /\ n < MAX_PAYLOAD_BYTES
      /\ event = "byte" /\ parser.state = "PAYLOAD" /\ wire.id \in Nat
  BY CompletesInFree DEF IInv, Registers
<1>2. buf'[w].len = n + 1
  BY BufStep
<1>3. \A i \in 0..n : mem'[w][i] = Byte(i)
  <2>1. \A i \in 0..(n - 1) : mem'[w][i] = Byte(i)
    BY <1>1, MemStep DEF IInv, ParserFills
  <2>2. mem'[w][n] = Byte(n)
    BY <1>1, MemStep
  <2> QED BY <1>1, <2>1, <2>2
<1>4. FramePayload \in Seq(Bytes) /\ Len(FramePayload) = n + 1
  <2>1. FramePayload = [i \in 1..(n + 1) |-> Byte(i - 1)]
    BY <1>1 DEF FramePayload
  <2>2. \A i \in 1..(n + 1) : Byte(i - 1) \in Bytes
    BY <1>1 DEF Byte, Bytes
  <2>3. n + 1 \in Nat
    BY <1>1
  <2> QED BY <2>1, <2>2, <2>3, IsASeq
<1>5. Rest(w)' = [i \in 1..(buf'[w].len - ReadPoint(w)') |-> mem'[w][ReadPoint(w)' + i - 1]]
  BY DEF Rest, ReadPoint
<1>6. Rest(w)' = [i \in 1..(n + 1) |-> mem'[w][0 + i - 1]]
  BY <1>1, <1>2, <1>5
<1>7. \A i \in 1..(n + 1) : mem'[w][0 + i - 1] = Byte(i - 1)
  BY <1>1, <1>3
<1>8. Rest(w)' = FramePayload
  BY <1>1, <1>6, <1>7 DEF FramePayload
<1>9. FramePayload # <<>>
  BY <1>1, <1>4
<1> QED BY <1>4, <1>8, <1>9

\* While the stream is in one buffer, the other one holds a datagram that
\* waits, is completed, or stays free.
LEMMA OtherBuffer ==
    ASSUME IInv, NEW event \in Events, NEW tready \in BOOLEAN, Edge(event, tready),
           NEW b \in Bufs, buf[b].pending, out.active => out.read_buf = b,
           out'.active => out'.read_buf = b
    PROVE  /\ buf[1 - b].pending =>
                 ~Completes(event) /\ buf'[1 - b].pending /\ Rest(1 - b)' = Rest(1 - b)
           /\ Completes(event) => /\ ~buf[1 - b].pending /\ buf'[1 - b].pending
                                  /\ Rest(1 - b)' = FramePayload
                                  /\ FramePayload \in Seq(Bytes) /\ FramePayload # <<>>
           /\ ~buf[1 - b].pending /\ ~Completes(event) => ~buf'[1 - b].pending
<1> DEFINE o == 1 - b
<1>1. o \in Bufs /\ o # b /\ \A c \in Bufs : c # b => c = o
  BY BufsFacts
<1>2. out.tvalid <=> out.active
  BY DEF IInv, StreamReads
<1>3. ReadPoint(o) = 0 /\ ReadPoint(o)' = 0
  BY <1>1 DEF ReadPoint
<1>4. Completes(event) => o = parser.write_buf /\ ~buf[o].pending
  BY <1>1, CompletesInFree
<1>5. CASE Completes(event)
  <2>1. buf'[o].pending
    BY <1>4, <1>5, BufStep
  <2>2. Rest(o)' = FramePayload /\ FramePayload \in Seq(Bytes) /\ FramePayload # <<>>
    BY <1>1, <1>3, <1>4, <1>5, RestArrives
  <2> QED BY <1>4, <1>5, <2>1, <2>2
<1>6. CASE ~Completes(event)
  <2>1. buf'[o].pending <=> buf[o].pending
    BY <1>1, <1>2, <1>6, BufStep
  <2>2. buf[o].pending => Rest(o)' = Rest(o)
    BY <1>1, <1>3, RestKept
  <2> QED BY <1>6, <2>1, <2>2
<1> QED BY <1>5, <1>6

\* Every clock is a step of the queue: the kernel takes a byte when it is
\* ready, and a datagram arrives with its last byte.
LEMMA QueueStep ==
    ASSUME IInv, NEW event \in Events, NEW tready \in BOOLEAN, Edge(event, tready)
    PROVE  Queue!Next
<1> DEFINE takes == out.active /\ tready
           rest == IF takes THEN Queue!Taken(Waiting) ELSE Waiting
<1>1. WaitForms /\ WaitForms'
  <2>1. IInv'
    BY EdgeIInv
  <2>2. (IInv => WaitForms)'
    BY WaitingForms, PTL
  <2> QED BY <2>1, <2>2, WaitingForms
<1> SUFFICES /\ takes => Waiting # <<>>
             /\ Completes(event) => FramePayload # <<>>
             /\ Waiting' = IF Completes(event) THEN Append(rest, FramePayload) ELSE rest
  <2>1. takes \in BOOLEAN /\ Completes(event) \in BOOLEAN
    BY Zenon DEF Completes
  <2> QED BY <2>1, Zenon DEF Queue!Next, FramePayload
<1>2. CASE ~out.active /\ \A b \in Bufs : ~buf[b].pending
  <2>1. out' = out /\ Waiting = <<>> /\ ~takes
    BY <1>1, <1>2, OutStep DEF WaitForms
  <2>2. CASE Completes(event)
    <3>1. PICK w \in Bufs : w = parser.write_buf
      BY <2>2, CompletesInFree
    <3>2. buf'[w].pending /\ ReadPoint(w)' = 0
      BY <1>2, <2>1, <2>2, <3>1, BufStep DEF ReadPoint
    <3>3. FramePayload \in Seq(Bytes) /\ FramePayload # <<>> /\ Rest(w)' = FramePayload
      BY <2>2, <3>1, <3>2, RestArrives
    <3>4. Waiting' = <<FramePayload>>
      BY <1>1, <1>2, <2>1, <3>2, <3>3 DEF WaitForms
    <3> QED BY <2>1, <2>2, <3>3, <3>4, ShortSeqs
  <2>3. CASE ~Completes(event)
    <3>1. \A b \in Bufs : ~buf'[b].pending
      BY <1>2, <2>3, BufStep
    <3>2. Waiting' = <<>>
      BY <1>1, <1>2, <2>1, <3>1 DEF WaitForms
    <3> QED BY <2>1, <2>3, <3>2
  <2> QED BY <2>2, <2>3
<1>3. ASSUME NEW b \in Bufs, buf[b].pending, out.active => out.read_buf = b
      PROVE  /\ takes => Waiting # <<>>
             /\ Completes(event) => FramePayload # <<>>
             /\ Waiting' = IF Completes(event) THEN Append(rest, FramePayload) ELSE rest
  <2> DEFINE o == 1 - b
  <2>1. out'.active => out'.read_buf = b
    BY <1>3, OutStep DEF IInv, Registers
  <2>2. /\ buf[o].pending =>
               ~Completes(event) /\ buf'[o].pending /\ Rest(o)' = Rest(o)
        /\ Completes(event) => /\ ~buf[o].pending /\ buf'[o].pending
                               /\ Rest(o)' = FramePayload
                               /\ FramePayload \in Seq(Bytes) /\ FramePayload # <<>>
        /\ ~buf[o].pending /\ ~Completes(event) => ~buf'[o].pending
    BY <1>3, <2>1, OtherBuffer
  <2>3. Rest(b) \in Seq(Bytes) /\ (buf[o].pending => Rest(o) \in Seq(Bytes))
    BY <1>3, RestSeq, BufsFacts
  <2>4. Waiting = IF buf[o].pending THEN <<Rest(b), Rest(o)>> ELSE <<Rest(b)>>
    <3>1. CASE out.active
      BY <1>1, <1>3, <3>1 DEF WaitForms
    <3>2. CASE ~out.active
      <4>1. ~buf[o].pending
        BY <1>3, <3>2 DEF IInv, OneWaits, Bufs
      <4> QED BY <1>1, <1>3, <3>2, <4>1 DEF WaitForms
    <3> QED BY <3>1, <3>2
  <2>5. Waiting # <<>>
    BY <2>4
  <2>6. Len(Rest(b)) > 0
    BY <1>3, RestSeq DEF IInv, Registers
  <2>7. CASE ~(takes /\ out.tlast)
    <3>1. out'.active /\ out'.read_buf = b
      BY <1>3, <2>1, <2>7, OutStep
    <3>2. Waiting' = IF buf'[o].pending THEN <<Rest(b)', Rest(o)'>> ELSE <<Rest(b)'>>
      BY <1>1, <3>1 DEF WaitForms
    <3>3. ASSUME NEW x \in Seq(Bytes), Rest(b)' = x,
                 rest = IF buf[o].pending THEN <<x, Rest(o)>> ELSE <<x>>
          PROVE  /\ Completes(event) => FramePayload # <<>>
                 /\ Waiting' = IF Completes(event) THEN Append(rest, FramePayload) ELSE rest
      <4>1. CASE Completes(event)
        <5>1. Waiting' = <<x, FramePayload>> /\ rest = <<x>>
          BY <2>2, <3>2, <3>3, <4>1
        <5> QED BY <2>2, <4>1, <5>1, ShortSeqs
      <4>2. CASE ~Completes(event)
        BY <2>2, <3>2, <3>3, <4>2
      <4> QED BY <4>1, <4>2
    <3>4. CASE ~takes
      <4>1. ReadPoint(b)' = ReadPoint(b)
        BY <1>3, <3>1, <3>4, OutStep DEF ReadPoint
      <4>2. Rest(b)' = Rest(b)
        BY <1>3, <4>1, RestKept
      <4>3. rest = IF buf[o].pending THEN <<Rest(b), Rest(o)>> ELSE <<Rest(b)>>
        BY <2>4, <3>4
      <4> QED BY <2>3, <2>5, <3>3, <4>2, <4>3
    <3>5. CASE takes
      <4>1. Len(Rest(b)) # 1 /\ Rest(b)' = Tail(Rest(b))
        BY <1>3, <2>7, <3>5, RestAdvances
      <4>2. Rest(b) # <<>>
        BY <2>3, <2>6
      <4>3. Tail(Rest(b)) \in Seq(Bytes)
        BY <2>3, <4>2, HeadTailProperties
      <4>4. rest = <<Tail(Rest(b))>> \o Tail(Waiting)
        <5>1. Head(Waiting) = Rest(b)
          BY <2>3, <2>4, ShortSeqs
        <5> QED BY <3>5, <4>1, <5>1 DEF Queue!Taken
      <4>5. rest = IF buf[o].pending THEN <<Tail(Rest(b)), Rest(o)>> ELSE <<Tail(Rest(b))>>
        <5>1. CASE buf[o].pending
          <6>1. Tail(Waiting) = <<Rest(o)>>
            BY <2>3, <2>4, <5>1, ShortSeqs
          <6>2. Rest(o) \in Seq(Bytes)
            BY <2>3, <5>1
          <6>3. <<Tail(Rest(b))>> \o <<Rest(o)>> = <<Tail(Rest(b)), Rest(o)>>
            BY <4>3, <6>2, ShortSeqs
          <6> QED BY <4>4, <5>1, <6>1, <6>3
        <5>2. CASE ~buf[o].pending
          <6>1. Tail(Waiting) = <<>>
            BY <2>3, <2>4, <5>2, ShortSeqs
          <6> QED BY <4>3, <4>4, <5>2, <6>1, ShortSeqs
        <5> QED BY <5>1, <5>2
      <4> QED BY <2>5, <3>3, <4>1, <4>3, <4>5
    <3> QED BY <3>4, <3>5
  <2>8. CASE takes /\ out.tlast
    <3>1. ~out'.active
      BY <2>8, OutStep
    <3>2. Len(Rest(b)) = 1
      BY <1>3, <2>8, RestAdvances
    <3>3. rest = IF buf[o].pending THEN <<Rest(o)>> ELSE <<>>
      BY <2>3, <2>4, <2>8, <3>2, ShortSeqs DEF Queue!Taken
    <3>4. ~buf'[b].pending
      <4>1. ~(Completes(event) /\ b = parser.write_buf)
        BY <1>3, CompletesInFree
      <4>2. out.tvalid /\ b = out.read_buf
        BY <1>3, <2>8 DEF IInv, StreamReads
      <4> QED BY <1>3, <2>8, <4>1, <4>2, BufStep
    <3>5. Waiting' = IF buf'[o].pending THEN <<Rest(o)'>> ELSE <<>>
      BY <1>1, <1>3, <3>1, <3>4, BufsFacts DEF WaitForms
    <3> QED BY <2>2, <2>3, <2>5, <3>3, <3>5, ShortSeqs
  <2> QED BY <2>7, <2>8
<1>4. CASE out.active
  <2>1. out.read_buf \in Bufs /\ buf[out.read_buf].pending
    BY <1>4 DEF IInv, Registers, StreamReads
  <2> QED BY <1>3, <2>1
<1>5. CASE ~out.active /\ \E b \in Bufs : buf[b].pending
  BY <1>3, <1>5
<1> QED BY <1>2, <1>4, <1>5

\* The refinement needs no fairness.
LEMMA QueueImplemented == ReceiverSafety => ReceivesDatagrams
<1>1. ReceiverInit => Queue!Init
  <2> SUFFICES ASSUME ReceiverInit PROVE Waiting = <<>>
    BY DEF Queue!Init
  <2>1. ~out.active /\ \A b \in Bufs : ~buf[b].pending
    BY DEF ReceiverInit
  <2> QED BY <2>1, InitIInv, WaitingForms DEF WaitForms
<1>2. IInv /\ [ReceiverNext]_receiver => [Queue!Next]_Queue!vars
  <2> SUFFICES ASSUME IInv, [ReceiverNext]_receiver PROVE [Queue!Next]_Queue!vars
    OBVIOUS
  <2>1. ASSUME NEW tready \in BOOLEAN, ReceiverClock(tready) PROVE Queue!Next
    <3>1. PICK event \in Events : Edge(event, tready)
      BY <2>1 DEF ReceiverClock, Edge, Events
    <3> QED BY <3>1, QueueStep
  <2>2. CASE UNCHANGED receiver
    BY <2>2 DEF receiver, Queue!vars, Waiting, Held, Rest, Byte
  <2> QED BY <2>1, <2>2 DEF ReceiverNext
<1> QED BY <1>1, <1>2, ReceiverInvariant, PTL DEF ReceiverSafety, ReceivesDatagrams, Queue!Spec

\* udp_ipv4_rx implements a queue of whole datagrams, for every buffer size,
\* every sequence of frames, cut off, too long, refused or empty ones too, and
\* any back-pressure of the kernel: nothing is torn, overwritten or overtaken.
THEOREM ReceiverRefinement == ReceiverSpec => ReceivesDatagrams
BY QueueImplemented, PTL DEF ReceiverSpec, ReceiverSafety

-----------------------------------------------------------------------------
(***************************************************************************)
(* The bridge.                                                             *)
(***************************************************************************)
\* Bytes of a frame, and of the kernel's replies.
ReplyBytes == {"reply"} \X {0, 1} \X Nat

FrameBytes ==
    ({"mac0", "mac", "ip", "port"} \X Endpoints) \cup ReplyBytes \cup ({"fcs", "none"} \X {0})

\* The registers of the transmitter and the kernel's reply.
BridgeTypes ==
    /\ remote \in Endpoints
    /\ tx \in [state : {"IDLE", "RECV", "SEND"}, payload : Seq(ReplyBytes), send_index : Nat,
               tx_remote : Endpoints, tvalid : BOOLEAN, tdata : FrameBytes]
    /\ reply \in [id : {0, 1}, length : Nat, next : Nat \ {0}, tvalid : BOOLEAN]
    /\ written \in Seq(ReplyBytes) /\ line \in Seq(FrameBytes)

\* Between two replies the kernel is before the first byte of one, and while
\* a reply is collected the transmitter has the bytes that were accepted.
ReplyCollected ==
    /\ tx.state \in {"IDLE", "SEND"} => reply.next = 1
    /\ tx.state = "RECV" => reply.next > 1 /\ line = <<>>
    /\ tx.state \in {"RECV", "SEND"} => tx.payload = written

\* The first n bytes of the frame are on the line, but for the first one,
\* whose MAC may be another host's.
Sent(n) ==
    LET frame == FrameFor(tx.tx_remote, written)
    IN /\ Len(line) = n /\ n <= Len(frame)
       /\ \A i \in 2..n : line[i] = frame[i]

\* The byte on the m_frame signals is the next one of the frame.
FrameSent ==
    /\ tx.tvalid <=> tx.state = "SEND"
    /\ tx.state = "SEND" =>
          LET frame == FrameFor(tx.tx_remote, written)
          IN /\ Sent(tx.send_index) /\ tx.send_index < Len(frame)
             /\ tx.send_index > 0 => tx.tdata = frame[tx.send_index + 1]
    /\ tx.state = "IDLE" /\ line # <<>> => Sent(Len(FrameFor(tx.tx_remote, written)))

BridgeInv == BridgeTypes /\ ReplyCollected /\ FrameSent

ReplyType == [id : {0, 1}, length : Nat, next : Nat \ {0}, tvalid : BOOLEAN]

TxType == [state : {"IDLE", "RECV", "SEND"}, payload : Seq(ReplyBytes), send_index : Nat,
           tx_remote : Endpoints, tvalid : BOOLEAN, tdata : FrameBytes]

\* A byte of the kernel is accepted in this clock.
Accepting == reply.tvalid /\ s_payload_tready

-----------------------------------------------------------------------------
(* What the parts of a clock do.                                           *)

\* A frame has five bytes besides the payload, and ends with the FCS.
LEMMA FrameFacts ==
    ASSUME NEW e \in Endpoints, NEW p \in Seq(ReplyBytes)
    PROVE  /\ FrameFor(e, p) \in Seq(FrameBytes)
           /\ Len(FrameFor(e, p)) = Len(p) + 5
           /\ Len(FrameFor(e, p)) \in Nat
           /\ FrameFor(e, p)[Len(FrameFor(e, p))] = <<"fcs", 0>>
<1> DEFINE head == <<<<"mac0", e>>, <<"mac", e>>, <<"ip", e>>, <<"port", e>>>>
           fcs == <<<<"fcs", 0>>>>
<1>1. <<"mac0", e>> \in FrameBytes /\ <<"mac", e>> \in FrameBytes
      /\ <<"ip", e>> \in FrameBytes /\ <<"port", e>> \in FrameBytes
      /\ <<"fcs", 0>> \in FrameBytes
  BY DEF FrameBytes
<1>2. head \in Seq(FrameBytes) /\ Len(head) = 4 /\ fcs \in Seq(FrameBytes) /\ Len(fcs) = 1
  BY <1>1
<1>3. p \in Seq(FrameBytes) /\ Len(p) \in Nat
  <2>1. ReplyBytes \subseteq FrameBytes
    BY DEF FrameBytes
  <2>2. \A i \in 1..Len(p) : p[i] \in FrameBytes
    BY <2>1, ElementOfSeq
  <2>3. Len(p) \in Nat /\ p = [i \in 1..Len(p) |-> p[i]]
    BY LenProperties
  <2> QED BY <2>2, <2>3, IsASeq
<1> HIDE DEF head, fcs
<1>4. head \o p \in Seq(FrameBytes) /\ Len(head \o p) = 4 + Len(p)
  <2>1. head \o p \in Seq(FrameBytes) /\ Len(head \o p) = Len(head) + Len(p)
    BY <1>2, <1>3, ConcatProperties, Zenon
  <2> QED BY <1>2, <2>1
<1> DEFINE hp == head \o p
<1> HIDE DEF hp
<1>5. /\ hp \o fcs \in Seq(FrameBytes) /\ Len(hp \o fcs) = Len(p) + 5
      /\ (hp \o fcs)[Len(p) + 5] = fcs[1]
  <2>1. hp \in Seq(FrameBytes) /\ Len(hp) = 4 + Len(p)
    BY <1>4 DEF hp
  <2>2. /\ hp \o fcs \in Seq(FrameBytes) /\ Len(hp \o fcs) = Len(hp) + Len(fcs)
        /\ \A i \in 1..(Len(hp) + Len(fcs)) :
              (hp \o fcs)[i] = IF i <= Len(hp) THEN hp[i] ELSE fcs[i - Len(hp)]
    BY <1>2, <2>1, ConcatProperties, Zenon
  <2>3. Len(p) + 5 \in 1..(Len(hp) + Len(fcs)) /\ Len(p) + 5 - Len(hp) = 1
        /\ ~(Len(p) + 5 <= Len(hp)) /\ Len(hp) + Len(fcs) = Len(p) + 5
    BY <1>2, <1>3, <2>1
  <2> QED BY <2>2, <2>3
<1>6. FrameFor(e, p) = hp \o fcs /\ fcs[1] = <<"fcs", 0>>
  BY DEF FrameFor, head, fcs, hp
<1> QED BY <1>3, <1>5, <1>6

\* The kernel holds its byte, or goes on after it.
LEMMA KernelStep ==
    ASSUME BridgeInv, NEW offers \in BOOLEAN, KernelClock(offers)
    PROVE  /\ reply' \in ReplyType /\ written' \in Seq(ReplyBytes)
           /\ ~Accepting => reply'.next = reply.next /\ written' = written
           /\ Accepting =>
                 /\ Offer.tdata \in ReplyBytes
                 /\ reply'.next = IF reply.next = reply.length THEN 1 ELSE reply.next + 1
                 /\ written' = IF reply.next = 1 THEN <<Offer.tdata>>
                               ELSE Append(written, Offer.tdata)
<1>1. reply \in ReplyType /\ written \in Seq(ReplyBytes)
  BY DEF BridgeInv, BridgeTypes, ReplyType
<1>2. /\ reply.next \in Nat \ {0} /\ reply.length \in Nat /\ reply.id \in {0, 1}
      /\ reply.tvalid \in BOOLEAN /\ 1 - reply.id \in {0, 1}
  BY <1>1 DEF ReplyType
<1>3. Offer.tdata = <<"reply", reply.id, reply.next>> /\ Offer.tdata \in ReplyBytes
  BY <1>2 DEF Offer, ReplyBytes
<1>4. Offer.tlast <=> reply.next = reply.length
  BY DEF Offer
<1>5. \A n \in ReplyLengths : n \in Nat
  BY BridgeAssumption
<1>6. CASE reply.tvalid /\ ~s_payload_tready
  BY <1>1, <1>6 DEF KernelClock, Accepting
<1>7. CASE ~reply.tvalid
  <2>1. PICK n \in Nat : reply' = [id |-> reply.id, length |-> n, next |-> reply.next,
                                   tvalid |-> offers]
    BY <1>2, <1>5, <1>7 DEF KernelClock
  <2>2. written' = written
    BY <1>7 DEF KernelClock
  <2>3. reply' \in ReplyType /\ reply'.next = reply.next
    BY <1>2, <2>1 DEF ReplyType
  <2> QED BY <1>1, <1>7, <2>2, <2>3 DEF Accepting
<1>8. CASE reply.tvalid /\ s_payload_tready
  <2> DEFINE next == IF reply.next = reply.length THEN 1 ELSE reply.next + 1
             id == IF reply.next = reply.length THEN 1 - reply.id ELSE reply.id
  <2>1. PICK n \in Nat : reply' = [id |-> id, length |-> n, next |-> next, tvalid |-> offers]
    BY <1>2, <1>4, <1>5, <1>8 DEF KernelClock
  <2>2. written' = IF reply.next = 1 THEN <<Offer.tdata>> ELSE Append(written, Offer.tdata)
    BY <1>8 DEF KernelClock
  <2>3. id \in {0, 1} /\ next \in Nat \ {0}
    BY <1>2
  <2>4. reply' \in ReplyType /\ reply'.next = next
    BY <2>1, <2>3 DEF ReplyType
  <2>5. written' \in Seq(ReplyBytes)
    BY <1>1, <1>3, <2>2
  <2> QED BY <1>3, <1>8, <2>2, <2>4, <2>5 DEF Accepting
<1> QED BY <1>2, <1>6, <1>7, <1>8

\* The registers of the receiver that the transmitter reads name a host.
LEMMA RemoteStep ==
    ASSUME IInv, BridgeTypes, NEW tready \in BOOLEAN, ReceiverClock(tready)
    PROVE  remote' \in Endpoints
<1>1. remote \in Endpoints /\ wire.frame.src \in Endpoints
  BY ReceiverAssumption DEF BridgeTypes, IInv, Registers
<1> QED BY <1>1 DEF ReceiverClock, RemoteClock

\* What the transmitter does: it collects a byte, sends one, or waits.
LEMMA TxStep ==
    ASSUME BridgeInv, NEW ready \in BOOLEAN, TransmitterClock(Offer, remote, ready)
    PROVE  /\ tx' \in TxType
           /\ Accepting =>
                 /\ tx.state \in {"IDLE", "RECV"}
                 /\ tx'.state = IF reply.next = reply.length THEN "SEND" ELSE "RECV"
                 /\ tx'.payload = Payload(Offer.tdata)
                 /\ tx'.send_index = 0
                 /\ tx'.tvalid <=> reply.next = reply.length
           /\ ~Accepting /\ tx.state # "SEND" => tx' = tx
           /\ tx.state = "SEND" /\ ~ready => tx' = tx
           /\ tx.state = "SEND" /\ ready =>
                 /\ tx'.payload = tx.payload /\ tx'.tx_remote = tx.tx_remote
                 /\ IF tx.send_index = Len(FrameFor(tx.tx_remote, tx.payload)) - 1
                    THEN tx'.state = "IDLE" /\ ~tx'.tvalid
                    ELSE /\ tx'.state = "SEND" /\ tx'.tvalid
                         /\ tx'.send_index = tx.send_index + 1
                         /\ tx'.tdata = FrameFor(tx.tx_remote, tx.payload)[tx.send_index + 2]
<1> DEFINE frame == FrameFor(tx.tx_remote, tx.payload)
<1>1. tx \in TxType /\ remote \in Endpoints
  BY DEF BridgeInv, BridgeTypes, TxType
<1>2. /\ tx.state \in {"IDLE", "RECV", "SEND"} /\ tx.payload \in Seq(ReplyBytes)
      /\ tx.send_index \in Nat /\ tx.tx_remote \in Endpoints /\ tx.tdata \in FrameBytes
  BY <1>1 DEF TxType
<1>3. /\ reply.next \in Nat \ {0} /\ reply.id \in {0, 1} /\ reply.tvalid \in BOOLEAN
  BY DEF BridgeInv, BridgeTypes
<1>4. /\ Offer.tvalid = reply.tvalid /\ Offer.tdata \in ReplyBytes
      /\ Offer.tlast <=> reply.next = reply.length
  BY <1>3 DEF Offer, ReplyBytes
<1>5. s_payload_tready => tx.state \in {"IDLE", "RECV"}
  BY DEF s_payload_tready
<1>6. CASE Accepting
  <2> DEFINE to == IF tx.state = "IDLE" THEN remote ELSE tx.tx_remote
             shown == IF reply.next = reply.length THEN <<"mac0", remote>> ELSE tx.tdata
             q == reply.next = reply.length
             state == IF reply.next = reply.length THEN "SEND" ELSE "RECV"
  <2>1. tx.state \in {"IDLE", "RECV"} /\ Offer.tvalid /\ s_payload_tready
    BY <1>4, <1>5, <1>6 DEF Accepting
  <2>2. tx' = [state |-> IF Offer.tlast THEN "SEND" ELSE "RECV",
               payload |-> Payload(Offer.tdata), send_index |-> 0,
               tx_remote |-> IF tx.state = "IDLE" THEN remote ELSE tx.tx_remote,
               tvalid |-> Offer.tlast,
               tdata |-> IF Offer.tlast THEN <<"mac0", remote>> ELSE tx.tdata]
    BY <2>1, Zenon DEF TransmitterClock
  <2>3. Payload(Offer.tdata) \in Seq(ReplyBytes)
    BY <1>2, <1>4 DEF Payload
  <2>4. <<"mac0", remote>> \in FrameBytes
    BY <1>1 DEF FrameBytes
  <2>5. to \in Endpoints
    BY <1>1, <1>2
  <2>6. CASE q
    <3>1. Offer.tlast = TRUE
      BY <2>6 DEF Offer
    <3>2. tx' = [state |-> "SEND", payload |-> Payload(Offer.tdata), send_index |-> 0,
                 tx_remote |-> to, tvalid |-> TRUE, tdata |-> <<"mac0", remote>>]
      BY <2>2, <3>1, Zenon
    <3>3. tx' \in TxType
      BY <2>3, <2>4, <2>5, <3>2 DEF TxType
    <3>4. /\ tx'.state = "SEND" /\ tx'.payload = Payload(Offer.tdata)
          /\ tx'.send_index = 0 /\ tx'.tvalid = TRUE
      BY <3>2
    <3> QED BY <1>6, <2>1, <2>6, <3>3, <3>4
  <2>7. CASE ~q
    <3>1. Offer.tlast = FALSE
      BY <2>7 DEF Offer
    <3>2. tx' = [state |-> "RECV", payload |-> Payload(Offer.tdata), send_index |-> 0,
                 tx_remote |-> to, tvalid |-> FALSE, tdata |-> tx.tdata]
      BY <2>2, <3>1, Zenon
    <3>3. tx' \in TxType
      BY <1>2, <2>3, <2>5, <3>2 DEF TxType
    <3>4. /\ tx'.state = "RECV" /\ tx'.payload = Payload(Offer.tdata)
          /\ tx'.send_index = 0 /\ tx'.tvalid = FALSE
      BY <3>2
    <3> QED BY <1>6, <2>1, <2>7, <3>3, <3>4
  <2> QED BY <2>6, <2>7
<1>7. CASE ~Accepting /\ tx.state # "SEND"
  <2>1. tx' = tx
    BY <1>4, <1>7 DEF Accepting, TransmitterClock
  <2> QED BY <1>1, <1>7, <2>1
<1>8. CASE tx.state = "SEND"
  <2>1. ~Accepting /\ tx.tvalid
    BY <1>5, <1>8 DEF Accepting, BridgeInv, FrameSent
  <2>2. tx' = IF ready
              THEN IF tx.send_index = Len(frame) - 1
                   THEN [tx EXCEPT !.state = "IDLE", !.tvalid = FALSE]
                   ELSE [tx EXCEPT !.send_index = @ + 1, !.tdata = frame[tx.send_index + 2]]
              ELSE tx
    BY <1>8, <2>1 DEF TransmitterClock
  <2>3. /\ frame \in Seq(FrameBytes) /\ Len(frame) \in Nat /\ tx.send_index < Len(frame)
    <3>1. tx.payload = written /\ tx.send_index < Len(FrameFor(tx.tx_remote, written))
      BY <1>8 DEF BridgeInv, ReplyCollected, FrameSent
    <3> QED BY <1>2, <3>1, FrameFacts
  <2>4. CASE ~ready
    BY <1>1, <1>8, <2>1, <2>2, <2>4
  <2>5. CASE ready /\ tx.send_index = Len(frame) - 1
    <3>1. tx' = [tx EXCEPT !.state = "IDLE", !.tvalid = FALSE]
      BY <2>2, <2>5
    <3>2. tx' \in TxType /\ tx'.state = "IDLE" /\ ~tx'.tvalid
          /\ tx'.payload = tx.payload /\ tx'.tx_remote = tx.tx_remote
      BY <1>1, <3>1 DEF TxType
    <3> QED BY <1>8, <2>1, <2>5, <3>2
  <2>6. CASE ready /\ tx.send_index # Len(frame) - 1
    <3>1. tx' = [tx EXCEPT !.send_index = @ + 1, !.tdata = frame[tx.send_index + 2]]
      BY <2>2, <2>6
    <3>2. frame[tx.send_index + 2] \in FrameBytes /\ tx.send_index + 1 \in Nat
      <4>1. tx.send_index + 2 \in 1..Len(frame)
        BY <1>2, <2>3, <2>6
      <4> QED BY <1>2, <2>3, <4>1, ElementOfSeq
    <3> HIDE DEF frame
    <3>3. tx' \in TxType
      BY <1>1, <3>1, <3>2 DEF TxType
    <3>4. /\ tx'.state = tx.state /\ tx'.payload = tx.payload
          /\ tx'.tx_remote = tx.tx_remote /\ tx'.send_index = tx.send_index + 1
          /\ tx'.tdata = frame[tx.send_index + 2]
      BY <1>1, <3>1 DEF TxType
    <3>5. tx'.tvalid
      BY <1>1, <2>1, <3>1 DEF TxType
    <3> QED BY <1>8, <2>1, <2>6, <3>3, <3>4, <3>5 DEF frame
  <2> QED BY <2>4, <2>5, <2>6
<1> QED BY <1>6, <1>7, <1>8

-----------------------------------------------------------------------------
(* The invariant.                                                          *)

\* After reset nothing is collected or sent.
LEMMA InitBridge == Init => BridgeInv
<1> SUFFICES ASSUME Init PROVE BridgeInv
  OBVIOUS
<1>1. remote = REMOTE /\ REMOTE \in Endpoints
  BY ReceiverAssumption DEF Init, ReceiverInit
<1>2. <<"none", 0>> \in FrameBytes
  BY DEF FrameBytes
<1>3. tx \in TxType /\ tx.state = "IDLE" /\ ~tx.tvalid
  BY <1>1, <1>2 DEF Init, TransmitterInit, TxType
<1>4. reply \in ReplyType /\ reply.next = 1
  BY DEF Init, ReplyType
<1>5. written = <<>> /\ line = <<>>
  BY DEF Init
<1> QED BY <1>1, <1>3, <1>4, <1>5
        DEF BridgeInv, BridgeTypes, TxType, ReplyType, ReplyCollected, FrameSent

\* A clock in which a byte of the kernel is accepted.
LEMMA CollectStep ==
    ASSUME BridgeInv, NEW ready \in BOOLEAN, NEW offers \in BOOLEAN, Accepting,
           TransmitterClock(Offer, remote, ready), KernelClock(offers), LineClock(ready)
    PROVE  line' = <<>> /\ ReplyCollected' /\ FrameSent'
<1>1. /\ tx.state \in {"IDLE", "RECV"} /\ reply.tvalid /\ reply.next \in Nat \ {0}
      /\ tx.payload \in Seq(ReplyBytes) /\ written \in Seq(ReplyBytes)
  BY TxStep DEF Accepting, BridgeInv, BridgeTypes
<1>2. line' = <<>>
  BY <1>1 DEF LineClock, BridgeInv, ReplyCollected, FrameSent
<1>3. tx'.payload = written'
  <2>1. CASE tx.state = "IDLE"
    BY <2>1, TxStep, KernelStep DEF Payload, BridgeInv, ReplyCollected
  <2>2. CASE tx.state = "RECV"
    <3>1. reply.next # 1 /\ tx.payload = written
      BY <1>1, <2>2 DEF BridgeInv, ReplyCollected
    <3>2. written' = Append(written, Offer.tdata)
      BY <3>1, KernelStep
    <3>3. tx'.payload = Append(tx.payload, Offer.tdata)
      BY <2>2, TxStep DEF Payload
    <3> QED BY <3>1, <3>2, <3>3
  <2> QED BY <1>1, <2>1, <2>2
<1>4. ReplyCollected'
  BY <1>1, <1>2, <1>3, TxStep, KernelStep DEF ReplyCollected
<1>5. written' \in Seq(ReplyBytes) /\ tx'.tx_remote \in Endpoints
  BY TxStep, KernelStep DEF TxType
<1>6. CASE reply.next = reply.length
  <2>1. tx'.state = "SEND" /\ tx'.tvalid /\ tx'.send_index = 0
    BY <1>6, TxStep
  <2>2. Len(line') = 0 /\ 0 < Len(FrameFor(tx'.tx_remote, written'))
    BY <1>2, <1>5, FrameFacts
  <2>3. FrameSent'
    BY <2>1, <2>2 DEF FrameSent, Sent, FrameFor
  <2> QED BY <1>2, <1>4, <2>3
<1>7. CASE reply.next # reply.length
  <2>1. tx'.state = "RECV" /\ ~tx'.tvalid
    BY <1>7, TxStep
  <2>2. FrameSent'
    BY <2>1 DEF FrameSent
  <2> QED BY <1>2, <1>4, <2>2
<1> QED BY <1>6, <1>7

\* A clock in which a byte of the frame is sent.
LEMMA SendStep ==
    ASSUME BridgeInv, NEW ready \in BOOLEAN, NEW offers \in BOOLEAN,
           tx.state = "SEND", ready,
           TransmitterClock(Offer, remote, ready), KernelClock(offers), LineClock(ready)
    PROVE  line' \in Seq(FrameBytes) /\ ReplyCollected' /\ FrameSent'
<1> DEFINE frame == FrameFor(tx.tx_remote, written)
           n == tx.send_index
<1>1. /\ ~Accepting /\ tx.tvalid /\ reply.next = 1 /\ tx.payload = written
      /\ line \in Seq(FrameBytes) /\ tx.tdata \in FrameBytes /\ n \in Nat
      /\ tx.tx_remote \in Endpoints /\ written \in Seq(ReplyBytes)
      /\ Len(line) = n /\ n < Len(frame)
      /\ \A i \in 2..n : line[i] = frame[i]
      /\ n > 0 => tx.tdata = frame[n + 1]
  BY DEF Accepting, s_payload_tready, BridgeInv, BridgeTypes, ReplyCollected, FrameSent, Sent
<1>2. frame \in Seq(FrameBytes) /\ Len(frame) \in Nat
  BY <1>1, FrameFacts
<1>3. line' = Append(line, tx.tdata)
  BY <1>1 DEF LineClock
<1>4. /\ line' \in Seq(FrameBytes) /\ Len(line') = n + 1
      /\ \A i \in 1..n : line'[i] = line[i]
      /\ line'[n + 1] = tx.tdata
  BY <1>1, <1>3, AppendProperties
<1>5. \A i \in 2..(n + 1) : line'[i] = frame[i]
  <2> SUFFICES ASSUME NEW i \in 2..(n + 1) PROVE line'[i] = frame[i]
    OBVIOUS
  <2>1. CASE i = n + 1
    BY <1>1, <1>4, <2>1
  <2>2. CASE i # n + 1
    BY <1>1, <1>4, <2>2
  <2> QED BY <2>1, <2>2
<1>6. written' = written /\ reply'.next = 1
  BY <1>1, KernelStep
<1>7. tx'.payload = written' /\ tx'.tx_remote = tx.tx_remote
  BY <1>1, <1>6, TxStep
<1>8. FrameFor(tx'.tx_remote, written') = frame
  BY <1>6, <1>7
<1> HIDE DEF frame
<1>9. CASE n = Len(frame) - 1
  <2>1. tx'.state = "IDLE" /\ ~tx'.tvalid
    BY <1>1, <1>9, TxStep DEF frame
  <2>2. Sent(Len(FrameFor(tx.tx_remote, written)))'
    BY <1>2, <1>4, <1>5, <1>8, <1>9 DEF Sent, FrameFor
  <2> QED BY <1>4, <1>6, <2>1, <2>2 DEF ReplyCollected, FrameSent, Sent, FrameFor
<1>10. CASE n # Len(frame) - 1
  <2>1. /\ tx'.state = "SEND" /\ tx'.tvalid /\ tx'.send_index = n + 1
        /\ tx'.tdata = frame[n + 2]
    BY <1>1, <1>10, TxStep DEF frame
  <2>2. n + 1 < Len(frame) /\ (n + 1) + 1 = n + 2
    BY <1>1, <1>2, <1>10 DEF frame
  <2>3. ReplyCollected'
    BY <1>6, <1>7, <2>1 DEF ReplyCollected
  <2>4. FrameSent'
    <3>1. Sent(tx.send_index)'
      BY <1>4, <1>5, <1>8, <2>1, <2>2 DEF Sent, FrameFor
    <3> QED BY <1>8, <2>1, <2>2, <3>1 DEF FrameSent, FrameFor
  <2> QED BY <1>4, <2>3, <2>4
<1> QED BY <1>9, <1>10

\* A clock in which the transmitter waits.
LEMMA IdleStep ==
    ASSUME BridgeInv, NEW ready \in BOOLEAN, NEW offers \in BOOLEAN,
           ~Accepting, ~(tx.state = "SEND" /\ ready),
           TransmitterClock(Offer, remote, ready), KernelClock(offers), LineClock(ready)
    PROVE  line' = line /\ ReplyCollected' /\ FrameSent'
<1>1. tx' = tx
  BY TxStep
<1>2. written' = written /\ reply'.next = reply.next
  BY KernelStep
<1>3. line' = line
  BY DEF LineClock, Accepting, s_payload_tready, BridgeInv, FrameSent
<1>4. ReplyCollected'
  BY <1>1, <1>2, <1>3 DEF BridgeInv, ReplyCollected
<1>5. FrameSent'
  BY <1>1, <1>2, <1>3 DEF BridgeInv, FrameSent, Sent, FrameFor
<1> QED BY <1>3, <1>4, <1>5

\* Every clock preserves the invariant.
LEMMA BridgeStep == IInv /\ BridgeInv /\ [Next]_vars => BridgeInv'
<1> SUFFICES ASSUME IInv, BridgeInv, [Next]_vars PROVE BridgeInv'
  OBVIOUS
<1>1. ASSUME NEW tready \in BOOLEAN, NEW ready \in BOOLEAN, NEW offers \in BOOLEAN,
             Clock(tready, ready, offers)
      PROVE  BridgeInv'
  <2>1. /\ ReceiverClock(tready) /\ TransmitterClock(Offer, remote, ready)
        /\ KernelClock(offers) /\ LineClock(ready)
    BY <1>1 DEF Clock
  <2>2. line' \in Seq(FrameBytes) /\ ReplyCollected' /\ FrameSent'
    <3>1. CASE Accepting
      <4>1. line' = <<>> /\ ReplyCollected' /\ FrameSent'
        BY <2>1, <3>1, CollectStep
      <4> QED BY <4>1
    <3>2. CASE tx.state = "SEND" /\ ready
      BY <2>1, <3>2, SendStep
    <3>3. CASE ~Accepting /\ ~(tx.state = "SEND" /\ ready)
      BY <2>1, <3>3, IdleStep DEF BridgeInv, BridgeTypes
    <3> QED BY <3>1, <3>2, <3>3
  <2>3. BridgeTypes'
    BY <2>1, <2>2, RemoteStep, KernelStep, TxStep DEF BridgeInv, BridgeTypes, ReplyType, TxType
  <2> QED BY <2>2, <2>3 DEF BridgeInv
<1>2. CASE UNCHANGED vars
  BY <1>2 DEF vars, receiver, BridgeInv, BridgeTypes, ReplyCollected, FrameSent, Sent, FrameFor
<1> QED BY <1>1, <1>2 DEF Next

\* The receiver in the bridge takes the steps it takes on its own.
LEMMA BridgeReceiver == Spec => ReceiverSafety
<1>1. Init => ReceiverInit
  BY DEF Init
<1>2. [Next]_vars => [ReceiverNext]_receiver
  BY DEF Next, vars, Clock, ReceiverNext, receiver
<1> QED BY <1>1, <1>2, PTL DEF Spec, ReceiverSafety

\* In a state of the invariant the line has a part of one frame.
LEMMA WholeFromInv == BridgeInv => RepliesWhole
<1> SUFFICES ASSUME BridgeInv, line # <<>>
             PROVE  /\ \E e \in Endpoints : IsPrefix(Tail(line), Tail(FrameFor(e, written)))
                    /\ tx.state = "IDLE" => Last(line) = <<"fcs", 0>>
  BY DEF RepliesWhole
<1> DEFINE e == tx.tx_remote
           frame == FrameFor(e, written)
           n == Len(line)
<1>1. /\ e \in Endpoints /\ written \in Seq(ReplyBytes) /\ line \in Seq(FrameBytes)
      /\ n \in Nat \ {0}
  BY DEF BridgeInv, BridgeTypes
<1>2. /\ n <= Len(frame) /\ \A i \in 2..n : line[i] = frame[i]
      /\ tx.state = "IDLE" => n = Len(frame)
  <2>1. tx.state \in {"IDLE", "RECV", "SEND"}
    BY DEF BridgeInv, BridgeTypes
  <2> QED BY <2>1 DEF BridgeInv, ReplyCollected, FrameSent, Sent
<1>3. /\ frame \in Seq(FrameBytes) /\ Len(frame) = Len(written) + 5 /\ Len(frame) \in Nat
      /\ frame[Len(frame)] = <<"fcs", 0>> /\ Len(written) \in Nat
  BY <1>1, FrameFacts, LenProperties
<1> HIDE DEF frame
<1>4. tx.state = "IDLE" => Last(line) = <<"fcs", 0>>
  BY <1>1, <1>2, <1>3 DEF Last
<1>5. IsPrefix(Tail(line), Tail(frame))
  <2>1. /\ Tail(line) \in Seq(FrameBytes) /\ Len(Tail(line)) = n - 1
        /\ \A i \in 1..(n - 1) : Tail(line)[i] = line[i + 1]
    BY <1>1, HeadTailProperties
  <2>2. /\ Tail(frame) \in Seq(FrameBytes) /\ Len(Tail(frame)) = Len(frame) - 1
        /\ \A i \in 1..(Len(frame) - 1) : Tail(frame)[i] = frame[i + 1]
    BY <1>3, HeadTailProperties
  <2>3. \A i \in 1..(n - 1) : Tail(line)[i] = Tail(frame)[i]
    <3> SUFFICES ASSUME NEW i \in 1..(n - 1) PROVE Tail(line)[i] = Tail(frame)[i]
      OBVIOUS
    <3>1. i + 1 \in 2..n /\ i \in 1..(Len(frame) - 1)
      BY <1>1, <1>2, <1>3
    <3> QED BY <1>2, <2>1, <2>2, <3>1
  <2>4. SubSeq(Tail(line), 1, n - 1) = SubSeq(Tail(frame), 1, n - 1)
    <3>1. SubSeq(Tail(line), 1, n - 1) = [i \in 1..(n - 1) |-> Tail(line)[i]]
      BY <1>1, <2>1, SubSeqProperties
    <3>2. SubSeq(Tail(frame), 1, n - 1) = [i \in 1..(n - 1) |-> Tail(frame)[i]]
      BY <1>1, <1>2, <1>3, <2>2, SubSeqProperties
    <3> QED BY <2>3, <3>1, <3>2
  <2>5. Len(Tail(line)) <= Len(Tail(frame))
    <3>1. n \in Nat /\ Len(frame) \in Nat /\ n <= Len(frame)
      BY <1>1, <1>2, <1>3
    <3>2. n - 1 <= Len(frame) - 1
      BY <3>1
    <3> QED BY <2>1, <2>2, <3>2
  <2>6. SubSeq(Tail(line), 1, Len(Tail(line))) = SubSeq(Tail(frame), 1, Len(Tail(line)))
    BY <2>1, <2>4
  <2> QED BY <2>5, <2>6 DEF IsPrefix
<1> QED BY <1>1, <1>4, <1>5 DEF frame

\* A frame that goes out carries the kernel's last reply as a whole, and but
\* for the first byte of the MAC the address of one host, although packets of
\* other hosts change the remote registers in any clock (udp_ipv4_tx.v).
THEOREM SendsWholeReplies == Spec => []RepliesWhole
<1>1. Spec => [](IInv /\ BridgeInv)
  <2>1. Spec => []IInv
    BY BridgeReceiver, ReceiverInvariant, PTL
  <2> QED BY <2>1, InitBridge, BridgeStep, PTL DEF Spec
<1> QED BY <1>1, WholeFromInv, PTL

\* In the bridge, too, the receiver is a queue of whole datagrams, whatever
\* the transmitter does at the same time.
THEOREM BridgeReceives == Spec => ReceivesDatagrams /\ []StreamShowsHead
BY BridgeReceiver, QueueImplemented, HeadShown, PTL

=============================================================================
