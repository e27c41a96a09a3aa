---------------------------- MODULE UdpReceiver ----------------------------
(***************************************************************************)
(* udp_ipv4_rx (src/rtl/udp_ipv4_rx.v): two packet buffers between the     *)
(* frames that come from the wire and the byte stream the kernel reads.    *)
(*                                                                         *)
(* An operator of the form ...Clock is what one side of the always block   *)
(* does at a rising edge; all of them read the registers' old values.  The *)
(* 42 header bytes of a frame are one event, whose outcome (the checks of  *)
(* MAC, IP, port and lengths) the frame carries.  A frame is a record      *)
(* [src, accepted, length, present]: length is what the UDP header says    *)
(* and present the number of bytes that really follow it.                  *)
(***************************************************************************)
EXTENDS Integers, Sequences

CONSTANTS
    MAX_PAYLOAD_BYTES,
    Frames,         \* what the wire may bring: [src, accepted, length, present]
    FRAME_IDS,      \* frames are told apart modulo this number
    Endpoints,      \* senders of frames
    REMOTE          \* the endpoint before any packet has come

ASSUME ReceiverAssumption ==
    /\ {MAX_PAYLOAD_BYTES, FRAME_IDS} \subseteq Nat \ {0}
    /\ REMOTE \in Endpoints
    /\ Frames \subseteq [src : Endpoints, accepted : BOOLEAN, length : Nat, present : Nat]

VARIABLES
    wire,       \* the frame that is arriving, its number, and how far it has come
    parser,     \* state, write_buf, payload_len and payload_remaining
    mem,        \* payload_mem0 and payload_mem1
    buf,        \* of each buffer: buf_pending and buf_len
    out,        \* output_active, read_buf, read_len, read_index, m_payload signals
    remote      \* the endpoint that replies go to

receiver == <<wire, parser, mem, buf, out, remote>>

Bufs == {0, 1}

\* Byte i of the arriving frame's payload.
Byte(i) == <<wire.id, i>>

ReceiverInit ==
    /\ \E f \in Frames : wire = [frame |-> f, id |-> 0, phase |-> "gap", seen |-> 0]
    /\ parser = [state |-> "IDLE", write_buf |-> 0, payload_len |-> 0, payload_remaining |-> 0]
    /\ mem = [b \in Bufs |-> [i \in 0..(MAX_PAYLOAD_BYTES - 1) |-> <<0, 0>>]]
    /\ buf = [b \in Bufs |-> [pending |-> FALSE, len |-> 0]]
    /\ out = [active |-> FALSE, read_buf |-> 0, read_len |-> 0, read_index |-> 0,
              tvalid |-> FALSE, tlast |-> FALSE, tdata |-> <<0, 0>>]
    /\ remote = REMOTE

-----------------------------------------------------------------------------
\* What the wire does in a clock.  Between two bytes are idle clocks, and a
\* frame may break off anywhere.
WireClock(event) ==
    \/ event = "idle" /\ UNCHANGED wire
    \/ /\ event = "start" /\ wire.phase = "gap"
       /\ \E f \in Frames :
             wire' = [frame |-> f, id |-> (wire.id + 1) % FRAME_IDS,
                      phase |-> "header", seen |-> 0]
    \/ /\ event = "header" /\ wire.phase = "header"
       /\ wire' = [wire EXCEPT !.phase = "payload"]
    \/ /\ event = "byte" /\ wire.phase = "payload" /\ wire.seen < wire.frame.present
       /\ wire' = [wire EXCEPT !.seen = @ + 1]
    \/ /\ event = "end"
       /\ wire.phase = "header" \/ (wire.phase = "payload" /\ wire.seen = wire.frame.present)
       /\ wire' = [wire EXCEPT !.phase = "gap"]

\* Defect: only a buffer that is being read counts as busy.
BusyWhenRead(b) == out.active /\ out.read_buf = b

\* write_buf0_busy and write_buf1_busy.
Busy(b) == buf[b].pending \/ (out.active /\ out.read_buf = b)

\* The stream's next byte, if the kernel is ready.
OutputClock(tready) ==
    LET waiting == {b \in Bufs : buf[b].pending}
        b == IF 0 \in waiting THEN 0 ELSE 1
    IN IF ~out.active /\ ~out.tvalid
       THEN out' = IF waiting = {} THEN out
                   ELSE [active |-> TRUE, read_buf |-> b, read_len |-> buf[b].len,
                         read_index |-> 0, tvalid |-> TRUE,
                         tlast |-> buf[b].len = 1, tdata |-> mem[b][0]]
       ELSE IF out.tvalid /\ tready
       THEN out' = IF out.tlast
                   THEN [out EXCEPT !.active = FALSE, !.tvalid = FALSE, !.tlast = FALSE]
                   ELSE [out EXCEPT !.read_index = @ + 1,
                                    !.tdata = mem[out.read_buf][out.read_index + 1],
                                    !.tlast = out.read_index + 1 = out.read_len - 1]
       ELSE UNCHANGED out

\* Defect: the flag of a buffer that was read is not cleared.
NeverReleased(tready) == {}

\* The buffer that the stream has done with in this clock, if any.
Released(tready) ==
    {b \in {out.read_buf} : out.tvalid /\ tready /\ out.tlast}

\* Where the next datagram goes after one has been completed in b.
NextWriteBuf(b) == IF Busy(1 - b) THEN b ELSE 1 - b

\* The byte completes the payload.
Completes(event) ==
    /\ event = "byte" /\ parser.state = "PAYLOAD"
    /\ parser.payload_remaining = 1 /\ parser.payload_len < MAX_PAYLOAD_BYTES

ParserClock(event) ==
    parser' =
        CASE event = "start" ->
                IF Busy(parser.write_buf) THEN [parser EXCEPT !.state = "DROP"]
                ELSE [parser EXCEPT !.state = "HEADER", !.payload_len = 0, !.payload_remaining = 0]
          [] event = "header" /\ parser.state = "HEADER" ->
                IF ~wire.frame.accepted THEN [parser EXCEPT !.state = "DROP"]
                ELSE [parser EXCEPT !.state = IF wire.frame.length = 0 THEN "DROP" ELSE "PAYLOAD",
                                    !.payload_len = 0, !.payload_remaining = wire.frame.length]
          [] event = "byte" /\ parser.state = "PAYLOAD" ->
                IF parser.payload_len >= MAX_PAYLOAD_BYTES THEN [parser EXCEPT !.state = "DROP"]
                ELSE [parser EXCEPT !.state = IF Completes(event) THEN "DROP" ELSE @,
                                    !.payload_len = @ + 1, !.payload_remaining = @ - 1,
                                    !.write_buf = IF Completes(event) THEN NextWriteBuf(@) ELSE @]
          [] event = "end" -> [parser EXCEPT !.state = "IDLE"]
          [] OTHER -> parser

MemClock(event) ==
    IF event = "byte" /\ parser.state = "PAYLOAD" /\ parser.payload_len < MAX_PAYLOAD_BYTES
    THEN mem' = [mem EXCEPT ![parser.write_buf][parser.payload_len] = Byte(parser.payload_len)]
    ELSE UNCHANGED mem

BufClock(event, tready) ==
    buf' = [b \in Bufs |->
               IF Completes(event) /\ b = parser.write_buf
               THEN [pending |-> TRUE, len |-> parser.payload_len + 1]
               ELSE [buf[b] EXCEPT !.pending = @ /\ b \notin Released(tready)]]

\* The source of a packet is kept once the packet is complete.
RemoteClock(event) ==
    remote' = IF \/ Completes(event)
                 \/ /\ event = "header" /\ parser.state = "HEADER"
                    /\ wire.frame.accepted /\ wire.frame.length = 0
              THEN wire.frame.src ELSE remote

\* A rising edge.
ReceiverClock(tready) ==
    \E event \in {"idle", "start", "header", "byte", "end"} :
        /\ WireClock(event)
        /\ ParserClock(event) /\ MemClock(event) /\ RemoteClock(event)
        /\ BufClock(event, tready) /\ OutputClock(tready)

ReceiverNext == \E tready \in BOOLEAN : ReceiverClock(tready)

\* The kernel comes back to reading.
ReceiverSpec ==
    ReceiverInit /\ [][ReceiverNext]_receiver /\ WF_receiver(ReceiverClock(TRUE))

-----------------------------------------------------------------------------
\* What the stream has still to bring of the datagram in a buffer.
Rest(b) ==
    LET first == IF out.active /\ out.read_buf = b THEN out.read_index ELSE 0
    IN [i \in 1..(buf[b].len - first) |-> mem[b][first + i - 1]]

\* A buffer's part of the queue.
Held(b) == IF buf[b].pending THEN <<Rest(b)>> ELSE <<>>

\* The buffered datagrams, in the order in which the stream will bring them.
Waiting ==
    LET b == IF out.active THEN out.read_buf ELSE 0
    IN Held(b) \o Held(1 - b)

\* The receiver is a queue of whole datagrams: with the parser filling one
\* buffer while the stream empties the other, none is torn, overwritten,
\* truncated or overtaken, and what does not fit is lost as a whole.
Queue == INSTANCE DatagramQueue WITH
    payload <- [i \in 1..wire.frame.length |-> Byte(i - 1)],
    queue <- Waiting

ReceivesDatagrams == Queue!Spec

\* The byte the receiver shows is the first that waits, and TLAST marks the
\* last byte of a datagram and no other.
StreamShowsHead ==
    out.tvalid => /\ out.tdata = Head(Head(Waiting))
                  /\ out.tlast <=> Len(Head(Waiting)) = 1

\* A frame dropped because its buffer is in use is not the last word: the
\* buffer the parser is to write becomes free again.
ReceiverHearsAgain == Busy(parser.write_buf) ~> ~Busy(parser.write_buf)

=============================================================================
