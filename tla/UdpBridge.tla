----------------------------- MODULE UdpBridge -----------------------------
(***************************************************************************)
(* rmii_udp_stream_bridge (src/rtl/rmii_udp_stream_bridge.v): receiver and *)
(* transmitter in one clock domain, between the wire and the kernel.  The  *)
(* receiver's remote registers are the transmitter's inputs.  A step is    *)
(* one clock.  The wire brings any frames; the kernel is ready to read     *)
(* when it likes and writes replies whenever it likes, as its watchdog     *)
(* lets it do, and of any length: join_all_partitions puts up to           *)
(* TX_BUF_SIZE pairs into a RESULT frame, 3075 bytes, which is more than   *)
(* the 1472 that fit into the transmitter's memory.                        *)
(* ENABLE_RX_DIAG_ECHO is off, as in the default build.                    *)
(***************************************************************************)
EXTENDS UdpReceiver, UdpTransmitter, SequencesExt

CONSTANT ReplyLengths   \* lengths of the kernel's replies

ASSUME BridgeAssumption ==
    MAX_TX_PAYLOAD_BYTES \in Nat \ {0} /\ ReplyLengths \subseteq Nat \ {0}

VARIABLES
    reply,      \* the kernel's reply, its next byte, and whether it is offered
    written,    \* history: the bytes of the last reply that were accepted
    line        \* history: the bytes of the last frame that were sent

vars == <<receiver, tx, reply, written, line>>

Init ==
    /\ ReceiverInit /\ TransmitterInit(REMOTE)
    /\ reply = [id |-> 0, length |-> 1, next |-> 1, tvalid |-> FALSE]
    /\ written = <<>> /\ line = <<>>

-----------------------------------------------------------------------------
\* The s_payload signals.
Offer == [tvalid |-> reply.tvalid, tdata |-> <<"reply", reply.id, reply.next>>,
          tlast |-> reply.next = reply.length]

\* The kernel holds a byte until it is accepted; between bytes it may pause.
KernelClock(offers) ==
    IF reply.tvalid /\ ~s_payload_tready THEN UNCHANGED <<reply, written>>
    ELSE LET accepted == reply.tvalid
             next == IF ~accepted THEN reply.next ELSE IF Offer.tlast THEN 1 ELSE reply.next + 1
         IN /\ \E n \in IF offers /\ next = 1 THEN ReplyLengths ELSE {reply.length} :
                  reply' = [id |-> IF accepted /\ Offer.tlast THEN 1 - reply.id ELSE reply.id,
                            length |-> n, next |-> next, tvalid |-> offers]
            /\ written' = IF ~accepted THEN written
                          ELSE IF reply.next = 1 THEN <<Offer.tdata>>
                          ELSE Append(written, Offer.tdata)

\* What the wire has got of the frame.
LineClock(ready) ==
    line' = IF tx.state = "IDLE" /\ reply.tvalid THEN <<>>
            ELSE IF tx.tvalid /\ ready THEN Append(line, tx.tdata)
            ELSE line

\* A rising edge.
Clock(tready, ready, offers) ==
    /\ ReceiverClock(tready)
    /\ TransmitterClock(Offer, remote, ready)
    /\ KernelClock(offers) /\ LineClock(ready)

Next == \E tready, ready, offers \in BOOLEAN : Clock(tready, ready, offers)

\* The kernel comes back to reading and goes on with a reply it has begun,
\* and the line becomes ready again.
Fairness ==
    /\ WF_vars(\E r, o \in BOOLEAN : Clock(TRUE, r, o))
    /\ WF_vars(\E t, o \in BOOLEAN : Clock(t, TRUE, o))
    /\ WF_vars(\E t, r \in BOOLEAN : Clock(t, r, TRUE))

Spec == Init /\ [][Next]_vars /\ Fairness

-----------------------------------------------------------------------------
\* A frame that goes out carries the kernel's last reply, whole, to the IP,
\* port and (but for its first byte) MAC of one endpoint, whatever packets
\* come in meanwhile.
RepliesWhole ==
    /\ line # <<>> => \E e \in Endpoints : IsPrefix(Tail(line), Tail(FrameFor(e, written)))
    /\ tx.state = "IDLE" /\ line # <<>> => Last(line) = <<"fcs", 0>>

\* A reply the kernel begins is sent if it fits into the transmitter's memory:
\* the kernel is not left waiting for ever in the middle of it.
RepliesSent ==
    reply.tvalid /\ reply.length <= MAX_TX_PAYLOAD_BYTES ~> tx.state = "SEND"

\* What udp_ipv4_tx.v says of a payload (lines 6-7): "The module buffers it
\* until tlast, then emits a complete Ethernet frame", without a limit to its
\* length.
EveryReplySent == reply.tvalid ~> tx.state = "SEND"

\* What udp_ipv4_rx.v says of the remote registers (lines 46-48): "Source
\* endpoint captured from the last accepted UDP packet.  The TX path uses
\* these values for replies": a reply is addressed to an endpoint there is.
ReplyToOneEndpoint ==
    line # <<>> => \E e \in Endpoints : IsPrefix(line, FrameFor(e, written))

=============================================================================
