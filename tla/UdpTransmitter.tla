--------------------------- MODULE UdpTransmitter ---------------------------
(***************************************************************************)
(* udp_ipv4_tx (src/rtl/udp_ipv4_tx.v): collects the bytes of one reply of *)
(* the kernel up to TLAST and sends them as an Ethernet frame.             *)
(*                                                                         *)
(* The frame's bytes are told apart as far as their origin goes: the first *)
(* byte of the destination MAC, its other bytes, IP and port, the payload, *)
(* and padding with FCS.  The FCS is computed from the bytes sent.         *)
(***************************************************************************)
EXTENDS Integers, Sequences

CONSTANT MAX_TX_PAYLOAD_BYTES

VARIABLE tx     \* state, payload_mem, send_index, tx_remote and the m_frame signals

TransmitterInit(endpoint) ==
    tx = [state |-> "IDLE", payload |-> <<>>, send_index |-> 0, tx_remote |-> endpoint,
          tvalid |-> FALSE, tdata |-> <<"none", 0>>]

\* The frame as frame_data_byte and fcs_byte give it, for a destination.
FrameFor(endpoint, payload) ==
    <<<<"mac0", endpoint>>, <<"mac", endpoint>>, <<"ip", endpoint>>, <<"port", endpoint>>>>
    \o payload \o <<<<"fcs", 0>>>>

\* Defect: one byte less is accepted.
ReadyBelowMax ==
    tx.state = "IDLE" \/ (tx.state = "RECV" /\ Len(tx.payload) < MAX_TX_PAYLOAD_BYTES - 1)

s_payload_tready ==
    tx.state = "IDLE" \/ (tx.state = "RECV" /\ Len(tx.payload) < MAX_TX_PAYLOAD_BYTES)

\* Defect: the payload of the reply before is not forgotten.
KeepPayload(byte) == Append(tx.payload, byte)

\* payload_len restarts with the first byte of a reply.
Payload(byte) == IF tx.state = "IDLE" THEN <<byte>> ELSE Append(tx.payload, byte)

\* One clock: offer is the byte the kernel presents, remote the receiver's
\* registers and ready that of the line.  The endpoint is latched with the
\* first byte of a reply, but the frame's first byte is taken from remote
\* when the reply is complete.
TransmitterClock(offer, remote, ready) ==
    LET frame == FrameFor(tx.tx_remote, tx.payload)
    IN CASE tx.state \in {"IDLE", "RECV"} /\ offer.tvalid /\ s_payload_tready ->
              tx' = [state |-> IF offer.tlast THEN "SEND" ELSE "RECV",
                     payload |-> Payload(offer.tdata), send_index |-> 0,
                     tx_remote |-> IF tx.state = "IDLE" THEN remote ELSE tx.tx_remote,
                     tvalid |-> offer.tlast,
                     tdata |-> IF offer.tlast THEN <<"mac0", remote>> ELSE tx.tdata]
         [] tx.state = "SEND" /\ tx.tvalid /\ ready ->
              tx' = IF tx.send_index = Len(frame) - 1
                    THEN [tx EXCEPT !.state = "IDLE", !.tvalid = FALSE]
                    ELSE [tx EXCEPT !.send_index = @ + 1, !.tdata = frame[tx.send_index + 2]]
         [] OTHER -> UNCHANGED tx

=============================================================================
