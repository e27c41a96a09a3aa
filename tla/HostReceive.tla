----------------------------- MODULE HostReceive -----------------------------
(***************************************************************************)
(* How frames of the board become messages of the client: datagrams in     *)
(* UdpTransport's socket, the packet it hands out in pieces, and           *)
(* ResultDecoder, which takes a frame apart with several calls of recv()   *)
(* (src/host/src/udp_transport.cpp, result_decoder.cpp), called from       *)
(* collect_until_ack.  The board may be reached through udp_proxy.         *)
(*                                                                         *)
(* Byte i of the board's n-th frame is <<n, i>>: 0 is the type, 1 and 2    *)
(* are the count and the rest is the payload.  A byte of anyone else is    *)
(* <<0, 1>> and may have any value; a zero that rx_packet.resize() put     *)
(* there is <<0, 0>>.                                                      *)
(***************************************************************************)
EXTENDS Integers, Sequences, UdpProxy

CONSTANTS
    Kinds,              \* frames of the board: [ack, payload]
    RX_PACKET_SIZE,     \* what rx_packet is resized to before recvfrom: 65536
    MaxFrames,          \* bound on the frames of one behaviour
    MaxStrays           \* bound on datagrams of others and interrupted calls

ASSUME ReceiveAssumption ==
    /\ {RX_PACKET_SIZE, MaxFrames, MaxStrays} \subseteq Nat
    /\ Kinds \subseteq [ack : BOOLEAN, payload : Nat]

VARIABLES
    remote_addr,    \* whom the host talks to: "board" or "proxy"
    frames,         \* history: the kinds of the frames the board has sent
    strays,         \* datagrams of others and interrupted calls so far
    sock,           \* the socket's receive buffer
    rx_packet,      \* what is left of the packet being handed out
    dec,            \* the place in recv_frame, what it has read and taken it for
    late,           \* hard_timeout_ms have passed since the wait began
    decoded,        \* history: the numbers of the frames decoded, 0 for what is none
    struck          \* history: the decoder got bytes the peer has not sent

transport == <<remote_addr, sock, rx_packet>>

history == <<decoded, struck>>

vars == <<proxy, transport, frames, strays, dec, late, history>>

\* recv_frame has not read a header.
NoKind == [ack |-> FALSE, payload |-> 0]

Init ==
    /\ ProxyInit
    /\ remote_addr \in {"board", "proxy"}
    /\ frames = <<>> /\ strays = 0 /\ sock = <<>> /\ rx_packet = <<>>
    /\ dec = [pc |-> "drain", read |-> <<>>, kind |-> NoKind] /\ late = FALSE
    /\ decoded = <<>> /\ struck = FALSE

-----------------------------------------------------------------------------
(***************************************************************************)
(* The network.                                                            *)
(***************************************************************************)
FrameBytes(n, kind) == [i \in 1..(3 + kind.payload) |-> <<n, i - 1>>]

\* The board sends a frame, which is a datagram; it may be lost or doubled.
BoardSends ==
    /\ Len(frames) < MaxFrames
    /\ \E kind \in Kinds, copies \in 0..2 :
          LET bytes == FrameBytes(Len(frames) + 1, kind)
          IN /\ frames' = Append(frames, kind)
             /\ IF remote_addr = "board"
                THEN /\ sock' = sock \o [c \in 1..copies |-> [src |-> "board", bytes |-> bytes]]
                     /\ UNCHANGED fpga_sock
                ELSE /\ fpga_sock' = fpga_sock \o [c \in 1..copies |-> bytes]
                     /\ UNCHANGED sock
    /\ UNCHANGED <<client_sock, last_client, remote_addr, rx_packet, strays, dec, late, history>>

\* A datagram of someone else reaches the host's port.
StrayArrives ==
    /\ strays < MaxStrays
    /\ strays' = strays + 1
    /\ sock' = Append(sock, [src |-> "other", bytes |-> <<<<0, 1>>>>])
    /\ UNCHANGED <<proxy, remote_addr, rx_packet, frames, dec, late, history>>

\* The host, or another client of the proxy, sends something.
ClientSends ==
    /\ remote_addr = "proxy" /\ client_sock = <<>>
    /\ \E c \in {"host", "another"} : /\ c # last_client
                                      /\ client_sock' = <<c>>
    /\ UNCHANGED <<fpga_sock, last_client, transport, frames, strays, dec, late, history>>

ProxyForwards ==
    \/ RelayToBoard /\ UNCHANGED transport
    \/ /\ TakesFromBoard
       /\ sock' = IF last_client = "host"
                  THEN Append(sock, [src |-> "proxy", bytes |-> Head(fpga_sock)])
                  ELSE sock
       /\ UNCHANGED <<remote_addr, rx_packet>>

ProxyMoves == ProxyForwards /\ UNCHANGED <<frames, strays, dec, late, history>>

-----------------------------------------------------------------------------
(***************************************************************************)
(* UdpTransport::recv.                                                     *)
(***************************************************************************)
InRecv == dec.pc \in {"drain", "type", "count", "payload"}

same_ipv4_endpoint(src) == src = remote_addr

Fill == <<0, 0>>

\* rx_packet as recvfrom leaves it, before it is cut to the length received.
Padded(bytes) ==
    [i \in 1..RX_PACKET_SIZE |-> IF i <= Len(bytes) THEN bytes[i] ELSE Fill]

\* recvfrom brings a packet of the peer.
TakePacket ==
    /\ InRecv /\ rx_packet = <<>> /\ sock # <<>>
    /\ same_ipv4_endpoint(Head(sock).src)
    /\ sock' = Tail(sock) /\ rx_packet' = Head(sock).bytes
    /\ UNCHANGED <<proxy, remote_addr, frames, strays, dec, late, history>>

\* After a packet of another endpoint, and after an interrupted recvfrom,
\* continue leads to the loop's condition, which finds the resized rx_packet
\* unread: its bytes are handed out, up to the last of the fill.
TakeUnchecked ==
    /\ InRecv /\ rx_packet = <<>> /\ sock # <<>>
    /\ \/ /\ ~same_ipv4_endpoint(Head(sock).src)
          /\ sock' = Tail(sock) /\ rx_packet' = Padded(Head(sock).bytes)
          /\ UNCHANGED strays
       \/ /\ strays < MaxStrays /\ strays' = strays + 1
          /\ rx_packet' = Padded(<<>>)
          /\ UNCHANGED sock
    /\ struck' = (struck \/ dec.pc # "drain")
    /\ UNCHANGED <<proxy, remote_addr, frames, dec, late, decoded>>

\* What recv copies for a caller that asks for max_len bytes.
Copied(max_len) ==
    SubSeq(rx_packet, 1, IF max_len < Len(rx_packet) THEN max_len ELSE Len(rx_packet))

\* Defect: what recv's caller did not ask for is forgotten.
RestForgotten(max_len) == <<>>

\* What it leaves of the packet.
RestOfPacket(max_len) == SubSeq(rx_packet, max_len + 1, Len(rx_packet))

\* recv returns some of the bytes asked for.
Receives(max_len) ==
    /\ rx_packet # <<>>
    /\ rx_packet' = RestOfPacket(max_len)
    /\ UNCHANGED <<proxy, remote_addr, sock, frames, strays, struck>>

\* recv returns 0: nothing came for recv_timeout_ms.
TimesOut ==
    /\ rx_packet = <<>> /\ sock = <<>>
    /\ UNCHANGED <<proxy, transport, frames, strays, struck>>

-----------------------------------------------------------------------------
(***************************************************************************)
(* drain_until_quiet(1), ResultDecoder::recv_frame and collect_until_ack.  *)
(***************************************************************************)
\* A call of recv_frame ends.
Ends(pc) == dec' = [pc |-> pc, read |-> <<>>, kind |-> NoKind]

Drain ==
    /\ dec.pc = "drain"
    /\ \/ Receives(Len(rx_packet)) /\ UNCHANGED dec
       \/ TimesOut /\ Ends("check")
    /\ UNCHANGED <<late, decoded>>

\* Defect: the time is not looked at.
CheckNothing ==
    /\ dec.pc = "check"
    /\ Ends("type")
    /\ UNCHANGED <<proxy, transport, frames, strays, late, history>>

\* The top of collect_until_ack's loop.
Check ==
    /\ dec.pc = "check"
    /\ Ends(IF late THEN "timeout" ELSE "type")
    /\ UNCHANGED <<proxy, transport, frames, strays, late, history>>

RecvType ==
    /\ dec.pc = "type"
    /\ \/ Receives(1) /\ dec' = [dec EXCEPT !.pc = "count", !.read = Copied(1)]
       \/ TimesOut /\ Ends("check")
    /\ UNCHANGED <<late, decoded>>

\* What was read is the beginning of a frame of the board.
Aligned(read) ==
    read[1][1] \in DOMAIN frames /\ \A i \in DOMAIN read : read[i] = <<read[1][1], i - 1>>

\* What recv_frame may take a header for: the first bytes of a frame are those
\* of its kind, type 0 is none, and other bytes may spell anything.
Spelled(header) ==
    IF Aligned(header) THEN {frames[header[1][1]]}
    ELSE IF header[1] = Fill THEN {} ELSE Kinds

\* The payload is read, if there is any; then an ACK is returned, and after
\* any other frame collect_until_ack's loop goes on.
Proceed(read, kind) ==
    IF Len(read) = 3 + kind.payload
    THEN /\ Ends(IF kind.ack THEN "returned" ELSE "check")
         /\ decoded' = Append(decoded, IF Aligned(read) THEN read[1][1] ELSE 0)
    ELSE dec' = [pc |-> "payload", read |-> read, kind |-> kind] /\ UNCHANGED decoded

\* An exception leaves recv_frame.
Throws == Ends("threw") /\ UNCHANGED decoded

\* recv_exact of the count: as many calls of recv as it takes, and one without
\* data ends it.  An unknown type or a bad count is thrown at.
RecvCount ==
    /\ dec.pc = "count"
    /\ LET missing == 3 - Len(dec.read)
           read == dec.read \o Copied(missing)
       IN \/ /\ Receives(missing)
             /\ \/ Len(read) < 3 /\ dec' = [dec EXCEPT !.read = read] /\ UNCHANGED decoded
                \/ Len(read) = 3 /\ \E kind \in Spelled(read) : Proceed(read, kind)
                \/ Len(read) = 3 /\ ~Aligned(read) /\ Throws
          \/ TimesOut /\ Throws
    /\ UNCHANGED late

\* recv_exact of the payload.
RecvPayload ==
    /\ dec.pc = "payload"
    /\ LET missing == 3 + dec.kind.payload - Len(dec.read)
       IN \/ Receives(missing) /\ Proceed(dec.read \o Copied(missing), dec.kind)
          \/ TimesOut /\ Throws
    /\ UNCHANGED late

\* The wait's time is over.
TimePasses ==
    /\ ~late /\ dec.pc \in {"check", "type", "count", "payload"}
    /\ late' = TRUE
    /\ UNCHANGED <<proxy, transport, frames, strays, dec, history>>

\* The caller waits for the next ACK, or opens a session anew, for which the
\* socket is emptied (UdpTransport::reset, drain_until_quiet).
NextWait ==
    /\ dec.pc \in {"returned", "timeout", "threw"}
    /\ late' = FALSE
    /\ \/ /\ dec.pc = "returned" /\ Ends("check") /\ UNCHANGED <<transport, history>>
       \/ /\ Ends("drain") /\ sock' = <<>> /\ rx_packet' = <<>> /\ UNCHANGED remote_addr
          /\ struck' = FALSE /\ decoded' = IF struck THEN <<>> ELSE decoded
    /\ UNCHANGED <<proxy, frames, strays>>

HostMoves ==
    TakePacket \/ TakeUnchecked \/ Drain \/ Check \/ RecvType \/ RecvCount \/ RecvPayload

Next == BoardSends \/ StrayArrives \/ ClientSends \/ ProxyMoves
        \/ HostMoves \/ TimePasses \/ NextWait

Spec == Init /\ [][Next]_vars /\ WF_vars(HostMoves) /\ WF_vars(TimePasses)

-----------------------------------------------------------------------------
\* The decoder does not lose its place by itself: unless it has been handed
\* bytes the peer has not sent, each frame it reports is one the board sent, in
\* the order it sent them (a doubled datagram is reported twice), and it never
\* throws for a frame cut short, an unknown type or a bad count, whatever is
\* lost, doubled, relayed or drained.  Such bytes harm no later session.
DecoderInStep ==
    ~struck => /\ dec.pc # "threw"
               /\ \A i \in DOMAIN decoded :
                     decoded[i] # 0 /\ \A j \in 1..i : decoded[j] <= decoded[i]

\* What ClientConfig says of hard_timeout_ms (fpga_client.hpp line 32): "throw
\* FpgaTimeoutException after this time".  A wait ends with what is taken for an
\* ACK, with the timeout or with another exception, and so does a drain.
WaitsEnd == dec.pc \in {"check", "drain"} ~> dec.pc \in {"returned", "timeout", "threw"}

\* What the log says of a stranger's datagram (udp_transport.cpp line 223): "drop
\* UDP datagram from unexpected endpoint".  It does not disturb the decoder.
StraysDropped == dec.pc # "threw"

=============================================================================
