-------------------------------- MODULE Link --------------------------------
(***************************************************************************)
(* The wire between the host and the FPGA kernel, as both sides see it:    *)
(* two streams of protocol frames carried by UDP datagrams.                *)
(*                                                                         *)
(* UdpTransport::send puts one call's bytes into one datagram (the frames  *)
(* modelled here fit in max_payload), so the frames sent by one call are   *)
(* lost or duplicated together.  The kernel raises TLAST at the end of     *)
(* every frame, which makes one datagram per frame on the way back.        *)
(* A frame longer than the transmitter's buffer never leaves the board     *)
(* (module UdpTransmitter), so the kernel sends none here: GraceStall of   *)
(* module HashJoinKernel stands for the attempt.                           *)
(* Datagrams between two directly attached hosts are not reordered.  The   *)
(* MaxDrops and MaxDups bounds limit the faults of one behaviour.          *)
(* This is not the link of a UART, on which bytes of two frames that are   *)
(* under way at once overwrite each other (module UartBridge).             *)
(***************************************************************************)
EXTENDS Integers, Sequences, FiniteSets, SequencesExt

CONSTANTS
    RX_BUF_TUPLES,       \* rows in the longest frame to the kernel
    RX_CREDIT_TUPLES,    \* the credit an idle kernel advertises
    ACK_BATCH_FRAMES,    \* data frames the kernel answers with one ACK
    MaxDrops, MaxDups    \* bounds on the faults of one behaviour

ASSUME LinkAssumption ==
    /\ {RX_BUF_TUPLES, RX_CREDIT_TUPLES, ACK_BATCH_FRAMES} \subseteq Nat \ {0}
    /\ {MaxDrops, MaxDups} \subseteq Nat

VARIABLES
    h2k,      \* frames on their way to the kernel or waiting in its rx stream
    k2h,      \* frames on their way to the host or waiting in its socket
    drops,    \* datagrams lost so far
    dups      \* datagrams delivered twice so far

link == <<h2k, k2h, drops, dups>>

LinkInit == h2k = <<>> /\ k2h = <<>> /\ drops = 0 /\ dups = 0

(***************************************************************************)
(* Frames.  Every frame has a 3-byte header [msg_type][count:u16]; rows    *)
(* are records [key, tid] and pairs records [inner_tid, outer_tid].        *)
(* Session number 0 tags frames that belong to no session.                 *)
(***************************************************************************)
ConfigureFrame(algorithm, inner_count, outer_count, session_id) ==
    [type |-> "CONFIGURE", algorithm |-> algorithm, inner_count |-> inner_count,
     outer_count |-> outer_count, session_id |-> session_id]
DataFrame(type, rows) == [type |-> type, rows |-> rows]
ResetFrame == [type |-> "RESET"]

StatusFrame(type, phase, processed, matched, credit, session_id) ==
    [type |-> type, phase |-> phase, rows_processed |-> processed,
     rows_matched |-> matched, credit |-> credit, session_id |-> session_id]
ResultFrame(pairs) == [type |-> "RESULT", pairs |-> pairs]
ErrorFrame(err) == [type |-> "ERROR", err |-> err]

-----------------------------------------------------------------------------
\* A queue after the datagrams have been put on the wire, the i-th one
\* arriving copies[i] times.
Transmit(queue, datagrams, copies) ==
    queue \o FlattenSeq([i \in DOMAIN datagrams |->
                 FlattenSeq([c \in 1..copies[i] |-> datagrams[i]])])

\* The faults that a choice of copies spends.
Faults(copies) ==
    /\ drops' = drops + Cardinality({i \in DOMAIN copies : copies[i] = 0})
    /\ dups' = dups + Cardinality({i \in DOMAIN copies : copies[i] = 2})
    /\ drops' <= MaxDrops /\ dups' <= MaxDups

\* How often a datagram may still arrive.
Copies == {1} \cup {n \in {0} : drops < MaxDrops} \cup {n \in {2} : dups < MaxDups}

\* One call of ITransport::send.
HostSends(datagram) ==
    \E n \in Copies : /\ Faults(<<n>>)
                    /\ h2k' = Transmit(h2k, <<datagram>>, <<n>>)

\* The frames one step of the kernel writes to tx; each fits in a datagram.
KernelSends(frames) ==
    \E copies \in [DOMAIN frames -> Copies] :
        /\ Faults(copies)
        /\ k2h' = Transmit(k2h, [i \in DOMAIN frames |-> <<frames[i]>>], copies)

=============================================================================
