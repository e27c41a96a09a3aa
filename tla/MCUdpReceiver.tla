--------------------------- MODULE MCUdpReceiver ---------------------------
(***************************************************************************)
(* An instance of UdpReceiver with buffers of two bytes.                   *)
(***************************************************************************)
EXTENDS UdpReceiver

Datagram(src, length, present) ==
    [src |-> src, accepted |-> TRUE, length |-> length, present |-> present]

\* Whole datagrams of one byte (with padding) and of two, one that is cut
\* off, one that is too long, one without payload and one for someone else.
MCFrames ==
    {Datagram(1, 1, 2), Datagram(1, 2, 2), Datagram(1, 2, 1), Datagram(1, 3, 3),
     Datagram(2, 0, 0), [Datagram(2, 1, 1) EXCEPT !.accepted = FALSE]}

=============================================================================
