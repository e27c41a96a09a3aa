---------------------------- MODULE MCUdpBridge ----------------------------
(***************************************************************************)
(* An instance of UdpBridge with two hosts that send the shortest frames.  *)
(***************************************************************************)
EXTENDS UdpBridge

\* One sends a byte, the other an empty datagram.
MCTwoHosts == {[src |-> 1, accepted |-> TRUE, length |-> 1, present |-> 1],
               [src |-> 2, accepted |-> TRUE, length |-> 0, present |-> 0]}

=============================================================================
