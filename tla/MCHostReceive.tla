--------------------------- MODULE MCHostReceive ---------------------------
(***************************************************************************)
(* An instance of HostReceive.                                             *)
(***************************************************************************)
EXTENDS HostReceive

\* An ACK and a RESULT frame, of different lengths.
MCKinds == {[ack |-> TRUE, payload |-> 1], [ack |-> FALSE, payload |-> 2]}

=============================================================================
