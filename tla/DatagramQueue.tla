--------------------------- MODULE DatagramQueue ---------------------------
(***************************************************************************)
(* What the kernel may rely on at the end of the UDP receiver: a queue of  *)
(* datagrams.  One that arrives is queued as a whole, behind the others,   *)
(* or not at all, and the kernel takes the bytes in order.                 *)
(***************************************************************************)
EXTENDS Sequences, TLC

VARIABLES
    payload,    \* the payload of the frame on the wire
    queue       \* what is left of each datagram that waits for the kernel

vars == <<payload, queue>>

Init == queue = <<>>

\* The queue after the kernel has taken a byte.
Taken(q) == IF Len(Head(q)) = 1 THEN Tail(q) ELSE <<Tail(Head(q))>> \o Tail(q)

\* Both ends may move in one clock.
Next ==
    \E takes, arrives \in BOOLEAN :
        /\ takes => queue # <<>>
        /\ arrives => payload # <<>>
        /\ LET rest == IF takes THEN Taken(queue) ELSE queue
           IN queue' = IF arrives THEN Append(rest, payload) ELSE rest

Spec == Init /\ [][Next]_vars

=============================================================================
