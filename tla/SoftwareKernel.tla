--------------------------- MODULE SoftwareKernel ---------------------------
(***************************************************************************)
(* SoftwareKernel (src/host/demo/software_kernel.hpp): the in-process      *)
(* stand-in for the board that fpga_adapter_run uses when fpga.simulation  *)
(* is on.  It is an ITransport: send() handles a frame before it returns   *)
(* and queues the answers that recv() hands out.                           *)
(***************************************************************************)
EXTENDS Link

VARIABLE sim    \* the object's members

\* A freshly constructed object.
NewSim == [ht |-> <<>>, matched |-> 0, processed |-> 0, outer_total |-> 0,
           session_id |-> 0]

push_ack(phase, granted, s) ==
    StatusFrame("ACK", phase, s.processed, s.matched, granted, s.session_id)

\* ht_ as the sequence of its insertions, of which the last of a key counts.
SimFinds(key) == \E i \in DOMAIN sim.ht : sim.ht[i].key = key
SimTid(key) == sim.ht[Max({i \in DOMAIN sim.ht : sim.ht[i].key = key})].tid

on_configure(frame) ==
    /\ sim' = [NewSim EXCEPT !.outer_total = frame.outer_count,
                             !.session_id = frame.session_id]
    /\ k2h' = Append(k2h, push_ack("BUILDING", RX_CREDIT_TUPLES, sim'))

\* The ACK of inner rows counts no rows.
on_inner(frame) ==
    /\ sim' = [sim EXCEPT !.ht = @ \o frame.rows]
    /\ k2h' = Append(k2h, StatusFrame("ACK", "BUILDING", 0, 0, RX_CREDIT_TUPLES,
                                      sim.session_id))

on_outer(frame) ==
    LET hits == SelectSeq(frame.rows, LAMBDA r : SimFinds(r.key))
        matches == [n \in DOMAIN hits |-> [inner_tid |-> SimTid(hits[n].key),
                                           outer_tid |-> hits[n].tid]]
        granted == IF sim'.processed >= sim.outer_total THEN 0 ELSE RX_CREDIT_TUPLES
    IN /\ sim' = [sim EXCEPT !.matched = @ + Len(hits),
                             !.processed = @ + Len(frame.rows)]
       /\ k2h' = k2h \o (IF hits = <<>> THEN <<>> ELSE <<ResultFrame(matches)>>)
                     \o <<push_ack("PROBING", granted, sim')>>

\* The answers not yet received are dropped.
on_reset ==
    /\ sim' = NewSim
    /\ k2h' = <<push_ack("IDLE", 0, NewSim)>>

\* send(): the switch over the frame's type.
SoftwareKernelSend ==
    /\ h2k # <<>>
    /\ LET frame == Head(h2k)
       IN CASE frame.type = "CONFIGURE" -> on_configure(frame)
            [] frame.type = "INNER_DATA" -> on_inner(frame)
            [] frame.type = "OUTER_DATA" -> on_outer(frame)
            [] frame.type = "RESET" -> on_reset
    /\ h2k' = Tail(h2k)
    /\ UNCHANGED <<drops, dups>>

=============================================================================
