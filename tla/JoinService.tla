---------------------------- MODULE JoinService ----------------------------
(***************************************************************************)
(* What the caller of the offload path may rely on (fpga_executor.c hands  *)
(* the drained inner and outer rows to fpga_adapter_run): every request    *)
(* ends with the exact join of its own rows or with an error, never with   *)
(* another result, and an outcome stands until the next request.           *)
(***************************************************************************)
EXTENDS EquiJoin

CONSTANT Inputs     \* requests: records [inner, outer] of row sequences

VARIABLES
    request,        \* the last request
    outcome,        \* "none", "pending", "returned" or "failed"
    answer          \* the pairs of a returned request

vars == <<request, outcome, answer>>

Init == outcome = "none" /\ answer = <<>> /\ request \in Inputs

Request ==
    /\ outcome # "pending"
    /\ request' \in Inputs
    /\ outcome' = "pending" /\ answer' = <<>>

Return ==
    /\ outcome = "pending"
    /\ outcome' = "returned"
    /\ IsJoinOf(answer', request.inner, request.outer)
    /\ UNCHANGED request

Fail ==
    /\ outcome = "pending"
    /\ outcome' = "failed"
    /\ UNCHANGED <<request, answer>>

Next == Request \/ Return \/ Fail

Spec == Init /\ [][Next]_vars

=============================================================================
