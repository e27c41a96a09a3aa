--------------------------- MODULE MCGraceMemory ---------------------------
(***************************************************************************)
(* Two partitions of two inner rows in a memory of 16 words, with a        *)
(* uint32_t of 4 bits, so that some outer_total make the slot size wrap.   *)
(***************************************************************************)
EXTENDS GraceMemory

MCTotals == {0, 1, 3, 5, 7, 9}
MCRows == {[key |-> -1, tid |-> [blkno |-> 1, offno |-> 0]],
           [key |-> 1, tid |-> [blkno |-> 0, offno |-> 3]]}

=============================================================================
