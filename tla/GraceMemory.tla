---------------------------- MODULE GraceMemory ----------------------------
(***************************************************************************)
(* The DDR2 words behind algorithm B's partitions                          *)
(* (hash_join_grace.hpp): rows packed into two words each, at addresses    *)
(* computed from the slot sizes, which a CONFIGURE chooses.  The memory is *)
(* never cleared: only the counters tell the rows of this session from     *)
(* those of earlier ones.  A row may come for any partition, whatever the  *)
(* hash, and in any order; HashJoinKernel has the protocol around this.    *)
(***************************************************************************)
EXTENDS GraceLayout, Sequences

CONSTANTS
    Totals,         \* the row counts a CONFIGURE may announce
    Rows,           \* the rows that may arrive
    OFFNO_RANGE     \* 2^16

Row == [key : Int, tid : [blkno : Nat, offno : 0..(OFFNO_RANGE - 1)]]

ASSUME MemoryAssumption ==
    /\ HT_MAX_ROWS \in Nat \ {0}
    /\ GRACE_MAX_K \in Nat \ {0}
    /\ GRACE_DDR2_TOTAL_WORDS \in Nat
    /\ UINT32_RANGE \in Nat \ {0}
    /\ OFFNO_RANGE \in Nat \ {0}
    /\ Totals \subseteq Nat
    /\ Rows \subseteq Row

VARIABLES
    ddr2_buf,                      \* the words
    inner_counts, outer_counts,    \* rows in each slot
    K, slot_words                  \* the partitions of the session, their outer slots

vars == <<ddr2_buf, inner_counts, outer_counts, K, slot_words>>

Words == 0..(GRACE_DDR2_TOTAL_WORDS - 1)
Partitions == 0..(GRACE_MAX_K - 1)
NoCounts == [p \in Partitions |-> 0]

\* 16 bits for offno and 16 more below it; the casts to int64_t and back
\* leave the bits alone.
packed(tid) == tid.blkno * (OFFNO_RANGE * OFFNO_RANGE) + tid.offno * OFFNO_RANGE

pack_tuple(buf, w, row) == [buf EXCEPT ![w] = row.key, ![w + 1] = packed(row.tid)]

unpack_tuple(buf, w) ==
    [key |-> buf[w],
     tid |-> [blkno |-> buf[w + 1] \div (OFFNO_RANGE * OFFNO_RANGE),
              offno |-> (buf[w + 1] \div OFFNO_RANGE) % OFFNO_RANGE]]

\* The memory at power-up; no session has announced its sizes.
Init == /\ ddr2_buf = [w \in Words |-> 0]
        /\ inner_counts = NoCounts
        /\ outer_counts = NoCounts
        /\ K = 0
        /\ slot_words = 0

\* A CONFIGURE that the kernel takes, and the reset of the counters.
StartSession(inner_total, outer_total) ==
    /\ KernelAccepts(inner_total, outer_total)
    /\ K' = PartitionCount(inner_total)
    /\ slot_words' = outer_slot_w(outer_total, PartitionCount(inner_total))
    /\ inner_counts' = NoCounts
    /\ outer_counts' = NoCounts
    /\ UNCHANGED ddr2_buf

\* A row of an INNER_DATA frame.
StoreInner(p, row) ==
    /\ p < K
    /\ inner_counts[p] < HT_MAX_ROWS
    /\ ddr2_buf' = pack_tuple(ddr2_buf, InnerAddress(p, inner_counts[p]), row)
    /\ inner_counts' = [inner_counts EXCEPT ![p] = @ + 1]
    /\ UNCHANGED <<outer_counts, K, slot_words>>

\* A row of an OUTER_DATA frame.
StoreOuter(p, row) ==
    /\ p < K
    /\ outer_counts[p] < slot_words \div GRACE_WORDS_PER_TUPLE
    /\ ddr2_buf' = pack_tuple(ddr2_buf, OuterAddress(p, outer_counts[p], slot_words), row)
    /\ outer_counts' = [outer_counts EXCEPT ![p] = @ + 1]
    /\ UNCHANGED <<inner_counts, K, slot_words>>

Next == \/ \E i, o \in Totals : StartSession(i, o)
        \/ \E p \in Partitions, row \in Rows : StoreInner(p, row) \/ StoreOuter(p, row)

Spec == Init /\ [][Next]_vars

-----------------------------------------------------------------------------
\* What join_all_partitions reads back of a partition.
InnerRows == [p \in Partitions |->
                 [i \in 1..inner_counts[p] |-> unpack_tuple(ddr2_buf, InnerAddress(p, i - 1))]]
OuterRows == [p \in Partitions |->
                 [j \in 1..outer_counts[p] |->
                     unpack_tuple(ddr2_buf, OuterAddress(p, j - 1, slot_words))]]

\* The session's slots fill no more than the memory, also when outer_slot_w
\* was reduced by the width of uint32_t, and every stored row lies inside
\* its own slot: no index of hash_join_grace.hpp lines 118 and 191 leaves
\* ddr2_buf.
RowsInMemory ==
    \A p \in Partitions :
        /\ inner_counts[p] > 0 =>
               /\ p < K
               /\ InnerAddress(p, inner_counts[p] - 1) + 1 < GRACE_OUTER_AREA_BASE
        /\ outer_counts[p] > 0 =>
               OuterAddress(p, outer_counts[p] - 1, slot_words) + 1
                   < GRACE_DDR2_TOTAL_WORDS

Abstract == INSTANCE GracePartitions WITH inner <- InnerRows, outer <- OuterRows

\* The addresses of hash_join_grace.hpp implement independent sequences of
\* rows: what join_all_partitions reads of a partition is what was put into
\* it in this session, in order and unpacked to the same key and TID, and
\* storing a row changes no other.
ImplementsPartitions == Abstract!Spec

=============================================================================
