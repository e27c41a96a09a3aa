---------------------------- MODULE GraceLayout ----------------------------
(***************************************************************************)
(* The DDR2 layout of algorithm B (hash_join_types.hpp lines 15-37): an    *)
(* inner area of GRACE_MAX_K slots of HT_MAX_ROWS rows each, and behind it *)
(* an outer area of K slots, twice as large as the average partition.      *)
(* The kernel computes the slot size in uint32_t, the adapter in uint64_t. *)
(***************************************************************************)
EXTENDS Integers

CONSTANTS
    HT_MAX_ROWS,              \* rows the BRAM table takes
    GRACE_MAX_K,              \* partitions there is room for
    GRACE_DDR2_TOTAL_WORDS,   \* size of the memory
    UINT32_RANGE              \* 2^32

GRACE_WORDS_PER_TUPLE == 2
GRACE_INNER_SLOT_WORDS == HT_MAX_ROWS * GRACE_WORDS_PER_TUPLE
GRACE_OUTER_AREA_BASE == GRACE_MAX_K * GRACE_INNER_SLOT_WORDS
GRACE_MAX_INNER_ROWS == GRACE_MAX_K * HT_MAX_ROWS

\* K, the number of partitions of an inner side.
PartitionCount(inner_total) ==
    LET k == (inner_total + HT_MAX_ROWS - 1) \div HT_MAX_ROWS
    IN IF k = 0 THEN 1 ELSE k

\* The size of an outer slot, before it is stored in a variable.
SlotWords(outer_total, K) == ((outer_total \div K) + 1) * GRACE_WORDS_PER_TUPLE * 2

\* outer_slot_w as the kernel computes it.
outer_slot_w(outer_total, K) == SlotWords(outer_total, K) % UINT32_RANGE

\* Defect: the size of the outer area is not checked.
InnerFitsOnly(inner_total, outer_total) == inner_total <= GRACE_MAX_INNER_ROWS

\* The kernel's test of a CONFIGURE for algorithm B.
KernelAccepts(inner_total, outer_total) ==
    /\ inner_total <= GRACE_MAX_INNER_ROWS
    /\ LET K == PartitionCount(inner_total)
       IN GRACE_OUTER_AREA_BASE + K * outer_slot_w(outer_total, K)
              <= GRACE_DDR2_TOTAL_WORDS

\* The adapter's test of the same sizes.
grace_ddr_layout_fits(inner_count, outer_count) ==
    /\ inner_count <= GRACE_MAX_INNER_ROWS
    /\ LET k == PartitionCount(inner_count)
       IN /\ k <= GRACE_MAX_K
          /\ GRACE_OUTER_AREA_BASE + k * SlotWords(outer_count, k)
                 <= GRACE_DDR2_TOTAL_WORDS

\* Defect: the slots are one word apart for every row.
InnerAddressOneWord(p, i) == p * HT_MAX_ROWS + i * GRACE_WORDS_PER_TUPLE

\* Where row i of inner partition p and row j of outer partition p are
\* written: the first of their two words.
InnerAddress(p, i) == p * GRACE_INNER_SLOT_WORDS + i * GRACE_WORDS_PER_TUPLE
OuterAddress(p, j, outer_slot_words) ==
    GRACE_OUTER_AREA_BASE + p * outer_slot_words + j * GRACE_WORDS_PER_TUPLE

=============================================================================
