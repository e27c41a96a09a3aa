---------------------------- MODULE GraceEngine ----------------------------
(***************************************************************************)
(* GraceHashEngine (src/src/hash_join_grace.hpp), algorithm B, as          *)
(* operators: the rows of a frame are spread over partitions in DDR2, and  *)
(* later each inner partition is loaded into the BRAM table and probed     *)
(* with its outer partition.  The partitions are sequences of rows; module *)
(* GraceMemory shows that the words behind them implement such sequences.  *)
(***************************************************************************)
EXTENDS Link, LinearProbing

CONSTANTS
    GRACE_MAX_K, GRACE_DDR2_TOTAL_WORDS, UINT32_RANGE,
    part_hash,      \* the hash of partition_of, before it is reduced
    TX_BUF_SIZE,    \* pairs in a full RESULT frame of a partition: 256 in the code
    MAX_TX_PAIRS    \* pairs in the longest RESULT that is sent: 122, in 1472 bytes

ASSUME GraceAssumption ==
    /\ {GRACE_MAX_K, GRACE_DDR2_TOTAL_WORDS, UINT32_RANGE, TX_BUF_SIZE,
        MAX_TX_PAIRS} \subseteq Nat \ {0}
    /\ part_hash \in [Keys -> Nat]
    /\ GRACE_DDR2_TOTAL_WORDS < UINT32_RANGE

INSTANCE GraceLayout

partition_of(key, K) == part_hash[key] % K

Partitions == 0..(GRACE_MAX_K - 1)

\* All counters at zero.
reset_counts == [inner |-> [p \in Partitions |-> <<>>],
                 outer |-> [p \in Partitions |-> <<>>]]

\* The rows of a sequence that belong to partition p.
RowsIn(rows, p, K) ==
    LET rowsIn[n \in 0..Len(rows)] ==
            IF n = 0 THEN <<>>
            ELSE IF partition_of(rows[n].key, K) = p THEN Append(rowsIn[n - 1], rows[n])
            ELSE rowsIn[n - 1]
    IN rowsIn[Len(rows)]

\* How many rows of a frame find room in their slots: all rows before the
\* first whose partition is full when its turn comes.
RowsWithRoom(parts, rows, K, max_per_slot) ==
    LET hasRoom(n) == \A p \in Partitions :
                          Len(parts[p]) + Len(RowsIn(SubSeq(rows, 1, n), p, K))
                              <= max_per_slot
    IN Max({n \in 0..Len(rows) : n = 0 \/ hasRoom(n)})

\* The partitions after the first n rows of a frame have been written.
PutRows(parts, rows, n, K) ==
    [p \in Partitions |-> parts[p] \o RowsIn(SubSeq(rows, 1, n), p, K)]

\* join_probe_loop: the pairs of an outer partition.
ProbePartition(t, rows) ==
    LET pairs[n \in 0..Len(rows)] ==
            IF n = 0 THEN <<>>
            ELSE IF Found(t, rows[n].key)
            THEN Append(pairs[n - 1], [inner_tid |-> FoundTid(t, rows[n].key),
                                       outer_tid |-> rows[n].tid])
            ELSE pairs[n - 1]
    IN pairs[Len(rows)]

\* The RESULT frames of a partition: full ones, then what is left.
ResultFrames(pairs) ==
    [f \in 1..((Len(pairs) + TX_BUF_SIZE - 1) \div TX_BUF_SIZE) |->
        ResultFrame(SubSeq(pairs, (f - 1) * TX_BUF_SIZE + 1,
                           Min({f * TX_BUF_SIZE, Len(pairs)})))]

\* The first RESULT frame of the partition, the longest, does not fit in the
\* buffer of udp_ipv4_tx, which waits for the frame's end and takes no more.
TooLong(pairs) == Min({TX_BUF_SIZE, Len(pairs)}) > MAX_TX_PAIRS

\* The matches of every partition can be sent, whatever the table does.
MatchesSendable(inner, outer, K) ==
    LET matching == SelectSeq(outer, LAMBDA row : \E i \in DOMAIN inner :
                                                      inner[i].key = row.key)
    IN \A p \in 0..(K - 1) : ~TooLong(RowsIn(matching, p, K))

=============================================================================
