------------------------------ MODULE EquiJoin ------------------------------
(***************************************************************************)
(* The reference definition of the join the program computes: no table, no *)
(* batches, no order of the work.                                          *)
(***************************************************************************)
EXTENDS Integers, SequencesExt

\* The pairs (inner row, outer row) with equal keys, in the order of the
\* outer rows.  The first inner row of a key stands for it.
JoinOf(inner, outer) ==
    LET rowsOf(k) == {i \in DOMAIN inner : inner[i].key = k}
        firstOf(k) == CHOOSE i \in rowsOf(k) : \A j \in rowsOf(k) : i <= j
        pairs[n \in 0..Len(outer)] ==
            IF n = 0 THEN <<>>
            ELSE IF rowsOf(outer[n].key) = {} THEN pairs[n - 1]
            ELSE Append(pairs[n - 1], [inner_tid |-> inner[firstOf(outer[n].key)].tid,
                                       outer_tid |-> outer[n].tid])
    IN pairs[Len(outer)]

\* pairs is that join, in any order: algorithm B reports it by partition.
IsJoinOf(pairs, inner, outer) == ToBag(pairs) = ToBag(JoinOf(inner, outer))

=============================================================================
