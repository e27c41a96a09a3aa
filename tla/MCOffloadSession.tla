-------------------------- MODULE MCOffloadSession --------------------------
(***************************************************************************)
(* Small instances of OffloadSession.  Keys and the rows that carry them   *)
(* are numbered; the first keys share a home slot, so their chains         *)
(* collide, and neighbouring keys belong to different partitions.          *)
(***************************************************************************)
EXTENDS OffloadSession

MCOneSlot == [k \in Keys |-> 1]
MCPartHash == [k \in Keys |-> k]

Row(k, x) == [key |-> k, tid |-> x]

NumberedRows(n) == [i \in 1..n |-> Row(i, i)]
SameKeyRows(n) == [i \in 1..n |-> Row(2, i)]

Asks(alg, innerRows, outerRows) == [algorithm |-> alg, inner |-> innerRows, outer |-> outerRows]

Requests(alg, M, N) == {Asks(alg, NumberedRows(m), NumberedRows(n)) : m \in M, n \in N}

\* Row counts on both sides of the batch, credit and ACK boundaries.  In
\* algorithm A six rows overflow a chain of three with a batch in flight and
\* seven are refused; in algorithm B 13 rows take three partitions, whose
\* slots are too small for five outer rows of one key, the matches of nine
\* outer rows do not fit in a datagram and 12 outer rows not in the memory.
MCTwoSlots == [k \in Keys |-> IF k <= 6 THEN 1 ELSE 4]

MCFlowInputs ==
    {Asks(r[1], NumberedRows(r[2]), NumberedRows(r[3])) :
        r \in {<<"A", 1, 0>>, <<"A", 3, 9>>, <<"A", 6, 8>>, <<"A", 7, 1>>,
               <<"B", 0, 8>>, <<"B", 7, 4>>, <<"B", 13, 9>>, <<"B", 7, 12>>}}
    \cup {Asks("B", NumberedRows(13), SameKeyRows(5))}

\* With a batch of one row: a request with a duplicate inner key and one with
\* two partitions.
MCLossInputs ==
    {Asks("A", Append(NumberedRows(2), Row(2, 3)), NumberedRows(3)),
     Asks("B", NumberedRows(5), NumberedRows(2))}

\* A request that overflows a chain of two slots with batches still in flight.
MCOverflowInputs == Requests("A", {4}, {1})

MCWindowInputs == Requests("A", {3}, {3})

\* Requests of the adapter's own test: a few rows on either side.
MCSimulationInputs == Requests("A", {2}, {3})

=============================================================================
