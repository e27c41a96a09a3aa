-------------------------- MODULE GracePartitions --------------------------
(***************************************************************************)
(* What algorithm B needs of its memory: two families of row sequences     *)
(* that grow one row at a time and are emptied together.  No row disturbs  *)
(* another.  Module GraceMemory implements it with addresses.              *)
(***************************************************************************)
EXTENDS Sequences

CONSTANTS Partitions, Rows

VARIABLES inner, outer    \* partition -> the rows put into it

NoRows == [p \in Partitions |-> <<>>]

Init == inner = NoRows /\ outer = NoRows

Clear == inner' = NoRows /\ outer' = NoRows

PutInner(p, row) == /\ inner' = [inner EXCEPT ![p] = Append(@, row)]
                    /\ UNCHANGED outer

PutOuter(p, row) == /\ outer' = [outer EXCEPT ![p] = Append(@, row)]
                    /\ UNCHANGED inner

Next == \/ Clear
        \/ \E p \in Partitions, row \in Rows : PutInner(p, row) \/ PutOuter(p, row)

Spec == Init /\ [][Next]_<<inner, outer>>

=============================================================================
