-------------------------- MODULE LinearHashTable --------------------------
(***************************************************************************)
(* Class LinearHashTable as a state machine: the stored table and the      *)
(* reply of the last call.  reset, build and probe may be called in any    *)
(* order with any arguments.                                               *)
(***************************************************************************)
EXTENDS LinearProbing, FiniteSets

CONSTANT NoTid     \* the absent TID of a lookup that misses

ASSUME NoTidAssumption == NoTid \notin Tids

VARIABLES ht, reply

vars == <<ht, reply>>

Init == /\ ht = ZeroTable
        /\ reply = [op |-> "reset"]

DoReset == /\ ht' = Reset(ht)
           /\ reply' = [op |-> "reset"]

DoBuild(k, x) == /\ ht' = Build(ht, k, x)
                 /\ reply' = [op |-> "build", key |-> k, err |-> BuildError(ht, k)]

\* The TID probe() hands out, NoTid on a miss.
ProbeResult(t, k) == IF Found(t, k) THEN FoundTid(t, k) ELSE NoTid

DoProbe(k) == /\ reply' = [op |-> "probe", key |-> k, tid |-> ProbeResult(ht, k)]
              /\ UNCHANGED ht

Next == \/ DoReset
        \/ \E k \in Keys, x \in Tids : DoBuild(k, x)
        \/ \E k \in Keys : DoProbe(k)

Spec == Init /\ [][Next]_vars

-----------------------------------------------------------------------------
\* The storage keeps its shape: flags, keys, TIDs and the row counter of
\* hash_join_linear.hpp lines 131-136.
TypeOK == ht \in Table

Occupied(t) == {s \in Slots : t.valid[s]}

\* row_count, which build() tests against HT_MAX_ROWS and size() reports, is
\* the number of occupied slots through every mix of reset, successful and
\* failed builds, so the capacity test never accepts a row too many.
RowCountExact ==
    /\ Cardinality(Occupied(ht)) = ht.row_count
    /\ ht.row_count <= HT_MAX_ROWS

\* A step of k's chain that holds k.
Holds(t, k, d) == t.valid[ProbeSlot(k, d)] /\ t.key[ProbeSlot(k, d)] = k

\* If k is in the table, some step holds it with no empty slot before it.
ChainUnbroken(t, k) ==
    (\E d \in Steps : Holds(t, k, d)) =>
        \E d \in Steps : /\ Holds(t, k, d)
                         /\ \A e \in 0..(d - 1) : t.valid[ProbeSlot(k, e)]

\* Every key in the table is held at some step of its chain with no empty
\* slot before it: probe()'s "empty slot: key is definitely absent" (line
\* 113) relies on it, and stale keys that reset() leaves behind may not
\* break it.
ChainsUnbroken == \A k \in Keys : ChainUnbroken(ht, k)

\* Every occupied slot lies on the chain of the key it holds: no row is
\* stored where no lookup of its key would ever look.
RowsReachable ==
    \A s \in Slots : ht.valid[s] => \E d \in Steps : ProbeSlot(ht.key[s], d) = s

\* What a caller of build/probe relies on: the table seen through probe() is
\* the map of JoinTable.  A build adds its key and disturbs no other key,
\* the first row of a key wins, a failed build changes nothing, and builds
\* cannot fail before MAX_PROBE_DIST (or HT_MAX_ROWS) rows are in.
Abstract == INSTANCE JoinTable WITH
    map <- [k \in Keys |-> ProbeResult(ht, k)],
    rows <- ht.row_count,
    MaxRows <- HT_MAX_ROWS,
    MinCapacity <- IF MAX_PROBE_DIST <= HT_MAX_ROWS THEN MAX_PROBE_DIST
                                                    ELSE HT_MAX_ROWS

ImplementsJoinTable == Abstract!Spec

=============================================================================
