----------------------------- MODULE JoinTable -----------------------------
(***************************************************************************)
(* What the kernel needs of its hash table, with no storage layout in it:  *)
(* a map from keys to tuple identifiers in which the first row inserted    *)
(* for a key stays the one found, a failed insertion changes nothing, and  *)
(* insertions fail only once MinCapacity rows are in.  Module              *)
(* LinearHashTable implements it.                                          *)
(***************************************************************************)
EXTENDS Integers

CONSTANTS Keys, Tids, NoTid, MaxRows, MinCapacity

VARIABLES map,    \* key -> the TID a lookup returns, NoTid when absent
          rows,   \* rows inserted since the last clear
          reply   \* the last operation and its result

vars == <<map, rows, reply>>

Init == /\ map = [k \in Keys |-> NoTid]
        /\ rows = 0
        /\ reply = [op |-> "reset"]

Clear == /\ map' = [k \in Keys |-> NoTid]
         /\ rows' = 0
         /\ reply' = [op |-> "reset"]

Insert(k, x) ==
    /\ rows < MaxRows
    /\ map' = IF map[k] = NoTid THEN [map EXCEPT ![k] = x] ELSE map
    /\ rows' = rows + 1
    /\ reply' = [op |-> "build", key |-> k, err |-> "ERR_NONE"]

Reject(k) ==
    /\ rows >= MinCapacity
    /\ reply' = [op |-> "build", key |-> k, err |-> "ERR_OVERFLOW"]
    /\ UNCHANGED <<map, rows>>

Lookup(k) ==
    /\ reply' = [op |-> "probe", key |-> k, tid |-> map[k]]
    /\ UNCHANGED <<map, rows>>

Next == \/ Clear
        \/ \E k \in Keys : \/ \E x \in Tids : Insert(k, x)
                           \/ Reject(k)
                           \/ Lookup(k)

Spec == Init /\ [][Next]_vars

=============================================================================
