------------------------- MODULE MCLinearHashTable -------------------------
(* Four slots and chains of three: chains of different keys overlap, wrap   *)
(* around the end of the storage and fill up before the table does.        *)
EXTENDS LinearHashTable

MCSlotOf == [k \in Keys |-> IF k = "k1" THEN 2 ELSE 3]
=============================================================================
