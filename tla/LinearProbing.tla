--------------------------- MODULE LinearProbing ---------------------------
(***************************************************************************)
(* The operations of class LinearHashTable (src/src/hash_join_linear.hpp)  *)
(* as operators on a table value: open addressing with linear probing,     *)
(* every chain bounded by MAX_PROBE_DIST slots.  The state machine around  *)
(* them is module LinearHashTable; the kernel's model uses them too.       *)
(*                                                                         *)
(* The TID's two fields are one value of Tids, and the multiplicative hash *)
(* is the constant function slot_of: nothing the class promises depends on *)
(* which function it is.                                                   *)
(***************************************************************************)
EXTENDS Integers

CONSTANTS
    Keys,            \* join keys (int32 keys are sign-extended to int64)
    Tids,            \* tuple identifiers
    HT_SLOTS,        \* slots of the table
    HT_MAX_ROWS,     \* rows it accepts (75% of the slots in the code)
    MAX_PROBE_DIST,  \* length of a probe chain
    slot_of,         \* the hash: key -> slot
    ZeroKey,         \* what statically allocated storage holds at power-up
    ZeroTid

ASSUME TableAssumption ==
    /\ HT_SLOTS \in Nat \ {0}
    /\ HT_MAX_ROWS \in 1..HT_SLOTS
    /\ MAX_PROBE_DIST \in 1..HT_SLOTS
    /\ slot_of \in [Keys -> 0..(HT_SLOTS - 1)]
    /\ ZeroKey \in Keys
    /\ ZeroTid \in Tids

Slots == 0..(HT_SLOTS - 1)
Steps == 0..(MAX_PROBE_DIST - 1)

(***************************************************************************)
(* The storage: ht_valid, ht_key, (ht_blk, ht_off) and row_count.          *)
(***************************************************************************)
Table == [valid : [Slots -> BOOLEAN], key : [Slots -> Keys],
          tid : [Slots -> Tids], row_count : Nat]

ZeroTable == [valid |-> [s \in Slots |-> FALSE], key |-> [s \in Slots |-> ZeroKey],
              tid |-> [s \in Slots |-> ZeroTid], row_count |-> 0]

\* The slot a chain that starts at key k's home visits at a step.
ProbeSlot(k, step) == (slot_of[k] + step) % HT_SLOTS

\* The first of a set of steps: where a loop over the chain stops.
First(S) == CHOOSE d \in S : \A e \in S : d <= e

-----------------------------------------------------------------------------
\* Defect: the flags are cleared and the counter is forgotten.
ResetKeepsCount(t) == [t EXCEPT !.valid = [s \in Slots |-> FALSE]]

\* reset() clears the occupancy flags only: stale keys and TIDs stay behind.
Reset(t) == [valid |-> [s \in Slots |-> FALSE], key |-> t.key, tid |-> t.tid,
             row_count |-> 0]

\* Defect: one step too many, past the chain that probe() follows.
FreeStepsOneTooMany(t, k) == {d \in 0..MAX_PROBE_DIST : ~t.valid[ProbeSlot(k, d)]}

\* The steps of k's chain at which build() would find room.
FreeSteps(t, k) == {d \in Steps : ~t.valid[ProbeSlot(k, d)]}

\* Defect: the loop does not stop at the first free slot.
LastFreeSlot(t, k) ==
    ProbeSlot(k, CHOOSE d \in FreeSteps(t, k) : \A e \in FreeSteps(t, k) : e <= d)

\* The slot build() writes.
FreeSlot(t, k) == ProbeSlot(k, First(FreeSteps(t, k)))

BuildError(t, k) ==
    IF t.row_count >= HT_MAX_ROWS \/ FreeSteps(t, k) = {}
    THEN "ERR_OVERFLOW" ELSE "ERR_NONE"

\* Defect: key and TID are stored in each other's array.
BuildSwapsFields(t, k, x) ==
    IF BuildError(t, k) # "ERR_NONE" THEN t
    ELSE [valid |-> [t.valid EXCEPT ![FreeSlot(t, k)] = TRUE],
          key |-> [t.key EXCEPT ![FreeSlot(t, k)] = x],
          tid |-> [t.tid EXCEPT ![FreeSlot(t, k)] = k],
          row_count |-> t.row_count + 1]

\* build(): the table after an insertion attempt.
Build(t, k, x) ==
    IF BuildError(t, k) # "ERR_NONE" THEN t
    ELSE [valid |-> [t.valid EXCEPT ![FreeSlot(t, k)] = TRUE],
          key |-> [t.key EXCEPT ![FreeSlot(t, k)] = k],
          tid |-> [t.tid EXCEPT ![FreeSlot(t, k)] = x],
          row_count |-> t.row_count + 1]

\* The steps at which probe() returns: an empty slot, or one that holds k.
StopSteps(t, k) ==
    {d \in Steps : ~t.valid[ProbeSlot(k, d)] \/ t.key[ProbeSlot(k, d)] = k}

StopSlot(t, k) == ProbeSlot(k, First(StopSteps(t, k)))

\* Defect: the key is compared and the occupancy flag is not looked at.
FoundIgnoresValid(t, k) == StopSteps(t, k) # {} /\ t.key[StopSlot(t, k)] = k

\* probe()'s return value, and the TID it writes when that is TRUE.
Found(t, k) == StopSteps(t, k) # {} /\ t.valid[StopSlot(t, k)]
FoundTid(t, k) == t.tid[StopSlot(t, k)]

=============================================================================
