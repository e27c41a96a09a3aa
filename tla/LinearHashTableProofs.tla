----------------------- MODULE LinearHashTableProofs -----------------------
(***************************************************************************)
(* Proofs about LinearHashTable for every hash function, table size, chain *)
(* length and key set: its invariants, and that it implements JoinTable.   *)
(***************************************************************************)
EXTENDS LinearHashTable, FiniteSetTheorems, TLAPS

-----------------------------------------------------------------------------
(* Lemmas about the chain.                                                 *)

\* A non-empty set of steps has a first one, which First names: the loops of
\* build() and probe() stop at a well-defined step.
LEMMA FirstStep ==
    ASSUME NEW S \in SUBSET Nat, S # {}
    PROVE  First(S) \in S /\ \A e \in S : First(S) <= e
<1> DEFINE Below(d) == 0..(d - 1)
           T == {Below(d) : d \in S}
           R == StrictSubsetOrdering(Nat)
<1>1. \A d \in S : Below(d) \in FiniteSubsetsOf(Nat)
  BY FS_Interval DEF FiniteSubsetsOf
<1>2. T \subseteq FiniteSubsetsOf(Nat) /\ T # {}
  BY <1>1
<1>3. IsWellFoundedOn(R, FiniteSubsetsOf(Nat))
  BY FS_StrictSubsetOrderingWellFounded
<1>4. \E x \in T : \A y \in T : ~ (<<y, x>> \in R)
  <2> HIDE DEF T, R
  <2> QED BY <1>2, <1>3, WFMin
<1>5. PICK d \in S : \A e \in S : ~ (<<Below(e), Below(d)>> \in R)
  BY <1>4
<1>6. ASSUME NEW e \in S, ~ (d <= e)
      PROVE  FALSE
  <2>1. e \in Nat /\ d \in Nat /\ e < d
    BY <1>6
  <2>2. Below(e) \subseteq Below(d) /\ e \in Below(d) /\ e \notin Below(e)
    BY <2>1
  <2>3. <<Below(e), Below(d)>> \in R
    BY <2>2, <1>1 DEF StrictSubsetOrdering, FiniteSubsetsOf
  <2>4. QED
    BY <2>3, <1>5
<1>7. \A e \in S : d <= e
  BY <1>6
<1>8. QED
  BY <1>7 DEF First

\* A chain never leaves the storage, wherever it starts.
LEMMA SlotInRange ==
    ASSUME NEW k \in Keys, NEW d \in Nat
    PROVE  ProbeSlot(k, d) \in Slots
<1>1. slot_of[k] \in Nat /\ HT_SLOTS \in Nat /\ HT_SLOTS > 0
  BY TableAssumption
<1>2. slot_of[k] + d \in Nat
  BY <1>1
<1>3. (slot_of[k] + d) % HT_SLOTS \in 0..(HT_SLOTS - 1)
  BY <1>1, <1>2
<1>4. QED
  BY <1>3 DEF ProbeSlot, Slots

-----------------------------------------------------------------------------
(* Lemmas about build() and probe().                                       *)

\* Where build() writes: an empty slot of k's chain, all slots before it
\* occupied.
LEMMA FreeSlotFacts ==
    ASSUME NEW t \in Table, NEW k \in Keys, FreeSteps(t, k) # {}
    PROVE  /\ First(FreeSteps(t, k)) \in Steps
           /\ FreeSlot(t, k) \in Slots
           /\ t.valid[FreeSlot(t, k)] = FALSE
           /\ \A e \in 0..(First(FreeSteps(t, k)) - 1) : t.valid[ProbeSlot(k, e)]
<1> DEFINE S == FreeSteps(t, k)
           f == First(S)
<1>1. S \subseteq Steps /\ Steps \subseteq Nat /\ S # {}
  BY TableAssumption DEF FreeSteps, Steps
<1>2. f \in S /\ \A e \in S : f <= e
  <2> HIDE DEF S
  <2> QED BY <1>1, FirstStep
<1>3. f \in Steps
  BY <1>1, <1>2
<1>4. FreeSlot(t, k) \in Slots
  BY <1>1, <1>3, SlotInRange DEF FreeSlot
<1>5. t.valid[FreeSlot(t, k)] \in BOOLEAN
  BY <1>4 DEF Table
<1>6. ~ t.valid[FreeSlot(t, k)]
  BY <1>2 DEF FreeSteps, FreeSlot
<1>7. ASSUME NEW e \in 0..(f - 1)
      PROVE  t.valid[ProbeSlot(k, e)]
  <2>1. e \in Steps /\ ~ (f <= e)
    <3> HIDE DEF f
    <3> QED BY <1>3, TableAssumption DEF Steps
  <2>2. e \notin S
    BY <2>1, <1>2
  <2>3. QED
    BY <2>1, <2>2 DEF FreeSteps
<1>8. QED
  BY <1>3, <1>4, <1>5, <1>6, <1>7

\* What build() makes of a table, field by field.
LEMMA BuildFacts ==
    ASSUME NEW t \in Table, NEW k \in Keys, NEW x \in Tids,
           BuildError(t, k) = "ERR_NONE"
    PROVE  /\ FreeSteps(t, k) # {}
           /\ t.row_count < HT_MAX_ROWS
           /\ Build(t, k, x) \in Table
           /\ Build(t, k, x).valid = [t.valid EXCEPT ![FreeSlot(t, k)] = TRUE]
           /\ Build(t, k, x).key = [t.key EXCEPT ![FreeSlot(t, k)] = k]
           /\ Build(t, k, x).tid = [t.tid EXCEPT ![FreeSlot(t, k)] = x]
           /\ Build(t, k, x).row_count = t.row_count + 1
<1>1. FreeSteps(t, k) # {} /\ ~ (t.row_count >= HT_MAX_ROWS)
  BY DEF BuildError
<1>2. t.row_count \in Nat /\ HT_MAX_ROWS \in Nat
  BY TableAssumption DEF Table
<1>3. FreeSlot(t, k) \in Slots
  BY <1>1, FreeSlotFacts
<1>4. Build(t, k, x) = [valid |-> [t.valid EXCEPT ![FreeSlot(t, k)] = TRUE],
                        key |-> [t.key EXCEPT ![FreeSlot(t, k)] = k],
                        tid |-> [t.tid EXCEPT ![FreeSlot(t, k)] = x],
                        row_count |-> t.row_count + 1]
  BY DEF Build
<1>5. /\ t.valid \in [Slots -> BOOLEAN]
      /\ t.key \in [Slots -> Keys]
      /\ t.tid \in [Slots -> Tids]
      /\ t.row_count + 1 \in Nat
  BY <1>2 DEF Table
<1>6. Build(t, k, x) \in Table
  BY <1>3, <1>4, <1>5 DEF Table
<1>7. QED
  BY <1>1, <1>2, <1>4, <1>6

\* Where probe() stops: all slots before it are occupied by other keys.
LEMMA StopSlotFacts ==
    ASSUME NEW t \in Table, NEW k \in Keys, StopSteps(t, k) # {}
    PROVE  /\ First(StopSteps(t, k)) \in StopSteps(t, k)
           /\ First(StopSteps(t, k)) \in Steps
           /\ StopSlot(t, k) \in Slots
           /\ \A e \in StopSteps(t, k) : First(StopSteps(t, k)) <= e
<1> DEFINE S == StopSteps(t, k)
<1>1. S \subseteq Steps /\ Steps \subseteq Nat /\ S # {}
  BY TableAssumption DEF StopSteps, Steps
<1>2. First(S) \in S /\ \A e \in S : First(S) <= e
  <2> HIDE DEF S
  <2> QED BY <1>1, FirstStep
<1>3. QED
  BY <1>1, <1>2, SlotInRange DEF StopSlot

\* What probe() returns, without its loop: it stops at step d exactly when
\* d holds k or is empty and every earlier step is occupied by another key.
LEMMA ProbeStopsAt ==
    ASSUME NEW t \in Table, NEW k \in Keys, NEW d \in Steps,
           d \in StopSteps(t, k),
           \A e \in 0..(d - 1) : e \notin StopSteps(t, k)
    PROVE  /\ StopSteps(t, k) # {}
           /\ StopSlot(t, k) = ProbeSlot(k, d)
<1> DEFINE f == First(StopSteps(t, k))
<1>1. f \in StopSteps(t, k) /\ f \in Steps /\ f <= d
  BY StopSlotFacts
<1>2. f \in Nat /\ d \in Nat
  BY <1>1, TableAssumption DEF Steps
<1>3. ~ (f < d)
  <2> HIDE DEF f
  <2> QED BY <1>1, <1>2
<1>4. f = d
  <2> HIDE DEF f
  <2> QED BY <1>1, <1>2, <1>3
<1>5. QED
  BY <1>4 DEF StopSlot

\* The steps of k's chain that hold k.
HoldSteps(t, k) == {d \in Steps : Holds(t, k, d)}

LEMMA HoldStepsFirst ==
    ASSUME NEW t, NEW k, HoldSteps(t, k) # {}
    PROVE  /\ First(HoldSteps(t, k)) \in HoldSteps(t, k)
           /\ \A e \in HoldSteps(t, k) : First(HoldSteps(t, k)) <= e
<1>1. HoldSteps(t, k) \subseteq Nat
  BY TableAssumption DEF HoldSteps, Steps
<1>2. QED
  BY <1>1, FirstStep

\* With unbroken chains probe() finds k exactly when it is stored, and
\* returns the row at the first step that holds it.
LEMMA ProbeByHolds ==
    ASSUME NEW t \in Table, NEW k \in Keys, ChainUnbroken(t, k)
    PROVE  /\ Found(t, k) <=> HoldSteps(t, k) # {}
           /\ HoldSteps(t, k) # {} =>
                 StopSlot(t, k) = ProbeSlot(k, First(HoldSteps(t, k)))
<1>1. CASE HoldSteps(t, k) # {}
  <2> DEFINE m == First(HoldSteps(t, k))
  <2>1. PICK d \in Steps : /\ Holds(t, k, d)
                           /\ \A e \in 0..(d - 1) : t.valid[ProbeSlot(k, e)]
    BY <1>1 DEF ChainUnbroken, HoldSteps
  <2>2. m \in Steps /\ Holds(t, k, m) /\ \A e \in Steps : Holds(t, k, e) => m <= e
    BY <1>1, HoldStepsFirst DEF HoldSteps
  <2>3. m \in Nat /\ d \in Nat /\ m <= d
    BY <2>1, <2>2, TableAssumption DEF Steps
  <2>4. ASSUME NEW e \in 0..(m - 1)
        PROVE  e \notin StopSteps(t, k)
    <3>1. e \in Steps /\ e \in 0..(d - 1) /\ ~ (m <= e)
      <4> HIDE DEF m
      <4> QED BY <2>2, <2>3, TableAssumption DEF Steps
    <3>2. t.valid[ProbeSlot(k, e)] /\ ~ Holds(t, k, e)
      BY <3>1, <2>1, <2>2
    <3>3. QED
      BY <3>2 DEF Holds, StopSteps
  <2>5. m \in StopSteps(t, k)
    BY <2>2 DEF Holds, StopSteps
  <2>6. StopSteps(t, k) # {} /\ StopSlot(t, k) = ProbeSlot(k, m)
    <3> HIDE DEF m
    <3> QED BY <2>2, <2>4, <2>5, ProbeStopsAt
  <2>7. t.valid[ProbeSlot(k, m)]
    BY <2>2 DEF Holds
  <2>8. QED
    BY <1>1, <2>6, <2>7 DEF Found
<1>2. CASE HoldSteps(t, k) = {}
  <2>1. SUFFICES ASSUME Found(t, k)
                 PROVE  FALSE
    BY <1>2
  <2> DEFINE f == First(StopSteps(t, k))
  <2>2. f \in StopSteps(t, k) /\ f \in Steps /\ t.valid[ProbeSlot(k, f)]
    BY <2>1, StopSlotFacts DEF Found, StopSlot
  <2>3. Holds(t, k, f)
    BY <2>2 DEF Holds, StopSteps
  <2>4. QED
    BY <1>2, <2>2, <2>3 DEF HoldSteps
<1>3. QED
  BY <1>1, <1>2

\* A successful build writes a slot that held nothing: the steps that hold
\* another key, and the rows there, are the ones before.
LEMMA BuildHoldsOther ==
    ASSUME NEW t \in Table, NEW k \in Keys, NEW x \in Tids,
           BuildError(t, k) = "ERR_NONE", NEW j \in Keys, j # k
    PROVE  /\ HoldSteps(Build(t, k, x), j) = HoldSteps(t, j)
           /\ \A d \in HoldSteps(t, j) :
                 Build(t, k, x).tid[ProbeSlot(j, d)] = t.tid[ProbeSlot(j, d)]
<1> DEFINE u == Build(t, k, x)
           s == FreeSlot(t, k)
<1>1. /\ u.valid = [t.valid EXCEPT ![s] = TRUE]
      /\ u.key = [t.key EXCEPT ![s] = k]
      /\ u.tid = [t.tid EXCEPT ![s] = x]
      /\ FreeSteps(t, k) # {}
  BY BuildFacts
<1>2. s \in Slots /\ t.valid[s] = FALSE
  BY <1>1, FreeSlotFacts
<1>3. /\ t.valid \in [Slots -> BOOLEAN]
      /\ t.key \in [Slots -> Keys]
      /\ t.tid \in [Slots -> Tids]
  BY DEF Table
<1>4. ASSUME NEW d \in Steps
      PROVE  /\ Holds(u, j, d) <=> Holds(t, j, d)
             /\ Holds(t, j, d) => u.tid[ProbeSlot(j, d)] = t.tid[ProbeSlot(j, d)]
  <2>1. ProbeSlot(j, d) \in Slots
    BY SlotInRange, TableAssumption DEF Steps
  <2> HIDE DEF u, s
  <2> QED BY <1>1, <1>2, <1>3, <2>1 DEF Holds
<1>5. QED
  BY <1>4 DEF HoldSteps

\* For the key it inserts, a successful build adds the steps that visit the
\* slot it writes.
LEMMA BuildHoldsOwn ==
    ASSUME NEW t \in Table, NEW k \in Keys, NEW x \in Tids,
           BuildError(t, k) = "ERR_NONE", NEW d \in Steps
    PROVE  /\ Holds(Build(t, k, x), k, d) <=>
                 Holds(t, k, d) \/ ProbeSlot(k, d) = FreeSlot(t, k)
           /\ Holds(t, k, d) => ProbeSlot(k, d) # FreeSlot(t, k)
           /\ Build(t, k, x).tid[ProbeSlot(k, d)] =
                 IF ProbeSlot(k, d) = FreeSlot(t, k) THEN x ELSE t.tid[ProbeSlot(k, d)]
           /\ Build(t, k, x).valid[ProbeSlot(k, d)] =
                 (t.valid[ProbeSlot(k, d)] \/ ProbeSlot(k, d) = FreeSlot(t, k))
<1> DEFINE u == Build(t, k, x)
           s == FreeSlot(t, k)
<1>1. /\ u.valid = [t.valid EXCEPT ![s] = TRUE]
      /\ u.key = [t.key EXCEPT ![s] = k]
      /\ u.tid = [t.tid EXCEPT ![s] = x]
      /\ FreeSteps(t, k) # {}
  BY BuildFacts
<1>2. s \in Slots /\ t.valid[s] = FALSE
  BY <1>1, FreeSlotFacts
<1>3. /\ t.valid \in [Slots -> BOOLEAN]
      /\ t.key \in [Slots -> Keys]
      /\ t.tid \in [Slots -> Tids]
  BY DEF Table
<1>4. ProbeSlot(k, d) \in Slots
  BY SlotInRange, TableAssumption DEF Steps
<1> HIDE DEF u, s
<1>5. /\ Holds(u, k, d) <=> Holds(t, k, d) \/ ProbeSlot(k, d) = s
      /\ Holds(t, k, d) => ProbeSlot(k, d) # s
  BY <1>1, <1>2, <1>3, <1>4 DEF Holds
<1>6. u.tid[ProbeSlot(k, d)] = IF ProbeSlot(k, d) = s THEN x ELSE t.tid[ProbeSlot(k, d)]
  BY <1>1, <1>3, <1>4
<1>7. u.valid[ProbeSlot(k, d)] = (t.valid[ProbeSlot(k, d)] \/ ProbeSlot(k, d) = s)
  BY <1>1, <1>3, <1>4
<1>8. QED
  BY <1>5, <1>6, <1>7 DEF u, s

\* build() keeps every chain unbroken.
LEMMA BuildKeepsChains ==
    ASSUME NEW t \in Table, NEW k \in Keys, NEW x \in Tids,
           BuildError(t, k) = "ERR_NONE", NEW j \in Keys, ChainUnbroken(t, j)
    PROVE  ChainUnbroken(Build(t, k, x), j)
<1> DEFINE u == Build(t, k, x)
           f == First(FreeSteps(t, k))
<1>1. /\ u.valid = [t.valid EXCEPT ![FreeSlot(t, k)] = TRUE]
      /\ u.key = [t.key EXCEPT ![FreeSlot(t, k)] = k]
      /\ u.tid = [t.tid EXCEPT ![FreeSlot(t, k)] = x]
      /\ FreeSteps(t, k) # {}
  BY BuildFacts
<1>2. f \in Steps /\ \A e \in 0..(f - 1) : t.valid[ProbeSlot(k, e)]
  BY <1>1, FreeSlotFacts
<1>3. t.valid \in [Slots -> BOOLEAN]
  BY DEF Table
<1>4. ASSUME NEW i \in Keys, NEW e \in Nat, t.valid[ProbeSlot(i, e)]
      PROVE  u.valid[ProbeSlot(i, e)]
  <2> HIDE DEF u
  <2> QED BY <1>1, <1>3, <1>4, SlotInRange
<1>5. CASE j = k
  <2>1. Holds(u, k, f)
    BY <1>2, BuildHoldsOwn DEF FreeSlot
  <2>2. \A e \in 0..(f - 1) : u.valid[ProbeSlot(k, e)]
    BY <1>2, <1>4, TableAssumption DEF Steps
  <2> HIDE DEF u, f
  <2>3. QED
    BY <1>2, <1>5, <2>1, <2>2 DEF ChainUnbroken, u
<1>6. CASE j # k
  <2>1. SUFFICES ASSUME NEW d0 \in Steps, Holds(u, j, d0)
                 PROVE  \E d \in Steps :
                           /\ Holds(u, j, d)
                           /\ \A e \in 0..(d - 1) : u.valid[ProbeSlot(j, e)]
    BY DEF ChainUnbroken
  <2>2. \A d \in Steps : Holds(u, j, d) <=> Holds(t, j, d)
    BY <1>6, BuildHoldsOther DEF HoldSteps
  <2>3. PICK d \in Steps : /\ Holds(t, j, d)
                           /\ \A e \in 0..(d - 1) : t.valid[ProbeSlot(j, e)]
    BY <2>1, <2>2 DEF ChainUnbroken
  <2>4. \A e \in 0..(d - 1) : u.valid[ProbeSlot(j, e)]
    BY <1>4, <2>3, TableAssumption DEF Steps
  <2> HIDE DEF u
  <2>5. QED
    BY <2>2, <2>3, <2>4
<1>7. QED
  BY <1>5, <1>6

\* No other key's lookup changes when k is built.
LEMMA BuildKeepsOthers ==
    ASSUME NEW t \in Table, NEW k \in Keys, NEW x \in Tids,
           BuildError(t, k) = "ERR_NONE", NEW j \in Keys, j # k,
           ChainUnbroken(t, j)
    PROVE  ProbeResult(Build(t, k, x), j) = ProbeResult(t, j)
<1> DEFINE u == Build(t, k, x)
<1>1. u \in Table /\ ChainUnbroken(u, j)
  BY BuildFacts, BuildKeepsChains
<1>2. /\ HoldSteps(u, j) = HoldSteps(t, j)
      /\ \A d \in HoldSteps(t, j) : u.tid[ProbeSlot(j, d)] = t.tid[ProbeSlot(j, d)]
  BY BuildHoldsOther
<1> HIDE DEF u
<1>3. Found(u, j) <=> Found(t, j)
  BY <1>1, <1>2, ProbeByHolds
<1>4. ASSUME Found(t, j)
      PROVE  FoundTid(u, j) = FoundTid(t, j)
  <2>1. HoldSteps(t, j) # {}
    BY <1>4, ProbeByHolds
  <2>2. /\ StopSlot(u, j) = ProbeSlot(j, First(HoldSteps(t, j)))
        /\ StopSlot(t, j) = ProbeSlot(j, First(HoldSteps(t, j)))
    BY <1>1, <1>2, <2>1, ProbeByHolds
  <2>3. First(HoldSteps(t, j)) \in HoldSteps(t, j)
    BY <2>1, HoldStepsFirst
  <2>4. QED
    BY <1>2, <2>2, <2>3 DEF FoundTid
<1>5. QED
  BY <1>3, <1>4 DEF ProbeResult, u

\* A lookup of k after building (k, x) returns the row it returned before,
\* or x when k was absent: the first row of a key wins.
LEMMA BuildFirstWins ==
    ASSUME NEW t \in Table, NEW k \in Keys, NEW x \in Tids,
           BuildError(t, k) = "ERR_NONE", ChainUnbroken(t, k)
    PROVE  /\ Found(Build(t, k, x), k)
           /\ FoundTid(Build(t, k, x), k) =
                 IF Found(t, k) THEN FoundTid(t, k) ELSE x
<1> DEFINE u == Build(t, k, x)
           m == First(HoldSteps(u, k))
           f == First(FreeSteps(t, k))
<1>1. u \in Table /\ ChainUnbroken(u, k) /\ FreeSteps(t, k) # {}
  BY BuildFacts, BuildKeepsChains
<1>2. f \in Steps /\ FreeSlot(t, k) = ProbeSlot(k, f) /\ t.valid[FreeSlot(t, k)] = FALSE
  BY <1>1, FreeSlotFacts DEF FreeSlot
<1>3. HoldSteps(u, k) # {}
  BY <1>2, BuildHoldsOwn DEF HoldSteps
<1>4. m \in Steps /\ Holds(u, k, m) /\ \A e \in HoldSteps(u, k) : m <= e
  BY <1>3, HoldStepsFirst DEF HoldSteps
<1>5. Found(u, k) /\ StopSlot(u, k) = ProbeSlot(k, m)
  BY <1>1, <1>3, ProbeByHolds
<1>6. Holds(t, k, m) \/ ProbeSlot(k, m) = FreeSlot(t, k)
  BY <1>4, BuildHoldsOwn
<1>7. CASE HoldSteps(t, k) = {}
  <2>1. ProbeSlot(k, m) = FreeSlot(t, k)
    BY <1>4, <1>6, <1>7 DEF HoldSteps
  <2>2. ~ Found(t, k)
    BY <1>7, ProbeByHolds
  <2>3. u.tid[ProbeSlot(k, m)] = x
    BY <1>4, <2>1, BuildHoldsOwn
  <2>4. QED
    BY <1>5, <2>2, <2>3 DEF FoundTid
<1>8. CASE HoldSteps(t, k) # {}
  <2> DEFINE n == First(HoldSteps(t, k))
  <2>1. n \in Steps /\ Holds(t, k, n) /\ \A e \in HoldSteps(t, k) : n <= e
    BY <1>8, HoldStepsFirst DEF HoldSteps
  <2>2. Found(t, k) /\ StopSlot(t, k) = ProbeSlot(k, n)
    BY <1>8, ProbeByHolds
  <2>3. PICK d \in Steps : /\ Holds(t, k, d)
                           /\ \A e \in 0..(d - 1) : t.valid[ProbeSlot(k, e)]
    BY <2>1 DEF ChainUnbroken
  <2>4. n <= d /\ n \in Nat /\ m \in Nat /\ d \in Nat
    BY <1>4, <2>1, <2>3, TableAssumption DEF HoldSteps, Steps
  <2>5. n \in HoldSteps(u, k)
    BY <2>1, BuildHoldsOwn DEF HoldSteps
  <2>6. m <= n
    BY <1>4, <2>5
  <2>7. Holds(t, k, m)
    <3>1. SUFFICES ASSUME ProbeSlot(k, m) = FreeSlot(t, k), m # d
                   PROVE  FALSE
      BY <1>6, <2>3
    <3>2. m \in 0..(d - 1)
      <4> HIDE DEF m, n
      <4> QED BY <2>4, <2>6, <3>1
    <3>3. t.valid[ProbeSlot(k, m)]
      BY <2>3, <3>2
    <3>4. QED
      BY <1>2, <3>1, <3>3
  <2>8. n <= m
    BY <1>4, <2>1, <2>7 DEF HoldSteps
  <2>9. m = n
    <3> HIDE DEF m, n
    <3> QED BY <2>4, <2>6, <2>8
  <2>10. u.tid[ProbeSlot(k, m)] = t.tid[ProbeSlot(k, m)]
    BY <1>4, <2>7, BuildHoldsOwn
  <2>11. QED
    BY <1>5, <2>2, <2>9, <2>10 DEF FoundTid
<1>9. QED
  BY <1>7, <1>8

-----------------------------------------------------------------------------
(* Counting rows.                                                          *)

\* The remainder of a chain position that passes the end of the storage at
\* most once.
LEMMA WrapOnce ==
    ASSUME NEW a \in Nat, a < HT_SLOTS + HT_SLOTS
    PROVE  a % HT_SLOTS = IF a < HT_SLOTS THEN a ELSE a - HT_SLOTS
<1>1. HT_SLOTS \in Nat /\ HT_SLOTS > 0
  BY TableAssumption
<1>2. CASE a < HT_SLOTS
  <2>1. a % HT_SLOTS = a
    BY <1>1, <1>2, SMT
  <2>2. QED BY <1>2, <2>1
<1>3. CASE ~ (a < HT_SLOTS)
  <2>1. a >= HT_SLOTS
    BY <1>1, <1>3
  <2>2. a % HT_SLOTS = a - HT_SLOTS
    BY <1>1, <2>1, SMT
  <2>3. QED BY <1>3, <2>2
<1>4. QED
  BY <1>2, <1>3

\* The steps of one chain visit different slots.
LEMMA ChainSlotsDistinct ==
    ASSUME NEW k \in Keys, NEW d \in Steps, NEW e \in Steps,
           ProbeSlot(k, d) = ProbeSlot(k, e)
    PROVE  d = e
<1> DEFINE h == slot_of[k]
<1>1. /\ HT_SLOTS \in Nat /\ MAX_PROBE_DIST \in Nat /\ MAX_PROBE_DIST <= HT_SLOTS
      /\ h \in 0..(HT_SLOTS - 1)
  BY TableAssumption
<1> HIDE DEF h
<1>2. /\ d \in Nat /\ e \in Nat /\ h + d \in Nat /\ h + e \in Nat
      /\ h + d < HT_SLOTS + HT_SLOTS /\ h + e < HT_SLOTS + HT_SLOTS
  BY <1>1 DEF Steps
<1>3. (h + d) % HT_SLOTS = IF h + d < HT_SLOTS THEN h + d ELSE (h + d) - HT_SLOTS
  BY <1>2, WrapOnce
<1>4. (h + e) % HT_SLOTS = IF h + e < HT_SLOTS THEN h + e ELSE (h + e) - HT_SLOTS
  BY <1>2, WrapOnce
<1>5. (h + d) % HT_SLOTS = (h + e) % HT_SLOTS
  BY DEF ProbeSlot, h
<1>6. QED
  BY <1>1, <1>2, <1>3, <1>4, <1>5 DEF Steps

LEMMA OccupiedFinite ==
    ASSUME NEW t
    PROVE  IsFiniteSet(Occupied(t))
<1>1. IsFiniteSet(Slots)
  BY TableAssumption, FS_Interval DEF Slots
<1>2. Occupied(t) \subseteq Slots
  BY DEF Occupied
<1>3. QED
  BY <1>1, <1>2, FS_Subset

\* A chain without room takes MAX_PROBE_DIST occupied slots.
LEMMA FullChainRows ==
    ASSUME NEW t \in Table, NEW k \in Keys, FreeSteps(t, k) = {}
    PROVE  Cardinality(Occupied(t)) >= MAX_PROBE_DIST
<1> DEFINE g == [d \in Steps |-> ProbeSlot(k, d)]
<1>1. \A d \in Steps : ProbeSlot(k, d) \in Occupied(t)
  <2>1. \A d \in Steps : ProbeSlot(k, d) \in Slots
    BY SlotInRange, TableAssumption DEF Steps
  <2>2. QED
    BY <2>1 DEF FreeSteps, Occupied
<1>2. g \in [Steps -> Occupied(t)]
  BY <1>1
<1>3. IsInjective(g)
  BY ChainSlotsDistinct DEF IsInjective
<1>4. g \in Injection(Steps, Occupied(t))
  BY <1>2, <1>3 DEF Injection
<1>5. Cardinality(Steps) <= Cardinality(Occupied(t))
  <2> HIDE DEF g
  <2> QED BY <1>4, OccupiedFinite, FS_Injection
<1>6. Cardinality(Steps) = MAX_PROBE_DIST
  BY TableAssumption, FS_Interval DEF Steps
<1>7. Cardinality(Occupied(t)) \in Nat
  BY OccupiedFinite, FS_CardinalityType
<1>8. QED
  BY <1>5, <1>6, <1>7, TableAssumption

\* A successful build occupies exactly one more slot.
LEMMA BuildOccupies ==
    ASSUME NEW t \in Table, NEW k \in Keys, NEW x \in Tids,
           BuildError(t, k) = "ERR_NONE"
    PROVE  Cardinality(Occupied(Build(t, k, x))) = Cardinality(Occupied(t)) + 1
<1> DEFINE u == Build(t, k, x)
           s == FreeSlot(t, k)
<1>1. /\ u.valid = [t.valid EXCEPT ![s] = TRUE]
      /\ u.key = [t.key EXCEPT ![s] = k]
      /\ u.tid = [t.tid EXCEPT ![s] = x]
      /\ FreeSteps(t, k) # {}
  BY BuildFacts
<1>2. s \in Slots /\ t.valid[s] = FALSE /\ t.valid \in [Slots -> BOOLEAN]
  BY <1>1, FreeSlotFacts DEF Table
<1>3. Occupied(u) = Occupied(t) \cup {s}
  <2> HIDE DEF u, s
  <2> QED BY <1>1, <1>2 DEF Occupied
<1>4. s \notin Occupied(t)
  BY <1>2 DEF Occupied
<1>5. QED
  BY <1>3, <1>4, OccupiedFinite, FS_AddElement

-----------------------------------------------------------------------------
(* The invariants.                                                         *)

IInv == TypeOK /\ RowCountExact /\ ChainsUnbroken /\ RowsReachable

\* A cleared table satisfies every part of the invariant, whatever keys it
\* had: both the power-up table and reset().
LEMMA ClearedTable ==
    ASSUME NEW t \in Table, t.valid = [s \in Slots |-> FALSE], t.row_count = 0
    PROVE  /\ Cardinality(Occupied(t)) = t.row_count
           /\ t.row_count <= HT_MAX_ROWS
           /\ \A k \in Keys : ChainUnbroken(t, k) /\ ~ Found(t, k)
           /\ \A s \in Slots : ~ t.valid[s]
<1>1. \A s \in Slots : ~ t.valid[s]
  OBVIOUS
<1>2. Occupied(t) = {}
  BY <1>1 DEF Occupied
<1>3. Cardinality(Occupied(t)) = t.row_count /\ t.row_count <= HT_MAX_ROWS
  BY <1>2, FS_EmptySet, TableAssumption
<1>4. ASSUME NEW k \in Keys
      PROVE  ChainUnbroken(t, k) /\ ~ Found(t, k)
  <2>1. \A d \in Steps : ~ t.valid[ProbeSlot(k, d)]
    BY <1>1, SlotInRange, TableAssumption DEF Steps
  <2>2. ChainUnbroken(t, k)
    BY <2>1 DEF ChainUnbroken, Holds
  <2>3. HoldSteps(t, k) = {}
    BY <2>1 DEF HoldSteps, Holds
  <2>4. QED
    BY <2>2, <2>3, ProbeByHolds
<1>5. QED
  BY <1>1, <1>3, <1>4

LEMMA InitIInv == Init => IInv
<1> SUFFICES ASSUME Init PROVE IInv
  OBVIOUS
<1>1. /\ ht.valid = [s \in Slots |-> FALSE]
      /\ ht.key = [s \in Slots |-> ZeroKey]
      /\ ht.tid = [s \in Slots |-> ZeroTid]
      /\ ht.row_count = 0
  BY DEF Init, ZeroTable
<1>2. ht \in Table
  BY TableAssumption DEF Init, ZeroTable, Table
<1>3. QED
  BY <1>1, <1>2, ClearedTable
  DEF IInv, TypeOK, RowCountExact, ChainsUnbroken, RowsReachable

LEMMA ResetTable ==
    ASSUME NEW t \in Table
    PROVE  /\ Reset(t) \in Table
           /\ Reset(t).valid = [s \in Slots |-> FALSE]
           /\ Reset(t).row_count = 0
  BY DEF Reset, Table

\* reset() keeps the invariant: the stale keys it leaves are in no chain.
LEMMA ResetIInv ==
    ASSUME IInv, DoReset
    PROVE  IInv'
<1>1. ht' \in Table /\ ht'.valid = [s \in Slots |-> FALSE] /\ ht'.row_count = 0
  BY ResetTable DEF IInv, TypeOK, DoReset
<1>2. QED
  BY <1>1, ClearedTable
  DEF IInv, TypeOK, RowCountExact, ChainsUnbroken, RowsReachable

\* build() keeps the invariant.
LEMMA BuildIInv ==
    ASSUME IInv, NEW k \in Keys, NEW x \in Tids, DoBuild(k, x)
    PROVE  IInv'
<1>1. ht \in Table /\ ht' = Build(ht, k, x)
  BY DEF IInv, TypeOK, DoBuild
<1>2. CASE BuildError(ht, k) # "ERR_NONE"
  <2>1. ht' = ht
    BY <1>1, <1>2 DEF Build
  <2>2. QED
    BY <2>1 DEF IInv, TypeOK, RowCountExact, ChainsUnbroken, RowsReachable
<1>3. CASE BuildError(ht, k) = "ERR_NONE"
  <2> DEFINE s == FreeSlot(ht, k)
             f == First(FreeSteps(ht, k))
  <2>1. /\ ht' \in Table
        /\ ht.row_count < HT_MAX_ROWS
        /\ FreeSteps(ht, k) # {}
        /\ ht'.valid = [ht.valid EXCEPT ![s] = TRUE]
        /\ ht'.key = [ht.key EXCEPT ![s] = k]
        /\ ht'.tid = [ht.tid EXCEPT ![s] = x]
        /\ ht'.row_count = ht.row_count + 1
    BY <1>1, <1>3, BuildFacts
  <2>2. TypeOK'
    BY <2>1 DEF TypeOK
  <2>3. RowCountExact'
    <3>1. Cardinality(Occupied(ht')) = Cardinality(Occupied(ht)) + 1
      BY <1>1, <1>3, BuildOccupies
    <3>2. ht.row_count \in Nat /\ HT_MAX_ROWS \in Nat
      BY <1>1, TableAssumption DEF Table
    <3>3. QED
      BY <2>1, <3>1, <3>2 DEF IInv, RowCountExact
  <2>4. ChainsUnbroken'
    BY <1>1, <1>3, BuildKeepsChains DEF IInv, ChainsUnbroken
  <2>5. RowsReachable'
    <3>1. s \in Slots /\ f \in Steps /\ s = ProbeSlot(k, f)
      BY <1>1, <2>1, FreeSlotFacts DEF FreeSlot
    <3>2. ht.valid \in [Slots -> BOOLEAN] /\ ht.key \in [Slots -> Keys]
      BY <1>1 DEF Table
    <3>3. SUFFICES ASSUME NEW q \in Slots, ht'.valid[q]
                   PROVE  \E d \in Steps : ProbeSlot(ht'.key[q], d) = q
      BY DEF RowsReachable
    <3> HIDE DEF s, f
    <3>4. CASE q = s
      BY <2>1, <3>1, <3>2, <3>4
    <3>5. CASE q # s
      <4>1. ht.valid[q] /\ ht'.key[q] = ht.key[q]
        BY <2>1, <3>2, <3>3, <3>5
      <4>2. QED
        BY <4>1 DEF IInv, RowsReachable
    <3>6. QED
      BY <3>4, <3>5
  <2>6. QED
    BY <2>2, <2>3, <2>4, <2>5 DEF IInv
<1>4. QED
  BY <1>2, <1>3

LEMMA NextIInv == IInv /\ [Next]_vars => IInv'
<1> SUFFICES ASSUME IInv, [Next]_vars PROVE IInv'
  OBVIOUS
<1>1. CASE DoReset
  BY <1>1, ResetIInv
<1>2. ASSUME NEW k \in Keys, NEW x \in Tids, DoBuild(k, x)
      PROVE  IInv'
  BY <1>2, BuildIInv
<1>3. ASSUME UNCHANGED ht
      PROVE  IInv'
  BY <1>3 DEF IInv, TypeOK, RowCountExact, ChainsUnbroken, RowsReachable
<1>4. QED
  BY <1>1, <1>2, <1>3 DEF Next, DoProbe, vars

\* The table's inductive invariant holds in every reachable state.
THEOREM Invariance == Spec => []IInv
<1>1. QED
  BY InitIInv, NextIInv, PTL DEF Spec

\* Storage shape, of hash_join_linear.hpp's four arrays and its counter.
THEOREM TypeCorrect == Spec => []TypeOK
<1>1. IInv => TypeOK
  BY DEF IInv
<1>2. QED
  BY <1>1, Invariance, PTL

\* row_count is exact and never passes HT_MAX_ROWS, through every sequence
\* of reset(), successful and failed build() calls.
THEOREM RowCountIsExact == Spec => []RowCountExact
<1>1. IInv => RowCountExact
  BY DEF IInv
<1>2. QED
  BY <1>1, Invariance, PTL

\* No stored key ever lies behind an empty slot of its chain, so probe()'s
\* early return at an empty slot never misses a row.
THEOREM NoKeyBehindAHole == Spec => []ChainsUnbroken
<1>1. IInv => ChainsUnbroken
  BY DEF IInv
<1>2. QED
  BY <1>1, Invariance, PTL

\* No row is ever stored where no lookup of its key would look: build() and
\* probe() walk the same chain.
THEOREM EveryRowReachable == Spec => []RowsReachable
<1>1. IInv => RowsReachable
  BY DEF IInv
<1>2. QED
  BY <1>1, Invariance, PTL

-----------------------------------------------------------------------------
(* The table implements JoinTable.                                         *)

\* A miss is NoTid and a hit is not.
LEMMA ProbeResultType ==
    ASSUME NEW t \in Table, NEW k \in Keys
    PROVE  ProbeResult(t, k) = NoTid <=> ~ Found(t, k)
<1>1. ASSUME Found(t, k) PROVE FoundTid(t, k) \in Tids
  <2>1. StopSlot(t, k) \in Slots
    BY <1>1, StopSlotFacts DEF Found
  <2>2. t.tid \in [Slots -> Tids]
    BY DEF Table
  <2>3. QED
    BY <2>1, <2>2 DEF FoundTid
<1>2. QED
  BY <1>1, NoTidAssumption DEF ProbeResult

\* An empty table is the empty map.
LEMMA ClearedMap ==
    ASSUME NEW t \in Table, t.valid = [s \in Slots |-> FALSE], t.row_count = 0
    PROVE  [k \in Keys |-> ProbeResult(t, k)] = [k \in Keys |-> NoTid]
<1>1. \A k \in Keys : ~ Found(t, k)
  BY ClearedTable
<1>2. QED
  BY <1>1 DEF ProbeResult

\* A successful build is an insertion into the map.
LEMMA BuildMap ==
    ASSUME NEW t \in Table, NEW k \in Keys, NEW x \in Tids,
           BuildError(t, k) = "ERR_NONE", \A j \in Keys : ChainUnbroken(t, j)
    PROVE  [j \in Keys |-> ProbeResult(Build(t, k, x), j)] =
             IF [j \in Keys |-> ProbeResult(t, j)][k] = NoTid
             THEN [[j \in Keys |-> ProbeResult(t, j)] EXCEPT ![k] = x]
             ELSE [j \in Keys |-> ProbeResult(t, j)]
<1> DEFINE u == Build(t, k, x)
<1>1. \A j \in Keys : j # k => ProbeResult(u, j) = ProbeResult(t, j)
  BY BuildKeepsOthers
<1>2. ProbeResult(u, k) = IF Found(t, k) THEN ProbeResult(t, k) ELSE x
  BY BuildFirstWins DEF ProbeResult
<1>3. ProbeResult(t, k) = NoTid <=> ~ Found(t, k)
  BY ProbeResultType
<1> HIDE DEF u
<1>4. CASE Found(t, k)
  <2>1. \A j \in Keys : ProbeResult(u, j) = ProbeResult(t, j)
    BY <1>1, <1>2, <1>4
  <2>2. QED
    BY <1>3, <1>4, <2>1 DEF u
<1>5. CASE ~ Found(t, k)
  BY <1>1, <1>2, <1>3, <1>5 DEF u
<1>6. QED
  BY <1>4, <1>5

\* Every call of reset, build or probe is the matching step of JoinTable.
LEMMA StepSimulates == IInv /\ [Next]_vars => [Abstract!Next]_(Abstract!vars)
<1> SUFFICES ASSUME IInv, [Next]_vars
             PROVE  [Abstract!Next]_(Abstract!vars)
  OBVIOUS
<1>1. /\ ht \in Table
      /\ \A j \in Keys : ChainUnbroken(ht, j)
      /\ Cardinality(Occupied(ht)) = ht.row_count
  BY DEF IInv, TypeOK, ChainsUnbroken, RowCountExact
<1>2. CASE DoReset
  <2>1. ht' \in Table /\ ht'.valid = [s \in Slots |-> FALSE] /\ ht'.row_count = 0
    BY <1>1, <1>2, ResetTable DEF DoReset
  <2>2. [k \in Keys |-> ProbeResult(ht', k)] = [k \in Keys |-> NoTid]
    BY <2>1, ClearedMap
  <2>3. Abstract!Clear
    BY <1>2, <2>1, <2>2 DEF DoReset, Abstract!Clear
  <2>4. QED
    BY <2>3 DEF Abstract!Next
<1>3. ASSUME NEW k \in Keys, NEW x \in Tids, DoBuild(k, x)
      PROVE  Abstract!Next
  <2>1. ht' = Build(ht, k, x)
        /\ reply' = [op |-> "build", key |-> k, err |-> BuildError(ht, k)]
    BY <1>3 DEF DoBuild
  <2>2. CASE BuildError(ht, k) = "ERR_NONE"
    <3>1. ht.row_count < HT_MAX_ROWS /\ ht'.row_count = ht.row_count + 1
      BY <1>1, <2>1, <2>2, BuildFacts
    <3>2. [j \in Keys |-> ProbeResult(ht', j)] =
             IF [j \in Keys |-> ProbeResult(ht, j)][k] = NoTid
             THEN [[j \in Keys |-> ProbeResult(ht, j)] EXCEPT ![k] = x]
             ELSE [j \in Keys |-> ProbeResult(ht, j)]
      BY <1>1, <2>1, <2>2, BuildMap
    <3>3. Abstract!Insert(k, x)
      BY <2>1, <2>2, <3>1, <3>2 DEF Abstract!Insert
    <3>4. QED
      BY <3>3 DEF Abstract!Next
  <2>3. CASE BuildError(ht, k) # "ERR_NONE"
    <3>1. ht' = ht
      BY <2>1, <2>3 DEF Build
    <3>2. /\ BuildError(ht, k) = "ERR_OVERFLOW"
          /\ ht.row_count >= HT_MAX_ROWS \/ FreeSteps(ht, k) = {}
      BY <2>3 DEF BuildError
    <3>3. ht.row_count >= HT_MAX_ROWS \/ ht.row_count >= MAX_PROBE_DIST
      BY <1>1, <3>2, FullChainRows
    <3>4. ht.row_count >= IF MAX_PROBE_DIST <= HT_MAX_ROWS THEN MAX_PROBE_DIST
                                                           ELSE HT_MAX_ROWS
      <4>1. ht.row_count \in Nat /\ HT_MAX_ROWS \in Nat /\ MAX_PROBE_DIST \in Nat
        BY <1>1, TableAssumption DEF Table
      <4>2. QED
        BY <3>3, <4>1
    <3>5. Abstract!Reject(k)
      BY <2>1, <3>1, <3>2, <3>4 DEF Abstract!Reject
    <3>6. QED
      BY <3>5 DEF Abstract!Next
  <2>4. QED
    BY <2>2, <2>3
<1>4. ASSUME NEW k \in Keys, DoProbe(k)
      PROVE  Abstract!Next
  <2>1. [j \in Keys |-> ProbeResult(ht, j)][k] = ProbeResult(ht, k)
    OBVIOUS
  <2>2. Abstract!Lookup(k)
    BY <1>4, <2>1 DEF DoProbe, Abstract!Lookup
  <2>3. QED
    BY <2>2 DEF Abstract!Next
<1>5. CASE UNCHANGED vars
  BY <1>5 DEF vars, Abstract!vars
<1>6. QED
  BY <1>2, <1>3, <1>4, <1>5 DEF Next

LEMMA InitSimulates == Init => Abstract!Init
<1> SUFFICES ASSUME Init PROVE Abstract!Init
  OBVIOUS
<1>1. ht \in Table
  BY InitIInv DEF IInv, TypeOK
<1>2. ht.valid = [s \in Slots |-> FALSE] /\ ht.row_count = 0
  BY DEF Init, ZeroTable
<1>3. [k \in Keys |-> ProbeResult(ht, k)] = [k \in Keys |-> NoTid]
  BY <1>1, <1>2, ClearedMap
<1>4. QED
  BY <1>2, <1>3 DEF Init, Abstract!Init

\* The linear-probing table implements the abstract join table: seen through
\* probe(), it is a first-row-wins map that builds extend key by key, that
\* failed builds and lookups leave alone, and that takes at least
\* min(MAX_PROBE_DIST, HT_MAX_ROWS) rows whatever the keys are.
THEOREM Refinement == Spec => ImplementsJoinTable
<1>1. QED
  BY InitSimulates, StepSimulates, Invariance, PTL
  DEF Spec, ImplementsJoinTable, Abstract!Spec

=============================================================================
