------------------------- MODULE ChaoticHostProofs -------------------------
(***************************************************************************)
(* Proofs about ChaoticHost, the kernel against any host, for every table, *)
(* hash function, memory, repertoire of frames and set of keys and TIDs.   *)
(***************************************************************************)
EXTENDS ChaoticHost, FiniteSetTheorems, SequenceTheorems, TLAPS

-----------------------------------------------------------------------------
(***************************************************************************)
(* The table.  What LinearHashTableProofs says of build() and probe() is   *)
(* cited for the kernel's table; the absent TID of a lookup plays no part  *)
(* here, so any value outside Tids will do.                                *)
(***************************************************************************)
OtherTid == {x \in Tids : x \notin x}

HT == INSTANCE LinearHashTableProofs WITH reply <- ht, NoTid <- OtherTid

LEMMA OtherTidIsNone == OtherTid \notin Tids
  BY DEF OtherTid

\* The operators of LinearProbing are the same ones on both ways.
LEMMA SameChains ==
    /\ HT!Slots = Slots /\ HT!Steps = Steps /\ HT!Table = Table
    /\ \A S : HT!First(S) = First(S)
    /\ \A k, d : HT!ProbeSlot(k, d) = ProbeSlot(k, d)
  BY DEF HT!Slots, Slots, HT!Steps, Steps, HT!Table, Table, HT!First, First,
         HT!ProbeSlot, ProbeSlot

LEMMA SameSteps ==
    /\ \A t, k : HT!FreeSteps(t, k) = FreeSteps(t, k)
    /\ \A t, k : HT!StopSteps(t, k) = StopSteps(t, k)
    /\ \A t : HT!Reset(t) = Reset(t)
<1>1. \A t, k : HT!FreeSteps(t, k) = FreeSteps(t, k)
  BY SameChains DEF HT!FreeSteps, FreeSteps
<1>2. \A t, k : HT!StopSteps(t, k) = StopSteps(t, k)
  BY SameChains DEF HT!StopSteps, StopSteps
<1>3. \A t : HT!Reset(t) = Reset(t)
  BY SameChains DEF HT!Reset, Reset
<1> QED
  BY <1>1, <1>2, <1>3

LEMMA SameOperations ==
    /\ \A t, k : HT!FreeSlot(t, k) = FreeSlot(t, k)
    /\ \A t, k : HT!StopSlot(t, k) = StopSlot(t, k)
    /\ \A t, k : HT!BuildError(t, k) = BuildError(t, k)
    /\ \A t, k : HT!Found(t, k) <=> Found(t, k)
    /\ \A t, k : HT!FoundTid(t, k) = FoundTid(t, k)
    /\ \A t, k, x : HT!Build(t, k, x) = Build(t, k, x)
<1>1. \A t, k : HT!FreeSlot(t, k) = FreeSlot(t, k) /\ HT!StopSlot(t, k) = StopSlot(t, k)
  BY SameChains, SameSteps DEF HT!FreeSlot, FreeSlot, HT!StopSlot, StopSlot
<1>2. \A t, k : HT!BuildError(t, k) = BuildError(t, k)
  BY SameSteps DEF HT!BuildError, BuildError
<1>3. \A t, k : (HT!Found(t, k) <=> Found(t, k)) /\ HT!FoundTid(t, k) = FoundTid(t, k)
  BY <1>1, SameSteps DEF HT!Found, Found, HT!FoundTid, FoundTid
<1>4. ASSUME NEW t, NEW k, NEW x PROVE HT!Build(t, k, x) = Build(t, k, x)
  <2>1. HT!FreeSlot(t, k) = FreeSlot(t, k) /\ HT!BuildError(t, k) = BuildError(t, k)
    BY <1>1, <1>2
  <2> QED
    BY <2>1, Zenon DEF HT!Build, Build
<1> QED
  BY <1>1, <1>2, <1>3, <1>4

\* The occupied slots, and the rows in them.
Occupied(t) == {s \in Slots : t.valid[s]}
Stored(t) == {[key |-> t.key[s], tid |-> t.tid[s]] : s \in Occupied(t)}

\* What probe() needs, for every key.
Chained(t) == \A k \in Keys : HT!ChainUnbroken(t, k)

LEMMA ResetCleared ==
    ASSUME NEW t \in Table
    PROVE  /\ Reset(t) \in Table /\ Chained(Reset(t)) /\ Stored(Reset(t)) = {}
           /\ Cardinality(Occupied(Reset(t))) = 0 /\ Reset(t).row_count = 0
           /\ \A k \in Keys : ~Found(Reset(t), k)
<1> DEFINE u == Reset(t)
<1>1. u \in Table /\ u.valid = [s \in Slots |-> FALSE] /\ u.row_count = 0
  BY DEF Reset, Table
<1> HIDE DEF u
<1>2. \A k \in Keys : HT!ChainUnbroken(u, k) /\ ~HT!Found(u, k)
  <2>1. u \in HT!Table /\ u.valid = [s \in HT!Slots |-> FALSE]
    BY <1>1, SameChains
  <2> QED
    BY <1>1, <2>1, OtherTidIsNone, TableAssumption, HT!ClearedTable
<1>3. \A k \in Keys : ~Found(u, k)
  BY <1>2, SameOperations
<1>4. Occupied(u) = {}
  BY <1>1 DEF Occupied
<1>5. Stored(u) = {} /\ Cardinality(Occupied(u)) = 0
  BY <1>4, FS_EmptySet DEF Stored
<1> QED
  BY <1>1, <1>2, <1>3, <1>5 DEF u, Chained

LEMMA ZeroTableOK == ZeroTable \in Table
  BY TableAssumption DEF ZeroTable, Table

\* What a successful build() writes, and where.
LEMMA BuildWrites ==
    ASSUME NEW t \in Table, NEW k \in Keys, NEW x \in Tids, BuildError(t, k) = "ERR_NONE"
    PROVE  /\ FreeSlot(t, k) \in Slots /\ t.valid[FreeSlot(t, k)] = FALSE
           /\ Build(t, k, x) \in Table
           /\ Build(t, k, x).valid = [t.valid EXCEPT ![FreeSlot(t, k)] = TRUE]
           /\ Build(t, k, x).key = [t.key EXCEPT ![FreeSlot(t, k)] = k]
           /\ Build(t, k, x).tid = [t.tid EXCEPT ![FreeSlot(t, k)] = x]
           /\ Build(t, k, x).row_count = t.row_count + 1
<1>1. FreeSteps(t, k) # {} /\ t \in HT!Table /\ HT!FreeSteps(t, k) = FreeSteps(t, k)
  BY SameChains, SameSteps DEF BuildError
<1>2. HT!FreeSlot(t, k) \in HT!Slots /\ t.valid[HT!FreeSlot(t, k)] = FALSE
  BY <1>1, OtherTidIsNone, TableAssumption, HT!FreeSlotFacts
<1>3. FreeSlot(t, k) \in Slots /\ t.valid[FreeSlot(t, k)] = FALSE
  BY <1>2, SameChains, SameOperations
<1>4. Build(t, k, x) = [valid |-> [t.valid EXCEPT ![FreeSlot(t, k)] = TRUE],
                        key |-> [t.key EXCEPT ![FreeSlot(t, k)] = k],
                        tid |-> [t.tid EXCEPT ![FreeSlot(t, k)] = x],
                        row_count |-> t.row_count + 1]
  BY DEF Build
<1>5. /\ t.valid \in [Slots -> BOOLEAN] /\ t.key \in [Slots -> Keys]
      /\ t.tid \in [Slots -> Tids] /\ t.row_count + 1 \in Nat
  BY DEF Table
<1>6. Build(t, k, x) \in Table
  BY <1>3, <1>4, <1>5 DEF Table
<1> QED
  BY <1>3, <1>4, <1>6

\* What probe() finds after a successful build().
LEMMA BuildFinds ==
    ASSUME NEW t \in Table, Chained(t), NEW k \in Keys, NEW x \in Tids,
           BuildError(t, k) = "ERR_NONE"
    PROVE  /\ Chained(Build(t, k, x))
           /\ Found(Build(t, k, x), k)
           /\ FoundTid(Build(t, k, x), k) = IF Found(t, k) THEN FoundTid(t, k) ELSE x
           /\ \A j \in Keys \ {k} : Found(Build(t, k, x), j) <=> Found(t, j)
           /\ \A j \in Keys \ {k} : Found(t, j) => FoundTid(Build(t, k, x), j) = FoundTid(t, j)
<1> DEFINE u == Build(t, k, x)
<1>1. /\ t \in HT!Table /\ HT!BuildError(t, k) = "ERR_NONE" /\ HT!Build(t, k, x) = u
      /\ u \in HT!Table
  BY SameChains, SameOperations, BuildWrites
<1>2. \A j \in Keys : HT!ChainUnbroken(t, j)
  BY DEF Chained
<1>3. Chained(u)
  <2> SUFFICES ASSUME NEW j \in Keys PROVE HT!ChainUnbroken(HT!Build(t, k, x), j)
    BY <1>1 DEF Chained
  <2> QED
    BY <1>1, <1>2, OtherTidIsNone, TableAssumption, HT!BuildKeepsChains
<1>4. /\ HT!Found(HT!Build(t, k, x), k)
      /\ HT!FoundTid(HT!Build(t, k, x), k) =
            IF HT!Found(t, k) THEN HT!FoundTid(t, k) ELSE x
  BY <1>1, <1>2, OtherTidIsNone, TableAssumption, HT!BuildFirstWins
<1>5. ASSUME NEW j \in Keys, j # k
      PROVE  /\ HT!Found(u, j) <=> HT!Found(t, j)
             /\ HT!Found(t, j) => HT!FoundTid(u, j) = HT!FoundTid(t, j)
  <2>1. HT!ProbeResult(HT!Build(t, k, x), j) = HT!ProbeResult(t, j)
    BY <1>1, <1>2, <1>5, OtherTidIsNone, TableAssumption, HT!BuildKeepsOthers
  <2>2. HT!ProbeResult(t, j) = OtherTid <=> ~HT!Found(t, j)
    BY <1>1, OtherTidIsNone, TableAssumption, HT!ProbeResultType
  <2>3. HT!ProbeResult(u, j) = OtherTid <=> ~HT!Found(u, j)
    <3> HIDE DEF u
    <3> QED
      BY <1>1, OtherTidIsNone, TableAssumption, HT!ProbeResultType
  <2> QED
    BY <1>1, <2>1, <2>2, <2>3 DEF HT!ProbeResult
<1>6. \A s, j : (HT!Found(s, j) <=> Found(s, j)) /\ HT!FoundTid(s, j) = FoundTid(s, j)
  BY SameOperations
<1>7. Found(u, k) /\ FoundTid(u, k) = IF Found(t, k) THEN FoundTid(t, k) ELSE x
  BY <1>1, <1>4, <1>6
<1>8. \A j \in Keys \ {k} : /\ Found(u, j) <=> Found(t, j)
                            /\ Found(t, j) => FoundTid(u, j) = FoundTid(t, j)
  <2> SUFFICES ASSUME NEW j \in Keys, j # k
               PROVE  /\ Found(u, j) <=> Found(t, j)
                      /\ Found(t, j) => FoundTid(u, j) = FoundTid(t, j)
    OBVIOUS
  <2> HIDE DEF u
  <2> QED
    BY <1>5, <1>6
<1> HIDE DEF u
<1> QED
  BY <1>3, <1>7, <1>8 DEF u

\* A successful build() occupies one slot more, with its row.
LEMMA BuildStores ==
    ASSUME NEW t \in Table, NEW k \in Keys, NEW x \in Tids, BuildError(t, k) = "ERR_NONE"
    PROVE  /\ Cardinality(Occupied(Build(t, k, x))) = Cardinality(Occupied(t)) + 1
           /\ Stored(Build(t, k, x)) = Stored(t) \cup {[key |-> k, tid |-> x]}
<1> DEFINE u == Build(t, k, x)
           s == FreeSlot(t, k)
           R(w, a) == [key |-> w.key[a], tid |-> w.tid[a]]
<1>1. /\ s \in Slots /\ t.valid[s] = FALSE
      /\ u.valid = [t.valid EXCEPT ![s] = TRUE]
      /\ u.key = [t.key EXCEPT ![s] = k] /\ u.tid = [t.tid EXCEPT ![s] = x]
  <2>1. s \in Slots /\ t.valid[s] = FALSE
    BY BuildWrites
  <2>2. u = [valid |-> [t.valid EXCEPT ![s] = TRUE], key |-> [t.key EXCEPT ![s] = k],
             tid |-> [t.tid EXCEPT ![s] = x], row_count |-> t.row_count + 1]
    BY DEF Build
  <2> QED
    BY <2>1, <2>2
<1>2. /\ t.valid \in [Slots -> BOOLEAN] /\ t.key \in [Slots -> Keys]
      /\ t.tid \in [Slots -> Tids]
  BY DEF Table
<1> HIDE DEF u, s
<1>3. Occupied(u) = Occupied(t) \cup {s} /\ s \notin Occupied(t)
  BY <1>1, <1>2 DEF Occupied
<1>4. IsFiniteSet(Occupied(t))
  <2>1. IsFiniteSet(Slots)
    BY TableAssumption, FS_Interval DEF Slots
  <2>2. Occupied(t) \subseteq Slots
    BY DEF Occupied
  <2> QED
    BY <2>1, <2>2, FS_Subset
<1>5. Cardinality(Occupied(u)) = Cardinality(Occupied(t)) + 1
  BY <1>3, <1>4, FS_AddElement
<1>6. R(u, s) = [key |-> k, tid |-> x]
  BY <1>1, <1>2
<1>7. \A a \in Occupied(t) : R(u, a) = R(t, a)
  BY <1>1, <1>2, <1>3 DEF Occupied
<1>8. Stored(u) = {R(u, a) : a \in Occupied(t) \cup {s}}
      /\ Stored(t) = {R(t, a) : a \in Occupied(t)}
  BY <1>3 DEF Stored
<1> HIDE DEF R
<1>9. Stored(u) = Stored(t) \cup {R(u, s)}
  BY <1>7, <1>8
<1> QED
  BY <1>5, <1>6, <1>9 DEF u

-----------------------------------------------------------------------------
(***************************************************************************)
(* Numbers and sequences.                                                  *)
(***************************************************************************)
\* Every non-empty set of numbers has a least one: the induction principle of
\* the lemmas below.
LEMMA LeastNumber ==
    ASSUME NEW S \in SUBSET Nat, S # {}
    PROVE  \E d \in S : \A e \in S : d <= e
  BY OtherTidIsNone, TableAssumption, HT!FirstStep

\* Induction over the numbers up to m, for a property given as a set.
LEMMA UpTo ==
    ASSUME NEW m \in Nat, NEW T, 0 \in T, \A i \in 1..m : i - 1 \in T => i \in T
    PROVE  \A i \in 0..m : i \in T
<1> DEFINE S == {i \in 0..m : i \notin T}
<1> SUFFICES ASSUME S # {} PROVE FALSE
  OBVIOUS
<1>1. S \in SUBSET Nat
  OBVIOUS
<1>2. PICK d \in S : \A e \in S : d <= e
  <2> HIDE DEF S
  <2> QED
    BY <1>1, LeastNumber
<1>3. d \in 1..m /\ d - 1 \in 0..m /\ ~(d <= d - 1)
  BY <1>2
<1>4. d - 1 \in T
  BY <1>2, <1>3
<1> QED
  BY <1>2, <1>3, <1>4

\* The greatest element of a set of numbers with a bound, which Max names.
LEMMA MaxInSet ==
    ASSUME NEW m \in Nat, NEW S \in SUBSET (0..m), S # {}
    PROVE  Max(S) \in S /\ \A e \in S : Max(S) >= e
<1> DEFINE T == {m - n : n \in S}
<1>1. T \in SUBSET Nat /\ T # {}
  <2>1. \A n \in S : m - n \in Nat
    OBVIOUS
  <2> QED
    BY <2>1
<1>2. PICK d \in T : \A e \in T : d <= e
  <2> HIDE DEF T
  <2> QED
    BY <1>1, LeastNumber
<1>3. PICK n \in S : d = m - n
  BY <1>2
<1>4. ASSUME NEW e \in S PROVE n >= e
  <2>1. m - e \in T /\ e \in Nat /\ n \in Nat
    OBVIOUS
  <2>2. m - n <= m - e
    BY <1>2, <1>3, <2>1
  <2> QED
    BY <2>1, <2>2
<1> QED
  BY <1>3, <1>4 DEF Max

LEMMA MinOfTwo ==
    ASSUME NEW a \in Nat, NEW b \in Nat
    PROVE  Min({a, b}) \in {a, b} /\ Min({a, b}) <= a /\ Min({a, b}) <= b
<1>1. \E m \in {a, b} : \A y \in {a, b} : m <= y
  OBVIOUS
<1>2. Min({a, b}) \in {a, b} /\ \A y \in {a, b} : Min({a, b}) <= y
  BY <1>1 DEF Min
<1> QED
  BY <1>2

\* An element more.
LEMMA AppendFacts ==
    ASSUME NEW S, NEW s \in Seq(S), NEW e \in S
    PROVE  /\ Append(s, e) \in Seq(S) /\ Len(Append(s, e)) = Len(s) + 1 /\ Len(s) \in Nat
           /\ Append(s, e)[Len(s) + 1] = e
           /\ \A i \in 1..Len(s) : Append(s, e)[i] = s[i]
           /\ DOMAIN s = 1..Len(s) /\ DOMAIN Append(s, e) = 1..(Len(s) + 1)
  OBVIOUS

LEMMA ToSetAppend ==
    ASSUME NEW S, NEW s \in Seq(S), NEW e \in S
    PROVE  ToSet(Append(s, e)) = ToSet(s) \cup {e}
<1> DEFINE u == Append(s, e)
           n == Len(s)
<1>1. /\ n \in Nat /\ u[n + 1] = e /\ \A i \in 1..n : u[i] = s[i]
      /\ DOMAIN s = 1..n /\ DOMAIN u = 1..(n + 1)
  BY AppendFacts
<1> HIDE DEF u, n
<1>2. \A i \in 1..(n + 1) : i \in 1..n \/ i = n + 1
  BY <1>1
<1>3. \A i \in 1..n : i \in 1..(n + 1)
  BY <1>1
<1>4. n + 1 \in 1..(n + 1)
  BY <1>1
<1>5. ToSet(s) = {s[i] : i \in 1..n} /\ ToSet(u) = {u[i] : i \in 1..(n + 1)}
  BY <1>1, Zenon DEF ToSet
<1>6. \A y : y \in ToSet(u) <=> y \in ToSet(s) \/ y = e
  BY <1>1, <1>2, <1>3, <1>4, <1>5
<1> QED
  BY <1>6 DEF u

\* A sequence is taken apart at its end.
LEMMA PrefixStep ==
    ASSUME NEW S, NEW s \in Seq(S), NEW i \in 1..Len(s)
    PROVE  /\ SubSeq(s, 1, i) = Append(SubSeq(s, 1, i - 1), s[i])
           /\ SubSeq(s, 1, i - 1) \in Seq(S) /\ s[i] \in S /\ Len(SubSeq(s, 1, i - 1)) = i - 1
  OBVIOUS

LEMMA AppendConcat ==
    ASSUME NEW S
    PROVE  \A s, t \in Seq(S), e \in S :
              Append(s \o t, e) = s \o Append(t, e) /\ s \o t \in Seq(S)
<1> SUFFICES ASSUME NEW s \in Seq(S), NEW t \in Seq(S), NEW e \in S
             PROVE  Append(s \o t, e) = s \o Append(t, e) /\ s \o t \in Seq(S)
  OBVIOUS
<1> DEFINE a == Append(s \o t, e)
           b == s \o Append(t, e)
<1>1. /\ s \o t \in Seq(S) /\ a \in Seq(S) /\ b \in Seq(S)
      /\ Len(a) = Len(s) + Len(t) + 1 /\ Len(b) = Len(s) + Len(t) + 1
  OBVIOUS
<1>2. \A i \in 1..(Len(s) + Len(t) + 1) : a[i] = b[i]
  OBVIOUS
<1> HIDE DEF a, b
<1>3. a = b
  BY <1>1, <1>2, SeqEqual
<1> QED
  BY <1>1, <1>3 DEF a, b

LEMMA PrefixWhole ==
    ASSUME NEW S, NEW s \in Seq(S)
    PROVE  SubSeq(s, 1, Len(s)) = s /\ SubSeq(s, 1, 0) = <<>>
  OBVIOUS

-----------------------------------------------------------------------------
(***************************************************************************)
(* Rows picked from a sequence, in its order: the recursions of RowsIn,    *)
(* ProbePartition and JoinOf.                                              *)
(***************************************************************************)
\* f collects those x[i] of which hit[i] holds.
Collects(f, hit, x, n) ==
    f[0] = <<>> /\ \A i \in 1..n : f[i] = IF hit[i] THEN Append(f[i - 1], x[i]) ELSE f[i - 1]

LEMMA CollectsExist ==
    ASSUME NEW m \in Nat, NEW hit, NEW x
    PROVE  \E f : DOMAIN f = 0..m /\ Collects(f, hit, x, m)
<1> DEFINE T == {n \in 0..m : \E f : DOMAIN f = 0..n /\ Collects(f, hit, x, n)}
<1>1. 0 \in T
  <2> DEFINE f == [i \in 0..0 |-> <<>>]
  <2>1. DOMAIN f = 0..0 /\ Collects(f, hit, x, 0)
    BY DEF Collects
  <2> QED
    BY <2>1
<1>2. ASSUME NEW n \in 1..m, n - 1 \in T PROVE n \in T
  <2>1. PICK f : DOMAIN f = 0..(n - 1) /\ Collects(f, hit, x, n - 1)
    BY <1>2
  <2> DEFINE last == IF hit[n] THEN Append(f[n - 1], x[n]) ELSE f[n - 1]
             g == [i \in 0..n |-> IF i = n THEN last ELSE f[i]]
  <2>2. /\ n \in Nat /\ n # 0 /\ 0 \in 0..n
        /\ f[0] = <<>>
        /\ \A i \in 1..(n - 1) : f[i] = IF hit[i] THEN Append(f[i - 1], x[i]) ELSE f[i - 1]
    BY <2>1 DEF Collects
  <2>3. g[0] = <<>>
    BY <2>2
  <2>4. ASSUME NEW i \in 1..n
        PROVE  g[i] = IF hit[i] THEN Append(g[i - 1], x[i]) ELSE g[i - 1]
    <3>1. i \in 0..n /\ i - 1 \in 0..n /\ i - 1 # n
      BY <2>2
    <3>2. g[i - 1] = f[i - 1] /\ g[i] = IF i = n THEN last ELSE f[i]
      BY <3>1
    <3>3. CASE i = n
      BY <3>2, <3>3
    <3>4. CASE i # n
      <4>1. i \in 1..(n - 1)
        BY <2>2, <3>4
      <4> QED
        BY <2>2, <3>2, <3>4, <4>1
    <3> QED
      BY <3>3, <3>4
  <2>5. DOMAIN g = 0..n
    OBVIOUS
  <2> HIDE DEF g
  <2>6. Collects(g, hit, x, n)
    BY <2>3, <2>4 DEF Collects
  <2>7. n \in 0..m
    OBVIOUS
  <2> QED
    BY <2>5, <2>6, <2>7
<1> HIDE DEF T
<1>3. m \in T
  <2>1. m \in 0..m
    OBVIOUS
  <2>2. \A i \in 0..m : i \in T
    BY <1>1, <1>2, UpTo
  <2> QED
    BY <2>1, <2>2
<1> QED
  BY <1>3 DEF T

\* There is one such function.
LEMMA CollectsAgree ==
    ASSUME NEW n \in Nat, NEW hit, NEW x, NEW f, NEW g,
           Collects(f, hit, x, n), Collects(g, hit, x, n)
    PROVE  f[n] = g[n]
<1> DEFINE T == {i \in 0..n : f[i] = g[i]}
<1>1. 0 \in T
  BY DEF Collects
<1>2. ASSUME NEW i \in 1..n, i - 1 \in T PROVE i \in T
  <2>1. /\ f[i] = IF hit[i] THEN Append(f[i - 1], x[i]) ELSE f[i - 1]
        /\ g[i] = IF hit[i] THEN Append(g[i - 1], x[i]) ELSE g[i - 1]
    BY DEF Collects
  <2>2. f[i - 1] = g[i - 1] /\ i \in 0..n
    BY <1>2
  <2> QED
    BY <2>1, <2>2
<1> HIDE DEF T
<1>3. \A i \in 0..n : i \in T
  BY <1>1, <1>2, UpTo
<1>4. n \in T
  BY <1>3
<1> QED
  BY <1>4 DEF T

\* hit marks the first n rows that belong to partition p.
Marks(hit, rows, p, K, n) == \A i \in 1..n : hit[i] <=> partition_of(rows[i].key, K) = p

\* RowsIn, row by row.
LEMMA RowsInCollects ==
    ASSUME NEW rows, NEW p, NEW K, NEW n \in Nat, Len(rows) = n, NEW hit,
           Marks(hit, rows, p, K, n)
    PROVE  \E f : RowsIn(rows, p, K) = f[n] /\ Collects(f, hit, rows, n)
<1> DEFINE mine(i) == partition_of(rows[i].key, K) = p
           c[i \in 0..n] == IF i = 0 THEN <<>>
                            ELSE IF mine(i) THEN Append(c[i - 1], rows[i])
                            ELSE c[i - 1]
<1>1. RowsIn(rows, p, K) = c[n]
  BY DEF RowsIn
<1>2. PICK f : DOMAIN f = 0..n /\ Collects(f, hit, rows, n)
  BY CollectsExist
<1>3. \A i \in 1..n : hit[i] <=> mine(i)
  BY DEF Marks
<1> HIDE DEF mine
<1> DEFINE h == [i \in 0..n |-> f[i]]
<1>4. ASSUME NEW i \in 0..n
      PROVE  f[i] = IF i = 0 THEN <<>>
                    ELSE IF mine(i) THEN Append(h[i - 1], rows[i]) ELSE h[i - 1]
  <2>1. CASE i = 0
    BY <1>2, <2>1 DEF Collects
  <2>2. CASE i # 0
    <3>1. i \in 1..n /\ i - 1 \in 0..n
      BY <2>2
    <3>2. f[i] = IF hit[i] THEN Append(f[i - 1], rows[i]) ELSE f[i - 1]
      BY <1>2, <3>1 DEF Collects
    <3>3. h[i - 1] = f[i - 1]
      BY <3>1
    <3> QED
      BY <1>3, <2>2, <3>1, <3>2, <3>3
  <2> QED
    BY <2>1, <2>2
<1>5. h = [i \in 0..n |-> IF i = 0 THEN <<>>
                          ELSE IF mine(i) THEN Append(h[i - 1], rows[i]) ELSE h[i - 1]]
  BY <1>4
<1> HIDE DEF h
<1>6. c = [i \in 0..n |-> IF i = 0 THEN <<>>
                          ELSE IF mine(i) THEN Append(c[i - 1], rows[i]) ELSE c[i - 1]]
  BY <1>5
<1> HIDE DEF c
<1>7. c[0] = <<>> /\ \A i \in 1..n : c[i] = IF mine(i) THEN Append(c[i - 1], rows[i])
                                            ELSE c[i - 1]
  <2>1. 0 \in 0..n /\ \A i \in 1..n : i \in 0..n /\ i # 0
    OBVIOUS
  <2> QED
    BY <1>6, <2>1
<1>8. Collects(c, hit, rows, n)
  BY <1>3, <1>7 DEF Collects
<1> QED
  BY <1>1, <1>8

LEMMA RowsInNone == ASSUME NEW p, NEW K PROVE RowsIn(<<>>, p, K) = <<>>
<1>1. Len(<<>>) = 0
  OBVIOUS
<1>2. Marks(<<>>, <<>>, p, K, 0)
  BY DEF Marks
<1>3. \E f : RowsIn(<<>>, p, K) = f[0] /\ Collects(f, <<>>, <<>>, 0)
  BY <1>1, <1>2, RowsInCollects
<1> QED
  BY <1>3 DEF Collects

\* A row more.
LEMMA RowsInAppend ==
    ASSUME NEW S, NEW rows \in Seq(S), NEW r \in S, NEW p, NEW K
    PROVE  /\ partition_of(r.key, K) = p =>
                 RowsIn(Append(rows, r), p, K) = Append(RowsIn(rows, p, K), r)
           /\ partition_of(r.key, K) # p =>
                 RowsIn(Append(rows, r), p, K) = RowsIn(rows, p, K)
<1> DEFINE n == Len(rows)
           u == Append(rows, r)
           hit == [i \in 1..(n + 1) |-> partition_of(u[i].key, K) = p]
<1>1. /\ n \in Nat /\ Len(u) = n + 1 /\ u[n + 1] = r /\ \A i \in 1..n : u[i] = rows[i]
  BY AppendFacts
<1> HIDE DEF u
<1>2. /\ \A i \in 1..(n + 1) : hit[i] <=> partition_of(u[i].key, K) = p
      /\ \A i \in 1..n : i \in 1..(n + 1)
      /\ n + 1 \in 1..(n + 1) /\ (n + 1) - 1 = n /\ n + 1 \in Nat
  <2>1. \A i \in 1..(n + 1) : hit[i] <=> partition_of(u[i].key, K) = p
    BY Zenon
  <2> HIDE DEF hit
  <2> QED
    BY <1>1, <2>1
<1> HIDE DEF hit, n
<1>3. Marks(hit, rows, p, K, n) /\ Marks(hit, u, p, K, n + 1)
  BY <1>1, <1>2 DEF Marks
<1>4. PICK g : RowsIn(rows, p, K) = g[n] /\ Collects(g, hit, rows, n)
  <2>1. Len(rows) = n
    BY DEF n
  <2> QED
    BY <1>1, <1>3, <2>1, RowsInCollects
<1>5. PICK f : RowsIn(u, p, K) = f[n + 1] /\ Collects(f, hit, u, n + 1)
  BY <1>1, <1>2, <1>3, RowsInCollects
<1>6. /\ f[0] = <<>>
      /\ \A i \in 1..(n + 1) : f[i] = IF hit[i] THEN Append(f[i - 1], u[i]) ELSE f[i - 1]
  BY <1>5 DEF Collects
<1>7. Collects(f, hit, rows, n)
  BY <1>1, <1>2, <1>6 DEF Collects
<1>8. f[n] = RowsIn(rows, p, K)
  BY <1>1, <1>4, <1>7, CollectsAgree
<1>9. f[n + 1] = IF partition_of(r.key, K) = p THEN Append(f[n], r) ELSE f[n]
  BY <1>1, <1>2, <1>6
<1> QED
  BY <1>5, <1>8, <1>9 DEF u

LEMMA RowsInType ==
    ASSUME NEW S, NEW rows \in Seq(S), NEW p, NEW K
    PROVE  RowsIn(rows, p, K) \in Seq(S)
<1> DEFINE T == {i \in 0..Len(rows) : RowsIn(SubSeq(rows, 1, i), p, K) \in Seq(S)}
<1>1. 0 \in T
  <2>1. SubSeq(rows, 1, 0) = <<>> /\ 0 \in 0..Len(rows) /\ <<>> \in Seq(S)
    OBVIOUS
  <2> QED
    BY <2>1, RowsInNone
<1>2. ASSUME NEW i \in 1..Len(rows), i - 1 \in T PROVE i \in T
  <2> DEFINE a == SubSeq(rows, 1, i - 1)
             e == rows[i]
  <2>1. SubSeq(rows, 1, i) = Append(a, e) /\ a \in Seq(S) /\ e \in S
    BY PrefixStep
  <2>2. RowsIn(a, p, K) \in Seq(S) /\ i \in 0..Len(rows)
    BY <1>2
  <2> HIDE DEF a, e
  <2>3. RowsIn(Append(a, e), p, K) \in {Append(RowsIn(a, p, K), e), RowsIn(a, p, K)}
    BY <2>1, RowsInAppend
  <2>4. RowsIn(Append(a, e), p, K) \in Seq(S)
    <3> DEFINE c == RowsIn(a, p, K)
    <3>1. c \in Seq(S) /\ e \in S
      BY <2>1, <2>2, Zenon
    <3> HIDE DEF c
    <3>2. Append(c, e) \in Seq(S)
      BY <3>1
    <3> QED
      BY <2>3, <3>1, <3>2, Zenon DEF c
  <2> QED
    BY <2>1, <2>2, <2>4
<1>3. Len(rows) \in T
  <2>1. Len(rows) \in Nat /\ Len(rows) \in 0..Len(rows)
    OBVIOUS
  <2> HIDE DEF T
  <2> QED
    BY <1>1, <1>2, <2>1, UpTo
<1> QED
  BY <1>3, PrefixWhole

\* The rows of two sequences, one behind the other.
LEMMA RowsInConcat ==
    ASSUME NEW S, NEW s \in Seq(S), NEW t \in Seq(S), NEW p, NEW K
    PROVE  RowsIn(s \o t, p, K) = RowsIn(s, p, K) \o RowsIn(t, p, K)
<1> DEFINE pre(i) == SubSeq(t, 1, i)
           T == {i \in 0..Len(t) :
                    RowsIn(s \o pre(i), p, K) = RowsIn(s, p, K) \o RowsIn(pre(i), p, K)}
<1>1. 0 \in T
  <2>1. pre(0) = <<>> /\ 0 \in 0..Len(t) /\ s \o <<>> = s
    OBVIOUS
  <2>2. RowsIn(s, p, K) \o <<>> = RowsIn(s, p, K)
    BY RowsInType
  <2> QED
    BY <2>1, <2>2, RowsInNone
<1>2. ASSUME NEW i \in 1..Len(t), i - 1 \in T PROVE i \in T
  <2> DEFINE a == pre(i - 1)
             e == t[i]
             A == RowsIn(s, p, K)
             B == RowsIn(a, p, K)
  <2>1. a \in Seq(S) /\ e \in S
    BY PrefixStep
  <2>2. pre(i) = Append(a, e)
    BY PrefixStep
  <2>3. \A x, y \in Seq(S), d \in S : Append(x \o y, d) = x \o Append(y, d) /\ x \o y \in Seq(S)
    BY AppendConcat
  <2>4. i \in 0..Len(t) /\ RowsIn(s \o a, p, K) = A \o B
    BY <1>2
  <2> HIDE DEF a, e
  <2>5. s \o Append(a, e) = Append(s \o a, e) /\ s \o a \in Seq(S)
    BY <2>1, <2>3
  <2>6. A \in Seq(S) /\ B \in Seq(S)
    BY <2>1, RowsInType
  <2> HIDE DEF A, B
  <2>7. Append(A \o B, e) = A \o Append(B, e)
    BY <2>1, <2>6, <2>3
  <2>8. CASE partition_of(e.key, K) = p
    <3>1. RowsIn(Append(s \o a, e), p, K) = Append(RowsIn(s \o a, p, K), e)
      <4> DEFINE w == s \o a
      <4>1. w \in Seq(S)
        BY <2>5
      <4> HIDE DEF w
      <4>2. RowsIn(Append(w, e), p, K) = Append(RowsIn(w, p, K), e)
        BY <2>1, <2>8, <4>1, RowsInAppend
      <4> QED
        BY <4>2 DEF w
    <3>2. RowsIn(Append(a, e), p, K) = Append(B, e)
      BY <2>1, <2>8, RowsInAppend DEF B
    <3>3. RowsIn(s \o pre(i), p, K) = A \o RowsIn(pre(i), p, K)
      BY <2>2, <2>4, <2>5, <2>7, <3>1, <3>2, Zenon
    <3> QED
      BY <2>4, <3>3 DEF A
  <2>9. CASE partition_of(e.key, K) # p
    <3>1. RowsIn(Append(s \o a, e), p, K) = RowsIn(s \o a, p, K)
      <4> DEFINE w == s \o a
      <4>1. w \in Seq(S)
        BY <2>5
      <4> HIDE DEF w
      <4>2. RowsIn(Append(w, e), p, K) = RowsIn(w, p, K)
        BY <2>1, <2>9, <4>1, RowsInAppend
      <4> QED
        BY <4>2 DEF w
    <3>2. RowsIn(Append(a, e), p, K) = B
      BY <2>1, <2>9, RowsInAppend DEF B
    <3>3. RowsIn(s \o pre(i), p, K) = A \o RowsIn(pre(i), p, K)
      BY <2>2, <2>4, <2>5, <3>1, <3>2, Zenon
    <3> QED
      BY <2>4, <3>3 DEF A
  <2> QED
    BY <2>8, <2>9
<1>3. Len(t) \in T
  <2>1. Len(t) \in Nat /\ Len(t) \in 0..Len(t)
    OBVIOUS
  <2> HIDE DEF T
  <2> QED
    BY <1>1, <1>2, <2>1, UpTo
<1> QED
  BY <1>3, PrefixWhole

\* The rows of a frame and the pairs of a result.
Row == [key : Keys, tid : Tids]
Pair == [inner_tid : Tids, outer_tid : Tids]

\* The inner rows of a key, the first of them, and the pair of an outer row.
RowsWith(inner, k) == {i \in DOMAIN inner : inner[i].key = k}
FirstWith(inner, k) == CHOOSE i \in RowsWith(inner, k) : \A j \in RowsWith(inner, k) : i <= j
PairFor(inner, r) == [inner_tid |-> inner[FirstWith(inner, r.key)].tid, outer_tid |-> r.tid]

\* hit marks the outer rows that have a partner, and x has their pairs.
Partners(hit, x, inner, outer, n) ==
    \A i \in 1..n : /\ hit[i] <=> RowsWith(inner, outer[i].key) # {}
                    /\ hit[i] => x[i] = PairFor(inner, outer[i])

\* JoinOf, row by row.
LEMMA JoinCollects ==
    ASSUME NEW inner, NEW outer, NEW n \in Nat, Len(outer) = n, NEW hit, NEW x,
           Partners(hit, x, inner, outer, n)
    PROVE  \E f : JoinOf(inner, outer) = f[n] /\ Collects(f, hit, x, n)
<1> DEFINE rowsOf(k) == {i \in DOMAIN inner : inner[i].key = k}
           firstOf(k) == CHOOSE i \in rowsOf(k) : \A j \in rowsOf(k) : i <= j
           none(i) == rowsOf(outer[i].key) = {}
           pair(i) == [inner_tid |-> inner[firstOf(outer[i].key)].tid, outer_tid |-> outer[i].tid]
           c[i \in 0..n] == IF i = 0 THEN <<>>
                            ELSE IF none(i) THEN c[i - 1]
                            ELSE Append(c[i - 1], pair(i))
<1>1. JoinOf(inner, outer) = c[n]
  BY DEF JoinOf
<1>2. PICK f : DOMAIN f = 0..n /\ Collects(f, hit, x, n)
  BY CollectsExist
<1>3. \A i \in 1..n : (hit[i] <=> ~none(i)) /\ (hit[i] => x[i] = pair(i))
  <2>1. \A i : none(i) <=> RowsWith(inner, outer[i].key) = {}
    BY Zenon DEF RowsWith
  <2>2. \A i : pair(i) = PairFor(inner, outer[i])
    BY Zenon DEF PairFor, FirstWith, RowsWith
  <2> HIDE DEF none, pair
  <2> QED
    BY <2>1, <2>2, Zenon DEF Partners
<1> HIDE DEF none, pair
<1> DEFINE h == [i \in 0..n |-> f[i]]
<1>4. ASSUME NEW i \in 0..n
      PROVE  f[i] = IF i = 0 THEN <<>>
                    ELSE IF none(i) THEN h[i - 1] ELSE Append(h[i - 1], pair(i))
  <2>1. CASE i = 0
    BY <1>2, <2>1 DEF Collects
  <2>2. CASE i # 0
    <3>1. i \in 1..n /\ i - 1 \in 0..n
      BY <2>2
    <3>2. f[i] = IF hit[i] THEN Append(f[i - 1], x[i]) ELSE f[i - 1]
      BY <1>2, <3>1 DEF Collects
    <3>3. h[i - 1] = f[i - 1]
      BY <3>1
    <3> QED
      BY <1>3, <2>2, <3>1, <3>2, <3>3
  <2> QED
    BY <2>1, <2>2
<1>5. h = [i \in 0..n |-> IF i = 0 THEN <<>>
                          ELSE IF none(i) THEN h[i - 1] ELSE Append(h[i - 1], pair(i))]
  BY <1>4
<1> HIDE DEF h
<1>6. c = [i \in 0..n |-> IF i = 0 THEN <<>>
                          ELSE IF none(i) THEN c[i - 1] ELSE Append(c[i - 1], pair(i))]
  BY <1>5
<1> HIDE DEF c
<1>7. c[0] = <<>> /\ \A i \in 1..n : c[i] = IF none(i) THEN c[i - 1]
                                            ELSE Append(c[i - 1], pair(i))
  <2>1. 0 \in 0..n /\ \A i \in 1..n : i \in 0..n /\ i # 0
    OBVIOUS
  <2> QED
    BY <1>6, <2>1
<1>8. Collects(c, hit, x, n)
  BY <1>3, <1>7 DEF Collects
<1> QED
  BY <1>1, <1>8

\* hit marks the rows whose keys are found in the table, and x has their pairs.
Lookups(hit, x, t, rows, n) ==
    \A i \in 1..n : /\ hit[i] <=> Found(t, rows[i].key)
                    /\ hit[i] => x[i] = [inner_tid |-> FoundTid(t, rows[i].key),
                                         outer_tid |-> rows[i].tid]

\* ProbePartition, row by row.
LEMMA ProbeCollects ==
    ASSUME NEW t, NEW rows, NEW n \in Nat, Len(rows) = n, NEW hit, NEW x,
           Lookups(hit, x, t, rows, n)
    PROVE  \E f : ProbePartition(t, rows) = f[n] /\ Collects(f, hit, x, n)
<1> DEFINE found(i) == Found(t, rows[i].key)
           pair(i) == [inner_tid |-> FoundTid(t, rows[i].key), outer_tid |-> rows[i].tid]
           c[i \in 0..n] == IF i = 0 THEN <<>>
                            ELSE IF found(i) THEN Append(c[i - 1], pair(i))
                            ELSE c[i - 1]
<1>1. ProbePartition(t, rows) = c[n]
  BY DEF ProbePartition
<1>2. PICK f : DOMAIN f = 0..n /\ Collects(f, hit, x, n)
  BY CollectsExist
<1>3. \A i \in 1..n : (hit[i] <=> found(i)) /\ (hit[i] => x[i] = pair(i))
  BY Zenon DEF Lookups
<1> HIDE DEF found, pair
<1> DEFINE h == [i \in 0..n |-> f[i]]
<1>4. ASSUME NEW i \in 0..n
      PROVE  f[i] = IF i = 0 THEN <<>>
                    ELSE IF found(i) THEN Append(h[i - 1], pair(i)) ELSE h[i - 1]
  <2>1. CASE i = 0
    BY <1>2, <2>1 DEF Collects
  <2>2. CASE i # 0
    <3>1. i \in 1..n /\ i - 1 \in 0..n
      BY <2>2
    <3>2. f[i] = IF hit[i] THEN Append(f[i - 1], x[i]) ELSE f[i - 1]
      BY <1>2, <3>1 DEF Collects
    <3>3. h[i - 1] = f[i - 1]
      BY <3>1
    <3> QED
      BY <1>3, <2>2, <3>1, <3>2, <3>3
  <2> QED
    BY <2>1, <2>2
<1>5. h = [i \in 0..n |-> IF i = 0 THEN <<>>
                          ELSE IF found(i) THEN Append(h[i - 1], pair(i)) ELSE h[i - 1]]
  BY <1>4
<1> HIDE DEF h
<1>6. c = [i \in 0..n |-> IF i = 0 THEN <<>>
                          ELSE IF found(i) THEN Append(c[i - 1], pair(i)) ELSE c[i - 1]]
  BY <1>5
<1> HIDE DEF c
<1>7. c[0] = <<>> /\ \A i \in 1..n : c[i] = IF found(i) THEN Append(c[i - 1], pair(i))
                                            ELSE c[i - 1]
  <2>1. 0 \in 0..n /\ \A i \in 1..n : i \in 0..n /\ i # 0
    OBVIOUS
  <2> QED
    BY <1>6, <2>1
<1>8. Collects(c, hit, x, n)
  BY <1>3, <1>7 DEF Collects
<1> QED
  BY <1>1, <1>8

LEMMA JoinNone == ASSUME NEW inner PROVE JoinOf(inner, <<>>) = <<>>
<1>1. Len(<<>>) = 0
  OBVIOUS
<1>2. Partners(<<>>, <<>>, inner, <<>>, 0)
  BY DEF Partners
<1>3. \E f : JoinOf(inner, <<>>) = f[0] /\ Collects(f, <<>>, <<>>, 0)
  BY <1>1, <1>2, JoinCollects
<1> QED
  BY <1>3 DEF Collects

\* An outer row more.
LEMMA JoinAppend ==
    ASSUME NEW inner
    PROVE  \A outer \in Seq(Row), r \in Row :
              /\ RowsWith(inner, r.key) # {} =>
                    JoinOf(inner, Append(outer, r)) =
                        Append(JoinOf(inner, outer), PairFor(inner, r))
              /\ RowsWith(inner, r.key) = {} =>
                    JoinOf(inner, Append(outer, r)) = JoinOf(inner, outer)
<1> TAKE outer \in Seq(Row), r \in Row
<1> DEFINE n == Len(outer)
           u == Append(outer, r)
           hit == [i \in 1..(n + 1) |-> RowsWith(inner, u[i].key) # {}]
           x == [i \in 1..(n + 1) |-> PairFor(inner, u[i])]
<1>1. /\ n \in Nat /\ Len(u) = n + 1 /\ u[n + 1] = r /\ \A i \in 1..n : u[i] = outer[i]
  BY AppendFacts
<1> HIDE DEF u
<1>2. /\ \A i \in 1..(n + 1) : hit[i] <=> RowsWith(inner, u[i].key) # {}
      /\ \A i \in 1..(n + 1) : x[i] = PairFor(inner, u[i])
  BY Zenon
<1>3. /\ \A i \in 1..n : i \in 1..(n + 1)
      /\ n + 1 \in 1..(n + 1) /\ (n + 1) - 1 = n /\ n + 1 \in Nat
  BY <1>1
<1> HIDE DEF hit, x, n
<1>4. Partners(hit, x, inner, outer, n) /\ Partners(hit, x, inner, u, n + 1)
  BY <1>1, <1>2, <1>3, Zenon DEF Partners
<1>5. PICK g : JoinOf(inner, outer) = g[n] /\ Collects(g, hit, x, n)
  <2>1. Len(outer) = n
    BY DEF n
  <2> QED
    BY <1>1, <1>4, <2>1, JoinCollects
<1>6. PICK f : JoinOf(inner, u) = f[n + 1] /\ Collects(f, hit, x, n + 1)
  BY <1>1, <1>3, <1>4, JoinCollects
<1>7. /\ f[0] = <<>>
      /\ \A i \in 1..(n + 1) : f[i] = IF hit[i] THEN Append(f[i - 1], x[i]) ELSE f[i - 1]
  BY <1>6 DEF Collects
<1>8. Collects(f, hit, x, n)
  BY <1>3, <1>7 DEF Collects
<1>9. f[n] = JoinOf(inner, outer)
  BY <1>1, <1>5, <1>8, CollectsAgree
<1>10. f[n + 1] = IF hit[n + 1] THEN Append(f[n], x[n + 1]) ELSE f[n]
  BY <1>3, <1>7
<1>11. (hit[n + 1] <=> RowsWith(inner, r.key) # {}) /\ x[n + 1] = PairFor(inner, r)
  BY <1>1, <1>2, <1>3, Zenon
<1> QED
  BY <1>6, <1>9, <1>10, <1>11 DEF u

-----------------------------------------------------------------------------
(***************************************************************************)
(* The table and the rows that were put in.                                *)
(***************************************************************************)
LEMMA FirstWithLeast ==
    ASSUME NEW S, NEW rows \in Seq(S), NEW k, RowsWith(rows, k) # {}
    PROVE  /\ FirstWith(rows, k) \in RowsWith(rows, k)
           /\ \A j \in RowsWith(rows, k) : FirstWith(rows, k) <= j
<1> DEFINE T == RowsWith(rows, k)
<1>1. T \in SUBSET Nat
  BY DEF RowsWith
<1>2. T # {}
  OBVIOUS
<1> HIDE DEF T
<1>3. \E d \in T : \A e \in T : d <= e
  BY <1>1, <1>2, LeastNumber
<1>4. FirstWith(rows, k) = CHOOSE i \in T : \A j \in T : i <= j
  BY DEF FirstWith, T
<1>5. FirstWith(rows, k) \in T /\ \A j \in T : FirstWith(rows, k) <= j
  BY <1>3, <1>4
<1> QED
  BY <1>5 DEF T

\* The first row of a key stays the first when a row is added behind.
LEMMA FirstWithAppend ==
    ASSUME NEW rows \in Seq(Row), NEW r \in Row, NEW k
    PROVE  /\ RowsWith(Append(rows, r), k) # {} <=> (RowsWith(rows, k) # {} \/ r.key = k)
           /\ RowsWith(rows, k) # {} =>
                 Append(rows, r)[FirstWith(Append(rows, r), k)] = rows[FirstWith(rows, k)]
           /\ RowsWith(rows, k) = {} /\ r.key = k =>
                 Append(rows, r)[FirstWith(Append(rows, r), k)] = r
<1> DEFINE u == Append(rows, r)
           n == Len(rows)
           f == FirstWith(rows, k)
           g == FirstWith(u, k)
<1>1. /\ n \in Nat /\ u[n + 1] = r /\ \A i \in 1..n : u[i] = rows[i]
      /\ DOMAIN rows = 1..n /\ DOMAIN u = 1..(n + 1) /\ u \in Seq(Row)
  BY AppendFacts
<1> HIDE DEF u, n
<1>2. /\ \A i \in 1..n : i \in 1..(n + 1)
      /\ \A i \in 1..(n + 1) : i \in 1..n \/ i = n + 1
      /\ n + 1 \in 1..(n + 1)
  BY <1>1
<1>3. /\ \A i \in 1..n : i \in RowsWith(u, k) <=> i \in RowsWith(rows, k)
      /\ n + 1 \in RowsWith(u, k) <=> r.key = k
      /\ RowsWith(rows, k) \subseteq 1..n /\ RowsWith(u, k) \subseteq 1..(n + 1)
  BY <1>1, <1>2 DEF RowsWith
<1>4. RowsWith(u, k) # {} <=> (RowsWith(rows, k) # {} \/ r.key = k)
  BY <1>2, <1>3
<1>5. ASSUME RowsWith(rows, k) # {} PROVE u[g] = rows[f]
  <2>1. f \in RowsWith(rows, k) /\ \A j \in RowsWith(rows, k) : f <= j
    BY <1>5, FirstWithLeast
  <2>2. g \in RowsWith(u, k) /\ \A j \in RowsWith(u, k) : g <= j
    BY <1>1, <1>4, <1>5, FirstWithLeast
  <2> HIDE DEF f, g
  <2>3. f \in 1..n /\ f \in RowsWith(u, k)
    BY <1>3, <2>1
  <2>4. g <= f /\ g \in 1..(n + 1)
    BY <1>3, <2>2, <2>3
  <2>5. g \in 1..n
    BY <1>1, <2>3, <2>4
  <2>6. g \in RowsWith(rows, k)
    BY <1>3, <2>2, <2>5
  <2>7. f <= g
    BY <2>1, <2>6
  <2>8. f = g
    BY <2>3, <2>4, <2>5, <2>7
  <2> QED
    BY <1>1, <2>3, <2>8
<1>6. ASSUME RowsWith(rows, k) = {}, r.key = k PROVE u[g] = r
  <2>1. g \in RowsWith(u, k)
    BY <1>1, <1>4, <1>6, FirstWithLeast
  <2> HIDE DEF g
  <2>2. g = n + 1
    BY <1>2, <1>3, <1>6, <2>1
  <2> QED
    BY <1>1, <2>2
<1> QED
  BY <1>4, <1>5, <1>6 DEF u

\* probe() finds the keys of the rows, and the first row of each.
Finds(t, rows) ==
    \A k \in Keys : /\ Found(t, k) <=> RowsWith(rows, k) # {}
                    /\ Found(t, k) => FoundTid(t, k) = rows[FirstWith(rows, k)].tid

\* The table holds these rows and no others.
Loaded(t, rows) ==
    /\ t \in Table /\ Chained(t) /\ Stored(t) = ToSet(rows)
    /\ Cardinality(Occupied(t)) = Len(rows) /\ t.row_count = Len(rows)
    /\ Finds(t, rows)

LEMMA ResetLoads == ASSUME NEW t \in Table PROVE Loaded(Reset(t), <<>>)
<1>1. ToSet(<<>>) = {} /\ Len(<<>>) = 0
  BY DEF ToSet
<1>2. \A k : RowsWith(<<>>, k) = {}
  BY DEF RowsWith
<1>3. \A k \in Keys : ~Found(Reset(t), k)
  BY ResetCleared
<1>4. Finds(Reset(t), <<>>)
  BY <1>2, <1>3 DEF Finds
<1>5. /\ Reset(t) \in Table /\ Chained(Reset(t)) /\ Stored(Reset(t)) = {}
      /\ Cardinality(Occupied(Reset(t))) = 0 /\ Reset(t).row_count = 0
  BY ResetCleared
<1> QED
  BY <1>1, <1>4, <1>5, Zenon DEF Loaded

LEMMA BuildLoads ==
    ASSUME NEW t, NEW rows \in Seq(Row), Loaded(t, rows), NEW r \in Row,
           BuildError(t, r.key) = "ERR_NONE"
    PROVE  Loaded(Build(t, r.key, r.tid), Append(rows, r))
<1> DEFINE u == Build(t, r.key, r.tid)
           more == Append(rows, r)
<1>1. t \in Table /\ Chained(t) /\ r.key \in Keys /\ r.tid \in Tids
  BY DEF Loaded, Row
<1>2. u \in Table /\ u.row_count = t.row_count + 1
  <2>1. u = [valid |-> [t.valid EXCEPT ![FreeSlot(t, r.key)] = TRUE],
             key |-> [t.key EXCEPT ![FreeSlot(t, r.key)] = r.key],
             tid |-> [t.tid EXCEPT ![FreeSlot(t, r.key)] = r.tid],
             row_count |-> t.row_count + 1]
    BY DEF Build
  <2>2. u.row_count = t.row_count + 1
    BY <2>1
  <2>3. \A k \in Keys, x \in Tids : BuildError(t, k) = "ERR_NONE" => Build(t, k, x) \in Table
    BY <1>1, BuildWrites, Zenon
  <2> QED
    BY <1>1, <2>2, <2>3
<1>3. /\ Chained(u)
      /\ Found(u, r.key)
      /\ FoundTid(u, r.key) = IF Found(t, r.key) THEN FoundTid(t, r.key) ELSE r.tid
      /\ \A j \in Keys \ {r.key} : Found(u, j) <=> Found(t, j)
      /\ \A j \in Keys \ {r.key} : Found(t, j) => FoundTid(u, j) = FoundTid(t, j)
  BY <1>1, BuildFinds
<1>4. /\ Cardinality(Occupied(u)) = Cardinality(Occupied(t)) + 1
      /\ Stored(u) = Stored(t) \cup {[key |-> r.key, tid |-> r.tid]}
  BY <1>1, BuildStores
<1>5. r = [key |-> r.key, tid |-> r.tid]
  BY DEF Row
<1> HIDE DEF u
<1>6. ToSet(more) = ToSet(rows) \cup {r}
  BY ToSetAppend
<1>7. Len(more) = Len(rows) + 1
  OBVIOUS
<1>8. ASSUME NEW k \in Keys
      PROVE  /\ Found(u, k) <=> RowsWith(more, k) # {}
             /\ Found(u, k) => FoundTid(u, k) = more[FirstWith(more, k)].tid
  <2>1. /\ RowsWith(more, k) # {} <=> (RowsWith(rows, k) # {} \/ r.key = k)
        /\ RowsWith(rows, k) # {} => more[FirstWith(more, k)] = rows[FirstWith(rows, k)]
        /\ RowsWith(rows, k) = {} /\ r.key = k => more[FirstWith(more, k)] = r
    BY FirstWithAppend
  <2>2. /\ Found(t, k) <=> RowsWith(rows, k) # {}
        /\ Found(t, k) => FoundTid(t, k) = rows[FirstWith(rows, k)].tid
    BY DEF Loaded, Finds
  <2> HIDE DEF more
  <2> QED
    BY <1>3, <2>1, <2>2
<1>9. Finds(u, more)
  BY <1>8 DEF Finds
<1> HIDE DEF more
<1>10. Stored(u) = ToSet(more)
  BY <1>4, <1>5, <1>6 DEF Loaded
<1>11. Cardinality(Occupied(u)) = Len(more) /\ u.row_count = Len(more)
  BY <1>2, <1>4, <1>7 DEF Loaded
<1>12. Loaded(u, more)
  BY <1>2, <1>3, <1>9, <1>10, <1>11 DEF Loaded
<1> QED
  BY <1>12 DEF u, more

\* Probing a table with the rows of a partition joins it with them.
LEMMA ProbeIsJoin ==
    ASSUME NEW t, NEW inner, NEW outer \in Seq(Row), Loaded(t, inner)
    PROVE  ProbePartition(t, outer) = JoinOf(inner, outer)
<1> DEFINE n == Len(outer)
           hit == [i \in 1..n |-> RowsWith(inner, outer[i].key) # {}]
           x == [i \in 1..n |-> PairFor(inner, outer[i])]
<1>1. n \in Nat /\ \A i \in 1..n : outer[i].key \in Keys
  <2>1. n \in Nat /\ \A i \in 1..n : outer[i] \in Row
    BY ElementOfSeq
  <2> QED
    BY <2>1 DEF Row
<1>2. /\ \A i \in 1..n : hit[i] <=> RowsWith(inner, outer[i].key) # {}
      /\ \A i \in 1..n : x[i] = PairFor(inner, outer[i])
  BY Zenon
<1> HIDE DEF hit, x
<1>3. Partners(hit, x, inner, outer, n)
  BY <1>2, Zenon DEF Partners
<1>4. ASSUME NEW i \in 1..n
      PROVE  /\ hit[i] <=> Found(t, outer[i].key)
             /\ hit[i] => x[i] = [inner_tid |-> FoundTid(t, outer[i].key),
                                  outer_tid |-> outer[i].tid]
  <2> DEFINE k == outer[i].key
  <2>1. /\ Found(t, k) <=> RowsWith(inner, k) # {}
        /\ Found(t, k) => FoundTid(t, k) = inner[FirstWith(inner, k)].tid
    <3>1. k \in Keys
      BY <1>1
    <3> HIDE DEF k
    <3> QED
      BY <3>1 DEF Loaded, Finds
  <2>2. x[i] = [inner_tid |-> inner[FirstWith(inner, k)].tid, outer_tid |-> outer[i].tid]
    BY <1>2 DEF PairFor
  <2> QED
    BY <1>2, <2>1, <2>2
<1>5. Lookups(hit, x, t, outer, n)
  BY <1>4 DEF Lookups
<1>6. PICK f : JoinOf(inner, outer) = f[n] /\ Collects(f, hit, x, n)
  BY <1>1, <1>3, JoinCollects
<1>7. PICK g : ProbePartition(t, outer) = g[n] /\ Collects(g, hit, x, n)
  BY <1>1, <1>5, ProbeCollects
<1>8. f[n] = g[n]
  <2> HIDE DEF n
  <2> QED
    BY <1>1, <1>6, <1>7, CollectsAgree
<1> QED
  BY <1>6, <1>7, <1>8

-----------------------------------------------------------------------------
(***************************************************************************)
(* The partitions: rows that find room, and slots that fit the memory.     *)
(***************************************************************************)
PartitionRows == [Partitions -> Seq(Row)]

LEMMA PutRowsRoom ==
    ASSUME NEW parts \in PartitionRows, NEW rows \in Seq(Row), NEW K, NEW max \in Nat,
           \A p \in Partitions : Len(parts[p]) <= max
    PROVE  LET n == RowsWithRoom(parts, rows, K, max)
           IN /\ n \in 0..Len(rows)
              /\ PutRows(parts, rows, n, K) \in PartitionRows
              /\ \A p \in Partitions : Len(PutRows(parts, rows, n, K)[p]) <= max
              /\ n = Len(rows) =>
                    \A p \in Partitions :
                        PutRows(parts, rows, n, K)[p] = parts[p] \o RowsIn(rows, p, K)
<1> DEFINE hasRoom(i) == \A p \in Partitions :
                             Len(parts[p]) + Len(RowsIn(SubSeq(rows, 1, i), p, K)) <= max
           room == {i \in 0..Len(rows) : i = 0 \/ hasRoom(i)}
           n == RowsWithRoom(parts, rows, K, max)
           put == PutRows(parts, rows, n, K)
           new(p) == RowsIn(SubSeq(rows, 1, n), p, K)
<1>1. n = Max(room)
  BY DEF RowsWithRoom
<1>2. Len(rows) \in Nat
  OBVIOUS
<1>3. room \in SUBSET (0..Len(rows)) /\ room # {}
  <2>1. 0 \in room
    <3>1. 0 \in 0..Len(rows)
      BY <1>2
    <3> QED
      BY <3>1, Zenon
  <2> QED
    BY <2>1, Zenon
<1>4. n \in room
  <2> HIDE DEF room, n
  <2> QED
    BY <1>1, <1>2, <1>3, MaxInSet
<1>5. n \in 0..Len(rows) /\ (n = 0 \/ hasRoom(n))
  BY <1>4
<1> HIDE DEF n
<1>6. SubSeq(rows, 1, n) \in Seq(Row)
  BY <1>5
<1>7. \A p \in Partitions : new(p) \in Seq(Row)
  BY <1>6, RowsInType
<1>8. \A p \in Partitions : put[p] = parts[p] \o new(p)
  BY DEF PutRows
<1>9. put = [p \in Partitions |-> parts[p] \o new(p)]
  BY DEF PutRows
<1>10. n = 0 => \A p \in Partitions : new(p) = <<>>
  <2>1. SubSeq(rows, 1, 0) = <<>>
    BY PrefixWhole
  <2> QED
    BY <2>1, RowsInNone
<1>11. \A p \in Partitions : parts[p] \in Seq(Row)
  BY DEF PartitionRows
<1>12. n = Len(rows) => SubSeq(rows, 1, n) = rows
  BY PrefixWhole
<1> HIDE DEF put, new, hasRoom
<1>13. \A p \in Partitions : parts[p] \o new(p) \in Seq(Row)
  BY <1>7, <1>11
<1>14. put \in PartitionRows
  BY <1>9, <1>13 DEF PartitionRows
<1>15. \A p \in Partitions : Len(put[p]) <= max
  <2> SUFFICES ASSUME NEW p \in Partitions PROVE Len(put[p]) <= max
    OBVIOUS
  <2>1. put[p] = parts[p] \o new(p) /\ parts[p] \in Seq(Row) /\ new(p) \in Seq(Row)
    BY <1>7, <1>8, <1>11
  <2>2. Len(put[p]) = Len(parts[p]) + Len(new(p))
    BY <2>1
  <2>3. CASE n = 0
    <3>1. new(p) = <<>>
      BY <1>10, <2>3
    <3>2. Len(new(p)) = 0
      BY <3>1
    <3>3. Len(parts[p]) \in Nat
      BY <2>1
    <3> QED
      BY <2>2, <3>2, <3>3
  <2>4. CASE hasRoom(n)
    BY <2>2, <2>4 DEF hasRoom, new
  <2> QED
    BY <1>5, <2>3, <2>4
<1>16. n = Len(rows) => \A p \in Partitions : put[p] = parts[p] \o RowsIn(rows, p, K)
  BY <1>8, <1>12, Zenon DEF new
<1> QED
  BY <1>5, <1>14, <1>15, <1>16 DEF n, put

\* Slot p ends before slot q begins.
LEMMA SlotOrder ==
    ASSUME NEW p \in Nat, NEW q \in Nat, NEW s \in Nat, p < q
    PROVE  p * s + s <= q * s
<1>1. PICK d \in Nat : q = p + 1 + d
  <2>1. q - p - 1 \in Nat /\ q = p + 1 + (q - p - 1)
    OBVIOUS
  <2> QED
    BY <2>1
<1>2. q * s = p * s + s + d * s
  BY <1>1
<1>3. d * s \in Nat /\ p * s \in Nat
  OBVIOUS
<1> QED
  BY <1>2, <1>3

\* A CONFIGURE that the kernel accepts for algorithm B: its partitions and
\* the slots of the outer area.
LEMMA AcceptedLayout ==
    ASSUME NEW n \in Nat, NEW m \in Nat, KernelAccepts(n, m)
    PROVE  LET k == PartitionCount(n)
           IN /\ k \in 1..GRACE_MAX_K
              /\ outer_slot_w(m, k) \in Nat
              /\ GRACE_OUTER_AREA_BASE + k * outer_slot_w(m, k) <= GRACE_DDR2_TOTAL_WORDS
<1> DEFINE h == HT_MAX_ROWS
           d == (n + h - 1) \div h
           k == PartitionCount(n)
<1>1. h \in Nat \ {0} /\ GRACE_MAX_K \in Nat \ {0} /\ UINT32_RANGE \in Nat \ {0}
  BY TableAssumption, GraceAssumption
<1>2. n <= GRACE_MAX_K * h
  BY DEF KernelAccepts, GRACE_MAX_INNER_ROWS
<1>3. k = IF d = 0 THEN 1 ELSE d
  BY DEF PartitionCount
<1>4. GRACE_OUTER_AREA_BASE + k * outer_slot_w(m, k) <= GRACE_DDR2_TOTAL_WORDS
  BY DEF KernelAccepts
<1> HIDE DEF h, k
<1>5. d \in Nat /\ h * d <= n + h - 1 /\ h * d \in Nat
  BY <1>1
<1>6. d <= GRACE_MAX_K
  <2> SUFFICES ASSUME GRACE_MAX_K < d PROVE FALSE
    BY <1>1, <1>5
  <2>1. GRACE_MAX_K * h + h <= d * h
    BY <1>1, <1>5, SlotOrder
  <2>2. d * h = h * d /\ GRACE_MAX_K * h \in Nat
    BY <1>1, <1>5
  <2> QED
    BY <1>1, <1>2, <1>5, <2>1, <2>2
<1>7. k \in 1..GRACE_MAX_K
  BY <1>1, <1>3, <1>5, <1>6
<1>8. outer_slot_w(m, k) \in Nat
  <2>1. m \div k \in Nat
    BY <1>1, <1>7
  <2>2. SlotWords(m, k) \in Nat
    BY <2>1 DEF SlotWords, GRACE_WORDS_PER_TUPLE
  <2> QED
    BY <1>1, <2>2 DEF outer_slot_w
<1> QED
  BY <1>4, <1>7, <1>8 DEF k

-----------------------------------------------------------------------------
(***************************************************************************)
(* The link: what arrives of the frames sent.                              *)
(***************************************************************************)
LEMMA FlattenOne == ASSUME NEW S, NEW s \in Seq(S) PROVE FlattenSeq(<<s>>) = s
<1> DEFINE f == [i \in 1..1 |-> s]
           flatten[i \in 1..Len(<<s>>)] ==
               IF i = 1 THEN (<<s>>)[i] ELSE flatten[i - 1] \o (<<s>>)[i]
<1>1. FlattenSeq(<<s>>) = flatten[Len(<<s>>)]
  BY DEF FlattenSeq
<1>2. Len(<<s>>) = 1
  OBVIOUS
<1>3. f = [i \in 1..Len(<<s>>) |-> IF i = 1 THEN (<<s>>)[i] ELSE f[i - 1] \o (<<s>>)[i]]
  BY <1>2
<1>4. flatten = [i \in 1..Len(<<s>>) |->
                   IF i = 1 THEN (<<s>>)[i] ELSE flatten[i - 1] \o (<<s>>)[i]]
  BY <1>3
<1> QED
  BY <1>1, <1>2, <1>4

LEMMA FlattenTwo == ASSUME NEW S, NEW s \in Seq(S) PROVE FlattenSeq(<<s, s>>) = s \o s
<1> DEFINE ss == <<s, s>>
           f == [i \in 1..2 |-> IF i = 1 THEN s ELSE s \o s]
           flatten[i \in 1..Len(ss)] == IF i = 1 THEN ss[i] ELSE flatten[i - 1] \o ss[i]
<1>1. Len(ss) = 2 /\ ss[1] = s /\ ss[2] = s
  OBVIOUS
<1>2. FlattenSeq(ss) = flatten[Len(ss)]
  BY <1>1 DEF FlattenSeq
<1>3. f = [i \in 1..Len(ss) |-> IF i = 1 THEN ss[i] ELSE f[i - 1] \o ss[i]]
  <2>1. \A i \in 1..2 : f[i] = IF i = 1 THEN ss[i] ELSE f[i - 1] \o ss[i]
    OBVIOUS
  <2> QED
    BY <1>1, <2>1
<1> HIDE DEF f, ss
<1>4. flatten = [i \in 1..Len(ss) |-> IF i = 1 THEN ss[i] ELSE flatten[i - 1] \o ss[i]]
  BY <1>3
<1> HIDE DEF flatten
<1>5. flatten[1] = s
  BY <1>1, <1>4
<1>6. flatten[2] = flatten[2 - 1] \o ss[2]
  <2>1. 2 \in 1..Len(ss) /\ 2 # 1
    BY <1>1
  <2>2. \A i \in 1..Len(ss) : flatten[i] = IF i = 1 THEN ss[i] ELSE flatten[i - 1] \o ss[i]
    BY <1>4, Zenon
  <2> QED
    BY <2>1, <2>2, Zenon
<1>7. 2 - 1 = 1
  OBVIOUS
<1>8. flatten[Len(ss)] = s \o s
  BY <1>1, <1>5, <1>6, <1>7, Zenon
<1> QED
  BY <1>2, <1>8, Zenon DEF ss

\* A call of send: what it holds arrives n times.
LEMMA TransmitOne ==
    ASSUME NEW S, NEW queue \in Seq(S), NEW d \in Seq(S), NEW n \in {0, 1, 2}
    PROVE  /\ Transmit(queue, <<d>>, <<n>>) \in Seq(S)
           /\ n = 1 => Transmit(queue, <<d>>, <<n>>) = queue \o d
<1> DEFINE inner_(i) == FlattenSeq([c \in 1..(<<n>>)[i] |-> (<<d>>)[i]])
           r == FlattenSeq([c \in 1..n |-> d])
<1>1. [i \in DOMAIN <<d>> |-> inner_(i)] = <<r>>
  <2>1. DOMAIN <<d>> = 1..1 /\ (<<n>>)[1] = n /\ (<<d>>)[1] = d
    OBVIOUS
  <2>2. \A i \in 1..1 : i = 1
    OBVIOUS
  <2>3. inner_(1) = r
    BY <2>1, Zenon
  <2>4. [i \in DOMAIN <<d>> |-> inner_(i)] = [i \in 1..1 |-> r]
    <3> HIDE DEF r, inner_
    <3> QED
      BY <2>1, <2>2, <2>3
  <2> HIDE DEF r, inner_
  <2>5. [i \in 1..1 |-> r] = <<r>>
    OBVIOUS
  <2> QED
    BY <2>4, <2>5
<1>2. r \in Seq(S) /\ (n = 1 => r = d)
  <2>1. CASE n = 0
    <3>1. [c \in 1..n |-> d] = <<>>
      BY <2>1
    <3> QED
      BY <2>1, <3>1 DEF FlattenSeq
  <2>2. CASE n = 1
    <3>1. [c \in 1..n |-> d] = <<d>>
      BY <2>2
    <3> QED
      BY <2>2, <3>1, FlattenOne
  <2>3. CASE n = 2
    <3>1. [c \in 1..n |-> d] = <<d, d>>
      BY <2>3
    <3>2. d \o d \in Seq(S)
      OBVIOUS
    <3>3. r = FlattenSeq(<<d, d>>)
      BY <3>1, Zenon
    <3>4. r = d \o d
      BY <3>3, FlattenTwo, Zenon
    <3>5. r \in Seq(S)
      BY <3>2, <3>4, Zenon
    <3>6. n # 1
      BY <2>3
    <3> QED
      BY <3>5, <3>6, Zenon
  <2> QED
    BY <2>1, <2>2, <2>3
<1> HIDE DEF r
<1>3. FlattenSeq(<<r>>) = r
  BY <1>2, FlattenOne
<1>4. Transmit(queue, <<d>>, <<n>>) = queue \o r
  BY <1>1, <1>3 DEF Transmit
<1>5. queue \o r \in Seq(S)
  BY <1>2
<1> QED
  BY <1>2, <1>4, <1>5, Zenon

\* f joins the sequences of ss, up to the n-th.
Joins(f, ss, n) == f[0] = <<>> /\ \A i \in 1..n : f[i] = f[i - 1] \o ss[i]

\* FlattenSeq is the value of any function that joins.
LEMMA FlattenJoins ==
    ASSUME NEW S, NEW ss \in Seq(Seq(S)), NEW f \in [0..Len(ss) -> Seq(S)],
           Joins(f, ss, Len(ss))
    PROVE  FlattenSeq(ss) = f[Len(ss)]
<1> DEFINE N == Len(ss)
<1>1. N \in Nat
  OBVIOUS
<1>2. CASE N = 0
  <2>1. ss = <<>> /\ f[N] = <<>>
    BY <1>2 DEF Joins
  <2>2. FlattenSeq(ss) = ss
    BY <1>2, Zenon DEF FlattenSeq
  <2> QED
    BY <2>1, <2>2, Zenon
<1>3. CASE N # 0
  <2> DEFINE flatten[i \in 1..Len(ss)] == IF i = 1 THEN ss[i] ELSE flatten[i - 1] \o ss[i]
             h == [i \in 1..Len(ss) |-> f[i]]
  <2>1. FlattenSeq(ss) = flatten[Len(ss)]
    BY <1>3 DEF FlattenSeq
  <2>2. \A i \in 1..N : f[i] = IF i = 1 THEN ss[i] ELSE h[i - 1] \o ss[i]
    <3> SUFFICES ASSUME NEW i \in 1..N
                 PROVE  f[i] = IF i = 1 THEN ss[i] ELSE h[i - 1] \o ss[i]
      OBVIOUS
    <3>1. f[i] = f[i - 1] \o ss[i] /\ f[0] = <<>> /\ ss[i] \in Seq(S)
      BY DEF Joins
    <3>2. CASE i = 1
      <4>1. i - 1 = 0
        BY <3>2
      <4>2. f[i] = <<>> \o ss[i]
        BY <3>1, <4>1, Zenon
      <4>3. <<>> \o ss[i] = ss[i]
        BY <3>1
      <4> QED
        BY <3>2, <4>2, <4>3, Zenon
    <3>3. CASE i # 1
      <4>1. i - 1 \in 1..N
        BY <1>1, <3>3
      <4>2. h[i - 1] = f[i - 1]
        BY <4>1
      <4> QED
        BY <3>1, <3>3, <4>2, Zenon
    <3> QED
      BY <3>2, <3>3
  <2>3. h = [i \in 1..Len(ss) |-> IF i = 1 THEN ss[i] ELSE h[i - 1] \o ss[i]]
    BY <2>2, Zenon
  <2> HIDE DEF h
  <2>4. flatten = [i \in 1..Len(ss) |-> IF i = 1 THEN ss[i] ELSE flatten[i - 1] \o ss[i]]
    BY <2>3, Zenon
  <2> HIDE DEF flatten
  <2>5. \A i \in 1..N : flatten[i] = IF i = 1 THEN ss[i] ELSE flatten[i - 1] \o ss[i]
    BY <2>4, Zenon
  <2>6. \A i \in 1..N : f[i] = IF i = 1 THEN ss[i] ELSE f[i - 1] \o ss[i]
    <3> SUFFICES ASSUME NEW i \in 1..N
                 PROVE  f[i] = IF i = 1 THEN ss[i] ELSE f[i - 1] \o ss[i]
      OBVIOUS
    <3>1. CASE i = 1
      BY <2>2, <3>1, Zenon
    <3>2. CASE i # 1
      BY <3>2 DEF Joins
    <3> QED
      BY <3>1, <3>2
  <2> DEFINE T == {i \in 0..N : i = 0 \/ flatten[i] = f[i]}
  <2>7. 0 \in T
    BY <1>1
  <2>8. ASSUME NEW i \in 1..N, i - 1 \in T PROVE i \in T
    <3>1. i \in 0..N
      OBVIOUS
    <3>2. CASE i = 1
      <4>1. flatten[i] = f[i]
        BY <2>5, <2>6, <3>2, Zenon
      <4> QED
        BY <3>1, <4>1
    <3>3. CASE i # 1
      <4>1. i - 1 # 0
        BY <3>3
      <4>2. flatten[i - 1] = f[i - 1]
        BY <2>8, <4>1
      <4>3. flatten[i] = f[i]
        BY <2>5, <2>6, <3>3, <4>2, Zenon
      <4> QED
        BY <3>1, <4>3
    <3> QED
      BY <3>2, <3>3
  <2> HIDE DEF T
  <2>9. \A i \in 0..N : i \in T
    BY <1>1, <2>7, <2>8, UpTo
  <2>10. N \in T /\ N # 0
    BY <1>1, <1>3, <2>9
  <2>11. flatten[N] = f[N]
    BY <2>10 DEF T
  <2> QED
    BY <2>1, <2>11, Zenon
<1> QED
  BY <1>2, <1>3

\* The link loses and duplicates nothing.
Faultless == MaxDrops = 0 /\ MaxDups = 0

\* Frame by frame, each once.
LEMMA TransmitAll ==
    ASSUME NEW S, NEW queue \in Seq(S), NEW frames \in Seq(S),
           NEW copies \in [DOMAIN frames -> {1}]
    PROVE  Transmit(queue, [i \in DOMAIN frames |-> <<frames[i]>>], copies) = queue \o frames
<1> DEFINE d == [i \in DOMAIN frames |-> <<frames[i]>>]
           inner_(i) == FlattenSeq([c \in 1..copies[i] |-> d[i]])
           f == [i \in 0..Len(frames) |-> SubSeq(frames, 1, i)]
<1>1. /\ DOMAIN d = DOMAIN frames /\ DOMAIN frames = 1..Len(frames) /\ Len(frames) \in Nat
      /\ d \in Seq(Seq(S)) /\ Len(d) = Len(frames)
      /\ \A i \in 1..Len(frames) : d[i] = <<frames[i]>> /\ copies[i] = 1 /\ frames[i] \in S
  <2>1. DOMAIN frames = 1..Len(frames) /\ Len(frames) \in Nat
    OBVIOUS
  <2>2. \A i \in 1..Len(frames) : frames[i] \in S /\ <<frames[i]>> \in Seq(S)
    OBVIOUS
  <2>3. \A i \in DOMAIN frames : copies[i] = 1
    OBVIOUS
  <2>4. \A i \in 1..Len(frames) : d[i] = <<frames[i]>>
    BY <2>1
  <2>5. d = [i \in 1..Len(frames) |-> <<frames[i]>>] /\ d \in [1..Len(frames) -> Seq(S)]
    BY <2>1, <2>2
  <2>6. d \in Seq(Seq(S)) /\ Len(d) = Len(frames)
    BY <2>1, <2>5
  <2> QED
    BY <2>1, <2>2, <2>3, <2>4, <2>5, <2>6
<1> HIDE DEF d
<1>2. \A i \in DOMAIN d : inner_(i) = d[i]
  <2> SUFFICES ASSUME NEW i \in DOMAIN d PROVE inner_(i) = d[i]
    OBVIOUS
  <2>1. copies[i] = 1 /\ d[i] \in Seq(S)
    BY <1>1
  <2>2. [c \in 1..1 |-> d[i]] = <<d[i]>>
    OBVIOUS
  <2>3. FlattenSeq(<<d[i]>>) = d[i]
    BY <2>1, FlattenOne
  <2> QED
    BY <2>1, <2>2, <2>3
<1>3. [i \in DOMAIN d |-> inner_(i)] = d
  <2> HIDE DEF inner_
  <2>1. d = [i \in DOMAIN d |-> d[i]]
    BY <1>1
  <2> QED
    BY <1>2, <2>1
<1>4. f \in [0..Len(d) -> Seq(S)] /\ Joins(f, d, Len(d))
  <2>1. \A i \in 0..Len(frames) : f[i] = SubSeq(frames, 1, i) /\ f[i] \in Seq(S)
    BY <1>1
  <2>2. f[0] = <<>>
    BY <1>1, <2>1, PrefixWhole
  <2>3. ASSUME NEW i \in 1..Len(frames) PROVE f[i] = f[i - 1] \o d[i]
    <3>1. i \in 0..Len(frames) /\ i - 1 \in 0..Len(frames)
      BY <1>1
    <3>2. /\ SubSeq(frames, 1, i) = Append(SubSeq(frames, 1, i - 1), frames[i])
          /\ SubSeq(frames, 1, i - 1) \in Seq(S) /\ frames[i] \in S
      BY PrefixStep
    <3>3. Append(SubSeq(frames, 1, i - 1), frames[i]) = SubSeq(frames, 1, i - 1) \o <<frames[i]>>
      BY <3>2
    <3>4. f[i] = SubSeq(frames, 1, i) /\ f[i - 1] = SubSeq(frames, 1, i - 1)
      BY <2>1, <3>1
    <3> QED
      BY <1>1, <3>2, <3>3, <3>4, Zenon
  <2>4. f \in [0..Len(d) -> Seq(S)]
    BY <1>1, <2>1
  <2> HIDE DEF f
  <2> QED
    BY <1>1, <2>2, <2>3, <2>4 DEF Joins
<1> HIDE DEF f
<1>5. FlattenSeq(d) = f[Len(d)]
  BY <1>1, <1>4, FlattenJoins
<1>6. f[Len(d)] = frames
  BY <1>1, PrefixWhole DEF f
<1>7. Transmit(queue, d, copies) = queue \o FlattenSeq([i \in DOMAIN d |-> inner_(i)])
  BY DEF Transmit
<1> QED
  BY <1>3, <1>5, <1>6, <1>7, Zenon DEF d

\* Whatever the link does, the kernel receives frames of the host.
LEMMA HostSendsFrames ==
    ASSUME NEW S, h2k \in Seq(S), NEW f \in S, HostSends(<<f>>)
    PROVE  h2k' \in Seq(S)
<1>1. PICK n \in Copies : h2k' = Transmit(h2k, <<<<f>>>>, <<n>>)
  BY DEF HostSends
<1>2. n \in {0, 1, 2} /\ <<f>> \in Seq(S)
  BY DEF Copies
<1> QED
  BY <1>1, <1>2, TransmitOne

\* A link without faults delivers every frame once, in order.
LEMMA HostSendsOnce ==
    ASSUME Faultless, drops = 0, dups = 0, NEW S, h2k \in Seq(S), NEW d \in Seq(S), HostSends(d)
    PROVE  h2k' = h2k \o d /\ drops' = 0 /\ dups' = 0
<1>1. PICK n \in Copies : Faults(<<n>>) /\ h2k' = Transmit(h2k, <<d>>, <<n>>)
  BY DEF HostSends
<1>2. n = 1
  BY DEF Copies, Faultless
<1>3. n \in {0, 1, 2}
  BY <1>2
<1>4. h2k' = h2k \o d
  BY <1>1, <1>2, <1>3, TransmitOne, Zenon
<1>5. {i \in DOMAIN <<n>> : (<<n>>)[i] = 0} = {} /\ {i \in DOMAIN <<n>> : (<<n>>)[i] = 2} = {}
  BY <1>2
<1>6. Cardinality({}) = 0
  BY FS_EmptySet
<1>7. drops' = 0 + Cardinality({}) /\ dups' = 0 + Cardinality({})
  BY <1>1, <1>5, Zenon DEF Faults
<1> QED
  BY <1>4, <1>6, <1>7

LEMMA KernelSendsOnce ==
    ASSUME Faultless, drops = 0, dups = 0, NEW S, k2h \in Seq(S), NEW frames \in Seq(S),
           KernelSends(frames)
    PROVE  k2h' = k2h \o frames /\ drops' = 0 /\ dups' = 0
<1>1. PICK copies \in [DOMAIN frames -> Copies] :
          /\ Faults(copies)
          /\ k2h' = Transmit(k2h, [i \in DOMAIN frames |-> <<frames[i]>>], copies)
  BY DEF KernelSends
<1>2. Copies = {1}
  BY DEF Copies, Faultless
<1>3. copies \in [DOMAIN frames -> {1}]
  BY <1>1, <1>2, Zenon
<1>4. k2h' = k2h \o frames
  BY <1>1, <1>3, TransmitAll, Zenon
<1>5. \A i \in DOMAIN copies : copies[i] = 1
  BY <1>3
<1>6. {i \in DOMAIN copies : copies[i] = 0} = {} /\ {i \in DOMAIN copies : copies[i] = 2} = {}
  BY <1>5
<1>7. Cardinality({}) = 0
  BY FS_EmptySet
<1>8. drops' = 0 + Cardinality({}) /\ dups' = 0 + Cardinality({})
  BY <1>1, <1>6, Zenon DEF Faults
<1> QED
  BY <1>4, <1>7, <1>8

-----------------------------------------------------------------------------
(***************************************************************************)
(* The kernel's memory, over any link.                                     *)
(***************************************************************************)
LinearPhases == {"BUILD", "INSERT", "PROBE", "LOOKUP", "CLOSE"}
GracePhases == {"GRACE_INNER", "GRACE_OUTER", "GRACE_JOIN", "GRACE_LOAD"}

\* The types of the session's variables and of the history.
Session ==
    [session_id : Nat, inner_total : Nat, outer_total : Nat, inner_received : Nat,
     outer_received : Nat, matched : Nat, result_buf : Seq(Pair), pending : Nat, frame : Nat,
     batch : Seq(Row), K : 1..GRACE_MAX_K, outer_slot_w : Nat, partition : Nat]
History == [algorithm : STRING \cup {"none"}, inner : Seq(Row), outer : Seq(Row)]

Types ==
    /\ kpc \in {"IDLE", "STALLED"} \cup LinearPhases \cup GracePhases
    /\ ht \in Table /\ ses \in Session /\ junk \in Nat
    /\ grace \in [inner : PartitionRows, outer : PartitionRows]
    /\ h2k \in Seq(HostFrames) /\ repertoire \in Repertoires
    /\ seen \in History

\* What the counters and slots leave room for.  The outer slots are those of
\* the CONFIGURE, which fit the memory together.
Rooms ==
    /\ Len(ses.result_buf) < RESULT_FLUSH_PAIRS
    /\ \A p \in Partitions : Len(grace.inner[p]) <= HT_MAX_ROWS
    /\ kpc \in {"GRACE_INNER", "GRACE_OUTER"} =>
          /\ GRACE_OUTER_AREA_BASE + ses.K * ses.outer_slot_w <= GRACE_DDR2_TOTAL_WORDS
          /\ \A p \in Partitions :
                Len(grace.outer[p]) <= ses.outer_slot_w \div GRACE_WORDS_PER_TUPLE

\* join_build_loop: the rows of the partition are loaded, or left to load.
Loading(t, g, s) ==
    /\ s.partition < s.K
    /\ \E done \in Seq(Row) : /\ g.inner[s.partition] = done \o s.batch
                              /\ Loaded(t, done)

\* What the table and the partitions hold.
Memory ==
    /\ kpc \in LinearPhases => Loaded(ht, seen.inner) /\ ses.inner_received = Len(seen.inner)
    /\ kpc \in GracePhases =>
          \A p \in Partitions : /\ grace.inner[p] = RowsIn(seen.inner, p, ses.K)
                                /\ grace.outer[p] = RowsIn(seen.outer, p, ses.K)
    /\ kpc = "GRACE_LOAD" => Loading(ht, grace, ses)

IInv == Types /\ Rooms /\ Memory

\* The next frame and what is behind it.
LEMMA NextFrame ==
    ASSUME Types, h2k # <<>>
    PROVE  /\ Head(h2k) \in HostFrames /\ Tail(h2k) \in Seq(HostFrames)
           /\ PayloadBytes(Head(h2k)) \in Nat
           /\ Head(h2k).type \in {"INNER_DATA", "OUTER_DATA"} => Head(h2k).rows \in Seq(Row)
           /\ Head(h2k).type = "CONFIGURE" =>
                 /\ Head(h2k).algorithm \in STRING /\ Head(h2k).inner_count \in Nat
                 /\ Head(h2k).outer_count \in Nat /\ Head(h2k).session_id \in Nat
<1>1. Head(h2k) \in HostFrames /\ Tail(h2k) \in Seq(HostFrames)
  BY DEF Types
<1> DEFINE f == Head(h2k)
<1>2. f \in HostFrames
  BY <1>1
<1> HIDE DEF f
<1>3. f.type \in {"INNER_DATA", "OUTER_DATA"} => f.rows \in Seq(Row)
  BY <1>2 DEF HostFrames, Row
<1>4. f.type = "CONFIGURE" => /\ f.algorithm \in STRING /\ f.inner_count \in Nat
                              /\ f.outer_count \in Nat /\ f.session_id \in Nat
  BY <1>2 DEF HostFrames
<1>5. f.type \in {"CONFIGURE", "INNER_DATA", "OUTER_DATA", "RESET"}
  BY <1>2 DEF HostFrames
<1>6. PayloadBytes(f) \in Nat
  <2>1. CASE f.type \in {"INNER_DATA", "OUTER_DATA"}
    <3>1. Len(f.rows) \in Nat
      BY <1>3, <2>1
    <3>2. TUPLE_BYTES * Len(f.rows) \in Nat
      BY <3>1, KernelAssumption
    <3> QED
      BY <2>1, <3>2 DEF PayloadBytes
  <2>2. CASE f.type \in {"CONFIGURE", "RESET"}
    BY <2>2, KernelAssumption DEF PayloadBytes
  <2> QED
    BY <1>5, <2>1, <2>2
<1> QED
  BY <1>1, <1>3, <1>4, <1>6 DEF f

LEMMA NewSessionTypes ==
    /\ NewSession \in Session /\ NewSession.result_buf = <<>>
    /\ NewSession.inner_received = 0 /\ NewSession.outer_received = 0
<1>1. 1 \in 1..GRACE_MAX_K
  BY GraceAssumption
<1>2. <<>> \in Seq(Pair) /\ <<>> \in Seq(Row)
  OBVIOUS
<1> QED
  BY <1>1, <1>2 DEF NewSession, Session

\* A step that ends the session handles no rows.
LEMMA EndSeesNothing == ASSUME Types, Kernel, EndSession PROVE seen' = seen
<1>1. /\ ses.inner_received \in Nat /\ ses.outer_received \in Nat
      /\ ses'.inner_received = 0 /\ ses'.outer_received = 0 /\ kpc' = "IDLE"
  BY NewSessionTypes DEF Types, Session, EndSession
<1> QED
  BY <1>1 DEF Kernel

Ended ==
    /\ EndSession /\ ht' \in Table /\ junk' \in Nat /\ h2k' \in Seq(HostFrames)
    /\ grace' \in [inner : PartitionRows, outer : PartitionRows]
    /\ \A p \in Partitions : Len(grace'.inner[p]) <= HT_MAX_ROWS
    /\ seen' = seen /\ repertoire' = repertoire

LEMMA EndedKeeps == ASSUME IInv, Ended PROVE IInv'
<1>1. Types'
  BY NewSessionTypes DEF IInv, Types, Ended, EndSession
<1>2. Rooms'
  <2>1. Len(<<>>) < RESULT_FLUSH_PAIRS
    BY KernelAssumption
  <2> QED
    BY <2>1, NewSessionTypes DEF Rooms, Ended, EndSession
<1>3. Memory'
  BY DEF Memory, Ended, EndSession, LinearPhases, GracePhases
<1> QED
  BY <1>1, <1>2, <1>3 DEF IInv

\* A step of algorithm A that does not end the session.
LinearGoesOn ==
    /\ kpc' \in LinearPhases /\ ht' \in Table /\ ses' \in Session /\ junk' = junk
    /\ grace' = grace /\ h2k' \in Seq(HostFrames) /\ repertoire' = repertoire
    /\ seen' \in History /\ Len(ses'.result_buf) < RESULT_FLUSH_PAIRS
    /\ Loaded(ht', seen'.inner) /\ ses'.inner_received = Len(seen'.inner)

LEMMA LinearKeeps == ASSUME IInv, LinearGoesOn PROVE IInv'
<1>1. kpc' \notin GracePhases
  BY DEF LinearGoesOn, LinearPhases, GracePhases
<1>2. Types'
  BY DEF IInv, Types, LinearGoesOn
<1>3. Rooms'
  BY <1>1 DEF IInv, Rooms, LinearGoesOn, GracePhases
<1>4. Memory'
  BY <1>1 DEF Memory, LinearGoesOn, GracePhases
<1> QED
  BY <1>2, <1>3, <1>4 DEF IInv

\* A step of algorithm B after its outer rows.
LEMMA JoinKeeps ==
    ASSUME IInv, kpc \in GracePhases, kpc' \in {"GRACE_JOIN", "GRACE_LOAD"}, ht' \in Table,
           ses' \in Session, ses'.K = ses.K, ses'.result_buf = ses.result_buf,
           junk' = junk, grace' = grace, h2k' = h2k, repertoire' = repertoire, seen' = seen,
           kpc' = "GRACE_LOAD" => Loading(ht', grace', ses')
    PROVE  IInv'
<1>1. kpc' \in GracePhases /\ kpc' \notin LinearPhases
  BY DEF LinearPhases, GracePhases
<1>2. Types'
  BY <1>1 DEF IInv, Types
<1>3. Rooms'
  BY DEF IInv, Rooms
<1>4. Memory'
  BY <1>1 DEF IInv, Memory
<1> QED
  BY <1>2, <1>3, <1>4 DEF IInv

LEMMA NothingSeenType == NothingSeen \in History
<1>1. <<>> \in Seq(Row)
  OBVIOUS
<1> QED
  BY <1>1 DEF NothingSeen, History

LEMMA IInvStart == Init => IInv
<1> SUFFICES ASSUME Init PROVE IInv
  OBVIOUS
<1>1. <<>> \in Seq(Row) /\ Len(<<>>) = 0 /\ <<>> \in Seq(HostFrames)
  OBVIOUS
<1>2. Types
  <2>1. grace \in [inner : PartitionRows, outer : PartitionRows]
    BY <1>1 DEF Init, KernelInit, reset_counts, PartitionRows
  <2>2. seen \in History
    BY NothingSeenType DEF Init
  <2> QED
    BY <1>1, <2>1, <2>2, NewSessionTypes, ZeroTableOK DEF Types, Init, KernelInit, LinkInit
<1>3. Rooms
  <2>1. \A p \in Partitions : grace.inner[p] = <<>>
    BY DEF Init, KernelInit, reset_counts
  <2>2. 0 < RESULT_FLUSH_PAIRS /\ 0 <= HT_MAX_ROWS
    BY KernelAssumption, TableAssumption
  <2> QED
    BY <1>1, <2>1, <2>2, NewSessionTypes DEF Rooms, Init, KernelInit
<1>4. Memory
  BY DEF Memory, Init, KernelInit, LinearPhases, GracePhases
<1> QED
  BY <1>2, <1>3, <1>4 DEF IInv

\* A step that handles no rows and starts no session.
LEMMA SeesNothing ==
    ASSUME Types, Kernel, ~(kpc = "IDLE" /\ kpc' # "IDLE"),
           ses'.inner_received = ses.inner_received, ses'.outer_received = ses.outer_received
    PROVE  seen' = seen
<1>1. ses.inner_received \in Nat /\ ses.outer_received \in Nat
  BY DEF Types, Session
<1> QED
  BY <1>1 DEF Kernel

\* A frame of the host is read by Reads.
LEMMA ReadsFrame ==
    ASSUME Types, NEW pc, NEW types, Reads(pc, types)
    PROVE  /\ h2k' = Tail(h2k) /\ h2k # <<>> /\ h2k' \in Seq(HostFrames)
           /\ Head(h2k).type \in types /\ kpc = pc /\ junk = 0
           /\ PayloadBytes(Head(h2k)) \in Nat
<1>1. h2k' = Tail(h2k) /\ h2k # <<>> /\ Head(h2k).type \in types /\ kpc = pc /\ junk = 0
  BY DEF Reads
<1> QED
  BY <1>1, NextFrame

LEMMA ResetType == ASSUME NEW t \in Table PROVE Reset(t) \in Table
  BY ResetCleared

EndingStep ==
    \/ IdleReset \/ IdleRefuse \/ IdleMisread \/ ConfigureRefuse \/ BuildReset \/ BuildRefuse
    \/ ProbeReset \/ ProbeRefuse \/ GraceReset \/ GraceRefuse \/ SessionDone

LEMMA EndingStepEnds ==
    ASSUME Types, EndingStep
    PROVE  EndSession /\ ht' \in {ht, Reset(ht)} /\ grace' = grace /\ junk' \in Nat
           /\ h2k' \in Seq(HostFrames)
<1>1. h2k \in Seq(HostFrames) /\ junk \in Nat
  BY DEF Types
<1>2. CASE IdleReset
  BY <1>1, <1>2, ReadsFrame DEF IdleReset
<1>3. CASE IdleRefuse
  BY <1>3, ReadsFrame DEF IdleRefuse, Refuse
<1>4. CASE IdleMisread
  <2>1. EndSession /\ ht' \in {ht, Reset(ht)} /\ grace' = grace
    BY <1>4 DEF IdleMisread
  <2>2. CASE junk >= HEADER_BYTES /\ junk' = junk - HEADER_BYTES /\ UNCHANGED h2k
    BY <1>1, <2>1, <2>2 DEF HEADER_BYTES
  <2>3. CASE h2k # <<>> /\ junk' = junk + PayloadBytes(Head(h2k)) /\ h2k' = Tail(h2k)
    <3>1. PayloadBytes(Head(h2k)) \in Nat /\ Tail(h2k) \in Seq(HostFrames)
      BY <2>3, NextFrame
    <3> QED
      BY <1>1, <2>1, <2>3, <3>1
  <2> QED
    BY <1>4, <2>2, <2>3 DEF IdleMisread
<1>5. CASE ConfigureRefuse
  BY <1>1, <1>5, ReadsFrame DEF ConfigureRefuse
<1>6. CASE BuildReset
  BY <1>1, <1>6, ReadsFrame DEF BuildReset
<1>7. CASE BuildRefuse
  BY <1>7, ReadsFrame DEF BuildRefuse, Refuse
<1>8. CASE ProbeReset
  BY <1>1, <1>8, ReadsFrame DEF ProbeReset
<1>9. CASE ProbeRefuse
  BY <1>9, ReadsFrame DEF ProbeRefuse, Refuse
<1>10. CASE GraceReset
  BY <1>1, <1>10, ReadsFrame DEF GraceReset
<1>11. CASE GraceRefuse
  BY <1>11, ReadsFrame DEF GraceRefuse, Refuse
<1>12. CASE SessionDone
  BY <1>1, <1>12 DEF SessionDone
<1> QED
  BY <1>2, <1>3, <1>4, <1>5, <1>6, <1>7, <1>8, <1>9, <1>10, <1>11, <1>12 DEF EndingStep

LEMMA EndingStepKeeps == ASSUME IInv, Kernel, EndingStep PROVE IInv'
<1>1. Types
  BY DEF IInv
<1>2. /\ EndSession /\ ht' \in {ht, Reset(ht)} /\ grace' = grace /\ junk' \in Nat
      /\ h2k' \in Seq(HostFrames)
  BY <1>1, EndingStepEnds
<1>3. seen' = seen
  BY <1>1, <1>2, EndSeesNothing
<1>4. ht' \in Table
  BY <1>1, <1>2, ResetType DEF Types
<1>5. Ended
  BY <1>2, <1>3, <1>4 DEF Ended, IInv, Types, Rooms, Kernel
<1> QED
  BY <1>5, EndedKeeps

\* A session starts with nothing seen.
LEMMA ConfigureSees ==
    ASSUME Types, Kernel, Configure
    PROVE  seen' = [NothingSeen EXCEPT !.algorithm = Head(h2k).algorithm]
<1> DEFINE cfg == Head(h2k)
           k == PartitionCount(cfg.inner_count)
           slot == outer_slot_w(cfg.outer_count, k)
           linear == [NewSession EXCEPT !.session_id = cfg.session_id,
                                        !.inner_total = cfg.inner_count,
                                        !.outer_total = cfg.outer_count]
<1>1. kpc = "IDLE" /\ kpc' # "IDLE"
  BY DEF Configure, Reads
<1>2. ses' = linear \/ ses' = [linear EXCEPT !.K = k, !.outer_slot_w = slot]
  BY DEF Configure
<1>3. linear.inner_received = 0 /\ linear.outer_received = 0
  BY DEF NewSession
<1>4. [linear EXCEPT !.K = k, !.outer_slot_w = slot].inner_received = 0
      /\ [linear EXCEPT !.K = k, !.outer_slot_w = slot].outer_received = 0
  BY DEF NewSession
<1> HIDE DEF linear, k, slot
<1>5. ses'.inner_received = 0 /\ ses'.outer_received = 0
  BY <1>2, <1>3, <1>4, Zenon
<1>6. ses.inner_received \in Nat /\ ses.outer_received \in Nat
  BY DEF Types, Session
<1> QED
  BY <1>1, <1>5, <1>6 DEF Kernel

LEMMA ConfigureKeeps == ASSUME IInv, Kernel, Configure PROVE IInv'
<1> DEFINE cfg == Head(h2k)
           k == PartitionCount(cfg.inner_count)
           linear == [NewSession EXCEPT !.session_id = cfg.session_id,
                                        !.inner_total = cfg.inner_count,
                                        !.outer_total = cfg.outer_count]
           slot == outer_slot_w(cfg.outer_count, k)
<1>1. Types /\ Rooms /\ Reads("IDLE", {"CONFIGURE"}) /\ Fits(cfg)
  BY DEF IInv, Configure
<1>2. /\ h2k # <<>> /\ h2k' \in Seq(HostFrames) /\ cfg.type = "CONFIGURE" /\ kpc = "IDLE"
  BY <1>1, ReadsFrame
<1>3. /\ cfg.algorithm \in STRING /\ cfg.inner_count \in Nat
      /\ cfg.outer_count \in Nat /\ cfg.session_id \in Nat
  BY <1>1, <1>2, NextFrame
<1>4. junk' = junk /\ repertoire' = repertoire
  BY DEF Configure, Kernel
<1>5. linear \in Session /\ linear.result_buf = <<>> /\ linear.inner_received = 0
  BY <1>3, NewSessionTypes DEF Session
<1>6. seen' = [NothingSeen EXCEPT !.algorithm = cfg.algorithm]
  BY <1>1, ConfigureSees
<1>7. /\ [NothingSeen EXCEPT !.algorithm = cfg.algorithm] \in History
      /\ [NothingSeen EXCEPT !.algorithm = cfg.algorithm].inner = <<>>
      /\ [NothingSeen EXCEPT !.algorithm = cfg.algorithm].outer = <<>>
  <2>1. NothingSeen \in History /\ NothingSeen.inner = <<>> /\ NothingSeen.outer = <<>>
    BY NothingSeenType DEF NothingSeen
  <2> HIDE DEF cfg
  <2> QED
    BY <1>3, <2>1 DEF History
<1>8. Len(<<>>) = 0 /\ 0 < RESULT_FLUSH_PAIRS /\ 0 <= HT_MAX_ROWS
  BY KernelAssumption, TableAssumption
<1>9. CASE cfg.algorithm = "A"
  <2>1. kpc' = "BUILD" /\ ses' = linear /\ ht' = Reset(ht) /\ grace' = grace
    BY <1>9 DEF Configure
  <2>2. Reset(ht) \in Table /\ Loaded(Reset(ht), <<>>)
    BY <1>1, ResetType, ResetLoads DEF Types
  <2>3. seen' \in History /\ seen'.inner = <<>>
    BY <1>6, <1>7, <2>1
  <2> HIDE DEF linear, cfg
  <2>4. LinearGoesOn
    BY <1>2, <1>4, <1>5, <1>8, <2>1, <2>2, <2>3 DEF LinearGoesOn, LinearPhases
  <2> QED
    BY <2>4, LinearKeeps
<1>10. CASE cfg.algorithm # "A"
  <2>1. kpc' = "GRACE_INNER" /\ ses' = [linear EXCEPT !.K = k, !.outer_slot_w = slot]
        /\ ht' = ht /\ grace' = reset_counts
    BY <1>10 DEF Configure, StartPartitions
  <2>2. KernelAccepts(cfg.inner_count, cfg.outer_count)
    BY <1>1, <1>10 DEF Fits
  <2>3. /\ k \in 1..GRACE_MAX_K /\ slot \in Nat
        /\ GRACE_OUTER_AREA_BASE + k * slot <= GRACE_DDR2_TOTAL_WORDS
    BY <1>3, <2>2, AcceptedLayout
  <2>4. seen' \in History /\ seen'.inner = <<>> /\ seen'.outer = <<>>
    BY <1>6, <1>7, <2>1
  <2> HIDE DEF linear, cfg, k, slot
  <2>5. /\ ses' \in Session /\ ses'.result_buf = <<>> /\ ses'.K = k /\ ses'.outer_slot_w = slot
    BY <1>5, <2>1, <2>3 DEF Session
  <2>6. \A p \in Partitions : grace'.inner[p] = <<>> /\ grace'.outer[p] = <<>>
    BY <2>1 DEF reset_counts
  <2>7. grace' \in [inner : PartitionRows, outer : PartitionRows]
    <3>1. <<>> \in Seq(Row)
      OBVIOUS
    <3> QED
      BY <2>1, <3>1 DEF reset_counts, PartitionRows
  <2>8. Types'
    BY <1>1, <1>2, <1>4, <2>1, <2>4, <2>5, <2>7 DEF Types, GracePhases
  <2>9. Rooms'
    <3>1. 0 <= slot \div GRACE_WORDS_PER_TUPLE
      BY <2>3 DEF GRACE_WORDS_PER_TUPLE
    <3> QED
      BY <1>8, <2>3, <2>5, <2>6, <3>1 DEF Rooms
  <2>10. Memory'
    BY <2>1, <2>4, <2>6, RowsInNone DEF Memory, LinearPhases
  <2> QED
    BY <2>8, <2>9, <2>10 DEF IInv
<1> QED
  BY <1>9, <1>10

LEMMA SeesRows ==
    ASSUME Types, Kernel, kpc # "IDLE", RowsOfStep \in Seq(Row)
    PROVE  /\ /\ ses'.inner_received > ses.inner_received
              /\ ses'.outer_received = ses.outer_received
              => /\ seen' \in History /\ seen'.algorithm = seen.algorithm
                 /\ seen'.inner = seen.inner \o RowsOfStep /\ seen'.outer = seen.outer
           /\ /\ ses'.outer_received > ses.outer_received
              /\ ses'.inner_received = ses.inner_received
              => /\ seen' \in History /\ seen'.algorithm = seen.algorithm
                 /\ seen'.outer = seen.outer \o RowsOfStep /\ seen'.inner = seen.inner
<1>1. /\ ses.inner_received \in Nat /\ ses.outer_received \in Nat /\ seen \in History
      /\ seen.inner \in Seq(Row) /\ seen.outer \in Seq(Row)
  BY DEF Types, Session, History
<1>2. seen.inner \o RowsOfStep \in Seq(Row) /\ seen.outer \o RowsOfStep \in Seq(Row)
  BY <1>1
<1>3. ASSUME ses'.inner_received > ses.inner_received, ses'.outer_received = ses.outer_received
      PROVE  seen' = [seen EXCEPT !.inner = seen.inner \o RowsOfStep]
  BY <1>1, <1>3 DEF Kernel
<1>4. ASSUME ses'.outer_received > ses.outer_received, ses'.inner_received = ses.inner_received
      PROVE  seen' = [seen EXCEPT !.outer = seen.outer \o RowsOfStep]
  BY <1>1, <1>4 DEF Kernel
<1> HIDE DEF RowsOfStep
<1> QED
  BY <1>1, <1>2, <1>3, <1>4 DEF History

LEMMA OneRow ==
    ASSUME NEW s \in Seq(Row), NEW b \in Seq(Row), b # <<>>
    PROVE  /\ <<Head(b)>> \in Seq(Row) /\ Head(b) \in Row /\ Tail(b) \in Seq(Row)
           /\ s \o <<Head(b)>> = Append(s, Head(b)) /\ Len(Append(s, Head(b))) = Len(s) + 1
<1>1. Head(b) \in Row /\ Tail(b) \in Seq(Row)
  OBVIOUS
<1>2. ASSUME NEW r \in Row
      PROVE  <<r>> \in Seq(Row) /\ s \o <<r>> = Append(s, r) /\ Len(Append(s, r)) = Len(s) + 1
  OBVIOUS
<1> QED
  BY <1>1, <1>2

LEMMA PairForType ==
    ASSUME NEW inner \in Seq(Row), NEW r \in Row, RowsWith(inner, r.key) # {}
    PROVE  PairFor(inner, r) \in Pair
<1> DEFINE i == FirstWith(inner, r.key)
<1>1. i \in RowsWith(inner, r.key)
  BY FirstWithLeast
<1>2. i \in DOMAIN inner
  BY <1>1 DEF RowsWith
<1> HIDE DEF i
<1>3. inner[i] \in Row
  BY <1>2
<1>4. inner[i].tid \in Tids /\ r.tid \in Tids
  BY <1>3 DEF Row
<1> QED
  BY <1>4 DEF PairFor, Pair, i

\* The steps of algorithm A that touch neither the table nor the rows seen.
LEMMA LinearQuiet ==
    ASSUME IInv, Kernel, kpc \in LinearPhases, kpc' \in LinearPhases,
           ht' = ht, ses' \in Session, junk' = junk, grace' = grace, h2k' \in Seq(HostFrames),
           ses'.inner_received = ses.inner_received, ses'.outer_received = ses.outer_received,
           ses'.result_buf = ses.result_buf
    PROVE  IInv' /\ seen' = seen
<1>1. kpc # "IDLE" /\ Types
  BY DEF LinearPhases, IInv
<1>2. seen' = seen
  BY <1>1, SeesNothing
<1>3. LinearGoesOn
  BY <1>2 DEF LinearGoesOn, IInv, Types, Rooms, Memory, Kernel
<1> QED
  BY <1>2, <1>3, LinearKeeps

LEMMA BuildLoopExitKeeps == ASSUME IInv, Kernel, BuildLoopExit PROVE IInv' /\ seen' = seen
<1>1. ses \in Session /\ h2k \in Seq(HostFrames)
  BY DEF IInv, Types
<1>2. /\ kpc \in LinearPhases /\ kpc' \in LinearPhases /\ ht' = ht /\ junk' = junk
      /\ grace' = grace /\ h2k' = h2k /\ ses' = [ses EXCEPT !.pending = 0, !.frame = 0]
  BY DEF BuildLoopExit, LinearPhases, link
<1>3. /\ ses' \in Session /\ ses'.inner_received = ses.inner_received
      /\ ses'.outer_received = ses.outer_received /\ ses'.result_buf = ses.result_buf
  BY <1>1, <1>2 DEF Session
<1> QED
  BY <1>1, <1>2, <1>3, LinearQuiet

LEMMA BuildFrameKeeps == ASSUME IInv, Kernel, BuildFrame PROVE IInv' /\ seen' = seen
<1>1. ses \in Session /\ Types /\ Reads("BUILD", {"INNER_DATA"})
  BY DEF IInv, Types, BuildFrame
<1>2. h2k' \in Seq(HostFrames) /\ Head(h2k).rows \in Seq(Row) /\ kpc = "BUILD"
  <2>1. h2k' \in Seq(HostFrames) /\ h2k # <<>> /\ Head(h2k).type = "INNER_DATA" /\ kpc = "BUILD"
    BY <1>1, ReadsFrame
  <2> QED
    BY <1>1, <2>1, NextFrame
<1>3. /\ kpc \in LinearPhases /\ kpc' \in LinearPhases /\ ht' = ht /\ junk' = junk
      /\ grace' = grace /\ ses' = [ses EXCEPT !.batch = Head(h2k).rows]
  BY <1>2 DEF BuildFrame, LinearPhases
<1>4. /\ ses' \in Session /\ ses'.inner_received = ses.inner_received
      /\ ses'.outer_received = ses.outer_received /\ ses'.result_buf = ses.result_buf
  BY <1>1, <1>2, <1>3 DEF Session
<1> QED
  BY <1>2, <1>3, <1>4, LinearQuiet

LEMMA BuildFrameDoneKeeps == ASSUME IInv, Kernel, BuildFrameDone PROVE IInv' /\ seen' = seen
<1> DEFINE pending == ses.pending + 1
           emit_ack == AckDue(pending) \/ ses.inner_received >= ses.inner_total
           next == IF emit_ack THEN 0 ELSE pending
<1>1. ses \in Session /\ h2k \in Seq(HostFrames)
  BY DEF IInv, Types
<1>2. /\ kpc \in LinearPhases /\ kpc' \in LinearPhases /\ ht' = ht /\ junk' = junk
      /\ grace' = grace /\ h2k' = h2k
      /\ ses' = [ses EXCEPT !.pending = next, !.frame = ses.frame + 1]
  BY DEF BuildFrameDone, LinearPhases
<1>3. next \in Nat /\ ses.frame + 1 \in Nat
  <2>1. ses.pending \in Nat /\ ses.frame \in Nat
    BY <1>1 DEF Session
  <2> QED
    BY <2>1
<1> HIDE DEF next
<1>4. /\ ses' \in Session /\ ses'.inner_received = ses.inner_received
      /\ ses'.outer_received = ses.outer_received /\ ses'.result_buf = ses.result_buf
  BY <1>1, <1>2, <1>3 DEF Session
<1> QED
  BY <1>1, <1>2, <1>4, LinearQuiet

LEMMA ProbeFrameKeeps == ASSUME IInv, Kernel, ProbeFrame PROVE IInv' /\ seen' = seen
<1> DEFINE rows == Head(h2k).rows
           process_count == Min({ses.outer_total - ses.outer_received, Len(rows)})
<1>1. ses \in Session /\ Types /\ Reads("PROBE", {"OUTER_DATA"}) /\ InProbeLoop
  BY DEF IInv, Types, ProbeFrame
<1>2. h2k' \in Seq(HostFrames) /\ rows \in Seq(Row) /\ kpc = "PROBE"
  <2>1. h2k' \in Seq(HostFrames) /\ h2k # <<>> /\ Head(h2k).type = "OUTER_DATA" /\ kpc = "PROBE"
    BY <1>1, ReadsFrame
  <2> QED
    BY <1>1, <2>1, NextFrame
<1>3. /\ kpc \in LinearPhases /\ kpc' \in LinearPhases /\ ht' = ht /\ junk' = junk
      /\ grace' = grace /\ ses' = [ses EXCEPT !.batch = SubSeq(rows, 1, process_count)]
  BY <1>2 DEF ProbeFrame, LinearPhases
<1> HIDE DEF rows
<1>4. ses.outer_total - ses.outer_received \in Nat /\ Len(rows) \in Nat
  BY <1>1, <1>2 DEF Session, InProbeLoop
<1>5. process_count \in 0..Len(rows)
  BY <1>4, MinOfTwo
<1> HIDE DEF process_count
<1>6. SubSeq(rows, 1, process_count) \in Seq(Row)
  BY <1>2, <1>5
<1>7. /\ ses' \in Session /\ ses'.inner_received = ses.inner_received
      /\ ses'.outer_received = ses.outer_received /\ ses'.result_buf = ses.result_buf
  BY <1>1, <1>3, <1>6 DEF Session
<1> QED
  BY <1>2, <1>3, <1>7, LinearQuiet

\* A failed build() leaves the table as it was.
LEMMA FailedBuild ==
    ASSUME NEW t, NEW k, NEW x, BuildError(t, k) # "ERR_NONE"
    PROVE  Build(t, k, x) = t
  BY DEF Build

LEMMA InsertRowKeeps ==
    ASSUME IInv, Kernel, InsertRow
    PROVE  /\ IInv'
           /\ EndSession \/ /\ kpc' = "INSERT" /\ seen'.outer = seen.outer
                            /\ seen'.algorithm = seen.algorithm
                            /\ seen'.inner = Append(seen.inner, Head(ses.batch))
<1> DEFINE row == Head(ses.batch)
<1>1. /\ ses \in Session /\ Types /\ ses.batch \in Seq(Row) /\ ses.batch # <<>> /\ kpc = "INSERT"
      /\ seen.inner \in Seq(Row) /\ seen \in History /\ h2k \in Seq(HostFrames) /\ junk \in Nat
  BY DEF IInv, Types, InsertRow, Session, History
<1>2. /\ h2k' = h2k /\ grace' = grace /\ junk' = junk /\ ht' = Build(ht, row.key, row.tid)
      /\ repertoire' = repertoire
  BY DEF InsertRow, Kernel
<1>3. /\ <<row>> \in Seq(Row) /\ row \in Row /\ Tail(ses.batch) \in Seq(Row)
      /\ seen.inner \o <<row>> = Append(seen.inner, row)
      /\ Len(Append(seen.inner, row)) = Len(seen.inner) + 1
  BY <1>1, OneRow
<1>4. CASE BuildError(ht, row.key) # "ERR_NONE"
  <2>1. EndSession
    BY <1>4 DEF InsertRow
  <2>2. seen' = seen
    BY <1>1, <2>1, EndSeesNothing
  <2>3. ht' = ht
    BY <1>2, <1>4, FailedBuild
  <2>4. Ended
    BY <1>1, <1>2, <2>1, <2>2, <2>3 DEF Ended, IInv, Types, Rooms
  <2> QED
    BY <2>1, <2>4, EndedKeeps
<1>5. CASE BuildError(ht, row.key) = "ERR_NONE"
  <2>1. /\ ses' = [ses EXCEPT !.batch = Tail(ses.batch), !.inner_received = ses.inner_received + 1]
        /\ kpc' = kpc
    BY <1>5 DEF InsertRow
  <2>2. RowsOfStep = <<row>>
    BY <1>1 DEF RowsOfStep
  <2>3. Loaded(ht, seen.inner) /\ ses.inner_received = Len(seen.inner)
    BY <1>1 DEF IInv, Memory, LinearPhases
  <2>4. Loaded(ht', Append(seen.inner, row))
    BY <1>1, <1>2, <1>3, <1>5, <2>3, BuildLoads
  <2>5. ht' \in Table
    BY <2>4 DEF Loaded
  <2> HIDE DEF row
  <2> DEFINE rest == Tail(ses.batch)
             n == ses.inner_received + 1
  <2>6. ses' = [ses EXCEPT !.batch = rest, !.inner_received = n]
    BY <2>1
  <2>7. rest \in Seq(Row) /\ n \in Nat
    BY <1>1, <1>3 DEF Session
  <2> HIDE DEF rest, n
  <2>8. /\ ses' \in Session /\ ses'.inner_received = n /\ ses.inner_received \in Nat
        /\ ses'.outer_received = ses.outer_received /\ ses'.result_buf = ses.result_buf
    BY <1>1, <2>6, <2>7 DEF Session
  <2>9. /\ ses' \in Session /\ ses'.inner_received = ses.inner_received + 1
        /\ ses'.outer_received = ses.outer_received /\ ses'.result_buf = ses.result_buf
        /\ ses.inner_received \in Nat
    BY <2>8 DEF n
  <2>10. ses'.inner_received > ses.inner_received
    BY <2>9
  <2>11. RowsOfStep \in Seq(Row) /\ kpc # "IDLE"
    BY <1>1, <1>3, <2>2
  <2>12. /\ seen' \in History /\ seen'.algorithm = seen.algorithm
         /\ seen'.inner = seen.inner \o RowsOfStep /\ seen'.outer = seen.outer
    BY <1>1, <2>9, <2>10, <2>11, SeesRows
  <2>13. seen'.inner = Append(seen.inner, row)
    BY <1>3, <2>2, <2>12
  <2>14. LinearGoesOn
    BY <1>1, <1>2, <1>3, <2>1, <2>3, <2>4, <2>5, <2>9, <2>12, <2>13
       DEF LinearGoesOn, LinearPhases, IInv, Rooms
  <2> QED
    BY <1>1, <2>1, <2>12, <2>13, <2>14, LinearKeeps DEF row
<1> QED
  BY <1>4, <1>5

\* What a lookup of the table answers.
LEMMA LookupAnswer ==
    ASSUME IInv, kpc \in LinearPhases, NEW r \in Row
    PROVE  /\ Found(ht, r.key) <=> RowsWith(seen.inner, r.key) # {}
           /\ Found(ht, r.key) =>
                 /\ [inner_tid |-> FoundTid(ht, r.key), outer_tid |-> r.tid] = PairFor(seen.inner, r)
                 /\ PairFor(seen.inner, r) \in Pair
<1>1. Finds(ht, seen.inner) /\ seen.inner \in Seq(Row) /\ r.key \in Keys
  BY DEF IInv, Memory, Loaded, Types, History, Row
<1>2. /\ Found(ht, r.key) <=> RowsWith(seen.inner, r.key) # {}
      /\ Found(ht, r.key) =>
            FoundTid(ht, r.key) = seen.inner[FirstWith(seen.inner, r.key)].tid
  BY <1>1, Zenon DEF Finds
<1>3. Found(ht, r.key) => PairFor(seen.inner, r) \in Pair
  BY <1>1, <1>2, PairForType
<1> QED
  BY <1>2, <1>3, Zenon DEF PairFor

LEMMA LookupRowKeeps ==
    ASSUME IInv, Kernel, LookupRow
    PROVE  /\ IInv' /\ kpc' = "LOOKUP" /\ seen'.inner = seen.inner
           /\ seen'.algorithm = seen.algorithm
           /\ seen'.outer = Append(seen.outer, Head(ses.batch))
<1> DEFINE row == Head(ses.batch)
           found == Found(ht, row.key)
           buf == IF found
                  THEN Append(ses.result_buf, [inner_tid |-> FoundTid(ht, row.key),
                                               outer_tid |-> row.tid])
                  ELSE ses.result_buf
           full == found /\ BufferFull(buf)
           next == IF full THEN <<>> ELSE buf
           count == IF found THEN ses.matched + 1 ELSE ses.matched
<1>1. /\ ses \in Session /\ Types /\ ses.batch \in Seq(Row) /\ ses.batch # <<>> /\ kpc = "LOOKUP"
      /\ seen.outer \in Seq(Row) /\ seen \in History /\ h2k \in Seq(HostFrames)
      /\ ses.result_buf \in Seq(Pair) /\ ses.matched \in Nat /\ ses.outer_received \in Nat
  BY DEF IInv, Types, LookupRow, Session, History
<1>2. /\ h2k' = h2k /\ grace' = grace /\ junk' = junk /\ ht' = ht /\ kpc' = kpc
      /\ repertoire' = repertoire
  BY DEF LookupRow, Kernel
<1>3. /\ <<row>> \in Seq(Row) /\ row \in Row /\ Tail(ses.batch) \in Seq(Row)
      /\ seen.outer \o <<row>> = Append(seen.outer, row)
  BY <1>1, OneRow
<1>4. ses' = [ses EXCEPT !.batch = Tail(ses.batch), !.outer_received = ses.outer_received + 1,
                         !.matched = count, !.result_buf = next]
  BY DEF LookupRow
<1>5. kpc \in LinearPhases
  BY <1>1 DEF LinearPhases
<1>6. Loaded(ht, seen.inner) /\ ses.inner_received = Len(seen.inner)
  BY <1>5 DEF IInv, Memory
<1>7. RowsOfStep = <<row>>
  BY <1>1 DEF RowsOfStep
<1> HIDE DEF row
<1>8. found => [inner_tid |-> FoundTid(ht, row.key), outer_tid |-> row.tid] \in Pair
  BY <1>3, <1>5, LookupAnswer
<1>9. next \in Seq(Pair) /\ Len(next) < RESULT_FLUSH_PAIRS
  <2>1. CASE found
    <3> DEFINE pair == [inner_tid |-> FoundTid(ht, row.key), outer_tid |-> row.tid]
    <3>1. buf = Append(ses.result_buf, pair)
      BY <2>1
    <3>2. pair \in Pair
      BY <1>8, <2>1
    <3> HIDE DEF pair, buf
    <3>3. buf \in Seq(Pair) /\ Len(buf) \in Nat
      BY <1>1, <3>1, <3>2
    <3>4. full <=> Len(buf) >= RESULT_FLUSH_PAIRS
      BY <2>1 DEF BufferFull
    <3> HIDE DEF full
    <3>5. RESULT_FLUSH_PAIRS \in Nat \ {0} /\ Len(<<>>) = 0 /\ <<>> \in Seq(Pair)
      BY KernelAssumption
    <3>6. CASE full
      <4>1. next = <<>>
        BY <3>6
      <4>2. 0 < RESULT_FLUSH_PAIRS
        BY <3>5
      <4> HIDE DEF next
      <4> QED
        BY <3>5, <4>1, <4>2, Zenon
    <3>7. CASE ~full
      <4>1. next = buf
        BY <3>7
      <4> QED
        BY <3>3, <3>4, <3>5, <3>7, <4>1
    <3> QED
      BY <3>6, <3>7
  <2>2. CASE ~found
    <3>1. next = ses.result_buf
      BY <2>2, Zenon
    <3> QED
      BY <1>1, <3>1 DEF IInv, Rooms
  <2> QED
    BY <2>1, <2>2
<1>10. count \in Nat
  BY <1>1
<1> HIDE DEF next, count
<1> DEFINE rest == Tail(ses.batch)
           n == ses.outer_received + 1
<1>11. ses' = [ses EXCEPT !.batch = rest, !.outer_received = n, !.matched = count,
                          !.result_buf = next]
  BY <1>4
<1>12. rest \in Seq(Row) /\ n \in Nat
  BY <1>1, <1>3
<1> HIDE DEF rest, n
<1>13. /\ ses' \in Session /\ ses'.outer_received = n
       /\ ses'.inner_received = ses.inner_received /\ ses'.result_buf = next
  BY <1>1, <1>9, <1>10, <1>11, <1>12 DEF Session
<1>14. /\ ses' \in Session /\ ses'.outer_received = ses.outer_received + 1
       /\ ses'.inner_received = ses.inner_received /\ ses'.result_buf = next
  BY <1>13 DEF n
<1>15. ses'.outer_received > ses.outer_received
  BY <1>1, <1>14
<1>16. RowsOfStep \in Seq(Row) /\ kpc # "IDLE"
  BY <1>1, <1>3, <1>7
<1>17. /\ seen' \in History /\ seen'.algorithm = seen.algorithm
       /\ seen'.outer = seen.outer \o RowsOfStep /\ seen'.inner = seen.inner
  BY <1>1, <1>14, <1>15, <1>16, SeesRows
<1>18. LinearGoesOn
  BY <1>1, <1>2, <1>5, <1>6, <1>9, <1>14, <1>17 DEF LinearGoesOn, Types
<1> QED
  BY <1>1, <1>2, <1>3, <1>7, <1>17, <1>18, LinearKeeps DEF row

LEMMA ProbeFrameDoneKeeps ==
    ASSUME IInv, Kernel, ProbeFrameDone
    PROVE  IInv' /\ seen' = seen
<1> DEFINE pending == ses.pending + 1
           probe_done == kpc = "CLOSE" \/ ses.outer_received >= ses.outer_total
           next == IF AckDue(pending) THEN 0 ELSE pending
<1>1. ses \in Session /\ Types /\ h2k \in Seq(HostFrames) /\ kpc \in LinearPhases
  BY DEF IInv, Types, ProbeFrameDone, LinearPhases
<1>2. h2k' = h2k /\ grace' = grace /\ junk' = junk /\ ht' = ht /\ repertoire' = repertoire
  BY DEF ProbeFrameDone, Kernel
<1>3. CASE probe_done
  <2>1. EndSession
    BY <1>3 DEF ProbeFrameDone
  <2>2. seen' = seen
    BY <1>1, <2>1, EndSeesNothing
  <2>3. Ended
    BY <1>1, <1>2, <2>1, <2>2 DEF Ended, IInv, Types, Rooms
  <2> QED
    BY <2>2, <2>3, EndedKeeps
<1>4. CASE ~probe_done
  <2>1. /\ kpc' \in LinearPhases
        /\ ses' = [ses EXCEPT !.pending = next, !.frame = ses.frame + 1]
    BY <1>4 DEF ProbeFrameDone, LinearPhases
  <2>2. next \in Nat /\ ses.frame + 1 \in Nat
    <3>1. ses.pending \in Nat /\ ses.frame \in Nat
      BY <1>1 DEF Session
    <3> QED
      BY <3>1
  <2> HIDE DEF next
  <2>3. /\ ses' \in Session /\ ses'.inner_received = ses.inner_received
        /\ ses'.outer_received = ses.outer_received /\ ses'.result_buf = ses.result_buf
    BY <1>1, <2>1, <2>2 DEF Session
  <2> QED
    BY <1>1, <1>2, <2>1, <2>3, LinearQuiet
<1> QED
  BY <1>3, <1>4

\* The rows of a frame of algorithm B, of which some may be none.
LEMMA GraceSees ==
    ASSUME Types, Kernel, kpc \in GracePhases, NEW n \in Nat, Head(h2k).rows \in Seq(Row),
           n = Len(Head(h2k).rows)
    PROVE  /\ /\ ses'.inner_received = ses.inner_received + n
              /\ ses'.outer_received = ses.outer_received
              => /\ seen' \in History /\ seen'.algorithm = seen.algorithm
                 /\ seen'.inner = seen.inner \o Head(h2k).rows /\ seen'.outer = seen.outer
           /\ /\ ses'.outer_received = ses.outer_received + n
              /\ ses'.inner_received = ses.inner_received
              => /\ seen' \in History /\ seen'.algorithm = seen.algorithm
                 /\ seen'.outer = seen.outer \o Head(h2k).rows /\ seen'.inner = seen.inner
<1> DEFINE rows == Head(h2k).rows
<1>1. /\ ses.inner_received \in Nat /\ ses.outer_received \in Nat /\ seen \in History
      /\ seen.inner \in Seq(Row) /\ seen.outer \in Seq(Row)
  BY DEF Types, Session, History
<1>2. kpc # "IDLE" /\ kpc \notin {"INSERT", "LOOKUP"}
  BY DEF GracePhases
<1>3. RowsOfStep = rows
  BY <1>2 DEF RowsOfStep
<1>4. rows \in Seq(Row) /\ n = Len(rows)
  OBVIOUS
<1> HIDE DEF rows
<1>5. CASE n = 0
  <2>1. rows = <<>>
    BY <1>4, <1>5, EmptySeq
  <2>2. seen.inner \o <<>> = seen.inner /\ seen.outer \o <<>> = seen.outer
    BY <1>1
  <2>3. ses.inner_received + n = ses.inner_received /\ ses.outer_received + n = ses.outer_received
    BY <1>1, <1>5
  <2>4. /\ ses'.inner_received = ses.inner_received /\ ses'.outer_received = ses.outer_received
        => seen' = seen
    BY <1>2, SeesNothing
  <2> QED
    BY <1>1, <2>1, <2>2, <2>3, <2>4 DEF rows
<1>6. CASE n # 0
  <2>1. RowsOfStep \in Seq(Row)
    BY <1>3, <1>4
  <2>2. ses.inner_received + n > ses.inner_received /\ ses.outer_received + n > ses.outer_received
    BY <1>1, <1>6
  <2> QED
    BY <1>2, <1>3, <2>1, <2>2, SeesRows DEF rows
<1> QED
  BY <1>5, <1>6

LEMMA RowsInMore ==
    \A s, t \in Seq(Row) : \A p, K : RowsIn(s \o t, p, K) = RowsIn(s, p, K) \o RowsIn(t, p, K)
  BY RowsInConcat

LEMMA GraceInnerFrameKeeps ==
    ASSUME IInv, Kernel, GraceInnerFrame
    PROVE  /\ IInv'
           /\ EndSession \/ /\ kpc' = "GRACE_INNER" /\ seen'.outer = seen.outer
                            /\ seen'.algorithm = seen.algorithm
<1> DEFINE rows == Head(h2k).rows
           parts == grace.inner
           n == RowsWithRoom(parts, rows, ses.K, HT_MAX_ROWS)
           put == PutRows(parts, rows, n, ses.K)
<1>1. Types /\ Reads("GRACE_INNER", {"INNER_DATA"}) /\ ses \in Session /\ seen \in History
  BY DEF IInv, Types, GraceInnerFrame
<1>2. /\ h2k' \in Seq(HostFrames) /\ h2k # <<>> /\ Head(h2k).type = "INNER_DATA"
      /\ kpc = "GRACE_INNER"
  BY <1>1, ReadsFrame
<1>3. rows \in Seq(Row) /\ Len(rows) \in Nat
  BY <1>1, <1>2, NextFrame
<1>4. /\ parts \in PartitionRows /\ HT_MAX_ROWS \in Nat
      /\ \A p \in Partitions : Len(parts[p]) <= HT_MAX_ROWS
  BY TableAssumption DEF IInv, Types, Rooms
<1>5. /\ grace' = [grace EXCEPT !.inner = put] /\ ht' = ht /\ junk' = junk
      /\ repertoire' = repertoire
  BY DEF GraceInnerFrame, Kernel
<1>6. n < Len(rows) => EndSession
  BY DEF GraceInnerFrame, GraceFrame
<1>7. ~(n < Len(rows)) =>
         /\ ses' = [ses EXCEPT !.frame = ses.frame + 1,
                               !.inner_received = ses.inner_received + n,
                               !.outer_received = ses.outer_received]
         /\ kpc' = kpc
  BY DEF GraceInnerFrame, GraceFrame
<1>8. kpc \in GracePhases /\ kpc \notin LinearPhases
  BY <1>2 DEF GracePhases, LinearPhases
<1>9. ASSUME n = Len(rows), ses'.inner_received = ses.inner_received + n,
             ses'.outer_received = ses.outer_received
      PROVE  /\ seen' \in History /\ seen'.algorithm = seen.algorithm
             /\ seen'.inner = seen.inner \o rows /\ seen'.outer = seen.outer
  <2>1. ses'.inner_received = ses.inner_received + Len(rows)
    BY <1>9
  <2> HIDE DEF n
  <2> QED
    BY <1>1, <1>3, <1>8, <1>9, <2>1, GraceSees
<1> HIDE DEF rows, parts, n
<1>10. /\ n \in 0..Len(rows) /\ put \in PartitionRows
       /\ \A p \in Partitions : Len(put[p]) <= HT_MAX_ROWS
       /\ n = Len(rows) => \A p \in Partitions : put[p] = parts[p] \o RowsIn(rows, p, ses.K)
  BY <1>3, <1>4, PutRowsRoom DEF n
<1> HIDE DEF put
<1>11. /\ grace' \in [inner : PartitionRows, outer : PartitionRows]
       /\ grace'.inner = put /\ grace'.outer = grace.outer
  BY <1>1, <1>5, <1>10 DEF Types
<1>12. CASE n < Len(rows)
  <2>1. EndSession
    BY <1>6, <1>12
  <2>2. seen' = seen
    BY <1>1, <2>1, EndSeesNothing
  <2>3. Ended
    BY <1>1, <1>2, <1>5, <1>10, <1>11, <2>1, <2>2 DEF Ended, Types
  <2> QED
    BY <2>1, <2>3, EndedKeeps
<1>13. CASE ~(n < Len(rows))
  <2>1. n = Len(rows) /\ n \in Nat
    BY <1>3, <1>10, <1>13
  <2>2. /\ ses' \in Session /\ ses'.K = ses.K /\ ses'.outer_slot_w = ses.outer_slot_w
        /\ ses'.result_buf = ses.result_buf /\ ses'.outer_received = ses.outer_received
        /\ ses'.inner_received = ses.inner_received + n
    <3> DEFINE f == ses.frame + 1
               r == ses.inner_received + n
    <3>1. f \in Nat /\ r \in Nat /\ ses.outer_received \in Nat
      <4>1. ses.frame \in Nat /\ ses.inner_received \in Nat /\ ses.outer_received \in Nat
        BY <1>1 DEF Session
      <4> QED
        BY <2>1, <4>1
    <3>2. ses' = [ses EXCEPT !.frame = f, !.inner_received = r]
      <4>1. ses' = [ses EXCEPT !.frame = f, !.inner_received = r,
                               !.outer_received = ses.outer_received]
        BY <1>7, <1>13
      <4> HIDE DEF f, r
      <4> QED
        BY <1>1, <4>1 DEF Session
    <3> HIDE DEF f, r
    <3>3. /\ ses' \in Session /\ ses'.K = ses.K /\ ses'.outer_slot_w = ses.outer_slot_w
          /\ ses'.result_buf = ses.result_buf /\ ses'.outer_received = ses.outer_received
          /\ ses'.inner_received = r
      BY <1>1, <3>1, <3>2 DEF Session
    <3> QED
      BY <3>3 DEF r
  <2>3. /\ seen' \in History /\ seen'.algorithm = seen.algorithm
        /\ seen'.inner = seen.inner \o rows /\ seen'.outer = seen.outer
    BY <1>9, <2>1, <2>2
  <2>4. kpc' = kpc
    BY <1>7, <1>13
  <2>5. Types'
    BY <1>1, <1>2, <1>5, <1>11, <2>2, <2>3, <2>4 DEF Types
  <2>6. Rooms'
    BY <1>10, <1>11, <2>2, <2>4 DEF IInv, Rooms
  <2>7. \A p \in Partitions : put[p] = RowsIn(seen.inner \o rows, p, ses.K)
    <3> SUFFICES ASSUME NEW p \in Partitions PROVE put[p] = RowsIn(seen.inner \o rows, p, ses.K)
      OBVIOUS
    <3>1. put[p] = parts[p] \o RowsIn(rows, p, ses.K)
      BY <1>10, <2>1
    <3>2. parts[p] = RowsIn(seen.inner, p, ses.K)
      BY <1>8 DEF IInv, Memory, parts
    <3>3. seen.inner \in Seq(Row)
      BY <1>1 DEF History
    <3>4. RowsIn(seen.inner \o rows, p, ses.K) =
              RowsIn(seen.inner, p, ses.K) \o RowsIn(rows, p, ses.K)
      <4>1. \A t \in Seq(Row) : \A q, K : RowsIn(seen.inner \o t, q, K) =
                                           RowsIn(seen.inner, q, K) \o RowsIn(t, q, K)
        BY <3>3, RowsInMore, Zenon
      <4>2. rows \in Seq(Row)
        BY <1>3
      <4>3. \A q, K : RowsIn(seen.inner \o rows, q, K) =
                         RowsIn(seen.inner, q, K) \o RowsIn(rows, q, K)
        BY <4>1, <4>2, Zenon
      <4> QED
        BY <4>3, Zenon
    <3> QED
      BY <3>1, <3>2, <3>4, Zenon
  <2>8. Memory'
    BY <1>2, <1>11, <1>8, <2>2, <2>3, <2>4, <2>7 DEF IInv, Memory
  <2> QED
    BY <1>2, <2>3, <2>4, <2>5, <2>6, <2>8 DEF IInv
<1> QED
  BY <1>12, <1>13

LEMMA GraceOuterFrameKeeps ==
    ASSUME IInv, Kernel, GraceOuterFrame
    PROVE  /\ IInv'
           /\ EndSession \/ /\ kpc' = "GRACE_OUTER" /\ seen'.inner = seen.inner
                            /\ seen'.algorithm = seen.algorithm
<1> DEFINE rows == Head(h2k).rows
           parts == grace.outer
           max == ses.outer_slot_w \div GRACE_WORDS_PER_TUPLE
           n == RowsWithRoom(parts, rows, ses.K, max)
           put == PutRows(parts, rows, n, ses.K)
<1>1. Types /\ Reads("GRACE_OUTER", {"OUTER_DATA"}) /\ ses \in Session /\ seen \in History
  BY DEF IInv, Types, GraceOuterFrame
<1>2. /\ h2k' \in Seq(HostFrames) /\ h2k # <<>> /\ Head(h2k).type = "OUTER_DATA"
      /\ kpc = "GRACE_OUTER"
  BY <1>1, ReadsFrame
<1>3. rows \in Seq(Row) /\ Len(rows) \in Nat
  BY <1>1, <1>2, NextFrame
<1>4. /\ parts \in PartitionRows /\ max \in Nat
      /\ \A p \in Partitions : Len(parts[p]) <= max
  <2>1. ses.outer_slot_w \in Nat
    BY <1>1 DEF Session
  <2>2. max \in Nat
    BY <2>1 DEF GRACE_WORDS_PER_TUPLE
  <2> QED
    BY <1>2, <2>2 DEF IInv, Types, Rooms
<1>5. /\ grace' = [grace EXCEPT !.outer = put] /\ ht' = ht /\ junk' = junk
      /\ repertoire' = repertoire
  BY DEF GraceOuterFrame, Kernel
<1>6. n < Len(rows) => EndSession
  BY DEF GraceOuterFrame, GraceFrame
<1>7. ~(n < Len(rows)) =>
         /\ ses' = [ses EXCEPT !.frame = ses.frame + 1,
                               !.inner_received = ses.inner_received,
                               !.outer_received = ses.outer_received + n]
         /\ kpc' = kpc
  BY DEF GraceOuterFrame, GraceFrame
<1>8. kpc \in GracePhases /\ kpc \notin LinearPhases
  BY <1>2 DEF GracePhases, LinearPhases
<1>9. ASSUME n = Len(rows), ses'.outer_received = ses.outer_received + n,
             ses'.inner_received = ses.inner_received
      PROVE  /\ seen' \in History /\ seen'.algorithm = seen.algorithm
             /\ seen'.outer = seen.outer \o rows /\ seen'.inner = seen.inner
  <2>1. ses'.outer_received = ses.outer_received + Len(rows)
    BY <1>9
  <2> HIDE DEF n
  <2> QED
    BY <1>1, <1>3, <1>8, <1>9, <2>1, GraceSees
<1> HIDE DEF rows, parts, n, max
<1>10. /\ n \in 0..Len(rows) /\ put \in PartitionRows
       /\ \A p \in Partitions : Len(put[p]) <= max
       /\ n = Len(rows) => \A p \in Partitions : put[p] = parts[p] \o RowsIn(rows, p, ses.K)
  BY <1>3, <1>4, PutRowsRoom DEF n
<1> HIDE DEF put
<1>11. /\ grace' \in [inner : PartitionRows, outer : PartitionRows]
       /\ grace'.outer = put /\ grace'.inner = grace.inner
  BY <1>1, <1>5, <1>10 DEF Types
<1>12. CASE n < Len(rows)
  <2>1. EndSession
    BY <1>6, <1>12
  <2>2. seen' = seen
    BY <1>1, <2>1, EndSeesNothing
  <2>3. Ended
    BY <1>1, <1>2, <1>5, <1>11, <2>1, <2>2 DEF Ended, Types, IInv, Rooms
  <2> QED
    BY <2>1, <2>3, EndedKeeps
<1>13. CASE ~(n < Len(rows))
  <2>1. n = Len(rows) /\ n \in Nat
    BY <1>3, <1>10, <1>13
  <2>2. /\ ses' \in Session /\ ses'.K = ses.K /\ ses'.outer_slot_w = ses.outer_slot_w
        /\ ses'.result_buf = ses.result_buf /\ ses'.inner_received = ses.inner_received
        /\ ses'.outer_received = ses.outer_received + n
    <3> DEFINE f == ses.frame + 1
               r == ses.outer_received + n
    <3>1. f \in Nat /\ r \in Nat /\ ses.inner_received \in Nat
      <4>1. ses.frame \in Nat /\ ses.inner_received \in Nat /\ ses.outer_received \in Nat
        BY <1>1 DEF Session
      <4> QED
        BY <2>1, <4>1
    <3>2. ses' = [ses EXCEPT !.frame = f, !.outer_received = r]
      <4>1. ses' = [ses EXCEPT !.frame = f, !.inner_received = ses.inner_received,
                               !.outer_received = r]
        BY <1>7, <1>13
      <4> HIDE DEF f, r
      <4> QED
        BY <1>1, <4>1 DEF Session
    <3> HIDE DEF f, r
    <3>3. /\ ses' \in Session /\ ses'.K = ses.K /\ ses'.outer_slot_w = ses.outer_slot_w
          /\ ses'.result_buf = ses.result_buf /\ ses'.inner_received = ses.inner_received
          /\ ses'.outer_received = r
      BY <1>1, <3>1, <3>2 DEF Session
    <3> QED
      BY <3>3 DEF r
  <2>3. /\ seen' \in History /\ seen'.algorithm = seen.algorithm
        /\ seen'.outer = seen.outer \o rows /\ seen'.inner = seen.inner
    BY <1>9, <2>1, <2>2
  <2>4. kpc' = kpc
    BY <1>7, <1>13
  <2>5. Types'
    BY <1>1, <1>2, <1>5, <1>11, <2>2, <2>3, <2>4 DEF Types
  <2>6. Rooms'
    BY <1>2, <1>10, <1>11, <2>2, <2>4 DEF IInv, Rooms, max
  <2>7. \A p \in Partitions : put[p] = RowsIn(seen.outer \o rows, p, ses.K)
    <3> SUFFICES ASSUME NEW p \in Partitions PROVE put[p] = RowsIn(seen.outer \o rows, p, ses.K)
      OBVIOUS
    <3>1. put[p] = parts[p] \o RowsIn(rows, p, ses.K)
      BY <1>10, <2>1
    <3>2. parts[p] = RowsIn(seen.outer, p, ses.K)
      BY <1>8 DEF IInv, Memory, parts
    <3>3. seen.outer \in Seq(Row)
      BY <1>1 DEF History
    <3>4. RowsIn(seen.outer \o rows, p, ses.K) =
              RowsIn(seen.outer, p, ses.K) \o RowsIn(rows, p, ses.K)
      <4>1. \A t \in Seq(Row) : \A q, K : RowsIn(seen.outer \o t, q, K) =
                                           RowsIn(seen.outer, q, K) \o RowsIn(t, q, K)
        BY <3>3, RowsInMore, Zenon
      <4>2. rows \in Seq(Row)
        BY <1>3
      <4>3. \A q, K : RowsIn(seen.outer \o rows, q, K) =
                         RowsIn(seen.outer, q, K) \o RowsIn(rows, q, K)
        BY <4>1, <4>2, Zenon
      <4> QED
        BY <4>3, Zenon
    <3> QED
      BY <3>1, <3>2, <3>4, Zenon
  <2>8. Memory'
    BY <1>2, <1>11, <1>8, <2>2, <2>3, <2>4, <2>7 DEF IInv, Memory
  <2> QED
    BY <1>2, <2>3, <2>4, <2>5, <2>6, <2>8 DEF IInv
<1> QED
  BY <1>12, <1>13

LEMMA JoinType ==
    ASSUME NEW inner \in Seq(Row), NEW outer \in Seq(Row)
    PROVE  JoinOf(inner, outer) \in Seq(Pair)
<1> DEFINE T == {i \in 0..Len(outer) : JoinOf(inner, SubSeq(outer, 1, i)) \in Seq(Pair)}
<1>1. 0 \in T
  <2>1. SubSeq(outer, 1, 0) = <<>> /\ 0 \in 0..Len(outer) /\ <<>> \in Seq(Pair)
    OBVIOUS
  <2> QED
    BY <2>1, JoinNone
<1>2. ASSUME NEW i \in 1..Len(outer), i - 1 \in T PROVE i \in T
  <2> DEFINE a == SubSeq(outer, 1, i - 1)
             e == outer[i]
  <2>1. SubSeq(outer, 1, i) = Append(a, e) /\ a \in Seq(Row) /\ e \in Row
    BY PrefixStep
  <2>2. JoinOf(inner, a) \in Seq(Pair) /\ i \in 0..Len(outer)
    BY <1>2
  <2> HIDE DEF a, e
  <2>3. CASE RowsWith(inner, e.key) = {}
    <3>1. JoinOf(inner, Append(a, e)) = JoinOf(inner, a)
      <4>1. a \in Seq(Row) /\ e \in Row
        BY <2>1
      <4> QED
        BY <2>3, <4>1, JoinAppend, Zenon
    <3> QED
      BY <2>1, <2>2, <3>1
  <2>4. CASE RowsWith(inner, e.key) # {}
    <3>1. JoinOf(inner, Append(a, e)) = Append(JoinOf(inner, a), PairFor(inner, e))
      <4>1. a \in Seq(Row) /\ e \in Row
        BY <2>1
      <4> QED
        BY <2>4, <4>1, JoinAppend, Zenon
    <3>2. PairFor(inner, e) \in Pair
      BY <2>1, <2>4, PairForType
    <3>3. Append(JoinOf(inner, a), PairFor(inner, e)) \in Seq(Pair)
      BY <2>2, <3>2
    <3> QED
      BY <2>1, <2>2, <3>1, <3>3
  <2> QED
    BY <2>3, <2>4
<1>3. Len(outer) \in T
  <2>1. Len(outer) \in Nat /\ Len(outer) \in 0..Len(outer)
    OBVIOUS
  <2> HIDE DEF T
  <2> QED
    BY <1>1, <1>2, <2>1, UpTo
<1> QED
  BY <1>3, PrefixWhole

LEMMA GraceLoopExitKeeps == ASSUME IInv, Kernel, GraceLoopExit PROVE IInv' /\ seen' = seen
<1>1. ses \in Session /\ Types
  BY DEF IInv, Types
<1>2. /\ kpc \in {"GRACE_INNER", "GRACE_OUTER"} /\ kpc' \in {"GRACE_OUTER", "GRACE_JOIN"}
      /\ ht' = ht /\ junk' = junk /\ grace' = grace /\ h2k' = h2k /\ repertoire' = repertoire
      /\ ses' = [ses EXCEPT !.frame = 0]
  BY DEF GraceLoopExit, link, Kernel
<1>3. /\ ses' \in Session /\ ses'.K = ses.K /\ ses'.outer_slot_w = ses.outer_slot_w
      /\ ses'.inner_received = ses.inner_received /\ ses'.outer_received = ses.outer_received
      /\ ses'.result_buf = ses.result_buf
  BY <1>1, <1>2 DEF Session
<1>4. seen' = seen
  BY <1>1, <1>2, <1>3, SeesNothing
<1>5. Types'
  BY <1>1, <1>2, <1>3, <1>4 DEF Types, GracePhases
<1>6. Rooms'
  BY <1>2, <1>3 DEF IInv, Rooms
<1>7. Memory'
  BY <1>2, <1>3, <1>4 DEF IInv, Memory, GracePhases, LinearPhases
<1> QED
  BY <1>4, <1>5, <1>6, <1>7 DEF IInv

LEMMA GraceJoinKeeps == ASSUME IInv, Kernel, GraceJoin PROVE IInv' /\ seen' = seen
<1> DEFINE b == grace.inner[ses.partition]
<1>1. ses \in Session /\ Types /\ ses.partition \in Nat /\ ses.K \in 1..GRACE_MAX_K
  BY DEF IInv, Types, Session
<1>2. /\ kpc = "GRACE_JOIN" /\ ses.partition < ses.K /\ kpc' = "GRACE_LOAD"
      /\ ht' = Reset(ht) /\ junk' = junk /\ grace' = grace /\ h2k' = h2k
      /\ repertoire' = repertoire /\ ses' = [ses EXCEPT !.batch = b]
  BY DEF GraceJoin, link, Kernel
<1>3. ses.partition \in Partitions
  BY <1>1, <1>2, GraceAssumption DEF Partitions
<1>4. b \in Seq(Row)
  BY <1>1, <1>3 DEF Types, PartitionRows
<1> HIDE DEF b
<1>5. /\ ses' \in Session /\ ses'.K = ses.K /\ ses'.partition = ses.partition
      /\ ses'.inner_received = ses.inner_received /\ ses'.outer_received = ses.outer_received
      /\ ses'.result_buf = ses.result_buf /\ ses'.batch = b
  BY <1>1, <1>2, <1>4 DEF Session
<1>6. seen' = seen
  BY <1>1, <1>2, <1>5, SeesNothing
<1>7. ht' \in Table /\ Loaded(ht', <<>>)
  BY <1>1, <1>2, ResetType, ResetLoads DEF Types
<1>8. b = <<>> \o b /\ <<>> \in Seq(Row)
  BY <1>4
<1>9. Loading(ht', grace', ses')
  <2>1. grace'.inner[ses'.partition] = <<>> \o ses'.batch
    BY <1>2, <1>5, <1>8 DEF b
  <2> QED
    BY <1>2, <1>5, <1>7, <1>8, <2>1 DEF Loading
<1>10. kpc \in GracePhases
  BY <1>2 DEF GracePhases
<1> QED
  BY <1>2, <1>5, <1>6, <1>7, <1>9, <1>10, JoinKeeps

LEMMA MoveHead ==
    \A s, t \in Seq(Row) : t # <<>> => s \o t = Append(s, Head(t)) \o Tail(t)
<1> SUFFICES ASSUME NEW s \in Seq(Row), NEW t \in Seq(Row), t # <<>>
             PROVE  s \o t = Append(s, Head(t)) \o Tail(t)
  OBVIOUS
<1> DEFINE h == Head(t)
           r == Tail(t)
           a == s \o t
           b == Append(s, h) \o r
<1>1. /\ h \in Row /\ r \in Seq(Row) /\ h = t[1] /\ Len(t) = Len(r) + 1 /\ Len(r) \in Nat
      /\ \A i \in 1..Len(r) : r[i] = t[i + 1]
  OBVIOUS
<1> HIDE DEF h, r
<1>2. /\ Append(s, h) \in Seq(Row) /\ Len(Append(s, h)) = Len(s) + 1 /\ Len(s) \in Nat
      /\ Append(s, h)[Len(s) + 1] = h /\ \A i \in 1..Len(s) : Append(s, h)[i] = s[i]
  BY <1>1, AppendFacts
<1>3. /\ a \in Seq(Row) /\ Len(a) = Len(s) + Len(t)
      /\ \A i \in 1..Len(a) : a[i] = IF i <= Len(s) THEN s[i] ELSE t[i - Len(s)]
  OBVIOUS
<1> DEFINE u == Append(s, h)
<1>4. u \in Seq(Row) /\ Len(u) = Len(s) + 1
  BY <1>2
<1> HIDE DEF u
<1>5. /\ u \o r \in Seq(Row) /\ Len(u \o r) = Len(s) + 1 + Len(r)
      /\ \A i \in 1..Len(u \o r) :
            (u \o r)[i] = IF i <= Len(s) + 1 THEN u[i] ELSE r[i - (Len(s) + 1)]
  <2>1. /\ u \o r \in Seq(Row) /\ Len(u \o r) = Len(u) + Len(r)
        /\ \A i \in 1..Len(u \o r) :
              (u \o r)[i] = IF i <= Len(u) THEN u[i] ELSE r[i - Len(u)]
    <3>1. u \in Seq(Row) /\ r \in Seq(Row)
      BY <1>1, <1>4
    <3> QED
      BY <3>1
  <2> QED
    BY <1>4, <2>1, Zenon
<1>6. b = u \o r
  BY DEF u
<1> HIDE DEF a, b
<1>7. Len(a) = Len(b)
  BY <1>1, <1>2, <1>3, <1>5, <1>6
<1>8. ASSUME NEW i \in 1..Len(a) PROVE a[i] = b[i]
  <2>1. b[i] = IF i <= Len(s) + 1 THEN u[i] ELSE r[i - (Len(s) + 1)]
    BY <1>5, <1>6, <1>7
  <2>2. a[i] = IF i <= Len(s) THEN s[i] ELSE t[i - Len(s)]
    BY <1>3
  <2>3. CASE i <= Len(s)
    BY <1>2, <2>1, <2>2, <2>3 DEF u
  <2>4. CASE i = Len(s) + 1
    <3>1. i - Len(s) = 1 /\ ~(i <= Len(s))
      BY <1>2, <2>4
    <3>2. a[i] = h
      BY <1>1, <2>2, <3>1
    <3>3. b[i] = h
      BY <1>2, <2>1, <2>4 DEF u
    <3> QED
      BY <3>2, <3>3
  <2>5. CASE i > Len(s) + 1
    <3> DEFINE j == i - (Len(s) + 1)
    <3>1. j \in 1..Len(r) /\ j + 1 = i - Len(s) /\ ~(i <= Len(s)) /\ ~(i <= Len(s) + 1)
      BY <1>1, <1>2, <1>3, <2>5
    <3>2. r[j] = t[j + 1]
      BY <1>1, <3>1
    <3> QED
      BY <2>1, <2>2, <3>1, <3>2
  <2> QED
    BY <1>2, <2>3, <2>4, <2>5
<1>9. a \in Seq(Row) /\ b \in Seq(Row)
  BY <1>3, <1>5, <1>6
<1>10. a = b
  BY <1>7, <1>8, <1>9, SeqEqual
<1> QED
  BY <1>10 DEF a, b, h, r

LEMMA GraceLoadRowKeeps ==
    ASSUME IInv, Kernel, GraceLoadRow
    PROVE  IInv' /\ seen' = seen /\ (EndSession \/ kpc' = "GRACE_LOAD")
<1> DEFINE row == Head(ses.batch)
           rest == Tail(ses.batch)
<1>1. /\ ses \in Session /\ Types /\ ses.batch \in Seq(Row) /\ ses.batch # <<>>
      /\ kpc = "GRACE_LOAD" /\ h2k \in Seq(HostFrames) /\ junk \in Nat
  BY DEF IInv, Types, GraceLoadRow, Session
<1>2. /\ h2k' = h2k /\ grace' = grace /\ junk' = junk /\ ht' = Build(ht, row.key, row.tid)
      /\ repertoire' = repertoire
  BY DEF GraceLoadRow, Kernel
<1>3. row \in Row /\ rest \in Seq(Row)
  BY <1>1
<1>4. CASE BuildError(ht, row.key) # "ERR_NONE"
  <2>1. EndSession
    BY <1>4 DEF GraceLoadRow
  <2>2. seen' = seen
    BY <1>1, <2>1, EndSeesNothing
  <2>3. ht' = ht
    BY <1>2, <1>4, FailedBuild
  <2>4. Ended
    BY <1>1, <1>2, <2>1, <2>2, <2>3 DEF Ended, IInv, Types, Rooms
  <2> QED
    BY <2>1, <2>2, <2>4, EndedKeeps
<1>5. CASE BuildError(ht, row.key) = "ERR_NONE"
  <2>1. ses' = [ses EXCEPT !.batch = rest] /\ kpc' = kpc
    BY <1>5 DEF GraceLoadRow
  <2>2. PICK done \in Seq(Row) : /\ grace.inner[ses.partition] = done \o ses.batch
                                 /\ Loaded(ht, done)
    BY <1>1 DEF IInv, Memory, Loading
  <2>3. ses.partition < ses.K
    BY <1>1 DEF IInv, Memory, Loading
  <2>4. done \o ses.batch = Append(done, row) \o rest
    BY <1>1, MoveHead, Zenon
  <2> HIDE DEF row, rest
  <2>5. Loaded(ht', Append(done, row)) /\ Append(done, row) \in Seq(Row)
    <3>1. Append(done, row) \in Seq(Row)
      BY <1>3
    <3> QED
      BY <1>2, <1>3, <1>5, <2>2, <3>1, BuildLoads
  <2>6. ht' \in Table
    BY <2>5 DEF Loaded
  <2>7. /\ ses' \in Session /\ ses'.K = ses.K /\ ses'.partition = ses.partition
        /\ ses'.inner_received = ses.inner_received /\ ses'.outer_received = ses.outer_received
        /\ ses'.result_buf = ses.result_buf /\ ses'.batch = rest
    BY <1>1, <1>3, <2>1 DEF Session
  <2>8. seen' = seen
    BY <1>1, <2>7, SeesNothing
  <2>9. Loading(ht', grace', ses')
    <3>1. grace'.inner[ses'.partition] = Append(done, row) \o ses'.batch
      BY <1>2, <2>2, <2>4, <2>7, Zenon
    <3>2. ses'.partition < ses'.K
      BY <2>3, <2>7
    <3> QED
      BY <2>5, <3>1, <3>2, Zenon DEF Loading
  <2>10. kpc \in GracePhases
    BY <1>1 DEF GracePhases
  <2> QED
    BY <1>1, <1>2, <2>1, <2>6, <2>7, <2>8, <2>9, <2>10, JoinKeeps
<1> QED
  BY <1>4, <1>5

\* The pairs of a partition are the join of its two sides.
LEMMA PartitionJoined ==
    ASSUME IInv, kpc = "GRACE_LOAD", ses.batch = <<>>
    PROVE  LET p == ses.partition
               join == JoinOf(RowsIn(seen.inner, p, ses.K), RowsIn(seen.outer, p, ses.K))
           IN /\ p \in Partitions /\ p < ses.K
              /\ ProbePartition(ht, grace.outer[p]) = join /\ join \in Seq(Pair)
<1> DEFINE p == ses.partition
           a == RowsIn(seen.inner, p, ses.K)
           b == RowsIn(seen.outer, p, ses.K)
<1>1. ses \in Session /\ Types /\ p \in Nat /\ ses.K \in 1..GRACE_MAX_K
  BY DEF IInv, Types, Session
<1>2. PICK done \in Seq(Row) : grace.inner[p] = done \o <<>> /\ Loaded(ht, done)
  BY DEF IInv, Memory, Loading
<1>3. p < ses.K
  BY DEF IInv, Memory, Loading
<1>4. p \in Partitions
  BY <1>1, <1>3, GraceAssumption DEF Partitions
<1>5. grace.inner[p] = a /\ grace.outer[p] = b
  BY <1>4 DEF IInv, Memory, GracePhases
<1>6. done = a
  <2>1. done \o <<>> = done
    OBVIOUS
  <2> QED
    BY <1>2, <1>5, <2>1
<1>7. grace.inner[p] \in Seq(Row) /\ grace.outer[p] \in Seq(Row)
  BY <1>1, <1>4 DEF Types, PartitionRows
<1>8. a \in Seq(Row) /\ b \in Seq(Row)
  BY <1>5, <1>7
<1> HIDE DEF a, b, p
<1>9. ProbePartition(ht, b) = JoinOf(a, b)
  BY <1>2, <1>6, <1>8, ProbeIsJoin
<1>10. JoinOf(a, b) \in Seq(Pair)
  BY <1>8, JoinType
<1> QED
  BY <1>3, <1>4, <1>5, <1>9, <1>10 DEF a, b, p

LEMMA GraceProbeKeeps == ASSUME IInv, Kernel, GraceProbe PROVE IInv' /\ seen' = seen
<1> DEFINE found == ProbePartition(ht, grace.outer[ses.partition])
           next == ses.partition + 1
           count == ses.matched + Len(found)
<1>1. /\ ses \in Session /\ Types /\ ses.batch = <<>> /\ kpc = "GRACE_LOAD"
      /\ h2k \in Seq(HostFrames) /\ junk \in Nat /\ ht \in Table
  BY DEF IInv, Types, GraceProbe
<1>2. /\ h2k' = h2k /\ grace' = grace /\ junk' = junk /\ ht' = ht /\ kpc' = "GRACE_JOIN"
      /\ repertoire' = repertoire /\ ses' = [ses EXCEPT !.partition = next, !.matched = count]
  BY DEF GraceProbe, Kernel
<1>3. found \in Seq(Pair)
  BY <1>1, PartitionJoined
<1> HIDE DEF found
<1>4. next \in Nat /\ count \in Nat
  <2>1. ses.partition \in Nat /\ ses.matched \in Nat
    BY <1>1 DEF Session
  <2>2. Len(found) \in Nat
    BY <1>3
  <2> QED
    BY <2>1, <2>2
<1> HIDE DEF next, count
<1>5. /\ ses' \in Session /\ ses'.K = ses.K
      /\ ses'.inner_received = ses.inner_received /\ ses'.outer_received = ses.outer_received
      /\ ses'.result_buf = ses.result_buf
  BY <1>1, <1>2, <1>4 DEF Session
<1>6. seen' = seen
  BY <1>1, <1>2, <1>5, SeesNothing
<1>7. kpc \in GracePhases
  BY <1>1 DEF GracePhases
<1> QED
  BY <1>1, <1>2, <1>5, <1>6, <1>7, JoinKeeps

LEMMA GraceStallKeeps == ASSUME IInv, Kernel, GraceStall PROVE IInv' /\ seen' = seen
<1>1. /\ kpc = "GRACE_LOAD" /\ kpc' = "STALLED" /\ UNCHANGED <<ses, ht, grace, junk, h2k>>
      /\ repertoire' = repertoire
  BY DEF GraceStall, Kernel, link
<1>2. Types
  BY DEF IInv
<1>3. seen' = seen
  BY <1>1, <1>2, SeesNothing
<1>4. kpc' \notin LinearPhases /\ kpc' \notin GracePhases
  BY <1>1 DEF LinearPhases, GracePhases
<1>5. Types'
  BY <1>1, <1>2, <1>3 DEF Types
<1>6. Rooms'
  BY <1>1 DEF IInv, Rooms
<1>7. Memory'
  BY <1>1, <1>4 DEF Memory
<1> QED
  BY <1>3, <1>5, <1>6, <1>7 DEF IInv

LEMMA HostReadsKeeps == ASSUME IInv, HostReads PROVE IInv'
<1>1. UNCHANGED <<h2k, kpc, ses, ht, grace, junk, repertoire>>
  BY DEF HostReads, kernel
<1>2. CASE kpc = "IDLE" /\ k2h' = <<>>
  <2>1. seen' \in History
    BY <1>2, NothingSeenType DEF HostReads
  <2>2. Types' /\ Rooms'
    BY <1>1, <2>1 DEF IInv, Types, Rooms
  <2>3. Memory'
    BY <1>1, <1>2 DEF Memory, LinearPhases, GracePhases
  <2> QED
    BY <2>2, <2>3 DEF IInv
<1>3. CASE ~(kpc = "IDLE" /\ k2h' = <<>>)
  <2>1. seen' = seen
    BY <1>3 DEF HostReads
  <2> QED
    BY <1>1, <2>1 DEF IInv, Types, Rooms, Memory
<1> QED
  BY <1>2, <1>3

LEMMA HostWritesKeeps == ASSUME IInv, HostWrites PROVE IInv'
<1>1. UNCHANGED <<kpc, ses, ht, grace, junk, repertoire, seen>>
  BY DEF HostWrites, kernel
<1>2. PICK f \in repertoire : HostSends(<<f>>)
  BY DEF HostWrites
<1>3. f \in HostFrames /\ h2k \in Seq(HostFrames)
  BY RepertoiresAssumption DEF IInv, Types
<1>4. h2k' \in Seq(HostFrames)
  BY <1>2, <1>3, HostSendsFrames
<1> QED
  BY <1>1, <1>4 DEF IInv, Types, Rooms, Memory

LEMMA WatchdogKeeps == ASSUME IInv, KernelWatchdog PROVE IInv'
<1>1. Ended
  BY DEF KernelWatchdog, Watchdog, Ended, IInv, Types, Rooms
<1> QED
  BY <1>1, EndedKeeps

LEMMA KernelKeeps == ASSUME IInv, Kernel PROVE IInv'
<1>1. CASE EndingStep
  BY <1>1, EndingStepKeeps
<1>2. CASE Configure
  BY <1>2, ConfigureKeeps
<1>3. CASE LinearStep /\ ~EndingStep
  BY <1>3, BuildLoopExitKeeps, BuildFrameKeeps, InsertRowKeeps, BuildFrameDoneKeeps,
     ProbeFrameKeeps, LookupRowKeeps, ProbeFrameDoneKeeps DEF LinearStep, EndingStep
<1>4. CASE GraceStep /\ ~EndingStep
  BY <1>4, GraceInnerFrameKeeps, GraceOuterFrameKeeps, GraceLoopExitKeeps, GraceJoinKeeps,
     GraceLoadRowKeeps, GraceProbeKeeps, GraceStallKeeps DEF GraceStep, EndingStep
<1> QED
  BY <1>1, <1>2, <1>3, <1>4 DEF Kernel, KernelStep, EndingStep

LEMMA IInvStep == IInv /\ [Next]_vars => IInv'
<1> SUFFICES ASSUME IInv, [Next]_vars PROVE IInv'
  OBVIOUS
<1>1. CASE HostWrites
  BY <1>1, HostWritesKeeps
<1>2. CASE HostReads
  BY <1>2, HostReadsKeeps
<1>3. CASE Kernel
  BY <1>3, KernelKeeps
<1>4. CASE KernelWatchdog
  BY <1>4, WatchdogKeeps
<1>5. CASE UNCHANGED vars
  BY <1>5 DEF vars, link, kernel, IInv, Types, Rooms, Memory
<1> QED
  BY <1>1, <1>2, <1>3, <1>4, <1>5 DEF Next, HostWritesInVain

\* The rows of an outer slot end before the next slot and inside the memory.
LEMMA OuterSlotFits ==
    ASSUME NEW k \in Nat, NEW w \in Nat, NEW p \in 0..(k - 1), NEW len \in Nat,
           len <= w \div GRACE_WORDS_PER_TUPLE,
           GRACE_OUTER_AREA_BASE + k * w <= GRACE_DDR2_TOTAL_WORDS
    PROVE  OuterAddress(p, len, w) <= Min({OuterAddress(p + 1, 0, w), GRACE_DDR2_TOTAL_WORDS})
<1> DEFINE base == GRACE_OUTER_AREA_BASE
           next == OuterAddress(p + 1, 0, w)
           total == GRACE_DDR2_TOTAL_WORDS
<1>1. base \in Nat /\ total \in Nat
  BY TableAssumption, GraceAssumption
     DEF GRACE_OUTER_AREA_BASE, GRACE_INNER_SLOT_WORDS, GRACE_WORDS_PER_TUPLE
<1>2. len * 2 <= w
  BY DEF GRACE_WORDS_PER_TUPLE
<1>3. OuterAddress(p, len, w) = base + p * w + len * 2
  BY DEF OuterAddress, GRACE_WORDS_PER_TUPLE
<1>4. next = base + (p + 1) * w + 0 * 2
  BY DEF OuterAddress, GRACE_WORDS_PER_TUPLE
<1>5. base + k * w <= total
  OBVIOUS
<1> HIDE DEF base, total, next
<1>6. p \in Nat /\ p * w \in Nat /\ k * w \in Nat /\ (p + 1) * w = p * w + w
  OBVIOUS
<1>7. p * w + w <= k * w
  BY <1>6, SlotOrder
<1>8. next \in Nat /\ next = base + p * w + w
  BY <1>1, <1>4, <1>6
<1>9. OuterAddress(p, len, w) <= next /\ OuterAddress(p, len, w) <= total
  BY <1>1, <1>2, <1>3, <1>5, <1>6, <1>7, <1>8
<1>10. Min({next, total}) \in {next, total}
  BY <1>1, <1>8, MinOfTwo
<1> QED
  BY <1>9, <1>10 DEF next, total

LEMMA IInvImpliesTypeOK == IInv => TypeOK
<1> SUFFICES ASSUME IInv PROVE TypeOK
  OBVIOUS
<1>1. Types /\ Rooms
  BY DEF IInv
<1>2. kpc \in {"IDLE", "BUILD", "INSERT", "PROBE", "LOOKUP", "CLOSE",
               "GRACE_INNER", "GRACE_OUTER", "GRACE_JOIN", "GRACE_LOAD", "STALLED"}
  BY <1>1 DEF Types, LinearPhases, GracePhases
<1>3. /\ {ses.inner_received, ses.outer_received, ses.matched, ses.pending, junk} \subseteq Nat
      /\ ses.K \in 1..GRACE_MAX_K /\ ses.outer_slot_w \in Nat
  BY <1>1 DEF Types, Session
<1>4. ASSUME kpc = "GRACE_OUTER", NEW p \in 0..(ses.K - 1)
      PROVE  OuterAddress(p, Len(grace.outer[p]), ses.outer_slot_w)
                 <= Min({OuterAddress(p + 1, 0, ses.outer_slot_w), GRACE_DDR2_TOTAL_WORDS})
  <2>1. ses.K \in Nat /\ p \in Partitions
    BY <1>3, GraceAssumption DEF Partitions
  <2>2. grace.outer[p] \in Seq(Row)
    BY <1>1, <2>1 DEF Types, PartitionRows
  <2>3. Len(grace.outer[p]) \in Nat
    BY <2>2
  <2>4. /\ Len(grace.outer[p]) <= ses.outer_slot_w \div GRACE_WORDS_PER_TUPLE
        /\ GRACE_OUTER_AREA_BASE + ses.K * ses.outer_slot_w <= GRACE_DDR2_TOTAL_WORDS
    BY <1>1, <1>4, <2>1 DEF Rooms
  <2> QED
    BY <1>3, <2>1, <2>3, <2>4, OuterSlotFits
<1> QED
  BY <1>1, <1>2, <1>3, <1>4 DEF TypeOK, Types, Rooms

LEMMA IInvImpliesMemory == IInv => MemoryIsOfSession
<1> SUFFICES ASSUME IInv PROVE MemoryIsOfSession
  OBVIOUS
<1>1. ASSUME kpc \in LinearPhases
      PROVE  /\ {[key |-> ht.key[s], tid |-> ht.tid[s]] : s \in {s \in Slots : ht.valid[s]}}
                    = ToSet(seen.inner)
             /\ Cardinality({s \in Slots : ht.valid[s]}) = ses.inner_received
             /\ ht.row_count = ses.inner_received
  <2>1. Loaded(ht, seen.inner) /\ ses.inner_received = Len(seen.inner)
    BY <1>1 DEF IInv, Memory
  <2> QED
    BY <2>1, Zenon DEF Loaded, Stored, Occupied
<1>2. ASSUME kpc \in GracePhases
      PROVE  \A p \in Partitions : /\ grace.inner[p] = RowsIn(seen.inner, p, ses.K)
                                   /\ grace.outer[p] = RowsIn(seen.outer, p, ses.K)
  BY <1>2 DEF IInv, Memory
<1> QED
  BY <1>1, <1>2, Zenon DEF MemoryIsOfSession, LinearPhases, GracePhases

\* Whatever frames the host sends and the link does to them, result_buf
\* never holds a full RESULT frame between two rows, no inner partition
\* outgrows the BRAM table it is loaded into, and no outer partition leaves
\* its slot or the DDR2 memory (flush_result_batch, build_inner_partitions
\* and store_outer_partitions).
THEOREM KernelTypeOK == Spec => []TypeOK
  BY IInvStart, IInvStep, IInvImpliesTypeOK, PTL DEF Spec

\* The memory of a session is its own: from its CONFIGURE to its end, the
\* BRAM table (algorithm A) or the DDR2 partitions (algorithm B) hold exactly
\* the rows the kernel has taken in it, however the sessions before ended
\* and whatever was lost or duplicated on the link.
THEOREM MemoryIsolated == Spec => []MemoryIsOfSession
  BY IInvStart, IInvStep, IInvImpliesMemory, PTL DEF Spec

-----------------------------------------------------------------------------
(***************************************************************************)
(* The frames the kernel sends.                                            *)
(***************************************************************************)
Reports ==
    [type : {"ACK", "STATUS"}, phase : {"IDLE", "BUILDING", "PROBING", "DONE"},
     rows_processed : Nat, rows_matched : Nat, credit : Nat, session_id : Nat]
BoardFrames ==
    Reports
        \cup [type : {"RESULT"}, pairs : Seq(Pair)]
        \cup [type : {"ERROR"}, err : {"ERR_INVALID_CMD", "ERR_OVERFLOW", "ERR_BAD_STATE"}]

\* The pairs a frame carries.
PairsIn(f) == IF f.type = "RESULT" THEN f.pairs ELSE <<>>

\* What a report says of the pairs that the host has read when it comes.
CountsRight(f, got) ==
    f.type \in {"ACK", "STATUS"} /\ f.rows_processed > 0 =>
        LET missing == f.rows_matched - Len(got)
        IN CASE f.phase = "IDLE" -> missing = 0
             [] f.phase = "PROBING" -> missing \in 0..(RESULT_FLUSH_PAIRS - 1)
             [] f.phase = "DONE" -> missing = 0
             [] OTHER -> f.rows_matched = 0

\* What a DONE says of them and of the rows h of the session.
DoneRight(f, got, h) ==
    f.type = "STATUS" /\ (h.algorithm = "A" => f.rows_processed > 0) =>
        IsJoinOf(got, h.inner, h.outer) /\ f.rows_matched = Len(got)

FrameRight(f, got, h) == CountsRight(f, got) /\ DoneRight(f, got, h)

\* D has the pairs read after each frame of q, by a host that starts with got.
Delivers(D, q, got) ==
    /\ D \in [0..Len(q) -> Seq(Pair)] /\ D[0] = got
    /\ \A i \in 1..Len(q) : D[i] = D[i - 1] \o PairsIn(q[i])

\* Reading the frames q takes the host from the pairs got to the pairs d, and
\* every frame is right when it is read.
Carries(q, got, d, h) ==
    \E D : /\ Delivers(D, q, got) /\ D[Len(q)] = d
           /\ \A i \in 1..Len(q) : FrameRight(q[i], D[i - 1], h)

LEMMA PairsInType == \A f \in BoardFrames : PairsIn(f) \in Seq(Pair)
<1> SUFFICES ASSUME NEW f \in BoardFrames PROVE PairsIn(f) \in Seq(Pair)
  OBVIOUS
<1>1. f.type = "RESULT" => f.pairs \in Seq(Pair)
  BY DEF BoardFrames, Reports
<1>2. <<>> \in Seq(Pair)
  OBVIOUS
<1> QED
  BY <1>1, <1>2 DEF PairsIn

LEMMA CarriesNone ==
    ASSUME NEW got \in Seq(Pair), NEW h
    PROVE  Carries(<<>>, got, got, h)
<1> DEFINE D == [i \in 0..0 |-> got]
<1>1. Len(<<>>) = 0
  OBVIOUS
<1>2. D \in [0..0 -> Seq(Pair)] /\ D[0] = got /\ \A i \in 1..0 : FALSE
  OBVIOUS
<1> HIDE DEF D
<1>3. Delivers(D, <<>>, got)
  BY <1>1, <1>2 DEF Delivers
<1> QED
  BY <1>1, <1>2, <1>3 DEF Carries

LEMMA CarriesOne ==
    ASSUME NEW got \in Seq(Pair), NEW h, NEW f \in BoardFrames, FrameRight(f, got, h)
    PROVE  Carries(<<f>>, got, got \o PairsIn(f), h)
<1> DEFINE e == got \o PairsIn(f)
           D == [i \in 0..1 |-> IF i = 0 THEN got ELSE e]
           q == <<f>>
<1>1. Len(q) = 1 /\ q[1] = f
  OBVIOUS
<1>2. e \in Seq(Pair)
  <2>1. PairsIn(f) \in Seq(Pair)
    BY PairsInType
  <2> QED
    BY <2>1
<1>3. e = got \o PairsIn(f)
  OBVIOUS
<1> HIDE DEF e
<1>4. D \in [0..1 -> Seq(Pair)] /\ D[0] = got /\ D[1] = e
  BY <1>2
<1>5. \A i \in 1..1 : i = 1 /\ i - 1 = 0
  OBVIOUS
<1> HIDE DEF D, q
<1>6. Delivers(D, q, got)
  BY <1>1, <1>3, <1>4, <1>5 DEF Delivers
<1>7. \A i \in 1..Len(q) : FrameRight(q[i], D[i - 1], h)
  BY <1>1, <1>4, <1>5
<1>8. D[Len(q)] = e
  BY <1>1, <1>4
<1> QED
  BY <1>3, <1>6, <1>7, <1>8 DEF Carries, q

LEMMA CarriesConcat ==
    ASSUME NEW q \in Seq(BoardFrames), NEW r \in Seq(BoardFrames), NEW a, NEW b, NEW c, NEW h,
           Carries(q, a, b, h), Carries(r, b, c, h)
    PROVE  Carries(q \o r, a, c, h)
<1> DEFINE m == Len(q)
           n == Len(r)
           s == q \o r
<1>1. PICK D : /\ Delivers(D, q, a) /\ D[m] = b
               /\ \A i \in 1..m : FrameRight(q[i], D[i - 1], h)
  BY DEF Carries
<1>2. PICK E : /\ Delivers(E, r, b) /\ E[n] = c
               /\ \A i \in 1..n : FrameRight(r[i], E[i - 1], h)
  BY DEF Carries
<1>3. /\ m \in Nat /\ n \in Nat /\ Len(s) = m + n
      /\ \A i \in 1..m : s[i] = q[i]
      /\ \A i \in (m + 1)..(m + n) : s[i] = r[i - m]
  OBVIOUS
<1>4. /\ D \in [0..m -> Seq(Pair)] /\ D[0] = a
      /\ \A i \in 1..m : D[i] = D[i - 1] \o PairsIn(q[i])
  BY <1>1 DEF Delivers
<1>5. /\ E \in [0..n -> Seq(Pair)] /\ E[0] = b
      /\ \A i \in 1..n : E[i] = E[i - 1] \o PairsIn(r[i])
  BY <1>2 DEF Delivers
<1> DEFINE F == [i \in 0..(m + n) |-> IF i <= m THEN D[i] ELSE E[i - m]]
<1> HIDE DEF m, n, s
<1>6. F \in [0..(m + n) -> Seq(Pair)]
  <2> SUFFICES ASSUME NEW i \in 0..(m + n)
               PROVE  (IF i <= m THEN D[i] ELSE E[i - m]) \in Seq(Pair)
    OBVIOUS
  <2>1. CASE i <= m
    BY <1>3, <1>4, <2>1
  <2>2. CASE ~(i <= m)
    <3>1. i - m \in 0..n
      BY <1>3, <2>2
    <3> QED
      BY <1>5, <2>2, <3>1
  <2> QED
    BY <2>1, <2>2
<1>7. \A i \in 0..m : F[i] = D[i]
  BY <1>3
<1>8. \A i \in m..(m + n) : F[i] = E[i - m]
  <2> SUFFICES ASSUME NEW i \in m..(m + n) PROVE F[i] = E[i - m]
    OBVIOUS
  <2>1. i \in 0..(m + n)
    BY <1>3
  <2>2. F[i] = IF i <= m THEN D[i] ELSE E[i - m]
    BY <2>1
  <2>3. CASE i = m
    <3>1. i - m = 0 /\ i <= m
      BY <1>3, <2>3
    <3> QED
      BY <1>1, <1>5, <2>2, <2>3, <3>1
  <2>4. CASE i # m
    <3>1. ~(i <= m)
      BY <1>3, <2>4
    <3> QED
      BY <2>2, <3>1
  <2> QED
    BY <2>3, <2>4
<1> HIDE DEF F
<1>9. ASSUME NEW i \in 1..(m + n)
      PROVE  F[i] = F[i - 1] \o PairsIn(s[i]) /\ FrameRight(s[i], F[i - 1], h)
  <2>1. CASE i <= m
    <3>1. i \in 1..m /\ i \in 0..m /\ i - 1 \in 0..m
      BY <1>3, <2>1
    <3>2. F[i] = D[i] /\ F[i - 1] = D[i - 1] /\ s[i] = q[i]
      BY <1>3, <1>7, <3>1
    <3>3. D[i] = D[i - 1] \o PairsIn(q[i]) /\ FrameRight(q[i], D[i - 1], h)
      BY <1>1, <1>4, <3>1
    <3> QED
      BY <3>2, <3>3
  <2>2. CASE ~(i <= m)
    <3> DEFINE j == i - m
    <3>1. /\ j \in 1..n /\ i \in m..(m + n) /\ i - 1 \in m..(m + n) /\ (i - 1) - m = j - 1
          /\ i \in (m + 1)..(m + n)
      BY <1>3, <2>2
    <3>2. F[i] = E[j] /\ F[i - 1] = E[j - 1] /\ s[i] = r[j]
      BY <1>3, <1>8, <3>1
    <3>3. E[j] = E[j - 1] \o PairsIn(r[j]) /\ FrameRight(r[j], E[j - 1], h)
      BY <1>2, <1>5, <3>1 DEF n
    <3> QED
      BY <3>2, <3>3
  <2> QED
    BY <2>1, <2>2
<1>10. F[0] = a
  BY <1>3, <1>4, <1>7
<1>11. F[m + n] = c
  <2>1. m + n \in m..(m + n) /\ (m + n) - m = n
    BY <1>3
  <2> QED
    BY <1>2, <1>8, <2>1 DEF n
<1>12. Delivers(F, s, a) /\ F[Len(s)] = c /\ \A i \in 1..Len(s) : FrameRight(s[i], F[i - 1], h)
  BY <1>3, <1>6, <1>9, <1>10, <1>11 DEF Delivers
<1> QED
  BY <1>12 DEF Carries, s

LEMMA CarriesHead ==
    ASSUME NEW q \in Seq(BoardFrames), q # <<>>, NEW a, NEW c, NEW h, Carries(q, a, c, h)
    PROVE  /\ FrameRight(Head(q), a, h) /\ Head(q) \in BoardFrames
           /\ Carries(Tail(q), a \o PairsIn(Head(q)), c, h)
<1> DEFINE n == Len(q)
           t == Tail(q)
<1>1. PICK D : /\ Delivers(D, q, a) /\ D[n] = c
               /\ \A i \in 1..n : FrameRight(q[i], D[i - 1], h)
  BY DEF Carries
<1>2. /\ n \in Nat \ {0} /\ t \in Seq(BoardFrames) /\ Len(t) = n - 1 /\ Head(q) = q[1]
      /\ \A i \in 1..(n - 1) : t[i] = q[i + 1]
      /\ Head(q) \in BoardFrames
  OBVIOUS
<1>3. /\ D \in [0..n -> Seq(Pair)] /\ D[0] = a
      /\ \A i \in 1..n : D[i] = D[i - 1] \o PairsIn(q[i])
  BY <1>1 DEF Delivers
<1> HIDE DEF n, t
<1> DEFINE E == [i \in 0..(n - 1) |-> D[i + 1]]
<1>4. \A i \in 0..(n - 1) : E[i] = D[i + 1]
  OBVIOUS
<1>5. E \in [0..(n - 1) -> Seq(Pair)]
  BY <1>2, <1>3
<1> HIDE DEF E
<1>6. 1 \in 1..n /\ 1 - 1 = 0 /\ 0 \in 0..(n - 1) /\ 0 + 1 = 1
  BY <1>2
<1>7. FrameRight(Head(q), a, h) /\ E[0] = a \o PairsIn(Head(q))
  BY <1>1, <1>2, <1>3, <1>4, <1>6 DEF n
<1>8. ASSUME NEW i \in 1..(n - 1)
      PROVE  E[i] = E[i - 1] \o PairsIn(t[i]) /\ FrameRight(t[i], E[i - 1], h)
  <2> DEFINE j == i + 1
  <2>1. j \in 1..n /\ j - 1 = i /\ i \in 0..(n - 1) /\ i - 1 \in 0..(n - 1) /\ (i - 1) + 1 = j - 1
    BY <1>2
  <2>2. E[i] = D[j] /\ E[i - 1] = D[j - 1] /\ t[i] = q[j]
    BY <1>2, <1>4, <2>1
  <2>3. D[j] = D[j - 1] \o PairsIn(q[j]) /\ FrameRight(q[j], D[j - 1], h)
    BY <1>1, <1>3, <2>1 DEF n
  <2> QED
    BY <2>2, <2>3
<1>9. E[n - 1] = c
  <2>1. n - 1 \in 0..(n - 1) /\ (n - 1) + 1 = n
    BY <1>2
  <2> QED
    BY <1>1, <1>4, <2>1 DEF n
<1>10. /\ Delivers(E, t, a \o PairsIn(Head(q))) /\ E[Len(t)] = c
       /\ \A i \in 1..Len(t) : FrameRight(t[i], E[i - 1], h)
  BY <1>2, <1>5, <1>7, <1>8, <1>9 DEF Delivers
<1> QED
  BY <1>2, <1>7, <1>10 DEF Carries, t

\* Without a DONE in it the frames are right for any rows.
NoDone(q) == \A i \in 1..Len(q) : q[i].type # "STATUS"

LEMMA CarriesOther ==
    ASSUME NEW q, NEW a, NEW c, NEW h, NEW g, Carries(q, a, c, h), NoDone(q)
    PROVE  Carries(q, a, c, g)
<1>1. PICK D : /\ Delivers(D, q, a) /\ D[Len(q)] = c
               /\ \A i \in 1..Len(q) : FrameRight(q[i], D[i - 1], h)
  BY DEF Carries
<1>2. ASSUME NEW i \in 1..Len(q) PROVE FrameRight(q[i], D[i - 1], g)
  BY <1>1 DEF FrameRight, DoneRight, NoDone
<1> QED
  BY <1>1, <1>2 DEF Carries

LEMMA NoDoneConcat ==
    ASSUME NEW q \in Seq(BoardFrames), NEW r \in Seq(BoardFrames), NoDone(q), NoDone(r)
    PROVE  NoDone(q \o r)
<1>1. \A i \in 1..Len(q \o r) : (q \o r)[i] = IF i <= Len(q) THEN q[i] ELSE r[i - Len(q)]
  OBVIOUS
<1>2. Len(q) \in Nat /\ Len(r) \in Nat /\ Len(q \o r) = Len(q) + Len(r)
  OBVIOUS
<1> SUFFICES ASSUME NEW i \in 1..Len(q \o r) PROVE (q \o r)[i].type # "STATUS"
  BY DEF NoDone
<1>3. CASE i <= Len(q)
  BY <1>1, <1>2, <1>3 DEF NoDone
<1>4. CASE ~(i <= Len(q))
  <2>1. i - Len(q) \in 1..Len(r)
    BY <1>2, <1>4
  <2> QED
    BY <1>1, <1>4, <2>1 DEF NoDone
<1> QED
  BY <1>3, <1>4

-----------------------------------------------------------------------------
(***************************************************************************)
(* Counting: the joins of the partitions are the join, in another order.   *)
(***************************************************************************)
\* How often e occurs in s.
Count(s, e) == Cardinality({i \in DOMAIN s : s[i] = e})

\* Of a set of positions, one more.
LEMMA OneMore ==
    ASSUME NEW n \in Nat, NEW A \in SUBSET (1..n)
    PROVE  /\ Cardinality(A) \in Nat
           /\ Cardinality(A \cup {n + 1}) = Cardinality(A) + 1
<1>1. IsFiniteSet(1..n)
  BY FS_Interval
<1>2. IsFiniteSet(A)
  BY <1>1, FS_Subset
<1>3. Cardinality(A) \in Nat
  BY <1>2, FS_CardinalityType
<1>4. n + 1 \notin A
  OBVIOUS
<1>5. Cardinality(A \cup {n + 1}) = Cardinality(A) + 1
  BY <1>2, <1>4, FS_AddElement
<1> QED
  BY <1>3, <1>5

LEMMA CountAppend ==
    ASSUME NEW S, NEW s \in Seq(S), NEW x \in S, NEW e
    PROVE  /\ Count(s, e) \in Nat
           /\ x = e => Count(Append(s, x), e) = Count(s, e) + 1
           /\ x # e => Count(Append(s, x), e) = Count(s, e)
<1> DEFINE n == Len(s)
           u == Append(s, x)
           A == {i \in DOMAIN s : s[i] = e}
           B == {i \in DOMAIN u : u[i] = e}
<1>1. /\ n \in Nat /\ u[n + 1] = x /\ \A i \in 1..n : u[i] = s[i]
      /\ DOMAIN s = 1..n /\ DOMAIN u = 1..(n + 1)
  BY AppendFacts
<1> HIDE DEF u, n
<1>2. /\ A \in SUBSET (1..n)
      /\ x = e => B = A \cup {n + 1}
      /\ x # e => B = A
  <2>1. /\ \A i \in 1..n : i \in 1..(n + 1)
        /\ \A i \in 1..(n + 1) : i \in 1..n \/ i = n + 1
        /\ n + 1 \in 1..(n + 1)
    BY <1>1
  <2> QED
    BY <1>1, <2>1
<1>3. Count(s, e) = Cardinality(A) /\ Count(u, e) = Cardinality(B)
  BY Zenon DEF Count
<1> HIDE DEF A, B
<1>4. Cardinality(A) \in Nat /\ Cardinality(A \cup {n + 1}) = Cardinality(A) + 1
  BY <1>1, <1>2, OneMore
<1> QED
  BY <1>2, <1>3, <1>4 DEF u

LEMMA CountNone == ASSUME NEW e PROVE Count(<<>>, e) = 0
<1>1. {i \in DOMAIN <<>> : (<<>>)[i] = e} = {}
  OBVIOUS
<1> QED
  BY <1>1, FS_EmptySet, Zenon DEF Count

LEMMA PairCountAppend ==
    \A s \in Seq(Pair), x \in Pair : \A e :
        /\ Count(s, e) \in Nat
        /\ x = e => Count(Append(s, x), e) = Count(s, e) + 1
        /\ x # e => Count(Append(s, x), e) = Count(s, e)
  BY CountAppend

LEMMA CountConcat ==
    ASSUME NEW s \in Seq(Pair), NEW t \in Seq(Pair), NEW e \in Pair
    PROVE  Count(s \o t, e) = Count(s, e) + Count(t, e)
<1> DEFINE pre(i) == SubSeq(t, 1, i)
           T == {i \in 0..Len(t) : Count(s \o pre(i), e) = Count(s, e) + Count(pre(i), e)}
<1>1. Count(s, e) \in Nat
  BY PairCountAppend
<1>2. 0 \in T
  <2>1. pre(0) = <<>> /\ 0 \in 0..Len(t) /\ s \o <<>> = s
    OBVIOUS
  <2>2. Count(s, e) + 0 = Count(s, e)
    BY <1>1
  <2> QED
    BY <2>1, <2>2, CountNone
<1>3. ASSUME NEW i \in 1..Len(t), i - 1 \in T PROVE i \in T
  <2> DEFINE a == pre(i - 1)
             x == t[i]
             w == s \o a
  <2>1. a \in Seq(Pair) /\ x \in Pair
    BY PrefixStep
  <2>2. pre(i) = Append(a, x)
    BY PrefixStep
  <2>3. \A y, z \in Seq(Pair), d \in Pair :
            Append(y \o z, d) = y \o Append(z, d) /\ y \o z \in Seq(Pair)
    BY AppendConcat
  <2>4. i \in 0..Len(t) /\ Count(w, e) = Count(s, e) + Count(a, e)
    BY <1>3
  <2> HIDE DEF a, x
  <2>5. s \o Append(a, x) = Append(w, x) /\ w \in Seq(Pair)
    BY <2>1, <2>3
  <2> HIDE DEF w
  <2>6. /\ Count(a, e) \in Nat
        /\ x = e => Count(Append(a, x), e) = Count(a, e) + 1
        /\ x # e => Count(Append(a, x), e) = Count(a, e)
    BY <2>1, PairCountAppend, Zenon
  <2>7. /\ x = e => Count(Append(w, x), e) = Count(w, e) + 1
        /\ x # e => Count(Append(w, x), e) = Count(w, e)
    BY <2>1, <2>5, PairCountAppend, Zenon
  <2>8. Count(Append(w, x), e) = Count(s, e) + Count(Append(a, x), e)
    <3>1. CASE x = e
      BY <1>1, <2>4, <2>6, <2>7, <3>1
    <3>2. CASE x # e
      BY <2>4, <2>6, <2>7, <3>2
    <3> QED
      BY <3>1, <3>2
  <2>9. Count(s \o pre(i), e) = Count(s, e) + Count(pre(i), e)
    BY <2>2, <2>5, <2>8, Zenon
  <2> QED
    BY <2>4, <2>9
<1>4. Len(t) \in T
  <2>1. Len(t) \in Nat /\ Len(t) \in 0..Len(t)
    OBVIOUS
  <2> HIDE DEF T
  <2> QED
    BY <1>2, <1>3, <2>1, UpTo
<1> QED
  BY <1>4, PrefixWhole

LEMMA SameCountsSameBag ==
    ASSUME NEW s \in Seq(Pair), NEW t \in Seq(Pair), \A e \in Pair : Count(s, e) = Count(t, e)
    PROVE  ToBag(s) = ToBag(t)
<1>1. ASSUME NEW u \in Seq(Pair), NEW e \in Pair
      PROVE  e \in Range(u) <=> Count(u, e) # 0
  <2> DEFINE A == {i \in DOMAIN u : u[i] = e}
  <2>1. DOMAIN u = 1..Len(u) /\ Len(u) \in Nat
    OBVIOUS
  <2>2. IsFiniteSet(1..Len(u))
    BY <2>1, FS_Interval
  <2>3. A \in SUBSET (1..Len(u))
    BY <2>1
  <2>4. IsFiniteSet(A)
    BY <2>2, <2>3, FS_Subset
  <2>5. Cardinality(A) = 0 <=> A = {}
    BY <2>4, FS_EmptySet
  <2>6. e \in Range(u) <=> A # {}
    BY DEF Range
  <2> QED
    BY <2>5, <2>6 DEF Count
<1>2. \A u \in Seq(Pair) : Range(u) \subseteq Pair
  BY DEF Range
<1>3. Range(s) = Range(t)
  BY <1>1, <1>2
<1>4. \A u \in Seq(Pair) : ToBag(u) = [x \in Range(u) |-> Count(u, x)]
  BY Zenon DEF ToBag, Count
<1>5. \A x \in Range(s) : Count(s, x) = Count(t, x)
  BY <1>2
<1>6. [x \in Range(s) |-> Count(s, x)] = [x \in Range(t) |-> Count(t, x)]
  BY <1>3, <1>5
<1> QED
  BY <1>4, <1>6

\* The outer rows of some partitions whose pair is e.
Matched(inner, r, e) == RowsWith(inner, r.key) # {} /\ PairFor(inner, r) = e
Matches(inner, outer, K, Q, e) ==
    {i \in DOMAIN outer : partition_of(outer[i].key, K) \in Q /\ Matched(inner, outer[i], e)}
NumMatches(inner, outer, K, Q, e) == Cardinality(Matches(inner, outer, K, Q, e))

LEMMA NumMatchesAppend ==
    ASSUME NEW inner, NEW outer \in Seq(Row), NEW r \in Row, NEW K, NEW Q, NEW e
    PROVE  /\ NumMatches(inner, outer, K, Q, e) \in Nat
           /\ partition_of(r.key, K) \in Q /\ Matched(inner, r, e) =>
                 NumMatches(inner, Append(outer, r), K, Q, e) =
                     NumMatches(inner, outer, K, Q, e) + 1
           /\ ~(partition_of(r.key, K) \in Q /\ Matched(inner, r, e)) =>
                 NumMatches(inner, Append(outer, r), K, Q, e) = NumMatches(inner, outer, K, Q, e)
<1> DEFINE n == Len(outer)
           u == Append(outer, r)
           hit(s) == partition_of(s.key, K) \in Q /\ Matched(inner, s, e)
           A == {i \in DOMAIN outer : hit(outer[i])}
           B == {i \in DOMAIN u : hit(u[i])}
<1>1. /\ n \in Nat /\ u[n + 1] = r /\ \A i \in 1..n : u[i] = outer[i]
      /\ DOMAIN outer = 1..n /\ DOMAIN u = 1..(n + 1)
  BY AppendFacts
<1> HIDE DEF u, n
<1>2. NumMatches(inner, outer, K, Q, e) = Cardinality(A)
  BY Zenon DEF NumMatches, Matches
<1>3. NumMatches(inner, u, K, Q, e) = Cardinality(B)
  BY Zenon DEF NumMatches, Matches
<1>4. hit(r) <=> partition_of(r.key, K) \in Q /\ Matched(inner, r, e)
  BY Zenon
<1> HIDE DEF hit
<1>5. /\ A \in SUBSET (1..n)
      /\ hit(r) => B = A \cup {n + 1}
      /\ ~hit(r) => B = A
  <2>1. /\ \A i \in 1..n : i \in 1..(n + 1)
        /\ \A i \in 1..(n + 1) : i \in 1..n \/ i = n + 1
        /\ n + 1 \in 1..(n + 1)
    BY <1>1
  <2> QED
    BY <1>1, <2>1
<1> HIDE DEF A, B
<1>6. Cardinality(A) \in Nat /\ Cardinality(A \cup {n + 1}) = Cardinality(A) + 1
  BY <1>1, <1>5, OneMore
<1>7. hit(r) => NumMatches(inner, u, K, Q, e) = NumMatches(inner, outer, K, Q, e) + 1
  BY <1>5, <1>2, <1>3, <1>6
<1>8. ~hit(r) => NumMatches(inner, u, K, Q, e) = NumMatches(inner, outer, K, Q, e)
  BY <1>5, <1>2, <1>3, <1>6
<1> QED
  BY <1>2, <1>4, <1>6, <1>7, <1>8 DEF u

LEMMA NumMatchesNone ==
    ASSUME NEW inner, NEW K, NEW Q, NEW e
    PROVE  NumMatches(inner, <<>>, K, Q, e) = 0
<1>1. Matches(inner, <<>>, K, Q, e) = {}
  BY DEF Matches
<1> QED
  BY <1>1, FS_EmptySet, Zenon DEF NumMatches

LEMMA NumMatchesNowhere ==
    \A inner, outer, K, e : NumMatches(inner, outer, K, 0..(0 - 1), e) = 0
<1> TAKE inner, outer, K, e
<1>1. \A x : x \notin 0..(0 - 1)
  OBVIOUS
<1>2. Matches(inner, outer, K, 0..(0 - 1), e) = {}
  BY <1>1, Zenon DEF Matches
<1> QED
  BY <1>2, FS_EmptySet, Zenon DEF NumMatches

\* One partition after the other.
LEMMA NumMatchesNext ==
    ASSUME NEW inner, NEW outer \in Seq(Row), NEW K, NEW p \in Nat, NEW e
    PROVE  NumMatches(inner, outer, K, 0..p, e) =
               NumMatches(inner, outer, K, 0..(p - 1), e) + NumMatches(inner, outer, K, {p}, e)
<1> DEFINE M(Q) == Matches(inner, outer, K, Q, e)
<1>1. \A Q : M(Q) \in SUBSET (1..Len(outer))
  BY DEF Matches
<1>2. IsFiniteSet(1..Len(outer))
  BY FS_Interval
<1>3. \A Q : IsFiniteSet(M(Q)) /\ Cardinality(M(Q)) \in Nat
  BY <1>1, <1>2, FS_Subset, FS_CardinalityType
<1>4. M(0..p) = M(0..(p - 1)) \cup M({p}) /\ M(0..(p - 1)) \cap M({p}) = {}
  <2>1. \A x : (x \in 0..p <=> x \in 0..(p - 1) \/ x \in {p}) /\ ~(x \in 0..(p - 1) /\ x \in {p})
    OBVIOUS
  <2> QED
    BY <2>1, Zenon DEF Matches
<1> DEFINE a == M(0..(p - 1))
           b == M({p})
<1>5. /\ IsFiniteSet(a) /\ IsFiniteSet(b) /\ Cardinality(a) \in Nat /\ Cardinality(b) \in Nat
      /\ a \cap b = {} /\ M(0..p) = a \cup b
  BY <1>3, <1>4
<1> HIDE DEF a, b
<1>6. Cardinality(a \cup b) = Cardinality(a) + Cardinality(b) - Cardinality(a \cap b)
  BY <1>5, FS_Union
<1>7. Cardinality({}) = 0
  BY FS_EmptySet
<1>8. Cardinality(a \cup b) = Cardinality(a) + Cardinality(b)
  <2> DEFINE m == Cardinality(a)
             n == Cardinality(b)
  <2>1. Cardinality(a \cap b) = 0
    BY <1>5, <1>7, Zenon
  <2>2. m \in Nat /\ n \in Nat /\ Cardinality(a \cup b) = m + n - 0
    BY <1>5, <1>6, <2>1, Zenon
  <2> HIDE DEF m, n
  <2>3. m + n - 0 = m + n
    BY <2>2
  <2> QED
    BY <2>2, <2>3, Zenon DEF m, n
<1>9. Cardinality(M(0..p)) = Cardinality(a) + Cardinality(b)
  BY <1>5, <1>8, Zenon
<1> QED
  BY <1>9, Zenon DEF NumMatches, a, b

\* The first row of a key is in the partition of the key, before the others.
LEMMA FirstInPartition ==
    ASSUME NEW inner \in Seq(Row), NEW k, NEW K, NEW p, partition_of(k, K) = p
    PROVE  LET mine == RowsIn(inner, p, K)
           IN /\ RowsWith(mine, k) # {} <=> RowsWith(inner, k) # {}
              /\ RowsWith(inner, k) # {} =>
                    mine[FirstWith(mine, k)] = inner[FirstWith(inner, k)]
<1> DEFINE pre(i) == SubSeq(inner, 1, i)
           in(s) == RowsIn(s, p, K)
           ok(s) == /\ RowsWith(in(s), k) # {} <=> RowsWith(s, k) # {}
                    /\ RowsWith(s, k) # {} => in(s)[FirstWith(in(s), k)] = s[FirstWith(s, k)]
           T == {i \in 0..Len(inner) : ok(pre(i))}
<1>1. 0 \in T
  <2>1. pre(0) = <<>> /\ 0 \in 0..Len(inner)
    OBVIOUS
  <2>2. RowsWith(<<>>, k) = {}
    BY DEF RowsWith
  <2>3. in(<<>>) = <<>>
    BY RowsInNone
  <2>4. ok(<<>>)
    BY <2>2, <2>3, Zenon
  <2> QED
    BY <2>1, <2>4, Zenon
<1>2. ASSUME NEW i \in 1..Len(inner), i - 1 \in T PROVE i \in T
  <2> DEFINE a == pre(i - 1)
             r == inner[i]
             b == in(a)
  <2>1. a \in Seq(Row) /\ r \in Row
    BY PrefixStep
  <2>2. pre(i) = Append(a, r)
    BY PrefixStep
  <2>3. i \in 0..Len(inner) /\ ok(a)
    <3>1. i \in 0..Len(inner)
      OBVIOUS
    <3>2. ok(a)
      BY <1>2, Zenon
    <3> QED
      BY <3>1, <3>2, Zenon
  <2> HIDE DEF a, r
  <2>4. b \in Seq(Row)
    BY <2>1, RowsInType
  <2>5. /\ RowsWith(b, k) # {} <=> RowsWith(a, k) # {}
        /\ RowsWith(a, k) # {} => b[FirstWith(b, k)] = a[FirstWith(a, k)]
    BY <2>3, Zenon
  <2>6. /\ RowsWith(Append(a, r), k) # {} <=> (RowsWith(a, k) # {} \/ r.key = k)
        /\ RowsWith(a, k) # {} =>
              Append(a, r)[FirstWith(Append(a, r), k)] = a[FirstWith(a, k)]
        /\ RowsWith(a, k) = {} /\ r.key = k =>
              Append(a, r)[FirstWith(Append(a, r), k)] = r
    BY <2>1, FirstWithAppend, Zenon
  <2>7. /\ partition_of(r.key, K) = p => in(Append(a, r)) = Append(b, r)
        /\ partition_of(r.key, K) # p => in(Append(a, r)) = b
    BY <2>1, RowsInAppend
  <2> HIDE DEF b
  <2>8. /\ RowsWith(Append(b, r), k) # {} <=> (RowsWith(b, k) # {} \/ r.key = k)
        /\ RowsWith(b, k) # {} =>
              Append(b, r)[FirstWith(Append(b, r), k)] = b[FirstWith(b, k)]
        /\ RowsWith(b, k) = {} /\ r.key = k =>
              Append(b, r)[FirstWith(Append(b, r), k)] = r
    <3> HIDE DEF in
    <3>1. r \in Row /\ b \in Seq(Row)
      BY <2>1, <2>4, Zenon
    <3> QED
      BY <3>1, FirstWithAppend, Zenon
  <2> HIDE DEF in
  <2>9. ok(Append(a, r))
    <3>1. CASE partition_of(r.key, K) = p
      <4>1. in(Append(a, r)) = Append(b, r)
        BY <2>7, <3>1
      <4> QED
        BY <2>5, <2>6, <2>8, <4>1, Zenon
    <3>2. CASE partition_of(r.key, K) # p
      <4>1. r.key # k /\ in(Append(a, r)) = b
        BY <2>7, <3>2
      <4> QED
        BY <2>5, <2>6, <4>1, Zenon
    <3> QED
      BY <3>1, <3>2
  <2> QED
    BY <2>2, <2>3, <2>9, Zenon
<1>3. Len(inner) \in T
  <2>1. Len(inner) \in Nat /\ Len(inner) \in 0..Len(inner)
    OBVIOUS
  <2> HIDE DEF T
  <2> QED
    BY <1>1, <1>2, <2>1, UpTo
<1>4. ok(pre(Len(inner)))
  BY <1>3, Zenon
<1>5. pre(Len(inner)) = inner
  BY PrefixWhole
<1>6. ok(inner)
  BY <1>4, <1>5, Zenon
<1> QED
  BY <1>6, Zenon

\* The pairs of one outer row more.
LEMMA JoinCountAppend ==
    ASSUME NEW inner \in Seq(Row), NEW outer \in Seq(Row), NEW r \in Row, NEW e \in Pair
    PROVE  /\ Count(JoinOf(inner, outer), e) \in Nat
           /\ Matched(inner, r, e) =>
                 Count(JoinOf(inner, Append(outer, r)), e) = Count(JoinOf(inner, outer), e) + 1
           /\ ~Matched(inner, r, e) =>
                 Count(JoinOf(inner, Append(outer, r)), e) = Count(JoinOf(inner, outer), e)
<1> DEFINE j == JoinOf(inner, outer)
           u == JoinOf(inner, Append(outer, r))
           x == PairFor(inner, r)
<1>1. j \in Seq(Pair)
  BY JoinType
<1>2. RowsWith(inner, r.key) # {} => x \in Pair /\ u = Append(j, x)
  <2>1. RowsWith(inner, r.key) # {} => x \in Pair
    BY PairForType
  <2>2. RowsWith(inner, r.key) # {} => u = Append(j, x)
    BY JoinAppend, Zenon
  <2> QED
    BY <2>1, <2>2
<1>3. RowsWith(inner, r.key) = {} => u = j
  BY JoinAppend, Zenon
<1>4. Matched(inner, r, e) <=> RowsWith(inner, r.key) # {} /\ x = e
  BY DEF Matched
<1> HIDE DEF j, u, x
<1>5. Count(j, e) \in Nat
  BY <1>1, PairCountAppend, Zenon
<1>6. x \in Pair => /\ x = e => Count(Append(j, x), e) = Count(j, e) + 1
                    /\ x # e => Count(Append(j, x), e) = Count(j, e)
  BY <1>1, PairCountAppend, Zenon
<1>7. /\ Matched(inner, r, e) => Count(u, e) = Count(j, e) + 1
      /\ ~Matched(inner, r, e) => Count(u, e) = Count(j, e)
  BY <1>2, <1>3, <1>4, <1>6, Zenon
<1> QED
  BY <1>5, <1>7 DEF j, u

\* Every outer row is in one of the K partitions.
LEMMA JoinCount ==
    ASSUME NEW inner \in Seq(Row), NEW outer \in Seq(Row), NEW K \in Nat \ {0}, NEW e \in Pair
    PROVE  Count(JoinOf(inner, outer), e) = NumMatches(inner, outer, K, 0..(K - 1), e)
<1> DEFINE Q == 0..(K - 1)
           pre(i) == SubSeq(outer, 1, i)
           ok(s) == Count(JoinOf(inner, s), e) = NumMatches(inner, s, K, Q, e)
           T == {i \in 0..Len(outer) : ok(pre(i))}
<1>1. 0 \in T
  <2>1. pre(0) = <<>> /\ 0 \in 0..Len(outer)
    OBVIOUS
  <2>2. ok(<<>>)
    BY JoinNone, CountNone, NumMatchesNone, Zenon
  <2> QED
    BY <2>1, <2>2, Zenon
<1>2. ASSUME NEW i \in 1..Len(outer), i - 1 \in T PROVE i \in T
  <2> DEFINE a == pre(i - 1)
             r == outer[i]
  <2>1. a \in Seq(Row) /\ r \in Row
    BY PrefixStep
  <2>2. pre(i) = Append(a, r)
    BY PrefixStep
  <2>3. i \in 0..Len(outer)
    OBVIOUS
  <2>4. ok(a)
    BY <1>2, Zenon
  <2>5. partition_of(r.key, K) \in Q
    <3>1. r.key \in Keys
      BY <2>1 DEF Row
    <3>2. part_hash[r.key] \in Nat
      BY <3>1, GraceAssumption
    <3> QED
      BY <3>2 DEF partition_of
  <2> HIDE DEF a, r, Q
  <2>6. /\ Matched(inner, r, e) =>
              NumMatches(inner, Append(a, r), K, Q, e) = NumMatches(inner, a, K, Q, e) + 1
        /\ ~Matched(inner, r, e) =>
              NumMatches(inner, Append(a, r), K, Q, e) = NumMatches(inner, a, K, Q, e)
    BY <2>1, <2>5, NumMatchesAppend
  <2>7. /\ Matched(inner, r, e) =>
              Count(JoinOf(inner, Append(a, r)), e) = Count(JoinOf(inner, a), e) + 1
        /\ ~Matched(inner, r, e) =>
              Count(JoinOf(inner, Append(a, r)), e) = Count(JoinOf(inner, a), e)
    BY <2>1, JoinCountAppend
  <2>8. ok(Append(a, r))
    BY <2>4, <2>6, <2>7, Zenon
  <2> QED
    BY <2>2, <2>3, <2>8, Zenon
<1>3. Len(outer) \in T
  <2>1. Len(outer) \in Nat /\ Len(outer) \in 0..Len(outer)
    OBVIOUS
  <2> HIDE DEF T
  <2> QED
    BY <1>1, <1>2, <2>1, UpTo
<1>4. ok(pre(Len(outer)))
  BY <1>3, Zenon
<1>5. pre(Len(outer)) = outer
  BY PrefixWhole
<1> QED
  BY <1>4, <1>5, Zenon

\* The join of the rows of one partition.
LEMMA PartitionJoinCount ==
    ASSUME NEW inner \in Seq(Row), NEW outer \in Seq(Row), NEW K, NEW p, NEW e \in Pair
    PROVE  Count(JoinOf(RowsIn(inner, p, K), RowsIn(outer, p, K)), e) =
               NumMatches(inner, outer, K, {p}, e)
<1> DEFINE mine == RowsIn(inner, p, K)
           pre(i) == SubSeq(outer, 1, i)
           in(s) == RowsIn(s, p, K)
           ok(s) == Count(JoinOf(mine, in(s)), e) = NumMatches(inner, s, K, {p}, e)
           T == {i \in 0..Len(outer) : ok(pre(i))}
<1>1. mine \in Seq(Row)
  BY RowsInType
<1>2. 0 \in T
  <2>1. pre(0) = <<>> /\ 0 \in 0..Len(outer)
    OBVIOUS
  <2>2. in(<<>>) = <<>>
    BY RowsInNone
  <2>3. ok(<<>>)
    BY <2>2, JoinNone, CountNone, NumMatchesNone, Zenon
  <2> QED
    BY <2>1, <2>3, Zenon
<1>3. ASSUME NEW i \in 1..Len(outer), i - 1 \in T PROVE i \in T
  <2> DEFINE a == pre(i - 1)
             r == outer[i]
             b == in(a)
  <2>1. a \in Seq(Row) /\ r \in Row
    BY PrefixStep
  <2>2. pre(i) = Append(a, r)
    BY PrefixStep
  <2>3. i \in 0..Len(outer)
    OBVIOUS
  <2>4. Count(JoinOf(mine, b), e) = NumMatches(inner, a, K, {p}, e)
    BY <1>3, Zenon
  <2> HIDE DEF a, r
  <2>5. b \in Seq(Row)
    BY <2>1, RowsInType
  <2>6. /\ partition_of(r.key, K) = p => in(Append(a, r)) = Append(b, r)
        /\ partition_of(r.key, K) # p => in(Append(a, r)) = b
    BY <2>1, RowsInAppend
  <2> HIDE DEF b
  <2>7. /\ partition_of(r.key, K) \in {p} /\ Matched(inner, r, e) =>
              NumMatches(inner, Append(a, r), K, {p}, e) = NumMatches(inner, a, K, {p}, e) + 1
        /\ ~(partition_of(r.key, K) \in {p} /\ Matched(inner, r, e)) =>
              NumMatches(inner, Append(a, r), K, {p}, e) = NumMatches(inner, a, K, {p}, e)
    BY <2>1, NumMatchesAppend
  <2>8. partition_of(r.key, K) = p => (Matched(mine, r, e) <=> Matched(inner, r, e))
    <3>1. HAVE partition_of(r.key, K) = p
    <3>2. /\ RowsWith(mine, r.key) # {} <=> RowsWith(inner, r.key) # {}
          /\ RowsWith(inner, r.key) # {} =>
                mine[FirstWith(mine, r.key)] = inner[FirstWith(inner, r.key)]
      BY <3>1, FirstInPartition
    <3> HIDE DEF mine
    <3> QED
      BY <3>2, Zenon DEF Matched, PairFor
  <2> HIDE DEF mine
  <2>9. /\ Matched(mine, r, e) =>
              Count(JoinOf(mine, Append(b, r)), e) = Count(JoinOf(mine, b), e) + 1
        /\ ~Matched(mine, r, e) =>
              Count(JoinOf(mine, Append(b, r)), e) = Count(JoinOf(mine, b), e)
    BY <1>1, <2>1, <2>5, JoinCountAppend
  <2> HIDE DEF in
  <2>10. Count(JoinOf(mine, in(Append(a, r))), e) = NumMatches(inner, Append(a, r), K, {p}, e)
    <3>1. CASE partition_of(r.key, K) = p
      BY <2>4, <2>6, <2>7, <2>8, <2>9, <3>1, Zenon
    <3>2. CASE partition_of(r.key, K) # p
      BY <2>4, <2>6, <2>7, <3>2, Zenon
    <3> QED
      BY <3>1, <3>2
  <2> QED
    BY <2>2, <2>3, <2>10, Zenon
<1>4. Len(outer) \in T
  <2>1. Len(outer) \in Nat /\ Len(outer) \in 0..Len(outer)
    OBVIOUS
  <2> HIDE DEF T
  <2> QED
    BY <1>2, <1>3, <2>1, UpTo
<1>5. ok(pre(Len(outer)))
  BY <1>4, Zenon
<1>6. pre(Len(outer)) = outer
  BY PrefixWhole
<1> QED
  BY <1>5, <1>6, Zenon

-----------------------------------------------------------------------------
(***************************************************************************)
(* The RESULT frames of a partition carry its pairs.                       *)
(***************************************************************************)
LEMMA FrameCount ==
    ASSUME NEW l \in Nat, NEW x \in Nat \ {0}
    PROVE  /\ (l + x - 1) \div x \in Nat /\ l <= ((l + x - 1) \div x) * x
           /\ \A i \in 1..((l + x - 1) \div x) :
                 (i - 1) * x \in Nat /\ i * x \in Nat /\ i * x = (i - 1) * x + x
                 /\ (i - 1) * x < l
<1> DEFINE z == l + x - 1
           n == z \div x
           rest == z % x
<1>1. z \in Nat
  OBVIOUS
<1>2. n \in Nat /\ rest \in 0..(x - 1) /\ z = x * n + rest
  BY <1>1
<1>3. n * x = x * n /\ x * n \in Nat
  BY <1>2
<1>4. l <= n * x /\ n * x < l + x
  BY <1>2, <1>3
<1> HIDE DEF n
<1>5. ASSUME NEW i \in 1..n
      PROVE  (i - 1) * x \in Nat /\ i * x \in Nat /\ i * x = (i - 1) * x + x /\ (i - 1) * x < l
  <2> DEFINE j == i - 1
  <2>1. j \in Nat /\ i = j + 1 /\ j < n
    BY <1>2
  <2> HIDE DEF j
  <2>2. j * x \in Nat /\ (j + 1) * x = j * x + x
    BY <2>1
  <2>3. j * x + x <= n * x
    BY <1>2, <2>1, SlotOrder
  <2>4. j * x < l
    BY <1>3, <1>4, <2>2, <2>3
  <2> QED
    BY <2>1, <2>2, <2>4 DEF j
<1> QED
  BY <1>2, <1>4, <1>5 DEF n

\* The pairs of the first frames, and of the next one.
LEMMA PairsSplit ==
    ASSUME NEW ps \in Seq(Pair), NEW got \in Seq(Pair), NEW a \in 0..Len(ps), NEW b \in a..Len(ps)
    PROVE  /\ got \o SubSeq(ps, 1, b) = (got \o SubSeq(ps, 1, a)) \o SubSeq(ps, a + 1, b)
           /\ got \o SubSeq(ps, 1, a) \in Seq(Pair)
           /\ SubSeq(ps, a + 1, b) \in Seq(Pair)
<1> DEFINE s == SubSeq(ps, 1, a)
           t == SubSeq(ps, a + 1, b)
<1>1. s \in Seq(Pair) /\ t \in Seq(Pair)
  OBVIOUS
<1>2. s \o t = SubSeq(ps, 1, b)
  <2>1. 1 \in 1..(Len(ps) + 1) /\ a \in (1 - 1)..Len(ps) /\ b \in a..Len(ps)
    OBVIOUS
  <2> QED
    BY <2>1, ConcatAdjacentSubSeq
<1> HIDE DEF s, t
<1>3. (got \o s) \o t = got \o (s \o t)
  BY <1>1, ConcatAssociative
<1>4. got \o s \in Seq(Pair)
  BY <1>1
<1> QED
  BY <1>1, <1>2, <1>3, <1>4, Zenon DEF s, t

LEMMA ResultFramesCarry ==
    ASSUME NEW ps \in Seq(Pair), NEW got \in Seq(Pair), NEW h
    PROVE  /\ ResultFrames(ps) \in Seq(BoardFrames) /\ NoDone(ResultFrames(ps))
           /\ Carries(ResultFrames(ps), got, got \o ps, h)
<1> DEFINE l == Len(ps)
           x == TX_BUF_SIZE
           n == (l + x - 1) \div x
           m(i) == Min({i * x, l})
           part(i) == SubSeq(ps, (i - 1) * x + 1, m(i))
           fs == [f \in 1..n |-> ResultFrame(part(f))]
           D == [i \in 0..n |-> got \o SubSeq(ps, 1, m(i))]
<1>1. l \in Nat /\ x \in Nat \ {0}
  BY GraceAssumption
<1>2. ResultFrames(ps) = fs
  BY DEF ResultFrames
<1> HIDE DEF x, l
<1>3. /\ n \in Nat /\ l <= n * x
      /\ \A i \in 1..n : /\ (i - 1) * x \in Nat /\ i * x \in Nat /\ i * x = (i - 1) * x + x
                         /\ (i - 1) * x < l
  BY <1>1, FrameCount
<1> HIDE DEF n
<1>4. m(0) = 0 /\ m(n) = l
  <2>1. 0 * x = 0 /\ n * x \in Nat
    BY <1>1, <1>3
  <2>2. m(0) \in {0, l} /\ m(0) <= 0
    BY <1>1, <2>1, MinOfTwo
  <2>3. m(n) \in {n * x, l} /\ m(n) <= l
    BY <1>1, <2>1, MinOfTwo
  <2> QED
    BY <1>1, <1>3, <2>1, <2>2, <2>3
<1>5. ASSUME NEW i \in 1..n
      PROVE  m(i - 1) = (i - 1) * x /\ m(i - 1) \in 0..l /\ m(i) \in m(i - 1)..l
  <2> DEFINE a == (i - 1) * x
             b == i * x
  <2>1. a \in Nat /\ b \in Nat /\ b = a + x /\ a < l
    BY <1>3
  <2> HIDE DEF a, b
  <2>2. Min({a, l}) \in {a, l} /\ Min({a, l}) <= a
    BY <1>1, <2>1, MinOfTwo
  <2>3. Min({b, l}) \in {b, l} /\ Min({b, l}) <= l
    BY <1>1, <2>1, MinOfTwo
  <2>4. Min({a, l}) = a /\ a \in 0..l /\ Min({b, l}) \in a..l
    BY <1>1, <2>1, <2>2, <2>3
  <2> QED
    BY <2>4 DEF a, b
<1> HIDE DEF m
<1>6. ASSUME NEW i \in 1..n
      PROVE  /\ part(i) \in Seq(Pair)
             /\ got \o SubSeq(ps, 1, m(i)) = (got \o SubSeq(ps, 1, m(i - 1))) \o part(i)
             /\ got \o SubSeq(ps, 1, m(i - 1)) \in Seq(Pair)
  <2> DEFINE a == m(i - 1)
             b == m(i)
  <2>1. a \in 0..Len(ps) /\ b \in a..Len(ps) /\ part(i) = SubSeq(ps, a + 1, b)
    BY <1>5 DEF l
  <2> HIDE DEF a, b
  <2>2. /\ got \o SubSeq(ps, 1, b) = (got \o SubSeq(ps, 1, a)) \o SubSeq(ps, a + 1, b)
        /\ got \o SubSeq(ps, 1, a) \in Seq(Pair)
        /\ SubSeq(ps, a + 1, b) \in Seq(Pair)
    BY <2>1, PairsSplit
  <2> QED
    BY <2>1, <2>2, Zenon DEF a, b
<1> HIDE DEF part
<1>7. /\ fs \in Seq(BoardFrames) /\ Len(fs) = n
      /\ \A i \in 1..n : fs[i] = [type |-> "RESULT", pairs |-> part(i)]
  <2>1. \A i \in 1..n : ResultFrame(part(i)) = [type |-> "RESULT", pairs |-> part(i)]
    BY DEF ResultFrame
  <2>2. \A i \in 1..n : ResultFrame(part(i)) \in BoardFrames
    BY <1>6, <2>1 DEF BoardFrames
  <2>3. fs \in [1..n -> BoardFrames]
    BY <2>2
  <2> QED
    BY <1>3, <2>1, <2>3
<1>8. \A i \in 1..n : fs[i].type = "RESULT" /\ PairsIn(fs[i]) = part(i)
  BY <1>7 DEF PairsIn
<1>9. \A i \in 0..n : D[i] = got \o SubSeq(ps, 1, m(i))
  OBVIOUS
<1>10. D[0] = got /\ D[n] = got \o ps
  <2>1. 0 \in 0..n /\ n \in 0..n
    BY <1>3
  <2>2. SubSeq(ps, 1, 0) = <<>> /\ SubSeq(ps, 1, l) = ps /\ got \o <<>> = got
    BY DEF l
  <2> QED
    BY <1>4, <1>9, <2>1, <2>2
<1>11. D \in [0..n -> Seq(Pair)]
  <2> SUFFICES ASSUME NEW i \in 0..n PROVE got \o SubSeq(ps, 1, m(i)) \in Seq(Pair)
    OBVIOUS
  <2>1. CASE i = n
    <3>1. SubSeq(ps, 1, l) = ps /\ got \o ps \in Seq(Pair)
      BY DEF l
    <3> QED
      BY <1>4, <2>1, <3>1
  <2>2. CASE i # n
    <3>1. i + 1 \in 1..n /\ (i + 1) - 1 = i
      BY <1>3, <2>2
    <3> QED
      BY <1>6, <3>1
  <2> QED
    BY <2>1, <2>2
<1> HIDE DEF fs, D
<1>12. ASSUME NEW i \in 1..n PROVE D[i] = D[i - 1] \o PairsIn(fs[i])
  <2>1. i \in 0..n /\ i - 1 \in 0..n
    BY <1>3
  <2> QED
    BY <1>6, <1>8, <1>9, <2>1
<1>13. \A i \in 1..n : FrameRight(fs[i], D[i - 1], h)
  BY <1>8 DEF FrameRight, CountsRight, DoneRight
<1>14. Delivers(D, fs, got) /\ D[Len(fs)] = got \o ps
  BY <1>7, <1>10, <1>11, <1>12 DEF Delivers
<1>15. Carries(fs, got, got \o ps, h)
  BY <1>7, <1>13, <1>14 DEF Carries
<1>16. NoDone(fs)
  BY <1>7, <1>8 DEF NoDone
<1> QED
  BY <1>2, <1>7, <1>15, <1>16

-----------------------------------------------------------------------------
(***************************************************************************)
(* Over a link without faults, the host and the kernel take turns, and     *)
(* the pairs on the wire and in result_buf are those of the session.       *)
(***************************************************************************)
Turns ==
    /\ drops = 0 /\ dups = 0 /\ k2h \in Seq(BoardFrames) /\ pairs \in Seq(Pair)
    /\ Len(h2k) <= 1
    /\ h2k # <<>> => k2h = <<>> /\ (WaitsForFrame \/ junk \in 1..(HEADER_BYTES - 1))
    /\ junk > 0 => kpc = "IDLE"
    /\ kpc = "IDLE" /\ k2h = <<>> => pairs = <<>>
    /\ kpc # "IDLE" => NoDone(k2h)

\* The pairs sent are those of the partitions behind s.partition.
Joined(d, s, h) ==
    \A e \in Pair :
        Count(d, e) = NumMatches(h.inner, h.outer, s.K, 0..(s.partition - 1), e)

\* How far the session s, which has handled the rows h, is at pc when the
\* pairs sent are d.
Standing(d, pc, s, h) ==
    /\ pc # "IDLE" => s.matched = Len(d) + Len(s.result_buf)
    /\ pc \in LinearPhases => /\ d \o s.result_buf = JoinOf(h.inner, h.outer)
                              /\ h.algorithm = "A"
    /\ pc \in {"BUILD", "INSERT"} => h.outer = <<>>
    /\ pc \in {"GRACE_INNER", "GRACE_OUTER"} => s.partition = 0 /\ d = <<>>
    /\ pc \in GracePhases => /\ s.result_buf = <<>> /\ s.partition <= s.K
                             /\ Joined(d, s, h)

\* d are the pairs of all RESULT frames of the session.
Sent == \E d \in Seq(Pair) : Carries(k2h, pairs, d, seen) /\ Standing(d, kpc, ses, seen)

Talk == Turns /\ Sent

\* A step puts the frames fs on the wire.
Adds(fs) == k2h' = k2h \o fs /\ drops' = 0 /\ dups' = 0

LEMMA SendsAdds ==
    ASSUME Faultless, Turns, NEW fs \in Seq(BoardFrames), KernelSends(fs)
    PROVE  Adds(fs)
<1>1. drops = 0 /\ dups = 0 /\ k2h \in Seq(BoardFrames)
  BY DEF Turns
<1>2. k2h' = k2h \o fs /\ drops' = 0 /\ dups' = 0
  BY <1>1, KernelSendsOnce
<1> QED
  BY <1>2 DEF Adds

LEMMA AddsNothing ==
    ASSUME Turns, UNCHANGED <<k2h, drops, dups>>
    PROVE  Adds(<<>>) /\ <<>> \in Seq(BoardFrames) /\ NoDone(<<>>)
<1>1. drops = 0 /\ dups = 0 /\ k2h \in Seq(BoardFrames)
  BY DEF Turns
<1>2. k2h \o <<>> = k2h /\ Len(<<>>) = 0 /\ <<>> \in Seq(BoardFrames)
  BY <1>1
<1>3. \A i \in 1..0 : FALSE
  OBVIOUS
<1> QED
  BY <1>1, <1>2, <1>3 DEF Adds, NoDone

\* At most one frame is on its way to the kernel, and only while the kernel
\* waits for it: no step of the kernel leaves one behind.
LEMMA NoFrameLeft ==
    ASSUME Types, Turns, Kernel
    PROVE  h2k' = <<>> /\ (h2k # <<>> => k2h = <<>>)
<1>1. h2k \in Seq(HostFrames) /\ Len(h2k) <= 1 /\ junk \in Nat
  BY DEF Types, Turns
<1>2. h2k # <<>> => Tail(h2k) = <<>>
  <2> SUFFICES ASSUME h2k # <<>> PROVE Tail(h2k) = <<>>
    OBVIOUS
  <2>1. Len(h2k) = 1
    <3> DEFINE n == Len(h2k)
    <3>1. n \in Nat /\ n # 0 /\ n <= 1
      BY <1>1, EmptySeq
    <3> HIDE DEF n
    <3>2. n = 1
      BY <3>1
    <3> QED
      BY <3>2, Zenon DEF n
  <2>2. Tail(h2k) \in Seq(HostFrames) /\ Len(Tail(h2k)) = 0
    BY <1>1, <2>1
  <2> QED
    BY <2>2, EmptySeq
<1>3. h2k # <<>> => k2h = <<>> /\ (WaitsForFrame \/ junk \in 1..2)
  BY DEF Turns, HEADER_BYTES
<1>4. \/ h2k' = Tail(h2k) /\ h2k # <<>>
      \/ ~(WaitsForFrame \/ junk \in 1..2) /\ h2k' = h2k
  <2>1. CASE IdleMisread
    <3>1. CASE junk < HEADER_BYTES /\ h2k # <<>> /\ h2k' = Tail(h2k)
      BY <3>1
    <3>2. CASE junk >= HEADER_BYTES /\ h2k' = h2k
      BY <1>1, <3>2 DEF WaitsForFrame, HEADER_BYTES
    <3> QED
      BY <2>1, <3>1, <3>2 DEF IdleMisread
  <2>2. CASE \/ BuildLoopExit \/ InsertRow \/ BuildFrameDone \/ LookupRow \/ ProbeFrameDone
             \/ GraceLoopExit \/ GraceJoin \/ GraceLoadRow \/ GraceProbe \/ GraceStall
             \/ SessionDone
    <3>1. /\ \/ kpc = "BUILD" /\ ~InBuildLoop
             \/ kpc = "PROBE" /\ ~InProbeLoop
             \/ kpc \in {"GRACE_INNER", "GRACE_OUTER"} /\ ~InGraceLoop
             \/ kpc \in {"INSERT", "LOOKUP", "CLOSE", "GRACE_JOIN", "GRACE_LOAD"}
          /\ h2k' = h2k
      BY <2>2 DEF BuildLoopExit, InsertRow, BuildFrameDone, LookupRow, ProbeFrameDone,
         GraceLoopExit, GraceJoin, GraceLoadRow, GraceProbe, GraceStall, SessionDone, link
    <3>2. junk = 0
      BY <1>1, <3>1 DEF Turns
    <3>3. ~WaitsForFrame
      BY <3>1 DEF WaitsForFrame, InGraceLoop
    <3> QED
      BY <3>1, <3>2, <3>3
  <2>3. CASE \/ IdleReset \/ IdleRefuse \/ ConfigureRefuse \/ Configure \/ BuildReset
             \/ BuildRefuse \/ BuildFrame \/ ProbeReset \/ ProbeRefuse \/ ProbeFrame
             \/ GraceReset \/ GraceRefuse \/ GraceInnerFrame \/ GraceOuterFrame
    BY <2>3 DEF IdleReset, IdleRefuse, ConfigureRefuse, Configure, BuildReset, BuildRefuse,
       BuildFrame, ProbeReset, ProbeRefuse, ProbeFrame, GraceReset, GraceRefuse,
       GraceInnerFrame, GraceOuterFrame, Refuse, Reads
  <2> QED
    BY <2>1, <2>2, <2>3 DEF Kernel, KernelStep, LinearStep, GraceStep
<1> QED
  BY <1>2, <1>3, <1>4

\* A step that stays in the session and sends the frames fs.
LEMMA SessionGoesOn ==
    ASSUME Types, Turns, Kernel, kpc # "IDLE", kpc' # "IDLE", junk' = junk,
           NEW fs \in Seq(BoardFrames), Adds(fs), NoDone(fs),
           NEW d \in Seq(Pair), Carries(k2h, pairs, d, seen),
           NEW e \in Seq(Pair), Carries(fs, d, e, seen'), Standing(e, kpc', ses', seen')
    PROVE  Talk'
<1>1. /\ k2h \in Seq(BoardFrames) /\ pairs \in Seq(Pair) /\ NoDone(k2h)
      /\ junk \in Nat /\ (junk > 0 => kpc = "IDLE")
  BY DEF Turns, Types
<1>2. h2k' = <<>> /\ pairs' = pairs
  BY NoFrameLeft DEF Kernel
<1>3. Len(<<>>) = 0
  OBVIOUS
<1>4. k2h' = k2h \o fs /\ drops' = 0 /\ dups' = 0
  BY DEF Adds
<1>5. k2h \o fs \in Seq(BoardFrames)
  BY <1>1
<1>6. NoDone(k2h \o fs)
  BY <1>1, NoDoneConcat
<1>7. Carries(k2h, pairs, d, seen')
  BY <1>1, CarriesOther
<1>8. Carries(k2h \o fs, pairs, e, seen')
  BY <1>1, <1>7, CarriesConcat
<1>9. Turns'
  BY <1>1, <1>2, <1>3, <1>4, <1>5, <1>6 DEF Turns
<1>10. Sent'
  BY <1>2, <1>4, <1>8 DEF Sent
<1> QED
  BY <1>9, <1>10 DEF Talk

\* A step that ends the session and sends the frames fs.
LEMMA SessionEnds ==
    ASSUME Turns, EndSession, h2k' = <<>>, seen' = seen, pairs' = pairs,
           NEW fs \in Seq(BoardFrames), fs # <<>>, Adds(fs),
           NEW d \in Seq(Pair), Carries(k2h, pairs, d, seen),
           NEW e \in Seq(Pair), Carries(fs, d, e, seen)
    PROVE  Talk'
<1>1. k2h \in Seq(BoardFrames) /\ pairs \in Seq(Pair)
  BY DEF Turns
<1>2. Len(<<>>) = 0 /\ kpc' = "IDLE"
  BY DEF EndSession
<1>3. k2h' = k2h \o fs /\ drops' = 0 /\ dups' = 0
  BY DEF Adds
<1>4. k2h \o fs \in Seq(BoardFrames) /\ k2h \o fs # <<>>
  BY <1>1
<1>5. Carries(k2h \o fs, pairs, e, seen)
  BY <1>1, CarriesConcat
<1>6. Turns'
  BY <1>1, <1>2, <1>3, <1>4 DEF Turns
<1>7. Standing(e, kpc', ses', seen')
  BY <1>2 DEF Standing, LinearPhases, GracePhases
<1>8. Sent'
  BY <1>3, <1>5, <1>7 DEF Sent
<1> QED
  BY <1>6, <1>8 DEF Talk

-----------------------------------------------------------------------------
(***************************************************************************)
(* Single frames.                                                          *)
(***************************************************************************)
LEMMA CreditForType ==
    ASSUME NEW total \in Nat, NEW received \in Nat
    PROVE  CreditFor(total, received) \in Nat
<1>1. RX_CREDIT_TUPLES \in Nat
  BY LinkAssumption
<1>2. CASE received > total
  BY <1>1, <1>2 DEF CreditFor
<1>3. CASE ~(received > total)
  <2> DEFINE rest == total - received
  <2>1. rest \in Nat
    BY <1>3
  <2> HIDE DEF rest
  <2>2. Min({rest, RX_CREDIT_TUPLES}) \in Nat
    BY <1>1, <2>1, MinOfTwo
  <2> QED
    BY <1>3, <2>2 DEF CreditFor, rest
<1> QED
  BY <1>2, <1>3

\* A report or an error carries no pairs.
LEMMA ReportCarries ==
    ASSUME NEW f \in BoardFrames, f.type # "RESULT", NEW d \in Seq(Pair), NEW h,
           FrameRight(f, d, h)
    PROVE  /\ Carries(<<f>>, d, d, h) /\ <<f>> \in Seq(BoardFrames) /\ <<f>> # <<>>
           /\ f.type # "STATUS" => NoDone(<<f>>)
<1>1. PairsIn(f) = <<>>
  BY DEF PairsIn
<1>2. d \o <<>> = d
  OBVIOUS
<1>3. Carries(<<f>>, d, d \o PairsIn(f), h)
  BY CarriesOne
<1>4. Carries(<<f>>, d, d, h)
  BY <1>1, <1>2, <1>3, Zenon
<1>5. <<f>> \in Seq(BoardFrames) /\ <<f>> # <<>> /\ Len(<<f>>) = 1 /\ (<<f>>)[1] = f
  OBVIOUS
<1>6. f.type # "STATUS" => NoDone(<<f>>)
  <2>1. \A i \in 1..1 : i = 1
    OBVIOUS
  <2> QED
    BY <1>5, <2>1 DEF NoDone
<1> QED
  BY <1>4, <1>5, <1>6, Zenon

\* An answer that says nothing of the rows of a session.
Plain(f) ==
    /\ f \in BoardFrames /\ f.type \in {"ACK", "ERROR"}
    /\ f.type = "ACK" => f.rows_processed = 0

LEMMA PlainCarries ==
    ASSUME NEW f, Plain(f), NEW d \in Seq(Pair), NEW h
    PROVE  /\ Carries(<<f>>, d, d, h) /\ <<f>> \in Seq(BoardFrames) /\ <<f>> # <<>>
           /\ NoDone(<<f>>)
<1>1. /\ f \in BoardFrames /\ f.type # "RESULT" /\ f.type # "STATUS"
      /\ f.type = "ACK" => f.rows_processed = 0
  BY DEF Plain
<1>2. FrameRight(f, d, h)
  BY <1>1 DEF FrameRight, CountsRight, DoneRight
<1> QED
  BY <1>1, <1>2, ReportCarries

LEMMA PlainEnds ==
    ASSUME Faultless, Talk, EndSession, h2k' = <<>>, seen' = seen, pairs' = pairs,
           NEW f, Plain(f), KernelSends(<<f>>)
    PROVE  Talk'
<1>1. Turns
  BY DEF Talk
<1>2. PICK d \in Seq(Pair) : Carries(k2h, pairs, d, seen)
  BY DEF Talk, Sent
<1>3. Carries(<<f>>, d, d, seen) /\ <<f>> \in Seq(BoardFrames) /\ <<f>> # <<>>
  BY PlainCarries
<1>4. Adds(<<f>>)
  BY <1>1, <1>3, SendsAdds
<1> QED
  BY <1>1, <1>2, <1>3, <1>4, SessionEnds

LEMMA FlushedCarries ==
    ASSUME NEW buf \in Seq(Pair), NEW d \in Seq(Pair), NEW h
    PROVE  /\ Flushed(buf) \in Seq(BoardFrames) /\ NoDone(Flushed(buf))
           /\ Carries(Flushed(buf), d, d \o buf, h) /\ d \o buf \in Seq(Pair)
<1>1. CASE buf = <<>>
  <2>1. Flushed(buf) = <<>> /\ d \o buf = d
    BY <1>1 DEF Flushed
  <2>2. <<>> \in Seq(BoardFrames) /\ Len(<<>>) = 0 /\ \A i \in 1..0 : FALSE
    OBVIOUS
  <2>3. NoDone(<<>>)
    BY <2>2 DEF NoDone
  <2> QED
    BY <2>1, <2>2, <2>3, CarriesNone, Zenon
<1>2. CASE buf # <<>>
  <2> DEFINE f == ResultFrame(buf)
  <2>1. f = [type |-> "RESULT", pairs |-> buf]
    BY DEF ResultFrame
  <2>2. f \in BoardFrames /\ f.type = "RESULT" /\ f.pairs = buf
    BY <2>1 DEF BoardFrames
  <2> HIDE DEF f
  <2>3. PairsIn(f) = buf
    BY <2>2 DEF PairsIn
  <2>4. FrameRight(f, d, h)
    BY <2>2 DEF FrameRight, CountsRight, DoneRight
  <2>5. Carries(<<f>>, d, d \o PairsIn(f), h)
    BY <2>2, <2>4, CarriesOne
  <2>6. Carries(<<f>>, d, d \o buf, h)
    BY <2>3, <2>5, Zenon
  <2>7. <<f>> \in Seq(BoardFrames) /\ Len(<<f>>) = 1 /\ (<<f>>)[1] = f /\ \A i \in 1..1 : i = 1
    BY <2>2
  <2>8. NoDone(<<f>>)
    BY <2>2, <2>7 DEF NoDone
  <2>9. Flushed(buf) = <<f>>
    BY <1>2 DEF Flushed, f
  <2>10. d \o buf \in Seq(Pair)
    OBVIOUS
  <2> QED
    BY <2>6, <2>7, <2>8, <2>9, <2>10, Zenon
<1> QED
  BY <1>1, <1>2

-----------------------------------------------------------------------------
(***************************************************************************)
(* Every step keeps Talk.                                                  *)
(***************************************************************************)
LEMMA ErrorIsPlain ==
    \A err \in {"ERR_INVALID_CMD", "ERR_OVERFLOW", "ERR_BAD_STATE"} : Plain(ErrorFrame(err))
<1> SUFFICES ASSUME NEW err \in {"ERR_INVALID_CMD", "ERR_OVERFLOW", "ERR_BAD_STATE"}
             PROVE  Plain(ErrorFrame(err))
  OBVIOUS
<1> DEFINE f == ErrorFrame(err)
<1>1. /\ f.type = "ERROR"
      /\ f \in [type : {"ERROR"}, err : {"ERR_INVALID_CMD", "ERR_OVERFLOW", "ERR_BAD_STATE"}]
  BY DEF ErrorFrame
<1> HIDE DEF f
<1>2. f \in BoardFrames
  BY <1>1, Zenon DEF BoardFrames
<1> QED
  BY <1>1, <1>2 DEF Plain, f

LEMMA EmptyAckIsPlain ==
    ASSUME NEW phase \in {"IDLE", "BUILDING", "PROBING", "DONE"}, NEW credit \in Nat,
           NEW id \in Nat
    PROVE  Plain(StatusFrame("ACK", phase, 0, 0, credit, id))
<1> DEFINE f == StatusFrame("ACK", phase, 0, 0, credit, id)
<1>1. f \in Reports /\ f.type = "ACK" /\ f.rows_processed = 0
  BY DEF StatusFrame, Reports
<1> HIDE DEF f
<1>2. f \in BoardFrames
  BY <1>1, Zenon DEF BoardFrames
<1> QED
  BY <1>1, <1>2 DEF Plain, f

\* The refusals, and the answers to a RESET outside the probe phase.
LEMMA PlainStep ==
    ASSUME Types, EndingStep, ~ProbeReset, ~SessionDone
    PROVE  \E f : Plain(f) /\ KernelSends(<<f>>)
<1>1. RX_CREDIT_TUPLES \in Nat /\ ses.session_id \in Nat /\ 0 \in Nat
  BY LinkAssumption DEF Types, Session
<1>2. Plain(IdleAck) /\ Plain(StatusFrame("ACK", "IDLE", 0, 0, 0, ses.session_id))
  BY <1>1, EmptyAckIsPlain DEF IdleAck
<1>3. CASE IdleReset \/ BuildReset \/ GraceReset
  BY <1>2, <1>3 DEF IdleReset, BuildReset, GraceReset
<1>4. CASE IdleRefuse \/ BuildRefuse \/ ProbeRefuse \/ GraceRefuse
  BY <1>4, ErrorIsPlain DEF IdleRefuse, BuildRefuse, ProbeRefuse, GraceRefuse, Refuse
<1>5. CASE IdleMisread
  BY <1>2, <1>5, ErrorIsPlain DEF IdleMisread
<1>6. CASE ConfigureRefuse
  BY <1>6, ErrorIsPlain DEF ConfigureRefuse
<1> QED
  BY <1>3, <1>4, <1>5, <1>6 DEF EndingStep

LEMMA PlainStepTalks ==
    ASSUME Faultless, IInv, Talk, Kernel, EndingStep, ~ProbeReset, ~SessionDone
    PROVE  Talk'
<1>1. Types /\ Turns
  BY DEF IInv, Talk
<1>2. EndSession
  BY <1>1, EndingStepEnds
<1>3. h2k' = <<>> /\ seen' = seen /\ pairs' = pairs
  BY <1>1, <1>2, NoFrameLeft, EndSeesNothing DEF Kernel
<1>4. PICK f : Plain(f) /\ KernelSends(<<f>>)
  BY <1>1, PlainStep
<1> QED
  BY <1>2, <1>3, <1>4, PlainEnds

LEMMA WatchdogTalks == ASSUME Faultless, IInv, Talk, KernelWatchdog PROVE Talk'
<1>1. RX_CREDIT_TUPLES \in Nat /\ ses.session_id \in Nat
  BY LinkAssumption DEF IInv, Types, Session
<1> DEFINE f == StatusFrame("ACK", "IDLE", 0, 0, RX_CREDIT_TUPLES, ses.session_id)
<1>2. Plain(f)
  BY <1>1, EmptyAckIsPlain
<1>3. EndSession /\ h2k' = <<>> /\ seen' = seen /\ pairs' = pairs /\ KernelSends(<<f>>)
  BY DEF KernelWatchdog, Watchdog
<1> HIDE DEF f
<1> QED
  BY <1>2, <1>3, PlainEnds

\* The pairs that the host will have read, and the ones in result_buf.
LEMMA TalkNow ==
    ASSUME Talk
    PROVE  Turns /\ \E d \in Seq(Pair) : /\ Carries(k2h, pairs, d, seen)
                                         /\ Standing(d, kpc, ses, seen)
  BY DEF Talk, Sent

\* A step of algorithm A that touches neither the rows seen nor the pairs.
LEMMA LinearTalks ==
    ASSUME IInv, Talk, Kernel, kpc \in LinearPhases, kpc' \in LinearPhases,
           kpc' \in {"BUILD", "INSERT"} => kpc \in {"BUILD", "INSERT"},
           junk' = junk, seen' = seen, ses'.matched = ses.matched,
           ses'.result_buf = ses.result_buf,
           NEW fs \in Seq(BoardFrames), Adds(fs), NoDone(fs), NEW d \in Seq(Pair),
           Carries(k2h, pairs, d, seen), Standing(d, kpc, ses, seen), Carries(fs, d, d, seen)
    PROVE  Talk'
<1>1. Types /\ Turns /\ kpc # "IDLE" /\ kpc' # "IDLE" /\ kpc' \notin GracePhases
  BY DEF IInv, Talk, LinearPhases, GracePhases
<1>2. Standing(d, kpc', ses', seen')
  BY <1>1 DEF Standing, GracePhases
<1>3. Carries(fs, d, d, seen')
  OBVIOUS
<1> QED
  BY <1>1, <1>2, <1>3, SessionGoesOn

LEMMA LinearSilent ==
    ASSUME IInv, Talk, Kernel, kpc \in LinearPhases, kpc' \in LinearPhases,
           kpc' \in {"BUILD", "INSERT"} => kpc \in {"BUILD", "INSERT"},
           junk' = junk, seen' = seen, ses'.matched = ses.matched,
           ses'.result_buf = ses.result_buf, UNCHANGED <<k2h, drops, dups>>
    PROVE  Talk'
<1>1. Turns
  BY TalkNow
<1>2. PICK d \in Seq(Pair) : Carries(k2h, pairs, d, seen) /\ Standing(d, kpc, ses, seen)
  BY TalkNow
<1>3. Adds(<<>>) /\ <<>> \in Seq(BoardFrames) /\ NoDone(<<>>)
  BY <1>1, AddsNothing
<1>4. Carries(<<>>, d, d, seen)
  BY <1>2, CarriesNone
<1> QED
  BY <1>2, <1>3, <1>4, LinearTalks

LEMMA BuildLoopExitTalks == ASSUME IInv, Talk, Kernel, BuildLoopExit PROVE Talk'
<1>1. ses \in Session /\ seen' = seen
  BY BuildLoopExitKeeps DEF IInv, Types
<1>2. /\ kpc \in LinearPhases /\ kpc' \in LinearPhases /\ kpc' \notin {"BUILD", "INSERT"}
      /\ junk' = junk /\ UNCHANGED <<k2h, drops, dups>>
      /\ ses' = [ses EXCEPT !.pending = 0, !.frame = 0]
  BY DEF BuildLoopExit, LinearPhases, link
<1>3. ses'.matched = ses.matched /\ ses'.result_buf = ses.result_buf
  BY <1>1, <1>2 DEF Session
<1> QED
  BY <1>1, <1>2, <1>3, LinearSilent

LEMMA BuildFrameTalks == ASSUME IInv, Talk, Kernel, BuildFrame PROVE Talk'
<1>1. ses \in Session /\ seen' = seen
  BY BuildFrameKeeps DEF IInv, Types
<1>2. /\ kpc = "BUILD" /\ kpc \in LinearPhases /\ kpc' \in LinearPhases
      /\ junk' = junk /\ UNCHANGED <<k2h, drops, dups>>
      /\ ses' = [ses EXCEPT !.batch = Head(h2k).rows]
  BY DEF BuildFrame, LinearPhases, Reads
<1>3. ses'.matched = ses.matched /\ ses'.result_buf = ses.result_buf
  BY <1>1, <1>2 DEF Session
<1> QED
  BY <1>1, <1>2, <1>3, LinearSilent

LEMMA ProbeFrameTalks == ASSUME IInv, Talk, Kernel, ProbeFrame PROVE Talk'
<1> DEFINE b == SubSeq(Head(h2k).rows, 1, Min({ses.outer_total - ses.outer_received,
                                               Len(Head(h2k).rows)}))
<1>1. ses \in Session /\ seen' = seen
  BY ProbeFrameKeeps DEF IInv, Types
<1>2. /\ kpc = "PROBE" /\ kpc \in LinearPhases /\ kpc' \in {"CLOSE", "LOOKUP"}
      /\ junk' = junk /\ UNCHANGED <<k2h, drops, dups>>
      /\ ses' = [ses EXCEPT !.batch = b]
  BY DEF ProbeFrame, LinearPhases, Reads
<1> HIDE DEF b
<1>3. ses'.matched = ses.matched /\ ses'.result_buf = ses.result_buf
  BY <1>1, <1>2 DEF Session
<1>4. kpc' \in LinearPhases /\ kpc' \notin {"BUILD", "INSERT"}
  BY <1>2 DEF LinearPhases
<1> QED
  BY <1>1, <1>2, <1>3, <1>4, LinearSilent

LEMMA BuildFrameDoneTalks == ASSUME Faultless, IInv, Talk, Kernel, BuildFrameDone PROVE Talk'
<1> DEFINE pending == ses.pending + 1
           emit_ack == AckDue(pending) \/ ses.inner_received >= ses.inner_total
           next == IF emit_ack THEN 0 ELSE pending
           f == StatusFrame("ACK", "BUILDING", ses.inner_received, 0,
                            CreditFor(ses.inner_total, ses.inner_received), ses.session_id)
           fs == IF emit_ack THEN <<f>> ELSE <<>>
<1>1. Turns
  BY TalkNow
<1>2. /\ ses \in Session /\ seen' = seen
  BY BuildFrameDoneKeeps DEF IInv, Types
<1>3. /\ kpc = "INSERT" /\ kpc' = "BUILD" /\ kpc \in LinearPhases /\ kpc' \in LinearPhases
      /\ junk' = junk /\ KernelSends(fs)
      /\ ses' = [ses EXCEPT !.pending = next, !.frame = ses.frame + 1]
  BY DEF BuildFrameDone, LinearPhases
<1>4. /\ ses.inner_received \in Nat /\ ses.inner_total \in Nat /\ ses.session_id \in Nat
  BY <1>2 DEF Session
<1>5. CreditFor(ses.inner_total, ses.inner_received) \in Nat
  BY <1>4, CreditForType
<1>6. f \in Reports /\ f.type = "ACK" /\ f.phase = "BUILDING" /\ f.rows_matched = 0
  BY <1>4, <1>5 DEF StatusFrame, Reports
<1> HIDE DEF f
<1>7. f \in BoardFrames
  BY <1>6, Zenon DEF BoardFrames
<1> HIDE DEF next, emit_ack
<1>8. ses'.matched = ses.matched /\ ses'.result_buf = ses.result_buf
  BY <1>2, <1>3 DEF Session
<1>9. PICK d \in Seq(Pair) : Carries(k2h, pairs, d, seen) /\ Standing(d, kpc, ses, seen)
  BY TalkNow
<1>10. FrameRight(f, d, seen)
  BY <1>6 DEF FrameRight, CountsRight, DoneRight
<1>11. fs \in Seq(BoardFrames) /\ NoDone(fs) /\ Carries(fs, d, d, seen)
  <2>1. CASE emit_ack
    <3>1. Carries(<<f>>, d, d, seen) /\ <<f>> \in Seq(BoardFrames) /\ NoDone(<<f>>)
      <4>1. f.type # "RESULT" /\ f.type # "STATUS"
        BY <1>6
      <4> QED
        BY <1>9, <1>10, <1>7, <4>1, ReportCarries
    <3> QED
      BY <2>1, <3>1, Zenon
  <2>2. CASE ~emit_ack
    <3>1. <<>> \in Seq(BoardFrames) /\ NoDone(<<>>)
      BY DEF NoDone
    <3> QED
      BY <1>9, <2>2, <3>1, CarriesNone, Zenon
  <2> QED
    BY <2>1, <2>2
<1> HIDE DEF fs
<1>12. Adds(fs)
  BY <1>1, <1>3, <1>11, SendsAdds
<1> QED
  BY <1>2, <1>3, <1>8, <1>9, <1>11, <1>12, LinearTalks

LEMMA InsertRowTalks == ASSUME Faultless, IInv, Talk, Kernel, InsertRow PROVE Talk'
<1> DEFINE row == Head(ses.batch)
           err == BuildError(ht, row.key)
<1>1. Types /\ Turns /\ ses \in Session /\ seen \in History /\ kpc = "INSERT"
  BY DEF IInv, Talk, Types, InsertRow
<1>2. h2k' = <<>> /\ pairs' = pairs /\ junk' = junk
  BY <1>1, NoFrameLeft DEF Kernel, InsertRow
<1>3. CASE err # "ERR_NONE"
  <2>1. EndSession /\ KernelSends(<<ErrorFrame(err)>>)
    BY <1>3 DEF InsertRow
  <2>2. seen' = seen
    BY <1>1, <2>1, EndSeesNothing
  <2>3. Plain(ErrorFrame(err))
    BY <1>3, ErrorIsPlain DEF BuildError
  <2> QED
    BY <1>2, <2>1, <2>2, <2>3, PlainEnds
<1>4. CASE err = "ERR_NONE"
  <2> DEFINE rest == Tail(ses.batch)
             n == ses.inner_received + 1
  <2>1. /\ ses' = [ses EXCEPT !.batch = rest, !.inner_received = n]
        /\ kpc' = kpc /\ UNCHANGED <<k2h, drops, dups>>
    BY <1>4 DEF InsertRow
  <2> HIDE DEF rest, n
  <2>2. ses'.matched = ses.matched /\ ses'.result_buf = ses.result_buf
    BY <1>1, <2>1 DEF Session
  <2>3. seen'.outer = seen.outer /\ seen'.algorithm = seen.algorithm
    <3>1. ~EndSession
      BY <1>1, <2>1 DEF EndSession
    <3> QED
      BY <3>1, InsertRowKeeps
  <2>4. PICK d \in Seq(Pair) : Carries(k2h, pairs, d, seen) /\ Standing(d, kpc, ses, seen)
    BY TalkNow
  <2>5. /\ seen.outer = <<>> /\ d \o ses.result_buf = JoinOf(seen.inner, seen.outer)
        /\ seen.algorithm = "A" /\ ses.matched = Len(d) + Len(ses.result_buf)
    BY <1>1, <2>4 DEF Standing, LinearPhases
  <2>6. JoinOf(seen.inner, <<>>) = <<>> /\ JoinOf(seen'.inner, <<>>) = <<>>
    BY JoinNone
  <2>7. d \o ses'.result_buf = JoinOf(seen'.inner, seen'.outer)
    BY <2>2, <2>3, <2>5, <2>6, Zenon
  <2>8. Standing(d, kpc', ses', seen')
    BY <1>1, <2>1, <2>2, <2>3, <2>5, <2>7 DEF Standing, GracePhases
  <2>9. Adds(<<>>) /\ <<>> \in Seq(BoardFrames) /\ NoDone(<<>>)
    BY <1>1, <2>1, AddsNothing
  <2>10. Carries(<<>>, d, d, seen')
    BY <2>4, CarriesNone
  <2>11. kpc # "IDLE" /\ kpc' # "IDLE"
    BY <1>1, <2>1
  <2> QED
    BY <1>1, <1>2, <2>4, <2>8, <2>9, <2>10, <2>11, SessionGoesOn
<1> QED
  BY <1>3, <1>4

LEMMA LookupRowTalks == ASSUME Faultless, IInv, Talk, Kernel, LookupRow PROVE Talk'
<1> DEFINE row == Head(ses.batch)
           found == Found(ht, row.key)
           x == [inner_tid |-> FoundTid(ht, row.key), outer_tid |-> row.tid]
           buf == IF found THEN Append(ses.result_buf, x) ELSE ses.result_buf
           full == found /\ BufferFull(buf)
           next == IF full THEN <<>> ELSE buf
           count == IF found THEN ses.matched + 1 ELSE ses.matched
           fs == IF full THEN Flushed(buf) ELSE <<>>
           rest == Tail(ses.batch)
           n == ses.outer_received + 1
<1>1. /\ Types /\ Turns /\ ses \in Session /\ seen \in History /\ kpc = "LOOKUP"
      /\ kpc \in LinearPhases /\ ses.result_buf \in Seq(Pair) /\ ses.matched \in Nat
      /\ seen.outer \in Seq(Row) /\ row \in Row
  <2>1. ses.batch \in Seq(Row) /\ ses.batch # <<>> /\ seen.outer \in Seq(Row)
    BY DEF IInv, Types, Session, LookupRow, History
  <2>2. row \in Row
    BY <2>1, OneRow
  <2> QED
    BY <2>1, <2>2 DEF IInv, Talk, Types, LookupRow, LinearPhases, Session
<1>2. /\ KernelSends(fs) /\ junk' = junk
      /\ ses' = [ses EXCEPT !.batch = rest, !.outer_received = n, !.matched = count,
                            !.result_buf = next]
  BY DEF LookupRow
<1>3. /\ kpc' = "LOOKUP" /\ seen'.inner = seen.inner /\ seen'.algorithm = seen.algorithm
      /\ seen'.outer = Append(seen.outer, row)
  BY LookupRowKeeps
<1> HIDE DEF rest, n, row
<1>4. /\ found <=> RowsWith(seen.inner, row.key) # {}
      /\ found => x = PairFor(seen.inner, row) /\ PairFor(seen.inner, row) \in Pair
  BY <1>1, LookupAnswer
<1> HIDE DEF found, x
<1>5. ses'.matched = count /\ ses'.result_buf = next
  <2> HIDE DEF count, next
  <2> QED
    BY <1>1, <1>2 DEF Session
<1>6. PICK d \in Seq(Pair) : Carries(k2h, pairs, d, seen) /\ Standing(d, kpc, ses, seen)
  BY TalkNow
<1>7. /\ d \o ses.result_buf = JoinOf(seen.inner, seen.outer)
      /\ seen.algorithm = "A" /\ ses.matched = Len(d) + Len(ses.result_buf)
  BY <1>1, <1>6 DEF Standing
\* The buffer before it is flushed has the pair of the row.
<1>8. buf \in Seq(Pair) /\ d \o buf = JoinOf(seen'.inner, seen'.outer) /\ count = Len(d) + Len(buf)
  <2>1. CASE found
    <3>1. buf = Append(ses.result_buf, x) /\ x \in Pair /\ count = ses.matched + 1
      BY <1>4, <2>1
    <3>2. JoinOf(seen.inner, Append(seen.outer, row)) = Append(JoinOf(seen.inner, seen.outer), x)
      BY <1>1, <1>4, <2>1, JoinAppend, Zenon
    <3>3. \A s, t \in Seq(Pair), e \in Pair :
              Append(s \o t, e) = s \o Append(t, e) /\ s \o t \in Seq(Pair)
      BY AppendConcat
    <3>4. Append(d \o ses.result_buf, x) = d \o Append(ses.result_buf, x)
      BY <1>1, <1>6, <3>1, <3>3, Zenon
    <3> HIDE DEF buf, count
    <3>5. d \o buf = JoinOf(seen'.inner, seen'.outer)
      BY <1>3, <1>7, <3>1, <3>2, <3>4, Zenon
    <3>6. buf \in Seq(Pair) /\ Len(buf) = Len(ses.result_buf) + 1 /\ Len(ses.result_buf) \in Nat
      BY <1>1, <3>1
    <3>7. count = Len(d) + Len(buf)
      <4>1. Len(d) \in Nat
        OBVIOUS
      <4> QED
        BY <1>7, <3>1, <3>6, <4>1
    <3> QED
      BY <3>5, <3>6, <3>7
  <2>2. CASE ~found
    <3>1. buf = ses.result_buf /\ count = ses.matched
      BY <2>2
    <3>2. JoinOf(seen.inner, Append(seen.outer, row)) = JoinOf(seen.inner, seen.outer)
      BY <1>1, <1>4, <2>2, JoinAppend, Zenon
    <3> HIDE DEF buf, count
    <3> QED
      BY <1>1, <1>3, <1>7, <3>1, <3>2, Zenon
  <2> QED
    BY <2>1, <2>2
<1> HIDE DEF buf, count
<1>9. PICK e \in Seq(Pair) :
         /\ fs \in Seq(BoardFrames) /\ NoDone(fs) /\ Carries(fs, d, e, seen')
         /\ e \o next = d \o buf /\ Len(e) + Len(next) = Len(d) + Len(buf)
  <2>1. CASE full
    <3>1. fs = Flushed(buf) /\ next = <<>>
      BY <2>1
    <3>2. /\ Flushed(buf) \in Seq(BoardFrames) /\ NoDone(Flushed(buf))
          /\ Carries(Flushed(buf), d, d \o buf, seen') /\ d \o buf \in Seq(Pair)
      BY <1>6, <1>8, FlushedCarries
    <3>3. /\ (d \o buf) \o <<>> = d \o buf
          /\ Len(d \o buf) + Len(<<>>) = Len(d) + Len(buf)
      BY <1>6, <1>8
    <3> QED
      BY <3>1, <3>2, <3>3, Zenon
  <2>2. CASE ~full
    <3>1. fs = <<>> /\ next = buf
      BY <2>2
    <3>2. <<>> \in Seq(BoardFrames) /\ NoDone(<<>>)
      BY DEF NoDone
    <3>3. Carries(<<>>, d, d, seen')
      BY <1>6, CarriesNone
    <3> QED
      BY <1>6, <3>1, <3>2, <3>3, Zenon
  <2> QED
    BY <2>1, <2>2
<1> HIDE DEF fs, next
<1>10. Standing(e, kpc', ses', seen')
  <2>1. ses'.matched = Len(e) + Len(ses'.result_buf)
    BY <1>5, <1>8, <1>9, Zenon
  <2>2. e \o ses'.result_buf = JoinOf(seen'.inner, seen'.outer) /\ seen'.algorithm = "A"
    BY <1>3, <1>5, <1>7, <1>8, <1>9, Zenon
  <2> QED
    BY <1>3, <2>1, <2>2 DEF Standing, GracePhases
<1>11. Adds(fs)
  BY <1>1, <1>2, <1>9, SendsAdds
<1>12. kpc # "IDLE" /\ kpc' # "IDLE"
  BY <1>1, <1>3
<1> QED
  BY <1>1, <1>2, <1>6, <1>9, <1>10, <1>11, <1>12, SessionGoesOn

\* The flush and the report of a session that ends in the probe phase.
LEMMA FlushAndReport ==
    ASSUME Faultless, IInv, Talk, kpc \in LinearPhases, EndSession, h2k' = <<>>, seen' = seen,
           pairs' = pairs, NEW f \in Reports, f.phase \in {"IDLE", "DONE"},
           f.rows_matched = ses.matched, KernelSends(Flushed(ses.result_buf) \o <<f>>)
    PROVE  Talk'
<1> DEFINE b == ses.result_buf
           fs == Flushed(b) \o <<f>>
<1>1. Turns /\ b \in Seq(Pair) /\ kpc # "IDLE"
  BY DEF Talk, IInv, Types, Session, LinearPhases
<1>2. PICK d \in Seq(Pair) : Carries(k2h, pairs, d, seen) /\ Standing(d, kpc, ses, seen)
  BY TalkNow
<1>3. d \o b = JoinOf(seen.inner, seen.outer) /\ ses.matched = Len(d) + Len(b)
  BY <1>1, <1>2 DEF Standing
<1>4. KernelSends(fs) /\ f.rows_matched = Len(d) + Len(b)
  BY <1>3
<1> HIDE DEF b
<1> DEFINE e == d \o b
<1>5. e \in Seq(Pair) /\ Len(e) = Len(d) + Len(b)
  BY <1>1
<1>6. e = JoinOf(seen.inner, seen.outer)
  BY <1>3, Zenon
<1>7. /\ Flushed(b) \in Seq(BoardFrames) /\ Carries(Flushed(b), d, e, seen)
  BY <1>1, <1>2, FlushedCarries
<1> HIDE DEF e
<1>8. /\ f \in BoardFrames /\ f.type \in {"ACK", "STATUS"} /\ f.rows_matched = Len(e)
      /\ f.rows_matched \in Nat
  <2>1. f \in BoardFrames
    BY Zenon DEF BoardFrames
  <2>2. f.type \in {"ACK", "STATUS"} /\ f.rows_matched \in Nat
    BY DEF Reports
  <2> QED
    BY <1>4, <1>5, <2>1, <2>2
<1>9. IsJoinOf(e, seen.inner, seen.outer)
  BY <1>6, Zenon DEF IsJoinOf
<1>10. CountsRight(f, e)
  <2>1. f.rows_matched - Len(e) = 0
    BY <1>8
  <2> QED
    BY <2>1 DEF CountsRight
<1>11. FrameRight(f, e, seen)
  BY <1>8, <1>9, <1>10, Zenon DEF FrameRight, DoneRight
<1>12. Carries(<<f>>, e, e, seen) /\ <<f>> \in Seq(BoardFrames)
  <2>1. f.type # "RESULT"
    BY <1>8
  <2> QED
    BY <1>5, <1>8, <1>11, <2>1, ReportCarries
<1>13. Carries(fs, d, e, seen)
  BY <1>7, <1>12, CarriesConcat
<1>14. fs \in Seq(BoardFrames) /\ fs # <<>>
  BY <1>7, <1>12
<1> HIDE DEF fs
<1>15. Adds(fs)
  BY <1>1, <1>4, <1>14, SendsAdds
<1> QED
  BY <1>1, <1>2, <1>5, <1>13, <1>14, <1>15, SessionEnds

LEMMA ProbeResetTalks == ASSUME Faultless, IInv, Talk, Kernel, ProbeReset PROVE Talk'
<1> DEFINE f == StatusFrame("ACK", "IDLE", ses.outer_received, ses.matched, 0, ses.session_id)
<1>1. /\ Types /\ Turns /\ ses.outer_received \in Nat /\ ses.matched \in Nat
      /\ ses.session_id \in Nat
  BY DEF IInv, Talk, Types, Session
<1>2. EndSession /\ kpc = "PROBE" /\ KernelSends(Flushed(ses.result_buf) \o <<f>>)
  BY DEF ProbeReset, Reads
<1>3. h2k' = <<>> /\ seen' = seen /\ pairs' = pairs
  BY <1>1, <1>2, NoFrameLeft, EndSeesNothing DEF Kernel
<1>4. f \in Reports /\ f.phase = "IDLE" /\ f.rows_matched = ses.matched
  BY <1>1 DEF StatusFrame, Reports
<1>5. kpc \in LinearPhases
  BY <1>2 DEF LinearPhases
<1> HIDE DEF f
<1> QED
  BY <1>2, <1>3, <1>4, <1>5, FlushAndReport

LEMMA ProbeFrameDoneTalks == ASSUME Faultless, IInv, Talk, Kernel, ProbeFrameDone PROVE Talk'
<1> DEFINE done == kpc = "CLOSE" \/ ses.outer_received >= ses.outer_total
           pending == ses.pending + 1
           emit_ack == AckDue(pending)
           next == IF emit_ack THEN 0 ELSE pending
           credit == CreditFor(ses.outer_total, ses.outer_received)
           f == StatusFrame("STATUS", "DONE", ses.outer_received, ses.matched, 0, ses.session_id)
           g == StatusFrame("ACK", "PROBING", ses.outer_received, ses.matched, credit,
                            ses.session_id)
           fs == IF emit_ack THEN <<g>> ELSE <<>>
<1>1. /\ Types /\ Turns /\ ses.outer_received \in Nat /\ ses.matched \in Nat
      /\ ses.session_id \in Nat /\ ses.outer_total \in Nat /\ ses \in Session
  BY DEF IInv, Talk, Types, Session
<1>2. kpc \in LinearPhases /\ junk' = junk /\ seen' = seen
  BY ProbeFrameDoneKeeps DEF ProbeFrameDone, LinearPhases
<1>3. h2k' = <<>> /\ pairs' = pairs
  BY <1>1, NoFrameLeft DEF Kernel
<1>4. CASE done
  <2>1. EndSession /\ KernelSends(Flushed(ses.result_buf) \o <<f>>)
    BY <1>4 DEF ProbeFrameDone
  <2>2. f \in Reports /\ f.phase = "DONE" /\ f.rows_matched = ses.matched
    BY <1>1 DEF StatusFrame, Reports
  <2> HIDE DEF f
  <2> QED
    BY <1>2, <1>3, <2>1, <2>2, FlushAndReport
<1>5. CASE ~done
  <2>1. /\ kpc' = "PROBE" /\ KernelSends(fs)
        /\ ses' = [ses EXCEPT !.pending = next, !.frame = ses.frame + 1]
    BY <1>5 DEF ProbeFrameDone
  <2>2. credit \in Nat
    BY <1>1, CreditForType
  <2>3. /\ g \in Reports /\ g.phase = "PROBING" /\ g.rows_matched = ses.matched
        /\ g.type = "ACK"
    BY <1>1, <2>2 DEF StatusFrame, Reports
  <2> HIDE DEF g, next, emit_ack
  <2>4. ses'.matched = ses.matched /\ ses'.result_buf = ses.result_buf
    BY <1>1, <2>1 DEF Session
  <2>5. PICK d \in Seq(Pair) : Carries(k2h, pairs, d, seen) /\ Standing(d, kpc, ses, seen)
    BY TalkNow
  <2>6. FrameRight(g, d, seen)
    <3>1. ses.matched = Len(d) + Len(ses.result_buf)
      BY <1>2, <2>5 DEF Standing, LinearPhases
    <3>2. Len(ses.result_buf) < RESULT_FLUSH_PAIRS /\ ses.result_buf \in Seq(Pair)
      BY <1>1 DEF IInv, Rooms, Session
    <3>3. Len(ses.result_buf) \in Nat /\ Len(d) \in Nat /\ RESULT_FLUSH_PAIRS \in Nat
      BY <3>2, KernelAssumption
    <3>4. g.rows_matched - Len(d) \in 0..(RESULT_FLUSH_PAIRS - 1)
      BY <2>3, <3>1, <3>2, <3>3
    <3>5. CountsRight(g, d)
      BY <2>3, <3>4 DEF CountsRight
    <3> QED
      BY <2>3, <3>5 DEF FrameRight, DoneRight
  <2>7. fs \in Seq(BoardFrames) /\ NoDone(fs) /\ Carries(fs, d, d, seen)
    <3>1. CASE emit_ack
      <4>1. g \in BoardFrames
        BY <2>3, Zenon DEF BoardFrames
      <4>2. g.type # "RESULT" /\ g.type # "STATUS"
        BY <2>3
      <4>3. Carries(<<g>>, d, d, seen) /\ <<g>> \in Seq(BoardFrames) /\ NoDone(<<g>>)
        BY <2>5, <2>6, <4>1, <4>2, ReportCarries
      <4> QED
        BY <3>1, <4>3, Zenon
    <3>2. CASE ~emit_ack
      <4>1. <<>> \in Seq(BoardFrames) /\ NoDone(<<>>)
        BY DEF NoDone
      <4> QED
        BY <2>5, <3>2, <4>1, CarriesNone, Zenon
    <3> QED
      BY <3>1, <3>2
  <2> HIDE DEF fs
  <2>8. Adds(fs)
    BY <1>1, <2>1, <2>7, SendsAdds
  <2>9. kpc' \in LinearPhases /\ kpc' \notin {"BUILD", "INSERT"}
    BY <2>1 DEF LinearPhases
  <2> QED
    BY <1>2, <2>4, <2>5, <2>7, <2>8, <2>9, LinearTalks
<1> QED
  BY <1>4, <1>5

\* Before the first partition is joined nothing is sent.
LEMMA NothingJoined ==
    ASSUME NEW s, NEW h, s.partition = 0
    PROVE  Joined(<<>>, s, h)
<1> SUFFICES ASSUME NEW e \in Pair
             PROVE  Count(<<>>, e) = NumMatches(h.inner, h.outer, s.K, 0..(s.partition - 1), e)
  BY DEF Joined
<1>1. Count(<<>>, e) = 0
  BY CountNone
<1>2. NumMatches(h.inner, h.outer, s.K, 0..(0 - 1), e) = 0
  BY NumMatchesNowhere, Zenon
<1> QED
  BY <1>1, <1>2, Zenon

\* The ACK of a data frame of algorithm B.
LEMMA GraceAckTalks ==
    ASSUME Faultless, IInv, Talk, Kernel, kpc \in {"GRACE_INNER", "GRACE_OUTER"}, kpc' = kpc,
           junk' = junk, ses'.matched = ses.matched,
           ses'.partition = ses.partition, ses'.K = ses.K, ses'.result_buf = ses.result_buf,
           NEW f \in Reports, f.type = "ACK", f.phase \in {"BUILDING", "PROBING"},
           f.rows_matched = 0, KernelSends(<<f>>)
    PROVE  Talk'
<1>1. Types /\ Turns /\ kpc \in GracePhases /\ kpc \notin LinearPhases /\ kpc # "IDLE"
  BY DEF IInv, Talk, GracePhases, LinearPhases
<1>2. PICK d \in Seq(Pair) : Carries(k2h, pairs, d, seen) /\ Standing(d, kpc, ses, seen)
  BY TalkNow
<1>3. /\ d = <<>> /\ ses.partition = 0 /\ ses.result_buf = <<>> /\ ses.partition <= ses.K
      /\ ses.matched = Len(d) + Len(ses.result_buf)
  BY <1>1, <1>2 DEF Standing
<1>4. ses'.partition = 0
  BY <1>3
<1>5. Joined(<<>>, ses', seen')
  BY <1>4, NothingJoined
<1>6. Standing(d, kpc', ses', seen')
  BY <1>1, <1>3, <1>5 DEF Standing, LinearPhases, GracePhases
<1>7. f \in BoardFrames
  BY Zenon DEF BoardFrames
<1>8. CountsRight(f, d)
  <2>1. Len(d) = 0
    BY <1>3
  <2>2. f.rows_matched - Len(d) \in 0..(RESULT_FLUSH_PAIRS - 1)
    BY <2>1, KernelAssumption
  <2> QED
    BY <2>2 DEF CountsRight
<1>9. FrameRight(f, d, seen')
  BY <1>8 DEF FrameRight, DoneRight
<1>10. Carries(<<f>>, d, d, seen') /\ <<f>> \in Seq(BoardFrames) /\ NoDone(<<f>>)
  <2>1. f.type # "RESULT" /\ f.type # "STATUS"
    OBVIOUS
  <2> QED
    BY <1>2, <1>7, <1>9, <2>1, ReportCarries
<1>11. Adds(<<f>>)
  BY <1>1, <1>10, SendsAdds
<1>12. kpc' # "IDLE"
  BY <1>1
<1> QED
  BY <1>1, <1>2, <1>6, <1>10, <1>11, <1>12, SessionGoesOn

LEMMA GraceFrameTalks ==
    ASSUME Faultless, IInv, Talk, Kernel, kpc \in {"GRACE_INNER", "GRACE_OUTER"}, junk' = junk,
           NEW parts, NEW max, NEW phase \in {"BUILDING", "PROBING"}, NEW total \in Nat,
           NEW received \in Nat, RowsWithRoom(parts, Head(h2k).rows, ses.K, max) \in Nat,
           GraceFrame(parts, max, phase, total, received)
    PROVE  Talk'
<1> DEFINE rows == Head(h2k).rows
           n == RowsWithRoom(parts, rows, ses.K, max)
<1>1. Types /\ Turns /\ ses \in Session
  BY DEF IInv, Talk, Types
<1>2. CASE n < Len(rows)
  <2>1. EndSession /\ KernelSends(<<ErrorFrame("ERR_OVERFLOW")>>)
    BY <1>2 DEF GraceFrame
  <2>2. h2k' = <<>> /\ pairs' = pairs /\ seen' = seen
    BY <1>1, <2>1, NoFrameLeft, EndSeesNothing DEF Kernel
  <2>3. Plain(ErrorFrame("ERR_OVERFLOW"))
    BY ErrorIsPlain
  <2> QED
    BY <2>1, <2>2, <2>3, PlainEnds
<1>3. CASE ~(n < Len(rows))
  <2> DEFINE credit == CreditFor(total, received + n)
             f == StatusFrame("ACK", phase, received + n, 0, credit, ses.session_id)
             a == ses.frame + 1
             b == IF phase = "BUILDING" THEN ses.inner_received + n ELSE ses.inner_received
             c == IF phase = "PROBING" THEN ses.outer_received + n ELSE ses.outer_received
  <2>1. /\ KernelSends(<<f>>) /\ kpc' = kpc
        /\ ses' = [ses EXCEPT !.frame = a, !.inner_received = b, !.outer_received = c]
    BY <1>3 DEF GraceFrame
  <2> HIDE DEF a, b, c
  <2>2. /\ ses'.matched = ses.matched /\ ses'.partition = ses.partition /\ ses'.K = ses.K
        /\ ses'.result_buf = ses.result_buf
    BY <1>1, <2>1 DEF Session
  <2>3. n \in Nat /\ ses.session_id \in Nat
    BY <1>1 DEF Session
  <2> HIDE DEF n
  <2>4. received + n \in Nat
    BY <2>3
  <2>5. credit \in Nat
    BY <2>4, CreditForType
  <2> HIDE DEF credit
  <2>6. f \in Reports /\ f.type = "ACK" /\ f.phase = phase /\ f.rows_matched = 0
    BY <2>3, <2>4, <2>5 DEF StatusFrame, Reports
  <2> HIDE DEF f
  <2> QED
    BY <2>1, <2>2, <2>6, GraceAckTalks
<1> QED
  BY <1>2, <1>3

LEMMA GraceInnerFrameTalks == ASSUME Faultless, IInv, Talk, Kernel, GraceInnerFrame PROVE Talk'
<1>1. /\ Types /\ Reads("GRACE_INNER", {"INNER_DATA"}) /\ ses.inner_total \in Nat
      /\ ses.inner_received \in Nat /\ junk' = junk
      /\ GraceFrame(grace.inner, HT_MAX_ROWS, "BUILDING", ses.inner_total, ses.inner_received)
  BY DEF IInv, Types, Session, GraceInnerFrame
<1>2. h2k # <<>> /\ Head(h2k).type = "INNER_DATA" /\ kpc = "GRACE_INNER"
  BY <1>1, ReadsFrame
<1>3. Head(h2k).rows \in Seq(Row)
  BY <1>1, <1>2, NextFrame
<1>4. /\ grace.inner \in PartitionRows /\ HT_MAX_ROWS \in Nat
      /\ \A p \in Partitions : Len(grace.inner[p]) <= HT_MAX_ROWS
  BY TableAssumption DEF IInv, Types, Rooms
<1>5. RowsWithRoom(grace.inner, Head(h2k).rows, ses.K, HT_MAX_ROWS) \in Nat
  BY <1>3, <1>4, PutRowsRoom
<1> QED
  BY <1>1, <1>2, <1>5, GraceFrameTalks

LEMMA GraceOuterFrameTalks == ASSUME Faultless, IInv, Talk, Kernel, GraceOuterFrame PROVE Talk'
<1> DEFINE max == ses.outer_slot_w \div GRACE_WORDS_PER_TUPLE
<1>1. /\ Types /\ Reads("GRACE_OUTER", {"OUTER_DATA"}) /\ ses.outer_total \in Nat
      /\ ses.outer_received \in Nat /\ junk' = junk
      /\ GraceFrame(grace.outer, max, "PROBING", ses.outer_total, ses.outer_received)
  BY DEF IInv, Types, Session, GraceOuterFrame
<1>2. h2k # <<>> /\ Head(h2k).type = "OUTER_DATA" /\ kpc = "GRACE_OUTER"
  BY <1>1, ReadsFrame
<1>3. Head(h2k).rows \in Seq(Row)
  BY <1>1, <1>2, NextFrame
<1>4. /\ grace.outer \in PartitionRows /\ max \in Nat
      /\ \A p \in Partitions : Len(grace.outer[p]) <= max
  <2>1. ses.outer_slot_w \in Nat /\ GRACE_WORDS_PER_TUPLE = 2
    BY DEF IInv, Types, Session, GRACE_WORDS_PER_TUPLE
  <2>2. max \in Nat
    BY <2>1
  <2> QED
    BY <1>2, <2>2 DEF IInv, Types, Rooms
<1> HIDE DEF max
<1>5. RowsWithRoom(grace.outer, Head(h2k).rows, ses.K, max) \in Nat
  BY <1>3, <1>4, PutRowsRoom
<1> QED
  BY <1>1, <1>2, <1>5, GraceFrameTalks

\* A step of algorithm B that sends nothing and joins nothing.
LEMMA GraceSilent ==
    ASSUME IInv, Talk, Kernel, kpc \in GracePhases, kpc' \in GracePhases,
           kpc' \in {"GRACE_INNER", "GRACE_OUTER"} => kpc \in {"GRACE_INNER", "GRACE_OUTER"},
           junk' = junk, seen' = seen, ses'.matched = ses.matched, ses'.K = ses.K,
           ses'.partition = ses.partition, ses'.result_buf = ses.result_buf,
           UNCHANGED <<k2h, drops, dups>>
    PROVE  Talk'
<1>1. Types /\ Turns /\ kpc # "IDLE" /\ kpc' # "IDLE" /\ kpc' \notin LinearPhases
  BY DEF IInv, Talk, LinearPhases, GracePhases
<1>2. PICK d \in Seq(Pair) : Carries(k2h, pairs, d, seen) /\ Standing(d, kpc, ses, seen)
  BY TalkNow
<1>3. Joined(d, ses', seen')
  BY <1>2 DEF Standing, Joined
<1>4. Standing(d, kpc', ses', seen')
  BY <1>1, <1>2, <1>3 DEF Standing, LinearPhases
<1>5. Adds(<<>>) /\ <<>> \in Seq(BoardFrames) /\ NoDone(<<>>)
  BY <1>1, AddsNothing
<1>6. Carries(<<>>, d, d, seen')
  BY <1>2, CarriesNone
<1> QED
  BY <1>1, <1>2, <1>4, <1>5, <1>6, SessionGoesOn

LEMMA GraceLoopExitTalks == ASSUME IInv, Talk, Kernel, GraceLoopExit PROVE Talk'
<1>1. ses \in Session /\ seen' = seen
  BY GraceLoopExitKeeps DEF IInv, Types
<1>2. /\ kpc \in {"GRACE_INNER", "GRACE_OUTER"} /\ kpc \in GracePhases /\ kpc' \in GracePhases
      /\ junk' = junk /\ UNCHANGED <<k2h, drops, dups>> /\ ses' = [ses EXCEPT !.frame = 0]
  BY DEF GraceLoopExit, GracePhases, link
<1>3. /\ ses'.matched = ses.matched /\ ses'.partition = ses.partition /\ ses'.K = ses.K
      /\ ses'.result_buf = ses.result_buf
  BY <1>1, <1>2 DEF Session
<1> QED
  BY <1>1, <1>2, <1>3, GraceSilent

LEMMA GraceJoinTalks == ASSUME IInv, Talk, Kernel, GraceJoin PROVE Talk'
<1>1. ses \in Session /\ seen' = seen
  BY GraceJoinKeeps DEF IInv, Types
<1>2. /\ kpc \in GracePhases /\ kpc' \in GracePhases /\ kpc' = "GRACE_LOAD"
      /\ junk' = junk /\ UNCHANGED <<k2h, drops, dups>>
      /\ ses' = [ses EXCEPT !.batch = grace.inner[ses.partition]]
  BY DEF GraceJoin, GracePhases, link
<1>3. /\ ses'.matched = ses.matched /\ ses'.partition = ses.partition /\ ses'.K = ses.K
      /\ ses'.result_buf = ses.result_buf
  BY <1>1, <1>2 DEF Session
<1> QED
  BY <1>1, <1>2, <1>3, GraceSilent

LEMMA GraceLoadRowTalks == ASSUME Faultless, IInv, Talk, Kernel, GraceLoadRow PROVE Talk'
<1> DEFINE err == BuildError(ht, Head(ses.batch).key)
<1>1. Types /\ Turns /\ ses \in Session /\ kpc = "GRACE_LOAD" /\ seen' = seen
  BY GraceLoadRowKeeps DEF IInv, Talk, Types, GraceLoadRow
<1>2. h2k' = <<>> /\ pairs' = pairs /\ junk' = junk
  BY <1>1, NoFrameLeft DEF Kernel, GraceLoadRow
<1>3. CASE err # "ERR_NONE"
  <2>1. EndSession /\ KernelSends(<<ErrorFrame(err)>>)
    BY <1>3 DEF GraceLoadRow
  <2>2. Plain(ErrorFrame(err))
    BY <1>3, ErrorIsPlain DEF BuildError
  <2> QED
    BY <1>1, <1>2, <2>1, <2>2, PlainEnds
<1>4. CASE err = "ERR_NONE"
  <2>1. /\ ses' = [ses EXCEPT !.batch = Tail(ses.batch)] /\ kpc' = kpc
        /\ UNCHANGED <<k2h, drops, dups>>
    BY <1>4 DEF GraceLoadRow
  <2>2. /\ ses'.matched = ses.matched /\ ses'.partition = ses.partition /\ ses'.K = ses.K
        /\ ses'.result_buf = ses.result_buf
    BY <1>1, <2>1 DEF Session
  <2>3. kpc \in GracePhases /\ kpc' \in GracePhases /\ kpc' = "GRACE_LOAD"
    BY <1>1, <2>1 DEF GracePhases
  <2> QED
    BY <1>1, <1>2, <2>1, <2>2, <2>3, GraceSilent
<1> QED
  BY <1>3, <1>4

\* The pairs of the next partition.
LEMMA JoinedNext ==
    ASSUME NEW inner \in Seq(Row), NEW outer \in Seq(Row), NEW K, NEW p \in Nat,
           NEW d \in Seq(Pair), NEW ps \in Seq(Pair),
           ps = JoinOf(RowsIn(inner, p, K), RowsIn(outer, p, K)), NEW e \in Pair,
           Count(d, e) = NumMatches(inner, outer, K, 0..(p - 1), e)
    PROVE  Count(d \o ps, e) = NumMatches(inner, outer, K, 0..p, e)
<1>1. Count(d \o ps, e) = Count(d, e) + Count(ps, e)
  BY CountConcat
<1>2. Count(JoinOf(RowsIn(inner, p, K), RowsIn(outer, p, K)), e) =
          NumMatches(inner, outer, K, {p}, e)
  BY PartitionJoinCount
<1>3. NumMatches(inner, outer, K, 0..p, e) =
          NumMatches(inner, outer, K, 0..(p - 1), e) + NumMatches(inner, outer, K, {p}, e)
  BY NumMatchesNext
<1> QED
  BY <1>1, <1>2, <1>3, Zenon

LEMMA GraceProbeTalks == ASSUME Faultless, IInv, Talk, Kernel, GraceProbe PROVE Talk'
<1> DEFINE p == ses.partition
           ps == ProbePartition(ht, grace.outer[p])
           next == p + 1
           count == ses.matched + Len(ps)
           fs == ResultFrames(ps)
<1>1. /\ Types /\ Turns /\ ses \in Session /\ ses.batch = <<>> /\ kpc = "GRACE_LOAD"
      /\ seen.inner \in Seq(Row) /\ seen.outer \in Seq(Row) /\ seen' = seen
      /\ p \in Nat /\ ses.K \in 1..GRACE_MAX_K /\ ses.matched \in Nat
  BY GraceProbeKeeps DEF IInv, Talk, Types, GraceProbe, History, Session
<1>2. /\ junk' = junk /\ kpc' = "GRACE_JOIN" /\ KernelSends(fs)
      /\ ses' = [ses EXCEPT !.partition = next, !.matched = count]
  BY DEF GraceProbe
<1>3. /\ p < ses.K /\ ps = JoinOf(RowsIn(seen.inner, p, ses.K), RowsIn(seen.outer, p, ses.K))
      /\ ps \in Seq(Pair)
  BY <1>1, PartitionJoined
<1> HIDE DEF ps, fs
<1>4. /\ ses'.partition = next /\ ses'.matched = count /\ ses'.K = ses.K
      /\ ses'.result_buf = ses.result_buf
  <2> HIDE DEF next, count
  <2> QED
    BY <1>1, <1>2 DEF Session
<1>5. PICK d \in Seq(Pair) : Carries(k2h, pairs, d, seen) /\ Standing(d, kpc, ses, seen)
  BY TalkNow
<1>6. /\ ses.result_buf = <<>> /\ Joined(d, ses, seen)
      /\ ses.matched = Len(d) + Len(ses.result_buf)
  BY <1>1, <1>5 DEF Standing, GracePhases
<1> DEFINE e == d \o ps
<1>7. e \in Seq(Pair) /\ Len(e) = Len(d) + Len(ps) /\ Len(d) \in Nat /\ Len(ps) \in Nat
  BY <1>3
<1>8. ASSUME NEW x \in Pair
      PROVE  Count(e, x) = NumMatches(seen.inner, seen.outer, ses.K, 0..(next - 1), x)
  <2>1. Count(d, x) = NumMatches(seen.inner, seen.outer, ses.K, 0..(p - 1), x)
    BY <1>6, Zenon DEF Joined
  <2>2. Count(d \o ps, x) = NumMatches(seen.inner, seen.outer, ses.K, 0..p, x)
    <3> HIDE DEF p
    <3> QED
      BY <1>1, <1>3, <1>5, <2>1, JoinedNext
  <2>3. next - 1 = p
    BY <1>1
  <2> QED
    BY <2>2, <2>3, Zenon
<1>9. Carries(fs, d, e, seen) /\ fs \in Seq(BoardFrames) /\ NoDone(fs)
  BY <1>3, <1>5, ResultFramesCarry DEF fs
<1> HIDE DEF e
<1>10. Joined(e, ses', seen')
  BY <1>1, <1>4, <1>8, Zenon DEF Joined
<1>11. ses'.partition <= ses'.K
  BY <1>1, <1>3, <1>4
<1>12. ses'.matched = Len(e) + Len(ses'.result_buf)
  <2>1. Len(<<>>) = 0
    OBVIOUS
  <2> QED
    BY <1>4, <1>6, <1>7, <2>1
<1>13. Standing(e, kpc', ses', seen')
  BY <1>2, <1>4, <1>6, <1>10, <1>11, <1>12 DEF Standing, LinearPhases
<1>14. Adds(fs)
  BY <1>1, <1>2, <1>9, SendsAdds
<1>15. kpc # "IDLE" /\ kpc' # "IDLE" /\ Carries(fs, d, e, seen')
  BY <1>1, <1>2, <1>9
<1> QED
  BY <1>1, <1>2, <1>5, <1>7, <1>9, <1>13, <1>14, <1>15, SessionGoesOn

LEMMA GraceStallTalks == ASSUME IInv, Talk, Kernel, GraceStall PROVE Talk'
<1>1. /\ kpc = "GRACE_LOAD" /\ kpc' = "STALLED" /\ ses' = ses /\ junk' = junk
      /\ UNCHANGED <<k2h, drops, dups>>
  BY DEF GraceStall, link
<1>2. Types /\ Turns /\ seen' = seen
  BY GraceStallKeeps DEF IInv, Talk
<1>3. PICK d \in Seq(Pair) : Carries(k2h, pairs, d, seen) /\ Standing(d, kpc, ses, seen)
  BY TalkNow
<1>4. ses.matched = Len(d) + Len(ses.result_buf)
  BY <1>1, <1>3 DEF Standing
<1>5. Standing(d, kpc', ses', seen')
  BY <1>1, <1>4 DEF Standing, LinearPhases, GracePhases
<1>6. Carries(<<>>, d, d, seen')
  BY <1>3, CarriesNone
<1>7. kpc # "IDLE" /\ kpc' # "IDLE"
  BY <1>1
<1>8. Adds(<<>>) /\ <<>> \in Seq(BoardFrames) /\ NoDone(<<>>)
  BY <1>1, <1>2, AddsNothing
<1> QED
  BY <1>1, <1>2, <1>3, <1>5, <1>6, <1>7, <1>8, SessionGoesOn

\* With all partitions joined, the pairs sent are the join.
LEMMA AllJoined ==
    ASSUME NEW inner \in Seq(Row), NEW outer \in Seq(Row), NEW K \in Nat \ {0},
           NEW d \in Seq(Pair),
           \A e \in Pair : Count(d, e) = NumMatches(inner, outer, K, 0..(K - 1), e)
    PROVE  IsJoinOf(d, inner, outer)
<1> DEFINE j == JoinOf(inner, outer)
<1>1. j \in Seq(Pair)
  BY JoinType
<1>2. ASSUME NEW e \in Pair PROVE Count(d, e) = Count(j, e)
  <2>1. Count(j, e) = NumMatches(inner, outer, K, 0..(K - 1), e)
    BY JoinCount
  <2> QED
    BY <2>1, Zenon
<1> HIDE DEF j
<1>3. ToBag(d) = ToBag(j)
  BY <1>1, <1>2, SameCountsSameBag
<1> QED
  BY <1>3, Zenon DEF IsJoinOf, j

LEMMA SessionDoneTalks == ASSUME Faultless, IInv, Talk, Kernel, SessionDone PROVE Talk'
<1> DEFINE f == StatusFrame("STATUS", "DONE", 0, ses.matched, 0, ses.session_id)
<1>1. /\ Types /\ Turns /\ ses.matched \in Nat /\ ses.session_id \in Nat
      /\ seen.inner \in Seq(Row) /\ seen.outer \in Seq(Row)
      /\ ses.K \in Nat \ {0}
  <2>1. Types /\ Turns /\ ses \in Session /\ seen \in History
    BY DEF IInv, Talk, Types
  <2>2. ses.matched \in Nat /\ ses.session_id \in Nat /\ ses.K \in Nat \ {0}
    BY <2>1 DEF Session
  <2>3. seen.inner \in Seq(Row) /\ seen.outer \in Seq(Row)
    BY <2>1 DEF History
  <2> QED
    BY <2>1, <2>2, <2>3, Zenon
<1>2. EndSession /\ KernelSends(<<f>>)
  BY DEF SessionDone
<1>3. h2k' = <<>> /\ seen' = seen /\ pairs' = pairs
  BY <1>1, <1>2, NoFrameLeft, EndSeesNothing DEF Kernel
<1>4. /\ f \in Reports /\ f.type = "STATUS" /\ f.rows_processed = 0
      /\ f.rows_matched = ses.matched
  BY <1>1 DEF StatusFrame, Reports
<1> HIDE DEF f
<1>5. f \in BoardFrames
  BY <1>4, Zenon DEF BoardFrames
<1>6. PICK d \in Seq(Pair) : Carries(k2h, pairs, d, seen) /\ Standing(d, kpc, ses, seen)
  BY TalkNow
<1>7. DoneRight(f, d, seen)
  <2>1. CASE kpc = "PROBE"
    <3>1. seen.algorithm = "A"
      BY <1>6, <2>1 DEF Standing, LinearPhases
    <3> QED
      BY <1>4, <3>1 DEF DoneRight
  <2>2. CASE kpc = "GRACE_JOIN" /\ ses.partition = ses.K
    <3>1. /\ Joined(d, ses, seen) /\ ses.result_buf = <<>>
          /\ ses.matched = Len(d) + Len(ses.result_buf)
      BY <1>6, <2>2 DEF Standing, GracePhases
    <3>2. \A e \in Pair :
              Count(d, e) = NumMatches(seen.inner, seen.outer, ses.K, 0..(ses.K - 1), e)
      BY <2>2, <3>1, Zenon DEF Joined
    <3>3. IsJoinOf(d, seen.inner, seen.outer)
      BY <1>1, <1>6, <3>2, AllJoined
    <3>4. f.rows_matched = Len(d)
      <4>1. Len(<<>>) = 0 /\ Len(d) \in Nat
        OBVIOUS
      <4> QED
        BY <1>4, <3>1, <4>1
    <3> QED
      BY <3>3, <3>4, Zenon DEF DoneRight
  <2> QED
    BY <2>1, <2>2 DEF SessionDone
<1>8. CountsRight(f, d)
  BY <1>4 DEF CountsRight
<1>9. Carries(<<f>>, d, d, seen) /\ <<f>> \in Seq(BoardFrames) /\ <<f>> # <<>>
  <2>1. f.type # "RESULT" /\ FrameRight(f, d, seen)
    BY <1>4, <1>7, <1>8 DEF FrameRight
  <2> QED
    BY <1>5, <1>6, <2>1, ReportCarries
<1>10. Adds(<<f>>)
  BY <1>1, <1>2, <1>9, SendsAdds
<1> QED
  BY <1>1, <1>2, <1>3, <1>6, <1>9, <1>10, SessionEnds

LEMMA ConfigureTalks == ASSUME Faultless, IInv, Talk, Kernel, Configure PROVE Talk'
<1> DEFINE cfg == Head(h2k)
           f == StatusFrame("ACK", "BUILDING", 0, 0, RX_CREDIT_TUPLES, cfg.session_id)
           k == PartitionCount(cfg.inner_count)
           slot == outer_slot_w(cfg.outer_count, k)
           linear == [NewSession EXCEPT !.session_id = cfg.session_id,
                                        !.inner_total = cfg.inner_count,
                                        !.outer_total = cfg.outer_count]
<1>1. Types /\ Turns /\ Reads("IDLE", {"CONFIGURE"}) /\ Fits(cfg)
  BY DEF IInv, Talk, Configure
<1>2. h2k # <<>> /\ cfg.type = "CONFIGURE" /\ kpc = "IDLE" /\ junk = 0
  BY <1>1, ReadsFrame
<1>3. cfg.session_id \in Nat /\ cfg.inner_count \in Nat /\ cfg.outer_count \in Nat
  BY <1>1, <1>2, NextFrame
<1>4. k2h = <<>> /\ h2k' = <<>> /\ pairs = <<>> /\ pairs' = <<>> /\ junk' = 0
  <2>1. k2h = <<>> /\ h2k' = <<>>
    BY <1>1, <1>2, NoFrameLeft
  <2>2. pairs = <<>>
    BY <1>1, <1>2, <2>1 DEF Turns
  <2> QED
    BY <1>2, <2>1, <2>2 DEF Kernel, Configure
<1>5. KernelSends(<<f>>)
  BY DEF Configure
<1>6. Plain(f)
  <2>1. RX_CREDIT_TUPLES \in Nat
    BY LinkAssumption
  <2> QED
    BY <1>3, <2>1, EmptyAckIsPlain
<1>7. <<>> \in Seq(Pair)
  OBVIOUS
<1>8. /\ linear.matched = 0 /\ linear.partition = 0 /\ linear.result_buf = <<>>
      /\ linear.K = 1 /\ linear \in Session
  BY <1>3, NewSessionTypes DEF NewSession, Session
<1>9. seen' = [NothingSeen EXCEPT !.algorithm = cfg.algorithm]
  BY <1>1, ConfigureSees
<1>10. /\ [NothingSeen EXCEPT !.algorithm = cfg.algorithm].inner = <<>>
       /\ [NothingSeen EXCEPT !.algorithm = cfg.algorithm].outer = <<>>
       /\ [NothingSeen EXCEPT !.algorithm = cfg.algorithm].algorithm = cfg.algorithm
  BY DEF NothingSeen
<1> HIDE DEF f
<1>11. Standing(<<>>, kpc', ses', seen') /\ kpc' # "IDLE"
  <2>1. CASE cfg.algorithm = "A"
    <3>1. kpc' = "BUILD" /\ ses' = linear
      BY <2>1 DEF Configure
    <3>2. seen'.inner = <<>> /\ seen'.outer = <<>> /\ seen'.algorithm = "A"
      BY <1>9, <1>10, <2>1, <3>1
    <3> HIDE DEF linear
    <3>3. <<>> \o ses'.result_buf = JoinOf(seen'.inner, seen'.outer)
      <4>1. JoinOf(seen'.inner, <<>>) = <<>> /\ <<>> \o <<>> = <<>>
        BY JoinNone
      <4> QED
        BY <1>8, <3>1, <3>2, <4>1, Zenon
    <3>4. ses'.matched = Len(<<>>) + Len(ses'.result_buf)
      BY <1>8, <3>1
    <3> QED
      BY <3>1, <3>2, <3>3, <3>4 DEF Standing, GracePhases
  <2>2. CASE cfg.algorithm # "A"
    <3>1. kpc' = "GRACE_INNER" /\ ses' = [linear EXCEPT !.K = k, !.outer_slot_w = slot]
      BY <2>2 DEF Configure
    <3>2. k \in Nat
      <4>1. KernelAccepts(cfg.inner_count, cfg.outer_count)
        BY <1>1, <2>2 DEF Fits
      <4> QED
        BY <1>3, <4>1, AcceptedLayout
    <3> HIDE DEF linear, k, slot
    <3>3. ses'.matched = 0 /\ ses'.partition = 0 /\ ses'.result_buf = <<>> /\ ses'.K = k
      BY <1>8, <3>1 DEF Session
    <3>4. Joined(<<>>, ses', seen')
      BY <3>3, NothingJoined
    <3>5. ses'.matched = Len(<<>>) + Len(ses'.result_buf) /\ ses'.partition <= ses'.K
      BY <3>2, <3>3
    <3> QED
      BY <3>1, <3>3, <3>4, <3>5 DEF Standing, LinearPhases
  <2> QED
    BY <2>1, <2>2
<1>12. /\ Carries(<<f>>, <<>>, <<>>, seen') /\ <<f>> \in Seq(BoardFrames)
       /\ NoDone(<<f>>)
  BY <1>6, <1>7, PlainCarries
<1>13. k2h' = <<f>> /\ drops' = 0 /\ dups' = 0
  <2>1. Adds(<<f>>)
    BY <1>1, <1>5, <1>12, SendsAdds
  <2>2. <<>> \o <<f>> = <<f>>
    BY <1>12
  <2> QED
    BY <1>4, <2>1, <2>2, Zenon DEF Adds
<1>14. Turns'
  <2>1. Len(<<>>) = 0 /\ ~(0 > 0)
    OBVIOUS
  <2> QED
    BY <1>4, <1>7, <1>11, <1>12, <1>13, <2>1 DEF Turns
<1>15. Sent'
  BY <1>4, <1>7, <1>11, <1>12, <1>13 DEF Sent
<1> QED
  BY <1>14, <1>15 DEF Talk

LEMMA HostReadsTalks == ASSUME IInv, Talk, HostReads PROVE Talk'
<1>1. /\ Turns /\ k2h # <<>> /\ k2h' = Tail(k2h) /\ k2h \in Seq(BoardFrames)
      /\ pairs \in Seq(Pair)
      /\ UNCHANGED <<h2k, drops, dups, kpc, ses, ht, grace, junk, repertoire>>
  BY DEF Talk, Turns, HostReads, kernel
<1>2. PICK d \in Seq(Pair) : Carries(k2h, pairs, d, seen) /\ Standing(d, kpc, ses, seen)
  BY TalkNow
<1>3. h2k = <<>>
  BY <1>1 DEF Turns
<1>4. k2h' \in Seq(BoardFrames) /\ (NoDone(k2h) => NoDone(k2h'))
  <2>1. /\ Tail(k2h) \in Seq(BoardFrames) /\ Len(Tail(k2h)) = Len(k2h) - 1 /\ Len(k2h) \in Nat
        /\ \A i \in 1..(Len(k2h) - 1) : Tail(k2h)[i] = k2h[i + 1] /\ i + 1 \in 1..Len(k2h)
    BY <1>1
  <2>2. NoDone(k2h) => NoDone(Tail(k2h))
    BY <2>1 DEF NoDone
  <2> QED
    BY <1>1, <2>1, <2>2
<1>5. CASE kpc = "IDLE" /\ k2h' = <<>>
  <2>1. pairs' = <<>> /\ <<>> \in Seq(Pair)
    BY <1>5 DEF HostReads
  <2>2. Turns'
    BY <1>1, <1>3, <1>4, <1>5, <2>1 DEF Turns
  <2>3. Carries(<<>>, <<>>, <<>>, seen')
    BY <2>1, CarriesNone
  <2>4. Standing(<<>>, kpc', ses', seen')
    BY <1>1, <1>5 DEF Standing, LinearPhases, GracePhases
  <2>5. Sent'
    BY <1>5, <2>1, <2>3, <2>4 DEF Sent
  <2> QED
    BY <2>2, <2>5 DEF Talk
<1>6. CASE ~(kpc = "IDLE" /\ k2h' = <<>>)
  <2> DEFINE f == Head(k2h)
             got == pairs \o PairsIn(f)
  <2>1. seen' = seen /\ pairs' = IF f.type = "RESULT" THEN pairs \o f.pairs ELSE pairs
    BY <1>6 DEF HostReads
  <2>2. f \in BoardFrames /\ Carries(Tail(k2h), got, d, seen)
    BY <1>1, <1>2, CarriesHead
  <2>3. PairsIn(f) \in Seq(Pair)
    BY <2>2, PairsInType
  <2> HIDE DEF f
  <2>4. pairs' = got
    <3>1. pairs \o <<>> = pairs
      BY <1>1
    <3> QED
      BY <2>1, <3>1 DEF PairsIn
  <2>5. got \in Seq(Pair)
    BY <1>1, <2>3
  <2> HIDE DEF got
  <2>6. Turns'
    <3>1. kpc' # "IDLE" => NoDone(k2h')
      BY <1>1, <1>4 DEF Turns
    <3>2. ~(kpc' = "IDLE" /\ k2h' = <<>>)
      BY <1>1, <1>6
    <3> QED
      BY <1>1, <1>3, <1>4, <2>4, <2>5, <3>1, <3>2 DEF Turns
  <2>7. Carries(k2h', pairs', d, seen') /\ Standing(d, kpc', ses', seen')
    BY <1>1, <1>2, <2>1, <2>2, <2>4, Zenon
  <2>8. Sent'
    BY <2>7 DEF Sent
  <2> QED
    BY <2>6, <2>8 DEF Talk
<1> QED
  BY <1>5, <1>6

LEMMA HostWritesTalks == ASSUME Faultless, IInv, Talk, HostWrites PROVE Talk'
<1>1. UNCHANGED <<k2h, kpc, ses, ht, grace, junk, repertoire, pairs, seen>>
  BY DEF HostWrites, kernel
<1>2. PICK f \in repertoire : HostSends(<<f>>)
  BY DEF HostWrites
<1>3. /\ f \in HostFrames /\ h2k \in Seq(HostFrames) /\ Turns /\ h2k = <<>> /\ k2h = <<>>
      /\ WaitsForFrame \/ junk \in 1..(HEADER_BYTES - 1)
  BY RepertoiresAssumption DEF IInv, Types, Talk, HostWrites, KernelQuiet
<1>4. drops = 0 /\ dups = 0 /\ <<f>> \in Seq(HostFrames)
  BY <1>3 DEF Turns
<1>5. h2k' = h2k \o <<f>> /\ drops' = 0 /\ dups' = 0
  BY <1>2, <1>3, <1>4, HostSendsOnce
<1>6. Len(h2k') <= 1
  <2>1. <<>> \o <<f>> = <<f>> /\ Len(<<f>>) = 1
    OBVIOUS
  <2> QED
    BY <1>3, <1>5, <2>1
<1>7. (WaitsForFrame \/ junk \in 1..(HEADER_BYTES - 1))'
  BY <1>1, <1>3 DEF WaitsForFrame, InBuildLoop, InProbeLoop, InGraceLoop, HEADER_BYTES
<1>8. Turns'
  BY <1>1, <1>3, <1>5, <1>6, <1>7 DEF Turns
<1>9. Sent'
  BY <1>1 DEF Talk, Sent
<1> QED
  BY <1>8, <1>9 DEF Talk

LEMMA TalkStart == Init => Talk
<1> SUFFICES ASSUME Init PROVE Talk
  OBVIOUS
<1>1. /\ h2k = <<>> /\ k2h = <<>> /\ drops = 0 /\ dups = 0 /\ pairs = <<>> /\ kpc = "IDLE"
      /\ junk = 0
  BY DEF Init, LinkInit, KernelInit
<1>2. <<>> \in Seq(Pair) /\ <<>> \in Seq(BoardFrames) /\ Len(<<>>) = 0
  OBVIOUS
<1>3. Turns
  BY <1>1, <1>2 DEF Turns
<1>4. Carries(<<>>, <<>>, <<>>, seen)
  BY <1>2, CarriesNone
<1>5. Standing(<<>>, kpc, ses, seen)
  BY <1>1 DEF Standing, LinearPhases, GracePhases
<1> QED
  BY <1>1, <1>2, <1>3, <1>4, <1>5 DEF Talk, Sent

LEMMA TalkStep == ASSUME Faultless PROVE IInv /\ Talk /\ [Next]_vars => Talk'
<1> SUFFICES ASSUME IInv, Talk, [Next]_vars PROVE Talk'
  OBVIOUS
<1>1. CASE HostWrites
  BY <1>1, HostWritesTalks
<1>2. CASE HostReads
  BY <1>2, HostReadsTalks
<1>3. CASE KernelWatchdog
  BY <1>3, WatchdogTalks
<1>4. CASE Kernel
  <2>1. CASE EndingStep
    BY <1>4, <2>1, PlainStepTalks, ProbeResetTalks, SessionDoneTalks
  <2>2. CASE Configure
    BY <1>4, <2>2, ConfigureTalks
  <2>3. CASE LinearStep /\ ~EndingStep
    BY <1>4, <2>3, BuildLoopExitTalks, BuildFrameTalks, InsertRowTalks, BuildFrameDoneTalks,
       ProbeFrameTalks, LookupRowTalks, ProbeFrameDoneTalks DEF LinearStep, EndingStep
  <2>4. CASE GraceStep /\ ~EndingStep
    BY <1>4, <2>4, GraceInnerFrameTalks, GraceOuterFrameTalks, GraceLoopExitTalks,
       GraceJoinTalks, GraceLoadRowTalks, GraceProbeTalks, GraceStallTalks DEF GraceStep, EndingStep
  <2> QED
    BY <1>4, <2>1, <2>2, <2>3, <2>4 DEF Kernel, KernelStep, EndingStep
<1>5. CASE UNCHANGED vars
  <2>1. UNCHANGED <<h2k, k2h, drops, dups, kpc, ses, junk, pairs, seen>>
    BY <1>5 DEF vars, link, kernel
  <2>2. Turns'
    BY <2>1 DEF Talk, Turns, WaitsForFrame, InBuildLoop, InProbeLoop, InGraceLoop
  <2>3. Sent'
    BY <2>1 DEF Talk, Sent
  <2> QED
    BY <2>2, <2>3 DEF Talk
<1> QED
  BY <1>1, <1>2, <1>3, <1>4, <1>5 DEF Next, HostWritesInVain

\* The frame the host is about to read is right.
LEMMA TalkShows ==
    ASSUME Talk, k2h # <<>>
    PROVE  FrameRight(Head(k2h), pairs, seen)
<1>1. k2h \in Seq(BoardFrames)
  BY DEF Talk, Turns
<1>2. PICK d \in Seq(Pair) : Carries(k2h, pairs, d, seen)
  BY DEF Talk, Sent
<1> QED
  BY <1>1, <1>2, CarriesHead

LEMMA TalkImpliesReports == Talk => ReportsCountResults
<1> SUFFICES ASSUME Talk, Reporting PROVE ReportsCountResults
  BY DEF ReportsCountResults
<1>1. CountsRight(Head(k2h), pairs)
  BY TalkShows DEF FrameRight, Reporting
<1> QED
  BY <1>1 DEF ReportsCountResults, CountsRight, Reporting

LEMMA TalkImpliesJoined == Talk => DoneMeansJoined
<1> SUFFICES ASSUME Talk, k2h # <<>> PROVE DoneMeansJoined
  BY DEF DoneMeansJoined
<1>1. DoneRight(Head(k2h), pairs, seen)
  BY TalkShows DEF FrameRight
<1> QED
  BY <1>1 DEF DoneMeansJoined, DoneRight

\* Over a link that loses and duplicates nothing, against any host: every
\* report of the kernel counts the pairs of its session.  rows_matched of
\* the ACK of a RESET and of DONE is the number of pairs the host has read
\* before it, a PROBING ACK runs ahead of them by less than the pairs of a
\* full result_buf, and a report of rows that no lookup has seen counts none
\* (send_status and flush_result_batch in hash_join_kernel).
THEOREM ReportsRight == ASSUME Faultless PROVE Spec => []ReportsCountResults
<1>1. IInv /\ Talk /\ [Next]_vars => Talk'
  BY TalkStep
<1> QED
  BY <1>1, IInvStart, IInvStep, TalkStart, TalkImpliesReports, PTL DEF Spec

\* Over such a link DONE means joined: when the host reads it, the RESULT
\* frames before it had exactly the equi-join of the rows the kernel took in
\* this session, every pair as often as the join has it, and rows_matched is
\* its size: in algorithm A whatever the batches and the flushes of
\* result_buf between them, in algorithm B whatever the hash of partition_of
\* and the number of partitions join_partition_loop turns through.
THEOREM DoneIsJoin == ASSUME Faultless PROVE Spec => []DoneMeansJoined
<1>1. IInv /\ Talk /\ [Next]_vars => Talk'
  BY TalkStep
<1> QED
  BY <1>1, IInvStart, IInvStep, TalkStart, TalkImpliesJoined, PTL DEF Spec

=============================================================================
