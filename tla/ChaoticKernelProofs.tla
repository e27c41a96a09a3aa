------------------------ MODULE ChaoticKernelProofs ------------------------
(***************************************************************************)
(* Proofs about ChaoticKernel, the client against any board, for every     *)
(* configuration, input, window and credit: its bookkeeping of the batches *)
(* in flight, what it has sent, and the RESET it owes.                     *)
(***************************************************************************)
EXTENDS ChaoticKernel, FiniteSetTheorems, SequenceTheorems, TLAPS

-----------------------------------------------------------------------------
(***************************************************************************)
(* Numbers.                                                                *)
(***************************************************************************)
\* Every non-empty set of numbers has a least one: the induction principle of
\* the lemmas below.
LEMMA LeastNumber ==
    ASSUME NEW S \in SUBSET Nat, S # {}
    PROVE  \E d \in S : \A e \in S : d <= e
<1> DEFINE Below(d) == 0..(d - 1)
           T == {Below(d) : d \in S}
           R == StrictSubsetOrdering(Nat)
<1>1. \A d \in S : Below(d) \in FiniteSubsetsOf(Nat)
  BY FS_Interval DEF FiniteSubsetsOf
<1>2. T \subseteq FiniteSubsetsOf(Nat) /\ T # {}
  BY <1>1
<1>3. \E x \in T : \A y \in T : ~ (<<y, x>> \in R)
  <2> HIDE DEF T
  <2> QED
    BY <1>2, FS_StrictSubsetOrderingWellFounded, WFMin
<1>4. PICK d \in S : \A e \in S : ~ (<<Below(e), Below(d)>> \in R)
  BY <1>3
<1>5. ASSUME NEW e \in S, ~ (d <= e) PROVE FALSE
  <2>1. e \in Nat /\ d \in Nat /\ e < d
    BY <1>5
  <2>2. Below(e) \subseteq Below(d) /\ e \in Below(d) /\ e \notin Below(e)
    BY <2>1
  <2>3. <<Below(e), Below(d)>> \in R
    BY <1>1, <2>2 DEF StrictSubsetOrdering, FiniteSubsetsOf
  <2> QED
    BY <1>4, <2>3
<1> QED
  BY <1>5

\* Induction over the numbers up to m, for a property given as a set.
LEMMA UpTo ==
    ASSUME NEW m \in Nat, NEW T, 0 \in T, \A i \in 1..m : i - 1 \in T => i \in T
    PROVE  \A i \in 0..m : i \in T
<1> DEFINE S == {i \in 0..m : i \notin T}
<1> SUFFICES ASSUME S # {} PROVE FALSE
  OBVIOUS
<1>1. S \in SUBSET Nat
  OBVIOUS
<1>2. PICK d \in S : \A e \in S : d <= e
  <2> HIDE DEF S
  <2> QED
    BY <1>1, LeastNumber
<1>3. d \in 1..m /\ d - 1 \in 0..m /\ ~(d <= d - 1)
  BY <1>2
<1>4. d - 1 \in T
  BY <1>2, <1>3
<1> QED
  BY <1>2, <1>3, <1>4

-----------------------------------------------------------------------------
(***************************************************************************)
(* The rows of a queue of batches.                                         *)
(***************************************************************************)
\* f adds up the batches of q, up to the n-th.
Adds(f, q, n) == f[0] = 0 /\ \A i \in 1..n : f[i] = f[i - 1] + q[i]

LEMMA SumsExist ==
    ASSUME NEW q \in Seq(Nat)
    PROVE  \E f \in [0..Len(q) -> Nat] : Adds(f, q, Len(q))
<1> DEFINE T == {n \in 0..Len(q) : \E f \in [0..n -> Nat] : Adds(f, q, n)}
<1>1. 0 \in T
  <2> DEFINE f == [i \in 0..0 |-> 0]
  <2>1. f \in [0..0 -> Nat] /\ Adds(f, q, 0)
    BY DEF Adds
  <2> QED
    BY <2>1
<1>2. ASSUME NEW n \in 1..Len(q), n - 1 \in T PROVE n \in T
  <2>1. PICK f \in [0..(n - 1) -> Nat] : Adds(f, q, n - 1)
    BY <1>2
  <2> DEFINE g == [i \in 0..n |-> IF i = n THEN f[n - 1] + q[n] ELSE f[i]]
  <2>2. /\ n \in Nat /\ n - 1 \in 0..(n - 1) /\ q[n] \in Nat /\ f[n - 1] \in Nat
        /\ f[0] = 0 /\ \A i \in 1..(n - 1) : f[i] = f[i - 1] + q[i]
    BY <2>1 DEF Adds
  <2>3. g \in [0..n -> Nat]
    BY <2>2
  <2>4. g[0] = 0
    BY <2>2
  <2>5. ASSUME NEW i \in 1..n PROVE g[i] = g[i - 1] + q[i]
    <3>1. i \in 0..n /\ i - 1 \in 0..n /\ i - 1 # n
      BY <2>2
    <3>2. g[i - 1] = f[i - 1] /\ g[i] = IF i = n THEN f[n - 1] + q[n] ELSE f[i]
      BY <3>1
    <3>3. CASE i = n
      BY <3>2, <3>3
    <3>4. CASE i # n
      <4>1. i \in 1..(n - 1)
        BY <2>2, <3>4
      <4> QED
        BY <2>2, <3>2, <3>4, <4>1
    <3> QED
      BY <3>3, <3>4
  <2> HIDE DEF g
  <2>6. Adds(g, q, n)
    BY <2>4, <2>5 DEF Adds
  <2>7. n \in 0..Len(q)
    OBVIOUS
  <2> QED
    BY <2>3, <2>6, <2>7
<1> HIDE DEF T
<1>3. Len(q) \in T
  <2>1. Len(q) \in Nat /\ Len(q) \in 0..Len(q)
    OBVIOUS
  <2>2. \A i \in 0..Len(q) : i \in T
    BY <1>1, <1>2, <2>1, UpTo
  <2> QED
    BY <2>1, <2>2
<1> QED
  BY <1>3 DEF T

LEMMA SumsAgree ==
    ASSUME NEW n \in Nat, NEW q, NEW f, NEW g, Adds(f, q, n), Adds(g, q, n)
    PROVE  \A i \in 0..n : f[i] = g[i]
<1> DEFINE T == {i \in 0..n : f[i] = g[i]}
<1>1. 0 \in T /\ \A i \in 1..n : i - 1 \in T => i \in T
  BY DEF Adds
<1> HIDE DEF T
<1>2. \A i \in 0..n : i \in T
  BY <1>1, UpTo
<1> QED
  BY <1>2 DEF T

\* RowsOf is the value of any function that adds up.
LEMMA RowsOfSum ==
    ASSUME NEW q \in Seq(Nat), NEW m \in Nat, NEW n \in 0..m,
           NEW f \in [0..m -> Nat], Adds(f, q, m)
    PROVE  RowsOf(q, n) = f[n]
<1> DEFINE sum[i \in 0..n] == IF i = 0 THEN 0 ELSE sum[i - 1] + q[i]
           h == [i \in 0..n |-> f[i]]
<1>1. h = [i \in 0..n |-> IF i = 0 THEN 0 ELSE h[i - 1] + q[i]]
  <2>1. \A i \in 0..n : f[i] = IF i = 0 THEN 0 ELSE h[i - 1] + q[i]
    BY DEF Adds
  <2> QED
    BY <2>1
<1> HIDE DEF h
<1>2. sum = [i \in 0..n |-> IF i = 0 THEN 0 ELSE sum[i - 1] + q[i]]
  BY <1>1
<1>3. RowsOf(q, n) = sum[n]
  BY DEF RowsOf
<1> HIDE DEF sum
<1>4. Adds(sum, q, n) /\ Adds(f, q, n)
  BY <1>2 DEF Adds
<1>5. sum[n] = f[n]
  BY <1>4, SumsAgree
<1> QED
  BY <1>3, <1>5

LEMMA RowsOfType ==
    ASSUME NEW q \in Seq(Nat), NEW n \in 0..Len(q) PROVE RowsOf(q, n) \in Nat
<1>1. PICK f \in [0..Len(q) -> Nat] : Adds(f, q, Len(q))
  BY SumsExist
<1> QED
  BY <1>1, RowsOfSum

LEMMA RowsOfNone == ASSUME NEW q \in Seq(Nat) PROVE RowsOf(q, 0) = 0
<1>1. PICK f \in [0..Len(q) -> Nat] : Adds(f, q, Len(q))
  BY SumsExist
<1>2. f[0] = 0 /\ Len(q) \in Nat /\ 0 \in 0..Len(q)
  BY <1>1 DEF Adds
<1> QED
  BY <1>1, <1>2, RowsOfSum

\* A batch more.
LEMMA RowsOfAppend ==
    ASSUME NEW q \in Seq(Nat), NEW b \in Nat
    PROVE  RowsOf(Append(q, b), Len(q) + 1) = RowsOf(q, Len(q)) + b
<1> DEFINE r == Append(q, b)
<1>1. /\ r \in Seq(Nat) /\ Len(r) = Len(q) + 1 /\ Len(q) \in Nat /\ r[Len(q) + 1] = b
      /\ \A i \in 1..Len(q) : r[i] = q[i]
  OBVIOUS
<1> HIDE DEF r
<1>2. PICK f \in [0..Len(r) -> Nat] : Adds(f, r, Len(r))
  BY <1>1, SumsExist
<1>3. RowsOf(r, Len(q) + 1) = f[Len(q) + 1] /\ f[Len(q) + 1] = f[Len(q)] + b
  <2> DEFINE m == Len(q) + 1
  <2>1. m \in Nat /\ m \in 1..Len(r) /\ m \in 0..Len(r) /\ m - 1 = Len(q) /\ Len(r) \in Nat
    BY <1>1
  <2>2. RowsOf(r, m) = f[m]
    <3> HIDE DEF m
    <3> QED
      BY <1>1, <1>2, <2>1, RowsOfSum
  <2>3. f[m] = f[m - 1] + r[m]
    <3> HIDE DEF m
    <3> QED
      BY <1>2, <2>1 DEF Adds
  <2> QED
    BY <1>1, <2>1, <2>2, <2>3
<1> DEFINE g == [i \in 0..Len(q) |-> f[i]]
<1>4. g \in [0..Len(q) -> Nat] /\ g[Len(q)] = f[Len(q)]
  BY <1>1, <1>2
<1>5. Adds(g, q, Len(q))
  BY <1>1, <1>2 DEF Adds
<1> HIDE DEF g
<1>6. RowsOf(q, Len(q)) = f[Len(q)]
  <2>1. Len(q) \in Nat /\ Len(q) \in 0..Len(q)
    BY <1>1
  <2>2. RowsOf(q, Len(q)) = g[Len(q)]
    BY <1>4, <1>5, <2>1, RowsOfSum
  <2> QED
    BY <1>4, <2>2
<1> QED
  BY <1>3, <1>6 DEF r

\* The batches behind the n-th have the rows that the first n have not.
LEMMA RowsOfRest ==
    ASSUME NEW q \in Seq(Nat), NEW n \in 0..Len(q)
    PROVE  LET r == SubSeq(q, n + 1, Len(q))
           IN RowsOf(q, n) + RowsOf(r, Len(r)) = RowsOf(q, Len(q))
<1> DEFINE r == SubSeq(q, n + 1, Len(q))
<1>1. /\ r \in Seq(Nat) /\ Len(r) = Len(q) - n /\ Len(q) \in Nat
      /\ \A i \in 1..(Len(q) - n) : r[i] = q[n + i]
  <2>1. n \in Nat /\ n + 1 \in Nat /\ Len(q) \in Nat /\ n <= Len(q)
    OBVIOUS
  <2>2. r = [i \in 1..(Len(q) - n) |-> q[i + n]]
    BY <2>1
  <2>3. \A i \in 1..(Len(q) - n) : i + n \in 1..Len(q) /\ i + n = n + i
    BY <2>1
  <2>4. Len(q) - n \in Nat
    BY <2>1
  <2> HIDE DEF r
  <2>5. r \in Seq(Nat) /\ Len(r) = Len(q) - n
    BY <2>2, <2>3, <2>4
  <2> QED
    BY <2>1, <2>2, <2>3, <2>5
<1> HIDE DEF r
<1>2. PICK f \in [0..Len(q) -> Nat] : Adds(f, q, Len(q))
  BY SumsExist
<1>3. PICK g \in [0..Len(r) -> Nat] : Adds(g, r, Len(r))
  BY <1>1, SumsExist
<1> DEFINE T == {i \in 0..Len(r) : f[n] + g[i] = f[n + i]}
<1>4. 0 \in T
  <2>1. g[0] = 0 /\ n \in 0..Len(q) /\ n + 0 = n /\ 0 \in 0..Len(r)
    BY <1>1, <1>3 DEF Adds
  <2>2. f[n] \in Nat
    BY <1>2, <2>1
  <2> QED
    BY <2>1, <2>2
<1>5. ASSUME NEW i \in 1..Len(r), i - 1 \in T PROVE i \in T
  <2>1. /\ n + i \in 1..Len(q) /\ n + i - 1 = n + (i - 1) /\ i - 1 \in 0..Len(r)
        /\ i \in 0..Len(r) /\ i \in 1..(Len(q) - n) /\ n \in 0..Len(q)
    BY <1>1
  <2>2. f[n + i] = f[n + i - 1] + q[n + i] /\ g[i] = g[i - 1] + r[i] /\ r[i] = q[n + i]
    BY <1>1, <1>2, <1>3, <2>1 DEF Adds
  <2>3. f[n] \in Nat /\ g[i - 1] \in Nat /\ q[n + i] \in Nat
    <3>1. q[n + i] \in Nat
      BY <2>1, ElementOfSeq
    <3> QED
      BY <1>2, <1>3, <2>1, <3>1
  <2>4. f[n] + g[i - 1] = f[n + (i - 1)]
    BY <1>5
  <2> QED
    BY <2>1, <2>2, <2>3, <2>4
<1>6. Len(r) \in T
  <2>1. Len(r) \in Nat /\ Len(r) \in 0..Len(r)
    BY <1>1
  <2> HIDE DEF T
  <2>2. \A i \in 0..Len(r) : i \in T
    BY <1>4, <1>5, <2>1, UpTo
  <2> QED
    BY <2>1, <2>2
<1>7. f[n] + g[Len(r)] = f[Len(q)]
  BY <1>1, <1>6
<1>8. RowsOf(q, n) = f[n] /\ RowsOf(q, Len(q)) = f[Len(q)]
  <2>1. Len(q) \in Nat /\ Len(q) \in 0..Len(q)
    BY <1>1
  <2> QED
    BY <1>2, <2>1, RowsOfSum
<1>9. RowsOf(r, Len(r)) = g[Len(r)]
  <2>1. Len(r) \in Nat /\ Len(r) \in 0..Len(r)
    BY <1>1
  <2> QED
    BY <1>1, <1>3, <2>1, RowsOfSum
<1> QED
  BY <1>7, <1>8, <1>9 DEF r

\* The batches an ACK covers are some of the first ones in the queue.
LEMMA AckedFramesRange ==
    ASSUME NEW q \in Seq(Nat), NEW acked \in Nat, NEW processed \in Nat
    PROVE  AckedFrames(q, acked, processed) \in 0..Len(q)
<1>1. CASE processed <= acked
  BY <1>1 DEF AckedFrames
<1>2. CASE ~(processed <= acked)
  <2> DEFINE S == {n \in 0..Len(q) : acked + RowsOf(q, n) <= processed}
             T == {Len(q) - n : n \in S}
  <2>1. AckedFrames(q, acked, processed) = Max(S)
    BY <1>2 DEF AckedFrames
  <2>2. 0 \in S /\ Len(q) \in Nat
    BY <1>2, RowsOfNone
  <2>3. T \in SUBSET Nat /\ T # {}
    BY <2>2
  <2>4. PICK d \in T : \A e \in T : d <= e
    <3> HIDE DEF T
    <3> QED
      BY <2>3, LeastNumber
  <2>5. PICK n \in S : d = Len(q) - n
    BY <2>4
  <2>6. \A e \in S : n >= e
    <3> SUFFICES ASSUME NEW e \in S PROVE n >= e
      OBVIOUS
    <3>1. Len(q) - e \in T /\ e \in Nat /\ n \in Nat
      OBVIOUS
    <3>2. Len(q) - n <= Len(q) - e
      BY <2>4, <2>5, <3>1
    <3> QED
      BY <2>2, <3>1, <3>2
  <2> HIDE DEF S
  <2>7. Max(S) \in S
    BY <2>5, <2>6 DEF Max
  <2> QED
    BY <2>1, <2>7 DEF S
<1> QED
  BY <1>1, <1>2

LEMMA MinOfThree ==
    ASSUME NEW a \in Nat, NEW b \in Nat, NEW c \in Nat
    PROVE  LET m == Min({a, b, c})
           IN m \in {a, b, c} /\ m <= a /\ m <= b /\ m <= c
<1>1. \E m \in {a, b, c} : \A y \in {a, b, c} : m <= y
  OBVIOUS
<1>2. Min({a, b, c}) \in {a, b, c} /\ \A y \in {a, b, c} : Min({a, b, c}) <= y
  BY <1>1 DEF Min
<1> QED
  BY <1>2

-----------------------------------------------------------------------------
(***************************************************************************)
(* The link.                                                               *)
(***************************************************************************)
LEMMA FlattenOne == ASSUME NEW S, NEW s \in Seq(S) PROVE FlattenSeq(<<s>>) = s
<1> DEFINE f == [i \in 1..1 |-> s]
           flatten[i \in 1..Len(<<s>>)] ==
               IF i = 1 THEN (<<s>>)[i] ELSE flatten[i - 1] \o (<<s>>)[i]
<1>1. FlattenSeq(<<s>>) = flatten[Len(<<s>>)]
  BY DEF FlattenSeq
<1>2. Len(<<s>>) = 1
  OBVIOUS
<1>3. f = [i \in 1..Len(<<s>>) |-> IF i = 1 THEN (<<s>>)[i] ELSE f[i - 1] \o (<<s>>)[i]]
  BY <1>2
<1>4. flatten = [i \in 1..Len(<<s>>) |->
                   IF i = 1 THEN (<<s>>)[i] ELSE flatten[i - 1] \o (<<s>>)[i]]
  BY <1>3
<1> QED
  BY <1>1, <1>2, <1>4

LEMMA FlattenTwo == ASSUME NEW S, NEW s \in Seq(S) PROVE FlattenSeq(<<s, s>>) = s \o s
<1> DEFINE ss == <<s, s>>
           f == [i \in 1..2 |-> IF i = 1 THEN s ELSE s \o s]
           flatten[i \in 1..Len(ss)] == IF i = 1 THEN ss[i] ELSE flatten[i - 1] \o ss[i]
<1>1. Len(ss) = 2 /\ ss[1] = s /\ ss[2] = s
  OBVIOUS
<1>2. FlattenSeq(ss) = flatten[Len(ss)]
  BY <1>1 DEF FlattenSeq
<1>3. f = [i \in 1..Len(ss) |-> IF i = 1 THEN ss[i] ELSE f[i - 1] \o ss[i]]
  <2>1. \A i \in 1..2 : f[i] = IF i = 1 THEN ss[i] ELSE f[i - 1] \o ss[i]
    OBVIOUS
  <2> QED
    BY <1>1, <2>1
<1> HIDE DEF f, ss
<1>4. flatten = [i \in 1..Len(ss) |-> IF i = 1 THEN ss[i] ELSE flatten[i - 1] \o ss[i]]
  BY <1>3
<1> HIDE DEF flatten
<1>5. flatten[1] = s
  BY <1>1, <1>4
<1>6. flatten[2] = flatten[2 - 1] \o ss[2]
  <2>1. 2 \in 1..Len(ss) /\ 2 # 1
    BY <1>1
  <2>2. \A i \in 1..Len(ss) : flatten[i] = IF i = 1 THEN ss[i] ELSE flatten[i - 1] \o ss[i]
    BY <1>4, Zenon
  <2> QED
    BY <2>1, <2>2, Zenon
<1>7. 2 - 1 = 1
  OBVIOUS
<1>8. flatten[Len(ss)] = s \o s
  BY <1>1, <1>5, <1>6, <1>7, Zenon
<1> QED
  BY <1>2, <1>8, Zenon DEF ss

\* One call of send, or one frame of the board: what it holds arrives n times.
LEMMA TransmitOne ==
    ASSUME NEW S, NEW queue \in Seq(S), NEW d \in Seq(S), NEW n \in {0, 1, 2}
    PROVE  /\ Transmit(queue, <<d>>, <<n>>) \in Seq(S)
           /\ n = 1 => Transmit(queue, <<d>>, <<n>>) = queue \o d
<1> DEFINE inner_(i) == FlattenSeq([c \in 1..(<<n>>)[i] |-> (<<d>>)[i]])
           r == FlattenSeq([c \in 1..n |-> d])
<1>1. [i \in DOMAIN <<d>> |-> inner_(i)] = <<r>>
  <2>1. DOMAIN <<d>> = 1..1 /\ (<<n>>)[1] = n /\ (<<d>>)[1] = d
    OBVIOUS
  <2>2. \A i \in 1..1 : i = 1
    OBVIOUS
  <2>3. inner_(1) = r
    BY <2>1, Zenon
  <2>4. [i \in DOMAIN <<d>> |-> inner_(i)] = [i \in 1..1 |-> r]
    <3> HIDE DEF r, inner_
    <3> QED
      BY <2>1, <2>2, <2>3
  <2> HIDE DEF r, inner_
  <2>5. [i \in 1..1 |-> r] = <<r>>
    OBVIOUS
  <2> QED
    BY <2>4, <2>5
<1>2. r \in Seq(S) /\ (n = 1 => r = d)
  <2>1. CASE n = 0
    <3>1. [c \in 1..n |-> d] = <<>>
      BY <2>1
    <3> QED
      BY <2>1, <3>1 DEF FlattenSeq
  <2>2. CASE n = 1
    <3>1. [c \in 1..n |-> d] = <<d>>
      BY <2>2
    <3> QED
      BY <2>2, <3>1, FlattenOne
  <2>3. CASE n = 2
    <3>1. [c \in 1..n |-> d] = <<d, d>>
      BY <2>3
    <3>2. d \o d \in Seq(S)
      OBVIOUS
    <3>3. r = FlattenSeq(<<d, d>>)
      BY <3>1, Zenon
    <3>4. r = d \o d
      BY <3>3, FlattenTwo, Zenon
    <3>5. r \in Seq(S)
      BY <3>2, <3>4, Zenon
    <3>6. n # 1
      BY <2>3
    <3> QED
      BY <3>5, <3>6, Zenon
  <2> QED
    BY <2>1, <2>2, <2>3
<1> HIDE DEF r
<1>3. FlattenSeq(<<r>>) = r
  BY <1>2, FlattenOne
<1>4. Transmit(queue, <<d>>, <<n>>) = queue \o r
  BY <1>1, <1>3 DEF Transmit
<1>5. queue \o r \in Seq(S)
  BY <1>2
<1> QED
  BY <1>2, <1>4, <1>5, Zenon

-----------------------------------------------------------------------------
(***************************************************************************)
(* The bookkeeping of the batches in flight, over any link.                *)
(***************************************************************************)
\* The phases in which the batches in flight count.
DataPhases == {"config", "build", "probe"}

ClientTypes ==
    /\ cfg \in ClientConfig
    /\ inner \in Seq(InputRows) /\ outer \in Seq(InputRows)
    /\ k2h \in Seq(Replies)
    /\ credit \in Nat /\ sent \in Nat /\ acked_rows \in Nat
    /\ inflight \in Seq(1..MaxBatch)
    /\ attempts \in 0..RESET_ATTEMPTS

\* Nothing is sent before the CONFIGURE, and while the call is in progress
\* the RESET loop has a turn left: what makes the two invariants inductive.
Bookkeeping ==
    /\ ClientTypes
    /\ WindowAccounting
    /\ cpc = "start" => sent = 0 /\ inflight = <<>> /\ acked_rows = 0
    /\ ~ClientDone => attempts < RESET_ATTEMPTS

LEMMA ClientSizes ==
    ASSUME cfg \in ClientConfig
    PROVE  MaxBatch \in Nat \ {0} /\ Window \in Nat \ {0}
<1>1. cfg.max_batch_tuples \in Nat /\ cfg.ack_window_frames \in Nat
  BY DEF ClientConfig
<1>2. RX_BUF_TUPLES \in Nat \ {0} /\ ACK_BATCH_FRAMES \in Nat \ {0}
  BY LinkAssumption
<1> QED
  BY <1>1, <1>2 DEF MaxBatch, Window

\* Batch sizes are numbers.
LEMMA InflightNumbers ==
    ASSUME ClientTypes
    PROVE  /\ inflight \in Seq(Nat) /\ Len(inflight) \in Nat
           /\ RowsOf(inflight, Len(inflight)) \in Nat
<1>1. MaxBatch \in Nat
  BY ClientSizes DEF ClientTypes
<1>2. inflight \in Seq(Nat)
  BY <1>1 DEF ClientTypes
<1>3. Len(inflight) \in 0..Len(inflight) /\ Len(inflight) \in Nat
  BY <1>2
<1> QED
  BY <1>2, <1>3, RowsOfType

\* The frame a wait accepts.
LEMMA AcceptedAck ==
    ASSUME ClientTypes, Accepts(Head(k2h))
    PROVE  Head(k2h).credit \in Nat /\ Head(k2h).rows_processed \in Nat
<1>1. k2h \in Seq(Replies) /\ k2h # <<>> /\ Head(k2h).type \in {"ACK", "STATUS"}
  BY DEF ClientTypes, Accepts, Receives
<1>2. Head(k2h) \in Replies
  BY <1>1
<1> QED
  BY <1>1, <1>2, ChaoticAssumption

LEMMA ReceivedRest ==
    ASSUME ClientTypes, NEW T, Receives(T)
    PROVE  k2h' \in Seq(Replies)
BY DEF ClientTypes, Receives

\* A step that leaves the batches alone.
Quiet ==
    /\ UNCHANGED <<cfg, inner, outer, sent, inflight, acked_rows>>
    /\ credit' \in Nat /\ k2h' \in Seq(Replies)
    /\ attempts' \in 0..RESET_ATTEMPTS
    /\ ~ClientDone' => attempts' < RESET_ATTEMPTS
    /\ cpc' \in DataPhases => cpc \in DataPhases
    /\ cpc' = "start" => cpc = "start"

LEMMA QuietStep == Bookkeeping /\ Quiet => Bookkeeping'
<1> SUFFICES ASSUME Bookkeeping, Quiet PROVE Bookkeeping'
  OBVIOUS
<1>1. cfg' = cfg /\ inner' = inner /\ outer' = outer /\ sent' = sent
      /\ inflight' = inflight /\ acked_rows' = acked_rows
  BY DEF Quiet
<1>2. MaxBatch' = MaxBatch /\ Window' = Window
  BY <1>1 DEF MaxBatch, Window
<1>3. ClientTypes'
  BY <1>1, <1>2 DEF Bookkeeping, ClientTypes, Quiet
<1>4. WindowAccounting'
  BY <1>1, <1>2, Zenon DEF Bookkeeping, WindowAccounting, Quiet, DataPhases
<1>5. (cpc = "start" => sent = 0 /\ inflight = <<>> /\ acked_rows = 0)'
  BY <1>1, Zenon DEF Bookkeeping, Quiet
<1> QED
  BY <1>3, <1>4, <1>5 DEF Bookkeeping, Quiet

\* Every action of the client that neither sends rows nor counts them.
LEMMA QuietActions ==
    ASSUME Bookkeeping,
           \/ ZeroCredit \/ CollectResult \/ CollectError \/ CollectStale \/ ConfigAck
           \/ ProbeDone \/ SendProbeEnd \/ ProbeEndAck \/ EndVerified \/ EndInferred
           \/ ResetAck \/ EndUnconfirmed \/ FinalStatus \/ HardTimeout
    PROVE  Quiet
<1> USE DEF args, DataPhases, ClientDone
<1>0. ClientTypes
  BY DEF Bookkeeping
<1>1. /\ credit \in Nat /\ k2h \in Seq(Replies) /\ attempts \in 0..RESET_ATTEMPTS
      /\ ~ClientDone => attempts < RESET_ATTEMPTS
  BY DEF Bookkeeping, ClientTypes
<1>2. CASE ZeroCredit
  BY <1>1, <1>2 DEF ZeroCredit, LeaveAs, Quiet
<1>3. CASE CollectResult
  <2>1. k2h' \in Seq(Replies)
    BY <1>0, <1>3, ReceivedRest DEF CollectResult
  <2>2. UNCHANGED <<cpc, args, credit, sent, inflight, acked_rows, attempts>>
    BY <1>3 DEF CollectResult
  <2> QED
    BY <1>1, <2>1, <2>2 DEF Quiet
<1>4. CASE CollectError
  <2>1. k2h' \in Seq(Replies)
    BY <1>0, <1>4, ReceivedRest DEF CollectError
  <2>2. UNCHANGED <<args, credit, sent, inflight, acked_rows, attempts>> /\ cpc' = "threw"
    BY <1>4 DEF CollectError, LeaveAs, LeaveQuietlyAs
  <2> QED
    BY <1>1, <2>1, <2>2 DEF Quiet
<1>5. CASE CollectStale
  <2>1. k2h' \in Seq(Replies)
    BY <1>0, <1>5, ReceivedRest DEF CollectStale
  <2>2. UNCHANGED <<cpc, args, credit, sent, inflight, acked_rows, attempts>>
    BY <1>5 DEF CollectStale, client
  <2> QED
    BY <1>1, <2>1, <2>2 DEF Quiet
<1>6. CASE ConfigAck
  <2>1. k2h' \in Seq(Replies)
    BY <1>0, <1>6, ReceivedRest DEF ConfigAck, Accepts
  <2>2. /\ UNCHANGED <<args, sent, inflight, acked_rows, attempts>>
        /\ cpc = "config" /\ cpc' = "build"
    BY <1>6 DEF ConfigAck
  <2>3. Head(k2h).credit \in Nat
    BY <1>0, <1>6, AcceptedAck DEF ConfigAck
  <2>4. credit' \in Nat
    <3>1. CASE inflight = <<>>
      BY <1>6, <2>3, <3>1 DEF ConfigAck
    <3>2. CASE inflight # <<>>
      <4>1. Head(inflight) \in Nat
        BY <1>0, <3>2, InflightNumbers
      <4>2. credit' = Minus(Head(k2h).credit, Head(inflight))
        BY <1>6, <3>2 DEF ConfigAck
      <4> QED
        BY <2>3, <4>1, <4>2 DEF Minus
    <3> QED
      BY <3>1, <3>2
  <2> QED
    BY <1>1, <2>1, <2>2, <2>4 DEF Quiet
<1>7. CASE ProbeDone
  BY <1>1, <1>7 DEF ProbeDone, Quiet, link
<1>8. CASE SendProbeEnd
  <2>1. /\ UNCHANGED <<k2h, args, credit, sent, inflight, acked_rows, attempts>>
        /\ cpc = "probed" /\ cpc' = "probe_end"
    BY <1>8 DEF SendProbeEnd
  <2> QED
    BY <1>1, <2>1 DEF Quiet
<1>9. CASE ProbeEndAck
  <2>1. k2h' \in Seq(Replies)
    BY <1>0, <1>9, ReceivedRest DEF ProbeEndAck, Accepts
  <2>2. /\ UNCHANGED <<args, sent, inflight, acked_rows, attempts>>
        /\ credit' = Head(k2h).credit
        /\ cpc = "probe_end" /\ cpc' = "probe_ended"
    BY <1>9 DEF ProbeEndAck
  <2>3. Head(k2h).credit \in Nat
    BY <1>0, <1>9, AcceptedAck DEF ProbeEndAck
  <2> QED
    BY <1>1, <2>1, <2>2, <2>3 DEF Quiet
<1>10. CASE EndVerified
  <2>1. /\ UNCHANGED <<k2h, args, credit, sent, inflight, acked_rows, attempts>>
        /\ cpc' \in {"returned", "threw"}
    BY <1>10 DEF EndVerified, LeaveAs
  <2> QED
    BY <1>1, <2>1 DEF Quiet
<1>11. CASE EndInferred
  <2>1. /\ UNCHANGED <<k2h, args, credit, sent, inflight, acked_rows, attempts>>
        /\ cpc' = "reset" /\ ~ClientDone
    BY <1>11 DEF EndInferred, Ending
  <2> QED
    BY <1>1, <2>1 DEF Quiet
<1>12. CASE ResetAck
  <2>1. k2h' \in Seq(Replies)
    BY <1>0, <1>12, ReceivedRest DEF ResetAck, Accepts
  <2>2. /\ UNCHANGED <<args, credit, sent, inflight, acked_rows>>
        /\ cpc = "reset" /\ attempts' = attempts + 1
        /\ cpc' \in {"returned", "threw", "reset"}
        /\ cpc' = "reset" => attempts' # RESET_ATTEMPTS
    BY <1>12 DEF ResetAck
  <2>3. RESET_ATTEMPTS \in Nat
    BY ClientAssumption
  <2>4. attempts < RESET_ATTEMPTS
    BY <1>1, <2>2
  <2>5. attempts' \in 0..RESET_ATTEMPTS /\ (~ClientDone' => attempts' < RESET_ATTEMPTS)
    BY <1>1, <2>2, <2>3, <2>4
  <2> QED
    BY <1>1, <2>1, <2>2, <2>5 DEF Quiet
<1>13. CASE EndUnconfirmed
  <2>1. /\ UNCHANGED <<k2h, args, credit, sent, inflight, acked_rows, attempts>>
        /\ cpc' = "final" /\ ~ClientDone
    BY <1>13 DEF EndUnconfirmed, Ending, link
  <2> QED
    BY <1>1, <2>1 DEF Quiet
<1>14. CASE FinalStatus
  <2>1. k2h' \in Seq(Replies)
    BY <1>0, <1>14, ReceivedRest DEF FinalStatus, Accepts
  <2>2. /\ UNCHANGED <<args, credit, sent, inflight, acked_rows, attempts>>
        /\ cpc' \in {"returned", "threw"}
    BY <1>14 DEF FinalStatus, LeaveAs
  <2> QED
    BY <1>1, <2>1, <2>2 DEF Quiet
<1>15. CASE HardTimeout
  <2>1. /\ UNCHANGED <<k2h, args, credit, sent, inflight, acked_rows, attempts>>
        /\ cpc' \in {"returned", "threw"}
    BY <1>15 DEF HardTimeout, LeaveAs, LeaveQuietlyAs
  <2> QED
    BY <1>1, <2>1 DEF Quiet
<1> QED
  BY <1>2, <1>3, <1>4, <1>5, <1>6, <1>7, <1>8, <1>9, <1>10, <1>11, <1>12, <1>13,
     <1>14, <1>15

\* The board writes one of its frames, which arrives at most twice.
LEMMA BoardIsQuiet == ASSUME Bookkeeping, Board PROVE Quiet
<1>1. /\ credit \in Nat /\ k2h \in Seq(Replies) /\ attempts \in 0..RESET_ATTEMPTS
      /\ ~ClientDone => attempts < RESET_ATTEMPTS
  BY DEF Bookkeeping, ClientTypes
<1>a. PICK f \in Replies : KernelSends(<<f>>)
  BY DEF Board
<1>2. PICK copies \in [DOMAIN <<f>> -> Copies] :
         k2h' = Transmit(k2h, [i \in DOMAIN <<f>> |-> <<(<<f>>)[i]>>], copies)
  BY <1>a, Zenon DEF KernelSends
<1> DEFINE n == copies[1]
<1>3. n \in {0, 1, 2} /\ copies = <<n>>
  <2>1. DOMAIN <<f>> = 1..1 /\ \A i \in 1..1 : i = 1
    OBVIOUS
  <2>2. copies \in [1..1 -> Copies] /\ n \in Copies
    BY <2>1
  <2>3. n \in {0, 1, 2}
    BY <2>2 DEF Copies
  <2> HIDE DEF n
  <2>4. \A i \in 1..1 : copies[i] = n
    BY <2>1 DEF n
  <2> QED
    BY <2>2, <2>3, <2>4
<1>4. [i \in DOMAIN <<f>> |-> <<(<<f>>)[i]>>] = << <<f>> >>
  OBVIOUS
<1> HIDE DEF n
<1>5. k2h' = Transmit(k2h, << <<f>> >>, <<n>>)
  BY <1>2, <1>3, <1>4, Zenon
<1>6. <<f>> \in Seq(Replies)
  OBVIOUS
<1>7. k2h' \in Seq(Replies)
  BY <1>1, <1>3, <1>5, <1>6, TransmitOne, Zenon
<1>8. UNCHANGED client
  BY DEF Board
<1>9. /\ UNCHANGED <<cfg, inner, outer, sent, inflight, acked_rows>>
      /\ cpc' = cpc /\ credit' = credit /\ attempts' = attempts
  BY <1>8 DEF client
<1> QED
  BY <1>1, <1>7, <1>9 DEF Quiet, ClientDone

LEMMA ConfigureCounts == ASSUME Bookkeeping, SendConfigure PROVE Bookkeeping'
<1> DEFINE first == IF cfg.coalesce_config_first_inner
                    THEN Min({RX_BUF_TUPLES, MaxBatch, Len(inner)}) ELSE 0
<1>1. /\ cfg \in ClientConfig /\ inner \in Seq(InputRows) /\ outer \in Seq(InputRows)
      /\ k2h \in Seq(Replies) /\ credit \in Nat /\ attempts \in 0..RESET_ATTEMPTS
      /\ (~ClientDone => attempts < RESET_ATTEMPTS)
      /\ (cpc = "start" => sent = 0 /\ inflight = <<>> /\ acked_rows = 0)
  BY DEF Bookkeeping, ClientTypes
<1>2. MaxBatch \in Nat \ {0} /\ Window \in Nat \ {0} /\ RX_BUF_TUPLES \in Nat
  BY <1>1, ClientSizes, LinkAssumption
<1>3. first \in 0..MaxBatch
  <2>1. Len(inner) \in Nat
    BY <1>1
  <2>2. Min({RX_BUF_TUPLES, MaxBatch, Len(inner)}) \in 0..MaxBatch
    <3> DEFINE m == Min({RX_BUF_TUPLES, MaxBatch, Len(inner)})
    <3>1. m \in {RX_BUF_TUPLES, MaxBatch, Len(inner)} /\ m <= MaxBatch
      BY <1>2, <2>1, MinOfThree
    <3> HIDE DEF m
    <3>2. m \in 0..MaxBatch
      BY <1>2, <2>1, <3>1
    <3> QED
      BY <3>2 DEF m
  <2> QED
    BY <1>2, <2>2
<1>4. /\ cpc = "start" /\ cpc' = "config" /\ sent' = first
      /\ inflight' = IF first = 0 THEN <<>> ELSE <<first>>
      /\ cfg' = cfg /\ inner' = inner /\ outer' = outer /\ k2h' = k2h
      /\ credit' = credit /\ acked_rows' = acked_rows /\ attempts' = attempts
  BY Zenon DEF SendConfigure, args
<1> HIDE DEF first
<1>5. MaxBatch' = MaxBatch /\ Window' = Window
  BY <1>4 DEF MaxBatch, Window
<1>6. acked_rows' = 0 /\ attempts < RESET_ATTEMPTS
  BY <1>1, <1>4 DEF ClientDone
<1>7. /\ inflight' \in Seq(1..MaxBatch) /\ Len(inflight') <= Window
      /\ RowsOf(inflight', Len(inflight')) = first
  <2>1. <<>> \in Seq(Nat) /\ Len(<<>>) = 0
    OBVIOUS
  <2>2. CASE first = 0
    <3>1. inflight' = <<>> /\ Len(inflight') = 0
      BY <1>4, <2>2
    <3>2. RowsOf(inflight', Len(inflight')) = 0
      BY <2>1, <3>1, RowsOfNone, Zenon
    <3>3. inflight' \in Seq(1..MaxBatch) /\ Len(inflight') <= Window
      BY <1>2, <3>1
    <3> QED
      BY <2>2, <3>2, <3>3, Zenon
  <2>3. CASE first # 0
    <3>1. inflight' = <<first>> /\ first \in 1..MaxBatch /\ first \in Nat
      BY <1>2, <1>3, <1>4, <2>3
    <3>2. Append(<<>>, first) = <<first>> /\ Len(<<first>>) = 1 /\ Len(<<>>) + 1 = 1
      OBVIOUS
    <3>3. RowsOf(Append(<<>>, first), Len(<<>>) + 1) = RowsOf(<<>>, Len(<<>>)) + first
      BY <2>1, <3>1, RowsOfAppend, Zenon
    <3>4. RowsOf(<<>>, Len(<<>>)) = 0
      BY <2>1, RowsOfNone, Zenon
    <3> DEFINE none == RowsOf(<<>>, Len(<<>>))
               one == RowsOf(Append(<<>>, first), Len(<<>>) + 1)
    <3>5. one = none + first /\ none = 0
      BY <3>3, <3>4, Zenon
    <3>6. one = RowsOf(<<first>>, 1)
      BY <3>2
    <3> HIDE DEF none, one
    <3>7. one = first /\ 1 <= Window /\ <<first>> \in Seq(1..MaxBatch)
      BY <1>2, <3>1, <3>5
    <3> QED
      BY <3>1, <3>2, <3>6, <3>7, Zenon
  <2> QED
    BY <2>2, <2>3
<1>8. sent' \in Nat /\ acked_rows' \in Nat /\ acked_rows' + first = sent'
  BY <1>2, <1>3, <1>4, <1>6
<1>9. ClientTypes'
  BY <1>1, <1>4, <1>5, <1>7, <1>8, Zenon DEF ClientTypes
<1>10. WindowAccounting'
  BY <1>5, <1>7, <1>8, Zenon DEF WindowAccounting
<1>11. (~ClientDone => attempts < RESET_ATTEMPTS)'
  BY <1>4, <1>6, Zenon
<1>12. cpc' # "start"
  BY <1>4
<1> QED
  BY <1>9, <1>10, <1>11, <1>12, Zenon DEF Bookkeeping

LEMMA BatchCounts == ASSUME Bookkeeping, SendBatch PROVE Bookkeeping'
<1> DEFINE batch == Min({credit, MaxBatch, Len(Rows) - sent})
<1>1. ClientTypes
  BY DEF Bookkeeping
<1>2. /\ MaxBatch \in Nat \ {0} /\ Window \in Nat \ {0}
      /\ credit \in Nat /\ sent \in Nat /\ acked_rows \in Nat
      /\ inflight \in Seq(1..MaxBatch) /\ attempts \in 0..RESET_ATTEMPTS
  BY <1>1, ClientSizes DEF ClientTypes
<1>3. /\ cpc \in {"build", "probe"} /\ sent < Len(Rows) /\ Len(inflight) < Window
      /\ credit # 0
  BY DEF SendBatch, CanSend
<1>4. Len(Rows) \in Nat
  BY <1>1 DEF ClientTypes, Rows
<1>5. batch \in 1..MaxBatch /\ batch <= credit
  <2>1. Len(Rows) - sent \in Nat \ {0}
    BY <1>2, <1>3, <1>4
  <2>2. batch \in {credit, MaxBatch, Len(Rows) - sent} /\ batch <= MaxBatch /\ batch <= credit
    BY <1>2, <2>1, MinOfThree
  <2> HIDE DEF batch
  <2> QED
    BY <1>2, <1>3, <2>1, <2>2
<1>6. /\ sent' = sent + batch /\ credit' = Minus(credit, batch)
      /\ inflight' = Append(inflight, batch) /\ cpc' = cpc
      /\ cfg' = cfg /\ inner' = inner /\ outer' = outer /\ k2h' = k2h
      /\ acked_rows' = acked_rows /\ attempts' = attempts
  BY Zenon DEF SendBatch, args
<1> HIDE DEF batch
<1>7. MaxBatch' = MaxBatch /\ Window' = Window
  BY <1>6 DEF MaxBatch, Window
<1>8. credit' \in Nat /\ sent' \in Nat /\ inflight' \in Seq(1..MaxBatch)
      /\ Len(inflight') = Len(inflight) + 1
  BY <1>2, <1>5, <1>6 DEF Minus
<1>9. /\ RowsOf(inflight', Len(inflight')) = RowsOf(inflight, Len(inflight)) + batch
      /\ RowsOf(inflight, Len(inflight)) \in Nat
  <2>1. inflight \in Seq(Nat) /\ RowsOf(inflight, Len(inflight)) \in Nat
    BY <1>1, InflightNumbers
  <2>2. batch \in Nat
    BY <1>2, <1>5
  <2>3. RowsOf(Append(inflight, batch), Len(inflight) + 1) = RowsOf(inflight, Len(inflight)) + batch
    BY <2>1, <2>2, RowsOfAppend, Zenon
  <2> QED
    BY <1>6, <1>8, <2>1, <2>3, Zenon
<1>10. WindowAccounting'
  <2>1. acked_rows + RowsOf(inflight, Len(inflight)) = sent
    BY <1>3 DEF Bookkeeping, WindowAccounting
  <2> DEFINE before == RowsOf(inflight, Len(inflight))
  <2>2. acked_rows + before = sent /\ before \in Nat
    BY <1>9, <2>1
  <2> HIDE DEF before
  <2>3. acked_rows + (before + batch) = sent + batch /\ Len(inflight') <= Window
    BY <1>2, <1>3, <1>5, <1>8, <2>2
  <2>4. (acked_rows + RowsOf(inflight, Len(inflight)) = sent)'
    BY <1>6, <1>9, <2>3, Zenon DEF before
  <2> QED
    BY <1>7, <2>3, <2>4, Zenon DEF WindowAccounting
<1>11. ClientTypes'
  BY <1>1, <1>2, <1>6, <1>7, <1>8, Zenon DEF ClientTypes
<1>12. cpc' # "start"
  BY <1>3, <1>6
<1>13. (~ClientDone => attempts < RESET_ATTEMPTS)'
  BY <1>6, Zenon DEF Bookkeeping, ClientDone
<1> QED
  BY <1>10, <1>11, <1>12, <1>13, Zenon DEF Bookkeeping

LEMMA BuildDoneCounts == ASSUME Bookkeeping, BuildDone PROVE Bookkeeping'
<1>1. /\ cpc = "build" /\ inflight = <<>> /\ inflight' = <<>> /\ cpc' = "probe"
      /\ credit' = RX_CREDIT_TUPLES /\ sent' = 0 /\ acked_rows' = 0
      /\ cfg' = cfg /\ inner' = inner /\ outer' = outer /\ k2h' = k2h
      /\ attempts' = attempts
  BY DEF BuildDone, link, args
<1>2. MaxBatch' = MaxBatch /\ Window' = Window
  BY <1>1 DEF MaxBatch, Window
<1>3. RX_CREDIT_TUPLES \in Nat
  BY LinkAssumption
<1>4. ClientTypes'
  BY <1>1, <1>2, <1>3 DEF Bookkeeping, ClientTypes
<1>5. Len(inflight') = 0 /\ <<>> \in Seq(Nat)
  BY <1>1
<1>6. RowsOf(inflight', Len(inflight')) = 0
  BY <1>1, <1>5, RowsOfNone, Zenon
<1>7. Window \in Nat \ {0}
  BY ClientSizes DEF Bookkeeping, ClientTypes
<1>8. Len(inflight') <= Window /\ 0 + 0 = 0
  BY <1>5, <1>7
<1>9. WindowAccounting'
  <2> DEFINE left == RowsOf(inflight', Len(inflight'))
  <2>1. left = 0
    BY <1>6
  <2> HIDE DEF left
  <2>2. acked_rows' + left = sent'
    BY <1>1, <2>1
  <2> QED
    BY <1>2, <1>8, <2>2, Zenon DEF WindowAccounting, left
<1> QED
  BY <1>1, <1>4, <1>9 DEF Bookkeeping, ClientDone

\* The batches an ACK covers leave the queue, and its rows become acknowledged.
LEMMA AckCounts == ASSUME Bookkeeping, DataAck PROVE Bookkeeping'
<1> DEFINE n == AckedFrames(inflight, acked_rows, Head(k2h).rows_processed)
           rest == SubSeq(inflight, n + 1, Len(inflight))
           done == cpc = "probe" /\ Head(k2h).phase = "DONE"
<1>1. ClientTypes
  BY DEF Bookkeeping
<1>2. /\ cfg \in ClientConfig
      /\ MaxBatch \in Nat \ {0} /\ Window \in Nat \ {0}
      /\ sent \in Nat /\ acked_rows \in Nat
      /\ inflight \in Seq(1..MaxBatch) /\ attempts \in 0..RESET_ATTEMPTS
  BY <1>1, ClientSizes DEF ClientTypes
<1>3. inflight \in Seq(Nat) /\ Len(inflight) \in Nat
  BY <1>1, InflightNumbers
<1>4. Head(k2h).credit \in Nat /\ Head(k2h).rows_processed \in Nat
  BY <1>1, AcceptedAck DEF DataAck
<1>5. n \in 0..Len(inflight)
  BY <1>2, <1>3, <1>4, AckedFramesRange
<1>6. /\ cpc \in {"build", "probe"}
      /\ credit' = Head(k2h).credit
      /\ acked_rows' = acked_rows + RowsOf(inflight, n)
      /\ inflight' = IF done THEN <<>> ELSE rest
      /\ cfg' = cfg /\ inner' = inner /\ outer' = outer
      /\ sent' = sent /\ attempts' = attempts
  BY Zenon DEF DataAck, args
<1>7. cpc' \in {"probed", "threw", "build", "probe"} /\ (done => cpc' = "probed")
  BY DEF DataAck, LeaveAs
<1>8. k2h' \in Seq(Replies)
  BY <1>1, ReceivedRest DEF DataAck, Accepts
<1> HIDE DEF n, done
<1>9. RowsOf(inflight, n) \in Nat
  BY <1>3, <1>5, RowsOfType
<1>10. RowsOf(inflight, n) + RowsOf(rest, Len(rest)) = RowsOf(inflight, Len(inflight))
  BY <1>3, <1>5, RowsOfRest, Zenon
<1>11. rest \in Seq(1..MaxBatch) /\ rest \in Seq(Nat) /\ Len(rest) \in Nat
       /\ Len(rest) <= Len(inflight)
  <2>1. rest \in Seq(1..MaxBatch) /\ Len(rest) = Len(inflight) - n
    BY <1>2, <1>3, <1>5
  <2> HIDE DEF rest
  <2> QED
    BY <1>2, <1>3, <1>5, <2>1
<1> HIDE DEF rest
<1>12. RowsOf(rest, Len(rest)) \in Nat
  <2>1. Len(rest) \in 0..Len(rest)
    BY <1>11
  <2> QED
    BY <1>11, <2>1, RowsOfType
<1>13. MaxBatch' = MaxBatch /\ Window' = Window
  BY <1>6 DEF MaxBatch, Window
<1>14. inflight' \in Seq(1..MaxBatch)
  <2>1. <<>> \in Seq(1..MaxBatch)
    OBVIOUS
  <2> QED
    BY <1>6, <1>11, <2>1, Zenon
<1>15. acked_rows' \in Nat
  <2> DEFINE covered == RowsOf(inflight, n)
  <2>1. covered \in Nat /\ acked_rows' = acked_rows + covered
    BY <1>6, <1>9
  <2> HIDE DEF covered
  <2> QED
    BY <1>2, <2>1
<1>16. ClientTypes'
  BY <1>1, <1>2, <1>4, <1>6, <1>8, <1>13, <1>14, <1>15, Zenon DEF ClientTypes
<1>17. WindowAccounting'
  <2> SUFFICES ASSUME cpc' \in {"config", "build", "probe"}
               PROVE  /\ acked_rows' + RowsOf(inflight', Len(inflight')) = sent'
                      /\ Len(inflight') <= Window
    BY <1>13, Zenon DEF WindowAccounting
  <2>1. ~done
    BY <1>7
  <2>2. inflight' = rest
    BY <1>6, <2>1
  <2>3. acked_rows + RowsOf(inflight, Len(inflight)) = sent /\ Len(inflight) <= Window
    BY <1>6 DEF Bookkeeping, WindowAccounting
  <2> DEFINE covered == RowsOf(inflight, n)
             left == RowsOf(rest, Len(rest))
  <2>4. acked_rows + (covered + left) = sent
    BY <1>10, <2>3, Zenon
  <2>5. covered \in Nat /\ left \in Nat /\ acked_rows' = acked_rows + covered
    BY <1>6, <1>9, <1>12
  <2> HIDE DEF covered, left
  <2>6. acked_rows' + left = sent'
    <3>1. sent' = sent /\ sent \in Nat /\ acked_rows \in Nat
      BY <1>2, <1>6
    <3> QED
      BY <2>4, <2>5, <3>1
  <2>7. Len(rest) <= Window
    BY <1>2, <1>3, <1>11, <2>3
  <2> QED
    BY <2>2, <2>6, <2>7, Zenon DEF left
<1>18. cpc' # "start"
  BY <1>7
<1>19. (~ClientDone => attempts < RESET_ATTEMPTS)'
  <2>1. attempts < RESET_ATTEMPTS
    BY <1>6 DEF Bookkeeping, ClientDone
  <2> QED
    BY <1>6, <2>1, Zenon
<1> QED
  BY <1>16, <1>17, <1>18, <1>19, Zenon DEF Bookkeeping

LEMMA BookkeepingStart == Init => Bookkeeping
<1> SUFFICES ASSUME Init PROVE Bookkeeping
  OBVIOUS
<1>1. /\ cfg \in Configs /\ cpc = "start" /\ k2h = <<>>
      /\ credit = 0 /\ sent = 0 /\ inflight = <<>> /\ acked_rows = 0 /\ attempts = 0
  BY DEF Init, LinkInit, ClientIdle
<1>2. inner \in Seq(InputRows) /\ outer \in Seq(InputRows)
  <2>1. PICK in \in Inputs : inner = in.inner /\ outer = in.outer
    BY DEF Init
  <2>2. in.inner \in Seq(InputRows) /\ in.outer \in Seq(InputRows)
    BY ChaoticAssumption, Zenon
  <2> QED
    BY <2>1, <2>2, Zenon
<1>3. cfg \in ClientConfig
  BY <1>1, ChaoticAssumption
<1>4. RESET_ATTEMPTS \in Nat \ {0}
  BY ClientAssumption
<1>5. ClientTypes
  BY <1>1, <1>2, <1>3, <1>4 DEF ClientTypes
<1> QED
  BY <1>1, <1>4, <1>5 DEF Bookkeeping, WindowAccounting, ClientDone

LEMMA BookkeepingStep == Bookkeeping /\ [Next]_vars => Bookkeeping'
<1> SUFFICES ASSUME Bookkeeping, [Next]_vars PROVE Bookkeeping'
  OBVIOUS
<1>1. CASE UNCHANGED vars
  <2>1. Quiet
    BY <1>1 DEF vars, link, client, Quiet, Bookkeeping, ClientTypes, ClientDone
  <2> QED
    BY <2>1, QuietStep
<1>2. CASE Board
  BY <1>2, BoardIsQuiet, QuietStep
<1>3. CASE SendConfigure
  BY <1>3, ConfigureCounts
<1>4. CASE SendBatch
  BY <1>4, BatchCounts
<1>5. CASE BuildDone
  BY <1>5, BuildDoneCounts
<1>6. CASE DataAck
  BY <1>6, AckCounts
<1>7. CASE \/ ZeroCredit \/ CollectResult \/ CollectError \/ CollectStale \/ ConfigAck
           \/ ProbeDone \/ SendProbeEnd \/ ProbeEndAck \/ EndVerified \/ EndInferred
           \/ ResetAck \/ EndUnconfirmed \/ FinalStatus \/ HardTimeout
  BY <1>7, QuietActions, QuietStep, Zenon
<1> QED
  BY <1>1, <1>2, <1>3, <1>4, <1>5, <1>6, <1>7, Zenon
     DEF Next, Client, ClientStep, GiveUp, Finished

\* The client's counters and queues keep their types under any replies, for
\* every configuration and input and over a link with any faults.
THEOREM ClientTypeOK == Spec => []TypeOK
<1>1. Bookkeeping => TypeOK
  BY DEF Bookkeeping, ClientTypes, TypeOK
<1> QED
  BY <1>1, BookkeepingStart, BookkeepingStep, PTL DEF Spec

\* In both data phases the batches in flight are exactly the rows sent beyond
\* the acknowledged ones, and within the window, whatever row counts the
\* ACKs carry: for every window, batch size and input.
THEOREM WindowAccounted == Spec => []WindowAccounting
<1>1. Bookkeeping => WindowAccounting
  BY DEF Bookkeeping
<1> QED
  BY <1>1, BookkeepingStart, BookkeepingStep, PTL DEF Spec

-----------------------------------------------------------------------------
(***************************************************************************)
(* What a sequence of frames carries.                                      *)
(***************************************************************************)
\* f joins the sequences of ss, up to the n-th.
Joins(f, ss, n) == f[0] = <<>> /\ \A i \in 1..n : f[i] = f[i - 1] \o ss[i]

LEMMA JoinsExist ==
    ASSUME NEW S, NEW ss \in Seq(Seq(S))
    PROVE  \E f \in [0..Len(ss) -> Seq(S)] : Joins(f, ss, Len(ss))
<1> DEFINE T == {n \in 0..Len(ss) : \E f \in [0..n -> Seq(S)] : Joins(f, ss, n)}
<1>1. 0 \in T
  <2> DEFINE f == [i \in 0..0 |-> <<>>]
  <2>1. f \in [0..0 -> Seq(S)] /\ Joins(f, ss, 0)
    BY DEF Joins
  <2>2. 0 \in 0..Len(ss)
    OBVIOUS
  <2> HIDE DEF f
  <2> QED
    BY <2>1, <2>2, Zenon
<1>2. ASSUME NEW n \in 1..Len(ss), n - 1 \in T PROVE n \in T
  <2>1. PICK f \in [0..(n - 1) -> Seq(S)] : Joins(f, ss, n - 1)
    BY <1>2
  <2> DEFINE last == f[n - 1] \o ss[n]
             g == [i \in 0..n |-> IF i = n THEN last ELSE f[i]]
  <2>2. /\ n \in Nat /\ n - 1 \in 0..(n - 1) /\ ss[n] \in Seq(S) /\ f[n - 1] \in Seq(S)
        /\ f[0] = <<>> /\ \A i \in 1..(n - 1) : f[i] = f[i - 1] \o ss[i]
    <3>1. n \in Nat /\ n - 1 \in 0..(n - 1) /\ ss[n] \in Seq(S)
      OBVIOUS
    <3>2. f[n - 1] \in Seq(S)
      BY <3>1, Zenon
    <3> QED
      BY <2>1, <3>1, <3>2, Zenon DEF Joins
  <2>3. last \in Seq(S)
    BY <2>2
  <2> HIDE DEF last
  <2>4. g \in [0..n -> Seq(S)] /\ g[0] = <<>>
    BY <2>2, <2>3
  <2>5. ASSUME NEW i \in 1..n PROVE g[i] = g[i - 1] \o ss[i]
    <3>1. i \in 0..n /\ i - 1 \in 0..n /\ i - 1 # n
      BY <2>2
    <3>2. g[i - 1] = f[i - 1] /\ g[i] = IF i = n THEN last ELSE f[i]
      BY <3>1
    <3> HIDE DEF g
    <3>3. CASE i = n
      BY <3>2, <3>3 DEF last
    <3>4. CASE i # n
      <4>1. i \in 1..(n - 1)
        BY <2>2, <3>4
      <4>2. f[i] = f[i - 1] \o ss[i]
        BY <2>2, <4>1, Zenon
      <4> QED
        BY <3>2, <3>4, <4>2, Zenon
    <3> QED
      BY <3>3, <3>4
  <2> HIDE DEF g
  <2>6. Joins(g, ss, n)
    BY <2>4, <2>5, Zenon DEF Joins
  <2>7. n \in 0..Len(ss)
    OBVIOUS
  <2> QED
    BY <2>4, <2>6, <2>7
<1> HIDE DEF T
<1>3. Len(ss) \in T
  <2>1. Len(ss) \in Nat /\ Len(ss) \in 0..Len(ss)
    OBVIOUS
  <2>2. \A i \in 0..Len(ss) : i \in T
    BY <1>1, <1>2, <2>1, UpTo
  <2> QED
    BY <2>1, <2>2
<1> QED
  BY <1>3 DEF T

\* FlattenSeq is the value of any function that joins.
LEMMA FlattenJoins ==
    ASSUME NEW S, NEW ss \in Seq(Seq(S)), NEW f \in [0..Len(ss) -> Seq(S)],
           Joins(f, ss, Len(ss))
    PROVE  FlattenSeq(ss) = f[Len(ss)]
<1> DEFINE N == Len(ss)
<1>0. N \in Nat
  OBVIOUS
<1>1. CASE N = 0
  <2>1. ss = <<>> /\ f[N] = <<>>
    BY <1>1 DEF Joins
  <2>2. FlattenSeq(ss) = ss
    BY <1>1, Zenon DEF FlattenSeq
  <2> QED
    BY <2>1, <2>2, Zenon
<1>2. CASE N # 0
  <2> DEFINE flatten[i \in 1..Len(ss)] == IF i = 1 THEN ss[i] ELSE flatten[i - 1] \o ss[i]
             h == [i \in 1..Len(ss) |-> f[i]]
  <2>1. FlattenSeq(ss) = flatten[Len(ss)]
    BY <1>2 DEF FlattenSeq
  <2>2. \A i \in 1..N : f[i] = IF i = 1 THEN ss[i] ELSE h[i - 1] \o ss[i]
    <3> SUFFICES ASSUME NEW i \in 1..N
                 PROVE  f[i] = IF i = 1 THEN ss[i] ELSE h[i - 1] \o ss[i]
      OBVIOUS
    <3>1. f[i] = f[i - 1] \o ss[i] /\ f[0] = <<>> /\ ss[i] \in Seq(S)
      BY DEF Joins
    <3>2. CASE i = 1
      <4>1. i - 1 = 0
        BY <3>2
      <4>2. f[i] = <<>> \o ss[i]
        BY <3>1, <4>1, Zenon
      <4>3. <<>> \o ss[i] = ss[i]
        BY <3>1
      <4> QED
        BY <3>2, <4>2, <4>3, Zenon
    <3>3. CASE i # 1
      <4>1. i - 1 \in 1..N
        BY <1>0, <3>3
      <4>2. h[i - 1] = f[i - 1]
        BY <4>1
      <4> QED
        BY <3>1, <3>3, <4>2, Zenon
    <3> QED
      BY <3>2, <3>3
  <2>3. h = [i \in 1..Len(ss) |-> IF i = 1 THEN ss[i] ELSE h[i - 1] \o ss[i]]
    BY <2>2, Zenon
  <2> HIDE DEF h
  <2>4. flatten = [i \in 1..Len(ss) |-> IF i = 1 THEN ss[i] ELSE flatten[i - 1] \o ss[i]]
    BY <2>3, Zenon
  <2> HIDE DEF flatten
  <2>5. \A i \in 1..N : flatten[i] = IF i = 1 THEN ss[i] ELSE flatten[i - 1] \o ss[i]
    BY <2>4, Zenon
  <2>6. \A i \in 1..N : f[i] = IF i = 1 THEN ss[i] ELSE f[i - 1] \o ss[i]
    <3> SUFFICES ASSUME NEW i \in 1..N
                 PROVE  f[i] = IF i = 1 THEN ss[i] ELSE f[i - 1] \o ss[i]
      OBVIOUS
    <3>1. CASE i = 1
      BY <2>2, <3>1, Zenon
    <3>2. CASE i # 1
      BY <3>2 DEF Joins
    <3> QED
      BY <3>1, <3>2
  <2> DEFINE T == {i \in 0..N : i = 0 \/ flatten[i] = f[i]}
  <2>7. 0 \in T
    BY <1>0
  <2>8. ASSUME NEW i \in 1..N, i - 1 \in T PROVE i \in T
    <3>1. i \in 0..N
      OBVIOUS
    <3>2. CASE i = 1
      <4>1. flatten[i] = f[i]
        BY <2>5, <2>6, <3>2, Zenon
      <4> QED
        BY <3>1, <4>1
    <3>3. CASE i # 1
      <4>1. i - 1 # 0
        BY <3>3
      <4>2. flatten[i - 1] = f[i - 1]
        BY <2>8, <4>1
      <4>3. flatten[i] = f[i]
        BY <2>5, <2>6, <3>3, <4>2, Zenon
      <4> QED
        BY <3>1, <4>3
    <3> QED
      BY <3>2, <3>3
  <2> HIDE DEF T
  <2>9. \A i \in 0..N : i \in T
    BY <1>0, <2>7, <2>8, UpTo
  <2>10. N \in T /\ N # 0
    BY <1>0, <1>2, <2>9
  <2>11. flatten[N] = f[N]
    BY <2>10 DEF T
  <2> QED
    BY <2>1, <2>11, Zenon
<1> QED
  BY <1>1, <1>2

\* One more sequence comes last.
LEMMA FlattenAppend ==
    ASSUME NEW S, NEW ss \in Seq(Seq(S)), NEW s \in Seq(S)
    PROVE  /\ FlattenSeq(ss) \in Seq(S)
           /\ FlattenSeq(Append(ss, s)) = FlattenSeq(ss) \o s
<1> DEFINE N == Len(ss)
           tt == Append(ss, s)
<1>1. N \in Nat /\ N \in 0..N /\ tt \in Seq(Seq(S)) /\ Len(tt) = N + 1 /\ tt[N + 1] = s
      /\ \A i \in 1..N : tt[i] = ss[i]
  OBVIOUS
<1>2. PICK f \in [0..N -> Seq(S)] : Joins(f, ss, N)
  BY JoinsExist
<1>3. FlattenSeq(ss) = f[N] /\ f[N] \in Seq(S)
  BY <1>1, <1>2, FlattenJoins
<1>4. PICK g \in [0..Len(tt) -> Seq(S)] : Joins(g, tt, Len(tt))
  BY <1>1, JoinsExist
<1>5. FlattenSeq(tt) = g[Len(tt)]
  <2> HIDE DEF tt
  <2> QED
    BY <1>1, <1>4, FlattenJoins
<1> HIDE DEF tt
<1>6. /\ g[0] = <<>> /\ f[0] = <<>>
      /\ \A i \in 1..(N + 1) : g[i] = g[i - 1] \o tt[i]
      /\ \A i \in 1..N : f[i] = f[i - 1] \o ss[i]
  BY <1>1, <1>2, <1>4, Zenon DEF Joins
<1> DEFINE T == {i \in 0..N : g[i] = f[i]}
<1>7. 0 \in T
  BY <1>1, <1>6
<1>8. ASSUME NEW i \in 1..N, i - 1 \in T PROVE i \in T
  <2>1. i \in 0..N /\ i \in 1..(N + 1)
    BY <1>1
  <2>2. g[i - 1] = f[i - 1]
    BY <1>8
  <2>3. g[i] = f[i]
    BY <1>1, <1>6, <2>1, <2>2, Zenon
  <2> QED
    BY <2>1, <2>3
<1> HIDE DEF T
<1>9. \A i \in 0..N : i \in T
  BY <1>1, <1>7, <1>8, UpTo
<1>10. g[N] = f[N]
  BY <1>1, <1>9 DEF T
<1>11. N + 1 \in 1..(N + 1) /\ (N + 1) - 1 = N
  BY <1>1
<1>12. g[N + 1] = g[N] \o s
  BY <1>1, <1>6, <1>11, Zenon
<1> QED
  BY <1>1, <1>3, <1>5, <1>10, <1>12, Zenon DEF tt

\* The rows of one frame, and of a sequence of frames, of a type.
Carried(f, type) == IF f.type = type THEN f.rows ELSE <<>>
RowsIn(h, type) == FlattenSeq([i \in DOMAIN h |-> Carried(h[i], type)])

\* Frames whose rows of that type are members of S.
AllCarry(F, type, S) == \A f \in F : Carried(f, type) \in Seq(S)

LEMMA RowsInNone == ASSUME NEW type PROVE RowsIn(<<>>, type) = <<>>
BY DEF RowsIn, FlattenSeq

LEMMA AsSequence ==
    ASSUME NEW S, NEW n \in Nat, NEW s \in [1..n -> S]
    PROVE  s \in Seq(S) /\ Len(s) = n
OBVIOUS

LEMMA RowsInAppend ==
    ASSUME NEW S, NEW type, NEW F, NEW h \in Seq(F), NEW f \in F,
           AllCarry(F, type, S)
    PROVE  /\ RowsIn(h, type) \in Seq(S)
           /\ RowsIn(h \o <<f>>, type) = RowsIn(h, type) \o Carried(f, type)
<1> DEFINE c(g) == Carried(g, type)
           ss == [i \in DOMAIN h |-> c(h[i])]
           tt == [i \in DOMAIN (h \o <<f>>) |-> c((h \o <<f>>)[i])]
<1>1. \A g \in F : c(g) \in Seq(S)
  BY DEF AllCarry
<1> HIDE DEF c
<1>2. ss \in Seq(Seq(S)) /\ Len(ss) = Len(h) /\ c(f) \in Seq(S)
  <2>1. DOMAIN h = 1..Len(h) /\ Len(h) \in Nat /\ \A i \in 1..Len(h) : h[i] \in F
    OBVIOUS
  <2>2. ss \in [1..Len(h) -> Seq(S)] /\ c(f) \in Seq(S)
    BY <1>1, <2>1, Zenon
  <2> HIDE DEF ss
  <2> QED
    BY <2>1, <2>2, AsSequence
<1>3. tt = Append(ss, c(f))
  <2>1. h \o <<f>> \in Seq(F) /\ Len(h \o <<f>>) = Len(h) + 1
        /\ DOMAIN (h \o <<f>>) = 1..(Len(h) + 1) /\ (h \o <<f>>)[Len(h) + 1] = f
        /\ \A i \in 1..Len(h) : (h \o <<f>>)[i] = h[i]
    OBVIOUS
  <2>2. Len(h) \in Nat /\ \A i \in 1..Len(h) : ss[i] = c(h[i])
    OBVIOUS
  <2>3. /\ DOMAIN Append(ss, c(f)) = 1..(Len(h) + 1)
        /\ Append(ss, c(f))[Len(h) + 1] = c(f)
        /\ \A i \in 1..Len(h) : Append(ss, c(f))[i] = ss[i]
    <3> HIDE DEF ss
    <3> QED
      BY <1>2
  <2>4. \A i \in 1..(Len(h) + 1) : c((h \o <<f>>)[i]) = Append(ss, c(f))[i]
    <3> SUFFICES ASSUME NEW i \in 1..(Len(h) + 1)
                 PROVE  c((h \o <<f>>)[i]) = Append(ss, c(f))[i]
      OBVIOUS
    <3> HIDE DEF ss
    <3>1. CASE i = Len(h) + 1
      BY <2>1, <2>3, <3>1, Zenon
    <3>2. CASE i # Len(h) + 1
      <4>1. i \in 1..Len(h)
        BY <2>2, <3>2
      <4> QED
        BY <2>1, <2>2, <2>3, <4>1, Zenon
    <3> QED
      BY <3>1, <3>2
  <2>5. Append(ss, c(f)) = [i \in 1..(Len(h) + 1) |-> Append(ss, c(f))[i]]
    <3> DEFINE a == Append(ss, c(f))
    <3>1. a \in Seq(Seq(S)) /\ DOMAIN a = 1..(Len(h) + 1)
      <4> HIDE DEF ss
      <4> QED
        BY <1>2, <2>3
    <3> HIDE DEF a
    <3>2. a = [i \in DOMAIN a |-> a[i]]
      BY <3>1
    <3> QED
      BY <3>1, <3>2, Zenon DEF a
  <2> QED
    BY <2>1, <2>4, <2>5, Zenon
<1>4. RowsIn(h, type) = FlattenSeq(ss) /\ RowsIn(h \o <<f>>, type) = FlattenSeq(tt)
  BY Zenon DEF RowsIn, c
<1>5. FlattenSeq(ss) \in Seq(S) /\ FlattenSeq(Append(ss, c(f))) = FlattenSeq(ss) \o c(f)
  <2> HIDE DEF ss
  <2> QED
    BY <1>2, FlattenAppend
<1> HIDE DEF ss, tt
<1> QED
  BY <1>3, <1>4, <1>5, Zenon DEF c

-----------------------------------------------------------------------------
(***************************************************************************)
(* What the client has sent.  Over a link that neither drops nor           *)
(* duplicates, h2k is the record of it.                                    *)
(***************************************************************************)
Faultless == MaxDrops = 0 /\ MaxDups = 0

\* Every frame run_hash_join may send.
HostFrames ==
    {ConfigureFrame(algorithm, Len(inner), Len(outer), active_session_id), ResetFrame}
    \cup {DataFrame("INNER_DATA", rows) : rows \in Seq(InputRows)}
    \cup {DataFrame("OUTER_DATA", rows) : rows \in Seq(InputRows)}

Record ==
    /\ drops = 0 /\ dups = 0
    /\ h2k \in Seq(HostFrames)
    /\ cpc = "start" => h2k = <<>>

\* Before the probe phase the rows sent are the first inner rows and no outer
\* ones; during it they are all inner rows and the first outer ones.
RowsRecorded ==
    /\ RowsSentInOrder
    /\ cpc \in {"start", "config", "build"} =>
           /\ sent <= Len(inner) /\ RowsSent("INNER_DATA") = SubSeq(inner, 1, sent)
           /\ RowsSent("OUTER_DATA") = <<>>
    /\ cpc = "probe" =>
           sent <= Len(outer) /\ RowsSent("OUTER_DATA") = SubSeq(outer, 1, sent)
    /\ cpc \notin {"start", "config", "build", "threw"} => RowsSent("INNER_DATA") = inner

\* The frames of h that are RESETs.
Resets(h) == {i \in DOMAIN h : h[i].type = "RESET"}

\* No RESET is sent before the wait for its ACK or the end, and the wait is
\* there only for an inferred DONE.
ResetsRecorded ==
    /\ ResetOnceOnExit
    /\ cpc \notin {"reset", "returned", "threw"} => Resets(h2k) = {}
    /\ cpc = "reset" => Resets(h2k) # {} /\ cfg.infer_done_from_probe_ack

\* A call of send arrives once.
LEMMA HostSendsOnce ==
    ASSUME Faultless, drops = 0, dups = 0, NEW S, h2k \in Seq(S), NEW d \in Seq(S), HostSends(d)
    PROVE  h2k' = h2k \o d /\ drops' = 0 /\ dups' = 0
<1>1. PICK n \in Copies : Faults(<<n>>) /\ h2k' = Transmit(h2k, <<d>>, <<n>>)
  BY DEF HostSends
<1>2. n = 1
  BY DEF Copies, Faultless
<1>3. n \in {0, 1, 2}
  BY <1>2
<1>4. h2k' = h2k \o d
  BY <1>1, <1>2, <1>3, TransmitOne, Zenon
<1>5. {i \in DOMAIN <<n>> : (<<n>>)[i] = 0} = {} /\ {i \in DOMAIN <<n>> : (<<n>>)[i] = 2} = {}
  BY <1>2
<1>6. Cardinality({}) = 0
  BY FS_EmptySet
<1>7. drops' = 0 + Cardinality({}) /\ dups' = 0 + Cardinality({})
  BY <1>1, <1>5, Zenon DEF Faults
<1> QED
  BY <1>4, <1>6, <1>7

\* So does a frame of the board.
LEMMA BoardSendsOnce ==
    ASSUME Faultless, drops = 0, dups = 0, Board
    PROVE  drops' = 0 /\ dups' = 0
<1>1. PICK f \in Replies : KernelSends(<<f>>)
  BY DEF Board
<1>2. PICK copies \in [DOMAIN <<f>> -> Copies] : Faults(copies)
  BY <1>1, Zenon DEF KernelSends
<1>3. Copies = {1}
  BY DEF Copies, Faultless
<1>4. \A i \in DOMAIN copies : copies[i] = 1
  BY <1>2, <1>3, Zenon
<1>5. {i \in DOMAIN copies : copies[i] = 0} = {} /\ {i \in DOMAIN copies : copies[i] = 2} = {}
  BY <1>4
<1>6. Cardinality({}) = 0
  BY FS_EmptySet
<1>7. drops' = 0 + Cardinality({}) /\ dups' = 0 + Cardinality({})
  BY <1>2, <1>5, Zenon DEF Faults
<1> QED
  BY <1>6, <1>7

LEMMA HostFrameTypes ==
    /\ ConfigureFrame(algorithm, Len(inner), Len(outer), active_session_id) \in HostFrames
    /\ ResetFrame \in HostFrames
    /\ \A type \in {"INNER_DATA", "OUTER_DATA"}, rows \in Seq(InputRows) :
           DataFrame(type, rows) \in HostFrames
    /\ \A f \in HostFrames, type \in {"INNER_DATA", "OUTER_DATA"} :
           Carried(f, type) \in Seq(InputRows)
<1>1. ConfigureFrame(algorithm, Len(inner), Len(outer), active_session_id).type = "CONFIGURE"
  BY DEF ConfigureFrame
<1>2. ResetFrame.type = "RESET"
  BY DEF ResetFrame
<1>3. \A t, rows : DataFrame(t, rows).type = t /\ DataFrame(t, rows).rows = rows
  BY DEF DataFrame
<1>4. <<>> \in Seq(InputRows)
  OBVIOUS
<1>5. ASSUME NEW f \in HostFrames, NEW type \in {"INNER_DATA", "OUTER_DATA"}
      PROVE  Carried(f, type) \in Seq(InputRows)
  <2>1. CASE f = ConfigureFrame(algorithm, Len(inner), Len(outer), active_session_id)
    <3>1. f.type # type
      BY <1>1, <2>1
    <3> QED
      BY <1>4, <3>1, Zenon DEF Carried
  <2>2. CASE f = ResetFrame
    <3>1. f.type # type
      BY <1>2, <2>2
    <3> QED
      BY <1>4, <3>1, Zenon DEF Carried
  <2>3. ASSUME NEW t \in {"INNER_DATA", "OUTER_DATA"}, NEW rows \in Seq(InputRows),
               f = DataFrame(t, rows)
        PROVE  Carried(f, type) \in Seq(InputRows)
    <3>1. f.rows \in Seq(InputRows)
      BY <1>3, <2>3, Zenon
    <3> QED
      BY <1>4, <3>1, Zenon DEF Carried
  <2> QED
    BY <2>1, <2>2, <2>3, Zenon DEF HostFrames
<1>6. \A type \in {"INNER_DATA", "OUTER_DATA"}, rows \in Seq(InputRows) :
         DataFrame(type, rows) \in HostFrames
  BY Zenon DEF HostFrames
<1> QED
  BY <1>5, <1>6, Zenon DEF HostFrames

\* The rows of a frame that is sent come last.
LEMMA SentRows ==
    ASSUME Record, NEW f \in HostFrames, NEW type \in {"INNER_DATA", "OUTER_DATA"}
    PROVE  /\ RowsSent(type) \in Seq(InputRows)
           /\ RowsIn(h2k \o <<f>>, type) = RowsSent(type) \o Carried(f, type)
<1>1. h2k \in Seq(HostFrames) /\ AllCarry(HostFrames, type, InputRows)
  BY HostFrameTypes, Zenon DEF Record, AllCarry
<1>2. RowsSent(type) = RowsIn(h2k, type)
  BY DEF RowsSent, RowsIn, Carried
<1>3. /\ RowsIn(h2k, type) \in Seq(InputRows)
      /\ RowsIn(h2k \o <<f>>, type) = RowsIn(h2k, type) \o Carried(f, type)
  BY <1>1, RowsInAppend, Zenon
<1> QED
  BY <1>2, <1>3, Zenon

LEMMA RowsSentNext == \A type : RowsSent(type)' = RowsIn(h2k', type)
BY DEF RowsSent, RowsIn, Carried

\* A step that sends no rows.
LEMMA RowsKept ==
    ASSUME Record, RowsRecorded, UNCHANGED <<inner, outer, sent>>,
           \/ h2k' = h2k
           \/ \E f \in HostFrames : /\ Carried(f, "INNER_DATA") = <<>>
                                    /\ Carried(f, "OUTER_DATA") = <<>>
                                    /\ h2k' = h2k \o <<f>>,
           cpc' \in {"start", "config", "build"} => cpc \in {"start", "config", "build"},
           cpc' = "probe" => cpc = "probe",
           cpc' \notin {"start", "config", "build", "threw"} =>
               cpc \notin {"start", "config", "build", "threw"}
    PROVE  RowsRecorded'
<1>1. ASSUME NEW type \in {"INNER_DATA", "OUTER_DATA"} PROVE RowsSent(type)' = RowsSent(type)
  <2>1. CASE h2k' = h2k
    BY <2>1, Zenon DEF RowsSent
  <2>2. ASSUME NEW f \in HostFrames, Carried(f, type) = <<>>, h2k' = h2k \o <<f>>
        PROVE  RowsSent(type)' = RowsSent(type)
    <3>1. RowsSent(type) \in Seq(InputRows) /\ RowsSent(type)' = RowsSent(type) \o <<>>
      BY <2>2, SentRows, RowsSentNext, Zenon
    <3> HIDE DEF RowsSent
    <3>2. \A s \in Seq(InputRows) : s \o <<>> = s
      OBVIOUS
    <3> QED
      BY <3>1, <3>2, Zenon
  <2> QED
    BY <2>1, <2>2, Zenon
<1>2. /\ RowsSent("INNER_DATA")' = RowsSent("INNER_DATA")
      /\ RowsSent("OUTER_DATA")' = RowsSent("OUTER_DATA")
  BY <1>1, Zenon
<1>3. inner' = inner /\ outer' = outer /\ sent' = sent
  OBVIOUS
<1>4. cpc' = "returned" => RowsSent("INNER_DATA") = inner
  BY DEF RowsRecorded
<1>5. RowsSentInOrder'
  BY <1>2, <1>3, <1>4, Zenon DEF RowsRecorded, RowsSentInOrder
<1> QED
  BY <1>2, <1>3, <1>5, Zenon DEF RowsRecorded

\* The first n rows are a prefix, and the next b rows extend it.
LEMMA FirstRows ==
    ASSUME NEW S, NEW s \in Seq(S), NEW n \in 0..Len(s)
    PROVE  IsPrefix(SubSeq(s, 1, n), s) /\ SubSeq(s, 1, n) \in Seq(S)
<1>1. n \in Nat /\ Len(s) \in Nat /\ n <= Len(s)
  OBVIOUS
<1> DEFINE p == SubSeq(s, 1, n)
<1>2. p \in Seq(S) /\ Len(p) = n
  BY <1>1
<1>3. SubSeq(p, 1, Len(p)) = p
  <2> HIDE DEF p
  <2> QED
    BY <1>2, SubSeqFull
<1>4. SubSeq(s, 1, Len(p)) = p /\ Len(p) <= Len(s)
  BY <1>1, <1>2, Zenon
<1> HIDE DEF p
<1>5. IsPrefix(p, s)
  BY <1>3, <1>4, Zenon DEF IsPrefix
<1> QED
  BY <1>2, <1>5 DEF p

LEMMA NextBatch ==
    ASSUME NEW S, NEW s \in Seq(S), NEW n \in Nat, NEW b \in Nat, n + b <= Len(s)
    PROVE  /\ SubSeq(s, n + 1, n + b) \in Seq(S)
           /\ SubSeq(s, 1, n) \o SubSeq(s, n + 1, n + b) = SubSeq(s, 1, n + b)
<1>1. Len(s) \in Nat
  OBVIOUS
<1> DEFINE p == SubSeq(s, 1, n)
           q == SubSeq(s, n + 1, n + b)
           r == SubSeq(s, 1, n + b)
<1>2. /\ p \in Seq(S) /\ Len(p) = n /\ \A i \in 1..n : p[i] = s[i]
  BY <1>1
<1>3. q \in Seq(S) /\ Len(q) = b /\ \A i \in 1..b : q[i] = s[n + i]
  BY <1>1
<1>4. r \in Seq(S) /\ Len(r) = n + b /\ \A i \in 1..(n + b) : r[i] = s[i]
  BY <1>1
<1> HIDE DEF p, q, r
<1>5. p \o q \in Seq(S) /\ Len(p \o q) = n + b
  <2>1. p \in Seq(S) /\ q \in Seq(S) /\ Len(p) = n /\ Len(q) = b
    BY <1>2, <1>3
  <2> QED
    BY <2>1
<1>6. ASSUME NEW i \in 1..(n + b) PROVE (p \o q)[i] = r[i]
  <2>1. CASE i <= n
    <3>1. i \in 1..n
      BY <2>1
    <3>2. (p \o q)[i] = p[i]
      BY <1>2, <1>3, <3>1
    <3> QED
      BY <1>2, <1>4, <3>1, <3>2, Zenon
  <2>2. CASE ~(i <= n)
    <3>1. i - n \in 1..b /\ n + (i - n) = i
      BY <2>2
    <3>2. (p \o q)[i] = q[i - n]
      BY <1>2, <1>3, <2>2
    <3>3. q[i - n] = s[n + (i - n)]
      BY <1>3, <3>1, Zenon
    <3> QED
      BY <1>4, <3>1, <3>2, <3>3, Zenon
  <2> QED
    BY <2>1, <2>2
<1> DEFINE pq == p \o q
<1>7. pq \in Seq(S) /\ Len(pq) = n + b /\ \A i \in 1..(n + b) : pq[i] = r[i]
  BY <1>5, <1>6, Zenon
<1> HIDE DEF pq
<1>8. pq = r
  BY <1>4, <1>7
<1> QED
  BY <1>3, <1>8, Zenon DEF pq, p, q, r

\* The rows of the frames.
LEMMA CarriedRows ==
    /\ \A rows : /\ Carried(DataFrame("INNER_DATA", rows), "INNER_DATA") = rows
                 /\ Carried(DataFrame("INNER_DATA", rows), "OUTER_DATA") = <<>>
                 /\ Carried(DataFrame("OUTER_DATA", rows), "OUTER_DATA") = rows
                 /\ Carried(DataFrame("OUTER_DATA", rows), "INNER_DATA") = <<>>
    /\ \A type \in {"INNER_DATA", "OUTER_DATA"} : Carried(ResetFrame, type) = <<>>
    /\ \A a, i, o, id : \A type \in {"INNER_DATA", "OUTER_DATA"} :
           Carried(ConfigureFrame(a, i, o, id), type) = <<>>
<1>1. \A t, rows : DataFrame(t, rows).type = t /\ DataFrame(t, rows).rows = rows
  BY DEF DataFrame
<1>2. ResetFrame.type = "RESET"
  BY DEF ResetFrame
<1>3. \A a, i, o, id : ConfigureFrame(a, i, o, id).type = "CONFIGURE"
  BY DEF ConfigureFrame
<1>4. "INNER_DATA" # "OUTER_DATA" /\ "RESET" \notin {"INNER_DATA", "OUTER_DATA"}
      /\ "CONFIGURE" \notin {"INNER_DATA", "OUTER_DATA"}
  OBVIOUS
<1>5. ASSUME NEW rows
      PROVE  /\ Carried(DataFrame("INNER_DATA", rows), "INNER_DATA") = rows
             /\ Carried(DataFrame("INNER_DATA", rows), "OUTER_DATA") = <<>>
             /\ Carried(DataFrame("OUTER_DATA", rows), "OUTER_DATA") = rows
             /\ Carried(DataFrame("OUTER_DATA", rows), "INNER_DATA") = <<>>
  <2>1. /\ DataFrame("INNER_DATA", rows).type = "INNER_DATA"
        /\ DataFrame("INNER_DATA", rows).rows = rows
        /\ DataFrame("OUTER_DATA", rows).type = "OUTER_DATA"
        /\ DataFrame("OUTER_DATA", rows).rows = rows
    BY <1>1, Zenon
  <2> QED
    BY <1>4, <2>1, Zenon DEF Carried
<1>6. \A type \in {"INNER_DATA", "OUTER_DATA"} : Carried(ResetFrame, type) = <<>>
  BY <1>2, <1>4, Zenon DEF Carried
<1>7. ASSUME NEW a, NEW i, NEW o, NEW id, NEW type \in {"INNER_DATA", "OUTER_DATA"}
      PROVE  Carried(ConfigureFrame(a, i, o, id), type) = <<>>
  <2>1. ConfigureFrame(a, i, o, id).type # type
    BY <1>3, <1>4, Zenon
  <2> QED
    BY <2>1, Zenon DEF Carried
<1> QED
  BY <1>5, <1>6, <1>7, Zenon

\* A batch of the build or the probe phase.
LEMMA BatchRows ==
    ASSUME Faultless, Bookkeeping, Record, RowsRecorded, SendBatch
    PROVE  RowsRecorded' /\ Record' /\ \E f : f.type # "RESET" /\ h2k' = h2k \o <<f>>
<1> DEFINE batch == Min({credit, MaxBatch, Len(Rows) - sent})
           type == IF cpc = "build" THEN "INNER_DATA" ELSE "OUTER_DATA"
           rows == NextRows(batch)
<1>1. ClientTypes
  BY DEF Bookkeeping
<1>2. /\ MaxBatch \in Nat /\ credit \in Nat /\ sent \in Nat
      /\ inner \in Seq(InputRows) /\ outer \in Seq(InputRows)
  BY <1>1, ClientSizes DEF ClientTypes
<1>3. cpc \in {"build", "probe"} /\ sent < Len(Rows)
  BY DEF SendBatch, CanSend
<1>4. Rows \in Seq(InputRows) /\ Len(Rows) \in Nat
  BY <1>2 DEF Rows
<1>5. batch \in Nat /\ sent + batch <= Len(Rows) /\ sent + batch \in 0..Len(Rows)
  <2>1. Len(Rows) - sent \in Nat
    BY <1>2, <1>3, <1>4
  <2>2. batch \in {credit, MaxBatch, Len(Rows) - sent} /\ batch <= Len(Rows) - sent
    BY <1>2, <2>1, MinOfThree
  <2> HIDE DEF batch
  <2> QED
    BY <1>2, <1>4, <2>1, <2>2
<1>6. /\ HostSends(<<DataFrame(type, rows)>>) /\ sent' = sent + batch /\ cpc' = cpc
      /\ inner' = inner /\ outer' = outer /\ algorithm' = algorithm
      /\ active_session_id' = active_session_id
  BY Zenon DEF SendBatch, args
<1> HIDE DEF batch
<1>7. rows \in Seq(InputRows) /\ SubSeq(Rows, 1, sent) \o rows = SubSeq(Rows, 1, sent + batch)
  BY <1>2, <1>4, <1>5, NextBatch, Zenon DEF NextRows
<1> HIDE DEF rows
<1>8. DataFrame(type, rows) \in HostFrames /\ DataFrame(type, rows).type # "RESET"
  <2>1. type \in {"INNER_DATA", "OUTER_DATA"}
    OBVIOUS
  <2>2. DataFrame(type, rows).type = type
    BY DEF DataFrame
  <2> QED
    BY <1>7, <2>1, <2>2, HostFrameTypes, Zenon
<1> DEFINE f == DataFrame(type, rows)
<1> HIDE DEF f
<1>9. h2k' = h2k \o <<f>> /\ drops' = 0 /\ dups' = 0 /\ f \in HostFrames /\ f.type # "RESET"
  <2>1. h2k \in Seq(HostFrames) /\ drops = 0 /\ dups = 0
    BY DEF Record
  <2>2. HostSends(<<f>>) /\ f \in HostFrames /\ f.type # "RESET"
    BY <1>6, <1>8 DEF f
  <2>3. <<f>> \in Seq(HostFrames)
    BY <2>2
  <2> QED
    BY <2>1, <2>2, <2>3, HostSendsOnce, Zenon
<1>10. Record'
  <2>1. HostFrames' = HostFrames
    BY <1>6, Zenon DEF HostFrames
  <2>2. h2k' \in Seq(HostFrames)
    <3>1. h2k \in Seq(HostFrames)
      BY DEF Record
    <3> QED
      BY <1>9, <3>1
  <2>3. cpc' # "start"
    BY <1>3, <1>6
  <2> QED
    BY <1>9, <2>1, <2>2, <2>3, Zenon DEF Record
<1>11. /\ RowsSent("INNER_DATA")' = RowsSent("INNER_DATA") \o Carried(f, "INNER_DATA")
       /\ RowsSent("OUTER_DATA")' = RowsSent("OUTER_DATA") \o Carried(f, "OUTER_DATA")
       /\ RowsSent("INNER_DATA") \in Seq(InputRows)
       /\ RowsSent("OUTER_DATA") \in Seq(InputRows)
  BY <1>9, SentRows, RowsSentNext, Zenon
<1>12. RowsRecorded'
  <2>1. CASE cpc = "build"
    <3>1. Rows = inner /\ f = DataFrame("INNER_DATA", rows)
      BY <2>1 DEF Rows, f
    <3>2. RowsSent("INNER_DATA") = SubSeq(inner, 1, sent) /\ RowsSent("OUTER_DATA") = <<>>
      BY <2>1 DEF RowsRecorded
    <3>3. Carried(f, "INNER_DATA") = rows /\ Carried(f, "OUTER_DATA") = <<>>
      BY <3>1, CarriedRows, Zenon
    <3>4. RowsSent("INNER_DATA")' = SubSeq(inner, 1, sent + batch)
      BY <1>7, <1>11, <3>1, <3>2, <3>3, Zenon
    <3>5. <<>> \o <<>> = <<>>
      OBVIOUS
    <3>6. RowsSent("OUTER_DATA")' = <<>>
      BY <1>11, <3>2, <3>3, <3>5, Zenon
    <3>7. /\ sent + batch <= Len(inner)
          /\ IsPrefix(SubSeq(inner, 1, sent + batch), inner)
      BY <1>2, <1>5, <3>1, FirstRows, Zenon
    <3>8. IsPrefix(<<>>, outer)
      BY <1>2 DEF IsPrefix
    <3>9. cpc' = "build" /\ "build" # "returned" /\ "build" # "probe"
      BY <1>6, <2>1
    <3>10. RowsSentInOrder'
      BY <1>6, <3>4, <3>6, <3>7, <3>8, <3>9, Zenon DEF RowsSentInOrder
    <3> QED
      BY <1>6, <3>4, <3>6, <3>7, <3>9, <3>10, Zenon DEF RowsRecorded
  <2>2. CASE cpc = "probe"
    <3>1. Rows = outer /\ f = DataFrame("OUTER_DATA", rows)
      BY <2>2 DEF Rows, f
    <3>2. RowsSent("OUTER_DATA") = SubSeq(outer, 1, sent) /\ RowsSent("INNER_DATA") = inner
      BY <2>2 DEF RowsRecorded
    <3>3. Carried(f, "OUTER_DATA") = rows /\ Carried(f, "INNER_DATA") = <<>>
      BY <3>1, CarriedRows, Zenon
    <3>4. RowsSent("OUTER_DATA")' = SubSeq(outer, 1, sent + batch)
      BY <1>7, <1>11, <3>1, <3>2, <3>3, Zenon
    <3>5. inner \o <<>> = inner
      BY <1>2
    <3>6. RowsSent("INNER_DATA")' = inner
      BY <1>11, <3>2, <3>3, <3>5, Zenon
    <3>7. /\ sent + batch <= Len(outer)
          /\ IsPrefix(SubSeq(outer, 1, sent + batch), outer)
      BY <1>2, <1>5, <3>1, FirstRows, Zenon
    <3>8. IsPrefix(inner, inner)
      BY <1>2 DEF IsPrefix
    <3>9. cpc' = "probe" /\ "probe" \notin {"start", "config", "build"}
      BY <1>6, <2>2
    <3>10. RowsSentInOrder'
      BY <1>6, <3>4, <3>6, <3>7, <3>8, <3>9, Zenon DEF RowsSentInOrder
    <3> QED
      BY <1>6, <3>4, <3>6, <3>7, <3>9, <3>10, Zenon DEF RowsRecorded
  <2> QED
    BY <1>3, <2>1, <2>2
<1> QED
  BY <1>9, <1>10, <1>12, Zenon

LEMMA TwoFrames == ASSUME NEW F, NEW a \in F, NEW b \in F PROVE <<a>> \o <<b>> = <<a, b>>
<1> DEFINE s == <<a>> \o <<b>>
           t == <<a, b>>
<1>1. s \in Seq(F) /\ Len(s) = 2 /\ s[1] = a /\ s[2] = b
  OBVIOUS
<1>2. t \in Seq(F) /\ Len(t) = 2 /\ t[1] = a /\ t[2] = b
  OBVIOUS
<1> HIDE DEF s, t
<1>3. \A i \in 1..2 : s[i] = t[i]
  BY <1>1, <1>2
<1>4. s = t
  BY <1>1, <1>2, <1>3
<1> QED
  BY <1>4 DEF s, t

\* The CONFIGURE, alone or with the first batch.
LEMMA ConfigureRows ==
    ASSUME Faultless, Bookkeeping, Record, RowsRecorded, SendConfigure
    PROVE  RowsRecorded' /\ Record' /\ Resets(h2k') = {}
<1> DEFINE first == IF cfg.coalesce_config_first_inner
                    THEN Min({RX_BUF_TUPLES, MaxBatch, Len(inner)}) ELSE 0
           configure == ConfigureFrame(algorithm, Len(inner), Len(outer), active_session_id)
           rows == SubSeq(inner, 1, first)
           data == DataFrame("INNER_DATA", rows)
<1>1. ClientTypes
  BY DEF Bookkeeping
<1>2. MaxBatch \in Nat /\ inner \in Seq(InputRows) /\ outer \in Seq(InputRows)
      /\ RX_BUF_TUPLES \in Nat /\ Len(inner) \in Nat
  BY <1>1, ClientSizes, LinkAssumption DEF ClientTypes
<1>3. first \in 0..Len(inner)
  <2> DEFINE m == Min({RX_BUF_TUPLES, MaxBatch, Len(inner)})
  <2>1. m \in {RX_BUF_TUPLES, MaxBatch, Len(inner)} /\ m <= Len(inner)
    BY <1>2, MinOfThree
  <2> HIDE DEF m
  <2>2. m \in 0..Len(inner)
    BY <1>2, <2>1
  <2> QED
    BY <1>2, <2>2 DEF m
<1>4. /\ cpc = "start" /\ cpc' = "config" /\ sent' = first
      /\ HostSends(IF first = 0 THEN <<configure>> ELSE <<configure, data>>)
      /\ inner' = inner /\ outer' = outer /\ algorithm' = algorithm
      /\ active_session_id' = active_session_id
  BY Zenon DEF SendConfigure, args
<1> HIDE DEF first
<1>5. rows \in Seq(InputRows) /\ IsPrefix(rows, inner)
  BY <1>2, <1>3, FirstRows
<1>6. /\ configure \in HostFrames /\ configure.type = "CONFIGURE"
      /\ Carried(configure, "INNER_DATA") = <<>> /\ Carried(configure, "OUTER_DATA") = <<>>
  <2>1. configure.type = "CONFIGURE"
    BY DEF ConfigureFrame
  <2>2. configure \in HostFrames
    BY HostFrameTypes, Zenon
  <2> HIDE DEF configure
  <2>3. configure.type # "INNER_DATA" /\ configure.type # "OUTER_DATA"
    BY <2>1
  <2> QED
    BY <2>1, <2>2, <2>3, Zenon DEF Carried
<1>7. /\ data \in HostFrames /\ data.type = "INNER_DATA"
      /\ Carried(data, "INNER_DATA") = rows /\ Carried(data, "OUTER_DATA") = <<>>
  <2>1. data.type = "INNER_DATA"
    BY DEF DataFrame
  <2> QED
    BY <1>5, <2>1, HostFrameTypes, CarriedRows, Zenon
<1> HIDE DEF configure, data
<1>8. h2k = <<>> /\ h2k \in Seq(HostFrames) /\ drops = 0 /\ dups = 0
  BY <1>4 DEF Record
<1>9. HostFrames' = HostFrames
  BY <1>4, Zenon DEF HostFrames
<1>10. /\ RowsSent("INNER_DATA")' = rows /\ RowsSent("OUTER_DATA")' = <<>>
       /\ h2k' \in Seq(HostFrames) /\ drops' = 0 /\ dups' = 0
       /\ Resets(h2k') = {}
  <2>0. /\ RowsIn(<<>>, "INNER_DATA") = <<>> /\ RowsIn(<<>>, "OUTER_DATA") = <<>>
        /\ <<>> \o <<>> = <<>> /\ <<>> \in Seq(HostFrames)
        /\ <<>> \o <<configure>> = <<configure>>
    BY RowsInNone
  <2>a. /\ AllCarry(HostFrames, "INNER_DATA", InputRows)
        /\ AllCarry(HostFrames, "OUTER_DATA", InputRows)
    BY HostFrameTypes, Zenon DEF AllCarry
  <2>b. configure \in HostFrames /\ <<>> \in Seq(HostFrames)
    BY <1>6, <2>0
  <2>c. RowsIn(<<>> \o <<configure>>, "INNER_DATA")
          = RowsIn(<<>>, "INNER_DATA") \o Carried(configure, "INNER_DATA")
    BY <2>a, <2>b, RowsInAppend, Zenon
  <2>d. RowsIn(<<>> \o <<configure>>, "OUTER_DATA")
          = RowsIn(<<>>, "OUTER_DATA") \o Carried(configure, "OUTER_DATA")
    BY <2>a, <2>b, RowsInAppend, Zenon
  <2>1. /\ RowsIn(<<configure>>, "INNER_DATA") = <<>>
        /\ RowsIn(<<configure>>, "OUTER_DATA") = <<>>
    BY <1>6, <2>0, <2>c, <2>d, Zenon
  <2>2. CASE first = 0
    <3>1. <<configure>> \in Seq(HostFrames) /\ HostSends(<<configure>>)
      BY <1>4, <1>6, <2>2
    <3>2. h2k' = h2k \o <<configure>> /\ drops' = 0 /\ dups' = 0
      BY <1>8, <3>1, HostSendsOnce, Zenon
    <3>3. h2k' = <<configure>>
      BY <1>8, <2>0, <3>2, Zenon
    <3>4. rows = <<>>
      BY <1>2, <2>2
    <3>5. Resets(<<configure>>) = {}
      BY <1>6 DEF Resets
    <3> QED
      BY <2>1, <3>1, <3>2, <3>3, <3>4, <3>5, RowsSentNext, Zenon
  <2>3. CASE first # 0
    <3>1. <<configure, data>> \in Seq(HostFrames) /\ HostSends(<<configure, data>>)
      BY <1>4, <1>6, <1>7, <2>3
    <3>2. h2k' = h2k \o <<configure, data>> /\ drops' = 0 /\ dups' = 0
      BY <1>8, <3>1, HostSendsOnce, Zenon
    <3>3. <<>> \o <<configure, data>> = <<configure, data>>
          /\ <<configure>> \o <<data>> = <<configure, data>>
          /\ <<configure>> \in Seq(HostFrames)
      <4>1. <<configure>> \in Seq(HostFrames)
        BY <1>6
      <4>2. <<configure>> \o <<data>> = <<configure, data>>
        BY <1>6, <1>7, TwoFrames, Zenon
      <4> QED
        BY <3>1, <4>1, <4>2
    <3>4. h2k' = <<configure>> \o <<data>> /\ h2k' = <<configure, data>>
      BY <1>8, <3>2, <3>3, Zenon
    <3>5. /\ RowsIn(<<configure>> \o <<data>>, "INNER_DATA")
               = RowsIn(<<configure>>, "INNER_DATA") \o Carried(data, "INNER_DATA")
          /\ RowsIn(<<configure>> \o <<data>>, "OUTER_DATA")
               = RowsIn(<<configure>>, "OUTER_DATA") \o Carried(data, "OUTER_DATA")
      <4>1. data \in HostFrames /\ <<configure>> \in Seq(HostFrames)
        BY <1>7, <3>3
      <4>2. RowsIn(<<configure>> \o <<data>>, "INNER_DATA")
               = RowsIn(<<configure>>, "INNER_DATA") \o Carried(data, "INNER_DATA")
        BY <2>a, <4>1, RowsInAppend, Zenon
      <4>3. RowsIn(<<configure>> \o <<data>>, "OUTER_DATA")
               = RowsIn(<<configure>>, "OUTER_DATA") \o Carried(data, "OUTER_DATA")
        BY <2>a, <4>1, RowsInAppend, Zenon
      <4> QED
        BY <4>2, <4>3, Zenon
    <3>6. <<>> \o rows = rows
      BY <1>5
    <3>7. Resets(<<configure, data>>) = {}
      <4>1. \A i \in DOMAIN <<configure, data>> : (<<configure, data>>)[i] \in {configure, data}
        OBVIOUS
      <4>2. configure.type # "RESET" /\ data.type # "RESET"
        BY <1>6, <1>7
      <4> QED
        BY <4>1, <4>2, Zenon DEF Resets
    <3>8. RowsIn(h2k', "INNER_DATA") = rows /\ RowsIn(h2k', "OUTER_DATA") = <<>>
      BY <1>7, <2>0, <2>1, <3>4, <3>5, <3>6, Zenon
    <3>9. Resets(h2k') = {} /\ h2k' \in Seq(HostFrames)
      BY <3>1, <3>4, <3>7, Zenon
    <3> QED
      BY <3>2, <3>8, <3>9, RowsSentNext, Zenon
  <2> QED
    BY <2>2, <2>3
<1>11. Record'
  BY <1>4, <1>9, <1>10 DEF Record
<1>12. IsPrefix(<<>>, outer)
  BY <1>2 DEF IsPrefix
<1>13. "config" # "returned" /\ "config" # "probe" /\ first <= Len(inner)
  BY <1>3
<1>14. RowsSentInOrder'
  BY <1>4, <1>5, <1>10, <1>12, <1>13, Zenon DEF RowsSentInOrder
<1>15. RowsRecorded'
  BY <1>4, <1>10, <1>13, <1>14, Zenon DEF RowsRecorded
<1> QED
  BY <1>10, <1>11, <1>15, Zenon

\* The probe phase starts: all inner rows are sent.
LEMMA BuildDoneRows ==
    ASSUME Bookkeeping, Record, RowsRecorded, BuildDone
    PROVE  RowsRecorded'
<1>1. ClientTypes
  BY DEF Bookkeeping
<1>2. /\ cpc = "build" /\ cpc' = "probe" /\ sent >= Len(inner) /\ sent' = 0
      /\ inner' = inner /\ outer' = outer /\ h2k' = h2k
  BY DEF BuildDone, link, args
<1>3. sent \in Nat /\ inner \in Seq(InputRows) /\ outer \in Seq(InputRows) /\ Len(inner) \in Nat
  BY <1>1 DEF ClientTypes
<1>4. /\ sent <= Len(inner) /\ RowsSent("INNER_DATA") = SubSeq(inner, 1, sent)
      /\ RowsSent("OUTER_DATA") = <<>>
  BY <1>2 DEF RowsRecorded
<1>5. sent = Len(inner) /\ SubSeq(inner, 1, Len(inner)) = inner
  BY <1>2, <1>3, <1>4
<1>6. RowsSent("INNER_DATA") = inner
  BY <1>4, <1>5, Zenon
<1>7. /\ RowsSent("INNER_DATA")' = RowsSent("INNER_DATA")
      /\ RowsSent("OUTER_DATA")' = RowsSent("OUTER_DATA")
  BY <1>2, Zenon DEF RowsSent
<1>8. SubSeq(outer, 1, 0) = <<>> /\ 0 <= Len(outer) /\ IsPrefix(<<>>, outer)
      /\ IsPrefix(inner, inner)
  BY <1>3 DEF IsPrefix
<1>9. RowsSentInOrder'
  BY <1>2, <1>4, <1>6, <1>7, <1>8, Zenon DEF RowsSentInOrder
<1>10. "probe" \notin {"start", "config", "build"}
  OBVIOUS
<1> QED
  BY <1>2, <1>4, <1>6, <1>7, <1>8, <1>9, <1>10, Zenon DEF RowsRecorded

-----------------------------------------------------------------------------
\* A frame that is no RESET adds none, and a RESET is the only one.
LEMMA ResetsNext ==
    ASSUME NEW F, NEW h \in Seq(F), NEW f, Resets(h) = {}
    PROVE  /\ f.type # "RESET" => Resets(h \o <<f>>) = {}
           /\ f.type = "RESET" => Resets(h \o <<f>>) = {Len(h \o <<f>>)}
<1>1. /\ DOMAIN (h \o <<f>>) = 1..(Len(h) + 1) /\ Len(h) \in Nat /\ DOMAIN h = 1..Len(h)
      /\ Len(h \o <<f>>) = Len(h) + 1
      /\ (h \o <<f>>)[Len(h) + 1] = f /\ \A i \in 1..Len(h) : (h \o <<f>>)[i] = h[i]
  OBVIOUS
<1>2. \A i \in 1..Len(h) : h[i].type # "RESET"
  BY <1>1 DEF Resets
<1>3. \A i \in 1..(Len(h) + 1) : i = Len(h) + 1 \/ i \in 1..Len(h)
  BY <1>1
<1>4. Len(h) + 1 \in 1..(Len(h) + 1)
  BY <1>1
<1>5. Resets(h \o <<f>>) = {i \in 1..(Len(h) + 1) : (h \o <<f>>)[i].type = "RESET"}
  BY <1>1, Zenon DEF Resets
<1> QED
  BY <1>1, <1>2, <1>3, <1>4, <1>5, Zenon

LEMMA ResetOnceForm ==
    ResetOnceOnExit <=>
        /\ Resets(h2k) \subseteq {Len(h2k)}
        /\ ClientDone /\ cfg.reset_after_run => Resets(h2k) # {}
        /\ ~cfg.reset_after_run /\ ~cfg.infer_done_from_probe_ack => Resets(h2k) = {}
BY DEF ResetOnceOnExit, Resets

LEMMA ResetOnceFormNext ==
    ResetOnceOnExit' <=>
        /\ Resets(h2k') \subseteq {Len(h2k')}
        /\ ClientDone' /\ cfg'.reset_after_run => Resets(h2k') # {}
        /\ ~cfg'.reset_after_run /\ ~cfg'.infer_done_from_probe_ack => Resets(h2k') = {}
BY DEF ResetOnceOnExit, Resets

Sent == Record /\ RowsRecorded /\ ResetsRecorded

\* A step that sends nothing, and its way through run_hash_join.
Waits ==
    /\ UNCHANGED <<args, h2k, sent>> /\ drops' = 0 /\ dups' = 0
    /\ \/ cpc' = cpc
       \/ cpc = "config" /\ cpc' = "build"
       \/ cpc = "probe" /\ cpc' = "probed"
       \/ cpc = "probe_end" /\ cpc' = "probe_ended"
       \/ cpc \in {"probed", "probe_ended"} /\ cpc' = "final"
       \/ cpc = "reset" /\ cpc' \in {"returned", "threw"}

\* An exit through ~SessionCleanup, which is normal only at the end.
Leaves ==
    /\ UNCHANGED <<args, sent>>
    /\ cpc \notin {"start", "reset", "returned", "threw"}
    /\ \/ LeaveAs("threw")
       \/ cpc \in {"probed", "probe_ended", "final"} /\ LeaveAs("returned")

LEMMA WaitsKeep == ASSUME Sent, Waits PROVE Sent'
<1>1. /\ cfg' = cfg /\ algorithm' = algorithm /\ inner' = inner /\ outer' = outer
      /\ active_session_id' = active_session_id
      /\ h2k' = h2k /\ sent' = sent /\ drops' = 0 /\ dups' = 0
  BY DEF Waits, args
<1>2. HostFrames' = HostFrames
  BY <1>1, Zenon DEF HostFrames
<1>3. /\ cpc' = "start" => cpc = "start"
      /\ cpc' \in {"start", "config", "build"} => cpc \in {"start", "config", "build"}
      /\ cpc' = "probe" => cpc = "probe"
      /\ cpc' \notin {"start", "config", "build", "threw"} =>
             cpc \notin {"start", "config", "build", "threw"}
      /\ cpc' \notin {"reset", "returned", "threw"} => cpc \notin {"reset", "returned", "threw"}
      /\ cpc' = "reset" => cpc = "reset"
      /\ cpc' \in {"returned", "threw"} => cpc' = cpc \/ cpc = "reset"
  BY DEF Waits
<1>4. Record'
  BY <1>1, <1>2, <1>3, Zenon DEF Sent, Record
<1>5. RowsRecorded'
  BY <1>1, <1>3, RowsKept DEF Sent
<1>6. ResetsRecorded'
  <2>1. ClientDone' => ClientDone \/ cpc = "reset"
    BY <1>3, Zenon DEF ClientDone
  <2>2. ResetOnceOnExit'
    <3>1. ResetOnceOnExit /\ (cpc = "reset" => Resets(h2k) # {})
      BY DEF Sent, ResetsRecorded
    <3> QED
      BY <1>1, <2>1, <3>1, ResetOnceForm, ResetOnceFormNext, Zenon
  <2>3. /\ cpc' \notin {"reset", "returned", "threw"} => Resets(h2k') = {}
        /\ cpc' = "reset" => Resets(h2k') # {} /\ cfg'.infer_done_from_probe_ack
    BY <1>1, <1>3, Zenon DEF Sent, ResetsRecorded
  <2> QED
    BY <2>2, <2>3, Zenon DEF ResetsRecorded, Resets
<1> QED
  BY <1>4, <1>5, <1>6 DEF Sent

\* A RESET is sent, or the frame that ends the probe phase.
LEMMA FrameSent ==
    ASSUME Faultless, Sent, UNCHANGED <<args, sent>>,
           NEW f \in {ResetFrame, DataFrame("OUTER_DATA", <<>>)}, HostSends(<<f>>)
    PROVE  /\ h2k' = h2k \o <<f>> /\ drops' = 0 /\ dups' = 0
           /\ f \in HostFrames /\ HostFrames' = HostFrames /\ h2k' \in Seq(HostFrames)
           /\ Carried(f, "INNER_DATA") = <<>> /\ Carried(f, "OUTER_DATA") = <<>>
<1>1. UNCHANGED <<algorithm, inner, outer, active_session_id>>
  BY DEF args
<1>2. HostFrames' = HostFrames
  BY <1>1, Zenon DEF HostFrames
<1>3. h2k \in Seq(HostFrames) /\ drops = 0 /\ dups = 0
  BY DEF Sent, Record
<1>4. <<>> \in Seq(InputRows)
  OBVIOUS
<1>5. f \in HostFrames
  BY <1>4, HostFrameTypes, Zenon
<1>6. Carried(f, "INNER_DATA") = <<>> /\ Carried(f, "OUTER_DATA") = <<>>
  BY CarriedRows, Zenon
<1>7. <<f>> \in Seq(HostFrames) /\ h2k \o <<f>> \in Seq(HostFrames)
  BY <1>3, <1>5
<1>8. h2k' = h2k \o <<f>> /\ drops' = 0 /\ dups' = 0
  BY <1>3, <1>7, HostSendsOnce, Zenon
<1> QED
  BY <1>2, <1>5, <1>6, <1>7, <1>8, Zenon

LEMMA ResetIsLast ==
    ASSUME Faultless, Sent, UNCHANGED <<args, sent>>, HostSends(<<ResetFrame>>),
           cpc \notin {"reset", "returned", "threw"}
    PROVE  Resets(h2k') = {Len(h2k')}
<1>1. h2k' = h2k \o <<ResetFrame>>
  BY FrameSent, Zenon
<1>2. h2k \in Seq(HostFrames) /\ Resets(h2k) = {}
  BY DEF Sent, Record, ResetsRecorded
<1>3. ResetFrame.type = "RESET"
  BY DEF ResetFrame
<1> QED
  BY <1>1, <1>2, <1>3, ResetsNext, Zenon

LEMMA LeavesKeep == ASSUME Faultless, Sent, Leaves PROVE Sent'
<1>1. /\ cfg' = cfg /\ algorithm' = algorithm /\ inner' = inner /\ outer' = outer
      /\ active_session_id' = active_session_id /\ sent' = sent
      /\ UNCHANGED <<args, sent>>
  BY DEF Leaves, args
<1>2. /\ cpc \notin {"start", "reset", "returned", "threw"}
      /\ cpc' \in {"returned", "threw"}
      /\ cpc' = "returned" => cpc \in {"probed", "probe_ended", "final"}
  BY DEF Leaves, LeaveAs
<1>3. /\ cpc' \notin {"start", "config", "build", "probe", "reset"}
      /\ cpc' \notin {"start", "config", "build", "threw"} =>
             cpc \notin {"start", "config", "build", "threw"}
      /\ cpc \notin {"reset", "returned", "threw"} /\ ClientDone'
  BY <1>2 DEF ClientDone
<1>4. Resets(h2k) = {} /\ ResetOnceOnExit
  BY <1>3 DEF Sent, ResetsRecorded
<1>5. HostFrames' = HostFrames
  BY <1>1, Zenon DEF HostFrames
<1>6. CASE cfg.reset_after_run
  <2>1. HostSends(<<ResetFrame>>)
    BY <1>6, Zenon DEF Leaves, LeaveAs
  <2>2. /\ h2k' = h2k \o <<ResetFrame>> /\ drops' = 0 /\ dups' = 0
        /\ ResetFrame \in HostFrames /\ h2k' \in Seq(HostFrames)
        /\ Carried(ResetFrame, "INNER_DATA") = <<>> /\ Carried(ResetFrame, "OUTER_DATA") = <<>>
    BY <1>1, <2>1, FrameSent, Zenon
  <2>3. Record'
    BY <1>3, <1>5, <2>2, Zenon DEF Record
  <2>4. RowsRecorded'
    <3>1. \E f \in HostFrames : /\ Carried(f, "INNER_DATA") = <<>>
                                /\ Carried(f, "OUTER_DATA") = <<>>
                                /\ h2k' = h2k \o <<f>>
      BY <2>2, Zenon
    <3>2. UNCHANGED <<inner, outer, sent>> /\ Record /\ RowsRecorded
      BY <1>1 DEF Sent
    <3>3. cpc' \notin {"start", "config", "build"} /\ cpc' # "probe"
      BY <1>3
    <3> QED
      BY <1>3, <3>1, <3>2, <3>3, RowsKept, Zenon
  <2>5. Resets(h2k') = {Len(h2k')}
    BY <1>1, <1>3, <2>1, ResetIsLast, Zenon
  <2>6. ResetOnceOnExit'
    BY <1>1, <1>6, <2>5, ResetOnceFormNext, Zenon
  <2>7. ResetsRecorded'
    BY <1>2, <2>6 DEF ResetsRecorded
  <2> QED
    BY <2>3, <2>4, <2>7, Zenon DEF Sent
<1>7. CASE ~cfg.reset_after_run
  <2>1. h2k' = h2k /\ drops' = drops /\ dups' = dups
    BY <1>7, Zenon DEF Leaves, LeaveAs
  <2>2. Record'
    BY <1>3, <1>5, <2>1, Zenon DEF Sent, Record
  <2>3. RowsRecorded'
    <3>1. UNCHANGED <<inner, outer, sent>> /\ Record /\ RowsRecorded
      BY <1>1 DEF Sent
    <3>2. cpc' \notin {"start", "config", "build"} /\ cpc' # "probe"
      BY <1>3
    <3> QED
      BY <1>3, <2>1, <3>1, <3>2, RowsKept, Zenon
  <2>4. ResetOnceOnExit'
    BY <1>1, <1>4, <1>7, <2>1, ResetOnceFormNext, Zenon
  <2>5. ResetsRecorded'
    BY <1>2, <2>4 DEF ResetsRecorded
  <2> QED
    BY <2>2, <2>3, <2>5, Zenon DEF Sent
<1> QED
  BY <1>6, <1>7

\* The frame that ends the probe phase carries no rows.
LEMMA ProbeEndKeeps == ASSUME Faultless, Sent, SendProbeEnd PROVE Sent'
<1> DEFINE f == DataFrame("OUTER_DATA", <<>>)
<1>1. /\ UNCHANGED <<args, sent>> /\ HostSends(<<f>>)
      /\ cpc = "probed" /\ cpc' = "probe_end"
  BY Zenon DEF SendProbeEnd
<1>2. UNCHANGED <<inner, outer, sent>>
  BY <1>1 DEF args
<1>3. f.type # "RESET"
  BY DEF DataFrame
<1>4. /\ h2k' = h2k \o <<f>> /\ drops' = 0 /\ dups' = 0
      /\ f \in HostFrames /\ HostFrames' = HostFrames /\ h2k' \in Seq(HostFrames)
      /\ Carried(f, "INNER_DATA") = <<>> /\ Carried(f, "OUTER_DATA") = <<>>
  BY <1>1, FrameSent, Zenon
<1> HIDE DEF f
<1>5. Record /\ RowsRecorded /\ h2k \in Seq(HostFrames) /\ Resets(h2k) = {}
  BY <1>1 DEF Sent, Record, ResetsRecorded
<1>6. Record'
  BY <1>1, <1>4 DEF Record
<1>7. RowsRecorded'
  <2>1. \E g \in HostFrames : /\ Carried(g, "INNER_DATA") = <<>>
                              /\ Carried(g, "OUTER_DATA") = <<>>
                              /\ h2k' = h2k \o <<g>>
    BY <1>4, Zenon
  <2>2. /\ cpc' \notin {"start", "config", "build"} /\ cpc' # "probe"
        /\ cpc \notin {"start", "config", "build", "threw"}
    BY <1>1
  <2> QED
    BY <1>2, <1>5, <2>1, <2>2, RowsKept, Zenon
<1>8. Resets(h2k') = {}
  BY <1>3, <1>4, <1>5, ResetsNext, Zenon
<1>9. ~ClientDone' /\ cpc' # "reset"
  BY <1>1 DEF ClientDone
<1>10. ResetOnceOnExit'
  BY <1>8, <1>9, ResetOnceFormNext, Zenon
<1>11. ResetsRecorded'
  BY <1>8, <1>9, <1>10, Zenon DEF ResetsRecorded
<1> QED
  BY <1>6, <1>7, <1>11, Zenon DEF Sent

\* The RESET after an inferred DONE.
LEMMA EndInferredKeeps == ASSUME Faultless, Sent, EndInferred PROVE Sent'
<1>1. /\ UNCHANGED <<args, sent>> /\ HostSends(<<ResetFrame>>)
      /\ cpc \in {"probed", "probe_ended"} /\ cpc' = "reset"
      /\ cfg.infer_done_from_probe_ack
  BY Zenon DEF EndInferred, Ending, final_probe_ack
<1>2. UNCHANGED <<inner, outer, sent>> /\ cfg' = cfg
  BY <1>1 DEF args
<1>3. /\ h2k' = h2k \o <<ResetFrame>> /\ drops' = 0 /\ dups' = 0
      /\ ResetFrame \in HostFrames /\ HostFrames' = HostFrames /\ h2k' \in Seq(HostFrames)
      /\ Carried(ResetFrame, "INNER_DATA") = <<>> /\ Carried(ResetFrame, "OUTER_DATA") = <<>>
  BY <1>1, FrameSent, Zenon
<1>4. /\ cpc' \notin {"start", "config", "build"} /\ cpc' # "probe" /\ cpc' # "start"
      /\ cpc \notin {"start", "config", "build", "threw"}
      /\ cpc \notin {"reset", "returned", "threw"}
      /\ ~ClientDone'
  BY <1>1 DEF ClientDone
<1>5. Record'
  BY <1>3, <1>4, Zenon DEF Record
<1>6. RowsRecorded'
  <2>1. \E g \in HostFrames : /\ Carried(g, "INNER_DATA") = <<>>
                              /\ Carried(g, "OUTER_DATA") = <<>>
                              /\ h2k' = h2k \o <<g>>
    BY <1>3, Zenon
  <2>2. Record /\ RowsRecorded
    BY DEF Sent
  <2> QED
    BY <1>2, <1>4, <2>1, <2>2, RowsKept, Zenon
<1>7. Resets(h2k') = {Len(h2k')}
  BY <1>1, <1>4, ResetIsLast, Zenon
<1>8. ResetOnceOnExit'
  BY <1>1, <1>2, <1>4, <1>7, ResetOnceFormNext, Zenon
<1>9. ResetsRecorded'
  BY <1>1, <1>2, <1>7, <1>8, Zenon DEF ResetsRecorded
<1> QED
  BY <1>5, <1>6, <1>9, Zenon DEF Sent

\* The remaining actions either wait or leave.
LEMMA WaitsOrLeaves ==
    ASSUME Sent,
           \/ ZeroCredit \/ CollectResult \/ CollectError \/ CollectStale \/ ConfigAck
           \/ DataAck \/ ProbeDone \/ ProbeEndAck \/ EndVerified \/ ResetAck
           \/ EndUnconfirmed \/ FinalStatus \/ HardTimeout
    PROVE  Waits \/ Leaves
<1>0. drops = 0 /\ dups = 0
  BY DEF Sent, Record
<1>a. Collecting => cpc \in {"config", "probe_end", "final", "reset", "build", "probe"}
  BY DEF Collecting
<1>1. CASE ZeroCredit
  <2>1. /\ UNCHANGED <<args, sent>> /\ cpc \in {"build", "probe"} /\ LeaveAs("threw")
    BY <1>1, Zenon DEF ZeroCredit
  <2> QED
    BY <2>1 DEF Leaves
<1>2. CASE CollectResult
  BY <1>0, <1>2 DEF CollectResult, Waits
<1>3. CASE CollectError
  <2>1. /\ UNCHANGED <<args, sent>> /\ Collecting
        /\ IF cpc = "reset" THEN LeaveQuietlyAs("threw") ELSE LeaveAs("threw")
    BY <1>3, Zenon DEF CollectError, Receives
  <2>2. CASE cpc = "reset"
    <3>1. LeaveQuietlyAs("threw")
      BY <2>1, <2>2
    <3> QED
      BY <1>0, <2>1, <2>2, <3>1 DEF LeaveQuietlyAs, Waits
  <2>3. CASE cpc # "reset"
    <3>1. LeaveAs("threw")
      BY <2>1, <2>3
    <3> QED
      BY <1>a, <2>1, <2>3, <3>1 DEF Leaves
  <2> QED
    BY <2>2, <2>3
<1>4. CASE CollectStale
  BY <1>0, <1>4 DEF CollectStale, client, args, Waits
<1>5. CASE ConfigAck
  BY <1>0, <1>5 DEF ConfigAck, Waits
<1>6. CASE DataAck
  <2>1. UNCHANGED <<args, sent>> /\ cpc \in {"build", "probe"}
    BY <1>6, Zenon DEF DataAck
  <2>2. \/ cpc = "probe" /\ cpc' = "probed" /\ UNCHANGED <<h2k, drops, dups>>
        \/ LeaveAs("threw")
        \/ UNCHANGED <<cpc, h2k, drops, dups>>
    BY <1>6, Zenon DEF DataAck
  <2>3. CASE LeaveAs("threw")
    BY <2>1, <2>3 DEF Leaves
  <2>4. CASE ~LeaveAs("threw")
    BY <1>0, <2>1, <2>2, <2>4 DEF Waits
  <2> QED
    BY <2>3, <2>4
<1>7. CASE ProbeDone
  BY <1>0, <1>7 DEF ProbeDone, link, Waits
<1>8. CASE ProbeEndAck
  BY <1>0, <1>8 DEF ProbeEndAck, Waits
<1>9. CASE EndVerified
  <2>1. /\ UNCHANGED <<args, sent>> /\ cpc \in {"probed", "probe_ended"}
        /\ LeaveAs(IF Verified(last_probe_ack) THEN "returned" ELSE "threw")
    BY <1>9, Zenon DEF EndVerified, Ending
  <2>2. LeaveAs("returned") \/ LeaveAs("threw")
    BY <2>1, Zenon
  <2> QED
    BY <2>1, <2>2 DEF Leaves
<1>10. CASE ResetAck
  BY <1>0, <1>10 DEF ResetAck, Waits
<1>11. CASE EndUnconfirmed
  BY <1>0, <1>11 DEF EndUnconfirmed, Ending, link, Waits
<1>12. CASE FinalStatus
  <2>1. /\ UNCHANGED <<args, sent>> /\ cpc = "final"
        /\ LeaveAs(IF Head(k2h).phase = "DONE" /\ Verified(Head(k2h)) THEN "returned" ELSE "threw")
    BY <1>12, Zenon DEF FinalStatus
  <2>2. LeaveAs("returned") \/ LeaveAs("threw")
    BY <2>1, Zenon
  <2> QED
    BY <2>1, <2>2 DEF Leaves
<1>13. CASE HardTimeout
  <2>1. /\ UNCHANGED <<args, sent>> /\ Collecting
        /\ IF cpc = "reset" THEN LeaveQuietlyAs("returned") ELSE LeaveAs("threw")
    BY <1>13, Zenon DEF HardTimeout, Timed
  <2>2. CASE cpc = "reset"
    <3>1. LeaveQuietlyAs("returned")
      BY <2>1, <2>2
    <3> QED
      BY <1>0, <2>1, <2>2, <3>1 DEF LeaveQuietlyAs, Waits
  <2>3. CASE cpc # "reset"
    <3>1. LeaveAs("threw")
      BY <2>1, <2>3
    <3> QED
      BY <1>a, <2>1, <2>3, <3>1 DEF Leaves
  <2> QED
    BY <2>2, <2>3
<1> QED
  BY <1>1, <1>2, <1>3, <1>4, <1>5, <1>6, <1>7, <1>8, <1>9, <1>10, <1>11, <1>12, <1>13

\* Rows go out while no RESET does.
LEMMA RowsBeforeReset ==
    ASSUME Sent, Record', RowsRecorded', Resets(h2k') = {},
           cpc' \notin {"reset", "returned", "threw"}
    PROVE  Sent'
<1>1. ~ClientDone' /\ cpc' # "reset"
  BY DEF ClientDone
<1>2. ResetOnceOnExit'
  BY <1>1, ResetOnceFormNext, Zenon
<1>3. ResetsRecorded'
  BY <1>1, <1>2, Zenon DEF ResetsRecorded
<1> QED
  BY <1>3, Zenon DEF Sent

LEMMA SentStart == ASSUME Faultless, Init PROVE Sent
<1>1. /\ h2k = <<>> /\ drops = 0 /\ dups = 0 /\ sent = 0 /\ cpc = "start"
  BY DEF Init, LinkInit, ClientIdle
<1>2. inner \in Seq(InputRows) /\ outer \in Seq(InputRows)
  BY BookkeepingStart DEF Bookkeeping, ClientTypes
<1>3. Record
  BY <1>1 DEF Record
<1>4. RowsSent("INNER_DATA") = <<>> /\ RowsSent("OUTER_DATA") = <<>>
  <2>1. \A type : RowsSent(type) = RowsIn(h2k, type)
    BY DEF RowsSent, RowsIn, Carried
  <2> QED
    BY <1>1, <2>1, RowsInNone, Zenon
<1>5. /\ IsPrefix(<<>>, inner) /\ IsPrefix(<<>>, outer)
      /\ SubSeq(inner, 1, 0) = <<>> /\ 0 <= Len(inner)
      /\ "start" # "returned" /\ "start" # "probe"
  BY <1>2 DEF IsPrefix
<1>6. RowsSentInOrder
  BY <1>1, <1>4, <1>5, Zenon DEF RowsSentInOrder
<1>7. RowsRecorded
  BY <1>1, <1>4, <1>5, <1>6, Zenon DEF RowsRecorded
<1>8. Resets(h2k) = {} /\ ~ClientDone /\ cpc # "reset"
  BY <1>1 DEF Resets, ClientDone
<1>9. ResetOnceOnExit
  BY <1>8, ResetOnceForm, Zenon
<1> QED
  BY <1>3, <1>7, <1>8, <1>9, Zenon DEF Sent, ResetsRecorded

LEMMA SentStep == ASSUME Faultless, Bookkeeping, Sent, [Next]_vars PROVE Sent'
<1>0. Record /\ RowsRecorded
  BY DEF Sent
<1>1. CASE UNCHANGED vars
  <2>1. Waits
    BY <1>0, <1>1 DEF vars, link, client, args, Waits, Record
  <2> QED
    BY <2>1, WaitsKeep
<1>2. CASE Board
  <2>1. drops' = 0 /\ dups' = 0
    BY <1>0, <1>2, BoardSendsOnce DEF Record
  <2>2. UNCHANGED <<h2k, client>>
    BY <1>2 DEF Board
  <2>3. Waits
    BY <2>1, <2>2 DEF client, args, Waits
  <2> QED
    BY <2>3, WaitsKeep
<1>3. CASE SendConfigure
  <2>1. cpc' = "config"
    BY <1>3 DEF SendConfigure
  <2>2. RowsRecorded' /\ Record' /\ Resets(h2k') = {}
    BY <1>0, <1>3, ConfigureRows
  <2> QED
    BY <2>1, <2>2, RowsBeforeReset
<1>4. CASE SendBatch
  <2>1. RowsRecorded' /\ Record'
    BY <1>0, <1>4, BatchRows
  <2>2. PICK f : f.type # "RESET" /\ h2k' = h2k \o <<f>>
    BY <1>0, <1>4, BatchRows
  <2>3. cpc \in {"build", "probe"} /\ cpc' = cpc
    BY <1>4 DEF SendBatch, CanSend
  <2>4. h2k \in Seq(HostFrames) /\ Resets(h2k) = {}
    BY <2>3 DEF Sent, Record, ResetsRecorded
  <2>5. Resets(h2k') = {}
    BY <2>2, <2>4, ResetsNext, Zenon
  <2>6. cpc' \notin {"reset", "returned", "threw"}
    BY <2>3
  <2> QED
    BY <2>1, <2>5, <2>6, RowsBeforeReset
<1>5. CASE BuildDone
  <2>1. /\ cpc = "build" /\ cpc' = "probe" /\ UNCHANGED <<link, args>>
    BY <1>5 DEF BuildDone
  <2>2. /\ h2k' = h2k /\ drops' = drops /\ dups' = dups
        /\ UNCHANGED <<algorithm, inner, outer, active_session_id>>
    BY <2>1 DEF link, args
  <2>3. HostFrames' = HostFrames
    BY <2>2, Zenon DEF HostFrames
  <2>4. cpc' # "start" /\ cpc' \notin {"reset", "returned", "threw"}
    BY <2>1
  <2>5. Record'
    BY <1>0, <2>2, <2>3, <2>4, Zenon DEF Record
  <2>6. RowsRecorded'
    BY <1>0, <1>5, BuildDoneRows
  <2>7. Resets(h2k') = {}
    BY <2>1, <2>2 DEF Sent, ResetsRecorded
  <2> QED
    BY <2>4, <2>5, <2>6, <2>7, RowsBeforeReset
<1>6. CASE SendProbeEnd
  BY <1>6, ProbeEndKeeps
<1>7. CASE EndInferred
  BY <1>7, EndInferredKeeps
<1>8. CASE \/ ZeroCredit \/ CollectResult \/ CollectError \/ CollectStale \/ ConfigAck
           \/ DataAck \/ ProbeDone \/ ProbeEndAck \/ EndVerified \/ ResetAck
           \/ EndUnconfirmed \/ FinalStatus \/ HardTimeout
  BY <1>8, WaitsOrLeaves, WaitsKeep, LeavesKeep, Zenon
<1> QED
  BY <1>1, <1>2, <1>3, <1>4, <1>5, <1>6, <1>7, <1>8, Zenon
     DEF Next, Client, ClientStep, GiveUp, Finished

\* Every row is sent once and in order whatever credits the board grants, no
\* outer row goes out and no result is returned before the last inner row:
\* over a link without faults, for every input, window and batch size.
THEOREM RowsInOrder == ASSUME Faultless PROVE Spec => []RowsSentInOrder
<1>1. Init => Bookkeeping /\ Sent
  BY BookkeepingStart, SentStart
<1>2. Bookkeeping /\ Sent /\ [Next]_vars => Bookkeeping' /\ Sent'
  BY BookkeepingStep, SentStep
<1>3. Sent => RowsSentInOrder
  BY DEF Sent, RowsRecorded
<1> QED
  BY <1>1, <1>2, <1>3, PTL DEF Spec

\* A RESET is the last frame of a call, and one is sent on every path out of
\* run_hash_join that owes one, against any board.
THEOREM ResetOnce == ASSUME Faultless PROVE Spec => []ResetOnceOnExit
<1>1. Init => Bookkeeping /\ Sent
  BY BookkeepingStart, SentStart
<1>2. Bookkeeping /\ Sent /\ [Next]_vars => Bookkeeping' /\ Sent'
  BY BookkeepingStep, SentStep
<1>3. Sent => ResetOnceOnExit
  BY DEF Sent, ResetsRecorded
<1> QED
  BY <1>1, <1>2, <1>3, PTL DEF Spec

=============================================================================
