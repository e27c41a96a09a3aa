------------------------- MODULE GraceMemoryProofs -------------------------
(***************************************************************************)
(* Proofs about GraceMemory for every number of partitions, slot size,     *)
(* memory size and width of uint32_t: the rows stay in memory, and the     *)
(* addresses implement the independent sequences of GracePartitions.       *)
(***************************************************************************)
EXTENDS GraceMemory, SequenceTheorems, TLAPS

-----------------------------------------------------------------------------
(* Arithmetic.                                                             *)

\* Slots of s words: everything in slot p lies below everything in slot q.
LEMMA SlotOrder ==
    ASSUME NEW p \in Nat, NEW q \in Nat, NEW s \in Nat, p < q
    PROVE  p * s + s <= q * s
<1>1. PICK d \in Nat : q = p + 1 + d
  <2>1. q - p - 1 \in Nat /\ q = p + 1 + (q - p - 1)
    OBVIOUS
  <2> QED BY <2>1
<1>2. q * s = p * s + s + d * s
  BY <1>1
<1>3. d * s \in Nat /\ p * s \in Nat
  OBVIOUS
<1> QED BY <1>2, <1>3

\* Division of a sum in which the divisor has been added q times.
LEMMA DivisionOfSum ==
    ASSUME NEW q \in Nat, NEW b \in Nat \ {0}, NEW r \in 0..(b - 1)
    PROVE  /\ (q * b + r) \div b = q
           /\ (q * b + r) % b = r
<1> DEFINE a == q * b + r
           e == a \div b
           m == a % b
<1>1. a \in Nat /\ e \in Nat /\ m \in 0..(b - 1) /\ a = b * e + m
  OBVIOUS
<1>2. ~ (e < q)
  <2> SUFFICES ASSUME e < q PROVE FALSE
    OBVIOUS
  <2>1. e * b + b <= q * b
    BY <1>1, SlotOrder
  <2>2. e * b = b * e /\ b * e \in Nat /\ q * b \in Nat
    BY <1>1
  <2> QED BY <1>1, <2>1, <2>2
<1>3. ~ (q < e)
  <2> SUFFICES ASSUME q < e PROVE FALSE
    OBVIOUS
  <2>1. q * b + b <= e * b
    BY <1>1, SlotOrder
  <2>2. e * b = b * e /\ b * e \in Nat /\ q * b \in Nat
    BY <1>1
  <2> QED BY <1>1, <2>1, <2>2
<1>4. e = q
  BY <1>1, <1>2, <1>3
<1>5. m = r
  <2>1. b * e = q * b /\ q * b \in Nat
    BY <1>4
  <2> QED BY <1>1, <2>1
<1> QED BY <1>4, <1>5

\* An inner side that fits the memory needs no more than GRACE_MAX_K
\* partitions.
LEMMA PartitionsBounded ==
    ASSUME NEW n \in Nat, n <= GRACE_MAX_INNER_ROWS
    PROVE  PartitionCount(n) \in 1..GRACE_MAX_K
<1> DEFINE h == HT_MAX_ROWS
           k == (n + h - 1) \div h
<1>1. h \in Nat \ {0} /\ GRACE_MAX_K \in Nat \ {0}
  BY MemoryAssumption
<1>2. n <= GRACE_MAX_K * h
  BY DEF GRACE_MAX_INNER_ROWS
<1> HIDE DEF h
<1>3. k \in Nat /\ h * k <= n + h - 1 /\ h * k \in Nat
  BY <1>1
<1>4. k <= GRACE_MAX_K
  <2> SUFFICES ASSUME GRACE_MAX_K < k PROVE FALSE
    BY <1>1, <1>3
  <2>1. GRACE_MAX_K * h + h <= k * h
    BY <1>1, <1>3, SlotOrder
  <2>2. k * h = h * k /\ GRACE_MAX_K * h \in Nat
    BY <1>1, <1>3
  <2> QED BY <1>1, <1>2, <1>3, <2>1, <2>2
<1>5. PartitionCount(n) = IF k = 0 THEN 1 ELSE k
  BY DEF PartitionCount, h
<1> QED BY <1>1, <1>3, <1>4, <1>5

-----------------------------------------------------------------------------
(* Rows as words.                                                          *)

\* The slot sizes are natural numbers.
LEMMA LayoutTypes ==
    /\ GRACE_WORDS_PER_TUPLE = 2
    /\ GRACE_INNER_SLOT_WORDS \in Nat
    /\ GRACE_INNER_SLOT_WORDS = 2 * HT_MAX_ROWS
    /\ GRACE_OUTER_AREA_BASE \in Nat
    /\ GRACE_OUTER_AREA_BASE = GRACE_MAX_K * GRACE_INNER_SLOT_WORDS
BY MemoryAssumption
   DEF GRACE_WORDS_PER_TUPLE, GRACE_INNER_SLOT_WORDS, GRACE_OUTER_AREA_BASE

\* A TID survives its packing into one word.
LEMMA PackedTid ==
    ASSUME NEW b \in Nat, NEW o \in 0..(OFFNO_RANGE - 1)
    PROVE  LET w == b * (OFFNO_RANGE * OFFNO_RANGE) + o * OFFNO_RANGE
           IN /\ w \in Nat
              /\ w \div (OFFNO_RANGE * OFFNO_RANGE) = b
              /\ (w \div OFFNO_RANGE) % OFFNO_RANGE = o
<1> DEFINE r == OFFNO_RANGE
           w == b * (r * r) + o * r
<1>1. r \in Nat \ {0} /\ o \in 0..(r - 1)
  BY MemoryAssumption
<1> HIDE DEF r
<1>2. r * r \in Nat \ {0} /\ o * r \in Nat /\ b * (r * r) \in Nat /\ b * r \in Nat
  BY <1>1
<1>3. o * r \in 0..(r * r - 1)
  <2>1. o * r + r <= r * r
    BY <1>1, SlotOrder
  <2> QED BY <1>1, <1>2, <2>1
<1>4. w \div (r * r) = b
  BY <1>2, <1>3, DivisionOfSum
<1>5. w = (b * r + o) * r + 0
  BY <1>1
<1>6. w \div r = b * r + o
  BY <1>1, <1>2, <1>5, DivisionOfSum
<1>7. (b * r + o) % r = o
  BY <1>1, DivisionOfSum
<1> QED BY <1>2, <1>4, <1>6, <1>7 DEF r

\* The row just written is the row read back.
LEMMA ReadBack ==
    ASSUME NEW buf \in [Words -> Int], NEW w \in Words, w + 1 \in Words,
           NEW row \in Rows
    PROVE  /\ pack_tuple(buf, w, row) \in [Words -> Int]
           /\ unpack_tuple(pack_tuple(buf, w, row), w) = row
<1>1. /\ row = [key |-> row.key, tid |-> row.tid]
      /\ row.tid = [blkno |-> row.tid.blkno, offno |-> row.tid.offno]
      /\ row.key \in Int
      /\ row.tid.blkno \in Nat
      /\ row.tid.offno \in 0..(OFFNO_RANGE - 1)
  BY MemoryAssumption DEF Row
<1>2. /\ packed(row.tid) \in Nat
      /\ packed(row.tid) \div (OFFNO_RANGE * OFFNO_RANGE) = row.tid.blkno
      /\ (packed(row.tid) \div OFFNO_RANGE) % OFFNO_RANGE = row.tid.offno
  BY <1>1, PackedTid DEF packed
<1>3. w \in Int /\ w # w + 1
  BY MemoryAssumption DEF Words
<1>4. /\ pack_tuple(buf, w, row) \in [Words -> Int]
      /\ pack_tuple(buf, w, row)[w] = row.key
      /\ pack_tuple(buf, w, row)[w + 1] = packed(row.tid)
  BY <1>1, <1>2, <1>3 DEF pack_tuple
<1> QED BY <1>1, <1>2, <1>4 DEF unpack_tuple

\* A row that shares no word with the one written is read as before.
LEMMA Untouched ==
    ASSUME NEW buf \in [Words -> Int], NEW w \in Words, w + 1 \in Words,
           NEW v \in Words, v + 1 \in Words, v + 1 < w \/ w + 1 < v, NEW row
    PROVE  unpack_tuple(pack_tuple(buf, w, row), v) = unpack_tuple(buf, v)
<1>1. /\ v \in Int /\ w \in Int
      /\ v # w /\ v # w + 1 /\ v + 1 # w /\ v + 1 # w + 1
  BY MemoryAssumption DEF Words
<1>2. /\ pack_tuple(buf, w, row)[v] = buf[v]
      /\ pack_tuple(buf, w, row)[v + 1] = buf[v + 1]
  BY <1>1 DEF pack_tuple
<1> QED BY <1>2 DEF unpack_tuple

-----------------------------------------------------------------------------
(* Addresses.                                                              *)

\* Rows at two places of slots of s words share no word.
LEMMA PlacesApart ==
    ASSUME NEW s \in Nat, NEW p \in Nat, NEW q \in Nat, NEW i \in Nat, NEW j \in Nat,
           2 * i + 2 <= s, 2 * j + 2 <= s, p # q \/ i # j
    PROVE  \/ (p * s + i * 2) + 1 < q * s + j * 2
           \/ (q * s + j * 2) + 1 < p * s + i * 2
<1>0. p * s \in Nat /\ q * s \in Nat
  OBVIOUS
<1>1. CASE p < q
  BY <1>0, <1>1, SlotOrder
<1>2. CASE q < p
  BY <1>0, <1>2, SlotOrder
<1>3. CASE p = q
  BY <1>0, <1>3
<1> QED BY <1>1, <1>2, <1>3

\* A row in slot p of k slots of s words ends before the end of the area.
LEMMA PlaceInside ==
    ASSUME NEW s \in Nat, NEW k \in Nat, NEW p \in 0..(k - 1), NEW i \in Nat,
           2 * i + 2 <= s
    PROVE  /\ p * s + i * 2 \in Nat
           /\ (p * s + i * 2) + 1 < k * s
<1>1. p * s + s <= k * s
  BY SlotOrder
<1>2. p * s \in Nat /\ k * s \in Nat
  OBVIOUS
<1> QED BY <1>1, <1>2

-----------------------------------------------------------------------------
(* The inductive invariant: the slots of the session fit the memory and no *)
(* slot holds more rows than its size allows.                              *)

TypesOK == /\ ddr2_buf \in [Words -> Int]
           /\ inner_counts \in [Partitions -> Nat]
           /\ outer_counts \in [Partitions -> Nat]
           /\ K \in 0..GRACE_MAX_K
           /\ slot_words \in Nat

SlotsFit == K > 0 => GRACE_OUTER_AREA_BASE + K * slot_words <= GRACE_DDR2_TOTAL_WORDS

CountsFit == \A p \in Partitions :
                 /\ inner_counts[p] <= HT_MAX_ROWS
                 /\ 2 * outer_counts[p] <= slot_words
                 /\ p >= K => inner_counts[p] = 0 /\ outer_counts[p] = 0

IInv == TypesOK /\ SlotsFit /\ CountsFit

\* Where the i-th row of an inner slot lies.
LEMMA InnerPlace ==
    ASSUME IInv, NEW p \in Partitions, p < K, NEW i \in Nat, i < HT_MAX_ROWS
    PROVE  /\ InnerAddress(p, i) \in Words
           /\ InnerAddress(p, i) + 1 \in Words
           /\ InnerAddress(p, i) + 1 < GRACE_OUTER_AREA_BASE
<1>1. /\ p \in 0..(GRACE_MAX_K - 1) /\ GRACE_MAX_K \in Nat
      /\ 2 * i + 2 <= GRACE_INNER_SLOT_WORDS
  BY LayoutTypes, MemoryAssumption DEF Partitions
<1>2. /\ InnerAddress(p, i) \in Nat
      /\ InnerAddress(p, i) + 1 < GRACE_OUTER_AREA_BASE
  BY <1>1, LayoutTypes, PlaceInside DEF InnerAddress
<1>3. GRACE_OUTER_AREA_BASE <= GRACE_DDR2_TOTAL_WORDS
  <2>1. K \in Nat /\ slot_words \in Nat /\ K > 0 /\ K * slot_words \in Nat
    BY <1>1 DEF IInv, TypesOK
  <2> QED BY <2>1, LayoutTypes, MemoryAssumption DEF IInv, SlotsFit
<1> QED BY <1>2, <1>3, LayoutTypes, MemoryAssumption DEF Words

\* Where the j-th row of an outer slot lies.
LEMMA OuterPlace ==
    ASSUME IInv, NEW p \in Partitions, p < K, NEW j \in Nat, 2 * j + 2 <= slot_words
    PROVE  /\ OuterAddress(p, j, slot_words) \in Words
           /\ OuterAddress(p, j, slot_words) + 1 \in Words
           /\ OuterAddress(p, j, slot_words) >= GRACE_OUTER_AREA_BASE
<1>1. K \in Nat /\ slot_words \in Nat /\ p \in 0..(K - 1) /\ K * slot_words \in Nat
  BY MemoryAssumption DEF IInv, TypesOK, Partitions
<1>2. /\ p * slot_words + j * 2 \in Nat
      /\ (p * slot_words + j * 2) + 1 < K * slot_words
  BY <1>1, PlaceInside
<1>3. GRACE_OUTER_AREA_BASE + K * slot_words <= GRACE_DDR2_TOTAL_WORDS
  BY <1>1 DEF IInv, SlotsFit
<1>4. OuterAddress(p, j, slot_words) = GRACE_OUTER_AREA_BASE + (p * slot_words + j * 2)
  <2>1. p * slot_words \in Nat
    BY <1>1
  <2> QED BY <2>1, LayoutTypes DEF OuterAddress
<1> QED BY <1>1, <1>2, <1>3, <1>4, LayoutTypes, MemoryAssumption DEF Words

LEMMA InitInv == Init => IInv
<1> SUFFICES ASSUME Init PROVE IInv
  OBVIOUS
<1> QED BY MemoryAssumption
        DEF Init, IInv, TypesOK, SlotsFit, CountsFit, NoCounts, Words, Partitions

LEMMA StartInv ==
    ASSUME IInv, NEW n \in Totals, NEW m \in Totals, StartSession(n, m)
    PROVE  IInv'
<1> DEFINE k == PartitionCount(n)
<1>1. n \in Nat /\ m \in Nat /\ n <= GRACE_MAX_INNER_ROWS
  BY MemoryAssumption DEF StartSession, KernelAccepts
<1>2. k \in 1..GRACE_MAX_K
  BY <1>1, PartitionsBounded
<1>3. outer_slot_w(m, k) \in Nat
  <2>1. m \div k \in Nat
    BY <1>1, <1>2, MemoryAssumption
  <2>2. SlotWords(m, k) \in Nat
    BY <2>1 DEF SlotWords, GRACE_WORDS_PER_TUPLE
  <2> QED BY <2>2, MemoryAssumption DEF outer_slot_w
<1>4. GRACE_OUTER_AREA_BASE + k * outer_slot_w(m, k) <= GRACE_DDR2_TOTAL_WORDS
  BY DEF StartSession, KernelAccepts
<1>5. /\ K' = k /\ slot_words' = outer_slot_w(m, k) /\ ddr2_buf' = ddr2_buf
      /\ inner_counts' = NoCounts /\ outer_counts' = NoCounts
  BY DEF StartSession
<1> HIDE DEF k
<1>6. TypesOK'
  BY <1>2, <1>3, <1>5, MemoryAssumption DEF IInv, TypesOK, NoCounts
<1>7. SlotsFit'
  BY <1>4, <1>5 DEF SlotsFit
<1>8. CountsFit'
  BY <1>3, <1>5, MemoryAssumption DEF CountsFit, NoCounts
<1> QED BY <1>6, <1>7, <1>8 DEF IInv

LEMMA StoreInnerInv ==
    ASSUME IInv, NEW p \in Partitions, NEW row \in Rows, StoreInner(p, row)
    PROVE  IInv'
<1>1. inner_counts[p] \in Nat /\ inner_counts[p] < HT_MAX_ROWS /\ p < K
  BY DEF IInv, TypesOK, StoreInner
<1>2. ddr2_buf' \in [Words -> Int]
  BY <1>1, InnerPlace, ReadBack DEF IInv, TypesOK, StoreInner
<1>3. TypesOK' /\ SlotsFit'
  BY <1>1, <1>2 DEF IInv, TypesOK, SlotsFit, StoreInner
<1>4. CountsFit'
  <2> SUFFICES ASSUME NEW q \in Partitions
               PROVE  /\ inner_counts'[q] <= HT_MAX_ROWS
                      /\ 2 * outer_counts'[q] <= slot_words'
                      /\ q >= K' => inner_counts'[q] = 0 /\ outer_counts'[q] = 0
    BY DEF CountsFit
  <2>1. K \in Nat /\ p \in Int /\ q \in Int
    BY MemoryAssumption DEF IInv, TypesOK, Partitions
  <2> QED BY <1>1, <2>1, MemoryAssumption DEF IInv, TypesOK, CountsFit, StoreInner
<1> QED BY <1>3, <1>4 DEF IInv

LEMMA StoreOuterInv ==
    ASSUME IInv, NEW p \in Partitions, NEW row \in Rows, StoreOuter(p, row)
    PROVE  IInv'
<1>1. /\ outer_counts[p] \in Nat /\ p < K /\ slot_words \in Nat
      /\ 2 * outer_counts[p] + 2 <= slot_words
  BY LayoutTypes DEF IInv, TypesOK, StoreOuter
<1>2. ddr2_buf' \in [Words -> Int]
  BY <1>1, OuterPlace, ReadBack DEF IInv, TypesOK, StoreOuter
<1>3. TypesOK' /\ SlotsFit'
  BY <1>1, <1>2 DEF IInv, TypesOK, SlotsFit, StoreOuter
<1>4. CountsFit'
  <2> SUFFICES ASSUME NEW q \in Partitions
               PROVE  /\ inner_counts'[q] <= HT_MAX_ROWS
                      /\ 2 * outer_counts'[q] <= slot_words'
                      /\ q >= K' => inner_counts'[q] = 0 /\ outer_counts'[q] = 0
    BY DEF CountsFit
  <2>1. K \in Nat /\ p \in Int /\ q \in Int
    BY MemoryAssumption DEF IInv, TypesOK, Partitions
  <2> QED BY <1>1, <2>1, MemoryAssumption DEF IInv, TypesOK, CountsFit, StoreOuter
<1> QED BY <1>3, <1>4 DEF IInv

LEMMA NextInv == IInv /\ [Next]_vars => IInv'
<1> SUFFICES ASSUME IInv, [Next]_vars PROVE IInv'
  OBVIOUS
<1>1. ASSUME NEW n \in Totals, NEW m \in Totals, StartSession(n, m) PROVE IInv'
  BY <1>1, StartInv
<1>2. ASSUME NEW p \in Partitions, NEW row \in Rows, StoreInner(p, row) PROVE IInv'
  BY <1>2, StoreInnerInv
<1>3. ASSUME NEW p \in Partitions, NEW row \in Rows, StoreOuter(p, row) PROVE IInv'
  BY <1>3, StoreOuterInv
<1>4. CASE UNCHANGED vars
  BY <1>4 DEF vars, IInv, TypesOK, SlotsFit, CountsFit
<1> QED BY <1>1, <1>2, <1>3, <1>4 DEF Next

LEMMA Invariance == Spec => []IInv
<1>1. Init => IInv
  BY InitInv
<1>2. IInv /\ [Next]_vars => IInv'
  BY NextInv
<1> QED BY <1>1, <1>2, PTL DEF Spec

\* No index that hash_join_grace.hpp computes (lines 118 and 191) leaves
\* ddr2_buf, whatever a CONFIGURE announces: inner rows stay below the outer
\* area and outer rows below the end of the memory.
THEOREM MemorySafe == Spec => []RowsInMemory
<1>1. IInv => RowsInMemory
  <2> SUFFICES ASSUME IInv, NEW p \in Partitions
               PROVE  /\ inner_counts[p] > 0 =>
                             /\ p < K
                             /\ InnerAddress(p, inner_counts[p] - 1) + 1
                                    < GRACE_OUTER_AREA_BASE
                      /\ outer_counts[p] > 0 =>
                             OuterAddress(p, outer_counts[p] - 1, slot_words) + 1
                                 < GRACE_DDR2_TOTAL_WORDS
    BY DEF RowsInMemory
  <2>1. /\ inner_counts[p] \in Nat /\ inner_counts[p] <= HT_MAX_ROWS
        /\ outer_counts[p] \in Nat /\ 2 * outer_counts[p] <= slot_words
        /\ K \in Nat /\ p \in Int /\ slot_words \in Nat
    BY MemoryAssumption DEF IInv, TypesOK, CountsFit, Partitions
  <2>2. inner_counts[p] > 0 \/ outer_counts[p] > 0 => p < K
    BY <2>1 DEF IInv, CountsFit
  <2>3. ASSUME inner_counts[p] > 0
        PROVE  InnerAddress(p, inner_counts[p] - 1) + 1 < GRACE_OUTER_AREA_BASE
    BY <2>1, <2>2, <2>3, InnerPlace, MemoryAssumption
  <2>4. ASSUME outer_counts[p] > 0
        PROVE  OuterAddress(p, outer_counts[p] - 1, slot_words) + 1
                   < GRACE_DDR2_TOTAL_WORDS
    <3>1. /\ outer_counts[p] - 1 \in Nat
          /\ 2 * (outer_counts[p] - 1) + 2 <= slot_words
      BY <2>1, <2>4
    <3>2. OuterAddress(p, outer_counts[p] - 1, slot_words) + 1 \in Words
      BY <2>2, <2>4, <3>1, OuterPlace
    <3> QED BY <3>2, MemoryAssumption DEF Words
  <2> QED BY <2>2, <2>3, <2>4
<1> QED BY <1>1, Invariance, PTL

-----------------------------------------------------------------------------
(* Refinement.                                                             *)

\* What can be read from the memory.
ReadRow == [key : Int, tid : [blkno : Int, offno : Int]]

LEMMA ReadType ==
    ASSUME NEW buf \in [Words -> Int], NEW w \in Words, w + 1 \in Words
    PROVE  unpack_tuple(buf, w) \in ReadRow
<1>1. OFFNO_RANGE \in Nat \ {0} /\ OFFNO_RANGE * OFFNO_RANGE \in Nat \ {0}
  BY MemoryAssumption
<1>2. buf[w] \in Int /\ buf[w + 1] \in Int
  OBVIOUS
<1>3. /\ buf[w + 1] \div (OFFNO_RANGE * OFFNO_RANGE) \in Int
      /\ (buf[w + 1] \div OFFNO_RANGE) % OFFNO_RANGE \in Int
  BY <1>1, <1>2
<1> QED BY <1>2, <1>3 DEF unpack_tuple, ReadRow

\* A sequence that agrees with s and has one more element.
LEMMA OneMore ==
    ASSUME NEW S, NEW n \in Nat, NEW s \in [1..n -> S], NEW t \in [1..(n + 1) -> S],
           \A i \in 1..n : t[i] = s[i]
    PROVE  t = Append(s, t[n + 1])
<1>1. s \in Seq(S) /\ Len(s) = n /\ t \in Seq(S) /\ Len(t) = n + 1
  OBVIOUS
<1>2. t[n + 1] \in S
  OBVIOUS
<1> DEFINE a == Append(s, t[n + 1])
<1>3. /\ a \in Seq(S) /\ Len(a) = n + 1
      /\ \A i \in 1..n : a[i] = s[i]
      /\ a[n + 1] = t[n + 1]
  BY <1>1, <1>2, AppendProperties
<1> HIDE DEF a
<1>4. \A i \in 1..(n + 1) : t[i] = a[i]
  BY <1>3
<1>5. t = a
  BY <1>1, <1>3, <1>4, SeqEqual
<1> QED BY <1>5 DEF a

\* The rows of the inner slots lie in the memory.
LEMMA InnerRead ==
    ASSUME IInv, NEW q \in Partitions, NEW i \in 1..inner_counts[q]
    PROVE  /\ q < K /\ i - 1 \in Nat /\ i - 1 < HT_MAX_ROWS
           /\ InnerAddress(q, i - 1) \in Words
           /\ InnerAddress(q, i - 1) + 1 \in Words
           /\ InnerAddress(q, i - 1) + 1 < GRACE_OUTER_AREA_BASE
<1>1. /\ inner_counts[q] \in Nat /\ inner_counts[q] <= HT_MAX_ROWS /\ K \in Nat /\ q \in Int
      /\ q >= K => inner_counts[q] = 0
  BY MemoryAssumption DEF IInv, TypesOK, CountsFit, Partitions
<1>2. q < K /\ i - 1 \in Nat /\ i - 1 < HT_MAX_ROWS
  BY <1>1, MemoryAssumption
<1> QED BY <1>2, InnerPlace

\* So do those of the outer slots.
LEMMA OuterRead ==
    ASSUME IInv, NEW q \in Partitions, NEW j \in 1..outer_counts[q]
    PROVE  /\ q < K /\ j - 1 \in Nat /\ 2 * (j - 1) + 2 <= slot_words
           /\ OuterAddress(q, j - 1, slot_words) \in Words
           /\ OuterAddress(q, j - 1, slot_words) + 1 \in Words
           /\ OuterAddress(q, j - 1, slot_words) >= GRACE_OUTER_AREA_BASE
<1>1. /\ outer_counts[q] \in Nat /\ 2 * outer_counts[q] <= slot_words
      /\ K \in Nat /\ q \in Int /\ slot_words \in Nat
      /\ q >= K => outer_counts[q] = 0
  BY MemoryAssumption DEF IInv, TypesOK, CountsFit, Partitions
<1>2. q < K /\ j - 1 \in Nat /\ 2 * (j - 1) + 2 <= slot_words
  BY <1>1
<1> QED BY <1>2, OuterPlace

\* An inner row changes the slot it is appended to and nothing else.
LEMMA StoreInnerStep ==
    ASSUME IInv, NEW p \in Partitions, NEW row \in Rows, StoreInner(p, row)
    PROVE  Abstract!PutInner(p, row)
<1> DEFINE n == inner_counts[p]
           w == InnerAddress(p, n)
<1>1. n \in Nat /\ n < HT_MAX_ROWS /\ p < K
  BY DEF IInv, TypesOK, StoreInner
<1>2. w \in Words /\ w + 1 \in Words /\ w + 1 < GRACE_OUTER_AREA_BASE
  BY <1>1, InnerPlace
<1>3. /\ ddr2_buf \in [Words -> Int] /\ inner_counts \in [Partitions -> Nat]
      /\ ddr2_buf' = pack_tuple(ddr2_buf, w, row)
      /\ inner_counts' = [inner_counts EXCEPT ![p] = n + 1]
      /\ outer_counts' = outer_counts /\ slot_words' = slot_words
  BY DEF IInv, TypesOK, StoreInner
<1>4. unpack_tuple(ddr2_buf', w) = row
  BY <1>2, <1>3, ReadBack
<1>5. ASSUME NEW v \in Words, v + 1 \in Words, v + 1 < w \/ w + 1 < v
      PROVE  unpack_tuple(ddr2_buf', v) = unpack_tuple(ddr2_buf, v)
  BY <1>2, <1>3, <1>5, Untouched
<1>6. OuterRows' = OuterRows
  <2>1. ASSUME NEW q \in Partitions, NEW j \in 1..outer_counts[q]
        PROVE  unpack_tuple(ddr2_buf', OuterAddress(q, j - 1, slot_words))
                   = unpack_tuple(ddr2_buf, OuterAddress(q, j - 1, slot_words))
    <3>1. /\ OuterAddress(q, j - 1, slot_words) \in Words
          /\ OuterAddress(q, j - 1, slot_words) + 1 \in Words
          /\ OuterAddress(q, j - 1, slot_words) >= GRACE_OUTER_AREA_BASE
      BY <2>1, OuterRead
    <3>2. w + 1 < OuterAddress(q, j - 1, slot_words)
      BY <1>2, <3>1, LayoutTypes, MemoryAssumption DEF Words
    <3> QED BY <1>5, <3>1, <3>2
  <2> QED BY <1>3, <2>1 DEF OuterRows
<1>7. ASSUME NEW q \in Partitions, NEW i \in 1..inner_counts[q]
      PROVE  unpack_tuple(ddr2_buf', InnerAddress(q, i - 1))
                 = unpack_tuple(ddr2_buf, InnerAddress(q, i - 1))
  <2>1. /\ i - 1 \in Nat /\ i - 1 < HT_MAX_ROWS
        /\ InnerAddress(q, i - 1) \in Words /\ InnerAddress(q, i - 1) + 1 \in Words
    BY <1>7, InnerRead
  <2>2. q # p \/ i - 1 # n
    BY <1>1, <1>7
  <2>3. /\ p \in Nat /\ q \in Nat /\ GRACE_INNER_SLOT_WORDS \in Nat
        /\ 2 * (i - 1) + 2 <= GRACE_INNER_SLOT_WORDS
        /\ 2 * n + 2 <= GRACE_INNER_SLOT_WORDS
    BY <1>1, <2>1, LayoutTypes, MemoryAssumption DEF Partitions
  <2>4. \/ InnerAddress(q, i - 1) + 1 < w
        \/ w + 1 < InnerAddress(q, i - 1)
    BY <1>1, <2>1, <2>2, <2>3, PlacesApart, LayoutTypes DEF InnerAddress
  <2> QED BY <1>5, <2>1, <2>4
<1>8. InnerRows'[p] = Append(InnerRows[p], row)
  <2> DEFINE s == InnerRows[p]
             t == InnerRows'[p]
  <2>1. s = [i \in 1..n |-> unpack_tuple(ddr2_buf, InnerAddress(p, i - 1))]
    BY DEF InnerRows
  <2>2. t = [i \in 1..(n + 1) |-> unpack_tuple(ddr2_buf', InnerAddress(p, i - 1))]
    BY <1>3 DEF InnerRows
  <2>3. s \in [1..n -> ReadRow]
    BY <1>3, <2>1, InnerRead, ReadType
  <2>4. \A i \in 1..n : t[i] = s[i]
    BY <1>1, <1>7, <2>1, <2>2
  <2>5. t[n + 1] = row
    BY <1>1, <1>4, <2>2
  <2>6. ddr2_buf' \in [Words -> Int]
    BY <1>2, <1>3, ReadBack
  <2>7. row \in ReadRow
    BY <1>2, <1>4, <2>6, ReadType
  <2> HIDE DEF s, t
  <2>8. t \in [1..(n + 1) -> ReadRow]
    <3>1. \A i \in 1..(n + 1) : i \in 1..n \/ i = n + 1
      BY <1>1
    <3>2. \A i \in 1..(n + 1) : t[i] \in ReadRow
      BY <2>3, <2>4, <2>5, <2>7, <3>1
    <3> QED BY <2>2, <3>2
  <2>9. t = Append(s, row)
    BY <1>1, <2>3, <2>4, <2>5, <2>8, OneMore
  <2> QED BY <2>9 DEF s, t
<1>9. ASSUME NEW q \in Partitions, q # p
      PROVE  InnerRows'[q] = InnerRows[q]
  <2>1. inner_counts'[q] = inner_counts[q]
    BY <1>3, <1>9
  <2> QED BY <1>7, <2>1 DEF InnerRows
<1>10. InnerRows' = [InnerRows EXCEPT ![p] = Append(@, row)]
  <2>1. /\ InnerRows = [q \in Partitions |-> InnerRows[q]]
        /\ InnerRows' = [q \in Partitions |-> InnerRows'[q]]
    BY DEF InnerRows
  <2> QED BY <1>8, <1>9, <2>1
<1> QED BY <1>6, <1>10 DEF Abstract!PutInner

\* An outer row changes the slot it is appended to and nothing else.
LEMMA StoreOuterStep ==
    ASSUME IInv, NEW p \in Partitions, NEW row \in Rows, StoreOuter(p, row)
    PROVE  Abstract!PutOuter(p, row)
<1> DEFINE n == outer_counts[p]
           w == OuterAddress(p, n, slot_words)
<1>1. n \in Nat /\ slot_words \in Nat /\ 2 * n + 2 <= slot_words /\ p < K
  BY LayoutTypes DEF IInv, TypesOK, StoreOuter
<1>2. w \in Words /\ w + 1 \in Words /\ w >= GRACE_OUTER_AREA_BASE
  BY <1>1, OuterPlace
<1>3. /\ ddr2_buf \in [Words -> Int] /\ outer_counts \in [Partitions -> Nat]
      /\ ddr2_buf' = pack_tuple(ddr2_buf, w, row)
      /\ outer_counts' = [outer_counts EXCEPT ![p] = n + 1]
      /\ inner_counts' = inner_counts /\ slot_words' = slot_words
  BY DEF IInv, TypesOK, StoreOuter
<1>4. unpack_tuple(ddr2_buf', w) = row
  BY <1>2, <1>3, ReadBack
<1>5. ASSUME NEW v \in Words, v + 1 \in Words, v + 1 < w \/ w + 1 < v
      PROVE  unpack_tuple(ddr2_buf', v) = unpack_tuple(ddr2_buf, v)
  BY <1>2, <1>3, <1>5, Untouched
<1>6. InnerRows' = InnerRows
  <2>1. ASSUME NEW q \in Partitions, NEW i \in 1..inner_counts[q]
        PROVE  unpack_tuple(ddr2_buf', InnerAddress(q, i - 1))
                   = unpack_tuple(ddr2_buf, InnerAddress(q, i - 1))
    <3>1. /\ InnerAddress(q, i - 1) \in Words
          /\ InnerAddress(q, i - 1) + 1 \in Words
          /\ InnerAddress(q, i - 1) + 1 < GRACE_OUTER_AREA_BASE
      BY <2>1, InnerRead
    <3>2. InnerAddress(q, i - 1) + 1 < w
      BY <1>2, <3>1, LayoutTypes, MemoryAssumption DEF Words
    <3> QED BY <1>5, <3>1, <3>2
  <2> QED BY <1>3, <2>1 DEF InnerRows
<1>7. ASSUME NEW q \in Partitions, NEW j \in 1..outer_counts[q]
      PROVE  unpack_tuple(ddr2_buf', OuterAddress(q, j - 1, slot_words))
                 = unpack_tuple(ddr2_buf, OuterAddress(q, j - 1, slot_words))
  <2> DEFINE v == OuterAddress(q, j - 1, slot_words)
  <2>1. /\ j - 1 \in Nat /\ 2 * (j - 1) + 2 <= slot_words
        /\ v \in Words /\ v + 1 \in Words
    BY <1>7, OuterRead
  <2>2. q # p \/ j - 1 # n
    BY <1>1, <1>7
  <2>3. p \in Nat /\ q \in Nat
    BY MemoryAssumption DEF Partitions
  <2>4. \/ (q * slot_words + (j - 1) * 2) + 1 < p * slot_words + n * 2
        \/ (p * slot_words + n * 2) + 1 < q * slot_words + (j - 1) * 2
    BY <1>1, <2>1, <2>2, <2>3, PlacesApart
  <2>5. /\ v = GRACE_OUTER_AREA_BASE + (q * slot_words + (j - 1) * 2)
        /\ w = GRACE_OUTER_AREA_BASE + (p * slot_words + n * 2)
        /\ q * slot_words + (j - 1) * 2 \in Int
        /\ p * slot_words + n * 2 \in Int
    <3>1. q * slot_words \in Nat /\ p * slot_words \in Nat
      BY <1>1, <2>3
    <3> QED BY <1>1, <2>1, <3>1, LayoutTypes DEF OuterAddress
  <2>6. v + 1 < w \/ w + 1 < v
    BY <2>4, <2>5, LayoutTypes
  <2> QED BY <1>5, <2>1, <2>6
<1>8. OuterRows'[p] = Append(OuterRows[p], row)
  <2> DEFINE s == OuterRows[p]
             t == OuterRows'[p]
  <2>1. s = [j \in 1..n |-> unpack_tuple(ddr2_buf, OuterAddress(p, j - 1, slot_words))]
    BY DEF OuterRows
  <2>2. t = [j \in 1..(n + 1) |->
                unpack_tuple(ddr2_buf', OuterAddress(p, j - 1, slot_words))]
    BY <1>3 DEF OuterRows
  <2>3. s \in [1..n -> ReadRow]
    BY <1>3, <2>1, OuterRead, ReadType
  <2>4. \A j \in 1..n : t[j] = s[j]
    BY <1>1, <1>7, <2>1, <2>2
  <2>5. t[n + 1] = row
    BY <1>1, <1>4, <2>2
  <2>6. ddr2_buf' \in [Words -> Int]
    BY <1>2, <1>3, ReadBack
  <2>7. row \in ReadRow
    BY <1>2, <1>4, <2>6, ReadType
  <2> HIDE DEF s, t
  <2>8. t \in [1..(n + 1) -> ReadRow]
    <3>1. \A j \in 1..(n + 1) : j \in 1..n \/ j = n + 1
      BY <1>1
    <3>2. \A j \in 1..(n + 1) : t[j] \in ReadRow
      BY <2>3, <2>4, <2>5, <2>7, <3>1
    <3> QED BY <2>2, <3>2
  <2>9. t = Append(s, row)
    BY <1>1, <2>3, <2>4, <2>5, <2>8, OneMore
  <2> QED BY <2>9 DEF s, t
<1>9. ASSUME NEW q \in Partitions, q # p
      PROVE  OuterRows'[q] = OuterRows[q]
  <2>1. outer_counts'[q] = outer_counts[q] /\ slot_words' = slot_words
    BY <1>3, <1>9
  <2> QED BY <1>7, <2>1 DEF OuterRows
<1>10. OuterRows' = [OuterRows EXCEPT ![p] = Append(@, row)]
  <2>1. /\ OuterRows = [q \in Partitions |-> OuterRows[q]]
        /\ OuterRows' = [q \in Partitions |-> OuterRows'[q]]
    BY DEF OuterRows
  <2> QED BY <1>8, <1>9, <2>1
<1> QED BY <1>6, <1>10 DEF Abstract!PutOuter

LEMMA StepSimulates == IInv /\ [Next]_vars => [Abstract!Next]_<<InnerRows, OuterRows>>
<1> SUFFICES ASSUME IInv, [Next]_vars
             PROVE  [Abstract!Next]_<<InnerRows, OuterRows>>
  OBVIOUS
<1>1. ASSUME NEW n \in Totals, NEW m \in Totals, StartSession(n, m)
      PROVE  Abstract!Clear
  <2>1. inner_counts' = NoCounts /\ outer_counts' = NoCounts
    BY <1>1 DEF StartSession
  <2>2. \A p \in Partitions : 1..inner_counts'[p] = {} /\ 1..outer_counts'[p] = {}
    BY <2>1 DEF NoCounts
  <2>3. \A p \in Partitions : InnerRows'[p] = <<>> /\ OuterRows'[p] = <<>>
    BY <2>2 DEF InnerRows, OuterRows
  <2> QED BY <2>3 DEF InnerRows, OuterRows, Abstract!Clear, Abstract!NoRows
<1>2. ASSUME NEW p \in Partitions, NEW row \in Rows, StoreInner(p, row)
      PROVE  Abstract!PutInner(p, row)
  BY <1>2, StoreInnerStep
<1>3. ASSUME NEW p \in Partitions, NEW row \in Rows, StoreOuter(p, row)
      PROVE  Abstract!PutOuter(p, row)
  BY <1>3, StoreOuterStep
<1>4. CASE UNCHANGED vars
  BY <1>4 DEF vars, InnerRows, OuterRows
<1> QED BY <1>1, <1>2, <1>3, <1>4 DEF Next, Abstract!Next

LEMMA InitSimulates == Init => Abstract!Init
<1> SUFFICES ASSUME Init PROVE Abstract!Init
  OBVIOUS
<1>1. \A p \in Partitions : 1..inner_counts[p] = {} /\ 1..outer_counts[p] = {}
  BY DEF Init, NoCounts
<1>2. \A p \in Partitions : InnerRows[p] = <<>> /\ OuterRows[p] = <<>>
  BY <1>1 DEF InnerRows, OuterRows
<1> QED BY <1>2 DEF InnerRows, OuterRows, Abstract!Init, Abstract!NoRows

\* The DDR2 addresses of hash_join_grace.hpp implement independent row
\* sequences: join_all_partitions reads of every partition exactly the rows
\* put into it in this session, in order, for every number of partitions,
\* slot size and width of uint32_t.
THEOREM MemoryRefinement == Spec => ImplementsPartitions
<1>1. QED
  BY InitSimulates, StepSimulates, Invariance, PTL
  DEF Spec, ImplementsPartitions, Abstract!Spec

=============================================================================
