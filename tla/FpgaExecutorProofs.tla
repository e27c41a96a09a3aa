------------------------- MODULE FpgaExecutorProofs -------------------------
(***************************************************************************)
(* Proofs about FpgaExecutor, for every setting, estimate, query and       *)
(* table: the planner's and the adapter's tests of the sizes agree, and    *)
(* the scan returns the rows of the SQL join as of its snapshot.           *)
(***************************************************************************)
EXTENDS FpgaExecutor, FiniteSetTheorems, SequenceTheorems, TLAPS

\* The planner has found that its estimates fit, under the settings of then.
PlanFits ==
    /\ plan.gucs \in Gucs /\ plan.rows \in [Tables -> Nat]
    /\ {plan.path.inner, plan.path.outer} \subseteq Tables
    /\ EstimateFits(plan.gucs, plan.rows[plan.path.inner], plan.rows[plan.path.outer])

\* A refused statement had a plan and did not fit when it was run.
Refused ==
    /\ spc \notin {"parsed", "on_cpu"} => PlanFits
    /\ spc = "refused" => parse_algorithm(gucs.algorithm) # "throws" /\ ~AdapterAccepts
    /\ gucs \in Gucs /\ query \in Queries

-----------------------------------------------------------------------------
\* The hook's path is for tables of the join, and the sizes fit that way round.
LEMMA HookChecksSizes ==
    ASSUME NEW g, NEW q, NEW outerrel, NEW innerrel,
           NEW path \in fpga_planner_hook(g, q, outerrel, innerrel)
    PROVE  \/ /\ path.inner = innerrel.table /\ path.outer = outerrel.table
              /\ EstimateFits(g, innerrel.rows, outerrel.rows)
           \/ /\ path.inner = outerrel.table /\ path.outer = innerrel.table
              /\ EstimateFits(g, outerrel.rows, innerrel.rows)
<1>1. \A o, i : CustomPath(q, o, i).inner = i.table /\ CustomPath(q, o, i).outer = o.table
  BY DEF CustomPath
<1>2. \/ path = CustomPath(q, outerrel, innerrel) /\ fpga_is_offloadable(g, q, outerrel, innerrel)
      \/ path = CustomPath(q, innerrel, outerrel) /\ EstimateFits(g, outerrel.rows, innerrel.rows)
  BY Zenon DEF fpga_planner_hook
<1>3. fpga_is_offloadable(g, q, outerrel, innerrel) => EstimateFits(g, innerrel.rows, outerrel.rows)
  BY Zenon DEF fpga_is_offloadable
<1> QED
  BY <1>1, <1>2, <1>3, Zenon

\* What the planner takes for algorithm A or B the adapter takes for the same.
LEMMA SameAlgorithm ==
    ASSUME NEW name \in DOMAIN lowercase, parse_algorithm(name) # "throws"
    PROVE  fpga_algorithm_is_b(name) <=> parse_algorithm(name) # "A"
<1>1. CASE name \in {"", "a", "A", "algorithm_a", "linear"}
  <2>1. parse_algorithm(name) = "A"
    BY <1>1 DEF parse_algorithm
  <2>2. lowercase[name] \in {"", "a", "algorithm_a", "linear"}
    BY <1>1, LowercaseAssumption
  <2>3. ~fpga_algorithm_is_b(name)
    BY <2>2 DEF fpga_algorithm_is_b
  <2> QED
    BY <2>1, <2>3
<1>2. CASE name \in {"b", "B", "algorithm_b", "grace"}
  <2>1. parse_algorithm(name) = "B"
    BY <1>2 DEF parse_algorithm
  <2>2. lowercase[name] \in {"b", "algorithm_b", "grace"}
    BY <1>2, LowercaseAssumption
  <2> QED
    BY <2>1, <2>2 DEF fpga_algorithm_is_b
<1> QED
  BY <1>1, <1>2 DEF parse_algorithm

\* The planner's test implies the adapter's, for the same sizes and settings.
LEMMA TestsAgree ==
    ASSUME NEW g \in Gucs, NEW i \in Nat, NEW o \in Nat,
           parse_algorithm(g.algorithm) # "throws", g.max_inner_rows <= HT_MAX_ROWS,
           EstimateFits(g, i, o)
    PROVE  IF parse_algorithm(g.algorithm) = "A" THEN i <= HT_MAX_ROWS
           ELSE grace_ddr_layout_fits(i, o)
<1>1. g.algorithm \in DOMAIN lowercase /\ g.max_inner_rows \in Nat /\ HT_MAX_ROWS \in Nat
  BY QueryAssumption
<1>2. fpga_algorithm_is_b(g.algorithm) <=> parse_algorithm(g.algorithm) # "A"
  BY <1>1, SameAlgorithm
<1>3. CASE parse_algorithm(g.algorithm) = "A"
  <2>1. i <= g.max_inner_rows
    BY <1>2, <1>3 DEF EstimateFits
  <2>2. i <= HT_MAX_ROWS
    BY <1>1, <2>1
  <2> QED
    BY <1>3, <2>2
<1>4. CASE parse_algorithm(g.algorithm) # "A"
  <2>1. fpga_grace_estimate_fits(i, o)
    BY <1>2, <1>4 DEF EstimateFits
  <2>2. grace_ddr_layout_fits(i, o)
    BY <2>1, Zenon DEF fpga_grace_estimate_fits, fpga_grace_estimate_k, grace_ddr_layout_fits
  <2> QED
    BY <1>4, <2>2
<1> QED
  BY <1>3, <1>4

-----------------------------------------------------------------------------
LEMMA RefusedStart == Init => Refused
BY DEF Init, Refused

\* A step that leaves the plan and the settings alone.
LEMMA PlanKept ==
    ASSUME Refused, UNCHANGED <<gucs, query, plan>>,
           spc' \notin {"parsed", "on_cpu"} => spc \notin {"parsed", "on_cpu"},
           spc' # "refused" \/ (spc = "refused" /\ UNCHANGED <<inner_arr, outer_arr, spc>>)
    PROVE  Refused'
<1>1. gucs' = gucs /\ query' = query /\ plan' = plan
  OBVIOUS
<1>2. PlanFits' <=> PlanFits
  BY <1>1, Zenon DEF PlanFits
<1>3. CASE spc' # "refused"
  BY <1>1, <1>2, <1>3, Zenon DEF Refused
<1>4. CASE spc = "refused" /\ UNCHANGED <<inner_arr, outer_arr, spc>>
  <2>1. AdapterAccepts' <=> AdapterAccepts
    BY <1>1, <1>4 DEF AdapterAccepts, DedupCount
  <2> QED
    BY <1>1, <1>2, <1>4, <2>1 DEF Refused
<1> QED
  BY <1>3, <1>4

LEMMA PlanChecks == ASSUME Refused, Plan PROVE Refused'
<1>1. gucs' = gucs /\ query' = query /\ gucs \in Gucs /\ query \in Queries
  BY DEF Plan, Refused
<1>2. PICK rows \in [Tables -> Estimates] :
        LET rel(t) == [table |-> t, rows |-> rows[t], reloptkind |-> query.reloptkind[t],
                       indexlist |-> indexlist[t]]
            t1 == query.tables[1]
            t2 == query.tables[2]
            paths == fpga_planner_hook(gucs, query, rel(t1), rel(t2))
                     \cup fpga_planner_hook(gucs, query, rel(t2), rel(t1))
        IN \/ paths = {} /\ spc' = "on_cpu" /\ UNCHANGED plan
           \/ \E path \in paths : /\ spc' = "planned"
                                  /\ plan' = [path |-> path, gucs |-> gucs, rows |-> rows]
  BY Zenon DEF Plan
<1> DEFINE rel(t) == [table |-> t, rows |-> rows[t], reloptkind |-> query.reloptkind[t],
                      indexlist |-> indexlist[t]]
           t1 == query.tables[1]
           t2 == query.tables[2]
<1>3. CASE spc' = "on_cpu"
  BY <1>1, <1>3 DEF Refused
<1>4. ASSUME NEW path \in fpga_planner_hook(gucs, query, rel(t1), rel(t2))
                          \cup fpga_planner_hook(gucs, query, rel(t2), rel(t1)),
             spc' = "planned", plan' = [path |-> path, gucs |-> gucs, rows |-> rows]
      PROVE  Refused'
  <2>1. t1 \in Tables /\ t2 \in Tables
    BY <1>1, ClauseAssumption
  <2>2. \A t : rel(t).table = t /\ rel(t).rows = rows[t]
    OBVIOUS
  <2>3. plan'.path = path /\ plan'.gucs = gucs /\ plan'.rows = rows
    BY <1>4
  <2>4. rows \in [Tables -> Nat]
    BY QueryAssumption
  <2> HIDE DEF rel, t1, t2
  <2>5. \/ /\ path.inner = t1 /\ path.outer = t2
           /\ EstimateFits(gucs, rows[t1], rows[t2])
        \/ /\ path.inner = t2 /\ path.outer = t1
           /\ EstimateFits(gucs, rows[t2], rows[t1])
    <3>1. CASE path \in fpga_planner_hook(gucs, query, rel(t1), rel(t2))
      <4>1. \/ /\ path.inner = rel(t2).table /\ path.outer = rel(t1).table
               /\ EstimateFits(gucs, rel(t2).rows, rel(t1).rows)
            \/ /\ path.inner = rel(t1).table /\ path.outer = rel(t2).table
               /\ EstimateFits(gucs, rel(t1).rows, rel(t2).rows)
        BY <3>1, HookChecksSizes, Zenon
      <4> QED
        BY <2>2, <4>1, Zenon
    <3>2. CASE path \in fpga_planner_hook(gucs, query, rel(t2), rel(t1))
      <4>1. \/ /\ path.inner = rel(t1).table /\ path.outer = rel(t2).table
               /\ EstimateFits(gucs, rel(t1).rows, rel(t2).rows)
            \/ /\ path.inner = rel(t2).table /\ path.outer = rel(t1).table
               /\ EstimateFits(gucs, rel(t2).rows, rel(t1).rows)
        BY <3>2, HookChecksSizes, Zenon
      <4> QED
        BY <2>2, <4>1, Zenon
    <3> QED
      BY <1>4, <3>1, <3>2
  <2>6. EstimateFits(gucs, rows[path.inner], rows[path.outer])
        /\ path.inner \in Tables /\ path.outer \in Tables
    BY <2>1, <2>5, Zenon
  <2>7. EstimateFits(plan.gucs, plan.rows[plan.path.inner], plan.rows[plan.path.outer])'
    BY <2>3, <2>6, Zenon DEF EstimateFits
  <2>8. PlanFits'
    BY <1>1, <2>3, <2>4, <2>6, <2>7 DEF PlanFits
  <2>9. spc' # "refused"
    BY <1>4
  <2> QED
    BY <1>1, <2>8, <2>9 DEF Refused
<1> QED
  BY <1>2, <1>3, <1>4, Zenon

LEMMA RefusedStep == Refused /\ [Next]_vars => Refused'
<1> SUFFICES ASSUME Refused, [Next]_vars PROVE Refused'
  OBVIOUS
<1> USE DEF scan
<1>1. CASE Plan
  BY <1>1, PlanChecks
<1>2. CASE Set
  <2>1. gucs' \in Gucs /\ plan' = plan /\ query' = query /\ spc' = spc /\ spc = "planned"
    BY <1>2 DEF Set
  <2>2. PlanFits' <=> PlanFits
    BY <2>1, Zenon DEF PlanFits
  <2> QED
    BY <2>1, <2>2 DEF Refused
<1>3. CASE DropIndex
  BY <1>3 DEF DropIndex, Refused
<1>4. CASE ExplainOnly
  BY <1>4, PlanKept DEF ExplainOnly
<1>5. CASE BeginScan
  BY <1>5, PlanKept DEF BeginScan
<1>6. CASE DrainInner
  BY <1>6, PlanKept DEF DrainInner
<1>7. CASE DrainOuter
  BY <1>7, PlanKept DEF DrainOuter
<1>8. CASE AdapterThrows
  BY <1>8, PlanKept DEF AdapterThrows
<1>9. CASE AdapterFails
  <2>1. /\ spc = "run" /\ parse_algorithm(gucs.algorithm) # "throws"
        /\ spc' = IF AdapterAccepts THEN "failed" ELSE "refused"
        /\ gucs' = gucs /\ query' = query /\ plan' = plan
        /\ inner_arr' = inner_arr /\ outer_arr' = outer_arr
    BY <1>9 DEF AdapterFails
  <2>2. PlanFits' <=> PlanFits
    BY <2>1, Zenon DEF PlanFits
  <2>3. AdapterAccepts' <=> AdapterAccepts
    BY <2>1 DEF AdapterAccepts, DedupCount
  <2> QED
    BY <2>1, <2>2, <2>3 DEF Refused
<1>10. CASE AdapterReturns
  BY <1>10, PlanKept DEF AdapterReturns
<1>11. CASE ExecFetch
  BY <1>11, PlanKept DEF ExecFetch
<1>12. CASE ExecEnd
  BY <1>12, PlanKept DEF ExecEnd
<1>13. CASE EndScan
  BY <1>13, PlanKept DEF EndScan
<1>14. CASE Rescan
  BY <1>14, PlanKept DEF Rescan
<1>15. CASE Others
  BY <1>15, PlanKept DEF Others, Over
<1>16. CASE UNCHANGED vars
  BY <1>16, PlanKept DEF vars
<1> QED
  BY <1>1, <1>2, <1>3, <1>4, <1>5, <1>6, <1>7, <1>8, <1>9, <1>10, <1>11, <1>12, <1>13,
     <1>14, <1>15, <1>16 DEF Next, Finished

\* A statement is refused for want of room only if an estimate was wrong, the
\* settings were changed since it was planned, or fpga.max_inner_rows is
\* beyond the table's size: the hook and the adapter otherwise agree.
THEOREM RefusalsForeseeable == Spec => []RefusalsWereForeseeable
<1>1. Refused => RefusalsWereForeseeable
  <2> SUFFICES ASSUME Refused, spc = "refused",
                      plan.rows[plan.path.inner] = DedupCount,
                      plan.rows[plan.path.outer] = Len(outer_arr),
                      plan.gucs = gucs, ~(gucs.max_inner_rows > HT_MAX_ROWS)
               PROVE  FALSE
    BY DEF RefusalsWereForeseeable
  <2>1. PlanFits /\ parse_algorithm(gucs.algorithm) # "throws" /\ ~AdapterAccepts
    BY DEF Refused
  <2>2. gucs \in Gucs /\ gucs.max_inner_rows \in Nat /\ HT_MAX_ROWS \in Nat
    BY QueryAssumption DEF Refused
  <2>3. gucs.max_inner_rows <= HT_MAX_ROWS
    BY <2>2
  <2> DEFINE i == DedupCount
             o == Len(outer_arr)
  <2>4. i \in Nat /\ o \in Nat /\ EstimateFits(gucs, i, o)
    <3>1. plan.rows[plan.path.inner] \in Nat /\ plan.rows[plan.path.outer] \in Nat
      BY <2>1 DEF PlanFits
    <3>2. EstimateFits(plan.gucs, plan.rows[plan.path.inner], plan.rows[plan.path.outer])
      BY <2>1, Zenon DEF PlanFits
    <3> QED
      BY <3>1, <3>2, Zenon
  <2> HIDE DEF i, o
  <2>5. IF parse_algorithm(gucs.algorithm) = "A" THEN i <= HT_MAX_ROWS
        ELSE grace_ddr_layout_fits(i, o)
    BY <2>1, <2>2, <2>3, <2>4, TestsAgree, Zenon
  <2> QED
    BY <2>1, <2>5, Zenon DEF AdapterAccepts, i, o
<1> QED
  BY <1>1, RefusedStart, RefusedStep, PTL DEF Spec

-----------------------------------------------------------------------------
(***************************************************************************)
(* The answer to the query.                                                *)
(***************************************************************************)
\* Whenever the hook takes a query, its one equijoin clause is the only one.
NoOtherClauses ==
    \A q \in Queries : find_equijoin_key(q.restrictlist) =>
                          q.restrictlist = EquijoinClauses(q.restrictlist)

Columns == {"key", "val"}

\* Tables hold one version per TID, of the past.
Tuples ==
    /\ heap \in [Tables -> SUBSET Version] /\ indexlist \in [Tables -> SUBSET Index]
    /\ now \in 0..MaxWrites /\ snapshot \in -1..now
    /\ \A t \in Tables :
          /\ IsFiniteSet(heap[t])
          /\ \A v \in heap[t] : v.born <= now /\ v.dead <= now
          /\ \A v, w \in heap[t] : v.tid = w.tid => v = w

\* The rows of a table that are seen at a time.
SeenAt(t, time) == {RowOf(v) : v \in RowsAt(t, time)}

\* No two rows seen at a time have the same value in the column.
UniqueAt(t, c, time) ==
    \A v, w \in SeenAt(t, time) : v[c] = w[c] /\ v[c] # Null => v = w

\* What a unique index says holds now, and for the snapshot.
Constraints ==
    \A t \in Tables, c \in Columns : IsUnique(t, c) =>
        UniqueAt(t, c, now) /\ (snapshot # -1 => UniqueAt(t, c, snapshot))

-----------------------------------------------------------------------------
\* Shorthands for the sides of the plan.
InnerTable == plan.path.inner
OuterTable == plan.path.outer

Matches(v, w) ==
    v[plan.path.inner_attno] = w[plan.path.outer_attno] /\ v[plan.path.inner_attno] # Null

\* A path joins the two tables of a query by its one equijoin clause.
PathJoins(path, q) ==
    /\ path.inner # path.outer
    /\ \/ path.inner = q.tables[1] /\ path.outer = q.tables[2]
       \/ path.inner = q.tables[2] /\ path.outer = q.tables[1]
    /\ path.inner_attno \in Columns /\ path.outer_attno \in Columns
    /\ q.jointype = "JOIN_INNER" /\ find_equijoin_key(q.restrictlist)
    /\ \E c : EquijoinClauses(q.restrictlist) = {c} /\ c.op = "="
              /\ \/ /\ c.left.table = path.inner /\ c.left.attno = path.inner_attno
                    /\ c.right.table = path.outer /\ c.right.attno = path.outer_attno
                 \/ /\ c.right.table = path.inner /\ c.right.attno = path.inner_attno
                    /\ c.left.table = path.outer /\ c.left.attno = path.outer_attno

\* So does the plan's, and its inner side is unique.
PlanSound ==
    PathJoins(plan.path, query) /\ IsUnique(InnerTable, plan.path.inner_attno)

\* The rows of a table that the statement's snapshot sees, and those with a key.
Seen(t) == SeenAt(t, snapshot)
Keyed(t, c) == {v \in Seen(t) : v[c] # Null}

\* The pairs of rows to return.
Matching == {s \in Seen(InnerTable) \X Seen(OuterTable) : Matches(s[1], s[2])}

Shown(s) == Beside(InnerTable, s[1], OuterTable, s[2])

Keep(v, c) == [key |-> v[c], tid |-> v.tid]

ArrRow == [key : Keys \cup Vals, tid : Tids]

\* The array lists the rows of the table that have a key, each once.
Lists(arr, t, c) ==
    /\ arr \in Seq(ArrRow)
    /\ ToSet(arr) = {Keep(v, c) : v \in Keyed(t, c)}
    /\ \A i, j \in DOMAIN arr : arr[i].tid = arr[j].tid => i = j

TidsOf(s) == [inner_tid |-> s[1].tid, outer_tid |-> s[2].tid]

\* The board's pairs are those of the rows to return, each once.
PairsRight ==
    /\ result_pairs \in Seq([inner_tid : Tids, outer_tid : Tids])
    /\ ToSet(result_pairs) = {TidsOf(s) : s \in Matching}
    /\ \A i, j \in DOMAIN result_pairs :
          result_pairs[i].outer_tid = result_pairs[j].outer_tid => i = j

\* So far every pair was found, and its rows were returned.
EmittedRight ==
    /\ result_cursor \in 0..Len(result_pairs) /\ Len(emitted) = result_cursor
    /\ \A i \in 1..result_cursor : \E s \in Matching :
          TidsOf(s) = result_pairs[i] /\ emitted[i] = Shown(s)

Scanning == {"drain_inner", "drain_outer", "run", "execute", "exhausted"}

\* If there is no other clause, these pairs are what SQL asks for.
Asked == NoOtherClauses => expected = {Shown(s) : s \in Matching}

ScanSound ==
    /\ spc \in Scanning => snapshot # -1 /\ Asked
    /\ spc \in {"drain_outer", "run", "execute", "exhausted"} =>
          Lists(inner_arr, InnerTable, plan.path.inner_attno)
    /\ spc \in {"run", "execute", "exhausted"} =>
          Lists(outer_arr, OuterTable, plan.path.outer_attno)
    /\ spc \in {"execute", "exhausted"} => PairsRight /\ EmittedRight
    /\ spc = "exhausted" => result_cursor = Len(result_pairs)

\* What holds at every moment, when the scan is over too.
Returned ==
    /\ inner_arr \in Seq(ArrRow) /\ outer_arr \in Seq(ArrRow)
    /\ result_pairs \in Seq([inner_tid : Tids, outer_tid : Tids])
    /\ result_cursor \in 0..Len(result_pairs)
    /\ emitted \in Seq(ToSet(emitted)) /\ (NoOtherClauses => ToSet(emitted) \subseteq expected)
    /\ \A i, j \in DOMAIN emitted : emitted[i] = emitted[j] => i = j
    /\ spc \notin {"execute", "exhausted", "ended", "failed"} =>
          result_pairs = <<>> /\ emitted = <<>>

Answering ==
    /\ Tuples /\ Constraints /\ query \in Queries
    /\ spc \notin {"parsed", "on_cpu"} => PlanSound
    /\ ScanSound /\ Returned

-----------------------------------------------------------------------------
(***************************************************************************)
(* Numbers, lists of a set, and the reference join.                        *)
(***************************************************************************)
\* Every non-empty set of numbers has a least one.
LEMMA LeastNumber ==
    ASSUME NEW S \in SUBSET Nat, S # {}
    PROVE  \E d \in S : \A e \in S : d <= e
<1> DEFINE Below(d) == 0..(d - 1)
           T == {Below(d) : d \in S}
           R == StrictSubsetOrdering(Nat)
<1>1. \A d \in S : Below(d) \in FiniteSubsetsOf(Nat)
  BY FS_Interval DEF FiniteSubsetsOf
<1>2. T \subseteq FiniteSubsetsOf(Nat) /\ T # {}
  BY <1>1
<1>3. \E x \in T : \A y \in T : ~ (<<y, x>> \in R)
  <2> HIDE DEF T
  <2> QED
    BY <1>2, FS_StrictSubsetOrderingWellFounded, WFMin
<1>4. PICK d \in S : \A e \in S : ~ (<<Below(e), Below(d)>> \in R)
  BY <1>3
<1>5. ASSUME NEW e \in S, ~ (d <= e) PROVE FALSE
  <2>1. e \in Nat /\ d \in Nat /\ e < d
    BY <1>5
  <2>2. Below(e) \subseteq Below(d) /\ e \in Below(d) /\ e \notin Below(e)
    BY <2>1
  <2>3. <<Below(e), Below(d)>> \in R
    BY <1>1, <2>2 DEF StrictSubsetOrdering, FiniteSubsetsOf
  <2> QED
    BY <1>4, <2>3
<1> QED
  BY <1>5

\* Induction over the numbers up to m, for a property given as a set.
LEMMA UpTo ==
    ASSUME NEW m \in Nat, NEW T, 0 \in T, \A i \in 1..m : i - 1 \in T => i \in T
    PROVE  \A i \in 0..m : i \in T
<1> DEFINE S == {i \in 0..m : i \notin T}
<1> SUFFICES ASSUME S # {} PROVE FALSE
  OBVIOUS
<1>1. S \in SUBSET Nat
  OBVIOUS
<1>2. PICK d \in S : \A e \in S : d <= e
  <2> HIDE DEF S
  <2> QED
    BY <1>1, LeastNumber
<1>3. d \in 1..m /\ d - 1 \in 0..m /\ ~(d <= d - 1)
  BY <1>2
<1>4. d - 1 \in T
  BY <1>2, <1>3
<1> QED
  BY <1>2, <1>3, <1>4


LEMMA MinInSet == ASSUME NEW S \in SUBSET Nat, S # {} PROVE Min(S) \in S
<1>1. \E x \in S : \A y \in S : x <= y
  BY LeastNumber
<1> QED
  BY <1>1 DEF Min

\* SetToSeq lists every element of a finite set once.
LEMMA SetListed ==
    ASSUME NEW S, IsFiniteSet(S)
    PROVE  /\ SetToSeq(S) \in Seq(S) /\ ToSet(SetToSeq(S)) = S
           /\ \A i, j \in DOMAIN SetToSeq(S) : SetToSeq(S)[i] = SetToSeq(S)[j] => i = j
<1> DEFINE n == Cardinality(S)
           s == SetToSeq(S)
<1>1. n \in Nat /\ ExistsBijection(1..n, S)
  BY FS_CardinalityType
<1>2. \E f \in [1..n -> S] : IsInjective(f)
  BY <1>1 DEF ExistsBijection, Bijection, Injection, IsInjective
<1>3. s \in [1..n -> S] /\ IsInjective(s)
  BY <1>2 DEF SetToSeq
<1> HIDE DEF s
<1>4. s \in Injection(1..n, S)
  BY <1>3 DEF Injection, IsInjective
<1>5. Cardinality(1..n) = n
  BY <1>1, FS_Interval
<1>6. s \in Surjection(1..n, S)
  BY <1>4, <1>5, FS_Injection
<1>7. s \in Seq(S) /\ DOMAIN s = 1..n
  BY <1>1, <1>3
<1>8. ToSet(s) = S
  BY <1>3, <1>6, <1>7 DEF ToSet, Surjection
<1> QED
  BY <1>3, <1>7, <1>8 DEF s, IsInjective

\* f collects those x[i] of which hit[i] holds.
Collects(f, hit, x, n) ==
    f[0] = <<>> /\ \A i \in 1..n : f[i] = IF hit[i] THEN Append(f[i - 1], x[i]) ELSE f[i - 1]

LEMMA CollectsExist ==
    ASSUME NEW m \in Nat, NEW hit, NEW x
    PROVE  \E f : DOMAIN f = 0..m /\ Collects(f, hit, x, m)
<1> DEFINE T == {n \in 0..m : \E f : DOMAIN f = 0..n /\ Collects(f, hit, x, n)}
<1>1. 0 \in T
  <2> DEFINE f == [i \in 0..0 |-> <<>>]
  <2>1. DOMAIN f = 0..0 /\ Collects(f, hit, x, 0)
    BY DEF Collects
  <2> QED
    BY <2>1
<1>2. ASSUME NEW n \in 1..m, n - 1 \in T PROVE n \in T
  <2>1. PICK f : DOMAIN f = 0..(n - 1) /\ Collects(f, hit, x, n - 1)
    BY <1>2
  <2> DEFINE last == IF hit[n] THEN Append(f[n - 1], x[n]) ELSE f[n - 1]
             g == [i \in 0..n |-> IF i = n THEN last ELSE f[i]]
  <2>2. /\ n \in Nat /\ n # 0 /\ 0 \in 0..n
        /\ f[0] = <<>>
        /\ \A i \in 1..(n - 1) : f[i] = IF hit[i] THEN Append(f[i - 1], x[i]) ELSE f[i - 1]
    BY <2>1 DEF Collects
  <2>3. g[0] = <<>>
    BY <2>2
  <2>4. ASSUME NEW i \in 1..n
        PROVE  g[i] = IF hit[i] THEN Append(g[i - 1], x[i]) ELSE g[i - 1]
    <3>1. i \in 0..n /\ i - 1 \in 0..n /\ i - 1 # n
      BY <2>2
    <3>2. g[i - 1] = f[i - 1] /\ g[i] = IF i = n THEN last ELSE f[i]
      BY <3>1
    <3>3. CASE i = n
      BY <3>2, <3>3
    <3>4. CASE i # n
      <4>1. i \in 1..(n - 1)
        BY <2>2, <3>4
      <4> QED
        BY <2>2, <3>2, <3>4, <4>1
    <3> QED
      BY <3>3, <3>4
  <2>5. DOMAIN g = 0..n
    OBVIOUS
  <2> HIDE DEF g
  <2>6. Collects(g, hit, x, n)
    BY <2>3, <2>4 DEF Collects
  <2>7. n \in 0..m
    OBVIOUS
  <2> QED
    BY <2>5, <2>6, <2>7
<1> HIDE DEF T
<1>3. m \in T
  <2>1. m \in 0..m
    OBVIOUS
  <2>2. \A i \in 0..m : i \in T
    BY <1>1, <1>2, UpTo
  <2> QED
    BY <2>1, <2>2
<1> QED
  BY <1>3 DEF T

\* The inner rows of a key, the first of them, and the pair of an outer row.
RowsWith(inner, k) == {i \in DOMAIN inner : inner[i].key = k}
FirstWith(inner, k) == CHOOSE i \in RowsWith(inner, k) : \A j \in RowsWith(inner, k) : i <= j
PairFor(inner, r) == [inner_tid |-> inner[FirstWith(inner, r.key)].tid, outer_tid |-> r.tid]

LEMMA JoinCollects ==
    ASSUME NEW inner, NEW outer, Len(outer) \in Nat
    PROVE  LET n == Len(outer)
               hit == [i \in 1..n |-> RowsWith(inner, outer[i].key) # {}]
               x == [i \in 1..n |-> PairFor(inner, outer[i])]
           IN \E f : JoinOf(inner, outer) = f[n] /\ Collects(f, hit, x, n)
<1> DEFINE n == Len(outer)
           hit == [i \in 1..n |-> RowsWith(inner, outer[i].key) # {}]
           x == [i \in 1..n |-> PairFor(inner, outer[i])]
           rowsOf(k) == {i \in DOMAIN inner : inner[i].key = k}
           firstOf(k) == CHOOSE i \in rowsOf(k) : \A j \in rowsOf(k) : i <= j
           pairs[i \in 0..n] ==
              IF i = 0 THEN <<>>
              ELSE IF rowsOf(outer[i].key) = {} THEN pairs[i - 1]
              ELSE Append(pairs[i - 1], [inner_tid |-> inner[firstOf(outer[i].key)].tid,
                                         outer_tid |-> outer[i].tid])
<1>1. JoinOf(inner, outer) = pairs[n]
  BY DEF JoinOf
<1>2. PICK f : DOMAIN f = 0..n /\ Collects(f, hit, x, n)
  <2> HIDE DEF hit, x
  <2> QED
    BY CollectsExist
<1> DEFINE h == [i \in 0..n |-> f[i]]
<1>3. ASSUME NEW i \in 0..n
      PROVE  f[i] = IF i = 0 THEN <<>>
                    ELSE IF rowsOf(outer[i].key) = {} THEN h[i - 1]
                    ELSE Append(h[i - 1], [inner_tid |-> inner[firstOf(outer[i].key)].tid,
                                           outer_tid |-> outer[i].tid])
  <2>1. CASE i = 0
    BY <1>2, <2>1 DEF Collects
  <2>2. CASE i # 0
    <3>1. i \in 1..n /\ i - 1 \in 0..n
      BY <2>2
    <3>2. f[i] = IF hit[i] THEN Append(f[i - 1], x[i]) ELSE f[i - 1]
      BY <1>2, <3>1 DEF Collects
    <3>3. hit[i] <=> rowsOf(outer[i].key) # {}
      BY <3>1 DEF RowsWith
    <3>4. x[i] = [inner_tid |-> inner[firstOf(outer[i].key)].tid, outer_tid |-> outer[i].tid]
      BY <3>1, Zenon DEF PairFor, FirstWith, RowsWith
    <3>5. h[i - 1] = f[i - 1]
      BY <3>1
    <3> HIDE DEF hit, x, h, rowsOf, firstOf
    <3> QED
      BY <2>2, <3>2, <3>3, <3>4, <3>5
  <2> QED
    BY <2>1, <2>2
<1>4. h = [i \in 0..n |-> IF i = 0 THEN <<>>
                          ELSE IF rowsOf(outer[i].key) = {} THEN h[i - 1]
                          ELSE Append(h[i - 1], [inner_tid |-> inner[firstOf(outer[i].key)].tid,
                                                 outer_tid |-> outer[i].tid])]
  <2> HIDE DEF rowsOf, firstOf
  <2> QED
    BY <1>3
<1> HIDE DEF h
<1>5. pairs = [i \in 0..n |-> IF i = 0 THEN <<>>
                          ELSE IF rowsOf(outer[i].key) = {} THEN pairs[i - 1]
                          ELSE Append(pairs[i - 1],
                                      [inner_tid |-> inner[firstOf(outer[i].key)].tid,
                                       outer_tid |-> outer[i].tid])]
  <2> HIDE DEF rowsOf, firstOf
  <2> QED
    BY <1>4
<1> HIDE DEF pairs
<1>6. pairs[0] = <<>>
  <2>1. 0 \in 0..n
    OBVIOUS
  <2> HIDE DEF rowsOf, firstOf
  <2> QED
    BY <1>5, <2>1
<1>7. ASSUME NEW i \in 1..n
      PROVE  pairs[i] = IF hit[i] THEN Append(pairs[i - 1], x[i]) ELSE pairs[i - 1]
  <2>1. i \in 0..n /\ i # 0
    OBVIOUS
  <2>2. hit[i] <=> rowsOf(outer[i].key) # {}
    BY DEF RowsWith
  <2>3. x[i] = [inner_tid |-> inner[firstOf(outer[i].key)].tid, outer_tid |-> outer[i].tid]
    BY Zenon DEF PairFor, FirstWith, RowsWith
  <2> HIDE DEF hit, x, rowsOf, firstOf
  <2> QED
    BY <1>5, <2>1, <2>2, <2>3
<1>8. Collects(pairs, hit, x, n)
  <2> HIDE DEF hit, x
  <2> QED
    BY <1>6, <1>7 DEF Collects
<1> QED
  BY <1>1, <1>8

\* What is collected up to i: the hits, each once.
Collected(s, hit, x, i) ==
    /\ s \in Seq({x[j] : j \in {k \in 1..i : hit[k]}})
    /\ ToSet(s) = {x[j] : j \in {k \in 1..i : hit[k]}}
    /\ \A a, b \in DOMAIN s : s[a].outer_tid = s[b].outer_tid => a = b

LEMMA ToSetAppend ==
    ASSUME NEW S, NEW s \in Seq(S), NEW e
    PROVE  ToSet(Append(s, e)) = ToSet(s) \cup {e}
<1>1. Append(s, e) \in Seq(S \cup {e}) /\ Len(Append(s, e)) = Len(s) + 1 /\ Len(s) \in Nat
  OBVIOUS
<1>2. DOMAIN Append(s, e) = 1..(Len(s) + 1) /\ DOMAIN s = 1..Len(s)
  BY <1>1
<1>3. \A i \in 1..Len(s) : Append(s, e)[i] = s[i]
  OBVIOUS
<1>4. Append(s, e)[Len(s) + 1] = e
  OBVIOUS
<1>5. ToSet(Append(s, e)) \subseteq ToSet(s) \cup {e}
  <2> SUFFICES ASSUME NEW i \in 1..(Len(s) + 1) PROVE Append(s, e)[i] \in ToSet(s) \cup {e}
    BY <1>2 DEF ToSet
  <2>1. CASE i = Len(s) + 1
    BY <1>4, <2>1
  <2>2. CASE i # Len(s) + 1
    <3>1. i \in 1..Len(s)
      BY <1>1, <2>2
    <3> QED
      BY <1>2, <1>3, <3>1 DEF ToSet
  <2> QED
    BY <2>1, <2>2
<1>6. ToSet(s) \subseteq ToSet(Append(s, e))
  <2> SUFFICES ASSUME NEW i \in 1..Len(s) PROVE s[i] \in ToSet(Append(s, e))
    BY <1>2 DEF ToSet
  <2>1. i \in 1..(Len(s) + 1)
    BY <1>1
  <2> QED
    BY <1>2, <1>3, <2>1 DEF ToSet
<1>7. e \in ToSet(Append(s, e))
  <2>1. Len(s) + 1 \in 1..(Len(s) + 1)
    BY <1>1
  <2> QED
    BY <1>2, <1>4, <2>1 DEF ToSet
<1> QED
  BY <1>5, <1>6, <1>7

LEMMA CollectedStep ==
    ASSUME NEW n \in Nat, NEW hit, NEW x, NEW s, NEW i \in 1..n, Collected(s, hit, x, i - 1),
           \A a, b \in 1..n : x[a].outer_tid = x[b].outer_tid => a = b
    PROVE  Collected(IF hit[i] THEN Append(s, x[i]) ELSE s, hit, x, i)
<1> DEFINE H(m) == {x[j] : j \in {k \in 1..m : hit[k]}}
<1>1. i \in Nat /\ i - 1 \in Nat /\ 1..i = (1..(i - 1)) \cup {i}
  OBVIOUS
<1>2. /\ s \in Seq(H(i - 1)) /\ ToSet(s) = H(i - 1)
      /\ \A a, b \in DOMAIN s : s[a].outer_tid = s[b].outer_tid => a = b
  BY Zenon DEF Collected
<1>3. CASE ~hit[i]
  <2>1. {k \in 1..i : hit[k]} = {k \in 1..(i - 1) : hit[k]}
    BY <1>1, <1>3
  <2>2. H(i) = H(i - 1)
    BY <2>1, Zenon
  <2> QED
    BY <1>2, <1>3, <2>2, Zenon DEF Collected
<1>4. CASE hit[i]
  <2>1. {k \in 1..i : hit[k]} = {k \in 1..(i - 1) : hit[k]} \cup {i}
    BY <1>1, <1>4
  <2>2. H(i) = H(i - 1) \cup {x[i]}
    BY <2>1, Zenon
  <2>3. ASSUME NEW a \in DOMAIN s PROVE s[a].outer_tid # x[i].outer_tid
    <3>1. s[a] \in H(i - 1)
      BY <1>2, Zenon DEF ToSet
    <3>2. PICK k \in 1..(i - 1) : s[a] = x[k]
      BY <3>1
    <3>3. k \in 1..n /\ k # i
      BY <1>1
    <3> QED
      BY <3>2, <3>3
  <2> HIDE DEF H
  <2> DEFINE t == Append(s, x[i])
  <2>4. ToSet(t) = H(i)
    BY <1>2, <2>2, ToSetAppend, Zenon
  <2>5. /\ t \in Seq(H(i)) /\ DOMAIN t = 1..(Len(s) + 1) /\ DOMAIN s = 1..Len(s)
        /\ Len(s) \in Nat /\ t[Len(s) + 1] = x[i]
        /\ \A a \in 1..Len(s) : t[a] = s[a]
    BY <1>2, <2>2
  <2> HIDE DEF t
  <2>6. ASSUME NEW a \in DOMAIN t, NEW b \in DOMAIN t, t[a].outer_tid = t[b].outer_tid
        PROVE  a = b
    <3>1. CASE a = Len(s) + 1 /\ b = Len(s) + 1
      BY <3>1
    <3>2. CASE a = Len(s) + 1 /\ b # Len(s) + 1
      <4>1. b \in DOMAIN s
        BY <2>5, <3>2
      <4> QED
        BY <2>3, <2>5, <2>6, <3>2, <4>1
    <3>3. CASE a # Len(s) + 1 /\ b = Len(s) + 1
      <4>1. a \in DOMAIN s
        BY <2>5, <3>3
      <4> QED
        BY <2>3, <2>5, <2>6, <3>3, <4>1
    <3>4. CASE a # Len(s) + 1 /\ b # Len(s) + 1
      <4>1. a \in DOMAIN s /\ b \in DOMAIN s
        BY <2>5, <3>4
      <4> QED
        BY <1>2, <2>5, <2>6, <4>1
    <3> QED
      BY <3>1, <3>2, <3>3, <3>4
  <2>7. Collected(t, hit, x, i)
    BY <2>4, <2>5, <2>6, Zenon DEF Collected, H
  <2> QED
    BY <1>4, <2>7 DEF t
<1> QED
  BY <1>3, <1>4

LEMMA CollectsHits ==
    ASSUME NEW n \in Nat, NEW hit, NEW x, NEW f, Collects(f, hit, x, n),
           \A a, b \in 1..n : x[a].outer_tid = x[b].outer_tid => a = b
    PROVE  Collected(f[n], hit, x, n)
<1> DEFINE T == {i \in 0..n : Collected(f[i], hit, x, i)}
<1>1. 0 \in T
  <2>1. {x[j] : j \in {k \in 1..0 : hit[k]}} = {}
    OBVIOUS
  <2>2. f[0] = <<>> /\ 0 \in 0..n
    BY DEF Collects
  <2>3. Collected(<<>>, hit, x, 0)
    BY <2>1 DEF Collected, ToSet
  <2> QED
    BY <2>2, <2>3, Zenon
<1>2. ASSUME NEW i \in 1..n, i - 1 \in T PROVE i \in T
  <2>1. f[i] = IF hit[i] THEN Append(f[i - 1], x[i]) ELSE f[i - 1]
    BY DEF Collects
  <2>2. Collected(f[i - 1], hit, x, i - 1)
    BY <1>2
  <2>3. Collected(f[i], hit, x, i)
    BY <2>1, <2>2, CollectedStep, Zenon
  <2>4. i \in 0..n
    OBVIOUS
  <2> QED
    BY <2>3, <2>4
<1> HIDE DEF T
<1>3. \A i \in 0..n : i \in T
  BY <1>1, <1>2, UpTo
<1>4. n \in 0..n
  OBVIOUS
<1> QED
  BY <1>3, <1>4 DEF T

\* With unique inner keys, the join has a pair for every two rows of equal
\* keys, and for each outer row at most one.
LEMMA JoinPairs ==
    ASSUME NEW inner \in Seq(ArrRow), NEW outer \in Seq(ArrRow),
           \A i, j \in DOMAIN inner : inner[i].key = inner[j].key => i = j,
           \A i, j \in DOMAIN outer : outer[i].tid = outer[j].tid => i = j
    PROVE  /\ JoinOf(inner, outer) \in Seq([inner_tid : Tids, outer_tid : Tids])
           /\ \A p \in ToSet(JoinOf(inner, outer)) :
                 \E i \in DOMAIN inner, j \in DOMAIN outer :
                    /\ inner[i].key = outer[j].key
                    /\ p = [inner_tid |-> inner[i].tid, outer_tid |-> outer[j].tid]
           /\ \A i \in DOMAIN inner, j \in DOMAIN outer : inner[i].key = outer[j].key =>
                 [inner_tid |-> inner[i].tid, outer_tid |-> outer[j].tid]
                    \in ToSet(JoinOf(inner, outer))
           /\ \A a, b \in DOMAIN JoinOf(inner, outer) :
                 JoinOf(inner, outer)[a].outer_tid = JoinOf(inner, outer)[b].outer_tid => a = b
<1> DEFINE n == Len(outer)
           hit == [i \in 1..n |-> RowsWith(inner, outer[i].key) # {}]
           x == [i \in 1..n |-> PairFor(inner, outer[i])]
           J == JoinOf(inner, outer)
           H == {x[j] : j \in {k \in 1..n : hit[k]}}
<1>1. n \in Nat /\ DOMAIN outer = 1..n
  OBVIOUS
<1>2. PICK f : J = f[n] /\ Collects(f, hit, x, n)
  BY <1>1, JoinCollects, Zenon
<1>3. \A a, b \in 1..n : x[a].outer_tid = x[b].outer_tid => a = b
  <2>1. \A a \in 1..n : x[a].outer_tid = outer[a].tid
    BY DEF PairFor
  <2> QED
    BY <1>1, <2>1
<1>4. Collected(J, hit, x, n)
  <2> HIDE DEF hit, x, J
  <2> QED
    BY <1>1, <1>2, <1>3, CollectsHits
<1>5. /\ J \in Seq(H) /\ ToSet(J) = H
      /\ \A a, b \in DOMAIN J : J[a].outer_tid = J[b].outer_tid => a = b
  BY <1>4, Zenon DEF Collected
<1>6. ASSUME NEW i \in DOMAIN inner, NEW j \in 1..n, inner[i].key = outer[j].key
      PROVE  hit[j] /\ x[j] = [inner_tid |-> inner[i].tid, outer_tid |-> outer[j].tid]
  <2>1. RowsWith(inner, outer[j].key) = {i}
    BY <1>6 DEF RowsWith
  <2>2. i \in Nat
    OBVIOUS
  <2>3. FirstWith(inner, outer[j].key) = i
    BY <2>1, <2>2 DEF FirstWith
  <2> QED
    BY <2>1, <2>3 DEF PairFor
<1>7. ASSUME NEW p \in H
      PROVE  \E i \in DOMAIN inner, j \in DOMAIN outer :
                /\ inner[i].key = outer[j].key
                /\ p = [inner_tid |-> inner[i].tid, outer_tid |-> outer[j].tid]
  <2>1. PICK j \in 1..n : hit[j] /\ p = x[j]
    OBVIOUS
  <2>2. PICK i \in DOMAIN inner : inner[i].key = outer[j].key
    BY <2>1 DEF RowsWith
  <2> HIDE DEF hit, x
  <2> QED
    BY <1>1, <1>6, <2>1, <2>2
<1>8. ASSUME NEW i \in DOMAIN inner, NEW j \in DOMAIN outer, inner[i].key = outer[j].key
      PROVE  [inner_tid |-> inner[i].tid, outer_tid |-> outer[j].tid] \in H
  <2> HIDE DEF hit, x
  <2> QED
    BY <1>1, <1>6, <1>8
<1>9. J \in Seq([inner_tid : Tids, outer_tid : Tids])
  <2>1. \A i \in DOMAIN inner : inner[i] \in ArrRow
    OBVIOUS
  <2>2. \A j \in DOMAIN outer : outer[j] \in ArrRow
    OBVIOUS
  <2>3. \A r \in ArrRow : r.tid \in Tids
    BY DEF ArrRow
  <2> DEFINE R == [inner_tid : Tids, outer_tid : Tids]
  <2> HIDE DEF H
  <2>4. H \subseteq R
    BY <1>7, <2>1, <2>2, <2>3
  <2> HIDE DEF J, R
  <2>5. J \in Seq(R)
    BY <1>5, <2>4
  <2> QED
    BY <2>5 DEF R
<1> HIDE DEF H, J
<1> QED
  BY <1>5, <1>7, <1>8, <1>9 DEF J

-----------------------------------------------------------------------------
(***************************************************************************)
(* Writers and VACUUM.                                                     *)
(***************************************************************************)
LEMMA VersionFacts ==
    ASSUME NEW v \in Version
    PROVE  /\ v.tid \in Tids /\ v.key \in Keys \cup {Null} /\ v.val \in Vals
           /\ v.born \in Nat /\ v.dead \in Nat
           /\ RowOf(v).tid = v.tid /\ RowOf(v).key = v.key /\ RowOf(v).val = v.val
           /\ \A c \in Columns : RowOf(v)[c] = v[c]
<1>1. /\ v.tid \in Tids /\ v.key \in Keys \cup {Null} /\ v.val \in Vals
      /\ v.born \in Nat /\ v.dead \in Nat
  BY DEF Version
<1>2. RowOf(v).tid = v.tid /\ RowOf(v).key = v.key /\ RowOf(v).val = v.val
  BY DEF RowOf
<1> QED
  BY <1>1, <1>2 DEF Columns

\* A version that a committed transaction has deleted just now.
Killed(v) == [v EXCEPT !.dead = now + 1]

LEMMA KilledFacts ==
    ASSUME NEW v \in Version, now \in Nat
    PROVE  /\ Killed(v) \in Version /\ RowOf(Killed(v)) = RowOf(v)
           /\ Killed(v).tid = v.tid /\ Killed(v).born = v.born /\ Killed(v).dead = now + 1
<1>1. now + 1 \in Nat
  OBVIOUS
<1>2. Killed(v) \in Version
  BY <1>1 DEF Killed, Version
<1>3. /\ Killed(v).tid = v.tid /\ Killed(v).key = v.key /\ Killed(v).val = v.val
      /\ Killed(v).born = v.born /\ Killed(v).dead = now + 1
  BY DEF Killed, Version
<1> QED
  BY <1>2, <1>3 DEF RowOf

\* A committed write of table t: gone goes, if it is there, and new comes.
NewVersion(t, gone, u) ==
    /\ u \in Version /\ u.born = now + 1 /\ u.dead = 0
    /\ \A v \in heap[t] : v.tid # u.tid
    /\ \A c \in Columns : IsUnique(t, c) /\ u[c] # Null =>
          \A v \in RowsAt(t, now) \ gone : v[c] # u[c]

WrittenHeap(t, gone, new) ==
    (heap[t] \ gone) \cup {Killed(v) : v \in gone} \cup new

Written(t, gone, new) ==
    /\ gone = {} \/ \E v \in RowsAt(t, now) : gone = {v}
    /\ new = {} \/ \E u : new = {u} /\ NewVersion(t, gone, u)
    /\ now' = now + 1 /\ now < MaxWrites
    /\ indexlist' = indexlist /\ snapshot' = snapshot
    /\ heap' = [heap EXCEPT ![t] = WrittenHeap(t, gone, new)]

LEMMA WriteIsWritten ==
    ASSUME Tuples, NEW t \in Tables, NEW gone,
           gone = {} \/ \E v \in RowsAt(t, now) : gone = {v}, Write(t, gone, NewRows)
    PROVE  \E new : Written(t, gone, new)
<1> DEFINE free == Tids \ {v.tid : v \in heap[t]}
           fresh(row) == [tid |-> Min(free), key |-> row.key, val |-> row.val,
                          born |-> now', dead |-> 0]
<1>1. /\ now < MaxWrites /\ now' = now + 1 /\ indexlist' = indexlist /\ snapshot' = snapshot
  BY DEF Write
<1>2. PICK row \in NewRows :
        /\ \A c \in {"key", "val"} :
              IsUnique(t, c) /\ row[c] # Null =>
                 \A v \in RowsAt(t, now) \ gone : v[c] # row[c]
        /\ free # {}
        /\ heap' = [heap EXCEPT ![t] =
              (heap[t] \ gone) \cup {[v EXCEPT !.dead = now'] : v \in gone} \cup {fresh(row)}]
  BY Zenon DEF Write
<1>3. row.key \in Keys \cup {Null} /\ row.val \in Vals
  BY QueryAssumption
<1>4. Min(free) \in Tids /\ \A v \in heap[t] : v.tid # Min(free)
  <2>1. free \in SUBSET Nat
    BY QueryAssumption
  <2>2. Min(free) \in free
    <3> HIDE DEF free
    <3> QED
      BY <1>2, <2>1, MinInSet
  <2> QED
    BY <2>2
<1> HIDE DEF free
<1> DEFINE u == fresh(row)
<1>5. /\ u.tid = Min(free) /\ u.key = row.key /\ u.val = row.val /\ u.born = now + 1
      /\ u.dead = 0
  BY <1>1
<1>6. u \in Version
  <2>1. now + 1 \in Nat
    BY DEF Tuples
  <2> QED
    BY <1>1, <1>3, <1>4, <2>1 DEF Version
<1>7. \A c \in Columns : u[c] = row[c]
  BY <1>5 DEF Columns
<1> HIDE DEF u
<1>8. NewVersion(t, gone, u)
  BY <1>2, <1>4, <1>5, <1>6, <1>7 DEF NewVersion, Columns
<1>9. {[v EXCEPT !.dead = now'] : v \in gone} = {Killed(v) : v \in gone}
  BY <1>1, Zenon DEF Killed
<1>10. heap' = [heap EXCEPT ![t] = WrittenHeap(t, gone, {u})]
  BY <1>2, <1>9, Zenon DEF WrittenHeap, u
<1> QED
  BY <1>1, <1>8, <1>10 DEF Written

LEMMA WritersWrite ==
    ASSUME Tuples, Insert \/ Update \/ Delete
    PROVE  \E t \in Tables : \E gone, new : Written(t, gone, new)
<1>1. CASE Insert
  <2>1. PICK t \in Tables : Write(t, {}, NewRows)
    BY <1>1 DEF Insert
  <2>2. \E new : Written(t, {}, new)
    BY <2>1, WriteIsWritten, Zenon
  <2> QED
    BY <2>2
<1>2. CASE Update
  <2>1. PICK t \in Tables : \E v \in RowsAt(t, now) : Write(t, {v}, NewRows)
    BY <1>2 DEF Update
  <2>2. PICK v \in RowsAt(t, now) : Write(t, {v}, NewRows)
    BY <2>1
  <2>3. \E new : Written(t, {v}, new)
    BY <2>2, WriteIsWritten, Zenon
  <2> QED
    BY <2>3
<1>3. CASE Delete
  <2>1. PICK t \in Tables : \E v \in RowsAt(t, now) :
          /\ now < MaxWrites /\ now' = now + 1
          /\ heap' = [heap EXCEPT ![t] = (@ \ {v}) \cup {[v EXCEPT !.dead = now']}]
          /\ UNCHANGED <<indexlist, snapshot>>
    BY <1>3, Zenon DEF Delete
  <2>2. PICK v \in RowsAt(t, now) :
          /\ now < MaxWrites /\ now' = now + 1
          /\ heap' = [heap EXCEPT ![t] = (@ \ {v}) \cup {[v EXCEPT !.dead = now']}]
          /\ UNCHANGED <<indexlist, snapshot>>
    BY <2>1, Zenon
  <2>3. WrittenHeap(t, {v}, {}) = (heap[t] \ {v}) \cup {[v EXCEPT !.dead = now']}
    BY <2>2, Zenon DEF WrittenHeap, Killed
  <2>4. heap' = [heap EXCEPT ![t] = WrittenHeap(t, {v}, {})]
    BY <2>2, <2>3, Zenon
  <2>5. Written(t, {v}, {})
    BY <2>2, <2>4 DEF Written
  <2> QED
    BY <2>5
<1> QED
  BY <1>1, <1>2, <1>3

LEMMA TupleTypes ==
    ASSUME Tuples
    PROVE  /\ now \in Nat /\ MaxWrites \in Nat /\ now <= MaxWrites
           /\ snapshot \in Int /\ snapshot <= now
           /\ \A t \in Tables : \A v \in heap[t] :
                 /\ v \in Version /\ v.born \in Nat /\ v.dead \in Nat
                 /\ v.born <= now /\ v.dead <= now
<1>1. now \in Nat /\ MaxWrites \in Nat /\ now <= MaxWrites /\ snapshot \in Int /\ snapshot <= now
  BY QueryAssumption DEF Tuples
<1>2. \A t \in Tables : \A v \in heap[t] : v \in Version /\ v.born <= now /\ v.dead <= now
  BY DEF Tuples
<1> QED
  BY <1>1, <1>2, VersionFacts

\* The members of a written table: kept, killed or new.
LEMMA WrittenMembers ==
    ASSUME Tuples, NEW t \in Tables, NEW gone, NEW new, Written(t, gone, new)
    PROVE  /\ gone \subseteq RowsAt(t, now) /\ gone \subseteq heap[t]
           /\ \A u \in new : NewVersion(t, gone, u)
           /\ \A u, w \in new : u = w
           /\ IsFiniteSet(gone) /\ IsFiniteSet(new) /\ IsFiniteSet({Killed(v) : v \in gone})
           /\ heap'[t] = WrittenHeap(t, gone, new)
           /\ \A s \in Tables \ {t} : heap'[s] = heap[s]
           /\ heap' \in [Tables -> SUBSET Version]
<1>1. gone = {} \/ \E v \in RowsAt(t, now) : gone = {v}
  BY DEF Written
<1>2. new = {} \/ \E u : new = {u} /\ NewVersion(t, gone, u)
  BY DEF Written
<1>3. gone \subseteq RowsAt(t, now) /\ gone \subseteq heap[t]
  BY <1>1 DEF RowsAt
<1>4. (\A u \in new : NewVersion(t, gone, u)) /\ (\A u, w \in new : u = w)
  BY <1>2, Zenon
<1>5. IsFiniteSet(gone) /\ IsFiniteSet({Killed(v) : v \in gone})
  <2>1. CASE gone = {}
    <3>1. {Killed(v) : v \in gone} = {}
      BY <2>1
    <3> QED
      BY <2>1, <3>1, FS_EmptySet
  <2>2. ASSUME NEW v, gone = {v} PROVE IsFiniteSet(gone) /\ IsFiniteSet({Killed(x) : x \in gone})
    <3>1. {Killed(x) : x \in gone} = {Killed(v)}
      BY <2>2, Zenon
    <3> QED
      BY <2>2, <3>1, FS_Singleton
  <2> QED
    BY <1>1, <2>1, <2>2
<1>6. IsFiniteSet(new)
  BY <1>2, FS_EmptySet, FS_Singleton
<1>7. heap \in [Tables -> SUBSET Version] /\ now \in Nat
  BY TupleTypes DEF Tuples
<1>8. heap' = [heap EXCEPT ![t] = WrittenHeap(t, gone, new)]
  BY DEF Written
<1>9. \A v \in gone : Killed(v) \in Version
  BY <1>3, <1>7, KilledFacts
<1>10. \A u \in new : u \in Version
  BY <1>4 DEF NewVersion
<1>11. WrittenHeap(t, gone, new) \subseteq Version
  BY <1>7, <1>9, <1>10 DEF WrittenHeap
<1> QED
  BY <1>3, <1>4, <1>5, <1>6, <1>7, <1>8, <1>11

LEMMA WrittenTuples ==
    ASSUME Tuples, NEW t \in Tables, NEW gone, NEW new, Written(t, gone, new)
    PROVE  Tuples'
<1>1. /\ gone \subseteq RowsAt(t, now) /\ gone \subseteq heap[t]
      /\ \A u \in new : NewVersion(t, gone, u)
      /\ \A u, w \in new : u = w
      /\ IsFiniteSet(gone) /\ IsFiniteSet(new) /\ IsFiniteSet({Killed(v) : v \in gone})
      /\ heap'[t] = WrittenHeap(t, gone, new)
      /\ \A s \in Tables \ {t} : heap'[s] = heap[s]
      /\ heap' \in [Tables -> SUBSET Version]
  BY WrittenMembers, Zenon
<1>2. now' = now + 1 /\ now < MaxWrites /\ indexlist' = indexlist /\ snapshot' = snapshot
  BY DEF Written
<1>3. /\ now \in Nat /\ MaxWrites \in Nat /\ now <= MaxWrites
      /\ \A s \in Tables : \A v \in heap[s] :
            /\ v \in Version /\ v.born \in Nat /\ v.dead \in Nat
            /\ v.born <= now /\ v.dead <= now
  BY TupleTypes
<1>4. now' \in 0..MaxWrites /\ snapshot' \in -1..now' /\ indexlist' \in [Tables -> SUBSET Index]
  BY <1>2, <1>3 DEF Tuples
<1>5. IsFiniteSet(heap[t])
  BY DEF Tuples
<1>6. IsFiniteSet(heap'[t])
  <2>1. IsFiniteSet(heap[t] \ gone)
    BY <1>5, FS_Difference
  <2>2. IsFiniteSet((heap[t] \ gone) \cup {Killed(v) : v \in gone})
    BY <1>1, <2>1, FS_Union
  <2>3. IsFiniteSet(WrittenHeap(t, gone, new))
    BY <1>1, <2>2, FS_Union DEF WrittenHeap
  <2> QED
    BY <1>1, <2>3
<1>7. ASSUME NEW w \in heap'[t]
      PROVE  \/ w \in heap[t] \ gone
             \/ \E v \in gone : w = Killed(v)
             \/ w \in new
  BY <1>1, <1>7, Zenon DEF WrittenHeap
<1>8. \A v \in gone : Killed(v).tid = v.tid /\ Killed(v).born = v.born /\ Killed(v).dead = now + 1
  BY <1>1, <1>3, KilledFacts
<1>9. \A u \in new : u.born = now + 1 /\ u.dead = 0 /\ \A v \in heap[t] : v.tid # u.tid
  BY <1>1, Zenon DEF NewVersion
<1>10. ASSUME NEW w \in heap'[t] PROVE w.born <= now' /\ w.dead <= now'
  <2>1. CASE w \in heap[t] \ gone
    BY <1>2, <1>3, <2>1
  <2>2. ASSUME NEW v \in gone, w = Killed(v) PROVE w.born <= now' /\ w.dead <= now'
    BY <1>1, <1>2, <1>3, <1>8, <2>2
  <2>3. CASE w \in new
    BY <1>2, <1>3, <1>9, <2>3
  <2> QED
    BY <1>7, <2>1, <2>2, <2>3
<1>11. \A v, w \in heap[t] : v.tid = w.tid => v = w
  BY DEF Tuples
<1>12. ASSUME NEW x \in heap'[t], NEW y \in heap'[t], x.tid = y.tid PROVE x = y
  \* Versions that are not new stand for the one they come from.
  <2>1. ASSUME NEW z \in heap'[t], z \notin new
        PROVE  \E v \in heap[t] : v.tid = z.tid /\ z = (IF v \in gone THEN Killed(v) ELSE v)
    <3>1. CASE z \in heap[t] \ gone
      BY <3>1
    <3>2. ASSUME NEW v \in gone, z = Killed(v)
          PROVE  v \in heap[t] /\ v.tid = z.tid /\ z = (IF v \in gone THEN Killed(v) ELSE v)
      BY <1>1, <1>8, <3>2
    <3> QED
      BY <1>7, <2>1, <3>1, <3>2
  <2>2. CASE x \notin new /\ y \notin new
    <3>1. PICK v \in heap[t] : v.tid = x.tid /\ x = (IF v \in gone THEN Killed(v) ELSE v)
      BY <2>1, <2>2
    <3>2. PICK w \in heap[t] : w.tid = y.tid /\ y = (IF w \in gone THEN Killed(w) ELSE w)
      BY <2>1, <2>2
    <3>3. v = w
      BY <1>11, <1>12, <3>1, <3>2
    <3> QED
      BY <3>1, <3>2, <3>3
  <2>3. CASE x \in new /\ y \in new
    BY <1>1, <2>3
  <2>4. CASE x \in new /\ y \notin new
    <3>1. PICK w \in heap[t] : w.tid = y.tid
      BY <2>1, <2>4
    <3> QED
      BY <1>9, <1>12, <2>4, <3>1
  <2>5. CASE x \notin new /\ y \in new
    <3>1. PICK w \in heap[t] : w.tid = x.tid
      BY <2>1, <2>5
    <3> QED
      BY <1>9, <1>12, <2>5, <3>1
  <2> QED
    BY <2>2, <2>3, <2>4, <2>5
<1>13. ASSUME NEW s \in Tables
       PROVE  /\ IsFiniteSet(heap'[s])
              /\ \A v \in heap'[s] : v.born <= now' /\ v.dead <= now'
              /\ \A v, w \in heap'[s] : v.tid = w.tid => v = w
  <2>1. CASE s = t
    BY <1>6, <1>10, <1>12, <2>1
  <2>2. CASE s # t
    <3>1. heap'[s] = heap[s]
      BY <1>1, <2>2
    <3>2. \A v \in heap[s] : v.born <= now' /\ v.dead <= now'
      BY <1>2, <1>3
    <3> QED
      BY <3>1, <3>2, Zenon DEF Tuples
  <2> QED
    BY <2>1, <2>2
<1> QED
  BY <1>1, <1>4, <1>13, Zenon DEF Tuples

\* A write changes nothing of what is seen at an earlier time.
LEMMA WrittenSame ==
    ASSUME Tuples, NEW t \in Tables, NEW gone, NEW new, Written(t, gone, new),
           NEW time \in Int, time <= now
    PROVE  \A s \in Tables : SeenAt(s, time)' = SeenAt(s, time)
<1>1. /\ gone \subseteq RowsAt(t, now) /\ gone \subseteq heap[t]
      /\ \A u \in new : NewVersion(t, gone, u)
      /\ heap'[t] = WrittenHeap(t, gone, new)
      /\ \A s \in Tables \ {t} : heap'[s] = heap[s]
  BY WrittenMembers, Zenon
<1>2. /\ now \in Nat
      /\ \A s \in Tables : \A v \in heap[s] :
            /\ v \in Version /\ v.born \in Nat /\ v.dead \in Nat
            /\ v.born <= now /\ v.dead <= now
  BY TupleTypes
<1>3. \A v \in gone : /\ Killed(v).born = v.born /\ Killed(v).dead = now + 1
                      /\ RowOf(Killed(v)) = RowOf(v)
  BY <1>1, <1>2, KilledFacts
<1> DEFINE Then == {w \in heap'[t] : Visible(w, time)}
<1>4. ASSUME NEW w \in Then PROVE RowOf(w) \in SeenAt(t, time)
  <2>1. w.born <= time /\ (w.dead = 0 \/ w.dead > time)
    BY <1>4 DEF Visible
  <2>2. CASE w \in heap[t] \ gone
    BY <1>4, <2>2 DEF SeenAt, RowsAt
  <2>3. ASSUME NEW v \in gone, w = Killed(v) PROVE RowOf(w) \in SeenAt(t, time)
    <3>1. v \in heap[t] /\ v.born <= now /\ (v.dead = 0 \/ v.dead > now)
      BY <1>1 DEF RowsAt, Visible
    <3>2. v.born <= time /\ (v.dead = 0 \/ v.dead > time)
      BY <1>2, <1>3, <2>1, <2>3, <3>1
    <3>3. v \in RowsAt(t, time)
      BY <3>1, <3>2 DEF RowsAt, Visible
    <3> QED
      BY <1>3, <2>3, <3>3 DEF SeenAt
  <2>4. w \notin new
    <3> SUFFICES ASSUME w \in new PROVE FALSE
      OBVIOUS
    <3>1. w.born = now + 1
      BY <1>1 DEF NewVersion
    <3> QED
      BY <1>2, <2>1, <3>1
  <2> QED
    BY <1>1, <1>4, <2>2, <2>3, <2>4, Zenon DEF WrittenHeap
<1>5. ASSUME NEW v \in RowsAt(t, time) PROVE RowOf(v) \in {RowOf(w) : w \in Then}
  <2>1. v \in heap[t] /\ v.born <= time /\ (v.dead = 0 \/ v.dead > time)
    BY DEF RowsAt, Visible
  <2>2. CASE v \notin gone
    <3>1. v \in Then
      BY <1>1, <2>1, <2>2 DEF WrittenHeap, Visible
    <3> QED
      BY <3>1
  <2>3. CASE v \in gone
    <3>1. Killed(v).born <= time /\ Killed(v).dead > time
      BY <1>2, <1>3, <2>1, <2>3
    <3>2. Killed(v) \in heap'[t]
      BY <1>1, <2>3, Zenon DEF WrittenHeap
    <3>3. Killed(v) \in Then
      BY <3>1, <3>2 DEF Visible
    <3> QED
      BY <1>3, <2>3, <3>3
  <2> QED
    BY <2>2, <2>3
<1>6. SeenAt(t, time)' = {RowOf(w) : w \in Then}
  BY Zenon DEF SeenAt, RowsAt, Visible, RowOf
<1>7. SeenAt(t, time) = {RowOf(w) : w \in Then}
  <2> HIDE DEF Then
  <2>1. SeenAt(t, time) = {RowOf(v) : v \in RowsAt(t, time)}
    BY DEF SeenAt
  <2>2. {RowOf(w) : w \in Then} \subseteq SeenAt(t, time)
    BY <1>4, Zenon
  <2>3. SeenAt(t, time) \subseteq {RowOf(w) : w \in Then}
    BY <1>5, <2>1, Zenon
  <2> QED
    BY <2>2, <2>3, Zenon
<1>8. ASSUME NEW s \in Tables, s # t PROVE SeenAt(s, time)' = SeenAt(s, time)
  BY <1>1, <1>8, Zenon DEF SeenAt, RowsAt, Visible, RowOf
<1> QED
  BY <1>6, <1>7, <1>8, Zenon

\* What is seen right after a write: what was seen before and is not gone, and
\* the new version.
LEMMA WrittenNow ==
    ASSUME Tuples, NEW t \in Tables, NEW gone, NEW new, Written(t, gone, new),
           NEW s \in Tables, NEW w \in heap'[s], Visible(w, now + 1)
    PROVE  \/ w \in RowsAt(s, now) /\ (s = t => w \notin gone)
           \/ s = t /\ w \in new
<1>1. /\ gone \subseteq heap[t]
      /\ heap'[t] = WrittenHeap(t, gone, new)
      /\ s # t => heap'[s] = heap[s]
  <2>1. gone \subseteq heap[t]
    BY DEF Written, RowsAt
  <2>2. heap' = [heap EXCEPT ![t] = WrittenHeap(t, gone, new)]
    BY DEF Written
  <2>3. heap \in [Tables -> SUBSET Version]
    BY DEF Tuples
  <2> QED
    BY <2>1, <2>2, <2>3
<1>2. /\ now \in Nat
      /\ \A x \in Tables : \A v \in heap[x] :
            /\ v \in Version /\ v.born \in Nat /\ v.dead \in Nat
            /\ v.born <= now /\ v.dead <= now
  BY TupleTypes
<1>3. w.born <= now + 1 /\ (w.dead = 0 \/ w.dead > now + 1)
  BY DEF Visible
<1>4. ASSUME w \in heap[s] PROVE w \in RowsAt(s, now)
  <2>1. w.born <= now /\ w.dead = 0
    BY <1>2, <1>3, <1>4
  <2> QED
    BY <1>4, <2>1 DEF RowsAt, Visible
<1>5. ASSUME NEW v \in gone, s = t, w = Killed(v) PROVE FALSE
  <2>1. w.dead = now + 1
    BY <1>1, <1>2, <1>5, KilledFacts
  <2> QED
    BY <1>2, <1>3, <2>1
<1>6. CASE s # t
  BY <1>1, <1>4, <1>6
<1>7. CASE s = t
  <2>1. w \in heap[t] \ gone \/ (\E v \in gone : w = Killed(v)) \/ w \in new
    BY <1>1, <1>7, Zenon DEF WrittenHeap
  <2> QED
    BY <1>4, <1>5, <1>7, <2>1
<1> QED
  BY <1>6, <1>7

LEMMA WrittenConstraints ==
    ASSUME Tuples, Constraints, NEW t \in Tables, NEW gone, NEW new, Written(t, gone, new)
    PROVE  Constraints'
<1>1. now' = now + 1 /\ indexlist' = indexlist /\ snapshot' = snapshot
  BY DEF Written
<1>2. \A u \in new : NewVersion(t, gone, u)
  BY WrittenMembers, Zenon
<1>3. \A u, w \in new : u = w
  BY WrittenMembers, Zenon
<1> SUFFICES ASSUME NEW s \in Tables, NEW c \in Columns, IsUnique(s, c)'
             PROVE  /\ UniqueAt(s, c, now)'
                    /\ (snapshot # -1)' => UniqueAt(s, c, snapshot)'
  BY Zenon DEF Constraints
<1>4. IsUnique(s, c)
  BY <1>1 DEF IsUnique
<1>5. UniqueAt(s, c, now) /\ (snapshot # -1 => UniqueAt(s, c, snapshot))
  BY <1>4, Zenon DEF Constraints
<1>6. ASSUME (snapshot # -1)' PROVE UniqueAt(s, c, snapshot)'
  <2>1. UniqueAt(s, c, snapshot)
    BY <1>1, <1>5, <1>6
  <2> DEFINE time == snapshot
  <2>2. time \in Int /\ time <= now
    BY TupleTypes
  <2>3. ASSUME NEW x \in Int, x <= now PROVE SeenAt(s, x)' = SeenAt(s, x)
    BY <2>3, WrittenSame, Zenon
  <2>4. SeenAt(s, snapshot)' = SeenAt(s, snapshot)
    <3>1. SeenAt(s, snapshot)' = {RowOf(v) : v \in {x \in heap'[s] : Visible(x, snapshot)}}
      BY <1>1, Zenon DEF SeenAt, RowsAt, Visible, RowOf
    <3>2. \A x \in Int : x <= now =>
            {RowOf(v) : v \in {y \in heap'[s] : Visible(y, x)}} = SeenAt(s, x)
      <4> SUFFICES ASSUME NEW x \in Int, x <= now
                   PROVE  {RowOf(v) : v \in {y \in heap'[s] : Visible(y, x)}} = SeenAt(s, x)
        OBVIOUS
      <4>1. SeenAt(s, x)' = SeenAt(s, x)
        BY <2>3
      <4> QED
        BY <4>1, Zenon DEF SeenAt, RowsAt, Visible, RowOf
    <3> QED
      BY <2>2, <3>1, <3>2
  <2> QED
    BY <2>1, <2>4, Zenon DEF UniqueAt
<1>7. UniqueAt(s, c, now)'
  <2>1. SeenAt(s, now)' = {RowOf(v) : v \in {x \in heap'[s] : Visible(x, now + 1)}}
    BY <1>1, Zenon DEF SeenAt, RowsAt, Visible, RowOf
  <2>2. ASSUME NEW v \in heap'[s], Visible(v, now + 1), NEW w \in heap'[s], Visible(w, now + 1),
               RowOf(v)[c] = RowOf(w)[c], RowOf(v)[c] # Null
        PROVE  RowOf(v) = RowOf(w)
    <3>1. \/ v \in RowsAt(s, now) /\ (s = t => v \notin gone)
          \/ s = t /\ v \in new
      BY <2>2, WrittenNow, Zenon
    <3>2. \/ w \in RowsAt(s, now) /\ (s = t => w \notin gone)
          \/ s = t /\ w \in new
      BY <2>2, WrittenNow, Zenon
    <3>3. v \in Version /\ w \in Version
      <4>1. heap' \in [Tables -> SUBSET Version]
        BY WrittenMembers, Zenon
      <4> QED
        BY <4>1
    <3>4. RowOf(v)[c] = v[c] /\ RowOf(w)[c] = w[c]
      BY <3>3, VersionFacts
    <3>5. CASE v \in RowsAt(s, now) /\ w \in RowsAt(s, now)
      <4>1. RowOf(v) \in SeenAt(s, now) /\ RowOf(w) \in SeenAt(s, now)
        BY <3>5, Zenon DEF SeenAt
      <4> QED
        BY <1>5, <2>2, <4>1, Zenon DEF UniqueAt
    <3>6. CASE s = t /\ v \in new /\ w \in RowsAt(s, now) \ gone
      BY <1>2, <1>4, <2>2, <3>4, <3>6 DEF NewVersion
    <3>7. CASE s = t /\ w \in new /\ v \in RowsAt(s, now) \ gone
      BY <1>2, <1>4, <2>2, <3>4, <3>7 DEF NewVersion
    <3>8. CASE v \in new /\ w \in new
      BY <1>3, <3>8
    <3> QED
      BY <3>1, <3>2, <3>5, <3>6, <3>7, <3>8
  <2>3. \A x, y \in SeenAt(s, now)' : x[c] = y[c] /\ x[c] # Null => x = y
    BY <2>1, <2>2, Zenon
  <2> QED
    BY <2>3, Zenon DEF UniqueAt
<1> QED
  BY <1>6, <1>7

\* The oldest time someone still looks at.
Horizon == IF snapshot = -1 THEN now ELSE snapshot

LEMMA VacuumSame ==
    ASSUME Tuples, Vacuum, NEW time \in Int, Horizon <= time, NEW s \in Tables
    PROVE  {v \in heap'[s] : Visible(v, time)} = RowsAt(s, time)
<1>1. heap' = [t \in Tables |-> {v \in heap[t] : v.dead = 0 \/ v.dead > Horizon}]
  BY DEF Vacuum, Horizon
<1>2. heap'[s] = {v \in heap[s] : v.dead = 0 \/ v.dead > Horizon}
  BY <1>1
<1>3. \A v \in heap[s] : v.dead \in Nat
  BY TupleTypes
<1>4. Horizon \in Int
  BY TupleTypes DEF Horizon
<1>5. ASSUME NEW v \in heap[s], Visible(v, time) PROVE v.dead = 0 \/ v.dead > Horizon
  <2>1. v.dead = 0 \/ v.dead > time
    BY <1>5 DEF Visible
  <2> QED
    BY <1>3, <1>4, <2>1
<1> QED
  BY <1>2, <1>5, Zenon DEF RowsAt

LEMMA VacuumTuples == ASSUME Tuples, Vacuum PROVE Tuples'
<1>1. /\ heap' = [t \in Tables |-> {v \in heap[t] : v.dead = 0 \/ v.dead > Horizon}]
      /\ indexlist' = indexlist /\ now' = now /\ snapshot' = snapshot
  BY DEF Vacuum, Horizon
<1>2. \A t \in Tables : heap'[t] \subseteq heap[t]
  BY <1>1
<1>3. heap' \in [Tables -> SUBSET Version]
  BY <1>1 DEF Tuples
<1>4. \A t \in Tables : IsFiniteSet(heap'[t])
  BY <1>2, FS_Subset DEF Tuples
<1>5. \A t \in Tables : \A v \in heap'[t] : v.born <= now' /\ v.dead <= now'
  BY <1>1, <1>2, Zenon DEF Tuples
<1>6. \A t \in Tables : \A v, w \in heap'[t] : v.tid = w.tid => v = w
  BY <1>2, Zenon DEF Tuples
<1>7. /\ indexlist' \in [Tables -> SUBSET Index] /\ now' \in 0..MaxWrites
      /\ snapshot' \in -1..now'
  BY <1>1 DEF Tuples
<1> QED
  BY <1>3, <1>4, <1>5, <1>6, <1>7, Zenon DEF Tuples

\* Whatever others do, the tables stay sound and a held snapshot sees the same.
LEMMA OthersKeep ==
    ASSUME Tuples, Constraints, Insert \/ Update \/ Delete \/ Vacuum
    PROVE  /\ Tuples' /\ Constraints' /\ indexlist' = indexlist /\ snapshot' = snapshot
           /\ snapshot # -1 => \A s \in Tables : SeenAt(s, snapshot)' = SeenAt(s, snapshot)
<1>1. CASE Insert \/ Update \/ Delete
  <2>1. PICK t \in Tables : \E gone, new : Written(t, gone, new)
    BY <1>1, WritersWrite, Zenon
  <2>2. PICK gone, new : Written(t, gone, new)
    BY <2>1
  <2>3. Tuples'
    BY <2>2, WrittenTuples, Zenon
  <2>4. Constraints'
    BY <2>2, WrittenConstraints, Zenon
  <2>5. indexlist' = indexlist /\ snapshot' = snapshot
    BY <2>2 DEF Written
  <2>6. ASSUME NEW s \in Tables PROVE SeenAt(s, snapshot)' = SeenAt(s, snapshot)
    <3>1. snapshot \in Int /\ snapshot <= now
      BY TupleTypes
    <3>2. ASSUME NEW x \in Int, x <= now
          PROVE  {RowOf(v) : v \in {y \in heap'[s] : Visible(y, x)}} = SeenAt(s, x)
      <4>1. SeenAt(s, x)' = SeenAt(s, x)
        BY <2>2, <3>2, WrittenSame, Zenon
      <4> QED
        BY <4>1, Zenon DEF SeenAt, RowsAt, Visible, RowOf
    <3>3. {RowOf(v) : v \in {y \in heap'[s] : Visible(y, snapshot)}} = SeenAt(s, snapshot)
      BY <3>1, <3>2
    <3> QED
      BY <2>5, <3>3, Zenon DEF SeenAt, RowsAt, Visible, RowOf
  <2> QED
    BY <2>3, <2>4, <2>5, <2>6
<1>2. CASE Vacuum
  <2>1. Tuples'
    BY <1>2, VacuumTuples
  <2>2. indexlist' = indexlist /\ now' = now /\ snapshot' = snapshot
    BY <1>2 DEF Vacuum
  <2>3. snapshot \in Int /\ now \in Int /\ snapshot <= now
    BY TupleTypes
  <2>4. ASSUME NEW s \in Tables PROVE SeenAt(s, now)' = SeenAt(s, now)
    <3>1. Horizon <= now
      BY <2>3 DEF Horizon
    <3>2. {v \in heap'[s] : Visible(v, now)} = RowsAt(s, now)
      BY <1>2, <2>3, <3>1, VacuumSame, Zenon
    <3> QED
      BY <2>2, <3>2, Zenon DEF SeenAt, RowsAt, Visible, RowOf
  <2>5. ASSUME NEW s \in Tables, snapshot # -1
        PROVE  SeenAt(s, snapshot)' = SeenAt(s, snapshot)
    <3>1. Horizon <= snapshot
      BY <2>3, <2>5 DEF Horizon
    <3>2. {v \in heap'[s] : Visible(v, snapshot)} = RowsAt(s, snapshot)
      BY <1>2, <2>3, <3>1, VacuumSame, Zenon
    <3> QED
      BY <2>2, <3>2, Zenon DEF SeenAt, RowsAt, Visible, RowOf
  <2>6. \A s, c : IsUnique(s, c)' <=> IsUnique(s, c)
    BY <2>2 DEF IsUnique
  <2>7. ASSUME NEW s \in Tables, NEW c \in Columns, IsUnique(s, c)'
        PROVE  UniqueAt(s, c, now)' /\ ((snapshot # -1)' => UniqueAt(s, c, snapshot)')
    <3>1. UniqueAt(s, c, now) /\ (snapshot # -1 => UniqueAt(s, c, snapshot))
      BY <2>6, <2>7, Zenon DEF Constraints
    <3>2. UniqueAt(s, c, now)'
      BY <2>4, <3>1, Zenon DEF UniqueAt
    <3>3. (snapshot # -1)' => UniqueAt(s, c, snapshot)'
      BY <2>2, <2>5, <3>1, Zenon DEF UniqueAt
    <3> QED
      BY <3>2, <3>3
  <2>8. Constraints'
    BY <2>7, Zenon DEF Constraints
  <2> QED
    BY <2>1, <2>2, <2>5, <2>8
<1> QED
  BY <1>1, <1>2

-----------------------------------------------------------------------------
(***************************************************************************)
(* The planner's choice.                                                   *)
(***************************************************************************)
LEMMA OneClause ==
    ASSUME NEW q \in Queries, find_equijoin_key(q.restrictlist)
    PROVE  \E c : /\ EquijoinClauses(q.restrictlist) = {c}
                  /\ c.op = "=" /\ c.left.table # c.right.table
                  /\ c.left.table \in {q.tables[1], q.tables[2]}
                  /\ c.right.table \in {q.tables[1], q.tables[2]}
                  /\ c.left.attno \in Columns /\ c.right.attno \in Columns
<1> DEFINE E == EquijoinClauses(q.restrictlist)
<1>1. E \subseteq q.restrictlist
  BY DEF EquijoinClauses
<1>2. IsFiniteSet(E)
  BY <1>1, ClauseAssumption, FS_Subset
<1>3. Cardinality(E) = 1
  BY DEF find_equijoin_key
<1> HIDE DEF E
<1>4. PICK c : E = {c}
  BY <1>2, <1>3, FS_Singleton
<1>5. c.op = "=" /\ c.left.table # c.right.table
  BY <1>4 DEF E, EquijoinClauses
<1>6. /\ {c.left.table, c.right.table} \subseteq {q.tables[1], q.tables[2]}
      /\ {c.left.attno, c.right.attno} \subseteq {"key", "val"}
  BY <1>1, <1>4, ClauseAssumption
<1>7. EquijoinClauses(q.restrictlist) = {c}
  BY <1>4 DEF E
<1> QED
  BY <1>5, <1>6, <1>7 DEF Columns

\* The path made for two sides of a query joins them.
LEMMA CustomPathJoins ==
    ASSUME NEW q \in Queries, find_equijoin_key(q.restrictlist),
           q.jointype = "JOIN_INNER", NEW o, NEW i,
           \/ i.table = q.tables[1] /\ o.table = q.tables[2]
           \/ i.table = q.tables[2] /\ o.table = q.tables[1]
    PROVE  PathJoins(CustomPath(q, o, i), q)
<1>1. PICK c : /\ EquijoinClauses(q.restrictlist) = {c}
               /\ c.op = "=" /\ c.left.table # c.right.table
               /\ c.left.table \in {q.tables[1], q.tables[2]}
               /\ c.right.table \in {q.tables[1], q.tables[2]}
               /\ c.left.attno \in Columns /\ c.right.attno \in Columns
  BY OneClause
<1>2. q.tables[1] # q.tables[2]
  BY ClauseAssumption
<1> DEFINE D == CHOOSE d \in EquijoinClauses(q.restrictlist) : TRUE
<1>3. D = c
  BY <1>1
<1>4. \A r : KeyVar(q.restrictlist, r) = IF c.left.table = r.table THEN c.left ELSE c.right
  <2>1. \A r : KeyVar(q.restrictlist, r) = IF D.left.table = r.table THEN D.left ELSE D.right
    BY Zenon DEF KeyVar
  <2> HIDE DEF D
  <2> QED
    BY <1>3, <2>1, Zenon
<1> DEFINE path == CustomPath(q, o, i)
<1>5. /\ path.inner = i.table /\ path.outer = o.table
      /\ path.inner_attno = KeyVar(q.restrictlist, i).attno
      /\ path.outer_attno = KeyVar(q.restrictlist, o).attno
  BY DEF CustomPath
<1> HIDE DEF path
<1>6. path.inner # path.outer
  BY <1>2, <1>5
<1>7. CASE c.left.table = i.table
  <2>1. c.right.table = o.table /\ c.left.table # o.table
    BY <1>1, <1>2, <1>7
  <2>2. path.inner_attno = c.left.attno /\ path.outer_attno = c.right.attno
    BY <1>4, <1>5, <1>7, <2>1
  <2> QED
    BY <1>1, <1>5, <1>6, <1>7, <2>1, <2>2 DEF PathJoins, path
<1>8. CASE c.left.table # i.table
  <2>1. c.right.table = i.table /\ c.left.table = o.table
    BY <1>1, <1>2, <1>8
  <2>2. path.inner_attno = c.right.attno /\ path.outer_attno = c.left.attno
    BY <1>4, <1>5, <1>8, <2>1
  <2> QED
    BY <1>1, <1>5, <1>6, <1>8, <2>1, <2>2 DEF PathJoins, path
<1> QED
  BY <1>7, <1>8

\* The hook's path joins the tables of the query, and its inner side has a
\* unique index on the key.
LEMMA HookJoins ==
    ASSUME NEW g, NEW q \in Queries, NEW o, NEW i,
           \/ i.table = q.tables[1] /\ o.table = q.tables[2]
           \/ i.table = q.tables[2] /\ o.table = q.tables[1],
           o.indexlist = indexlist[o.table], i.indexlist = indexlist[i.table],
           NEW path \in fpga_planner_hook(g, q, o, i)
    PROVE  PathJoins(path, q) /\ IsUnique(path.inner, path.inner_attno)
<1> DEFINE unique(rel) == rel_joinkey_is_unique(rel, KeyVar(q.restrictlist, rel).attno)
<1>1. fpga_is_offloadable(g, q, o, i)
  BY Zenon DEF fpga_planner_hook
<1>2. \/ path = CustomPath(q, o, i) /\ unique(i)
      \/ path = CustomPath(q, i, o) /\ unique(o)
  BY Zenon DEF fpga_planner_hook
<1>3. find_equijoin_key(q.restrictlist) /\ q.jointype = "JOIN_INNER"
  BY <1>1, Zenon DEF fpga_is_offloadable
<1>4. ASSUME NEW a, NEW b, path = CustomPath(q, a, b), unique(b),
             b.indexlist = indexlist[b.table],
             \/ b.table = q.tables[1] /\ a.table = q.tables[2]
             \/ b.table = q.tables[2] /\ a.table = q.tables[1]
      PROVE  PathJoins(path, q) /\ IsUnique(path.inner, path.inner_attno)
  <2>1. PathJoins(path, q)
    BY <1>3, <1>4, CustomPathJoins, Zenon
  <2>2. path.inner = b.table /\ path.inner_attno = KeyVar(q.restrictlist, b).attno
    BY <1>4 DEF CustomPath
  <2>3. IsUnique(path.inner, path.inner_attno)
    BY <1>4, <2>2, Zenon DEF IsUnique, rel_joinkey_is_unique
  <2> QED
    BY <2>1, <2>3
<1> QED
  BY <1>2, <1>4, Zenon

LEMMA PlanJoins ==
    ASSUME query \in Queries, Plan, spc' = "planned" PROVE PlanSound'
<1>1. PICK rows \in [Tables -> Estimates] :
        LET rel(t) == [table |-> t, rows |-> rows[t], reloptkind |-> query.reloptkind[t],
                       indexlist |-> indexlist[t]]
            t1 == query.tables[1]
            t2 == query.tables[2]
            paths == fpga_planner_hook(gucs, query, rel(t1), rel(t2))
                     \cup fpga_planner_hook(gucs, query, rel(t2), rel(t1))
        IN \/ paths = {} /\ spc' = "on_cpu" /\ UNCHANGED plan
           \/ \E path \in paths : /\ spc' = "planned"
                                  /\ plan' = [path |-> path, gucs |-> gucs, rows |-> rows]
  BY Zenon DEF Plan
<1> DEFINE rel(t) == [table |-> t, rows |-> rows[t], reloptkind |-> query.reloptkind[t],
                      indexlist |-> indexlist[t]]
           t1 == query.tables[1]
           t2 == query.tables[2]
<1>2. "planned" # "on_cpu"
  OBVIOUS
<1>3. PICK path \in fpga_planner_hook(gucs, query, rel(t1), rel(t2))
                    \cup fpga_planner_hook(gucs, query, rel(t2), rel(t1)) :
              plan' = [path |-> path, gucs |-> gucs, rows |-> rows]
  BY <1>1, <1>2, Zenon
<1>4. \A t : rel(t).table = t /\ rel(t).indexlist = indexlist[t]
  OBVIOUS
<1> HIDE DEF rel, t1, t2
<1>5. PathJoins(path, query) /\ IsUnique(path.inner, path.inner_attno)
  <2>1. CASE path \in fpga_planner_hook(gucs, query, rel(t1), rel(t2))
    BY <1>4, <2>1, HookJoins, Zenon DEF t1, t2
  <2>2. CASE path \in fpga_planner_hook(gucs, query, rel(t2), rel(t1))
    <3>1. /\ rel(t1).table = query.tables[1] /\ rel(t2).table = query.tables[2]
          /\ rel(t1).indexlist = indexlist[rel(t1).table]
          /\ rel(t2).indexlist = indexlist[rel(t2).table]
      BY <1>4, Zenon DEF t1, t2
    <3> QED
      BY <2>2, <3>1, HookJoins, Zenon
  <2> QED
    BY <1>3, <2>1, <2>2
<1>6. plan'.path = path
  BY <1>3
<1>7. query' = query /\ indexlist' = indexlist
  BY DEF Plan, db
<1>8. PathJoins(plan.path, query)'
  BY <1>5, <1>6, <1>7, Zenon DEF PathJoins
<1>9. IsUnique(InnerTable, plan.path.inner_attno)'
  BY <1>5, <1>6, <1>7, Zenon DEF IsUnique, InnerTable
<1> QED
  BY <1>8, <1>9 DEF PlanSound

-----------------------------------------------------------------------------
(***************************************************************************)
(* The scan.                                                               *)
(***************************************************************************)
LEMMA BesideFacts ==
    ASSUME NEW t, NEW u, t # u, NEW v, NEW w
    PROVE  /\ Beside(t, v, u, w)[t] = v /\ Beside(t, v, u, w)[u] = w
           /\ Beside(t, v, u, w) = Beside(u, w, t, v)
<1>1. Beside(t, v, u, w)[t] = v /\ Beside(t, v, u, w)[u] = w
  BY DEF Beside
<1>2. {t, u} = {u, t}
  OBVIOUS
<1>3. \A x \in {t, u} : (IF x = t THEN v ELSE w) = (IF x = u THEN w ELSE v)
  OBVIOUS
<1>4. Beside(t, v, u, w) = Beside(u, w, t, v)
  BY <1>2, <1>3 DEF Beside
<1> QED
  BY <1>1, <1>4

\* A TID tells the rows that are seen apart.
LEMMA SeenByTid ==
    ASSUME Tuples, NEW t \in Tables, NEW time, NEW a \in SeenAt(t, time),
           NEW b \in SeenAt(t, time), a.tid = b.tid
    PROVE  a = b
<1>1. PICK v \in RowsAt(t, time) : a = RowOf(v)
  BY DEF SeenAt
<1>2. PICK w \in RowsAt(t, time) : b = RowOf(w)
  BY DEF SeenAt
<1>3. v \in heap[t] /\ w \in heap[t]
  BY DEF RowsAt
<1>4. v \in Version /\ w \in Version
  BY <1>3, TupleTypes
<1>5. v.tid = w.tid
  BY <1>1, <1>2, <1>4, VersionFacts
<1>6. v = w
  BY <1>3, <1>5 DEF Tuples
<1> QED
  BY <1>1, <1>2, <1>6

LEMMA SeenFacts ==
    ASSUME Tuples, NEW t \in Tables, NEW time, NEW a \in SeenAt(t, time)
    PROVE  /\ a.tid \in Tids
           /\ \A c \in Columns : a[c] # Null => a[c] \in Keys \cup Vals
<1>1. PICK v \in RowsAt(t, time) : a = RowOf(v)
  BY DEF SeenAt
<1>2. v \in Version
  BY TupleTypes DEF RowsAt
<1>3. a.tid \in Tids /\ a.key \in Keys \cup {Null} /\ a.val \in Vals
  BY <1>1, <1>2, VersionFacts
<1> QED
  BY <1>3 DEF Columns

\* The sides of a sound plan.
LEMMA SidesFacts ==
    ASSUME query \in Queries, PlanSound
    PROVE  /\ InnerTable \in Tables /\ OuterTable \in Tables /\ InnerTable # OuterTable
           /\ plan.path.inner_attno \in Columns /\ plan.path.outer_attno \in Columns
<1>1. query.tables[1] \in Tables /\ query.tables[2] \in Tables
  BY ClauseAssumption
<1>2. PathJoins(plan.path, query)
  BY DEF PlanSound
<1> QED
  BY <1>1, <1>2 DEF PathJoins, InnerTable, OuterTable

\* drain_plan lists the rows of a table that have a key.
LEMMA DrainLists ==
    ASSUME Tuples, NEW t \in Tables, NEW c \in Columns
    PROVE  Lists(drain_plan(t, c), t, c)
<1> DEFINE R == {v \in RowsAt(t, snapshot) : v[c] # Null}
           rows == SetToSeq(R)
           arr == [i \in DOMAIN rows |-> [key |-> rows[i][c], tid |-> rows[i].tid]]
<1>1. drain_plan(t, c) = arr
  BY Zenon DEF drain_plan
<1>2. R \subseteq heap[t]
  BY DEF RowsAt
<1>3. IsFiniteSet(R)
  BY <1>2, FS_Subset DEF Tuples
<1>4. ASSUME NEW v \in R
      PROVE  /\ v \in Version /\ RowOf(v) \in Keyed(t, c) /\ Keep(RowOf(v), c) = Keep(v, c)
             /\ Keep(v, c) \in ArrRow
  <2>1. v \in RowsAt(t, snapshot) /\ v[c] # Null
    OBVIOUS
  <2>2. v \in Version
    BY <1>2, TupleTypes
  <2>3. RowOf(v)[c] = v[c] /\ RowOf(v).tid = v.tid
    BY <2>2, VersionFacts
  <2>4. RowOf(v) \in Seen(t)
    BY <2>1 DEF Seen, SeenAt
  <2>5. RowOf(v).tid \in Tids /\ RowOf(v)[c] \in Keys \cup Vals
    BY <2>1, <2>3, <2>4, SeenFacts DEF Seen
  <2>6. RowOf(v) \in Keyed(t, c)
    BY <2>1, <2>3, <2>4 DEF Keyed
  <2>7. Keep(RowOf(v), c) = Keep(v, c)
    BY <2>3 DEF Keep
  <2>8. Keep(v, c) \in ArrRow
    BY <2>3, <2>5 DEF Keep, ArrRow
  <2> QED
    BY <2>2, <2>6, <2>7, <2>8
<1>5. ASSUME NEW a \in Keyed(t, c) PROVE \E v \in R : a = RowOf(v)
  <2>1. a \in Seen(t) /\ a[c] # Null
    BY DEF Keyed
  <2>2. PICK v \in RowsAt(t, snapshot) : a = RowOf(v)
    BY <2>1 DEF Seen, SeenAt
  <2>3. v \in Version
    BY TupleTypes DEF RowsAt
  <2>4. v[c] # Null
    BY <2>1, <2>2, <2>3, VersionFacts
  <2> QED
    BY <2>2, <2>4
<1> HIDE DEF R
<1>6. /\ rows \in Seq(R) /\ ToSet(rows) = R
      /\ \A i, j \in DOMAIN rows : rows[i] = rows[j] => i = j
  BY <1>3, SetListed
<1> HIDE DEF rows
<1>7. DOMAIN rows = 1..Len(rows) /\ Len(rows) \in Nat /\ \A i \in DOMAIN rows : rows[i] \in R
  BY <1>6
<1>8. /\ DOMAIN arr = DOMAIN rows
      /\ \A i \in DOMAIN rows : arr[i] = Keep(rows[i], c)
  BY DEF Keep
<1> HIDE DEF arr
<1>9. arr \in Seq(ArrRow)
  <2>1. \A i \in 1..Len(rows) : arr[i] \in ArrRow
    BY <1>4, <1>7, <1>8
  <2>2. arr = [i \in 1..Len(rows) |-> arr[i]]
    BY <1>7 DEF arr
  <2>3. arr \in [1..Len(rows) -> ArrRow]
    BY <2>1, <2>2
  <2> QED
    BY <1>7, <2>3
<1>10. ToSet(arr) = {Keep(v, c) : v \in Keyed(t, c)}
  <2>1. ASSUME NEW i \in DOMAIN arr PROVE \E v \in Keyed(t, c) : arr[i] = Keep(v, c)
    BY <1>4, <1>7, <1>8
  <2>2. ASSUME NEW a \in Keyed(t, c) PROVE \E i \in DOMAIN arr : arr[i] = Keep(a, c)
    <3>1. PICK v \in R : a = RowOf(v)
      BY <1>5
    <3>2. PICK i \in DOMAIN rows : rows[i] = v
      BY <1>6 DEF ToSet
    <3> QED
      BY <1>4, <1>8, <3>1, <3>2
  <2> QED
    BY <2>1, <2>2, Zenon DEF ToSet
<1>11. ASSUME NEW i \in DOMAIN arr, NEW j \in DOMAIN arr, arr[i].tid = arr[j].tid PROVE i = j
  <2>1. rows[i] \in heap[t] /\ rows[j] \in heap[t]
    BY <1>2, <1>7, <1>8
  <2>2. rows[i].tid = rows[j].tid
    BY <1>8, <1>11 DEF Keep
  <2>3. rows[i] = rows[j]
    BY <2>1, <2>2 DEF Tuples
  <2> QED
    BY <1>6, <1>8, <2>3
<1> QED
  BY <1>1, <1>9, <1>10, <1>11 DEF Lists

\* A pair satisfies the clauses of a query that the plan joins if its keys match.
LEMMA ClausesMatch ==
    ASSUME NoOtherClauses, query \in Queries, PlanSound, NEW v, NEW w
    PROVE  (\A c \in query.restrictlist : Holds(c, Beside(InnerTable, v, OuterTable, w)))
              <=> Matches(v, w)
<1>1. InnerTable # OuterTable
  BY SidesFacts
<1> DEFINE p == Beside(InnerTable, v, OuterTable, w)
<1>2. p[InnerTable] = v /\ p[OuterTable] = w
  BY <1>1, BesideFacts
<1> HIDE DEF p
<1>3. PICK c : /\ EquijoinClauses(query.restrictlist) = {c} /\ c.op = "="
               /\ \/ /\ c.left.table = InnerTable /\ c.left.attno = plan.path.inner_attno
                     /\ c.right.table = OuterTable /\ c.right.attno = plan.path.outer_attno
                  \/ /\ c.right.table = InnerTable /\ c.right.attno = plan.path.inner_attno
                     /\ c.left.table = OuterTable /\ c.left.attno = plan.path.outer_attno
  BY Zenon DEF PlanSound, PathJoins, InnerTable, OuterTable
<1>4. query.restrictlist = {c}
  BY <1>3, Zenon DEF NoOtherClauses, PlanSound, PathJoins
<1>5. Holds(c, p) <=> Matches(v, w)
  <2> DEFINE a == p[c.left.table][c.left.attno]
             b == p[c.right.table][c.right.attno]
  <2>1. Holds(c, p) <=> Null \notin {a, b} /\ a = b
    BY <1>3 DEF Holds
  <2>2. \/ a = v[plan.path.inner_attno] /\ b = w[plan.path.outer_attno]
        \/ b = v[plan.path.inner_attno] /\ a = w[plan.path.outer_attno]
    BY <1>2, <1>3
  <2> HIDE DEF a, b
  <2> QED
    BY <2>1, <2>2 DEF Matches
<1> QED
  BY <1>4, <1>5 DEF p

\* What SQL asks for, in terms of the plan.
LEMMA SqlAsks ==
    ASSUME NoOtherClauses, query \in Queries, PlanSound
    PROVE  SqlJoin = {Shown(s) : s \in {x \in SeenAt(InnerTable, now) \X SeenAt(OuterTable, now) :
                                          Matches(x[1], x[2])}}
<1> DEFINE t1 == query.tables[1]
           t2 == query.tables[2]
           pairs == {Beside(t1, s[1], t2, s[2]) : s \in SeenAt(t1, now) \X SeenAt(t2, now)}
           joined == {p \in pairs : \A c \in query.restrictlist : Holds(c, p)}
           A == SeenAt(InnerTable, now)
           B == SeenAt(OuterTable, now)
           matching == {x \in A \X B : Matches(x[1], x[2])}
<1>1. query.jointype # "JOIN_LEFT"
  BY DEF PlanSound, PathJoins
<1>2. SqlJoin = joined
  <2>1. SqlJoin = joined \cup {}
    BY <1>1, Zenon DEF SqlJoin, SeenAt
  <2> HIDE DEF joined
  <2> QED
    BY <2>1
<1>3. InnerTable # OuterTable
  BY SidesFacts
<1>4. \/ InnerTable = t1 /\ OuterTable = t2
      \/ InnerTable = t2 /\ OuterTable = t1
  BY DEF PlanSound, PathJoins, InnerTable, OuterTable
<1> HIDE DEF t1, t2
<1>5. ASSUME NEW v \in A, NEW w \in B PROVE Beside(InnerTable, v, OuterTable, w) \in pairs
  <2>1. CASE InnerTable = t1 /\ OuterTable = t2
    <3>1. <<v, w>> \in SeenAt(t1, now) \X SeenAt(t2, now)
      BY <2>1
    <3>2. Beside(InnerTable, v, OuterTable, w) = Beside(t1, <<v, w>>[1], t2, <<v, w>>[2])
      BY <2>1
    <3> QED
      BY <3>1, <3>2
  <2>2. CASE InnerTable = t2 /\ OuterTable = t1
    <3>1. <<w, v>> \in SeenAt(t1, now) \X SeenAt(t2, now)
      BY <2>2
    <3>2. Beside(InnerTable, v, OuterTable, w) = Beside(OuterTable, w, InnerTable, v)
      BY <1>3, BesideFacts
    <3>3. Beside(InnerTable, v, OuterTable, w) = Beside(t1, <<w, v>>[1], t2, <<w, v>>[2])
      BY <2>2, <3>2
    <3> QED
      BY <3>1, <3>3
  <2> QED
    BY <1>4, <2>1, <2>2
<1>6. ASSUME NEW p \in pairs
      PROVE  \E v \in A, w \in B : p = Beside(InnerTable, v, OuterTable, w)
  <2>1. PICK s \in SeenAt(t1, now) \X SeenAt(t2, now) : p = Beside(t1, s[1], t2, s[2])
    OBVIOUS
  <2>2. s[1] \in SeenAt(t1, now) /\ s[2] \in SeenAt(t2, now)
    OBVIOUS
  <2>3. CASE InnerTable = t1 /\ OuterTable = t2
    BY <2>1, <2>2, <2>3
  <2>4. CASE InnerTable = t2 /\ OuterTable = t1
    <3>1. Beside(OuterTable, s[1], InnerTable, s[2]) = Beside(InnerTable, s[2], OuterTable, s[1])
      BY <1>3, BesideFacts
    <3> QED
      BY <2>1, <2>2, <2>4, <3>1
  <2> QED
    BY <1>4, <2>3, <2>4
<1> HIDE DEF pairs
<1>7. \A v, w : (\A c \in query.restrictlist : Holds(c, Beside(InnerTable, v, OuterTable, w)))
                   <=> Matches(v, w)
  BY ClausesMatch, Zenon
<1>8. ASSUME NEW s \in matching PROVE Shown(s) \in joined
  <2>1. s[1] \in A /\ s[2] \in B /\ Matches(s[1], s[2])
    OBVIOUS
  <2>2. Shown(s) \in pairs
    BY <1>5, <2>1, Zenon DEF Shown
  <2>3. \A c \in query.restrictlist : Holds(c, Shown(s))
    BY <1>7, <2>1, Zenon DEF Shown
  <2> QED
    BY <2>2, <2>3
<1>9. ASSUME NEW p \in joined PROVE \E s \in matching : p = Shown(s)
  <2>1. p \in pairs /\ \A c \in query.restrictlist : Holds(c, p)
    OBVIOUS
  <2>2. PICK v \in A, w \in B : p = Beside(InnerTable, v, OuterTable, w)
    BY <1>6, <2>1
  <2>3. Matches(v, w)
    BY <1>7, <2>1, <2>2, Zenon
  <2>4. <<v, w>> \in A \X B /\ <<v, w>>[1] = v /\ <<v, w>>[2] = w
    OBVIOUS
  <2>5. <<v, w>> \in matching
    <3> HIDE DEF A, B
    <3> QED
      BY <2>3, <2>4, Zenon
  <2>6. p = Shown(<<v, w>>)
    BY <2>2 DEF Shown
  <2> HIDE DEF matching
  <2> QED
    BY <2>5, <2>6
<1> HIDE DEF joined, matching
<1>10. joined = {Shown(s) : s \in matching}
  BY <1>8, <1>9, Zenon
<1> QED
  BY <1>2, <1>10 DEF matching, A, B

\* The join of the two arrays is that of the rows to return.
LEMMA ListsJoin ==
    ASSUME Tuples, Constraints, query \in Queries, PlanSound, snapshot # -1,
           Lists(inner_arr, InnerTable, plan.path.inner_attno),
           Lists(outer_arr, OuterTable, plan.path.outer_attno)
    PROVE  LET pairs == JoinOf(inner_arr, outer_arr)
           IN /\ pairs \in Seq([inner_tid : Tids, outer_tid : Tids])
              /\ ToSet(pairs) = {TidsOf(s) : s \in Matching}
              /\ \A i, j \in DOMAIN pairs : pairs[i].outer_tid = pairs[j].outer_tid => i = j
<1> DEFINE ci == plan.path.inner_attno
           co == plan.path.outer_attno
           pairs == JoinOf(inner_arr, outer_arr)
<1>1. InnerTable \in Tables /\ OuterTable \in Tables /\ ci \in Columns /\ co \in Columns
  BY SidesFacts
<1>2. /\ inner_arr \in Seq(ArrRow) /\ ToSet(inner_arr) = {Keep(v, ci) : v \in Keyed(InnerTable, ci)}
      /\ \A i, j \in DOMAIN inner_arr : inner_arr[i].tid = inner_arr[j].tid => i = j
  BY Zenon DEF Lists
<1>3. /\ outer_arr \in Seq(ArrRow) /\ ToSet(outer_arr) = {Keep(v, co) : v \in Keyed(OuterTable, co)}
      /\ \A i, j \in DOMAIN outer_arr : outer_arr[i].tid = outer_arr[j].tid => i = j
  BY Zenon DEF Lists
<1>4. UniqueAt(InnerTable, ci, snapshot)
  BY <1>1, Zenon DEF Constraints, PlanSound
<1>5. \A v, w : Matches(v, w) <=> v[ci] = w[co] /\ v[ci] # Null
  BY DEF Matches
<1> HIDE DEF ci, co
<1>6. \A i \in DOMAIN inner_arr : \E v \in Keyed(InnerTable, ci) : inner_arr[i] = Keep(v, ci)
  BY <1>2, Zenon DEF ToSet
<1>7. \A j \in DOMAIN outer_arr : \E w \in Keyed(OuterTable, co) : outer_arr[j] = Keep(w, co)
  BY <1>3, Zenon DEF ToSet
<1>8. \A v \in Keyed(InnerTable, ci) : \E i \in DOMAIN inner_arr : inner_arr[i] = Keep(v, ci)
  BY <1>2, Zenon DEF ToSet
<1>9. \A w \in Keyed(OuterTable, co) : \E j \in DOMAIN outer_arr : outer_arr[j] = Keep(w, co)
  BY <1>3, Zenon DEF ToSet
<1>10. \A v, c : Keep(v, c).key = v[c] /\ Keep(v, c).tid = v.tid
  BY DEF Keep
<1>11. \A t, c : \A v \in Keyed(t, c) : v \in SeenAt(t, snapshot) /\ v[c] # Null
  BY DEF Keyed, Seen
<1>12. \A t, c : \A v \in SeenAt(t, snapshot) : v[c] # Null => v \in Keyed(t, c)
  BY DEF Keyed, Seen
<1>13. ASSUME NEW i \in DOMAIN inner_arr, NEW j \in DOMAIN inner_arr,
              inner_arr[i].key = inner_arr[j].key
       PROVE  i = j
  <2>1. PICK v \in Keyed(InnerTable, ci) : inner_arr[i] = Keep(v, ci)
    BY <1>6
  <2>2. PICK w \in Keyed(InnerTable, ci) : inner_arr[j] = Keep(w, ci)
    BY <1>6
  <2>3. v[ci] = w[ci]
    BY <1>10, <1>13, <2>1, <2>2
  <2>4. v = w
    BY <1>4, <1>11, <2>3 DEF UniqueAt
  <2> QED
    BY <1>2, <2>1, <2>2, <2>4
<1>14. /\ pairs \in Seq([inner_tid : Tids, outer_tid : Tids])
       /\ \A p \in ToSet(pairs) :
             \E i \in DOMAIN inner_arr, j \in DOMAIN outer_arr :
                /\ inner_arr[i].key = outer_arr[j].key
                /\ p = [inner_tid |-> inner_arr[i].tid, outer_tid |-> outer_arr[j].tid]
       /\ \A i \in DOMAIN inner_arr, j \in DOMAIN outer_arr :
             inner_arr[i].key = outer_arr[j].key =>
             [inner_tid |-> inner_arr[i].tid, outer_tid |-> outer_arr[j].tid] \in ToSet(pairs)
       /\ \A a, b \in DOMAIN pairs : pairs[a].outer_tid = pairs[b].outer_tid => a = b
  BY <1>2, <1>3, <1>13, JoinPairs, Zenon
<1> HIDE DEF pairs
<1>15. ASSUME NEW p \in ToSet(pairs) PROVE \E s \in Matching : p = TidsOf(s)
  <2>1. PICK i \in DOMAIN inner_arr, j \in DOMAIN outer_arr :
           /\ inner_arr[i].key = outer_arr[j].key
           /\ p = [inner_tid |-> inner_arr[i].tid, outer_tid |-> outer_arr[j].tid]
    BY <1>14
  <2>2. PICK v \in Keyed(InnerTable, ci) : inner_arr[i] = Keep(v, ci)
    BY <1>6
  <2>3. PICK w \in Keyed(OuterTable, co) : outer_arr[j] = Keep(w, co)
    BY <1>7
  <2>4. Matches(v, w)
    BY <1>5, <1>10, <1>11, <2>1, <2>2, <2>3
  <2>5. v \in Seen(InnerTable) /\ w \in Seen(OuterTable)
    BY <1>11 DEF Seen
  <2>6. <<v, w>> \in Matching
    BY <2>4, <2>5 DEF Matching
  <2>7. p = TidsOf(<<v, w>>)
    BY <1>10, <2>1, <2>2, <2>3 DEF TidsOf
  <2> QED
    BY <2>6, <2>7
<1>16. ASSUME NEW s \in Matching PROVE TidsOf(s) \in ToSet(pairs)
  <2>1. /\ s[1] \in SeenAt(InnerTable, snapshot) /\ s[2] \in SeenAt(OuterTable, snapshot)
        /\ Matches(s[1], s[2])
    BY DEF Matching, Seen
  <2>2. s[1] \in Keyed(InnerTable, ci) /\ s[2] \in Keyed(OuterTable, co)
    BY <1>5, <1>12, <2>1
  <2>3. PICK i \in DOMAIN inner_arr : inner_arr[i] = Keep(s[1], ci)
    BY <1>8, <2>2
  <2>4. PICK j \in DOMAIN outer_arr : outer_arr[j] = Keep(s[2], co)
    BY <1>9, <2>2
  <2>5. inner_arr[i].key = outer_arr[j].key
    BY <1>5, <1>10, <2>1, <2>3, <2>4
  <2>6. TidsOf(s) = [inner_tid |-> inner_arr[i].tid, outer_tid |-> outer_arr[j].tid]
    BY <1>10, <2>3, <2>4 DEF TidsOf
  <2> QED
    BY <1>14, <2>5, <2>6
<1>17. ToSet(pairs) = {TidsOf(s) : s \in Matching}
  BY <1>15, <1>16, Zenon
<1> QED
  BY <1>14, <1>17, Zenon DEF pairs

\* A pair of the result names one row on either side, and the snapshot still
\* sees it there.
LEMMA PairFetched ==
    ASSUME Tuples, query \in Queries, PlanSound, NEW s \in Matching
    PROVE  /\ \E v : Fetch(InnerTable, TidsOf(s).inner_tid) = {v} /\ RowOf(v) = s[1]
           /\ \E w : Fetch(OuterTable, TidsOf(s).outer_tid) = {w} /\ RowOf(w) = s[2]
<1>1. InnerTable \in Tables /\ OuterTable \in Tables
  BY SidesFacts
<1>2. ASSUME NEW t \in Tables, NEW a \in SeenAt(t, snapshot)
      PROVE  \E v : Fetch(t, a.tid) = {v} /\ RowOf(v) = a
  <2>1. PICK v \in RowsAt(t, snapshot) : a = RowOf(v)
    BY DEF SeenAt
  <2>2. v \in heap[t] /\ Visible(v, snapshot)
    BY DEF RowsAt
  <2>3. v \in Version
    BY <2>2, TupleTypes
  <2>4. a.tid = v.tid
    BY <2>1, <2>3, VersionFacts
  <2>5. \A w \in heap[t] : w.tid = v.tid => w = v
    BY <2>2 DEF Tuples
  <2>6. Fetch(t, a.tid) = {v}
    BY <2>2, <2>4, <2>5 DEF Fetch
  <2> QED
    BY <2>1, <2>6
<1>3. s[1] \in SeenAt(InnerTable, snapshot) /\ s[2] \in SeenAt(OuterTable, snapshot)
  BY DEF Matching, Seen
<1>4. TidsOf(s).inner_tid = s[1].tid /\ TidsOf(s).outer_tid = s[2].tid
  BY DEF TidsOf
<1>5. \E v : Fetch(InnerTable, s[1].tid) = {v} /\ RowOf(v) = s[1]
  BY <1>1, <1>2, <1>3, Zenon
<1>6. \E w : Fetch(OuterTable, s[2].tid) = {w} /\ RowOf(w) = s[2]
  BY <1>1, <1>2, <1>3, Zenon
<1> QED
  BY <1>4, <1>5, <1>6, Zenon

\* The rows of the result tell the pairs apart.
LEMMA ShownOnce ==
    ASSUME query \in Queries, PlanSound, NEW a, NEW b, Shown(a) = Shown(b)
    PROVE  a[1] = b[1] /\ a[2] = b[2] /\ TidsOf(a) = TidsOf(b)
<1>1. InnerTable # OuterTable
  BY SidesFacts
<1>2. ASSUME NEW s PROVE Shown(s)[InnerTable] = s[1] /\ Shown(s)[OuterTable] = s[2]
  BY <1>1, BesideFacts DEF Shown
<1>3. /\ Shown(a)[InnerTable] = a[1] /\ Shown(a)[OuterTable] = a[2]
      /\ Shown(b)[InnerTable] = b[1] /\ Shown(b)[OuterTable] = b[2]
  BY <1>2
<1>4. a[1] = b[1] /\ a[2] = b[2]
  BY <1>3
<1> QED
  BY <1>4, Zenon DEF TidsOf

\* When the pairs are exhausted, all rows to return were returned.
LEMMA ReturnedAll ==
    ASSUME Tuples, query \in Queries, PlanSound, PairsRight, EmittedRight,
           result_cursor = Len(result_pairs), NEW S, emitted \in Seq(S)
    PROVE  ToSet(emitted) = {Shown(s) : s \in Matching}
<1>1. /\ result_cursor \in 0..Len(result_pairs) /\ Len(emitted) = result_cursor
      /\ \A i \in 1..result_cursor : \E s \in Matching :
            TidsOf(s) = result_pairs[i] /\ emitted[i] = Shown(s)
  BY DEF EmittedRight
<1>2. DOMAIN emitted = 1..result_cursor /\ DOMAIN result_pairs = 1..result_cursor
  BY <1>1 DEF PairsRight
<1>3. ASSUME NEW s \in Matching PROVE \E i \in DOMAIN emitted : emitted[i] = Shown(s)
  <2>1. TidsOf(s) \in ToSet(result_pairs)
    BY DEF PairsRight
  <2>2. PICK i \in DOMAIN result_pairs : result_pairs[i] = TidsOf(s)
    BY <2>1 DEF ToSet
  <2>3. i \in 1..result_cursor /\ i \in DOMAIN emitted
    BY <1>2
  <2>4. PICK a \in Matching : TidsOf(a) = result_pairs[i] /\ emitted[i] = Shown(a)
    BY <1>1, <2>3
  <2>5. a[1].tid = s[1].tid /\ a[2].tid = s[2].tid
    BY <2>2, <2>4 DEF TidsOf
  <2>6. /\ {a[1], s[1]} \subseteq SeenAt(InnerTable, snapshot)
        /\ {a[2], s[2]} \subseteq SeenAt(OuterTable, snapshot)
    BY DEF Matching, Seen
  <2>7. InnerTable \in Tables /\ OuterTable \in Tables
    BY SidesFacts
  <2>8. a[1] = s[1]
    BY <2>5, <2>6, <2>7, SeenByTid
  <2>9. a[2] = s[2]
    BY <2>5, <2>6, <2>7, SeenByTid
  <2>10. Shown(a) = Shown(s)
    BY <2>8, <2>9, Zenon DEF Shown
  <2> QED
    BY <2>3, <2>4, <2>10
<1>4. \A i \in DOMAIN emitted : \E s \in Matching : emitted[i] = Shown(s)
  BY <1>1, <1>2
<1> QED
  BY <1>3, <1>4, Zenon DEF ToSet

-----------------------------------------------------------------------------
(***************************************************************************)
(* What the steps keep.                                                    *)
(***************************************************************************)
\* The statement takes a snapshot or gives it up; the tables stay.
LEMMA SnapshotMoves ==
    ASSUME Tuples, Constraints, heap' = heap, indexlist' = indexlist, now' = now,
           snapshot' \in {snapshot, now, -1}
    PROVE  /\ Tuples' /\ Constraints'
           /\ snapshot' = snapshot => \A t \in Tables : Seen(t)' = Seen(t)
           /\ snapshot' = now => \A t \in Tables : Seen(t)' = SeenAt(t, now)
<1>1. snapshot' \in -1..now /\ now \in 0..MaxWrites
  BY TupleTypes DEF Tuples
<1>2. Tuples'
  BY <1>1, Zenon DEF Tuples
<1>3. \A t, c : IsUnique(t, c)' <=> IsUnique(t, c)
  BY Zenon DEF IsUnique
<1>4. \A t \in Tables : SeenAt(t, now)' = SeenAt(t, now)
  BY Zenon DEF SeenAt, RowsAt, Visible, RowOf
<1>5. snapshot' = snapshot => \A t \in Tables : SeenAt(t, snapshot)' = SeenAt(t, snapshot)
  BY Zenon DEF SeenAt, RowsAt, Visible, RowOf
<1>6. snapshot' = now => \A t \in Tables : SeenAt(t, snapshot)' = SeenAt(t, now)
  BY Zenon DEF SeenAt, RowsAt, Visible, RowOf
<1>7. ASSUME NEW t \in Tables, NEW c \in Columns, IsUnique(t, c)'
      PROVE  UniqueAt(t, c, now)' /\ ((snapshot # -1)' => UniqueAt(t, c, snapshot)')
  <2>1. UniqueAt(t, c, now) /\ (snapshot # -1 => UniqueAt(t, c, snapshot))
    BY <1>3, <1>7, Zenon DEF Constraints
  <2>2. UniqueAt(t, c, now)'
    BY <1>4, <2>1, Zenon DEF UniqueAt
  <2>3. CASE snapshot' = snapshot
    <3>1. UniqueAt(t, c, snapshot) => UniqueAt(t, c, snapshot)'
      BY <1>5, <2>3, Zenon DEF UniqueAt
    <3> QED
      BY <2>1, <2>2, <2>3, <3>1
  <2>4. CASE snapshot' = now
    <3>1. UniqueAt(t, c, now) => UniqueAt(t, c, snapshot)'
      BY <1>6, <2>4, Zenon DEF UniqueAt
    <3> QED
      BY <2>1, <2>2, <3>1
  <2> QED
    BY <2>2, <2>3, <2>4
<1>8. Constraints'
  BY <1>7, Zenon DEF Constraints
<1> QED
  BY <1>2, <1>5, <1>6, <1>8, Zenon DEF Seen

LEMMA PlanSoundKept ==
    ASSUME plan' = plan, query' = query, indexlist' = indexlist
    PROVE  PlanSound => PlanSound'
BY Zenon DEF PlanSound, PathJoins, IsUnique, InnerTable

\* As long as the snapshot sees the same rows, the plan means the same.
LEMMA ScanKept ==
    ASSUME query \in Queries, PlanSound, plan' = plan, \A t \in Tables : Seen(t)' = Seen(t)
    PROVE  /\ Matching' = Matching
           /\ {Shown(s) : s \in Matching}' = {Shown(s) : s \in Matching}
           /\ Keyed(InnerTable, plan.path.inner_attno)' = Keyed(InnerTable, plan.path.inner_attno)
           /\ Keyed(OuterTable, plan.path.outer_attno)' = Keyed(OuterTable, plan.path.outer_attno)
<1>1. InnerTable \in Tables /\ OuterTable \in Tables
  BY SidesFacts
<1>2. InnerTable' = InnerTable /\ OuterTable' = OuterTable
  BY DEF InnerTable, OuterTable
<1>3. \A t : t \in Tables =>
        {RowOf(v) : v \in {y \in heap'[t] : Visible(y, snapshot')}} = Seen(t)
  BY Zenon DEF Seen, SeenAt, RowsAt, Visible, RowOf
<1>4. Seen(InnerTable)' = Seen(InnerTable)
  <2>1. {RowOf(v) : v \in {y \in heap'[InnerTable] : Visible(y, snapshot')}} = Seen(InnerTable)
    BY <1>1, <1>3, Zenon
  <2> QED
    BY <1>2, <2>1, Zenon DEF Seen, SeenAt, RowsAt, Visible, RowOf
<1>5. Seen(OuterTable)' = Seen(OuterTable)
  <2>1. {RowOf(v) : v \in {y \in heap'[OuterTable] : Visible(y, snapshot')}} = Seen(OuterTable)
    BY <1>1, <1>3, Zenon
  <2> QED
    BY <1>2, <2>1, Zenon DEF Seen, SeenAt, RowsAt, Visible, RowOf
<1>6. Matching' = Matching
  BY <1>4, <1>5, Zenon DEF Matching, Matches
<1>7. {Shown(s) : s \in Matching}' = {Shown(s) : s \in Matching}
  <2>1. \A s : Shown(s)' = Shown(s)
    BY <1>2, Zenon DEF Shown, Beside
  <2> QED
    BY <1>6, <2>1, Zenon
<1>8. Keyed(InnerTable, plan.path.inner_attno)' = Keyed(InnerTable, plan.path.inner_attno)
  BY <1>4, Zenon DEF Keyed
<1>9. Keyed(OuterTable, plan.path.outer_attno)' = Keyed(OuterTable, plan.path.outer_attno)
  BY <1>5, Zenon DEF Keyed
<1> QED
  BY <1>6, <1>7, <1>8, <1>9

\* A step inside the scan that leaves some of its parts alone.
LEMMA PartsKept ==
    ASSUME query \in Queries, PlanSound, plan' = plan, \A t \in Tables : Seen(t)' = Seen(t)
    PROVE  /\ Lists(inner_arr', InnerTable, plan.path.inner_attno) =>
                 Lists(inner_arr, InnerTable, plan.path.inner_attno)'
           /\ Lists(outer_arr', OuterTable, plan.path.outer_attno) =>
                 Lists(outer_arr, OuterTable, plan.path.outer_attno)'
           /\ result_pairs' = result_pairs /\ PairsRight => PairsRight'
           /\ UNCHANGED <<result_pairs, result_cursor, emitted>> /\ EmittedRight => EmittedRight'
<1>1. /\ Matching' = Matching
      /\ {Shown(s) : s \in Matching}' = {Shown(s) : s \in Matching}
      /\ Keyed(InnerTable, plan.path.inner_attno)' = Keyed(InnerTable, plan.path.inner_attno)
      /\ Keyed(OuterTable, plan.path.outer_attno)' = Keyed(OuterTable, plan.path.outer_attno)
  BY ScanKept, Zenon
<1>2. InnerTable' = InnerTable /\ OuterTable' = OuterTable
  BY DEF InnerTable, OuterTable
<1>3. Lists(inner_arr', InnerTable, plan.path.inner_attno) =>
         Lists(inner_arr, InnerTable, plan.path.inner_attno)'
  <2>1. {Keep(v, plan.path.inner_attno) : v \in Keyed(InnerTable, plan.path.inner_attno)}'
           = {Keep(v, plan.path.inner_attno) : v \in Keyed(InnerTable, plan.path.inner_attno)}
    BY <1>1 DEF Keep
  <2> QED
    BY <2>1, Zenon DEF Lists
<1>4. Lists(outer_arr', OuterTable, plan.path.outer_attno) =>
         Lists(outer_arr, OuterTable, plan.path.outer_attno)'
  <2>1. {Keep(v, plan.path.outer_attno) : v \in Keyed(OuterTable, plan.path.outer_attno)}'
           = {Keep(v, plan.path.outer_attno) : v \in Keyed(OuterTable, plan.path.outer_attno)}
    BY <1>1 DEF Keep
  <2> QED
    BY <2>1, Zenon DEF Lists
<1>5. result_pairs' = result_pairs /\ PairsRight => PairsRight'
  BY <1>1, Zenon DEF PairsRight, TidsOf
<1>6. UNCHANGED <<result_pairs, result_cursor, emitted>> /\ EmittedRight => EmittedRight'
  <2> SUFFICES ASSUME UNCHANGED <<result_pairs, result_cursor, emitted>>, EmittedRight
               PROVE  EmittedRight'
    OBVIOUS
  <2>1. result_pairs' = result_pairs /\ result_cursor' = result_cursor /\ emitted' = emitted
    OBVIOUS
  <2>2. \A s : Shown(s)' = Shown(s) /\ TidsOf(s)' = TidsOf(s)
    BY <1>2, Zenon DEF Shown, Beside, TidsOf
  <2>3. \A i \in 1..result_cursor' : \E s \in Matching' :
           TidsOf(s)' = result_pairs'[i] /\ emitted'[i] = Shown(s)'
    BY <1>1, <2>1, <2>2 DEF EmittedRight
  <2> QED
    BY <2>1, <2>3 DEF EmittedRight
<1> QED
  BY <1>3, <1>4, <1>5, <1>6

\* A step outside the scan, or out of it.
LEMMA OutsideScan ==
    ASSUME Answering, heap' = heap, indexlist' = indexlist, now' = now,
           snapshot' \in {snapshot, -1}, UNCHANGED <<query, plan, scan>>, spc' \notin Scanning,
           spc' \notin {"parsed", "on_cpu"} => spc \notin {"parsed", "on_cpu"},
           spc' \notin {"ended", "failed"} => spc \notin {"execute", "exhausted", "ended", "failed"}
    PROVE  Answering'
<1>1. /\ Tuples /\ Constraints /\ query \in Queries
      /\ spc \notin {"parsed", "on_cpu"} => PlanSound
      /\ Returned
  BY DEF Answering
<1>2. /\ query' = query /\ plan' = plan /\ inner_arr' = inner_arr /\ outer_arr' = outer_arr
      /\ result_pairs' = result_pairs /\ result_cursor' = result_cursor
      /\ emitted' = emitted /\ expected' = expected
  BY DEF scan
<1>3. Tuples' /\ Constraints'
  BY <1>1, SnapshotMoves, Zenon
<1>4. PlanSound => PlanSound'
  BY <1>2, PlanSoundKept
<1>5. ScanSound'
  BY DEF ScanSound, Scanning
<1>6. Returned'
  BY <1>1, <1>2, Zenon DEF Returned
<1> QED
  BY <1>1, <1>2, <1>3, <1>4, <1>5, <1>6 DEF Answering

\* A step of others, or of the statement where it only moves on to the end.
LEMMA AlongScan ==
    ASSUME Answering, Tuples', Constraints', indexlist' = indexlist, snapshot' = snapshot,
           UNCHANGED <<query, plan, scan>>,
           snapshot # -1 => \A t \in Tables : Seen(t)' = Seen(t),
           spc' = spc \/ (spc = "execute" /\ spc' = "exhausted" /\ result_cursor >= Len(result_pairs))
    PROVE  Answering'
<1>1. /\ query \in Queries
      /\ spc \notin {"parsed", "on_cpu"} => PlanSound
      /\ ScanSound /\ Returned
  BY DEF Answering
<1>2. /\ query' = query /\ plan' = plan /\ inner_arr' = inner_arr /\ outer_arr' = outer_arr
      /\ result_pairs' = result_pairs /\ result_cursor' = result_cursor
      /\ emitted' = emitted /\ expected' = expected
  BY DEF scan
<1>3. PlanSound => PlanSound'
  BY <1>2, PlanSoundKept
<1>4. Returned'
  BY <1>1, <1>2, Zenon DEF Returned
<1>5. CASE spc \in Scanning
  <2>1. PlanSound /\ snapshot # -1 /\ Asked
    <3>1. spc \notin {"parsed", "on_cpu"}
      BY <1>5 DEF Scanning
    <3> QED
      BY <1>1, <1>5, <3>1, Zenon DEF ScanSound
  <2>2. {Shown(s) : s \in Matching}' = {Shown(s) : s \in Matching}
    BY <1>1, <1>2, <2>1, ScanKept, Zenon
  <2>3. /\ Lists(inner_arr, InnerTable, plan.path.inner_attno) =>
              Lists(inner_arr, InnerTable, plan.path.inner_attno)'
        /\ Lists(outer_arr, OuterTable, plan.path.outer_attno) =>
              Lists(outer_arr, OuterTable, plan.path.outer_attno)'
        /\ PairsRight => PairsRight'
        /\ UNCHANGED <<result_pairs, result_cursor, emitted>> /\ EmittedRight => EmittedRight'
    BY <1>1, <1>2, <2>1, PartsKept, Zenon
  <2>4. EmittedRight => EmittedRight'
    BY <1>2, <2>3
  <2>5. spc' = "exhausted" => result_cursor' = Len(result_pairs')
    <3>1. result_pairs \in Seq([inner_tid : Tids, outer_tid : Tids])
          /\ result_cursor \in 0..Len(result_pairs)
      BY <1>1 DEF Returned
    <3>2. spc = "exhausted" => result_cursor = Len(result_pairs)
      BY <1>1 DEF ScanSound
    <3> QED
      BY <1>2, <3>1, <3>2
  <2>6. (snapshot # -1 /\ Asked)'
    BY <1>2, <2>1, <2>2, Zenon DEF Asked, NoOtherClauses
  <2> HIDE DEF Scanning
  <2>7. ScanSound'
    <3>1. /\ spc' = "drain_outer" => spc = "drain_outer"
          /\ spc' = "run" => spc = "run"
          /\ spc' = "execute" => spc = "execute"
          /\ spc' = "exhausted" => spc \in {"execute", "exhausted"}
      OBVIOUS
    <3>2. spc' \in {"drain_outer", "run", "execute", "exhausted"} =>
             Lists(inner_arr, InnerTable, plan.path.inner_attno)'
      BY <1>1, <2>3, <3>1 DEF ScanSound
    <3>3. spc' \in {"run", "execute", "exhausted"} =>
             Lists(outer_arr, OuterTable, plan.path.outer_attno)'
      BY <1>1, <2>3, <3>1 DEF ScanSound
    <3>4. spc' \in {"execute", "exhausted"} => PairsRight' /\ EmittedRight'
      BY <1>1, <2>3, <2>4, <3>1 DEF ScanSound
    <3> QED
      BY <2>5, <2>6, <3>2, <3>3, <3>4, Zenon DEF ScanSound
  <2> QED
    BY <1>1, <1>2, <1>3, <1>4, <1>5, <2>7 DEF Answering, Scanning
<1>6. CASE spc \notin Scanning
  <2>1. spc' = spc /\ spc' \notin Scanning
    BY <1>6 DEF Scanning
  <2>2. ScanSound'
    BY <2>1 DEF ScanSound, Scanning
  <2> QED
    BY <1>1, <1>2, <1>3, <1>4, <2>1, <2>2 DEF Answering
<1> QED
  BY <1>5, <1>6

-----------------------------------------------------------------------------
(***************************************************************************)
(* The steps of the statement.                                             *)
(***************************************************************************)
LEMMA PlanAnswers == ASSUME Answering, Plan PROVE Answering'
<1>1. Tuples /\ Constraints /\ query \in Queries /\ Returned
  BY DEF Answering
<1>2. /\ heap' = heap /\ indexlist' = indexlist /\ now' = now /\ snapshot' = snapshot
      /\ query' = query /\ UNCHANGED scan /\ spc = "parsed"
  BY DEF Plan, db
<1>3. spc' \in {"on_cpu", "planned"}
  BY Zenon DEF Plan
<1>4. /\ inner_arr' = inner_arr /\ outer_arr' = outer_arr
      /\ result_pairs' = result_pairs /\ result_cursor' = result_cursor
      /\ emitted' = emitted /\ expected' = expected
  BY <1>2 DEF scan
<1>5. Tuples' /\ Constraints'
  BY <1>1, <1>2, SnapshotMoves, Zenon
<1>6. spc' = "planned" => PlanSound'
  BY <1>1, PlanJoins
<1>7. ScanSound'
  BY <1>3 DEF ScanSound, Scanning
<1>8. Returned'
  <2>1. /\ result_pairs = <<>> /\ emitted = <<>>
        /\ inner_arr \in Seq(ArrRow) /\ outer_arr \in Seq(ArrRow)
        /\ result_pairs \in Seq([inner_tid : Tids, outer_tid : Tids])
        /\ result_cursor \in 0..Len(result_pairs)
        /\ emitted \in Seq(ToSet(emitted)) /\ (NoOtherClauses => ToSet(emitted) \subseteq expected)
        /\ \A i, j \in DOMAIN emitted : emitted[i] = emitted[j] => i = j
    BY <1>1, <1>2 DEF Returned
  <2> QED
    BY <1>4, <2>1, Zenon DEF Returned
<1> QED
  BY <1>1, <1>2, <1>3, <1>5, <1>6, <1>7, <1>8 DEF Answering

\* Without an index there is one constraint less.
LEMMA DropAnswers == ASSUME Answering, DropIndex PROVE Answering'
<1>1. Tuples /\ Constraints /\ query \in Queries /\ Returned
  BY DEF Answering
<1>2. /\ heap' = heap /\ now' = now /\ snapshot' = snapshot /\ query' = query
      /\ UNCHANGED scan /\ spc' = "parsed" /\ spc \in {"parsed", "planned"}
  BY DEF DropIndex
<1>3. PICK t \in Tables : indexlist' = [indexlist EXCEPT ![t] = {}]
  BY DEF DropIndex
<1>4. indexlist \in [Tables -> SUBSET Index]
  BY <1>1 DEF Tuples
<1>5. indexlist' \in [Tables -> SUBSET Index] /\ \A s \in Tables : indexlist'[s] \subseteq indexlist[s]
  BY <1>3, <1>4
<1>6. Tuples'
  BY <1>1, <1>2, <1>5, Zenon DEF Tuples
<1>7. \A s \in Tables, c \in Columns : IsUnique(s, c)' => IsUnique(s, c)
  BY <1>5 DEF IsUnique
<1>8. \A s \in Tables : SeenAt(s, now)' = SeenAt(s, now) /\ SeenAt(s, snapshot)' = SeenAt(s, snapshot)
  BY <1>2, Zenon DEF SeenAt, RowsAt, Visible, RowOf
<1>9. ASSUME NEW s \in Tables, NEW c \in Columns, IsUnique(s, c)'
      PROVE  UniqueAt(s, c, now)' /\ ((snapshot # -1)' => UniqueAt(s, c, snapshot)')
  <2>1. UniqueAt(s, c, now) /\ (snapshot # -1 => UniqueAt(s, c, snapshot))
    BY <1>1, <1>7, <1>9, Zenon DEF Constraints
  <2>2. UniqueAt(s, c, now)'
    BY <1>8, <2>1, Zenon DEF UniqueAt
  <2>3. UniqueAt(s, c, snapshot) => UniqueAt(s, c, snapshot)'
    BY <1>8, Zenon DEF UniqueAt
  <2> QED
    BY <1>2, <2>1, <2>2, <2>3
<1>10. Constraints'
  BY <1>9, Zenon DEF Constraints
<1>11. ScanSound'
  BY <1>2 DEF ScanSound, Scanning
<1>12. Returned'
  <2>1. /\ inner_arr' = inner_arr /\ outer_arr' = outer_arr
        /\ result_pairs' = result_pairs /\ result_cursor' = result_cursor
        /\ emitted' = emitted /\ expected' = expected
    BY <1>2 DEF scan
  <2>2. spc \notin {"execute", "exhausted", "ended", "failed"}
    BY <1>2
  <2> QED
    BY <1>1, <2>1, <2>2, Zenon DEF Returned
<1> QED
  BY <1>1, <1>2, <1>6, <1>10, <1>11, <1>12 DEF Answering

\* The snapshot is taken with the history of what SQL asks for.
LEMMA BeginAnswers == ASSUME Answering, BeginScan PROVE Answering'
<1>1. /\ Tuples /\ Constraints /\ query \in Queries /\ Returned
      /\ spc \notin {"parsed", "on_cpu"} => PlanSound
  BY DEF Answering
<1>2. /\ heap' = heap /\ indexlist' = indexlist /\ now' = now /\ snapshot' = now
      /\ query' = query /\ plan' = plan /\ inner_arr' = inner_arr /\ outer_arr' = outer_arr
      /\ result_pairs' = result_pairs /\ result_cursor' = result_cursor /\ emitted' = emitted
      /\ spc = "planned" /\ spc' = "drain_inner"
  BY DEF BeginScan
<1>3. expected' = SqlJoin
  BY DEF BeginScan
<1>4. PlanSound /\ PlanSound'
  BY <1>1, <1>2, PlanSoundKept
<1>5. Tuples' /\ Constraints' /\ \A t \in Tables : Seen(t)' = SeenAt(t, now)
  BY <1>1, <1>2, SnapshotMoves, Zenon
<1>6. InnerTable \in Tables /\ OuterTable \in Tables
  BY <1>1, <1>4, SidesFacts
<1>7. InnerTable' = InnerTable /\ OuterTable' = OuterTable
  BY <1>2 DEF InnerTable, OuterTable
<1>8. \A t : t \in Tables =>
        {RowOf(v) : v \in {y \in heap'[t] : Visible(y, snapshot')}} = SeenAt(t, now)
  BY <1>5, Zenon DEF Seen, SeenAt, RowsAt, Visible, RowOf
<1>9. Seen(InnerTable)' = SeenAt(InnerTable, now)
  <2>1. {RowOf(v) : v \in {y \in heap'[InnerTable] : Visible(y, snapshot')}} = SeenAt(InnerTable, now)
    BY <1>6, <1>8, Zenon
  <2> QED
    BY <1>7, <2>1, Zenon DEF Seen, SeenAt, RowsAt, Visible, RowOf
<1>10. Seen(OuterTable)' = SeenAt(OuterTable, now)
  <2>1. {RowOf(v) : v \in {y \in heap'[OuterTable] : Visible(y, snapshot')}} = SeenAt(OuterTable, now)
    BY <1>6, <1>8, Zenon
  <2> QED
    BY <1>7, <2>1, Zenon DEF Seen, SeenAt, RowsAt, Visible, RowOf
<1> DEFINE matching == {x \in SeenAt(InnerTable, now) \X SeenAt(OuterTable, now) :
                           Matches(x[1], x[2])}
<1>11. Matching' = matching
  BY <1>2, <1>9, <1>10, Zenon DEF Matching, Matches
<1>12. NoOtherClauses => SqlJoin = {Shown(s) : s \in matching}
  BY <1>1, <1>4, SqlAsks, Zenon
<1> HIDE DEF matching
<1>13. {Shown(s) : s \in Matching}' = {Shown(s) : s \in matching}
  <2>1. \A s : Shown(s)' = Shown(s)
    BY <1>7, Zenon DEF Shown, Beside
  <2> QED
    BY <1>11, <2>1, Zenon
<1>14. Asked'
  BY <1>3, <1>12, <1>13, Zenon DEF Asked, NoOtherClauses
<1>15. (snapshot # -1)'
  BY <1>1, <1>2, TupleTypes
<1>16. ScanSound'
  BY <1>2, <1>14, <1>15 DEF ScanSound, Scanning
<1>17. Returned'
  <2>1. result_pairs = <<>> /\ emitted = <<>>
    BY <1>1, <1>2 DEF Returned
  <2>2. emitted' \in Seq(ToSet(emitted')) /\ ToSet(emitted') \subseteq expected'
    <3>1. ToSet(emitted') = {}
      BY <1>2, <2>1 DEF ToSet
    <3> QED
      BY <1>2, <2>1, <3>1
  <2>3. \A i, j \in DOMAIN emitted' : emitted'[i] = emitted'[j] => i = j
    BY <1>2, <2>1
  <2>4. /\ inner_arr \in Seq(ArrRow) /\ outer_arr \in Seq(ArrRow)
        /\ result_pairs \in Seq([inner_tid : Tids, outer_tid : Tids])
        /\ result_cursor \in 0..Len(result_pairs)
    BY <1>1 DEF Returned
  <2> QED
    BY <1>2, <2>1, <2>2, <2>3, <2>4, Zenon DEF Returned
<1> QED
  BY <1>1, <1>2, <1>4, <1>5, <1>16, <1>17 DEF Answering

\* What a step from one part of the scan to the next keeps.
LEMMA InsideScan ==
    ASSUME Answering, UNCHANGED <<db, query, plan, expected>>, spc \in Scanning, spc' \in Scanning
    PROVE  /\ Tuples /\ Constraints /\ query \in Queries /\ PlanSound /\ ScanSound /\ Returned
           /\ Tuples' /\ Constraints' /\ query' \in Queries /\ PlanSound'
           /\ snapshot # -1 /\ Asked /\ (snapshot # -1 /\ Asked)'
           /\ \A t \in Tables : Seen(t)' = Seen(t)
<1>1. /\ Tuples /\ Constraints /\ query \in Queries /\ ScanSound /\ Returned
      /\ spc \notin {"parsed", "on_cpu"} => PlanSound
  BY DEF Answering
<1>2. /\ heap' = heap /\ indexlist' = indexlist /\ now' = now /\ snapshot' = snapshot
      /\ query' = query /\ plan' = plan /\ expected' = expected
  BY DEF db
<1>3. PlanSound
  BY <1>1 DEF Scanning
<1>4. Tuples' /\ Constraints' /\ \A t \in Tables : Seen(t)' = Seen(t)
  BY <1>1, <1>2, SnapshotMoves, Zenon
<1>5. PlanSound'
  BY <1>2, <1>3, PlanSoundKept
<1>6. snapshot # -1 /\ Asked
  BY <1>1, Zenon DEF ScanSound
<1>7. {Shown(s) : s \in Matching}' = {Shown(s) : s \in Matching}
  BY <1>1, <1>2, <1>3, <1>4, ScanKept, Zenon
<1>8. (snapshot # -1 /\ Asked)'
  BY <1>2, <1>6, <1>7, Zenon DEF Asked, NoOtherClauses
<1> QED
  BY <1>1, <1>2, <1>3, <1>4, <1>5, <1>6, <1>8, Zenon

LEMMA DrainInnerAnswers == ASSUME Answering, DrainInner PROVE Answering'
<1>1. /\ UNCHANGED <<db, query, plan, expected>> /\ spc = "drain_inner" /\ spc' = "drain_outer"
      /\ inner_arr' = drain_plan(InnerTable, plan.path.inner_attno)
      /\ outer_arr' = outer_arr /\ result_pairs' = result_pairs
      /\ result_cursor' = result_cursor /\ emitted' = emitted /\ expected' = expected
      /\ plan' = plan
  BY DEF DrainInner, InnerTable
<1>2. spc \in Scanning /\ spc' \in Scanning
  BY <1>1 DEF Scanning
<1>3. /\ Tuples /\ query \in Queries /\ PlanSound /\ Returned
      /\ Tuples' /\ Constraints' /\ query' \in Queries /\ PlanSound'
      /\ (snapshot # -1 /\ Asked)'
      /\ \A t \in Tables : Seen(t)' = Seen(t)
  BY <1>1, <1>2, InsideScan, Zenon
<1>4. InnerTable \in Tables /\ plan.path.inner_attno \in Columns
  BY <1>3, SidesFacts
<1>5. Lists(inner_arr', InnerTable, plan.path.inner_attno)
  BY <1>1, <1>3, <1>4, DrainLists, Zenon
<1>6. Lists(inner_arr, InnerTable, plan.path.inner_attno)'
  BY <1>1, <1>3, <1>5, PartsKept, Zenon
<1>7. ScanSound'
  <2> HIDE DEF Scanning
  <2> QED
    BY <1>1, <1>3, <1>6 DEF ScanSound
<1>8. Returned'
  <2>1. inner_arr' \in Seq(ArrRow)
    BY <1>5 DEF Lists
  <2>2. spc \notin {"execute", "exhausted", "ended", "failed"}
    BY <1>1
  <2> QED
    BY <1>1, <1>3, <2>1, <2>2, Zenon DEF Returned
<1> QED
  BY <1>3, <1>7, <1>8 DEF Answering

LEMMA DrainOuterAnswers == ASSUME Answering, DrainOuter PROVE Answering'
<1>1. /\ UNCHANGED <<db, query, plan, expected>> /\ spc = "drain_outer" /\ spc' = "run"
      /\ outer_arr' = drain_plan(OuterTable, plan.path.outer_attno)
      /\ inner_arr' = inner_arr /\ result_pairs' = result_pairs
      /\ result_cursor' = result_cursor /\ emitted' = emitted /\ expected' = expected
      /\ plan' = plan
  BY DEF DrainOuter, OuterTable
<1>2. spc \in Scanning /\ spc' \in Scanning
  BY <1>1 DEF Scanning
<1>3. /\ Tuples /\ query \in Queries /\ PlanSound /\ ScanSound /\ Returned
      /\ Tuples' /\ Constraints' /\ query' \in Queries /\ PlanSound'
      /\ (snapshot # -1 /\ Asked)'
      /\ \A t \in Tables : Seen(t)' = Seen(t)
  BY <1>1, <1>2, InsideScan, Zenon
<1>4. OuterTable \in Tables /\ plan.path.outer_attno \in Columns
  BY <1>3, SidesFacts
<1>5. Lists(outer_arr', OuterTable, plan.path.outer_attno)
  BY <1>1, <1>3, <1>4, DrainLists, Zenon
<1>6. Lists(outer_arr, OuterTable, plan.path.outer_attno)'
  BY <1>1, <1>3, <1>5, PartsKept, Zenon
<1>7. Lists(inner_arr, InnerTable, plan.path.inner_attno)
  BY <1>1, <1>3 DEF ScanSound
<1>8. Lists(inner_arr, InnerTable, plan.path.inner_attno)'
  BY <1>1, <1>3, <1>7, PartsKept, Zenon
<1>9. ScanSound'
  BY <1>1, <1>3, <1>6, <1>8 DEF ScanSound
<1>10. Returned'
  <2>1. outer_arr' \in Seq(ArrRow)
    BY <1>5 DEF Lists
  <2>2. spc \notin {"execute", "exhausted", "ended", "failed"}
    BY <1>1
  <2> QED
    BY <1>1, <1>3, <2>1, <2>2, Zenon DEF Returned
<1> QED
  BY <1>3, <1>9, <1>10 DEF Answering

\* The board's answer is the join of the arrays.
LEMMA ReturnAnswers == ASSUME Answering, AdapterReturns PROVE Answering'
<1>1. /\ UNCHANGED <<db, query, plan, expected>> /\ spc = "run" /\ spc' = "execute"
      /\ result_pairs' = JoinOf(inner_arr, outer_arr) /\ result_cursor' = 0
      /\ inner_arr' = inner_arr /\ outer_arr' = outer_arr
      /\ emitted' = emitted /\ expected' = expected /\ plan' = plan
  BY DEF AdapterReturns
<1>2. spc \in Scanning /\ spc' \in Scanning
  BY <1>1 DEF Scanning
<1>3. /\ Tuples /\ Constraints /\ query \in Queries /\ PlanSound /\ ScanSound /\ Returned
      /\ Tuples' /\ Constraints' /\ query' \in Queries /\ PlanSound' /\ snapshot # -1
      /\ (snapshot # -1 /\ Asked)'
      /\ \A t \in Tables : Seen(t)' = Seen(t)
  BY <1>1, <1>2, InsideScan, Zenon
<1>4. /\ Lists(inner_arr, InnerTable, plan.path.inner_attno)
      /\ Lists(outer_arr, OuterTable, plan.path.outer_attno)
  BY <1>1, <1>3 DEF ScanSound
<1>5. /\ Lists(inner_arr, InnerTable, plan.path.inner_attno)'
      /\ Lists(outer_arr, OuterTable, plan.path.outer_attno)'
  BY <1>1, <1>3, <1>4, PartsKept, Zenon
<1>6. /\ result_pairs' \in Seq([inner_tid : Tids, outer_tid : Tids])
      /\ ToSet(result_pairs') = {TidsOf(s) : s \in Matching}
      /\ \A i, j \in DOMAIN result_pairs' :
            result_pairs'[i].outer_tid = result_pairs'[j].outer_tid => i = j
  BY <1>1, <1>3, <1>4, ListsJoin, Zenon
<1>7. Matching' = Matching
  BY <1>1, <1>3, ScanKept, Zenon
<1>8. PairsRight'
  BY <1>6, <1>7, Zenon DEF PairsRight, TidsOf
<1>9. emitted' = <<>> /\ Len(emitted') = 0 /\ result_cursor' \in 0..Len(result_pairs')
  <2>1. emitted = <<>>
    BY <1>1, <1>3 DEF Returned
  <2>2. Len(result_pairs') \in Nat
    BY <1>6
  <2> QED
    BY <1>1, <2>1, <2>2
<1>10. EmittedRight'
  BY <1>1, <1>9 DEF EmittedRight
<1>11. ScanSound'
  <2>1. spc' # "exhausted"
    BY <1>1
  <2> QED
    BY <1>3, <1>5, <1>8, <1>10, <2>1, Zenon DEF ScanSound
<1>12. Returned'
  <2>1. spc' \in {"execute", "exhausted", "ended", "failed"}
    BY <1>1
  <2> QED
    BY <1>1, <1>3, <1>6, <1>9, <2>1, Zenon DEF Returned
<1> QED
  BY <1>3, <1>11, <1>12 DEF Answering

\* Every pair's rows are found and returned.
LEMMA FetchAnswers == ASSUME Answering, ExecFetch PROVE Answering'
<1> DEFINE k == result_cursor + 1
           pair == result_pairs[k]
<1>1. /\ UNCHANGED <<db, query, plan, expected>> /\ spc = "execute" /\ spc' = "execute"
      /\ result_cursor < Len(result_pairs) /\ result_cursor' = k
      /\ inner_arr' = inner_arr /\ outer_arr' = outer_arr /\ result_pairs' = result_pairs
      /\ expected' = expected /\ plan' = plan
  BY DEF ExecFetch
<1>2. spc \in Scanning /\ spc' \in Scanning
  BY <1>1 DEF Scanning
<1>3. /\ Tuples /\ query \in Queries /\ PlanSound /\ ScanSound /\ Returned
      /\ Tuples' /\ Constraints' /\ query' \in Queries /\ PlanSound' /\ snapshot # -1
      /\ Asked /\ (snapshot # -1 /\ Asked)'
      /\ \A t \in Tables : Seen(t)' = Seen(t)
  BY <1>1, <1>2, InsideScan, Zenon
<1>4. /\ Lists(inner_arr, InnerTable, plan.path.inner_attno)
      /\ Lists(outer_arr, OuterTable, plan.path.outer_attno)
      /\ PairsRight /\ EmittedRight
  BY <1>1, <1>3 DEF ScanSound
<1>5. /\ Lists(inner_arr, InnerTable, plan.path.inner_attno)'
      /\ Lists(outer_arr, OuterTable, plan.path.outer_attno)' /\ PairsRight'
  BY <1>1, <1>3, <1>4, PartsKept, Zenon
<1>6. /\ result_cursor \in Nat /\ k \in 1..Len(result_pairs) /\ Len(result_pairs) \in Nat
      /\ DOMAIN result_pairs = 1..Len(result_pairs)
      /\ Len(emitted) = result_cursor /\ emitted \in Seq(ToSet(emitted))
      /\ DOMAIN emitted = 1..result_cursor
  BY <1>1, <1>3, <1>4 DEF EmittedRight, PairsRight, Returned
<1>7. PICK s \in Matching : TidsOf(s) = pair
  <2>1. pair \in ToSet(result_pairs)
    BY <1>6 DEF ToSet
  <2> QED
    BY <1>4, <2>1 DEF PairsRight
<1>8. emitted' = Append(emitted, Shown(s))
  <2>1. PICK v : Fetch(InnerTable, pair.inner_tid) = {v} /\ RowOf(v) = s[1]
    BY <1>3, <1>7, PairFetched
  <2>2. PICK w : Fetch(OuterTable, pair.outer_tid) = {w} /\ RowOf(w) = s[2]
    BY <1>3, <1>7, PairFetched
  <2>3. LET inner == Fetch(InnerTable, result_pairs[result_cursor'].inner_tid)
            outer == Fetch(OuterTable, result_pairs[result_cursor'].outer_tid)
        IN IF inner = {} \/ outer = {} THEN emitted' = emitted
           ELSE \E a \in inner, b \in outer :
                   emitted' = Append(emitted, Beside(InnerTable, RowOf(a), OuterTable, RowOf(b)))
    BY Zenon DEF ExecFetch, InnerTable, OuterTable
  <2>4. \E a \in {v}, b \in {w} :
           emitted' = Append(emitted, Beside(InnerTable, RowOf(a), OuterTable, RowOf(b)))
    BY <1>1, <2>1, <2>2, <2>3
  <2>5. emitted' = Append(emitted, Beside(InnerTable, s[1], OuterTable, s[2]))
    BY <2>1, <2>2, <2>4
  <2> QED
    BY <2>5 DEF Shown
<1> DEFINE row == Shown(s)
<1>9. NoOtherClauses => row \in expected
  BY <1>3, Zenon DEF Asked
<1> HIDE DEF row
<1>10. /\ emitted' \in Seq(ToSet(emitted) \cup {row}) /\ ToSet(emitted') = ToSet(emitted) \cup {row}
       /\ Len(emitted') = k /\ DOMAIN emitted' = 1..k
       /\ \A i \in 1..result_cursor : emitted'[i] = emitted[i]
       /\ emitted'[k] = row
  <2>1. emitted' = Append(emitted, row)
    BY <1>8 DEF row
  <2>2. ToSet(emitted') = ToSet(emitted) \cup {row}
    BY <1>6, <2>1, ToSetAppend
  <2> DEFINE S == ToSet(emitted)
  <2> HIDE DEF S
  <2>3. emitted \in Seq(S)
    BY <1>6 DEF S
  <2>4. /\ emitted' \in Seq(S \cup {row}) /\ Len(emitted') = k /\ DOMAIN emitted' = 1..k
        /\ \A i \in 1..result_cursor : emitted'[i] = emitted[i]
        /\ emitted'[k] = row
    BY <1>6, <2>1, <2>3
  <2> QED
    BY <2>2, <2>4 DEF S
<1>11. ASSUME NEW i \in 1..k, i # k PROVE i \in 1..result_cursor
  BY <1>6, <1>11
<1>12. ASSUME NEW i \in 1..k
       PROVE  \E a \in Matching : TidsOf(a) = result_pairs[i] /\ emitted'[i] = Shown(a)
  <2>1. CASE i = k
    BY <1>7, <1>10, <2>1 DEF row
  <2>2. CASE i # k
    BY <1>4, <1>10, <1>11, <2>2 DEF EmittedRight
  <2> QED
    BY <2>1, <2>2
<1> HIDE DEF pair
<1>13. EmittedRight'
  <2>1. Matching' = Matching
    BY <1>1, <1>3, ScanKept, Zenon
  <2>2. InnerTable' = InnerTable /\ OuterTable' = OuterTable
    BY <1>1 DEF InnerTable, OuterTable
  <2>3. \A a : Shown(a)' = Shown(a) /\ TidsOf(a)' = TidsOf(a)
    BY <2>2, Zenon DEF Shown, Beside, TidsOf
  <2>4. \A i \in 1..result_cursor' : \E a \in Matching' :
           TidsOf(a)' = result_pairs'[i] /\ emitted'[i] = Shown(a)'
    BY <1>1, <1>12, <2>1, <2>3
  <2>5. result_cursor' \in 0..Len(result_pairs') /\ Len(emitted') = result_cursor'
    BY <1>1, <1>6, <1>10
  <2> QED
    BY <2>4, <2>5 DEF EmittedRight
<1>14. ASSUME NEW i \in 1..k, NEW j \in 1..k, emitted'[i] = emitted'[j] PROVE i = j
  <2>1. PICK a \in Matching : TidsOf(a) = result_pairs[i] /\ emitted'[i] = Shown(a)
    BY <1>12
  <2>2. PICK b \in Matching : TidsOf(b) = result_pairs[j] /\ emitted'[j] = Shown(b)
    BY <1>12
  <2>3. Shown(a) = Shown(b)
    BY <1>14, <2>1, <2>2
  <2>4. TidsOf(a) = TidsOf(b)
    BY <1>3, <2>3, ShownOnce
  <2>5. i \in DOMAIN result_pairs /\ j \in DOMAIN result_pairs
    BY <1>6
  <2>6. result_pairs[i].outer_tid = result_pairs[j].outer_tid
    BY <2>1, <2>2, <2>4
  <2> QED
    BY <1>4, <2>5, <2>6 DEF PairsRight
<1>15. ScanSound'
  <2>1. spc' # "exhausted"
    BY <1>1
  <2> QED
    BY <1>3, <1>5, <1>13, <2>1, Zenon DEF ScanSound
<1>16. Returned'
  <2>1. spc' \in {"execute", "exhausted", "ended", "failed"}
    BY <1>1
  <2>2. \A i, j \in DOMAIN emitted' : emitted'[i] = emitted'[j] => i = j
    BY <1>10, <1>14
  <2>3. result_cursor' \in 0..Len(result_pairs')
    BY <1>13 DEF EmittedRight
  <2>4. emitted' \in Seq(ToSet(emitted'))
    BY <1>10, Zenon
  <2>5. NoOtherClauses => ToSet(emitted') \subseteq expected'
    BY <1>1, <1>3, <1>9, <1>10 DEF Returned
  <2> QED
    BY <1>1, <1>3, <1>10, <2>1, <2>2, <2>3, <2>4, <2>5, Zenon DEF Returned
<1> QED
  BY <1>3, <1>15, <1>16 DEF Answering

LEMMA AnsweringStep == ASSUME Answering, [Next]_vars PROVE Answering'
<1>1. CASE Plan
  BY <1>1, PlanAnswers
<1>2. CASE Set
  BY <1>2, OutsideScan DEF Set, db, Scanning
<1>3. CASE DropIndex
  BY <1>3, DropAnswers
<1>4. CASE ExplainOnly
  BY <1>4, OutsideScan DEF ExplainOnly, db, Scanning
<1>5. CASE BeginScan
  BY <1>5, BeginAnswers
<1>6. CASE DrainInner
  BY <1>6, DrainInnerAnswers
<1>7. CASE DrainOuter
  BY <1>7, DrainOuterAnswers
<1>8. CASE AdapterThrows
  BY <1>8, OutsideScan DEF AdapterThrows, Scanning
<1>9. CASE AdapterFails
  <2>1. /\ spc' \in {"failed", "refused"} /\ spc = "run" /\ snapshot' = -1
        /\ UNCHANGED <<heap, indexlist, now, query, plan, scan>>
    BY <1>9 DEF AdapterFails
  <2> QED
    BY <2>1, OutsideScan DEF Scanning
<1>10. CASE AdapterReturns
  BY <1>10, ReturnAnswers
<1>11. CASE ExecFetch
  BY <1>11, FetchAnswers
<1>12. CASE ExecEnd \/ UNCHANGED vars
  <2>1. /\ heap' = heap /\ indexlist' = indexlist /\ now' = now /\ snapshot' = snapshot
        /\ UNCHANGED <<query, plan, scan>>
        /\ spc' = spc \/ (spc = "execute" /\ spc' = "exhausted" /\ result_cursor >= Len(result_pairs))
    BY <1>12 DEF ExecEnd, vars, db
  <2>2. Tuples /\ Constraints
    BY DEF Answering
  <2>3. Tuples' /\ Constraints' /\ \A t \in Tables : Seen(t)' = Seen(t)
    BY <2>1, <2>2, SnapshotMoves, Zenon
  <2> QED
    BY <2>1, <2>3, AlongScan, Zenon
<1>13. CASE EndScan
  BY <1>13, OutsideScan DEF EndScan, Scanning
<1>14. CASE Rescan
  BY <1>14, OutsideScan DEF Rescan, Scanning
<1>15. CASE Others
  <2>1. Tuples /\ Constraints /\ (Insert \/ Update \/ Delete \/ Vacuum)
        /\ UNCHANGED <<query, plan, scan>> /\ spc' = spc
    BY <1>15 DEF Answering, Others
  <2>2. /\ Tuples' /\ Constraints' /\ indexlist' = indexlist /\ snapshot' = snapshot
        /\ snapshot # -1 => \A t \in Tables : SeenAt(t, snapshot)' = SeenAt(t, snapshot)
    BY <2>1, OthersKeep, Zenon
  <2>3. snapshot # -1 => \A t \in Tables : Seen(t)' = Seen(t)
    BY <2>2, Zenon DEF Seen
  <2> QED
    BY <2>1, <2>2, <2>3, AlongScan, Zenon
<1> QED
  BY <1>1, <1>2, <1>3, <1>4, <1>5, <1>6, <1>7, <1>8, <1>9, <1>10, <1>11, <1>12, <1>13,
     <1>14, <1>15 DEF Next, Finished

-----------------------------------------------------------------------------
(***************************************************************************)
(* The beginning, and what the invariant says.                             *)
(***************************************************************************)
\* A finite set and its image under a function that tells its members apart.
LEMMA FiniteImage ==
    ASSUME NEW S, IsFiniteSet(S), NEW T, NEW f \in [S -> T],
           \A x, y \in S : f[x] = f[y] => x = y, \A z \in T : \E x \in S : f[x] = z
    PROVE  IsFiniteSet(T) /\ Cardinality(T) = Cardinality(S)
<1>1. DOMAIN f = S
  OBVIOUS
<1>2. IsInjective(f)
  BY <1>1 DEF IsInjective
<1>3. f \in Bijection(S, T)
  BY <1>2 DEF Bijection, Injection, Surjection
<1>4. ExistsBijection(S, T)
  BY <1>3 DEF ExistsBijection
<1> QED
  BY <1>4, FS_Bijection, Zenon

LEMMA AnsweringStart == ASSUME Init PROVE Answering
<1> DEFINE version(row, i) == [tid |-> i, key |-> row.key, val |-> row.val, born |-> 0, dead |-> 0]
<1>1. PICK d \in Databases :
         /\ heap = [t \in Tables |-> {version(d.rows[t][i], i) : i \in DOMAIN d.rows[t]}]
         /\ indexlist = d.indexlist
  BY DEF Init
<1>2. /\ now = 0 /\ snapshot = -1 /\ query \in Queries /\ spc = "parsed"
      /\ inner_arr = <<>> /\ outer_arr = <<>> /\ result_pairs = <<>>
      /\ result_cursor = 0 /\ emitted = <<>> /\ expected = {}
  BY DEF Init
<1>3. d.indexlist \in [Tables -> SUBSET Index]
  BY DatabaseAssumption
<1>4. ASSUME NEW t \in Tables
      PROVE  /\ d.rows[t] \in Seq([key : Keys \cup {Null}, val : Vals])
             /\ DOMAIN d.rows[t] \subseteq Tids
             /\ \A i \in d.indexlist[t], c \in {"key", "val"} :
                   i.unique /\ i.immediate /\ ~i.partial /\ i.columns = <<c>> =>
                      \A m, n \in DOMAIN d.rows[t] :
                         d.rows[t][m][c] = d.rows[t][n][c] /\ d.rows[t][m][c] # Null => m = n
  BY DatabaseAssumption, Zenon
<1>5. \A row, i : /\ version(row, i).tid = i /\ version(row, i).key = row.key
                  /\ version(row, i).val = row.val /\ version(row, i).born = 0
                  /\ version(row, i).dead = 0
  OBVIOUS
<1>6. \A row \in [key : Keys \cup {Null}, val : Vals] : \A i \in Tids : version(row, i) \in Version
  BY DEF Version
<1>7. ASSUME NEW t \in Tables, NEW v \in heap[t]
      PROVE  \E i \in DOMAIN d.rows[t] : v = version(d.rows[t][i], i)
  BY <1>1
<1>8. ASSUME NEW t \in Tables, NEW i \in DOMAIN d.rows[t]
      PROVE  d.rows[t][i] \in [key : Keys \cup {Null}, val : Vals] /\ i \in Tids
  <2> DEFINE r == d.rows[t]
             Row == [key : Keys \cup {Null}, val : Vals]
  <2>1. r \in Seq(Row) /\ DOMAIN r \subseteq Tids
    BY <1>4
  <2> HIDE DEF r, Row
  <2>2. \A j \in DOMAIN r : r[j] \in Row
    BY <2>1
  <2> QED
    BY <2>1, <2>2 DEF r, Row
<1>9. ASSUME NEW t \in Tables PROVE IsFiniteSet(heap[t])
  <2> DEFINE S == DOMAIN d.rows[t]
             f == [i \in S |-> version(d.rows[t][i], i)]
  <2>1. S = 1..Len(d.rows[t]) /\ Len(d.rows[t]) \in Nat
    BY <1>4
  <2>2. IsFiniteSet(S)
    BY <2>1, FS_Interval
  <2>3. \A v \in heap[t] : \E i \in S : f[i] = v
    BY <1>7
  <2>4. \A i, j \in S : f[i] = f[j] => i = j
    BY <1>5
  <2>5. f \in [S -> heap[t]]
    BY <1>1
  <2> HIDE DEF f, S
  <2> QED
    BY <2>2, <2>3, <2>4, <2>5, FiniteImage, Zenon
<1> HIDE DEF version
<1>10. Tuples
  <2>1. heap \in [Tables -> SUBSET Version]
    <3>1. \A t \in Tables : heap[t] \subseteq Version
      BY <1>6, <1>7, <1>8
    <3> QED
      BY <1>1, <3>1
  <2>2. 0 \in 0..MaxWrites /\ -1 \in -1..0
    BY QueryAssumption
  <2>3. ASSUME NEW t \in Tables
        PROVE  /\ IsFiniteSet(heap[t])
               /\ \A v \in heap[t] : v.born <= now /\ v.dead <= now
               /\ \A v, w \in heap[t] : v.tid = w.tid => v = w
    <3>1. \A v \in heap[t] : v.born <= now /\ v.dead <= now
      BY <1>2, <1>5, <1>7
    <3>2. \A v, w \in heap[t] : v.tid = w.tid => v = w
      BY <1>5, <1>7
    <3> QED
      BY <1>9, <3>1, <3>2
  <2> QED
    BY <1>1, <1>2, <1>3, <2>1, <2>2, <2>3 DEF Tuples
<1>11. ASSUME NEW t \in Tables, NEW c \in Columns, IsUnique(t, c) PROVE UniqueAt(t, c, now)
  <2>1. PICK i \in d.indexlist[t] : i.unique /\ i.immediate /\ ~i.partial /\ i.columns = <<c>>
    BY <1>1, <1>11, Zenon DEF IsUnique
  <2>2. \A m, n \in DOMAIN d.rows[t] :
           d.rows[t][m][c] = d.rows[t][n][c] /\ d.rows[t][m][c] # Null => m = n
    BY <1>4, <2>1, Zenon DEF Columns
  <2>3. ASSUME NEW a \in SeenAt(t, now)
        PROVE  \E n \in DOMAIN d.rows[t] :
                  a[c] = d.rows[t][n][c] /\ a = RowOf(version(d.rows[t][n], n))
    <3>1. PICK v \in heap[t] : a = RowOf(v)
      BY DEF SeenAt, RowsAt
    <3>2. PICK n \in DOMAIN d.rows[t] : v = version(d.rows[t][n], n)
      BY <1>7
    <3>3. v \in Version
      BY <1>10, TupleTypes
    <3>4. a.key = v.key /\ a.val = v.val
      BY <3>1, <3>3, VersionFacts
    <3>5. a[c] = d.rows[t][n][c]
      BY <1>5, <3>2, <3>4 DEF Columns
    <3> QED
      BY <3>1, <3>2, <3>5
  <2> SUFFICES ASSUME NEW a \in SeenAt(t, now), NEW b \in SeenAt(t, now), a[c] = b[c], a[c] # Null
               PROVE  a = b
    BY DEF UniqueAt
  <2>4. PICK m \in DOMAIN d.rows[t] : a[c] = d.rows[t][m][c] /\ a = RowOf(version(d.rows[t][m], m))
    BY <2>3
  <2>5. PICK n \in DOMAIN d.rows[t] : b[c] = d.rows[t][n][c] /\ b = RowOf(version(d.rows[t][n], n))
    BY <2>3
  <2>6. m = n
    BY <2>2, <2>4, <2>5
  <2> QED
    BY <2>4, <2>5, <2>6
<1>12. Constraints
  BY <1>2, <1>11 DEF Constraints
<1>13. ScanSound
  BY <1>2 DEF ScanSound, Scanning
<1>14. Returned
  <2>1. ToSet(emitted) = {} /\ <<>> \in Seq({})
    BY <1>2 DEF ToSet
  <2> QED
    BY <1>2, <2>1 DEF Returned
<1> QED
  BY <1>2, <1>10, <1>12, <1>13, <1>14 DEF Answering

LEMMA AnsweringAlways == Spec => []Answering
<1>1. Init => Answering
  BY AnsweringStart
<1>2. Answering /\ [Next]_vars => Answering'
  BY AnsweringStep
<1> QED
  BY <1>1, <1>2, PTL DEF Spec

\* Whatever the writers, VACUUM and the settings do between the steps of the
\* statement, tables keep one version per TID, the snapshot is of the past,
\* drain_plan hands over keys that are not NULL, and the cursor stays within
\* the pairs that exec_custom_scan walks through.
THEOREM ExecutorTypeOK == Spec => []TypeOK
<1>1. Answering => TypeOK
  <2> SUFFICES ASSUME Answering PROVE TypeOK
    OBVIOUS
  <2>1. Tuples /\ Returned
    BY DEF Answering
  <2>2. ASSUME NEW t \in Tables
        PROVE  /\ heap[t] \subseteq Version /\ indexlist[t] \subseteq Index
               /\ Cardinality({v.tid : v \in heap[t]}) = Cardinality(heap[t])
    <3> DEFINE S == heap[t]
               T == {v.tid : v \in S}
               f == [v \in S |-> v.tid]
    <3>1. S \subseteq Version /\ indexlist[t] \subseteq Index /\ IsFiniteSet(S)
          /\ \A v, w \in S : v.tid = w.tid => v = w
      BY <2>1 DEF Tuples
    <3>2. f \in [S -> T]
      OBVIOUS
    <3>3. \A z \in T : \E v \in S : f[v] = z
      OBVIOUS
    <3>4. \A v, w \in S : f[v] = f[w] => v = w
      BY <3>1
    <3> HIDE DEF f, S, T
    <3>5. Cardinality(T) = Cardinality(S)
      BY <3>1, <3>2, <3>3, <3>4, FiniteImage, Zenon
    <3> QED
      BY <3>1, <3>5 DEF S, T
  <2>3. \A i \in DOMAIN inner_arr : inner_arr[i] \in ArrRow
    BY <2>1 DEF Returned
  <2>4. \A i \in DOMAIN outer_arr : outer_arr[i] \in ArrRow
    BY <2>1 DEF Returned
  <2>5. now \in 0..MaxWrites /\ snapshot \in -1..now /\ result_cursor \in 0..Len(result_pairs)
    BY <2>1 DEF Tuples, Returned
  <2> QED
    BY <2>2, <2>3, <2>4, <2>5 DEF TypeOK, ArrRow
<1> QED
  BY <1>1, AnsweringAlways, PTL

\* The custom scan returns exactly the rows of the SQL join as of its snapshot,
\* each once, although begin_custom_scan, drain_plan, the board and
\* exec_custom_scan look at the tables at different times while others write
\* and vacuum: for every statement whose only clause is the one the hook found.
THEOREM AnswersTheQuery == ASSUME NoOtherClauses PROVE Spec => []AnswersQuery
<1>1. Answering => AnswersQuery
  <2> SUFFICES ASSUME Answering PROVE AnswersQuery
    OBVIOUS
  <2>1. Tuples /\ query \in Queries /\ ScanSound /\ Returned
    BY DEF Answering
  <2>2. /\ emitted \in Seq(ToSet(emitted)) /\ ToSet(emitted) \subseteq expected
        /\ \A i, j \in DOMAIN emitted : emitted[i] = emitted[j] => i = j
    BY <2>1, Zenon DEF Returned
  <2>3. Cardinality(ToSet(emitted)) = Len(emitted)
    <3> DEFINE S == ToSet(emitted)
               n == Len(emitted)
    <3>1. emitted \in Seq(S) /\ \A z \in S : \E i \in DOMAIN emitted : emitted[i] = z
      BY <2>2, Zenon DEF ToSet
    <3> HIDE DEF S
    <3>2. n \in Nat /\ DOMAIN emitted = 1..n /\ emitted \in [1..n -> S]
      BY <3>1
    <3>3. IsFiniteSet(1..n) /\ Cardinality(1..n) = n
      BY <3>2, FS_Interval
    <3>4. \A i, j \in 1..n : emitted[i] = emitted[j] => i = j
      BY <2>2, <3>2, Zenon
    <3>5. \A z \in S : \E i \in 1..n : emitted[i] = z
      BY <3>1, <3>2, Zenon
    <3> HIDE DEF n
    <3>6. Cardinality(S) = Cardinality(1..n)
      BY <3>2, <3>3, <3>4, <3>5, FiniteImage, Zenon
    <3> QED
      BY <3>3, <3>6 DEF S, n
  <2>4. ASSUME spc = "exhausted" PROVE ToSet(emitted) = expected
    <3>1. PlanSound /\ PairsRight /\ EmittedRight /\ Asked /\ result_cursor = Len(result_pairs)
      BY <2>4 DEF Answering, ScanSound, Scanning
    <3>2. ToSet(emitted) = {Shown(s) : s \in Matching}
      BY <2>1, <2>2, <3>1, ReturnedAll, Zenon
    <3> QED
      BY <3>1, <3>2, Zenon DEF Asked
  <2> QED
    BY <2>2, <2>3, <2>4 DEF AnswersQuery
<1> QED
  BY <1>1, AnsweringAlways, PTL

=============================================================================
