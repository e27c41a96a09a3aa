---------------------------- MODULE FpgaExecutor ----------------------------
(***************************************************************************)
(* One statement of a PostgreSQL session, from the planner hook to the end *)
(* of the custom scan (src/pg/src/fpga_executor.c), among the writers of   *)
(* the tables it joins.  The plan may be kept for a later execution        *)
(* (a prepared statement), while settings and tables change.               *)
(*                                                                         *)
(* The child plans are scans of the heap (sequential, index or bitmap).    *)
(* The run of the board is that of JoinService: the exact join of the rows *)
(* handed over, or a failure.  The columns of the result are routed by     *)
(* table, and projection, timing and EXPLAIN's output are left out.        *)
(***************************************************************************)
EXTENDS Heap, FpgaPlanner, EquiJoin

CONSTANTS
    Gucs,           \* settings [enabled, algorithm, min_inner_rows, max_inner_rows]
    Queries,        \* statements [tables, jointype, restrictlist, reloptkind]
    Databases,      \* states of the tables to start from: [rows, indexlist]
    Estimates       \* row estimates of the planner

ASSUME QueryAssumption ==
    /\ \A g \in Gucs : g.algorithm \in DOMAIN lowercase /\ g.max_inner_rows \in Nat
    /\ {Tids, Estimates} \subseteq SUBSET Nat /\ {HT_MAX_ROWS, MaxWrites} \subseteq Nat
    /\ NewRows \subseteq [key : Keys \cup {Null}, val : Vals]

\* A statement joins two tables, and its clauses compare their columns.
ASSUME ClauseAssumption ==
    \A q \in Queries :
        LET ts == {q.tables[1], q.tables[2]}
        IN /\ ts \subseteq Tables /\ q.tables[1] # q.tables[2]
           /\ IsFiniteSet(q.restrictlist)
           /\ \A c \in q.restrictlist :
                 /\ {c.left.table, c.right.table} \subseteq ts
                 /\ {c.left.attno, c.right.attno} \subseteq {"key", "val"}

\* The tables hold rows, and what their unique indexes say of them.
ASSUME DatabaseAssumption ==
    \A d \in Databases :
        /\ d.indexlist \in [Tables -> SUBSET Index]
        /\ \A t \in Tables :
              /\ d.rows[t] \in Seq([key : Keys \cup {Null}, val : Vals])
              /\ DOMAIN d.rows[t] \subseteq Tids
              /\ \A i \in d.indexlist[t], c \in {"key", "val"} :
                    i.unique /\ i.immediate /\ ~i.partial /\ i.columns = <<c>> =>
                       \A m, n \in DOMAIN d.rows[t] :
                          d.rows[t][m][c] = d.rows[t][n][c] /\ d.rows[t][m][c] # Null => m = n

\* Of the names the adapter knows, the upper-case ones are "A" and "B".
ASSUME LowercaseAssumption ==
    \A name \in DOMAIN lowercase :
        /\ name \in {"", "a", "algorithm_a", "linear", "b", "algorithm_b", "grace"} =>
               lowercase[name] = name
        /\ name = "A" => lowercase[name] = "a"
        /\ name = "B" => lowercase[name] = "b"

VARIABLES
    gucs, query,
    plan,           \* the custom path and what the planner knew
    spc,            \* the place in the statement's life
    inner_arr, outer_arr, result_pairs,
    result_cursor,
    emitted,        \* history: the rows returned, by table
    expected        \* history: the rows SQL asks for, when the scan began

scan == <<inner_arr, outer_arr, result_pairs, result_cursor, emitted, expected>>

vars == <<db, gucs, query, plan, spc, scan>>

NoPath == [outer |-> "none", inner |-> "none", outer_attno |-> "none", inner_attno |-> "none"]
NoPlan == [path |-> NoPath, gucs |-> "none", rows |-> [t \in Tables |-> 0]]

Init ==
    /\ \E d \in Databases :
          /\ heap = [t \in Tables |->
                {[tid |-> i, key |-> d.rows[t][i].key, val |-> d.rows[t][i].val,
                  born |-> 0, dead |-> 0] : i \in DOMAIN d.rows[t]}]
          /\ indexlist = d.indexlist
    /\ now = 0 /\ snapshot = -1
    /\ gucs \in Gucs /\ query \in Queries
    /\ plan = NoPlan /\ spc = "parsed"
    /\ inner_arr = <<>> /\ outer_arr = <<>> /\ result_pairs = <<>>
    /\ result_cursor = 0 /\ emitted = <<>> /\ expected = {}

-----------------------------------------------------------------------------
\* A row as the statement's result shows it.
RowOf(v) == [tid |-> v.tid, key |-> v.key, val |-> v.val]

\* A clause holds for a pair of versions; no comparison holds for a NULL.
Holds(c, pair) ==
    LET a == pair[c.left.table][c.left.attno]
        b == pair[c.right.table][c.right.attno]
    IN Null \notin {a, b} /\ (IF c.op = "=" THEN a = b ELSE a < b)

\* A row of the result: v of table t beside w of table u.
Beside(t, v, u, w) == [x \in {t, u} |-> IF x = t THEN v ELSE w]

\* What SQL asks for: the pairs of rows the snapshot sees for which every
\* clause holds; an outer join keeps the first table's other rows.
SqlJoin ==
    LET t1 == query.tables[1]
        t2 == query.tables[2]
        seen(t) == {RowOf(v) : v \in RowsAt(t, now)}
        pairs == {Beside(t1, s[1], t2, s[2]) : s \in seen(t1) \X seen(t2)}
        joined == {p \in pairs : \A c \in query.restrictlist : Holds(c, p)}
        alone == {v \in seen(t1) : \A p \in joined : p[t1] # v}
    IN joined \cup (IF query.jointype = "JOIN_LEFT" THEN {Beside(t1, v, t1, v) : v \in alone} ELSE {})

-----------------------------------------------------------------------------
\* The planner calls the hook with either table as the inner side.  A custom
\* path costs nothing, so it is taken if there is one.
Plan ==
    /\ spc = "parsed"
    /\ \E rows \in [Tables -> Estimates] :
          LET rel(t) == [table |-> t, rows |-> rows[t], reloptkind |-> query.reloptkind[t],
                         indexlist |-> indexlist[t]]
              t1 == query.tables[1]
              t2 == query.tables[2]
              paths == fpga_planner_hook(gucs, query, rel(t1), rel(t2))
                       \cup fpga_planner_hook(gucs, query, rel(t2), rel(t1))
          IN \/ /\ paths = {}
                /\ spc' = "on_cpu" /\ UNCHANGED plan
             \/ \E path \in paths :
                   /\ spc' = "planned"
                   /\ plan' = [path |-> path, gucs |-> gucs, rows |-> rows]
    /\ UNCHANGED <<db, gucs, query, scan>>

\* SET: the settings are USERSET and a plan does not depend on them.
Set ==
    /\ spc = "planned"
    /\ gucs' \in Gucs
    /\ UNCHANGED <<db, query, plan, spc, scan>>

\* Dropping an index makes PostgreSQL plan the statement anew.
DropIndex ==
    /\ spc \in {"parsed", "planned"}
    /\ \E t \in Tables : /\ indexlist[t] # {}
                         /\ indexlist' = [indexlist EXCEPT ![t] = {}]
    /\ spc' = "parsed" /\ plan' = NoPlan
    /\ UNCHANGED <<heap, now, snapshot, gucs, query, scan>>

-----------------------------------------------------------------------------
\* EXPLAIN: begin_custom_scan returns at once, and so does end_custom_scan.
ExplainOnly ==
    /\ spc = "planned"
    /\ spc' = "ended"
    /\ UNCHANGED <<db, gucs, query, plan, scan>>

\* begin_custom_scan opens both tables and keeps the active snapshot.
BeginScan ==
    /\ spc = "planned"
    /\ spc' = "drain_inner"
    /\ snapshot' = now /\ expected' = SqlJoin
    /\ UNCHANGED <<heap, indexlist, now, gucs, query, plan,
                   inner_arr, outer_arr, result_pairs, result_cursor, emitted>>

\* Defect: rows whose key is NULL are handed over like the others.
DrainAll(t, attno) ==
    LET rows == SetToSeq(RowsAt(t, snapshot))
    IN [i \in DOMAIN rows |-> [key |-> rows[i][attno], tid |-> rows[i].tid]]

\* The rows the snapshot sees, without those whose key is NULL, in some order:
\* which one it is depends on the kind of the scan.
drain_plan(t, attno) ==
    LET rows == SetToSeq({v \in RowsAt(t, snapshot) : v[attno] # Null})
    IN [i \in DOMAIN rows |-> [key |-> rows[i][attno], tid |-> rows[i].tid]]

DrainInner ==
    /\ spc = "drain_inner"
    /\ spc' = "drain_outer"
    /\ inner_arr' = drain_plan(plan.path.inner, plan.path.inner_attno)
    /\ UNCHANGED <<db, gucs, query, plan, outer_arr, result_pairs, result_cursor,
                   emitted, expected>>

DrainOuter ==
    /\ spc = "drain_outer"
    /\ spc' = "run"
    /\ outer_arr' = drain_plan(plan.path.outer, plan.path.outer_attno)
    /\ UNCHANGED <<db, gucs, query, plan, inner_arr, result_pairs, result_cursor,
                   emitted, expected>>

\* The adapter compares the setting with fixed spellings.
parse_algorithm(name) ==
    CASE name \in {"", "a", "A", "algorithm_a", "linear"} -> "A"
      [] name \in {"b", "B", "algorithm_b", "grace"} -> "B"
      [] OTHER -> "throws"

\* The rows of the inner side after the adapter has dropped duplicate keys.
DedupCount == Cardinality({inner_arr[i].key : i \in DOMAIN inner_arr})

AdapterAccepts ==
    IF parse_algorithm(gucs.algorithm) = "A" THEN DedupCount <= HT_MAX_ROWS
    ELSE grace_ddr_layout_fits(DedupCount, Len(outer_arr))

\* An exception that leaves fpga_adapter_run, as parse_algorithm is called
\* before its try, finds no handler in C: the backend is terminated.
AdapterThrows ==
    /\ spc = "run" /\ parse_algorithm(gucs.algorithm) = "throws"
    /\ spc' = "crashed" /\ snapshot' = -1
    /\ UNCHANGED <<heap, indexlist, now, gucs, query, plan, scan>>

\* fpga_adapter_run returns false, for want of room or for any other reason,
\* and ereport(ERROR) aborts the statement.
AdapterFails ==
    /\ spc = "run" /\ parse_algorithm(gucs.algorithm) # "throws"
    /\ spc' = IF AdapterAccepts THEN "failed" ELSE "refused"
    /\ snapshot' = -1
    /\ UNCHANGED <<heap, indexlist, now, gucs, query, plan, scan>>

\* It returns the pairs, which are copied; the order does not matter here.
AdapterReturns ==
    /\ spc = "run" /\ parse_algorithm(gucs.algorithm) # "throws" /\ AdapterAccepts
    /\ spc' = "execute"
    /\ result_pairs' = JoinOf(inner_arr, outer_arr) /\ result_cursor' = 0
    /\ UNCHANGED <<db, gucs, query, plan, inner_arr, outer_arr, emitted, expected>>

-----------------------------------------------------------------------------
\* Defect: the version is looked for as of now.
FetchLatest(t, tid) == {v \in heap[t] : v.tid = tid /\ Visible(v, now)}

\* table_tuple_fetch_row_version: the version at a TID, if the snapshot sees it.
Fetch(t, tid) == {v \in heap[t] : v.tid = tid /\ Visible(v, snapshot)}

\* One turn of exec_custom_scan's loop; a pair of which a row is not found is
\* skipped.
ExecFetch ==
    /\ spc = "execute" /\ result_cursor < Len(result_pairs)
    /\ result_cursor' = result_cursor + 1
    /\ LET pair == result_pairs[result_cursor']
           inner == Fetch(plan.path.inner, pair.inner_tid)
           outer == Fetch(plan.path.outer, pair.outer_tid)
       IN IF inner = {} \/ outer = {} THEN UNCHANGED emitted
          ELSE \E v \in inner, w \in outer :
                  emitted' = Append(emitted, Beside(plan.path.inner, RowOf(v),
                                                    plan.path.outer, RowOf(w)))
    /\ UNCHANGED <<db, gucs, query, plan, spc, inner_arr, outer_arr, result_pairs, expected>>

ExecEnd ==
    /\ spc = "execute" /\ result_cursor >= Len(result_pairs)
    /\ spc' = "exhausted"
    /\ UNCHANGED <<db, gucs, query, plan, scan>>

\* The statement ends, perhaps before all rows were asked for (LIMIT, CLOSE).
EndScan ==
    /\ spc \in {"execute", "exhausted"}
    /\ spc' = "ended" /\ snapshot' = -1
    /\ UNCHANGED <<heap, indexlist, now, gucs, query, plan, scan>>

\* A join inside a loop is scanned again: an ERROR.
Rescan ==
    /\ spc \in {"execute", "exhausted"}
    /\ spc' = "failed" /\ snapshot' = -1
    /\ UNCHANGED <<heap, indexlist, now, gucs, query, plan, scan>>

-----------------------------------------------------------------------------
Over == spc \in {"on_cpu", "ended", "failed", "refused", "crashed"}

Others == ~Over /\ (Insert \/ Update \/ Delete \/ Vacuum)
          /\ UNCHANGED <<gucs, query, plan, spc, scan>>

\* The statement is over, for this model.
Finished == Over /\ UNCHANGED vars

Next ==
    \/ Plan \/ Set \/ DropIndex \/ ExplainOnly \/ BeginScan \/ DrainInner \/ DrainOuter
    \/ AdapterThrows \/ AdapterFails \/ AdapterReturns
    \/ ExecFetch \/ ExecEnd \/ EndScan \/ Rescan \/ Others
    \/ Finished

Spec == Init /\ [][Next]_vars

-----------------------------------------------------------------------------
\* The shape of the tables (no two versions at one TID) and of the scan.
TypeOK ==
    /\ \A t \in Tables : /\ heap[t] \subseteq Version /\ indexlist[t] \subseteq Index
                         /\ Cardinality({v.tid : v \in heap[t]}) = Cardinality(heap[t])
    /\ now \in 0..MaxWrites /\ snapshot \in -1..now
    /\ result_cursor \in 0..Len(result_pairs)
    /\ \A i \in DOMAIN inner_arr : inner_arr[i] \in [key : Keys \cup Vals, tid : Tids]
    /\ \A i \in DOMAIN outer_arr : outer_arr[i] \in [key : Keys \cup Vals, tid : Tids]

\* The custom scan returns what the statement asks for (begin_custom_scan,
\* exec_custom_scan): every row of the SQL join as of the snapshot, once, and
\* no other, whatever is written or vacuumed while the board works, and for
\* whatever plan the hook has made.
AnswersQuery ==
    /\ ToSet(emitted) \subseteq expected
    /\ Cardinality(ToSet(emitted)) = Len(emitted)
    /\ spc = "exhausted" => ToSet(emitted) = expected

\* The planner's test of the sizes and the adapter's agree: a statement is
\* refused for want of room only if the estimates were wrong, a setting was
\* changed since, or fpga.max_inner_rows is beyond the table's size.
RefusalsWereForeseeable ==
    spc = "refused" =>
        \/ plan.rows[plan.path.inner] # DedupCount \/ plan.rows[plan.path.outer] # Len(outer_arr)
        \/ plan.gucs # gucs
        \/ gucs.max_inner_rows > HT_MAX_ROWS

\* What fpga_adapter.h says of fpga_adapter_run (lines 146-147): "On failure
\* (FpgaException, FpgaTimeoutException, etc.): Returns false."
FailureReturnsFalse == spc # "crashed"

=============================================================================
