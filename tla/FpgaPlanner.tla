---------------------------- MODULE FpgaPlanner ----------------------------
(***************************************************************************)
(* fpga_planner_hook (src/pg/src/fpga_planner.c) as operators: which joins *)
(* get a custom path, and with which side as the build side.               *)
(*                                                                         *)
(* A relation is a record [table, rows, reloptkind, indexlist], where rows *)
(* is the planner's estimate (a double in the code; PostgreSQL rounds it   *)
(* to whole rows).  A restriction clause is a record [op, left, right]     *)
(* that compares two columns, each a record [table, attno, type]; clauses  *)
(* of another shape are skipped like those whose operator is not "=".      *)
(***************************************************************************)
EXTENDS Integers, FiniteSets

CONSTANTS
    HT_MAX_ROWS, GRACE_MAX_K, GRACE_DDR2_TOTAL_WORDS, UINT32_RANGE,
    lowercase       \* of the names fpga.algorithm may have

INSTANCE GraceLayout

\* pg_strcasecmp: names are compared in lower case.
fpga_algorithm_is_b(name) == lowercase[name] \in {"b", "algorithm_b", "grace"}

fpga_algorithm_is_valid(name) ==
    lowercase[name] \in {"a", "algorithm_a", "linear"} \/ fpga_algorithm_is_b(name)

fpga_grace_estimate_k(inner_rows) == PartitionCount(inner_rows)

fpga_grace_estimate_fits(inner_rows, outer_rows) ==
    LET k == fpga_grace_estimate_k(inner_rows)
    IN /\ inner_rows <= GRACE_MAX_INNER_ROWS /\ k <= GRACE_MAX_K
       /\ GRACE_OUTER_AREA_BASE + k * SlotWords(outer_rows, k) <= GRACE_DDR2_TOTAL_WORDS

\* Defect: the capacity is only checked for the linear table.
EstimateFitsLinear(gucs, inner_rows, outer_rows) ==
    fpga_algorithm_is_b(gucs.algorithm) \/ inner_rows <= gucs.max_inner_rows

\* The estimates fit the memory of the selected algorithm.
EstimateFits(gucs, inner_rows, outer_rows) ==
    IF fpga_algorithm_is_b(gucs.algorithm)
    THEN fpga_grace_estimate_fits(inner_rows, outer_rows)
    ELSE inner_rows <= gucs.max_inner_rows

-----------------------------------------------------------------------------
EquijoinClauses(restrictlist) ==
    {c \in restrictlist : c.op = "=" /\ c.left.table # c.right.table}

\* There is exactly one equijoin clause, between columns of one type.
find_equijoin_key(restrictlist) ==
    /\ Cardinality(EquijoinClauses(restrictlist)) = 1
    /\ \A c \in EquijoinClauses(restrictlist) : c.left.type = c.right.type

\* Its column on the side of a relation.
KeyVar(restrictlist, rel) ==
    LET c == CHOOSE c \in EquijoinClauses(restrictlist) : TRUE
    IN IF c.left.table = rel.table THEN c.left ELSE c.right

rel_joinkey_is_unique(rel, attno) ==
    \E idx \in rel.indexlist :
        idx.unique /\ idx.immediate /\ idx.columns = <<attno>> /\ ~idx.partial

fpga_is_offloadable(gucs, query, outerrel, innerrel) ==
    /\ gucs.enabled
    /\ fpga_algorithm_is_valid(gucs.algorithm)
    /\ query.jointype = "JOIN_INNER"
    /\ find_equijoin_key(query.restrictlist)
    /\ KeyVar(query.restrictlist, innerrel).type \in {"INT4OID", "INT8OID"}
    /\ EstimateFits(gucs, innerrel.rows, outerrel.rows)
    /\ innerrel.rows >= gucs.min_inner_rows
    /\ innerrel.reloptkind = "RELOPT_BASEREL" /\ outerrel.reloptkind = "RELOPT_BASEREL"

\* The path for given sides; its custom_private holds the key columns.  The
\* other clauses are dropped here (plan_fpga_custom_path sets qual to NIL).
CustomPath(query, outerrel, innerrel) ==
    [outer |-> outerrel.table, inner |-> innerrel.table,
     outer_attno |-> KeyVar(query.restrictlist, outerrel).attno,
     inner_attno |-> KeyVar(query.restrictlist, innerrel).attno]

\* The paths one call of the hook adds: none or one.  The unique side is
\* built from; after a swap the capacity is checked again, the minimum not.
fpga_planner_hook(gucs, query, outerrel, innerrel) ==
    LET unique(rel) == rel_joinkey_is_unique(rel, KeyVar(query.restrictlist, rel).attno)
    IN IF ~fpga_is_offloadable(gucs, query, outerrel, innerrel) THEN {}
       ELSE IF unique(innerrel) THEN {CustomPath(query, outerrel, innerrel)}
       ELSE IF unique(outerrel) /\ EstimateFits(gucs, outerrel.rows, innerrel.rows)
       THEN {CustomPath(query, innerrel, outerrel)}
       ELSE {}

=============================================================================
