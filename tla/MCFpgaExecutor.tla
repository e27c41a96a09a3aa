--------------------------- MODULE MCFpgaExecutor ---------------------------
(***************************************************************************)
(* Joins of two small tables r and s.  The board's table takes two rows,   *)
(* its memory two partitions, and three row estimates lie on both sides of *)
(* what fits.                                                              *)
(***************************************************************************)
EXTENDS FpgaExecutor

Row(k, x) == [key |-> k, val |-> x]

MCNewRows == {Row(1, 0), Row(2, 1), Row(Null, 0)}

IndexOn(columns) == [unique |-> TRUE, immediate |-> TRUE, partial |-> FALSE, columns |-> columns]
PrimaryKey == IndexOn(<<"key">>)

\* A primary key on r alone; on both tables; and tables whose indexes do not
\* keep a key from occurring twice.
MCDatabases ==
    {[rows |-> [r |-> <<Row(1, 0), Row(2, 1)>>,
                s |-> <<Row(1, 0), Row(Null, 1), Row(1, 1)>>],
      indexlist |-> [r |-> {PrimaryKey}, s |-> {}]],
     [rows |-> [r |-> <<Row(1, 0), Row(1, 1), Row(2, 0)>>, s |-> <<Row(1, 1)>>],
      indexlist |-> [r |-> {[PrimaryKey EXCEPT !.partial = TRUE],
                            [PrimaryKey EXCEPT !.immediate = FALSE],
                            [PrimaryKey EXCEPT !.unique = FALSE],
                            IndexOn(<<"key", "val">>)},
                     s |-> {PrimaryKey}]]}

Clause(oper, t, x, u, y, type1, type2) ==
    [op |-> oper, left |-> [table |-> t, attno |-> x, type |-> type1],
     right |-> [table |-> u, attno |-> y, type |-> type2]]

OnKey == Clause("=", "r", "key", "s", "key", "INT4OID", "INT4OID")
OnVal == Clause("=", "s", "val", "r", "val", "INT8OID", "INT8OID")

Query(join, clauses) ==
    [tables |-> <<"r", "s">>, jointype |-> join, restrictlist |-> clauses,
     reloptkind |-> [r |-> "RELOPT_BASEREL", s |-> "RELOPT_BASEREL"]]

KeyJoin == Query("JOIN_INNER", {OnKey})

\* Joins on one column, the same or another one, and joins the hook leaves
\* to the CPU: two equijoin clauses, none, other or differing types, an
\* outer join, and a side that is no base relation.
MCQueries ==
    {KeyJoin,
     Query("JOIN_INNER", {Clause("=", "s", "val", "r", "key", "INT8OID", "INT8OID")}),
     Query("JOIN_INNER", {OnKey, OnVal}),
     Query("JOIN_INNER", {Clause("<", "r", "key", "s", "key", "INT4OID", "INT4OID")}),
     Query("JOIN_INNER", {Clause("=", "r", "key", "s", "key", "INT4OID", "INT8OID")}),
     Query("JOIN_INNER", {Clause("=", "r", "key", "s", "key", "TEXTOID", "TEXTOID")}),
     Query("JOIN_LEFT", {OnKey}),
     [KeyJoin EXCEPT !.reloptkind["s"] = "RELOPT_JOINREL"]}

\* A join on the key with a second condition, r.val < s.val.
MCFilteredQueries ==
    {Query("JOIN_INNER", {OnKey, Clause("<", "r", "val", "s", "val", "INT4OID", "INT4OID")})}

MCKeyQueries == {KeyJoin}

Settings(name, min, max) ==
    [enabled |-> TRUE, algorithm |-> name, min_inner_rows |-> min, max_inner_rows |-> max]

MCGucs == {Settings("a", 1, 2), Settings("grace", 2, 2), Settings("GRACE", 1, 9),
           [Settings("a", 1, 2) EXCEPT !.enabled = FALSE]}

MCSmallGucs == {Settings("a", 2, 2)}

MCLowercase == [name \in {"", "a", "A", "b", "grace", "GRACE"} |->
                   CASE name = "A" -> "a" [] name = "GRACE" -> "grace" [] OTHER -> name]

=============================================================================
