-------------------------------- MODULE Heap --------------------------------
(***************************************************************************)
(* PostgreSQL's tables as fpga_executor.c relies on them (external): row   *)
(* versions at TIDs, snapshots, concurrent writers and VACUUM.             *)
(*                                                                         *)
(* A version is a record [tid, key, val, born, dead] with the commit times *)
(* of the transactions that wrote and deleted it; dead is 0 while it       *)
(* lives.  Writers commit one at a time.  VACUUM removes versions no held  *)
(* snapshot sees, and their TIDs are used again.  The locks a statement    *)
(* takes on its tables keep DROP, TRUNCATE and VACUUM FULL away.           *)
(***************************************************************************)
EXTENDS Integers, FiniteSets, FiniteSetsExt

CONSTANTS
    Tables,
    Keys, Null,     \* key values, and the value that equals none
    Vals,           \* values of the other column
    Tids,           \* the TIDs of a table, as numbers
    NewRows,        \* the rows [key, val] that writers write
    MaxWrites       \* bound on the committed writes

VARIABLES
    heap,           \* for each table its versions
    indexlist,      \* for each table its indexes
    now,            \* time of the last commit
    snapshot        \* the session's snapshot: a commit time, or -1 for none

db == <<heap, indexlist, now, snapshot>>

Index == [unique : BOOLEAN, immediate : BOOLEAN, partial : BOOLEAN,
          columns : {<<"key">>, <<"key", "val">>, <<"val">>}]

Version == [tid : Tids, key : Keys \cup {Null}, val : Vals, born : Nat, dead : Nat]

Visible(v, time) == v.born <= time /\ (v.dead = 0 \/ v.dead > time)

\* The versions of a table that a snapshot sees.
RowsAt(t, time) == {v \in heap[t] : Visible(v, time)}

\* Only a unique index over all rows and the column alone, checked at once,
\* keeps a value from being seen twice: the session's own transaction may be
\* about to violate a deferred one.
IsUnique(t, column) ==
    \E i \in indexlist[t] :
        i.unique /\ i.immediate /\ ~i.partial /\ i.columns = <<column>>

\* A committed write: the version gone, if any, goes and a row comes.
Write(t, gone, rows) ==
    LET free == Tids \ {v.tid : v \in heap[t]}
        live == RowsAt(t, now) \ gone
    IN /\ now < MaxWrites
       /\ now' = now + 1
       /\ \E row \in rows :
             /\ \A c \in {"key", "val"} :
                   IsUnique(t, c) /\ row[c] # Null => \A v \in live : v[c] # row[c]
             /\ free # {}
             /\ heap' = [heap EXCEPT ![t] =
                   (@ \ gone)
                   \cup {[v EXCEPT !.dead = now'] : v \in gone}
                   \cup {[tid |-> Min(free), key |-> row.key, val |-> row.val,
                          born |-> now', dead |-> 0]}]
       /\ UNCHANGED <<indexlist, snapshot>>

Insert == \E t \in Tables : Write(t, {}, NewRows)

Update == \E t \in Tables : \E v \in RowsAt(t, now) : Write(t, {v}, NewRows)

Delete ==
    \E t \in Tables : \E v \in RowsAt(t, now) :
        /\ now < MaxWrites
        /\ now' = now + 1
        /\ heap' = [heap EXCEPT ![t] = (@ \ {v}) \cup {[v EXCEPT !.dead = now']}]
        /\ UNCHANGED <<indexlist, snapshot>>

\* VACUUM, up to the oldest time a snapshot still looks at.
Vacuum ==
    LET horizon == IF snapshot = -1 THEN now ELSE snapshot
        kept == [t \in Tables |-> {v \in heap[t] : v.dead = 0 \/ v.dead > horizon}]
    IN /\ heap # kept
       /\ heap' = kept
       /\ UNCHANGED <<indexlist, now, snapshot>>

=============================================================================
