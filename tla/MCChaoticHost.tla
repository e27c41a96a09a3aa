--------------------------- MODULE MCChaoticHost ---------------------------
(***************************************************************************)
(* Frames for a table of two rows and two partitions: configurations that  *)
(* fit, that do not, that expect no outer rows, and one whose outer slot   *)
(* size is reduced to 0 by the width of uint32_t; batches of every size,   *)
(* empty ones too; RESET.  One partition with room for six outer rows can  *)
(* have more matches than fit in a datagram.                               *)
(***************************************************************************)
EXTENDS ChaoticHost

MCSlotOf == [k \in Keys |-> 0]
MCPartHash == [k \in Keys |-> IF k = "a" THEN 0 ELSE 3]

Row(k, x) == [key |-> k, tid |-> x]

Inner1 == DataFrame("INNER_DATA", <<Row("a", "t1")>>)
Inner2 == DataFrame("INNER_DATA", <<Row("b", "t2"), Row("a", "t3")>>)
Outer1 == DataFrame("OUTER_DATA", <<Row("a", "t1")>>)
Outer3 == DataFrame("OUTER_DATA", <<Row("b", "t2"), Row("a", "t2"), Row("b", "t3")>>)
NoInner == DataFrame("INNER_DATA", <<>>)
NoOuter == DataFrame("OUTER_DATA", <<>>)

\* A host of algorithm A, a host of algorithm B and one that uses both.
MCRepertoires ==
    {{ConfigureFrame("A", 2, 3, 1), ConfigureFrame("A", 1, 0, 2), ConfigureFrame("A", 3, 1, 1),
      ConfigureFrame("C", 1, 1, 1), NoInner, Inner1, Inner2, NoOuter, Outer1, Outer3,
      DataFrame("OUTER_DATA", <<Row("b", "t3")>>), ResetFrame},
     {ConfigureFrame("B", 3, 1, 1), ConfigureFrame("B", 1, 7, 2), ConfigureFrame("B", 1, 5, 1),
      ConfigureFrame("B", 1, 2, 1), NoInner, Inner1, Inner2, NoOuter, Outer1, Outer3,
      ResetFrame},
     {ConfigureFrame("A", 2, 1, 1), ConfigureFrame("B", 3, 1, 1), Inner1, Inner2, Outer3}}

=============================================================================
