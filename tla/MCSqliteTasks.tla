--------------------------- MODULE MCSqliteTasks ---------------------------
(* Model values for the runs of SqliteTasks: the urgent task needs a GPU,  *)
(* which only the first claimer has.                                       *)
EXTENDS SqliteTasks, TLC

CONSTANTS c1, c2, c3, o1, t1, t2

TwoRanks == (t1 :> 1) @@ (t2 :> 2)
GpuNeeds == (t1 :> {"gpu"}) @@ (t2 :> {})
GpuHas   == [c \in Claimers |-> IF c = c1 THEN {"gpu"} ELSE {}]
OneRank  == [t \in Tasks |-> 1]
NoNeeds  == [t \in Tasks |-> {}]
=============================================================================
