--------------------------- MODULE MCLookupTables ---------------------------
(* Instances of LookupTables: three tables that overlap and grow, and        *)
(* a transaction that uses two of them.                                      *)
EXTENDS LookupTables, TLC

CONSTANTS t1, t2, t3, x1, x2, x3, x4

MC_Contents ==
  t1 :> << {x1, x2}, {x1, x2, x3} >>
    @@ t2 :> << {x2, x3}, {x2, x3, x4} >>
    @@ t3 :> << {x4}, {x1, x4} >>

Use(t, v) == [table |-> t, need |-> v]
MC_Txns == { <<Use(t1, 2), Use(t2, 1)>> }
=============================================================================
