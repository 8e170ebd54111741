--------------------------- MODULE MCLegacyPipeline ---------------------------
(* Instances of LegacyPipeline.  A SOL profit is what the bundle needs, or     *)
(* enough for the tip alone; sizes make every division round.                *)
EXTENDS LegacyPipeline

\* A later trade overtakes an earlier one, and two have the same rank.
MC_Rank == [x \in Item |-> x \div 2]

MC_Ideas ==
  { [mint |-> "SOL", arbSize |-> 1000999, expectedProfit |-> 12000],
    [mint |-> "SOL", arbSize |-> 1000999, expectedProfit |-> 25000],
    [mint |-> "USDC", arbSize |-> 20333, expectedProfit |-> 501] }
=============================================================================
