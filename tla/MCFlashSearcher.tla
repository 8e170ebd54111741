--------------------------- MODULE MCFlashSearcher ---------------------------
(* Instances of FlashSearcher.  Amounts are chosen around the boundaries of  *)
(* the profit checks: borrowing 1,000,000 costs 3,000, and a gross profit of *)
(* 28,000 (floor tip) is one short of what a transaction is built for.       *)
EXTENDS FlashSearcher

MC_TradeSizes == {0, 1000000, 2000001}
MC_OutAmounts == {500, 1028000, 1028001, 2000001}
MC_SwapAnswers ==
  {NoSwap, [setup |-> 2, computeBudget |-> 2, cleanup |-> TRUE]}
=============================================================================
