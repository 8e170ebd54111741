----------------------------- MODULE FlashBrain -----------------------------
(***************************************************************************)
(* The arithmetic and the transaction layout of src/flash_brain.ts: what   *)
(* is borrowed, what the round trip through Jupiter returns, what it costs *)
(* and the instructions of the arbitrage transaction.  Amounts are in base *)
(* units of the borrowed mint, tips and transaction fees in lamports; the  *)
(* code adds and compares them as plain integers.                          *)
(***************************************************************************)
EXTENDS Integers, Sequences

CONSTANTS
  TIP_PERCENT,
  MIN_TIP_LAMPORTS,
  MAX_SAFE_INTEGER   (* Number.MAX_SAFE_INTEGER *)

ASSUME TipAssumption == TIP_PERCENT \in Nat /\ MIN_TIP_LAMPORTS \in Nat
ASSUME MaxSafeAssumption == MAX_SAFE_INTEGER \in Nat

TXN_FEES_LAMPORTS == 15000
SOLEND_FLASHLOAN_FEE_BPS == 30

Mint == {"SOL", "USDC"}

\* fetchQuote sends no request for an amount that a number cannot hold.
Quotable(amount) == amount <= MAX_SAFE_INTEGER

CalculateFlashLoanFee(borrowAmount) == (borrowAmount * SOLEND_FLASHLOAN_FEE_BPS) \div 10000

CalculateTip(grossProfit) ==
  LET dynamicTip == (grossProfit * TIP_PERCENT) \div 100 IN
    IF dynamicTip > MIN_TIP_LAMPORTS THEN dynamicTip ELSE MIN_TIP_LAMPORTS

GrossProfit(borrowAmount, returnAmount) == returnAmount - borrowAmount

\* (Mutant: the loan fee is left out.)
NetProfitBeforeLoanFee(borrowAmount, returnAmount) ==
  LET grossProfit == GrossProfit(borrowAmount, returnAmount) IN grossProfit - CalculateTip(grossProfit)
NetProfit(borrowAmount, returnAmount) ==
  LET grossProfit == GrossProfit(borrowAmount, returnAmount) IN
    grossProfit - CalculateFlashLoanFee(borrowAmount) - CalculateTip(grossProfit)

\* The round trip is worth building a transaction for.
WorthBuilding(borrowAmount, returnAmount) ==
  /\ returnAmount > borrowAmount
  /\ NetProfit(borrowAmount, returnAmount) > TXN_FEES_LAMPORTS

(***************************************************************************)
(* Instructions.  Jupiter answers with some set-up and compute-budget      *)
(* instructions, the swap and perhaps a clean-up.                          *)
(***************************************************************************)
Instruction == {"mevProtection", "createTokenAccount", "flashBorrow", "setup", "computeBudget",
                "forwardSwap", "returnSwap", "cleanup", "flashRepay", "closeTokenAccount", "tip"}
SwapInstructions == [setup : Nat, computeBudget : Nat, cleanup : BOOLEAN]

Copies(n, ix) == [i \in 1 .. n |-> ix]

JupiterSwapInstructions(leg, swapIx) ==
  Copies(swapIx.setup, "setup")
    \o Copies(swapIx.computeBudget, "computeBudget")
    \o <<leg>>
    \o Copies(IF swapIx.cleanup THEN 1 ELSE 0, "cleanup")

BeforeBorrow == <<"mevProtection", "createTokenAccount">>

\* Counted from zero, taken before the borrow is pushed.  (Mutant: after.)
IndexAfterPush == Len(BeforeBorrow) + 1
BorrowInstructionIndex == Len(BeforeBorrow)

\* The wSOL account is closed once the loan is repaid.
RepayAndClose(mint) == IF mint = "SOL" THEN <<"flashRepay", "closeTokenAccount">> ELSE <<"flashRepay">>

Instructions(mint, forwardSwapIx, returnSwapIx) ==
  BeforeBorrow
    \o <<"flashBorrow">>
    \o JupiterSwapInstructions("forwardSwap", forwardSwapIx)
    \o JupiterSwapInstructions("returnSwap", returnSwapIx)
    \o RepayAndClose(mint)
    \o <<"tip">>

\* What an assembled transaction must be for the loan to be taken and repaid
\* in it: the repayment names the instruction that borrows (lines 359-393),
\* both swaps run between the two, the account the loan lives in is closed
\* only after the repayment, and the tip is paid last.
RepaysItsBorrow(ixs, borrowInstructionIndex) ==
  /\ borrowInstructionIndex + 1 \in DOMAIN ixs
  /\ ixs[borrowInstructionIndex + 1] = "flashBorrow"
  /\ \A i, j \in DOMAIN ixs :
       /\ ixs[i] \in {"flashBorrow", "flashRepay", "forwardSwap", "returnSwap", "tip"} /\ ixs[i] = ixs[j] => i = j
       /\ ixs[i] \in {"flashBorrow", "forwardSwap", "returnSwap"} /\ ixs[j] = "flashRepay" => i < j
       /\ ixs[i] = "forwardSwap" /\ ixs[j] = "returnSwap" => i < j
       /\ ixs[i] = "flashBorrow" /\ ixs[j] \in {"forwardSwap", "returnSwap"} => i < j
       /\ ixs[i] = "flashRepay" /\ ixs[j] = "closeTokenAccount" => i < j
  /\ \E i \in DOMAIN ixs : ixs[i] = "flashRepay"
  /\ ixs[Len(ixs)] = "tip"
=============================================================================
