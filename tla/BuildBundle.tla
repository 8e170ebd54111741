----------------------------- MODULE BuildBundle -----------------------------
(***************************************************************************)
(* The bundle that src/build-bundle.ts makes of an arbitrage idea: whether *)
(* it is worth sending, the least output it asks of the route, its tip and *)
(* the instructions of its main transaction.  Amounts are in base units of *)
(* the borrowed mint; those called lamports are what they are worth in     *)
(* lamports, which for SOL is the same.                                    *)
(***************************************************************************)
EXTENDS Integers

CONSTANTS
  TIP_PERCENT,
  MIN_TIP_LAMPORTS

ASSUME TipAssumption == TIP_PERCENT \in Nat /\ MIN_TIP_LAMPORTS \in Nat

PROFIT_BUFFER_PERCENT == 3
SOLEND_FLASHLOAN_FEE_BPS == 30
TXN_FEES_LAMPORTS == 15000

Mint == {"SOL", "USDC"}
\* An idea as far as the bundle depends on it; expectedProfit is what the quote
\* of the route leaves after the loan fee.
Idea == [mint : Mint, arbSize : Nat, expectedProfit : Nat]

minProfit == MIN_TIP_LAMPORTS + TXN_FEES_LAMPORTS
\* (Mutant: without the transaction fees.)
WorthTheTip(expectedProfitLamports) == expectedProfitLamports >= MIN_TIP_LAMPORTS
WorthSending(expectedProfitLamports) == expectedProfitLamports >= minProfit

FlashloanFee(arbSize) == (arbSize * SOLEND_FLASHLOAN_FEE_BPS) \div 10000
Tip(profit) == (profit * TIP_PERCENT) \div 100
ProfitBuffer(profit) == (profit * PROFIT_BUFFER_PERCENT) \div 100

\* (Mutant: without the loan fee.)
MinOutBeforeFee(idea) == idea.arbSize + Tip(idea.expectedProfit) + ProfitBuffer(idea.expectedProfit)
MinOut(idea) ==
  (idea.arbSize + Tip(idea.expectedProfit))
    + (FlashloanFee(idea.arbSize) + ProfitBuffer(idea.expectedProfit))

\* The route runs between borrow and repayment, which names the borrow by its
\* index from zero; the account of a SOL loan is made for the bundle, and closed.
BorrowInstructionIndex == 0
InstructionsMain(mint) ==
  IF mint = "SOL"
  THEN <<"flashBorrow", "route", "flashRepay", "closeTokenAccount", "tip">>
  ELSE <<"flashBorrow", "route", "flashRepay", "tip">>

(***************************************************************************)
(* What the programs on chain do with the main transaction, as far as the  *)
(* code relies on it: all of it or nothing.  account is the token account  *)
(* the loan lives in, wallet what the payer has in lamports.               *)
(***************************************************************************)
Chain == [landed : BOOLEAN, account : Int, wallet : Int, loan : Nat]
Holding(account, wallet, loan) ==
  [landed |-> TRUE, account |-> account, wallet |-> wallet, loan |-> loan]
RolledBack == [landed |-> FALSE, account |-> 0, wallet |-> 0, loan |-> 0]

Executed(ix, c, idea, value, out) ==
  IF ~c.landed THEN c ELSE
  CASE ix = "flashBorrow" -> Holding(c.account + idea.arbSize, c.wallet, idea.arbSize)
    [] ix = "route" ->
         IF c.account < idea.arbSize \/ out < MinOut(idea) THEN RolledBack
         ELSE Holding(c.account - idea.arbSize + out, c.wallet, c.loan)
    [] ix = "flashRepay" ->
         IF /\ InstructionsMain(idea.mint)[BorrowInstructionIndex + 1] = "flashBorrow"
            /\ c.account >= idea.arbSize + FlashloanFee(idea.arbSize)
         THEN Holding(c.account - idea.arbSize - FlashloanFee(idea.arbSize), c.wallet, 0)
         ELSE RolledBack
    [] ix = "closeTokenAccount" -> Holding(0, c.wallet + c.account, c.loan)
    [] ix = "tip" -> Holding(c.account, c.wallet - Tip(value), c.loan)

\* The chain after the main transaction of an idea whose expected profit is worth
\* value lamports, when the route returns out.
ExecutedAt(i, c, idea, value, out) ==
  LET ixs == InstructionsMain(idea.mint)
  IN  IF i \in DOMAIN ixs THEN Executed(ixs[i], c, idea, value, out) ELSE c
Execution(idea, value, out) ==
  LET Step(c, i) == ExecutedAt(i, c, idea, value, out)
      end == Step(Step(Step(Step(Step(Holding(0, 0, 0), 1), 2), 3), 4), 5)
  IN  IF end.loan = 0 THEN end ELSE RolledBack

\* Outputs at which an execution may turn out differently.
Outs(idea) ==
  LET m == MinOut(idea)
      fee == FlashloanFee(idea.arbSize)
  IN  {m - fee - 1, m - fee, m - 1, m, m + 1}

\* What an idea was quoted to return, and what its bundle gains at some output
\* at which it lands, the profit of a USDC idea taken at its value.
QuotedOut(idea) == idea.arbSize + FlashloanFee(idea.arbSize) + idea.expectedProfit
GainAt(idea, value, out) ==
  Execution(idea, value, out).wallet + (IF idea.mint = "USDC" THEN value ELSE 0)

\* If the transaction lands, tip and profit buffer are there beside the loan.
LeavesTheMargin(idea, value, out) ==
  LET end == Execution(idea, value, out)
      margin == Tip(idea.expectedProfit) + ProfitBuffer(idea.expectedProfit)
  IN  end.landed =>
        IF idea.mint = "SOL" THEN end.wallet + Tip(value) >= margin
        ELSE end.account >= margin /\ end.wallet = -Tip(value)
=============================================================================
