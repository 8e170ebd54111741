---------------------------- MODULE FlashSearcher ----------------------------
(***************************************************************************)
(* The searcher of src/index.ts, from a backrunnable trade to the row of   *)
(* the trade log.  One trade is handled at a time: it is quoted and built  *)
(* (src/flash_brain.ts), simulated, gated, and its bundle is sent to the   *)
(* block engine; the handler awaits every answer.  In between, the results *)
(* of the bundles sent earlier arrive, and 30 s after the block engine     *)
(* took a bundle a timer looks whether it landed and logs it.              *)
(*                                                                         *)
(* A trade record is an object that bundlesInTransit, the timer and the    *)
(* landing check share: it is named by the position in "sends" of its      *)
(* bundle.                                                                 *)
(***************************************************************************)
EXTENDS FlashBrain, FiniteSetsExt

CONSTANTS
  SIMULATION_MODE,
  BundleIds,       (* what the block engine calls the bundles; the same     *)
                   (* bundle, sent again, has the same id                   *)
  TradeSizes,      (* tradeSizeBase of the trades, base units               *)
  OutAmounts,      (* the outAmounts of Jupiter's quotes                    *)
  SwapAnswers,     (* Jupiter's swap instructions                           *)
  UsdcValue,       (* what a base unit of USDC is worth in lamports         *)
  MaxSends,        (* bound on the bundles sent                             *)
  MaxResults       (* bound on the bundle results                           *)

ASSUME SearcherAssumption ==
  /\ SIMULATION_MODE \in BOOLEAN
  /\ TradeSizes \subseteq Nat
  /\ OutAmounts \subseteq Nat
  /\ SwapAnswers \subseteq SwapInstructions
ASSUME UsdcValueAssumption == UsdcValue \in Nat \ {0}
ASSUME BoundsAssumption == MaxSends \in Nat /\ MaxResults \in Nat

VARIABLES
  stage,            (* what the handler of the current trade awaits          *)
  arb,              (* the current trade, as far as it is known              *)
  sends,            (* the bundles sent so far                               *)
  bundlesInTransit, (* the trade record of each bundle id                    *)
  record,           (* the records' mutable fields                           *)
  timers,           (* the pending timers, in order                          *)
  checks,           (* the record whose landing the timer of a send awaits   *)
  rows,             (* the rows of trades.csv                                *)
  results,          (* bundle results received                               *)
  heard             (* results that found the bundle answered, not logged    *)

handler == <<stage, arb>>
tracking == <<bundlesInTransit, record, timers, checks, rows>>
received == <<results, heard>>
vars == <<handler, sends, tracking, received>>

Stage == {"waiting", "forwardQuote", "returnQuote", "forwardSwap", "returnSwap",
          "lookupTables", "simulateBundle", "sendBundle"}

NoSwap == [setup |-> 0, computeBudget |-> 0, cleanup |-> FALSE]
\* Amounts that were asked for fit a number (src/flash_brain.ts, lines 171-178).
Asked == 0 .. MAX_SAFE_INTEGER
Arb == [mint : Mint, borrowAmount : Asked, forwardOut : Asked, returnAmount : Nat,
        forwardSwapIx : SwapInstructions, returnSwapIx : SwapInstructions]
NewArb(mint, size) ==
  [mint |-> mint, borrowAmount |-> size, forwardOut |-> 0, returnAmount |-> 0,
   forwardSwapIx |-> NoSwap, returnSwapIx |-> NoSwap]
NoArb == NewArb("SOL", 0)

FlashLoanFee(a) == CalculateFlashLoanFee(a.borrowAmount)
Gross(a) == GrossProfit(a.borrowAmount, a.returnAmount)
Tip(a) == CalculateTip(Gross(a))

\* A bundle as it is sent: what the round trip was quoted, the tip, and the
\* instructions with the index that the repayment names.
Bundle == [id : BundleIds, mint : Mint, borrowAmount : Nat, returnAmount : Nat, tip : Nat,
           instructions : Seq(Instruction), borrowInstructionIndex : Nat]
NewBundle(id, a) ==
  [id |-> id, mint |-> a.mint, borrowAmount |-> a.borrowAmount, returnAmount |-> a.returnAmount,
   tip |-> Tip(a), instructions |-> Instructions(a.mint, a.forwardSwapIx, a.returnSwapIx),
   borrowInstructionIndex |-> BorrowInstructionIndex]

Sent == 1 .. MaxSends
NoRecord == 0
Result == {"accepted", "rejected"}
Record == [accepted : Nat, rejected : BOOLEAN]
NewRecord == [accepted |-> 0, rejected |-> FALSE]

TypeOK ==
  /\ stage \in Stage
  /\ arb \in Arb
  /\ sends \in Seq(Bundle)
  /\ Len(sends) <= MaxSends
  /\ bundlesInTransit \in [BundleIds -> {NoRecord} \cup Sent]
  /\ record \in [Sent -> Record]
  /\ timers \in Seq(Sent)
  /\ checks \in [Sent -> {NoRecord} \cup Sent]
  /\ rows \in Seq([trade : Sent, result : Record, landed : BOOLEAN])
  /\ results \in Nat
  /\ heard \in [Sent -> Record]

Init ==
  /\ stage = "waiting"
  /\ arb = NoArb
  /\ sends = <<>>
  /\ bundlesInTransit = [id \in BundleIds |-> NoRecord]
  /\ record = [n \in Sent |-> NewRecord]
  /\ timers = <<>>
  /\ checks = [n \in Sent |-> NoRecord]
  /\ rows = <<>>
  /\ results = 0
  /\ heard = [n \in Sent |-> NewRecord]

(***************************************************************************)
(* handleTrade and buildFlashArbTransaction                                *)
(***************************************************************************)

\* The handler returns, or throws and the loop of run catches it: the next
\* trade is taken.
Drop == stage' = "waiting" /\ arb' = NoArb

\* Ask Jupiter for a quote, unless the amount is too large to ask for.
AskQuote(amount, next, newArb) ==
  IF Quotable(amount) THEN stage' = next /\ arb' = newArb ELSE Drop

HandleTrade(mint, size) ==
  /\ stage = "waiting"
  /\ Len(sends) < MaxSends
  /\ size # 0
  /\ AskQuote(size, "forwardQuote", NewArb(mint, size))
  /\ UNCHANGED <<sends, tracking, received>>

ForwardQuote(out) ==
  /\ stage = "forwardQuote"
  /\ AskQuote(out, "returnQuote", [arb EXCEPT !.forwardOut = out])
  /\ UNCHANGED <<sends, tracking, received>>

ReturnQuote(out) ==
  /\ stage = "returnQuote"
  /\ IF WorthBuilding(arb.borrowAmount, out)
     THEN stage' = "forwardSwap" /\ arb' = [arb EXCEPT !.returnAmount = out]
     ELSE Drop
  /\ UNCHANGED <<sends, tracking, received>>

ForwardSwap(swapIx) ==
  /\ stage = "forwardSwap"
  /\ stage' = "returnSwap"
  /\ arb' = [arb EXCEPT !.forwardSwapIx = swapIx]
  /\ UNCHANGED <<sends, tracking, received>>

ReturnSwap(swapIx) ==
  /\ stage = "returnSwap"
  /\ stage' = "lookupTables"
  /\ arb' = [arb EXCEPT !.returnSwapIx = swapIx]
  /\ UNCHANGED <<sends, tracking, received>>

\* The lookup tables are there, the transaction fits and is signed.
Built ==
  /\ stage = "lookupTables"
  /\ stage' = "simulateBundle"
  /\ UNCHANGED <<arb, sends, tracking, received>>

\* An awaited answer is an error, the transaction is too large or cannot be
\* signed, the simulation of a transaction fails, or sendBundle returns no id.
Failure ==
  /\ stage # "waiting"
  /\ Drop
  /\ UNCHANGED <<sends, tracking, received>>

\* isBundleSafe and the gate after it.
AboveCostFloor(a) == Gross(a) >= FlashLoanFee(a) + Tip(a) + TXN_FEES_LAMPORTS

Broadcasting == ~SIMULATION_MODE

\* All transactions of the bundle passed the simulation.
Simulated(id) ==
  /\ stage = "simulateBundle"
  /\ IF AboveCostFloor(arb) /\ Broadcasting
     THEN /\ stage' = "sendBundle"
          /\ sends' = Append(sends, NewBundle(id, arb))
          /\ UNCHANGED arb
     ELSE Drop /\ UNCHANGED sends
  /\ UNCHANGED <<tracking, received>>

\* setTimeout.  (Mutant: a timer that is pending already is taken to do.)
OneTimer(n) == IF timers = <<>> THEN <<n>> ELSE timers
Armed(n) == Append(timers, n)

\* sendBundle returned the id of the bundle.
SendBundle ==
  /\ stage = "sendBundle"
  /\ LET n == Len(sends) IN
       /\ bundlesInTransit' = [bundlesInTransit EXCEPT ![sends[n].id] = n]
       /\ timers' = Armed(n)
  /\ Drop
  /\ UNCHANGED <<sends, record, checks, rows, received>>

(***************************************************************************)
(* Bundle results and the landing check                                    *)
(***************************************************************************)
Note(r, kind) ==
  IF kind = "accepted" THEN [r EXCEPT !.accepted = @ + 1] ELSE [r EXCEPT !.rejected = TRUE]

Answered(n) == n \in DOMAIN sends /\ ~(n = Len(sends) /\ stage = "sendBundle")
Logged(n) == \E i \in DOMAIN rows : rows[i].trade = n

\* A result may come before sendBundle has returned, and may come again.
BundleResult(id, kind) ==
  /\ results < MaxResults
  /\ \E n \in DOMAIN sends : sends[n].id = id
  /\ results' = results + 1
  /\ LET n == bundlesInTransit[id] IN
       record' = IF n = NoRecord THEN record ELSE [record EXCEPT ![n] = Note(@, kind)]
  /\ heard' = [n \in Sent |->
       IF Answered(n) /\ sends[n].id = id /\ ~Logged(n) THEN Note(heard[n], kind) ELSE heard[n]]
  /\ UNCHANGED <<handler, sends, bundlesInTransit, timers, checks, rows>>

\* processCompletedTrade up to its await.  (Mutant: the record is taken out
\* of the map before the answer is there.)
TakenEarly(id) == [bundlesInTransit EXCEPT ![id] = NoRecord]
WhileChecking(id) == bundlesInTransit

TimerFires ==
  /\ timers # <<>>
  /\ timers' = Tail(timers)
  /\ LET n == Head(timers)
         id == sends[n].id
     IN  /\ checks' = [checks EXCEPT ![n] = bundlesInTransit[id]]
         /\ bundlesInTransit' = WhileChecking(id)
  /\ UNCHANGED <<handler, sends, record, rows, received>>

\* ... and after it.  (Mutant: the record is kept.)
Kept(id) == bundlesInTransit
Deleted(id) == [bundlesInTransit EXCEPT ![id] = NoRecord]

Checked(n, landed) ==
  /\ checks[n] # NoRecord
  /\ checks' = [checks EXCEPT ![n] = NoRecord]
  /\ rows' = Append(rows, [trade |-> checks[n], result |-> record[checks[n]], landed |-> landed])
  /\ bundlesInTransit' = Deleted(sends[n].id)
  /\ UNCHANGED <<handler, sends, record, timers, received>>

\* The searcher may wait for the mempool for ever.
Wait == stage = "waiting" /\ UNCHANGED vars

Next ==
  \/ \E mint \in Mint, size \in TradeSizes : HandleTrade(mint, size)
  \/ \E out \in OutAmounts : ForwardQuote(out) \/ ReturnQuote(out)
  \/ \E swapIx \in SwapAnswers : ForwardSwap(swapIx) \/ ReturnSwap(swapIx)
  \/ Built \/ Failure \/ SendBundle \/ TimerFires \/ Wait
  \/ \E id \in BundleIds : Simulated(id)
  \/ \E id \in BundleIds, kind \in Result : BundleResult(id, kind)
  \/ \E n \in Sent, landed \in BOOLEAN : Checked(n, landed)

Spec == Init /\ [][Next]_vars

(***************************************************************************)
(* Fairness.  A timer fires, and getTransaction is answered or fails.  The *)
(* first is Node's promise; the second is the RPC client's: a request that *)
(* is never settled leaves its record in the map.                          *)
(***************************************************************************)
FairSpec ==
  /\ Spec
  /\ WF_vars(TimerFires)
  /\ \A n \in Sent : WF_vars(\E landed \in BOOLEAN : Checked(n, landed))
-----------------------------------------------------------------------------
(***************************************************************************)
(* Properties                                                              *)
(***************************************************************************)
Value(mint, amount) == IF mint = "USDC" THEN amount * UsdcValue ELSE amount

\* A bundle that is sent earns more than it costs, measured in one currency:
\* although the gate (lines 161-169, 306-313) compares base units of the
\* borrowed mint with lamports, what the round trip gains is worth more than
\* the loan fee, the tip and the transaction fees together, for a loan that the
\* number of the quote request holds exactly (flash_brain.ts, lines 171-178).
CostsCovered ==
  \A n \in DOMAIN sends :
    LET b == sends[n]
        paidBack == b.borrowAmount + CalculateFlashLoanFee(b.borrowAmount)
    IN  /\ b.borrowAmount <= MAX_SAFE_INTEGER
        /\ Value(b.mint, b.returnAmount) > Value(b.mint, paidBack) + b.tip + TXN_FEES_LAMPORTS

\* The transaction of every bundle sent takes the loan and repays it.
LoanRepaid ==
  \A n \in DOMAIN sends : RepaysItsBorrow(sends[n].instructions, sends[n].borrowInstructionIndex)

\* In simulation mode nothing is sent, whatever the trades, quotes and
\* simulations are (lines 319-327).
DryRun == SIMULATION_MODE => sends = <<>>

Pending(id) ==
  \/ \E i \in DOMAIN timers : sends[timers[i]].id = id
  \/ \E n \in Sent : checks[n] # NoRecord /\ sends[n].id = id

\* No record is forgotten in bundlesInTransit: a timer or a landing check will
\* still delete it, also when the same bundle was sent twice and the deletion
\* for one send hits the record of the other.
NoRecordForgotten == \A id \in BundleIds : bundlesInTransit[id] # NoRecord => Pending(id)

SentOnce(n) == n \in DOMAIN sends /\ \A m \in DOMAIN sends : sends[m].id = sends[n].id => m = n
RowsOf(n) == {i \in DOMAIN rows : rows[i].trade = n}

\* A bundle that was sent once has at most one row, and the row counts every
\* result received from the answer of sendBundle to the row, those during the
\* landing check included.
RowIsFaithful ==
  \A n \in Sent : SentOnce(n) =>
    /\ Cardinality(RowsOf(n)) <= 1
    /\ \A i \in RowsOf(n) : rows[i].result = heard[n]

\* Every bundle the block engine took gets its row, unless the same bundle was
\* sent again.
EveryTradeLogged ==
  \A n \in Sent :
    n \in DOMAIN sends /\ bundlesInTransit[sends[n].id] = n ~> (Logged(n) \/ ~SentOnce(n))

(***************************************************************************)
(* What the proofs need besides TypeOK: a trade that got past the profit   *)
(* check is worth building until its handler ends; only the handler sends; *)
(* timers and landing checks belong to bundles that were sent.             *)
(***************************************************************************)
StageInv ==
  /\ stage \in {"forwardSwap", "returnSwap", "lookupTables", "simulateBundle"}
       => WorthBuilding(arb.borrowAmount, arb.returnAmount)
  /\ stage \notin {"waiting", "sendBundle"} => Len(sends) < MaxSends
  /\ stage = "sendBundle" => sends # <<>>

TrackInv ==
  /\ \A i \in DOMAIN timers : timers[i] \in DOMAIN sends
  /\ \A n \in Sent : checks[n] # NoRecord => n \in DOMAIN sends

\* What the header of src/index.ts says of the tip (line 10): a share of the
\* gross profit in SOL, with a floor.
TipIsShareOfProfitInSol ==
  \A n \in DOMAIN sends :
    LET b == sends[n] IN b.tip = CalculateTip(Value(b.mint, GrossProfit(b.borrowAmount, b.returnAmount)))
=============================================================================
