------------------------- MODULE LegacyPipelineProofs -------------------------
(***************************************************************************)
(* Proofs about HighWaterMark for every mark, every ranking, both kinds of *)
(* queue and any number of arrivals: it implements the lossy queue.  And   *)
(* about LegacyPipeline, which puts two of these queues to use, for every  *)
(* idea, quote and number of trades: what the main transaction of a bundle *)
(* leaves, and that the log finds the records of the bundles it waits for. *)
(***************************************************************************)
EXTENDS LegacyPipeline, TLAPS

(***************************************************************************)
(* The queue between two stages                                            *)
(***************************************************************************)
QueueInv == TypeOK /\ NoneWaitsBesideAnItem

LEMMA RemoveAtTyped ==
  ASSUME NEW S, NEW q \in Seq(S), NEW i \in DOMAIN q
  PROVE  /\ RemoveAt(q, i) \in Seq(S)
         /\ Len(RemoveAt(q, i)) = Len(q) - 1
<1>1. SubSeq(q, 1, i - 1) \in Seq(S) /\ Len(SubSeq(q, 1, i - 1)) = i - 1
  OBVIOUS
<1>2. SubSeq(q, i + 1, Len(q)) \in Seq(S) /\ Len(SubSeq(q, i + 1, Len(q))) = Len(q) - i
  OBVIOUS
<1>3. Len(q) \in Nat /\ i \in 1 .. Len(q)
  OBVIOUS
<1>4. PICK a, b : a = SubSeq(q, 1, i - 1) /\ b = SubSeq(q, i + 1, Len(q))
  OBVIOUS
<1>5. a \o b \in Seq(S) /\ Len(a \o b) = Len(a) + Len(b)
  BY <1>1, <1>2, <1>4
<1>6. RemoveAt(q, i) = a \o b
  BY <1>4 DEF RemoveAt
<1>7. Len(a) + Len(b) = Len(q) - 1
  <2>1. Len(a) = i - 1
    BY <1>1, <1>4
  <2>2. Len(b) = Len(q) - i
    BY <1>2, <1>4
  <2> QED BY <2>1, <2>2, <1>3
<1> QED BY <1>5, <1>6, <1>7

LEMMA InitInv == Init => QueueInv
  BY MaxArrivalsAssumption, ParameterAssumption DEF Init, QueueInv, TypeOK, NoneWaitsBesideAnItem

LEMMA FirstInDomain == \A q : First(q) \subseteq DOMAIN q
  BY DEF First

LEMMA NextInv == QueueInv /\ [Next]_vars => QueueInv'
<1> SUFFICES ASSUME QueueInv, [Next]_vars PROVE QueueInv'
  OBVIOUS
<1> USE DEF QueueInv, TypeOK, NoneWaitsBesideAnItem
<1>1. CASE Arrive
  <2>1. arrived + 1 \in Item /\ arrived' \in 0 .. MaxArrivals
    BY <1>1, MaxArrivalsAssumption DEF Arrive, Item
  <2>2. CASE HasRoom /\ waitingResolvers > 0
    <3>1. /\ waitingResolvers' = 0 /\ waitingResolvers = 1 /\ UNCHANGED <<prioritized, queue, consumer, delivered, lost>>
          /\ resolved' = Append(resolved, arrived + 1)
      BY <1>1, <2>2 DEF Arrive, Put
    <3>2. resolved' \in Seq(Item) /\ Len(resolved') = Len(resolved) + 1
      BY <2>1, <3>1
    <3> QED BY <2>1, <3>1, <3>2
  <2>3. CASE HasRoom /\ waitingResolvers = 0
    <3>1. /\ UNCHANGED <<prioritized, waitingResolvers, resolved, consumer, delivered, lost>>
          /\ queue' = Append(queue, arrived + 1)
      BY <1>1, <2>3 DEF Arrive, Put
    <3>2. queue' \in Seq(Item) /\ Len(queue') <= highWaterMark
      BY <2>1, <2>3, <3>1, ParameterAssumption DEF HasRoom
    <3> QED BY <2>1, <2>3, <3>1, <3>2
  <2>4. CASE ~HasRoom
    BY <1>1, <2>1, <2>4 DEF Arrive
  <2> QED BY <2>2, <2>3, <2>4
<1>2. CASE Ask
  <2>1. ASSUME NEW i \in First(queue), resolved' = Append(resolved, queue[i]),
               queue' = RemoveAt(queue, i), UNCHANGED waitingResolvers
        PROVE  QueueInv'
    <3>1. i \in DOMAIN queue /\ queue[i] \in Item
      BY <2>1, FirstInDomain
    <3>2. queue' \in Seq(Item) /\ Len(queue') = Len(queue) - 1
      BY <2>1, <3>1, RemoveAtTyped
    <3>3. resolved' \in Seq(Item) /\ Len(resolved') = Len(resolved) + 1
      BY <2>1, <3>1
    <3>4. waitingResolvers = 0 /\ Len(resolved) = 0 /\ consumer' = "asking"
      BY <1>2, <3>1 DEF Ask
    <3>5. Len(queue') <= highWaterMark
      BY <3>2, ParameterAssumption
    <3> QED BY <1>2, <2>1, <3>2, <3>3, <3>4, <3>5 DEF Ask
  <2>2. CASE queue = <<>> /\ waitingResolvers' = waitingResolvers + 1 /\ UNCHANGED <<queue, resolved>>
    <3>1. waitingResolvers = 0 /\ Len(resolved) = 0
      BY <1>2 DEF Ask
    <3> QED BY <1>2, <2>2, <3>1 DEF Ask
  <2> QED BY <1>2, <2>1, <2>2 DEF Ask
<1>3. CASE Yield
  <2>1. /\ Head(resolved) \in Item /\ resolved' \in Seq(Item) /\ Len(resolved') = Len(resolved) - 1
        /\ delivered' \in Seq(Item)
    <3>1. resolved \in Seq(Item) /\ resolved # <<>> /\ delivered \in Seq(Item)
      BY <1>3 DEF Yield
    <3>2. Head(resolved) \in Item /\ Tail(resolved) \in Seq(Item) /\ Len(Tail(resolved)) = Len(resolved) - 1
      BY ONLY <3>1
    <3> QED BY <1>3, <3>1, <3>2 DEF Yield
  <2>2. waitingResolvers = 0 /\ Len(resolved) = 1
    <3>1. Len(resolved) \in Nat /\ Len(resolved) # 0
      BY <1>3 DEF Yield
    <3>2. consumer = "asking"
      BY <1>3 DEF Yield
    <3>3. waitingResolvers \in {0, 1} /\ waitingResolvers + Len(resolved) = 1
      BY <3>2
    <3>4. \A n \in Nat : \A m \in {0, 1} : m + n = 1 /\ n # 0 => m = 0 /\ n = 1
      BY ONLY SMT
    <3> QED BY ONLY <3>1, <3>3, <3>4, Zenon
  <2> QED BY <1>3, <2>1, <2>2 DEF Yield
<1>4. CASE UNCHANGED vars
  BY <1>4 DEF vars
<1> QED BY <1>1, <1>2, <1>3, <1>4 DEF Next, Silent

\* The queue never grows beyond the mark, and the generator waits for at most
\* one item.
THEOREM TypeCorrect == Spec => []TypeOK
<1>1. QueueInv => TypeOK
  BY DEF QueueInv
<1> QED BY <1>1, InitInv, NextInv, PTL DEF Spec

\* No resolver waits beside a queued item.
THEOREM NoLostWakeup == Spec => []NoneWaitsBesideAnItem
<1>1. QueueInv => NoneWaitsBesideAnItem
  BY DEF QueueInv
<1> QED BY <1>1, InitInv, NextInv, PTL DEF Spec

LEMMA AppendToConcat ==
  ASSUME NEW S, NEW a \in Seq(S), NEW b \in Seq(S), NEW x \in S
  PROVE  a \o Append(b, x) = Append(a \o b, x)
  OBVIOUS

LEMMA MoveHead ==
  ASSUME NEW S, NEW a \in Seq(S), NEW b \in Seq(S), b # <<>>
  PROVE  Append(a, Head(b)) \o Tail(b) = a \o b
  OBVIOUS

\* Every step of the generator and its queue is a step of the lossy queue.
THEOREM Refinement == Spec => ImplementsLossyQueue
<1>1. Init => Buffer!Init
  BY DEF Init, Buffer!Init
<1>2. QueueInv /\ [Next]_vars => [Buffer!Next]_<<prioritized, arrived, queue, delivered \o resolved, lost>>
  <2> SUFFICES ASSUME QueueInv, [Next]_vars PROVE [Buffer!Next]_<<prioritized, arrived, queue, delivered \o resolved, lost>>
    OBVIOUS
  <2> USE DEF QueueInv, TypeOK, NoneWaitsBesideAnItem
  <2>1. CASE Arrive
    <3>1. arrived + 1 \in Item
      BY <2>1, MaxArrivalsAssumption DEF Arrive, Item
    <3>2. CASE HasRoom /\ waitingResolvers > 0
      <4>1. delivered' \o resolved' = Append(delivered \o resolved, arrived + 1)
        BY <2>1, <3>1, <3>2, AppendToConcat DEF Arrive, Put
      <4>2. Buffer!PassOn
        BY <2>1, <3>2, <4>1 DEF Arrive, Put, Buffer!PassOn
      <4> QED BY <4>2 DEF Buffer!Next
    <3>3. CASE HasRoom /\ ~(waitingResolvers > 0)
      <4>1. Buffer!Accept
        BY <2>1, <3>3 DEF Arrive, Put, HasRoom, Buffer!Accept
      <4> QED BY <4>1 DEF Buffer!Next
    <3>4. CASE ~HasRoom
      <4>1. Len(queue) >= highWaterMark
        BY <3>4, ParameterAssumption DEF HasRoom
      <4>2. Buffer!Lose
        BY <2>1, <3>4, <4>1 DEF Arrive, Buffer!Lose
      <4> QED BY <4>2 DEF Buffer!Next
    <3> QED BY <3>2, <3>3, <3>4
  <2>2. CASE Ask
    <3>1. ASSUME NEW i \in First(queue), resolved' = Append(resolved, queue[i]), queue' = RemoveAt(queue, i)
          PROVE  Buffer!Next
      <4>1. i \in DOMAIN queue /\ queue[i] \in Item
        BY <3>1, FirstInDomain
      <4>2. delivered' \o resolved' = Append(delivered \o resolved, queue[i])
        BY <2>2, <3>1, <4>1, AppendToConcat DEF Ask
      <4>3. Buffer!HandOut(i)
        BY <2>2, <3>1, <4>2 DEF Ask, First, Buffer!First, Buffer!HandOut, RemoveAt, Buffer!RemoveAt
      <4> QED BY <4>1, <4>3 DEF Buffer!Next
    <3>2. CASE queue = <<>> /\ UNCHANGED <<queue, resolved>>
      BY <2>2, <3>2 DEF Ask
    <3> QED BY <2>2, <3>1, <3>2 DEF Ask
  <2>3. CASE Yield
    <3>1. delivered' \o resolved' = delivered \o resolved
      BY <2>3, MoveHead DEF Yield
    <3> QED BY <2>3, <3>1 DEF Yield
  <2>4. CASE UNCHANGED vars
    BY <2>4 DEF vars
  <2> QED BY <2>1, <2>2, <2>3, <2>4 DEF Next, Silent
<1> QED BY <1>1, <1>2, InitInv, NextInv, PTL DEF Spec, ImplementsLossyQueue, Buffer!Spec

-----------------------------------------------------------------------------
(***************************************************************************)
(* The arithmetic of a bundle                                              *)
(***************************************************************************)
LEMMA Percentages ==
  ASSUME NEW profit \in Nat
  PROVE  /\ Tip(profit) \in Nat
         /\ 100 * Tip(profit) <= profit * TIP_PERCENT
         /\ ProfitBuffer(profit) \in Nat
         /\ 100 * ProfitBuffer(profit) <= profit * 3
<1>1. PICK p \in Nat : p = profit * TIP_PERCENT
  BY TipAssumption
<1>2. p \div 100 \in Nat /\ 100 * (p \div 100) <= p
  BY <1>1
<1>3. (profit * 3) \div 100 \in Nat /\ 100 * ((profit * 3) \div 100) <= profit * 3
  OBVIOUS
<1> QED BY <1>1, <1>2, <1>3 DEF Tip, ProfitBuffer, PROFIT_BUFFER_PERCENT

LEMMA FeeIsNatural ==
  ASSUME NEW size \in Nat PROVE FlashloanFee(size) \in Nat
BY DEF FlashloanFee, SOLEND_FLASHLOAN_FEE_BPS

LEMMA ShareOf ==
  ASSUME NEW a \in Nat, NEW b \in Nat, NEW c \in Nat, a <= b
  PROVE  a * c <= b * c
OBVIOUS

LEMMA Amounts ==
  ASSUME NEW i \in Idea
  PROVE  /\ i.arbSize \in Nat /\ i.expectedProfit \in Nat /\ i.mint \in {"SOL", "USDC"}
         /\ FlashloanFee(i.arbSize) \in Nat
         /\ Tip(i.expectedProfit) \in Nat /\ ProfitBuffer(i.expectedProfit) \in Nat
         /\ MinOut(i) = i.arbSize + Tip(i.expectedProfit) + FlashloanFee(i.arbSize)
                          + ProfitBuffer(i.expectedProfit)
         /\ QuotedOut(i) = i.arbSize + FlashloanFee(i.arbSize) + i.expectedProfit
<1>1. i.arbSize \in Nat /\ i.expectedProfit \in Nat /\ i.mint \in {"SOL", "USDC"}
  BY DEF Idea, Mint
<1>2. FlashloanFee(i.arbSize) \in Nat
  BY <1>1, FeeIsNatural
<1>3. Tip(i.expectedProfit) \in Nat /\ ProfitBuffer(i.expectedProfit) \in Nat
  BY <1>1, Percentages
<1> QED BY <1>1, <1>2, <1>3 DEF MinOut, QuotedOut

-----------------------------------------------------------------------------
(***************************************************************************)
(* The execution of the main transaction                                   *)
(***************************************************************************)
LEMMA InstructionsOf ==
  ASSUME NEW mint
  PROVE  LET ixs == InstructionsMain(mint)
         IN  /\ ixs[1] = "flashBorrow" /\ ixs[2] = "route" /\ ixs[3] = "flashRepay"
             /\ mint = "SOL" => DOMAIN ixs = 1 .. 5 /\ ixs[4] = "closeTokenAccount" /\ ixs[5] = "tip"
             /\ mint # "SOL" => DOMAIN ixs = 1 .. 4 /\ ixs[4] = "tip"
<1>1. CASE mint = "SOL"
  BY <1>1 DEF InstructionsMain
<1>2. CASE mint # "SOL"
  BY <1>2 DEF InstructionsMain
<1> QED BY <1>1, <1>2

\* What the chain is left with.
Outcome(i, value, out) ==
  LET rest == out - i.arbSize - FlashloanFee(i.arbSize) IN
  IF i.mint = "SOL" THEN Holding(0, rest - Tip(value), 0) ELSE Holding(rest, -Tip(value), 0)

LEMMA Fields ==
  /\ ~RolledBack.landed /\ RolledBack.loan = 0
  /\ \A a, w, l : LET c == Holding(a, w, l) IN
       c.landed /\ c.account = a /\ c.wallet = w /\ c.loan = l
BY DEF RolledBack, Holding

LEMMA Borrowed ==
  ASSUME NEW i \in Idea, NEW value, NEW out
  PROVE  Executed("flashBorrow", Holding(0, 0, 0), i, value, out) = Holding(i.arbSize, 0, i.arbSize)
<1>1. 0 + i.arbSize = i.arbSize
  BY Amounts
<1> QED BY <1>1, Fields DEF Executed

LEMMA Routed ==
  ASSUME NEW i \in Idea, NEW value, NEW out \in Int
  PROVE  Executed("route", Holding(i.arbSize, 0, i.arbSize), i, value, out) =
           IF out < MinOut(i) THEN RolledBack ELSE Holding(out, 0, i.arbSize)
<1>1. ~(i.arbSize < i.arbSize) /\ i.arbSize - i.arbSize + out = out
  BY Amounts
<1> QED BY <1>1, Fields DEF Executed

LEMMA Repaid ==
  ASSUME NEW i \in Idea, NEW value, NEW out \in Int, out >= MinOut(i)
  PROVE  Executed("flashRepay", Holding(out, 0, i.arbSize), i, value, out) =
           Holding(out - i.arbSize - FlashloanFee(i.arbSize), 0, 0)
<1>1. InstructionsMain(i.mint)[BorrowInstructionIndex + 1] = "flashBorrow"
  BY InstructionsOf DEF BorrowInstructionIndex
<1>2. out >= i.arbSize + FlashloanFee(i.arbSize)
  BY Amounts
<1> QED BY <1>1, <1>2, Fields DEF Executed

LEMMA Closed ==
  ASSUME NEW i, NEW value, NEW out, NEW rest \in Int
  PROVE  Executed("closeTokenAccount", Holding(rest, 0, 0), i, value, out) = Holding(0, rest, 0)
BY Fields DEF Executed

LEMMA Tipped ==
  ASSUME NEW i, NEW value, NEW out, NEW account, NEW wallet
  PROVE  Executed("tip", Holding(account, wallet, 0), i, value, out) = Holding(account, wallet - Tip(value), 0)
BY Fields DEF Executed

LEMMA RolledBackStays ==
  ASSUME NEW ix, NEW i, NEW value, NEW out
  PROVE  Executed(ix, RolledBack, i, value, out) = RolledBack
BY Fields DEF Executed

LEMMA ExecutionOutcome ==
  ASSUME NEW i \in Idea, NEW value \in Nat, NEW out \in Int
  PROVE  Execution(i, value, out) =
           IF out >= MinOut(i) THEN Outcome(i, value, out)
           ELSE RolledBack
<1> DEFINE Step(c, k) == ExecutedAt(k, c, i, value, out)
           rest == out - i.arbSize - FlashloanFee(i.arbSize)
           ixs == InstructionsMain(i.mint)
<1>1. i.mint \in {"SOL", "USDC"} /\ MinOut(i) \in Int /\ rest \in Int /\ Tip(value) \in Int
      /\ i.arbSize \in Nat
  BY Amounts, Percentages
<1>2. /\ DOMAIN ixs = IF i.mint = "SOL" THEN 1 .. 5 ELSE 1 .. 4
      /\ ixs[1] = "flashBorrow" /\ ixs[2] = "route" /\ ixs[3] = "flashRepay"
      /\ i.mint = "SOL" => ixs[4] = "closeTokenAccount" /\ ixs[5] = "tip"
      /\ i.mint # "SOL" => ixs[4] = "tip"
  BY <1>1, InstructionsOf
<1>3. \A c : \A k \in 1 .. 5 :
        Step(c, k) = IF k \in DOMAIN ixs THEN Executed(ixs[k], c, i, value, out) ELSE c
  BY DEF ExecutedAt
<1>4. Execution(i, value, out) =
        LET end == Step(Step(Step(Step(Step(Holding(0, 0, 0), 1), 2), 3), 4), 5)
        IN  IF end.loan = 0 THEN end ELSE RolledBack
  BY DEF Execution
<1> HIDE DEF Step, ixs
<1>5. Step(Holding(0, 0, 0), 1) = Holding(i.arbSize, 0, i.arbSize)
  BY <1>1, <1>2, <1>3, Borrowed
<1>6. CASE out < MinOut(i)
  <2>1. Step(Holding(i.arbSize, 0, i.arbSize), 2) = RolledBack
    BY <1>1, <1>2, <1>3, <1>6, Routed
  <2>2. \A k \in 1 .. 5 : Step(RolledBack, k) = RolledBack
    BY <1>3, RolledBackStays
  <2>3. Execution(i, value, out) = RolledBack
    BY <1>4, <1>5, <2>1, <2>2, Fields
  <2> QED BY <1>1, <1>6, <2>3
<1>7. CASE out >= MinOut(i)
  <2>1. Step(Holding(i.arbSize, 0, i.arbSize), 2) = Holding(out, 0, i.arbSize)
    BY <1>1, <1>2, <1>3, <1>7, Routed
  <2>2. Step(Holding(out, 0, i.arbSize), 3) = Holding(rest, 0, 0)
    BY <1>1, <1>2, <1>3, <1>7, Repaid
  <2> HIDE DEF rest
  <2>3. CASE i.mint = "SOL"
    <3>1. Step(Holding(rest, 0, 0), 4) = Holding(0, rest, 0)
      BY <1>1, <1>2, <1>3, <2>3, Closed
    <3>2. Step(Holding(0, rest, 0), 5) = Holding(0, rest - Tip(value), 0)
      BY <1>1, <1>2, <1>3, <2>3, Tipped
    <3>3. Holding(0, rest - Tip(value), 0).loan = 0
      BY Fields
    <3>4. Execution(i, value, out) = Holding(0, rest - Tip(value), 0)
      BY <1>4, <1>5, <2>1, <2>2, <3>1, <3>2, <3>3
    <3> QED BY <1>7, <2>3, <3>4 DEF Outcome, rest
  <2>4. CASE i.mint # "SOL"
    <3>1. Step(Holding(rest, 0, 0), 4) = Holding(rest, 0 - Tip(value), 0)
      BY <1>1, <1>2, <1>3, <2>4, Tipped
    <3>2. Step(Holding(rest, 0 - Tip(value), 0), 5) = Holding(rest, 0 - Tip(value), 0)
      BY <1>1, <1>2, <1>3, <2>4
    <3>3. Holding(rest, 0 - Tip(value), 0).loan = 0
      BY Fields
    <3>4. Execution(i, value, out) = Holding(rest, 0 - Tip(value), 0)
      BY <1>4, <1>5, <2>1, <2>2, <3>1, <3>2, <3>3
    <3> QED BY <1>1, <1>7, <2>4, <3>4 DEF Outcome, rest
  <2> QED BY <2>3, <2>4
<1> QED BY <1>1, <1>6, <1>7

\* If the route returns as much as it was quoted, its output is not below the
\* minimum: tip and profit buffer together are a share of the profit.
LEMMA LandsAsQuoted ==
  ASSUME TIP_PERCENT + PROFIT_BUFFER_PERCENT <= 100, NEW i \in Idea, NEW value \in Nat
  PROVE  /\ QuotedOut(i) \in Int /\ QuotedOut(i) >= MinOut(i)
         /\ Execution(i, value, QuotedOut(i)) = Outcome(i, value, QuotedOut(i))
<1> DEFINE profit == i.expectedProfit
<1>1. profit \in Nat
  BY Amounts
<1>2. Tip(profit) + ProfitBuffer(profit) <= profit
  <2>1. TIP_PERCENT \in Nat /\ TIP_PERCENT <= 97
    BY TipAssumption DEF PROFIT_BUFFER_PERCENT
  <2>2. TIP_PERCENT * profit <= 97 * profit
    BY <1>1, <2>1, ShareOf
  <2>3. profit * TIP_PERCENT = TIP_PERCENT * profit
    BY <1>1, <2>1
  <2>4. PICK p : p = profit * TIP_PERCENT
    OBVIOUS
  <2>5. 100 * Tip(profit) <= p /\ p <= 97 * profit /\ p \in Nat
    <3>1. 100 * Tip(profit) <= p
      BY <1>1, <2>4, Percentages
    <3>2. p = TIP_PERCENT * profit /\ p \in Nat
      BY <1>1, <2>1, <2>3, <2>4
    <3> QED BY <2>2, <3>1, <3>2
  <2>6. Tip(profit) \in Nat /\ ProfitBuffer(profit) \in Nat /\ 100 * ProfitBuffer(profit) <= profit * 3
    BY <1>1, Percentages
  <2> HIDE DEF profit
  <2> QED BY <1>1, <2>5, <2>6
<1>3. QuotedOut(i) \in Int /\ QuotedOut(i) >= MinOut(i)
  BY <1>2, Amounts
<1> QED BY <1>3, ExecutionOutcome

\* Whatever the route returns, the minimum output leaves tip and buffer.
LEMMA MarginIsLeft ==
  ASSUME NEW i \in Idea, NEW value \in Nat, NEW out \in Int
  PROVE  LeavesTheMargin(i, value, out)
<1> DEFINE margin == Tip(i.expectedProfit) + ProfitBuffer(i.expectedProfit)
           rest == out - i.arbSize - FlashloanFee(i.arbSize)
<1>1. CASE out < MinOut(i)
  <2>1. ~Execution(i, value, out).landed
    BY <1>1, Amounts, ExecutionOutcome, Fields
  <2> QED BY <2>1 DEF LeavesTheMargin
<1>2. CASE out >= MinOut(i)
  <2>1. rest >= margin /\ rest \in Int /\ margin \in Int /\ Tip(value) \in Int
    BY <1>2, Amounts, Percentages
  <2>2. Execution(i, value, out) = Outcome(i, value, out)
    BY <1>2, ExecutionOutcome
  <2>3. Outcome(i, value, out) =
          IF i.mint = "SOL" THEN Holding(0, rest - Tip(value), 0) ELSE Holding(rest, -Tip(value), 0)
    BY DEF Outcome
  <2> HIDE DEF margin, rest
  <2>4. LET end == Execution(i, value, out) IN
          IF i.mint = "SOL" THEN end.wallet + Tip(value) >= margin
          ELSE end.account >= margin /\ end.wallet = -Tip(value)
    BY <2>1, <2>2, <2>3, Fields
  <2> QED BY <2>4 DEF LeavesTheMargin, margin
<1>3. MinOut(i) \in Int
  BY Amounts
<1> QED BY <1>1, <1>2, <1>3

\* What is left of a profit worth sending when its tip is paid.
LEMMA TipLeavesItsShare ==
  ASSUME TIP_PERCENT <= 100, NEW value \in Nat, WorthSending(value)
  PROVE  100 * (value - Tip(value)) >= (100 - TIP_PERCENT) * minProfit
<1> DEFINE left == 100 - TIP_PERCENT
<1>1. left \in Nat /\ minProfit \in Nat /\ minProfit <= value
  BY TipAssumption DEF minProfit, TXN_FEES_LAMPORTS, WorthSending
<1>2. minProfit * left <= value * left
  BY <1>1, ShareOf
<1>3. value * left = 100 * value - value * TIP_PERCENT
  BY TipAssumption
<1>4. PICK p \in Nat : p = value * TIP_PERCENT
  BY TipAssumption
<1>5. left * minProfit = minProfit * left
  BY <1>1
<1>6. PICK q \in Nat : q = minProfit * left
  BY <1>1
<1>7. Tip(value) \in Nat /\ 100 * Tip(value) <= p
  BY <1>4, Percentages
<1> HIDE DEF left
<1>8. 100 * (value - Tip(value)) >= left * minProfit
  BY <1>2, <1>3, <1>4, <1>5, <1>6, <1>7
<1> QED BY <1>8 DEF left

\* At the quoted output the tip is all that is taken of the profit.
LEMMA QuotedGain ==
  ASSUME TIP_PERCENT + PROFIT_BUFFER_PERCENT <= 100,
         NEW i \in Idea, NEW value \in Nat, WorthSending(value),
         i.mint = "SOL" => value = i.expectedProfit
  PROVE  GainAt(i, value, QuotedOut(i)) = value - Tip(value)
<1> DEFINE out == QuotedOut(i)
<1>1. Execution(i, value, out) = Outcome(i, value, out)
  BY LandsAsQuoted
<1>2. out - i.arbSize - FlashloanFee(i.arbSize) = i.expectedProfit
  BY Amounts
<1>3. Tip(value) \in Nat
  BY Percentages
<1>4. CASE i.mint = "SOL"
  <2>1. Execution(i, value, out).wallet = value - Tip(value)
    BY <1>1, <1>2, <1>4, Fields DEF Outcome
  <2>2. GainAt(i, value, out) = value - Tip(value) + 0
    BY <2>1, <1>4 DEF GainAt
  <2> QED BY <1>3, <2>2
<1>5. CASE i.mint # "SOL"
  <2>1. i.mint = "USDC"
    BY <1>5, Amounts
  <2>2. Execution(i, value, out).wallet = -Tip(value)
    BY <1>1, <1>5, Fields DEF Outcome
  <2>3. GainAt(i, value, out) = (-Tip(value)) + value
    BY <2>1, <2>2 DEF GainAt
  <2> QED BY <1>3, <2>3
<1> QED BY <1>4, <1>5
-----------------------------------------------------------------------------
(***************************************************************************)
(* The bundle being built                                                  *)
(***************************************************************************)

\* A bundle is built of an idea that is worth sending, and its lamports are the
\* profit itself when that is SOL.
BuilderInv ==
  /\ idea \in Idea
  /\ lamports \in Nat
  /\ stage = "quoting" => idea.mint = "USDC"
  /\ stage = "legs" => WorthSending(lamports)
  /\ stage = "legs" /\ idea.mint = "SOL" => lamports = idea.expectedProfit

LEMMA NoIdeaIsAnIdea == NoIdea \in Idea /\ NoIdea.mint = "SOL"
BY DEF NoIdea, Idea, Mint

LEMMA BuilderInit == LegacyInit => BuilderInv
BY NoIdeaIsAnIdea DEF LegacyInit, BuilderInv

LEMMA NextTradeStep == NextTrade => BuilderInv'
BY NoIdeaIsAnIdea DEF NextTrade, BuilderInv

LEMMA WeighStep ==
  ASSUME NEW i \in Idea, NEW value \in Nat, Weigh(i, value),
         i.mint = "SOL" => value = i.expectedProfit
  PROVE  BuilderInv'
<1>1. CASE WorthSending(value)
  BY <1>1 DEF Weigh, BuilderInv
<1>2. CASE ~WorthSending(value)
  BY <1>2, NextTradeStep DEF Weigh
<1> QED BY <1>1, <1>2

LEMMA BuilderNext == BuilderInv /\ [LegacyNext]_legacyVars => BuilderInv'
<1> SUFFICES ASSUME BuilderInv, [LegacyNext]_legacyVars PROVE BuilderInv'
  OBVIOUS
<1>1. CASE UNCHANGED builder
  BY <1>1 DEF builder, BuilderInv
<1>2. CASE TakeTrade
  BY <1>2 DEF TakeTrade, BuilderInv
<1>3. CASE NothingFound \/ Discard \/ Ends \/ (\E id \in Sent : Send(id))
  BY <1>3, NextTradeStep DEF NothingFound, Discard, Ends, Send, NextTrade
<1>4. ASSUME NEW i \in Ideas, Found(i) PROVE BuilderInv'
  <2>1. i \in Idea /\ i.mint \in {"SOL", "USDC"} /\ i.expectedProfit \in Nat
    BY LegacyAssumption, Amounts
  <2>2. CASE i.mint = "USDC"
    BY <1>4, <2>1, <2>2 DEF Found, BuilderInv
  <2>3. CASE i.mint # "USDC"
    BY <1>4, <2>1, <2>3, WeighStep DEF Found
  <2> QED BY <2>2, <2>3
<1>5. ASSUME NEW value \in SolValues, Quoted(value) PROVE BuilderInv'
  <2>1. value \in Nat /\ idea \in Idea /\ idea.mint = "USDC"
    BY <1>5, LegacyAssumption DEF Quoted, BuilderInv
  <2> QED BY <1>5, <2>1, WeighStep DEF Quoted
<1>6. ASSUME TradeArrives \/ AskForTrade PROVE UNCHANGED builder
  BY <1>6 DEF TradeArrives, AskForTrade, builder
<1>7. ASSUME NEW n \in Sent, Taken(n) \/ Failed(n) \/ Checked(n) PROVE UNCHANGED builder
  BY <1>7 DEF Taken, Failed, Checked, builder
<1>8. ASSUME NEW id \in Sent, NEW kind, BundleResult(id, kind) PROVE UNCHANGED builder
  BY <1>8 DEF BundleResult, builder
<1>9. ASSUME TimerFires PROVE Ends \/ UNCHANGED builder
  BY <1>9 DEF TimerFires, builder
<1>10. BuilderThrows \/ ResultsEnd => Ends
  BY DEF BuilderThrows, ResultsEnd
<1>11. LegacyIdle \/ UNCHANGED legacyVars => UNCHANGED builder
  BY DEF LegacyIdle, legacyVars, builder
<1> QED BY <1>1, <1>2, <1>3, <1>4, <1>5, <1>6, <1>7, <1>8, <1>9, <1>10, <1>11 DEF LegacyNext

\* With a tip and a profit buffer that are together no more than the profit, the
\* main transaction of every bundle lands when its route returns what it was
\* quoted; and whatever the route returns, one that lands leaves both.
THEOREM BundlesLeaveTheMargin ==
  ASSUME TIP_PERCENT + PROFIT_BUFFER_PERCENT <= 100
  PROVE  LegacySpec => []LandingLeavesTheMargin
<1>1. BuilderInv => LandingLeavesTheMargin
  <2> SUFFICES ASSUME BuilderInv PROVE LandingLeavesTheMargin
    OBVIOUS
  <2>1. idea \in Idea /\ lamports \in Nat
    BY DEF BuilderInv
  <2>2. Execution(idea, lamports, QuotedOut(idea)).landed
    <3>1. Execution(idea, lamports, QuotedOut(idea)) = Outcome(idea, lamports, QuotedOut(idea))
      BY <2>1, LandsAsQuoted
    <3> QED BY <3>1, Fields DEF Outcome
  <2>3. \A out \in Outs(idea) : out \in Int
    BY <2>1, Amounts DEF Outs
  <2> QED BY <2>1, <2>2, <2>3, MarginIsLeft DEF LandingLeavesTheMargin
<1> QED BY <1>1, BuilderInit, BuilderNext, PTL DEF LegacySpec

\* The same tip percentages suffice for the share that a bundle gains when its
\* route returns what it was quoted.  Whether that share pays the fees of the
\* transactions is left to the configuration, and not claimed.
THEOREM QuotedPricesKeepTheirShare ==
  ASSUME TIP_PERCENT + PROFIT_BUFFER_PERCENT <= 100
  PROVE  LegacySpec => []QuotedPriceKeepsItsShare
<1>1. BuilderInv => QuotedPriceKeepsItsShare
  <2> SUFFICES ASSUME BuilderInv, stage = "legs"
               PROVE  100 * GainAt(idea, lamports, QuotedOut(idea)) >= (100 - TIP_PERCENT) * minProfit
    BY DEF QuotedPriceKeepsItsShare
  <2>1. idea \in Idea /\ lamports \in Nat /\ WorthSending(lamports)
    BY DEF BuilderInv
  <2>2. GainAt(idea, lamports, QuotedOut(idea)) = lamports - Tip(lamports)
    BY <2>1, QuotedGain DEF BuilderInv
  <2>3. TIP_PERCENT <= 100
    BY TipAssumption DEF PROFIT_BUFFER_PERCENT
  <2> QED BY <2>1, <2>2, <2>3, TipLeavesItsShare
<1> QED BY <1>1, BuilderInit, BuilderNext, PTL DEF LegacySpec

-----------------------------------------------------------------------------
(***************************************************************************)
(* The log                                                                 *)
(***************************************************************************)
Pending == {timers[i] : i \in DOMAIN timers}
FailedRow == [result |-> [accepted |-> 0, rejected |-> TRUE], sendingError |-> TRUE]
SentRow(r) == [result |-> r, sendingError |-> FALSE]

TrackTypes ==
  /\ sends \in Seq(Bundle)
  /\ bundlesInTransit \in [Sent -> {NoRecord} \cup Sent]
  /\ record \in [Sent -> Record] /\ heard \in [Sent -> Record]
  /\ timers \in Seq(Sent)
  /\ checks \in [Sent -> {NoRecord} \cup Sent]
  /\ rows \in [Sent -> Seq(Row)]

\* A bundle that no timer, no check and no entry of the map is about.
OutOfTrack(n) ==
  /\ n \notin Pending
  /\ checks[n] = NoRecord
  /\ \A x \in Sent : bundlesInTransit[x] # n /\ checks[x] # n

Unsent(n) == OutOfTrack(n) /\ rows[n] = <<>> /\ heard[n] = NewRecord /\ record[n] = NewRecord
Waiting(n) ==
  /\ rows[n] = <<>> /\ bundlesInTransit[sends[n].id] = n /\ record[n] = heard[n]
  /\ \/ n \in Pending /\ checks[n] = NoRecord
     \/ n \notin Pending /\ checks[n] = n
Logged(n) ==
  /\ rows[n] = <<SentRow(heard[n])>>
  /\ n \notin Pending /\ checks[n] = NoRecord

WasSent(n) == n \in DOMAIN sends /\ sends[n].answer # "awaited"
WasTaken(n) == n \in DOMAIN sends /\ sends[n].answer = "taken"

\* What the tracking of a bundle has come to; a bundle that was sent again is
\* not followed once it was taken.
Phase(n) ==
  /\ ~WasSent(n) => Unsent(n)
  /\ WasSent(n) /\ ~WasTaken(n) => OutOfTrack(n) /\ rows[n] = <<FailedRow>>
  /\ WasTaken(n) /\ SentOnce(n) => Waiting(n) \/ Logged(n)

\* The map and the checks lead from a bundle to one of the same id.
SameId ==
  /\ \A x \in Sent : bundlesInTransit[x] # NoRecord =>
       WasTaken(bundlesInTransit[x]) /\ sends[bundlesInTransit[x]].id = x
  /\ \A n \in Sent : checks[n] # NoRecord =>
       WasTaken(n) /\ WasTaken(checks[n]) /\ sends[checks[n]].id = sends[n].id

Distinct == \A i, j \in DOMAIN timers : timers[i] = timers[j] => i = j

TrackInv ==
  /\ TrackTypes
  /\ \A n \in Sent : Phase(n)
  /\ SameId
  /\ Distinct

LEMMA BundleFields ==
  ASSUME NEW b \in Bundle
  PROVE  b.id \in Sent /\ b.answer \in {"awaited", "taken", "failed"}
BY DEF Bundle

LEMMA SentFacts ==
  ASSUME TrackTypes, NEW n \in DOMAIN sends
  PROVE  sends[n] \in Bundle /\ sends[n].id \in Sent /\ sends[n].answer \in {"awaited", "taken", "failed"}
<1>1. sends[n] \in Bundle
  BY DEF TrackTypes
<1> QED BY <1>1, BundleFields

LEMMA SentIsNat == /\ \A n \in Sent : n \in Nat /\ n # NoRecord
                   /\ Sent \subseteq Nat
BY MaxArrivalsAssumption DEF Sent, Item, NoRecord

LEMMA Appended ==
  ASSUME NEW S, NEW t \in Seq(S), NEW n \in S
  PROVE  /\ Append(t, n) \in Seq(S)
         /\ DOMAIN Append(t, n) = 1 .. Len(t) + 1 /\ DOMAIN t = 1 .. Len(t) /\ Len(t) \in Nat
         /\ \A i \in 1 .. Len(t) : Append(t, n)[i] = t[i]
         /\ Append(t, n)[Len(t) + 1] = n
OBVIOUS

LEMMA Shifted ==
  ASSUME NEW S, NEW t \in Seq(S), t # <<>>
  PROVE  /\ Head(t) = t[1] /\ Head(t) \in S
         /\ Tail(t) \in Seq(S)
         /\ Len(t) \in Nat \ {0} /\ DOMAIN t = 1 .. Len(t)
         /\ DOMAIN Tail(t) = 1 .. Len(t) - 1
         /\ \A i \in 1 .. Len(t) - 1 : Tail(t)[i] = t[i + 1]
OBVIOUS

\* A timer more, and one less.
LEMMA OneMore ==
  ASSUME TrackTypes, NEW n \in Sent, n \notin Pending, Distinct, timers' = Append(timers, n)
  PROVE  timers' \in Seq(Sent) /\ Pending' = Pending \cup {n} /\ Distinct'
<1>1. timers \in Seq(Sent)
  BY DEF TrackTypes
<1>2. PICK len \in Nat :
        /\ timers' \in Seq(Sent)
        /\ DOMAIN timers' = 1 .. len + 1 /\ DOMAIN timers = 1 .. len
        /\ \A i \in 1 .. len : timers'[i] = timers[i]
        /\ timers'[len + 1] = n
  <2>1. PICK t : t = timers'
    OBVIOUS
  <2> QED BY <1>1, Appended
<1>3. \A i \in 1 .. len + 1 : i \in 1 .. len \/ i = len + 1
  OBVIOUS
<1>4. Pending' = Pending \cup {n}
  BY <1>2, <1>3 DEF Pending
<1>5. Distinct'
  BY <1>2, <1>3 DEF Distinct, Pending
<1> QED BY <1>2, <1>4, <1>5

LEMMA OneLess ==
  ASSUME TrackTypes, Distinct, timers # <<>>, timers' = Tail(timers)
  PROVE  /\ timers' \in Seq(Sent) /\ Distinct'
         /\ Head(timers) \in Pending /\ Head(timers) \in Sent
         /\ Pending' = Pending \ {Head(timers)}
<1>1. timers \in Seq(Sent)
  BY DEF TrackTypes
<1>2. PICK len \in Nat \ {0} :
        /\ timers' \in Seq(Sent) /\ Head(timers) = timers[1] /\ Head(timers) \in Sent
        /\ DOMAIN timers = 1 .. len /\ DOMAIN timers' = 1 .. len - 1
        /\ \A i \in 1 .. len - 1 : timers'[i] = timers[i + 1]
  BY <1>1, Shifted
<1>3. \A i \in 1 .. len - 1 : i + 1 \in 1 .. len /\ i + 1 # 1
  OBVIOUS
<1>4. \A i \in 1 .. len : i = 1 \/ (i - 1 \in 1 .. len - 1 /\ (i - 1) + 1 = i)
  OBVIOUS
<1>5. 1 \in DOMAIN timers
  BY <1>2
<1>6. Head(timers) \in Pending
  BY <1>2, <1>5 DEF Pending
<1>7. Pending' \subseteq Pending \ {Head(timers)}
  BY <1>2, <1>3, <1>5 DEF Pending, Distinct
<1>8. Pending \ {Head(timers)} \subseteq Pending'
  <2> SUFFICES ASSUME NEW i \in 1 .. len, timers[i] # timers[1] PROVE timers[i] \in Pending'
    BY <1>2 DEF Pending
  <2>1. i - 1 \in DOMAIN timers' /\ timers'[i - 1] = timers[i]
    BY <1>2, <1>4
  <2> QED BY <2>1 DEF Pending
<1>9. Distinct'
  <2> SUFFICES ASSUME NEW i \in 1 .. len - 1, NEW j \in 1 .. len - 1, timers'[i] = timers'[j] PROVE i = j
    BY <1>2 DEF Distinct
  <2>1. timers[i + 1] = timers[j + 1] /\ i + 1 \in DOMAIN timers /\ j + 1 \in DOMAIN timers
    BY <1>2, <1>3
  <2>2. i + 1 = j + 1
    BY <2>1 DEF Distinct
  <2> QED BY <2>2
<1> QED BY <1>2, <1>6, <1>7, <1>8, <1>9

LEMMA NoteIsRecord ==
  ASSUME NEW r \in Record, NEW kind
  PROVE  Note(r, kind) \in Record
<1>1. r \in [accepted : Nat, rejected : BOOLEAN]
  BY DEF Record
<1>2. CASE kind = "accepted"
  BY <1>1, <1>2 DEF Note, Record
<1>3. CASE kind # "accepted"
  BY <1>1, <1>3 DEF Note, Record
<1> QED BY <1>2, <1>3

LEMMA Records ==
  /\ NewRecord \in Record
  /\ FailedRow \in Row /\ \A r \in Record : SentRow(r) \in Row
<1>1. NewRecord \in Record
  BY DEF NewRecord, Record
<1>2. [accepted |-> 0, rejected |-> TRUE] \in Record
  BY DEF Record
<1> QED BY <1>1, <1>2 DEF FailedRow, SentRow, Row

LEMMA TrackReset ==
  ASSUME sends' = <<>>, timers' = <<>>,
         bundlesInTransit' = [n \in Sent |-> NoRecord], checks' = [n \in Sent |-> NoRecord],
         record' = [n \in Sent |-> NewRecord], heard' = [n \in Sent |-> NewRecord],
         rows' = [n \in Sent |-> <<>>]
  PROVE  TrackInv'
<1>1. TrackTypes'
  BY Records DEF TrackTypes
<1>2. Pending' = {}
  BY DEF Pending
<1>3. SameId' /\ Distinct'
  BY DEF SameId, Distinct
<1>4. ASSUME NEW n \in Sent PROVE Phase(n)'
  <2>1. ~WasSent(n)' /\ ~WasTaken(n)'
    BY DEF WasSent, WasTaken
  <2>2. Unsent(n)'
    BY <1>2, SentIsNat DEF Unsent, OutOfTrack, NoRecord
  <2> QED BY <2>1, <2>2 DEF Phase
<1> QED BY <1>1, <1>3, <1>4 DEF TrackInv

LEMMA TrackStutter ==
  ASSUME TrackInv, UNCHANGED <<sends, bundlesInTransit, record, heard, timers, checks, rows>>
  PROVE  TrackInv'
<1>1. TrackTypes' /\ SameId' /\ Distinct' /\ Pending' = Pending
  BY DEF TrackInv, TrackTypes, SameId, WasTaken, Distinct, Pending
<1>2. ASSUME NEW n \in Sent PROVE Phase(n)'
  BY <1>1 DEF TrackInv, Phase, WasSent, WasTaken, SentOnce, Unsent, OutOfTrack, Waiting, Logged
<1> QED BY <1>1, <1>2 DEF TrackInv

LEMMA SendStep ==
  ASSUME TrackInv, BuilderInv, NEW id \in Sent, Send(id)
  PROVE  TrackInv'
<1>1. PICK b : b = [id |-> id, idea |-> idea, lamports |-> lamports, answer |-> "awaited"]
  OBVIOUS
<1>2. b \in Bundle /\ b.id = id /\ b.answer = "awaited"
  BY <1>1 DEF Bundle, BuilderInv
<1>3. sends' = Append(sends, b) /\ UNCHANGED <<bundlesInTransit, record, timers, checks, rows, heard>>
  BY <1>1 DEF Send, tracking, received
<1>4. PICK len \in Nat :
        /\ sends' \in Seq(Bundle)
        /\ DOMAIN sends' = 1 .. len + 1 /\ DOMAIN sends = 1 .. len
        /\ \A n \in 1 .. len : sends'[n] = sends[n]
        /\ sends'[len + 1] = b
  <2>1. sends \in Seq(Bundle)
    BY DEF TrackInv, TrackTypes
  <2>2. PICK s : s = sends'
    OBVIOUS
  <2> QED BY <1>2, <1>3, <2>1, <2>2, Appended
<1>5. \A n \in 1 .. len + 1 : n \in 1 .. len \/ n = len + 1
  OBVIOUS
<1>6. \A n \in 1 .. len : n \in 1 .. len + 1
  OBVIOUS
<1>7. TrackTypes' /\ Distinct' /\ Pending' = Pending
  BY <1>3, <1>4 DEF TrackInv, TrackTypes, Distinct, Pending
<1>8. \A n : WasTaken(n)' <=> WasTaken(n)
  BY <1>2, <1>4, <1>5, <1>6 DEF WasTaken
<1>9. \A n : WasSent(n)' <=> WasSent(n)
  BY <1>2, <1>4, <1>5, <1>6 DEF WasSent
<1>10. \A n : WasTaken(n) => sends'[n] = sends[n] /\ n \in DOMAIN sends
  BY <1>4 DEF WasTaken
<1>11. SameId'
  BY <1>3, <1>8, <1>10 DEF TrackInv, SameId
<1>12. ASSUME NEW n \in Sent PROVE Phase(n)'
  <2>1. Phase(n)
    BY DEF TrackInv
  <2>2. Unsent(n)' <=> Unsent(n)
    BY <1>3, <1>7 DEF Unsent, OutOfTrack
  <2>3. OutOfTrack(n)' <=> OutOfTrack(n)
    BY <1>3, <1>7 DEF OutOfTrack
  <2>4. ASSUME WasTaken(n), SentOnce(n)' PROVE (Waiting(n) \/ Logged(n))'
    <3>1. sends'[n] = sends[n] /\ SentOnce(n)
      BY <1>4, <1>6, <1>10, <2>4 DEF SentOnce
    <3>2. Waiting(n) \/ Logged(n)
      BY <2>1, <2>4, <3>1 DEF Phase
    <3> QED BY <1>3, <1>7, <3>1, <3>2 DEF Waiting, Logged
  <2> QED BY <1>3, <1>8, <1>9, <2>1, <2>2, <2>3, <2>4 DEF Phase
<1> QED BY <1>7, <1>11, <1>12 DEF TrackInv

\* An answer to sendBundle: what does not change.
LEMMA AnswerFacts ==
  ASSUME TrackInv, NEW n \in Sent, n \in DOMAIN sends, sends[n].answer = "awaited",
         NEW a \in {"taken", "failed"}, sends' = [sends EXCEPT ![n].answer = a]
  PROVE  /\ sends' \in Seq(Bundle) /\ DOMAIN sends' = DOMAIN sends
         /\ \A m \in DOMAIN sends : sends'[m].id = sends[m].id
         /\ \A m \in DOMAIN sends : m # n => sends'[m] = sends[m]
         /\ sends'[n].answer = a
         /\ ~WasSent(n) /\ Unsent(n)
<1>1. sends \in Seq(Bundle) /\ sends[n] \in Bundle
  BY SentFacts DEF TrackInv, TrackTypes
<1>2. PICK b : b = [sends[n] EXCEPT !.answer = a]
  OBVIOUS
<1>3. b \in Bundle /\ b.id = sends[n].id /\ b.answer = a
  BY <1>1, <1>2 DEF Bundle
<1>4. sends' = [sends EXCEPT ![n] = b]
  BY <1>2
<1>5. /\ sends' \in Seq(Bundle) /\ DOMAIN sends' = DOMAIN sends /\ sends'[n] = b
      /\ \A m \in DOMAIN sends : m # n => sends'[m] = sends[m]
  BY <1>1, <1>3, <1>4
<1>6. ~WasSent(n)
  BY DEF WasSent
<1>7. Unsent(n)
  BY <1>6 DEF TrackInv, Phase
<1> QED BY <1>3, <1>5, <1>6, <1>7

LEMMA TakenStep ==
  ASSUME TrackInv, NEW n \in Sent, Taken(n)
  PROVE  TrackInv'
<1>1. /\ n \in DOMAIN sends /\ sends[n].answer = "awaited"
      /\ sends' = [sends EXCEPT ![n].answer = "taken"]
      /\ bundlesInTransit' = [bundlesInTransit EXCEPT ![sends[n].id] = n]
      /\ timers' = Append(timers, n)
      /\ UNCHANGED <<record, checks, rows, heard>>
  BY DEF Taken, Armed, received
<1>2. TrackTypes /\ Distinct /\ SameId /\ \A m \in Sent : Phase(m)
  BY DEF TrackInv
<1>3. /\ sends' \in Seq(Bundle) /\ DOMAIN sends' = DOMAIN sends
      /\ \A m \in DOMAIN sends : sends'[m].id = sends[m].id
      /\ \A m \in DOMAIN sends : m # n => sends'[m] = sends[m]
      /\ sends'[n].answer = "taken"
      /\ ~WasSent(n) /\ Unsent(n)
  BY <1>1, AnswerFacts
<1>4. sends[n].id \in Sent
  BY <1>1, <1>2, SentFacts
<1>5. /\ bundlesInTransit' \in [Sent -> {NoRecord} \cup Sent]
      /\ bundlesInTransit'[sends[n].id] = n
      /\ \A x \in Sent : x # sends[n].id => bundlesInTransit'[x] = bundlesInTransit[x]
  BY <1>1, <1>2, <1>4 DEF TrackTypes
<1>6. timers' \in Seq(Sent) /\ Pending' = Pending \cup {n} /\ Distinct'
  BY <1>1, <1>2, <1>3, OneMore DEF Unsent, OutOfTrack
<1>7. TrackTypes'
  BY <1>1, <1>2, <1>3, <1>5, <1>6 DEF TrackTypes
<1>8. \A m : m # n => (WasTaken(m)' <=> WasTaken(m)) /\ (WasSent(m)' <=> WasSent(m))
  BY <1>3 DEF WasTaken, WasSent
<1>9. WasTaken(n)' /\ WasSent(n)' /\ ~WasTaken(n)
  BY <1>1, <1>3 DEF WasTaken, WasSent
<1>10. \A m : WasTaken(m) => sends'[m] = sends[m] /\ WasTaken(m)'
  BY <1>3, <1>8, <1>9 DEF WasTaken
<1>11. SameId'
  <2>1. ASSUME NEW x \in Sent, bundlesInTransit'[x] # NoRecord
        PROVE  WasTaken(bundlesInTransit[x])' /\ sends'[bundlesInTransit'[x]].id = x
    <3>1. CASE x = sends[n].id
      BY <1>1, <1>3, <1>5, <1>9, <3>1 DEF WasTaken
    <3>2. CASE x # sends[n].id
      <4>1. bundlesInTransit'[x] = bundlesInTransit[x]
        BY <1>5, <3>2
      <4>2. WasTaken(bundlesInTransit[x]) /\ sends[bundlesInTransit[x]].id = x
        BY <1>2, <2>1, <4>1 DEF SameId
      <4> QED BY <1>10, <4>1, <4>2 DEF WasTaken
    <3> QED BY <3>1, <3>2
  <2>2. ASSUME NEW m \in Sent, checks'[m] # NoRecord
        PROVE  WasTaken(m)' /\ WasTaken(checks[m])' /\ sends'[checks'[m]].id = sends'[m].id
    <3>1. WasTaken(m) /\ WasTaken(checks[m]) /\ sends[checks[m]].id = sends[m].id
      BY <1>1, <1>2, <2>2 DEF SameId
    <3> QED BY <1>1, <1>10, <3>1 DEF WasTaken
  <2> QED BY <2>1, <2>2 DEF SameId
<1>12. Phase(n)'
  <2>1. Waiting(n)'
    BY <1>1, <1>3, <1>5, <1>6 DEF Waiting, Unsent, OutOfTrack
  <2> QED BY <1>9, <2>1 DEF Phase
<1>13. ASSUME NEW m \in Sent, m # n PROVE Phase(m)'
  <2>1. Phase(m) /\ (m \in Pending' <=> m \in Pending)
    BY <1>2, <1>6, <1>13
  <2>2. OutOfTrack(m) => OutOfTrack(m)'
    BY <1>1, <1>5, <1>13, <2>1 DEF OutOfTrack
  <2>3. Unsent(m) => Unsent(m)'
    BY <1>1, <2>2 DEF Unsent
  <2>4. ASSUME WasTaken(m), SentOnce(m)' PROVE (Waiting(m) \/ Logged(m))'
    <3>1. sends'[m] = sends[m] /\ SentOnce(m)
      BY <1>3, <1>10, <2>4 DEF SentOnce, WasTaken
    <3>2. Waiting(m) \/ Logged(m)
      BY <2>1, <2>4, <3>1 DEF Phase
    <3>3. sends[m].id \in Sent /\ sends[m].id # sends[n].id
      BY <1>1, <1>2, <1>13, <2>4, <3>1, SentFacts DEF SentOnce, WasTaken
    <3> QED BY <1>1, <1>5, <2>1, <3>1, <3>2, <3>3 DEF Waiting, Logged
  <2> QED BY <1>1, <1>8, <1>13, <2>1, <2>2, <2>3, <2>4 DEF Phase
<1> QED BY <1>6, <1>7, <1>11, <1>12, <1>13 DEF TrackInv

\* Steps that change neither the bundles sent nor the timers.
LEMMA SameSends ==
  ASSUME UNCHANGED sends
  PROVE  \A n : (WasTaken(n)' <=> WasTaken(n)) /\ (WasSent(n)' <=> WasSent(n))
                /\ (SentOnce(n)' <=> SentOnce(n))
BY DEF WasTaken, WasSent, SentOnce

LEMMA FailedStep ==
  ASSUME TrackInv, NEW n \in Sent, Failed(n)
  PROVE  TrackInv'
<1>1. /\ n \in DOMAIN sends /\ sends[n].answer = "awaited"
      /\ sends' = [sends EXCEPT ![n].answer = "failed"]
      /\ rows' = [rows EXCEPT ![n] = Append(@, FailedRow)]
      /\ UNCHANGED <<bundlesInTransit, record, timers, checks, heard>>
  BY DEF Failed, received, FailedRow
<1>2. TrackTypes /\ Distinct /\ SameId /\ \A m \in Sent : Phase(m)
  BY DEF TrackInv
<1>3. /\ sends' \in Seq(Bundle) /\ DOMAIN sends' = DOMAIN sends
      /\ \A m \in DOMAIN sends : sends'[m].id = sends[m].id
      /\ \A m \in DOMAIN sends : m # n => sends'[m] = sends[m]
      /\ sends'[n].answer = "failed"
      /\ ~WasSent(n) /\ Unsent(n)
  BY <1>1, AnswerFacts
<1>4. /\ rows' \in [Sent -> Seq(Row)]
      /\ rows'[n] = <<FailedRow>>
      /\ \A m \in Sent : m # n => rows'[m] = rows[m]
  <2>1. rows \in [Sent -> Seq(Row)] /\ rows[n] = <<>>
    BY <1>2, <1>3 DEF TrackTypes, Unsent
  <2>2. Append(rows[n], FailedRow) = <<FailedRow>> /\ <<FailedRow>> \in Seq(Row)
    BY <2>1, Records
  <2>3. rows' = [rows EXCEPT ![n] = <<FailedRow>>]
    BY <1>1, <2>2
  <2> QED BY <2>1, <2>2, <2>3
<1>5. TrackTypes' /\ Distinct' /\ Pending' = Pending
  BY <1>1, <1>2, <1>3, <1>4 DEF TrackTypes, Distinct, Pending
<1>6. \A m : (WasTaken(m)' <=> WasTaken(m)) /\ (m # n => (WasSent(m)' <=> WasSent(m)))
  BY <1>1, <1>3 DEF WasTaken, WasSent
<1>7. \A m : WasTaken(m) => sends'[m] = sends[m]
  BY <1>1, <1>3 DEF WasTaken
<1>8. SameId'
  BY <1>1, <1>2, <1>6, <1>7 DEF SameId
<1>9. \A m \in Sent : OutOfTrack(m) => OutOfTrack(m)'
  BY <1>1, <1>5 DEF OutOfTrack
<1>10. Phase(n)'
  <2>1. WasSent(n)' /\ ~WasTaken(n)'
    BY <1>1, <1>3 DEF WasSent, WasTaken
  <2>2. OutOfTrack(n)'
    BY <1>3, <1>9 DEF Unsent
  <2> QED BY <1>4, <2>1, <2>2 DEF Phase
<1>11. ASSUME NEW m \in Sent, m # n PROVE Phase(m)'
  <2>1. Phase(m) /\ rows'[m] = rows[m]
    BY <1>2, <1>4, <1>11
  <2>2. Unsent(m) => Unsent(m)'
    BY <1>1, <1>9, <2>1 DEF Unsent
  <2>3. ASSUME WasTaken(m), SentOnce(m)' PROVE (Waiting(m) \/ Logged(m))'
    <3>1. sends'[m] = sends[m] /\ SentOnce(m)
      BY <1>3, <1>7, <2>3 DEF SentOnce, WasTaken
    <3>2. Waiting(m) \/ Logged(m)
      BY <2>1, <2>3, <3>1 DEF Phase
    <3> QED BY <1>1, <1>5, <2>1, <3>1, <3>2 DEF Waiting, Logged
  <2> QED BY <1>6, <1>9, <1>11, <2>1, <2>2, <2>3 DEF Phase
<1> QED BY <1>5, <1>8, <1>10, <1>11 DEF TrackInv

LEMMA ResultStep ==
  ASSUME TrackInv, NEW id \in Sent, NEW kind, BundleResult(id, kind)
  PROVE  TrackInv'
<1> DEFINE k == bundlesInTransit[id]
<1>1. /\ record' = IF k = NoRecord THEN record ELSE [record EXCEPT ![k] = Note(@, kind)]
      /\ heard' = [n \in Sent |->
           IF n \in DOMAIN sends /\ sends[n].answer = "taken" /\ sends[n].id = id /\ rows[n] = <<>>
           THEN Note(heard[n], kind) ELSE heard[n]]
      /\ UNCHANGED <<sends, bundlesInTransit, timers, checks, rows>>
  BY DEF BundleResult, AfterResult
<1>2. TrackTypes /\ Distinct /\ SameId /\ \A m \in Sent : Phase(m)
  BY DEF TrackInv
<1>3. k \in {NoRecord} \cup Sent
  BY <1>2 DEF TrackTypes
<1>4. k # NoRecord => k \in Sent /\ WasTaken(k) /\ sends[k].id = id
  BY <1>2, <1>3 DEF SameId
<1> HIDE DEF k
<1>5. record' \in [Sent -> Record] /\ heard' \in [Sent -> Record]
  <2>1. record \in [Sent -> Record] /\ heard \in [Sent -> Record]
    BY <1>2 DEF TrackTypes
  <2>2. record' \in [Sent -> Record]
    BY <1>1, <1>3, <2>1, NoteIsRecord
  <2>3. heard' \in [Sent -> Record]
    BY <1>1, <2>1, NoteIsRecord
  <2> QED BY <2>2, <2>3
<1>6. TrackTypes' /\ Distinct' /\ SameId' /\ Pending' = Pending
  BY <1>1, <1>2, <1>5 DEF TrackTypes, Distinct, SameId, WasTaken, Pending
<1>7. ASSUME NEW m \in Sent PROVE Phase(m)'
  <2>1. Phase(m)
    BY <1>2
  <2>2. OutOfTrack(m) <=> OutOfTrack(m)'
    BY <1>1, <1>6 DEF OutOfTrack
  <2>3. ASSUME ~WasTaken(m) PROVE heard'[m] = heard[m] /\ record'[m] = record[m]
    <3>1. heard'[m] = heard[m]
      BY <1>1, <2>3 DEF WasTaken
    <3>2. k = NoRecord \/ k # m
      BY <1>4, <2>3
    <3>3. record'[m] = record[m]
      BY <1>1, <1>2, <3>2 DEF TrackTypes
    <3> QED BY <3>1, <3>3
  <2>4. ASSUME WasTaken(m), SentOnce(m) PROVE (Waiting(m) \/ Logged(m))'
    <3>1. CASE Waiting(m)
      <4>1. rows[m] = <<>> /\ bundlesInTransit[sends[m].id] = m /\ record[m] = heard[m]
        BY <3>1 DEF Waiting
      <4>2. CASE sends[m].id = id
        <5>1. k = m /\ k # NoRecord
          BY <4>1, <4>2, SentIsNat DEF k
        <5>2. record'[m] = Note(record[m], kind) /\ heard'[m] = Note(heard[m], kind)
          BY <1>1, <1>2, <2>4, <4>1, <4>2, <5>1 DEF TrackTypes, WasTaken
        <5> QED BY <1>1, <1>6, <3>1, <4>1, <5>2 DEF Waiting
      <4>3. CASE sends[m].id # id
        <5>1. k = NoRecord \/ k # m
          BY <1>4, <4>3
        <5>2. record'[m] = record[m] /\ heard'[m] = heard[m]
          BY <1>1, <1>2, <4>3, <5>1 DEF TrackTypes
        <5> QED BY <1>1, <1>6, <3>1, <5>2 DEF Waiting
      <4> QED BY <4>2, <4>3
    <3>2. CASE Logged(m)
      <4>1. rows[m] # <<>>
        BY <3>2 DEF Logged
      <4>2. heard'[m] = heard[m]
        BY <1>1, <4>1
      <4> QED BY <1>1, <1>6, <3>2, <4>2 DEF Logged
    <3> QED BY <2>1, <2>4, <3>1, <3>2 DEF Phase
  <2>5. Unsent(m) /\ ~WasTaken(m) => Unsent(m)'
    BY <1>1, <2>2, <2>3 DEF Unsent
  <2>6. ~WasSent(m) => ~WasTaken(m)
    BY DEF WasSent, WasTaken
  <2> QED BY <1>1, <2>1, <2>2, <2>4, <2>5, <2>6, SameSends DEF Phase
<1> QED BY <1>6, <1>7 DEF TrackInv

LEMMA TimerStep ==
  ASSUME TrackInv, TimerFires, ~Ends
  PROVE  TrackInv'
<1> DEFINE n == Head(timers)
           trade == bundlesInTransit[sends[n].id]
<1>1. timers # <<>>
  BY DEF TimerFires
<1>2. TrackTypes /\ Distinct /\ SameId /\ \A m \in Sent : Phase(m)
  BY DEF TrackInv
<1>3. /\ trade # NoRecord
      /\ checks' = [checks EXCEPT ![n] = trade]
      /\ timers' = Tail(timers)
      /\ UNCHANGED <<bundlesInTransit, sends, record, rows, heard>>
  BY DEF TimerFires, WhileChecking, received
<1>4. timers' \in Seq(Sent) /\ Distinct' /\ n \in Pending /\ n \in Sent /\ Pending' = Pending \ {n}
  BY <1>1, <1>2, <1>3, OneLess
<1> HIDE DEF n
<1>5. WasTaken(n)
  <2>1. ~OutOfTrack(n)
    BY <1>4 DEF OutOfTrack
  <2> QED BY <1>2, <1>4, <2>1 DEF Phase, Unsent
<1>6. sends[n].id \in Sent
  BY <1>2, <1>5, SentFacts DEF WasTaken
<1>7. trade \in Sent /\ WasTaken(trade) /\ sends[trade].id = sends[n].id
  BY <1>2, <1>3, <1>6 DEF SameId, TrackTypes
<1>8. /\ checks' \in [Sent -> {NoRecord} \cup Sent]
      /\ checks'[n] = trade
      /\ \A m \in Sent : m # n => checks'[m] = checks[m]
  BY <1>2, <1>3, <1>4, <1>7 DEF TrackTypes
<1>9. TrackTypes'
  BY <1>2, <1>3, <1>4, <1>8 DEF TrackTypes
<1>10. SameId'
  <2>1. ASSUME NEW m \in Sent, checks'[m] # NoRecord
        PROVE  WasTaken(m) /\ WasTaken(checks'[m]) /\ sends[checks'[m]].id = sends[m].id
    BY <1>2, <1>5, <1>7, <1>8, <2>1 DEF SameId
  <2>2. \A x \in Sent : bundlesInTransit[x] # NoRecord =>
          WasTaken(bundlesInTransit[x]) /\ sends[bundlesInTransit[x]].id = x
    BY <1>2 DEF SameId
  <2> QED BY <1>3, <2>1, <2>2 DEF SameId, WasTaken
<1>11. ASSUME NEW m \in Sent PROVE Phase(m)'
  <2>1. Phase(m)
    BY <1>2
  <2>2. ASSUME OutOfTrack(m), ~WasTaken(m) PROVE OutOfTrack(m)'
    <3>1. m # n /\ m # trade
      BY <1>5, <1>7, <2>2
    <3> HIDE DEF trade
    <3> QED BY <1>3, <1>4, <1>8, <2>2, <3>1 DEF OutOfTrack
  <2>3. ASSUME WasTaken(m), SentOnce(m) PROVE (Waiting(m) \/ Logged(m))'
    <3>1. CASE m = n
      <4>1. Waiting(m)
        BY <1>4, <2>1, <2>3, <3>1 DEF Phase, Logged
      <4>2. trade = m
        BY <3>1, <4>1 DEF Waiting
      <4> HIDE DEF trade
      <4> QED BY <1>3, <1>4, <1>8, <3>1, <4>1, <4>2 DEF Waiting
    <3>2. CASE m # n
      BY <1>3, <1>4, <1>8, <2>1, <2>3, <3>2 DEF Phase, Waiting, Logged
    <3> QED BY <3>1, <3>2
  <2>4. Unsent(m) /\ ~WasTaken(m) => Unsent(m)'
    BY <1>3, <2>2 DEF Unsent
  <2>5. ~WasSent(m) => ~WasTaken(m)
    BY DEF WasSent, WasTaken
  <2> QED BY <1>3, <2>1, <2>2, <2>3, <2>4, <2>5, SameSends DEF Phase
<1> QED BY <1>4, <1>9, <1>10, <1>11 DEF TrackInv

LEMMA CheckedStep ==
  ASSUME TrackInv, NEW n \in Sent, Checked(n)
  PROVE  TrackInv'
<1> DEFINE c == checks[n]
<1>1. /\ c # NoRecord
      /\ checks' = [checks EXCEPT ![n] = NoRecord]
      /\ rows' = [rows EXCEPT ![c] = Append(@, SentRow(record[c]))]
      /\ bundlesInTransit' = [bundlesInTransit EXCEPT ![sends[n].id] = NoRecord]
      /\ UNCHANGED <<sends, record, timers, heard>>
  BY DEF Checked, received, SentRow
<1>2. TrackTypes /\ Distinct /\ SameId /\ \A m \in Sent : Phase(m)
  BY DEF TrackInv
<1>3. c \in Sent /\ WasTaken(n) /\ WasTaken(c) /\ sends[c].id = sends[n].id
  BY <1>1, <1>2 DEF SameId, TrackTypes
<1>4. sends[n].id \in Sent
  BY <1>2, <1>3, SentFacts DEF WasTaken
<1>5. SentRow(record[c]) \in Row
  BY <1>2, <1>3, Records DEF TrackTypes
<1> HIDE DEF c
<1>6. /\ rows' \in [Sent -> Seq(Row)]
      /\ rows'[c] = Append(rows[c], SentRow(record[c]))
      /\ \A m \in Sent : m # c => rows'[m] = rows[m]
  <2>1. rows \in [Sent -> Seq(Row)]
    BY <1>2 DEF TrackTypes
  <2>2. Append(rows[c], SentRow(record[c])) \in Seq(Row)
    BY <1>3, <1>5, <2>1
  <2> QED BY <1>1, <1>3, <2>1, <2>2
<1>7. /\ checks' \in [Sent -> {NoRecord} \cup Sent] /\ checks'[n] = NoRecord
      /\ \A m \in Sent : m # n => checks'[m] = checks[m]
  BY <1>1, <1>2 DEF TrackTypes
<1>8. /\ bundlesInTransit' \in [Sent -> {NoRecord} \cup Sent]
      /\ bundlesInTransit'[sends[n].id] = NoRecord
      /\ \A x \in Sent : x # sends[n].id => bundlesInTransit'[x] = bundlesInTransit[x]
  BY <1>1, <1>2, <1>4 DEF TrackTypes
<1>9. TrackTypes' /\ Distinct' /\ Pending' = Pending
  BY <1>1, <1>2, <1>6, <1>7, <1>8 DEF TrackTypes, Distinct, Pending
<1>10. SameId'
  BY <1>1, <1>2, <1>7, <1>8 DEF SameId, WasTaken
<1>11. ASSUME NEW m \in Sent PROVE Phase(m)'
  <2>1. Phase(m)
    BY <1>2
  <2>2. OutOfTrack(m) => OutOfTrack(m)'
    BY <1>7, <1>8, <1>9, SentIsNat DEF OutOfTrack
  <2>3. ~WasTaken(m) => rows'[m] = rows[m]
    BY <1>3, <1>6
  <2>4. ASSUME WasTaken(m), SentOnce(m) PROVE (Waiting(m) \/ Logged(m))'
    <3>1. CASE m = n
      <4>1. Waiting(m)
        BY <1>1, <2>1, <2>4, <3>1 DEF Phase, Logged, c
      <4>2. c = m /\ m \notin Pending
        BY <1>1, <3>1, <4>1 DEF Waiting, c
      <4>3. rows'[m] = <<SentRow(heard[m])>>
        BY <1>6, <4>1, <4>2 DEF Waiting
      <4> QED BY <1>1, <1>7, <1>9, <3>1, <4>2, <4>3 DEF Logged
    <3>2. CASE m # n
      <4>1. sends[m].id \in Sent /\ sends[m].id # sends[n].id
        BY <1>2, <1>3, <2>4, <3>2, SentFacts DEF SentOnce, WasTaken
      <4>2. m # c
        BY <1>3, <4>1
      <4> QED BY <1>1, <1>6, <1>7, <1>8, <1>9, <2>1, <2>4, <3>2, <4>1, <4>2 DEF Phase, Waiting, Logged
    <3> QED BY <3>1, <3>2
  <2>5. Unsent(m) /\ ~WasTaken(m) => Unsent(m)'
    BY <1>1, <2>2, <2>3 DEF Unsent
  <2>6. ~WasSent(m) => ~WasTaken(m)
    BY DEF WasSent, WasTaken
  <2> QED BY <1>1, <2>1, <2>2, <2>3, <2>4, <2>5, <2>6, SameSends DEF Phase
<1> QED BY <1>9, <1>10, <1>11 DEF TrackInv

LegacyInv == BuilderInv /\ TrackInv

LEMMA LegacyInvInit == LegacyInit => LegacyInv
<1> SUFFICES ASSUME LegacyInit PROVE LegacyInv
  OBVIOUS
<1>1. /\ sends = <<>> /\ timers = <<>>
      /\ bundlesInTransit = [n \in Sent |-> NoRecord] /\ checks = [n \in Sent |-> NoRecord]
      /\ record = [n \in Sent |-> NewRecord] /\ heard = [n \in Sent |-> NewRecord]
      /\ rows = [n \in Sent |-> <<>>]
  BY DEF LegacyInit
<1>2. TrackTypes
  BY <1>1, Records DEF TrackTypes
<1>3. Pending = {} /\ SameId /\ Distinct
  BY <1>1 DEF Pending, SameId, Distinct
<1>4. ASSUME NEW n \in Sent PROVE Phase(n)
  <2>1. ~WasSent(n) /\ ~WasTaken(n)
    BY <1>1 DEF WasSent, WasTaken
  <2>2. Unsent(n)
    BY <1>1, <1>3, SentIsNat DEF Unsent, OutOfTrack, NoRecord
  <2> QED BY <2>1, <2>2 DEF Phase
<1> QED BY <1>2, <1>3, <1>4, BuilderInit DEF TrackInv, LegacyInv

LEMMA LegacyInvNext == LegacyInv /\ [LegacyNext]_legacyVars => LegacyInv'
<1> SUFFICES ASSUME LegacyInv, [LegacyNext]_legacyVars PROVE TrackInv'
  BY BuilderNext DEF LegacyInv
<1> DEFINE log == <<sends, bundlesInTransit, record, heard, timers, checks, rows>>
<1>1. ASSUME UNCHANGED log PROVE TrackInv'
  BY <1>1, TrackStutter DEF LegacyInv
<1>2. ASSUME TradeArrives \/ AskForTrade \/ TakeTrade \/ NothingFound \/ Discard PROVE UNCHANGED log
  BY <1>2 DEF TradeArrives, AskForTrade, TakeTrade, NothingFound, Discard, tracking, received
<1>3. ASSUME NEW i \in Ideas, Found(i) PROVE UNCHANGED log
  BY <1>3 DEF Found, tracking, received
<1>4. ASSUME NEW value \in SolValues, Quoted(value) PROVE UNCHANGED log
  BY <1>4 DEF Quoted, tracking, received
<1>5. LegacyIdle \/ UNCHANGED legacyVars => UNCHANGED log
  BY DEF LegacyIdle, legacyVars, tracking, received
<1>6. ASSUME Ends PROVE TrackInv'
  BY <1>6, TrackReset DEF Ends
<1>7. BuilderThrows \/ ResultsEnd => Ends
  BY DEF BuilderThrows, ResultsEnd
<1> HIDE DEF log
<1>8. ASSUME NEW n \in Sent, Send(n) \/ Taken(n) \/ Failed(n) \/ Checked(n) PROVE TrackInv'
  BY <1>8, SendStep, TakenStep, FailedStep, CheckedStep DEF LegacyInv
<1>9. ASSUME NEW id \in Sent, NEW kind, BundleResult(id, kind) PROVE TrackInv'
  BY <1>9, ResultStep DEF LegacyInv
<1>10. TimerFires => TrackInv'
  BY <1>6, TimerStep DEF LegacyInv
<1> QED BY <1>1, <1>2, <1>3, <1>4, <1>5, <1>6, <1>7, <1>8, <1>9, <1>10 DEF LegacyNext

\* The timer of a bundle that was sent once finds its record in the map.
THEOREM TimersFindTheirTrades == LegacySpec => []EveryTimerFindsItsTrade
<1>1. LegacyInv => EveryTimerFindsItsTrade
  <2> SUFFICES ASSUME TrackInv, NEW i \in DOMAIN timers, SentOnce(timers[i])
               PROVE  bundlesInTransit[sends[timers[i]].id] = timers[i]
    BY DEF LegacyInv, EveryTimerFindsItsTrade
  <2> DEFINE n == timers[i]
  <2>1. n \in Pending /\ n \in Sent
    BY DEF Pending, TrackInv, TrackTypes
  <2>2. Phase(n) /\ ~OutOfTrack(n)
    BY <2>1 DEF TrackInv, OutOfTrack
  <2>3. Waiting(n)
    BY <2>1, <2>2 DEF Phase, Unsent, Logged
  <2> QED BY <2>3 DEF Waiting
<1> QED BY <1>1, LegacyInvInit, LegacyInvNext, PTL DEF LegacySpec

\* The one row of a bundle that was sent once tells what became of it, with every
\* result from the time it was taken.
THEOREM LegacyRowsAreFaithful == LegacySpec => []LegacyRowIsFaithful
<1>1. LegacyInv => LegacyRowIsFaithful
  <2> SUFFICES ASSUME TrackInv, NEW n \in Sent, SentOnce(n)
               PROVE  /\ Len(rows[n]) <= 1
                      /\ \A i \in DOMAIN rows[n] :
                           IF sends[n].answer = "failed" THEN rows[n][i].sendingError
                           ELSE rows[n][i].result = heard[n] /\ ~rows[n][i].sendingError
    BY DEF LegacyInv, LegacyRowIsFaithful
  <2>1. Phase(n) /\ n \in DOMAIN sends /\ sends[n].answer \in {"awaited", "taken", "failed"}
    BY SentFacts DEF TrackInv, SentOnce
  <2>2. CASE rows[n] = <<>>
    BY <2>2
  <2>3. CASE sends[n].answer = "failed" /\ rows[n] = <<FailedRow>>
    <3>1. FailedRow.sendingError
      BY DEF FailedRow
    <3> QED BY <2>3, <3>1
  <2>4. CASE sends[n].answer = "taken" /\ rows[n] = <<SentRow(heard[n])>>
    <3>1. SentRow(heard[n]).result = heard[n] /\ ~SentRow(heard[n]).sendingError
      BY DEF SentRow
    <3> QED BY <2>4, <3>1
  <2> QED BY <2>1, <2>2, <2>3, <2>4 DEF Phase, WasSent, WasTaken, Unsent, Waiting, Logged
<1> QED BY <1>1, LegacyInvInit, LegacyInvNext, PTL DEF LegacySpec

-----------------------------------------------------------------------------
(***************************************************************************)
(* The buffer among the stages                                             *)
(***************************************************************************)
LEMMA BufferRuns == LegacySpec => Spec
<1>1. LegacyInit => Init
  BY DEF LegacyInit
<1>2. [LegacyNext]_legacyVars => [Next]_vars
  <2> SUFFICES ASSUME [LegacyNext]_legacyVars PROVE [Next]_vars
    OBVIOUS
  <2>1. TradeArrives \/ AskForTrade \/ TakeTrade => Next
    BY DEF TradeArrives, AskForTrade, TakeTrade, Next
  <2>2. Ends => UNCHANGED vars
    BY DEF Ends, buffer, vars
  <2>3. ASSUME NothingFound \/ BuilderThrows \/ Discard \/ ResultsEnd \/ LegacyIdle \/ UNCHANGED legacyVars
        PROVE  UNCHANGED vars
    BY <2>2, <2>3 DEF NothingFound, BuilderThrows, Discard, ResultsEnd, LegacyIdle, legacyVars, buffer, vars
  <2>4. ASSUME NEW i \in Ideas, Found(i) PROVE UNCHANGED vars
    BY <2>4 DEF Found, buffer, vars
  <2>5. ASSUME NEW value \in SolValues, Quoted(value) PROVE UNCHANGED vars
    BY <2>5 DEF Quoted, buffer, vars
  <2>6. ASSUME NEW n \in Sent, Send(n) \/ Taken(n) \/ Failed(n) \/ Checked(n) PROVE UNCHANGED vars
    BY <2>6 DEF Send, Taken, Failed, Checked, buffer, vars
  <2>7. ASSUME NEW id \in Sent, NEW kind, BundleResult(id, kind) PROVE UNCHANGED vars
    BY <2>7 DEF BundleResult, buffer, vars
  <2>8. TimerFires => UNCHANGED vars
    BY <2>2 DEF TimerFires, buffer, vars
  <2> QED BY <2>1, <2>3, <2>4, <2>5, <2>6, <2>7, <2>8 DEF LegacyNext
<1> QED BY <1>1, <1>2, PTL DEF LegacySpec, Spec

\* Among the stages, too, calculateArb never waits beside a queued trade.
THEOREM StagesLoseNoWakeup == LegacySpec => []NoneWaitsBesideAnItem
BY BufferRuns, NoLostWakeup, PTL

\* And its buffer is the lossy queue, whatever the bundles meet.
THEOREM StagesKeepTheBuffer == LegacySpec => ImplementsLossyQueue
BY BufferRuns, Refinement, PTL
=============================================================================
