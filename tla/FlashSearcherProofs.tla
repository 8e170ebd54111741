------------------------- MODULE FlashSearcherProofs -------------------------
(***************************************************************************)
(* Proofs about FlashSearcher, for every configuration, every set of       *)
(* trades, quotes and swap instructions, and every bound.                  *)
(***************************************************************************)
EXTENDS FlashSearcher, FiniteSetTheorems, TLAPS

\* The loan fee and the tip are natural numbers.
LEMMA FeesTyped ==
  ASSUME NEW borrow \in Nat, NEW gross \in Nat
  PROVE  /\ CalculateFlashLoanFee(borrow) \in Nat
         /\ CalculateTip(gross) \in Nat
<1>1. CalculateFlashLoanFee(borrow) \in Nat
  BY DEF CalculateFlashLoanFee, SOLEND_FLASHLOAN_FEE_BPS
<1>2. gross * TIP_PERCENT \in Nat
  BY TipAssumption
<1>3. CalculateTip(gross) \in Nat
  BY <1>2, TipAssumption DEF CalculateTip
<1> QED BY <1>1, <1>3

\* One unit of profit beyond the costs is enough in any currency whose base
\* unit is worth at least a lamport.
LEMMA ProfitInValue ==
  ASSUME NEW back \in Nat, NEW owed \in Nat, NEW costs \in Nat, NEW value \in Nat \ {0},
         back > owed + costs
  PROVE  back * value > owed * value + costs
<1> DEFINE gain == back - owed
<1>1. gain \in Nat /\ gain > costs /\ back = owed + gain
  OBVIOUS
<1>2. back * value = owed * value + gain * value
  BY <1>1
<1>3. gain * value >= gain
  <2>1. value - 1 \in Nat /\ value = (value - 1) + 1
    OBVIOUS
  <2>2. gain * value = gain * (value - 1) + gain
    BY <1>1, <2>1
  <2>3. gain * (value - 1) \in Nat
    BY <1>1, <2>1
  <2> QED BY <1>1, <2>2, <2>3
<1>4. owed * value \in Nat /\ gain * value \in Nat
  BY <1>1
<1> HIDE DEF gain
<1> QED BY <1>1, <1>2, <1>3, <1>4

\* What WorthBuilding says of the amounts.
LEMMA Worthwhile ==
  ASSUME NEW borrow \in Nat, NEW back \in Nat, WorthBuilding(borrow, back)
  PROVE  /\ GrossProfit(borrow, back) \in Nat
         /\ back > borrow + CalculateFlashLoanFee(borrow)
                     + (CalculateTip(GrossProfit(borrow, back)) + TXN_FEES_LAMPORTS)
<1>1. GrossProfit(borrow, back) \in Nat /\ GrossProfit(borrow, back) = back - borrow
  BY DEF WorthBuilding, GrossProfit
<1>2. /\ CalculateFlashLoanFee(borrow) \in Nat
      /\ CalculateTip(GrossProfit(borrow, back)) \in Nat
  BY <1>1, FeesTyped
<1> QED BY <1>1, <1>2 DEF WorthBuilding, NetProfit, TXN_FEES_LAMPORTS

-----------------------------------------------------------------------------
(***************************************************************************)
(* The layout of the transaction                                           *)
(***************************************************************************)

\* Where the elements of two sequences in a row are found.
LEMMA TwoInARow ==
  ASSUME NEW S, NEW a \in Seq(S), NEW b \in Seq(S), NEW ab, ab = a \o b
  PROVE  /\ ab \in Seq(S)
         /\ Len(ab) = Len(a) + Len(b)
         /\ \A i \in 1 .. Len(a) : ab[i] = a[i]
         /\ \A i \in 1 .. Len(b) : ab[Len(a) + i] = b[i]
<1>1. Len(a) \in Nat /\ Len(b) \in Nat
  OBVIOUS
<1>2. ab \in Seq(S) /\ Len(ab) = Len(a) + Len(b)
  OBVIOUS
<1>3. \A i \in 1 .. Len(a) : ab[i] = a[i]
  BY <1>1
<1>4. \A i \in 1 .. Len(b) : ab[Len(a) + i] = b[i]
  BY <1>1
<1> QED BY <1>2, <1>3, <1>4

\* s is the four sequences one after the other.
IsRow(S, s, a, b, c, d) ==
  /\ s \in Seq(S)
  /\ Len(s) = Len(a) + Len(b) + Len(c) + Len(d)
  /\ \A i \in 1 .. Len(a) : s[i] = a[i]
  /\ \A i \in 1 .. Len(b) : s[Len(a) + i] = b[i]
  /\ \A i \in 1 .. Len(c) : s[Len(a) + Len(b) + i] = c[i]
  /\ \A i \in 1 .. Len(d) : s[Len(a) + Len(b) + Len(c) + i] = d[i]

\* Their concatenation is that row.
LEMMA FourInARow ==
  ASSUME NEW S, NEW a \in Seq(S), NEW b \in Seq(S), NEW c \in Seq(S), NEW d \in Seq(S),
         NEW s, s = a \o b \o c \o d
  PROVE  IsRow(S, s, a, b, c, d)
<1>1. Len(a) \in Nat /\ Len(b) \in Nat /\ Len(c) \in Nat /\ Len(d) \in Nat
  OBVIOUS
<1>2. PICK ab : ab = a \o b
  OBVIOUS
<1>3. /\ ab \in Seq(S)
      /\ Len(ab) = Len(a) + Len(b)
      /\ \A i \in 1 .. Len(a) : ab[i] = a[i]
      /\ \A i \in 1 .. Len(b) : ab[Len(a) + i] = b[i]
  BY <1>2, TwoInARow
<1>4. PICK abc : abc = ab \o c
  OBVIOUS
<1>5. /\ abc \in Seq(S)
      /\ Len(abc) = Len(ab) + Len(c)
      /\ \A i \in 1 .. Len(ab) : abc[i] = ab[i]
      /\ \A i \in 1 .. Len(c) : abc[Len(ab) + i] = c[i]
  <2>1. ab \in Seq(S)
    BY <1>3
  <2> QED BY ONLY <2>1, <1>4, c \in Seq(S), TwoInARow
<1>6. s = abc \o d
  BY <1>2, <1>4
<1>7. /\ s \in Seq(S)
      /\ Len(s) = Len(abc) + Len(d)
      /\ \A i \in 1 .. Len(abc) : s[i] = abc[i]
      /\ \A i \in 1 .. Len(d) : s[Len(abc) + i] = d[i]
  <2>1. abc \in Seq(S)
    BY <1>5
  <2> QED BY ONLY <2>1, <1>6, d \in Seq(S), TwoInARow
<1>8. ASSUME NEW i \in 1 .. Len(a) PROVE s[i] = a[i]
  BY <1>1, <1>3, <1>5, <1>7, <1>8
<1>9. ASSUME NEW i \in 1 .. Len(b) PROVE s[Len(a) + i] = b[i]
  BY <1>1, <1>3, <1>5, <1>7, <1>9
<1>10. ASSUME NEW i \in 1 .. Len(c) PROVE s[Len(a) + Len(b) + i] = c[i]
  BY <1>1, <1>3, <1>5, <1>7, <1>10
<1>11. ASSUME NEW i \in 1 .. Len(d) PROVE s[Len(a) + Len(b) + Len(c) + i] = d[i]
  BY <1>1, <1>3, <1>5, <1>7, <1>11
<1>12. Len(s) = Len(a) + Len(b) + Len(c) + Len(d)
  BY <1>1, <1>3, <1>5, <1>7
<1> QED BY <1>7, <1>8, <1>9, <1>10, <1>11, <1>12 DEF IsRow

\* Jupiter's part for one leg: instructions of no concern to the loan, and
\* the swap once.
LEMMA LegLayout ==
  ASSUME NEW leg \in {"forwardSwap", "returnSwap"}, NEW swapIx \in SwapInstructions
  PROVE  LET s == JupiterSwapInstructions(leg, swapIx)
             k == swapIx.setup + swapIx.computeBudget + 1
         IN  /\ s \in Seq(Instruction)
             /\ k \in 1 .. Len(s)
             /\ s[k] = leg
             /\ \A i \in 1 .. Len(s) : i # k => s[i] \in {"setup", "computeBudget", "cleanup"}
<1> DEFINE a == Copies(swapIx.setup, "setup")
           b == Copies(swapIx.computeBudget, "computeBudget")
           c == Copies(IF swapIx.cleanup THEN 1 ELSE 0, "cleanup")
           m == IF swapIx.cleanup THEN 1 ELSE 0
<1>1. swapIx.setup \in Nat /\ swapIx.computeBudget \in Nat /\ m \in {0, 1}
  BY DEF SwapInstructions
<1>2. a \in Seq(Instruction) /\ Len(a) = swapIx.setup /\ \A i \in 1 .. Len(a) : a[i] = "setup"
  <2>1. a \in Seq(Instruction) BY <1>1 DEF Copies, Instruction
  <2>2. Len(a) = swapIx.setup BY <1>1 DEF Copies
  <2> QED BY <2>1, <2>2 DEF Copies
<1>3. b \in Seq(Instruction) /\ Len(b) = swapIx.computeBudget /\ \A i \in 1 .. Len(b) : b[i] = "computeBudget"
  <2>1. b \in Seq(Instruction) BY <1>1 DEF Copies, Instruction
  <2>2. Len(b) = swapIx.computeBudget BY <1>1 DEF Copies
  <2> QED BY <2>1, <2>2 DEF Copies
<1>4. c \in Seq(Instruction) /\ Len(c) = m /\ \A i \in 1 .. Len(c) : c[i] = "cleanup"
  <2>1. c \in Seq(Instruction) BY <1>1 DEF Copies, Instruction
  <2>2. Len(c) = m BY <1>1 DEF Copies
  <2> QED BY <2>1, <2>2 DEF Copies
<1>5. PICK l : l = <<leg>>
  OBVIOUS
<1>6. l \in Seq(Instruction) /\ Len(l) = 1 /\ l[1] = leg
  BY <1>5 DEF Instruction
<1>7. PICK s : s = a \o b \o l \o c
  OBVIOUS
<1>8. JupiterSwapInstructions(leg, swapIx) = s
  BY <1>5, <1>7 DEF JupiterSwapInstructions
<1> HIDE DEF a, b, c, m
<1>9. /\ s \in Seq(Instruction)
      /\ Len(s) = Len(a) + Len(b) + Len(l) + Len(c)
      /\ \A i \in 1 .. Len(a) : s[i] = a[i]
      /\ \A i \in 1 .. Len(b) : s[Len(a) + i] = b[i]
      /\ \A i \in 1 .. Len(l) : s[Len(a) + Len(b) + i] = l[i]
      /\ \A i \in 1 .. Len(c) : s[Len(a) + Len(b) + Len(l) + i] = c[i]
  <2>1. a \in Seq(Instruction) /\ b \in Seq(Instruction) /\ l \in Seq(Instruction) /\ c \in Seq(Instruction)
    BY <1>2, <1>3, <1>4, <1>6
  <2>2. IsRow(Instruction, s, a, b, l, c)
    BY ONLY <2>1, <1>7, FourInARow
  <2> QED BY ONLY <2>2 DEF IsRow
<1> DEFINE k == swapIx.setup + swapIx.computeBudget + 1
<1>10. Len(s) = k + m /\ k \in 1 .. Len(s)
  BY <1>1, <1>2, <1>3, <1>4, <1>6, <1>9
<1>11. s[k] = leg
  BY <1>1, <1>2, <1>3, <1>6, <1>9
<1>12. ASSUME NEW i \in 1 .. Len(s), i # k
       PROVE  s[i] \in {"setup", "computeBudget", "cleanup"}
  <2>1. CASE i <= Len(a)
    BY <2>1, <1>2, <1>9, <1>12
  <2>2. CASE i > Len(a) /\ i < k
    <3>1. i - Len(a) \in 1 .. Len(b) /\ i = Len(a) + (i - Len(a))
      BY <2>2, <1>1, <1>2, <1>3, <1>10
    <3>2. s[i] = b[i - Len(a)]
      BY <3>1, <1>9
    <3> QED BY <3>1, <3>2, <1>3
  <2>3. CASE i > k
    <3>1. i - k \in 1 .. Len(c) /\ i = Len(a) + Len(b) + Len(l) + (i - k)
      <4>1. Len(a) + Len(b) + Len(l) = k /\ Len(c) = m /\ Len(s) = k + m
        BY <1>1, <1>2, <1>3, <1>4, <1>6, <1>10
      <4>2. k \in Nat /\ m \in Nat
        BY <1>1
      <4> HIDE DEF k
      <4> QED BY <2>3, <4>1, <4>2
    <3>2. s[i] = c[i - k]
      BY <3>1, <1>9
    <3> QED BY <3>1, <3>2, <1>4
  <2> QED BY <2>1, <2>2, <2>3, <1>1, <1>2, <1>10, <1>12
<1> QED BY <1>8, <1>9, <1>10, <1>11, <1>12

\* The transaction repays its borrow, whatever Jupiter answers.
LEMMA Layout ==
  ASSUME NEW mint \in Mint, NEW fwd \in SwapInstructions, NEW ret \in SwapInstructions
  PROVE  /\ Instructions(mint, fwd, ret) \in Seq(Instruction)
         /\ RepaysItsBorrow(Instructions(mint, fwd, ret), BorrowInstructionIndex)
<1> DEFINE f == JupiterSwapInstructions("forwardSwap", fwd)
           r == JupiterSwapInstructions("returnSwap", ret)
           e == RepayAndClose(mint)
           p == <<"mevProtection", "createTokenAccount", "flashBorrow">>
           noise == {"setup", "computeBudget", "cleanup"}
<1>1. PICK kf \in 1 .. Len(f) :
        /\ f \in Seq(Instruction)
        /\ f[kf] = "forwardSwap"
        /\ \A i \in 1 .. Len(f) : i # kf => f[i] \in noise
  BY LegLayout
<1>2. PICK kr \in 1 .. Len(r) :
        /\ r \in Seq(Instruction)
        /\ r[kr] = "returnSwap"
        /\ \A i \in 1 .. Len(r) : i # kr => r[i] \in noise
  BY LegLayout
<1>3. /\ e \in Seq(Instruction)
      /\ Len(e) \in {1, 2}
      /\ e[1] = "flashRepay"
      /\ Len(e) = 2 => e[2] = "closeTokenAccount"
  <2>1. CASE mint = "SOL"
    <3>1. e = <<"flashRepay", "closeTokenAccount">> BY <2>1 DEF RepayAndClose
    <3> QED BY <3>1 DEF Instruction
  <2>2. CASE mint # "SOL"
    <3>1. e = <<"flashRepay">> BY <2>2 DEF RepayAndClose
    <3> QED BY <3>1 DEF Instruction
  <2> QED BY <2>1, <2>2
<1>4. p \in Seq(Instruction) /\ Len(p) = 3 /\ p[1] = "mevProtection" /\ p[2] = "createTokenAccount" /\ p[3] = "flashBorrow"
  BY DEF Instruction
<1> HIDE DEF f, r, e, p
<1>5. PICK q : q = p \o f \o r \o e
  OBVIOUS
<1>6. PICK s : s = q \o <<"tip">>
  OBVIOUS
<1>7. Instructions(mint, fwd, ret) = s
  BY <1>5, <1>6 DEF Instructions, BeforeBorrow, p, f, r, e
<1> DEFINE F == Len(f)  R == Len(r)  E == Len(e)
<1>8. F \in Nat /\ R \in Nat /\ E \in {1, 2} /\ kf \in 1 .. F /\ kr \in 1 .. R
  BY <1>1, <1>2, <1>3
<1>9. /\ q \in Seq(Instruction)
      /\ Len(q) = 3 + F + R + E
      /\ \A i \in 1 .. 3 : q[i] = p[i]
      /\ \A i \in 1 .. F : q[3 + i] = f[i]
      /\ \A i \in 1 .. R : q[3 + F + i] = r[i]
      /\ \A i \in 1 .. E : q[3 + F + R + i] = e[i]
  <2>1. /\ q \in Seq(Instruction)
        /\ Len(q) = Len(p) + Len(f) + Len(r) + Len(e)
        /\ \A i \in 1 .. Len(p) : q[i] = p[i]
        /\ \A i \in 1 .. Len(f) : q[Len(p) + i] = f[i]
        /\ \A i \in 1 .. Len(r) : q[Len(p) + Len(f) + i] = r[i]
        /\ \A i \in 1 .. Len(e) : q[Len(p) + Len(f) + Len(r) + i] = e[i]
    <3>1. p \in Seq(Instruction) /\ f \in Seq(Instruction) /\ r \in Seq(Instruction) /\ e \in Seq(Instruction)
      BY <1>1, <1>2, <1>3, <1>4
    <3>2. IsRow(Instruction, q, p, f, r, e)
      BY ONLY <3>1, <1>5, FourInARow
    <3> QED BY ONLY <3>2 DEF IsRow
  <2> QED BY <2>1, <1>4
<1> HIDE DEF F, R, E
<1>10. /\ s \in Seq(Instruction)
       /\ Len(s) = 3 + F + R + E + 1
       /\ \A i \in 1 .. Len(q) : s[i] = q[i]
       /\ s[3 + F + R + E + 1] = "tip"
  <2>1. <<"tip">> \in Seq(Instruction) /\ Len(<<"tip">>) = 1 /\ <<"tip">>[1] = "tip"
    BY DEF Instruction
  <2>2. PICK t : t = <<"tip">>
    OBVIOUS
  <2>3. t \in Seq(Instruction) /\ Len(t) = 1 /\ t[1] = "tip"
    BY <2>1, <2>2
  <2>4. /\ s \in Seq(Instruction)
        /\ Len(s) = Len(q) + Len(t)
        /\ \A i \in 1 .. Len(q) : s[i] = q[i]
        /\ \A i \in 1 .. Len(t) : s[Len(q) + i] = t[i]
    BY <1>6, <1>9, <2>2, <2>3, TwoInARow
  <2>5. s[Len(q) + 1] = "tip"
    BY <2>3, <2>4
  <2> QED BY <2>3, <2>4, <2>5, <1>8, <1>9
<1>11. ASSUME NEW i \in 1 .. Len(s)
       PROVE  /\ s[i] = "flashBorrow" <=> i = 3
              /\ s[i] = "forwardSwap" <=> i = 3 + kf
              /\ s[i] = "returnSwap" <=> i = 3 + F + kr
              /\ s[i] = "flashRepay" <=> i = 3 + F + R + 1
              /\ s[i] = "closeTokenAccount" => i = 3 + F + R + 2
              /\ s[i] = "tip" <=> i = 3 + F + R + E + 1
  <2>1. CASE i \in 1 .. 3
    <3>1. s[i] = p[i] BY <2>1, <1>8, <1>9, <1>10
    <3> QED BY <2>1, <3>1, <1>4, <1>8
  <2>2. CASE i > 3 /\ i <= 3 + F
    <3>1. i - 3 \in 1 .. F /\ i = 3 + (i - 3) /\ i \in 1 .. Len(q)
      BY <2>2, <1>8, <1>9
    <3>2. s[i] = f[i - 3]
      BY <3>1, <1>9, <1>10
    <3> QED BY <2>2, <3>1, <3>2, <1>1, <1>8 DEF F
  <2>3. CASE i > 3 + F /\ i <= 3 + F + R
    <3>1. i - (3 + F) \in 1 .. R /\ i = 3 + F + (i - (3 + F)) /\ i \in 1 .. Len(q)
      BY <2>3, <1>8, <1>9
    <3>2. s[i] = r[i - (3 + F)]
      BY <3>1, <1>9, <1>10
    <3> QED BY <2>3, <3>1, <3>2, <1>2, <1>8 DEF R
  <2>4. CASE i > 3 + F + R /\ i <= 3 + F + R + E
    <3>1. i - (3 + F + R) \in 1 .. E /\ i = 3 + F + R + (i - (3 + F + R)) /\ i \in 1 .. Len(q)
      BY <2>4, <1>8, <1>9
    <3>2. s[i] = e[i - (3 + F + R)]
      BY <3>1, <1>9, <1>10
    <3> QED BY <2>4, <3>1, <3>2, <1>3, <1>8 DEF E
  <2>5. CASE i = 3 + F + R + E + 1
    BY <2>5, <1>8, <1>10
  <2> QED BY <2>1, <2>2, <2>3, <2>4, <2>5, <1>8, <1>10
<1>12. BorrowInstructionIndex = 2
  BY DEF BorrowInstructionIndex, BeforeBorrow
<1>13. DOMAIN s = 1 .. Len(s)
  BY <1>10
<1>14. /\ 2 + 1 \in DOMAIN s
       /\ s[2 + 1] = "flashBorrow"
       /\ \E i \in DOMAIN s : s[i] = "flashRepay"
       /\ s[Len(s)] = "tip"
  <2>1. 3 \in 1 .. Len(s) /\ 3 + F + R + 1 \in 1 .. Len(s)
    BY <1>8, <1>10
  <2> QED BY <2>1, <1>10, <1>11, <1>13
<1>15. ASSUME NEW i \in DOMAIN s, NEW j \in DOMAIN s
       PROVE  /\ s[i] \in {"flashBorrow", "flashRepay", "forwardSwap", "returnSwap", "tip"} /\ s[i] = s[j] => i = j
              /\ s[i] \in {"flashBorrow", "forwardSwap", "returnSwap"} /\ s[j] = "flashRepay" => i < j
              /\ s[i] = "forwardSwap" /\ s[j] = "returnSwap" => i < j
              /\ s[i] = "flashBorrow" /\ s[j] \in {"forwardSwap", "returnSwap"} => i < j
              /\ s[i] = "flashRepay" /\ s[j] = "closeTokenAccount" => i < j
  BY <1>8, <1>11, <1>13, <1>15
<1>16. RepaysItsBorrow(s, 2)
  BY <1>14, <1>15 DEF RepaysItsBorrow
<1> QED BY <1>7, <1>10, <1>12, <1>16

-----------------------------------------------------------------------------
(***************************************************************************)
(* The state machine                                                       *)
(***************************************************************************)
SearcherInv == TypeOK /\ StageInv /\ TrackInv

LEMMA InitInv == Init => SearcherInv
<1> SUFFICES ASSUME Init PROVE SearcherInv
  OBVIOUS
<1>1. TypeOK
  BY TipAssumption, MaxSafeAssumption, BoundsAssumption
  DEF Init, TypeOK, Stage, Arb, Asked, NoArb, NewArb, NoSwap, Mint, SwapInstructions, Record, NewRecord,
      NoRecord, Sent
<1>2. StageInv
  BY DEF Init, StageInv
<1>3. TrackInv
  BY DEF Init, TrackInv, NoRecord
<1> QED BY <1>1, <1>2, <1>3 DEF SearcherInv

\* The bundle of a trade that is worth building.
LEMMA BundleTyped ==
  ASSUME NEW id \in BundleIds, NEW a \in Arb, WorthBuilding(a.borrowAmount, a.returnAmount)
  PROVE  NewBundle(id, a) \in Bundle
<1>1. /\ a.mint \in Mint /\ a.borrowAmount \in Nat /\ a.returnAmount \in Nat
      /\ a.forwardSwapIx \in SwapInstructions /\ a.returnSwapIx \in SwapInstructions
  BY MaxSafeAssumption DEF Arb, Asked
<1>2. Tip(a) \in Nat
  BY <1>1, Worthwhile, FeesTyped DEF Tip, Gross
<1>3. Instructions(a.mint, a.forwardSwapIx, a.returnSwapIx) \in Seq(Instruction)
  BY <1>1, Layout
<1>4. BorrowInstructionIndex \in Nat
  BY DEF BorrowInstructionIndex, BeforeBorrow
<1> QED BY <1>1, <1>2, <1>3, <1>4 DEF NewBundle, Bundle

\* Steps of the trade handler that send nothing.
LEMMA HandlerStep ==
  ASSUME SearcherInv, UNCHANGED <<sends, tracking, received>>,
         stage' \in Stage \ {"sendBundle"}, arb' \in Arb,
         stage' # "waiting" => Len(sends) < MaxSends,
         stage' \in {"forwardSwap", "returnSwap", "lookupTables", "simulateBundle"}
           => WorthBuilding(arb'.borrowAmount, arb'.returnAmount)
  PROVE  SearcherInv'
<1>1. TypeOK'
  BY DEF SearcherInv, TypeOK, tracking, received
<1>2. StageInv'
  BY DEF StageInv, Stage
<1>3. TrackInv'
  BY DEF SearcherInv, TrackInv, tracking
<1> QED BY <1>1, <1>2, <1>3 DEF SearcherInv

LEMMA DropStep ==
  ASSUME SearcherInv, UNCHANGED <<sends, tracking, received>>, Drop
  PROVE  SearcherInv'
<1>1. stage' = "waiting" /\ arb' \in Arb
  BY MaxSafeAssumption DEF Drop, NoArb, NewArb, NoSwap, Arb, Asked, Mint, SwapInstructions
<1> QED BY <1>1, HandlerStep DEF Stage

LEMMA NextInv == SearcherInv /\ [Next]_vars => SearcherInv'
<1> SUFFICES ASSUME SearcherInv, [Next]_vars PROVE SearcherInv'
  OBVIOUS
<1> USE DEF SearcherInv
<1>1. ASSUME NEW mint \in Mint, NEW size \in TradeSizes, HandleTrade(mint, size)
      PROVE  SearcherInv'
  <2>1. CASE Drop
    BY <1>1, <2>1, DropStep DEF HandleTrade
  <2>2. CASE Quotable(size) /\ stage' = "forwardQuote" /\ arb' = NewArb(mint, size)
    <3>1. arb' \in Arb
      BY <2>2, SearcherAssumption, MaxSafeAssumption DEF NewArb, NoSwap, Arb, Asked, Quotable, SwapInstructions
    <3> QED BY <1>1, <2>2, <3>1, HandlerStep DEF HandleTrade, Stage
  <2> QED BY <1>1, <2>1, <2>2 DEF HandleTrade, AskQuote
<1>2. ASSUME NEW out \in OutAmounts, ForwardQuote(out)
      PROVE  SearcherInv'
  <2>1. CASE Drop
    BY <1>2, <2>1, DropStep DEF ForwardQuote
  <2>2. CASE Quotable(out) /\ stage' = "returnQuote" /\ arb' = [arb EXCEPT !.forwardOut = out]
    <3>1. arb' \in Arb
      <4>1. out \in Asked
        BY <2>2, SearcherAssumption, MaxSafeAssumption DEF Asked, Quotable
      <4>2. arb \in Arb
        BY DEF TypeOK
      <4> QED BY <2>2, <4>1, <4>2 DEF Arb
    <3> QED BY <1>2, <2>2, <3>1, HandlerStep DEF ForwardQuote, Stage, StageInv
  <2> QED BY <1>2, <2>1, <2>2 DEF ForwardQuote, AskQuote
<1>3. ASSUME NEW out \in OutAmounts, ReturnQuote(out)
      PROVE  SearcherInv'
  <2>1. CASE Drop
    BY <1>3, <2>1, DropStep DEF ReturnQuote
  <2>2. CASE /\ WorthBuilding(arb.borrowAmount, out)
             /\ stage' = "forwardSwap"
             /\ arb' = [arb EXCEPT !.returnAmount = out]
    <3>1. arb' \in Arb /\ arb'.borrowAmount = arb.borrowAmount /\ arb'.returnAmount = out
      BY <2>2, SearcherAssumption DEF Arb, TypeOK
    <3> QED BY <1>3, <2>2, <3>1, HandlerStep DEF ReturnQuote, Stage, StageInv
  <2> QED BY <1>3, <2>1, <2>2 DEF ReturnQuote
<1>4. ASSUME NEW swapIx \in SwapAnswers, ForwardSwap(swapIx)
      PROVE  SearcherInv'
  <2>1. /\ arb' \in Arb /\ arb'.borrowAmount = arb.borrowAmount /\ arb'.returnAmount = arb.returnAmount
        /\ stage' = "returnSwap" /\ stage = "forwardSwap"
    BY <1>4, SearcherAssumption DEF Arb, TypeOK, ForwardSwap
  <2> QED BY <1>4, <2>1, HandlerStep DEF ForwardSwap, Stage, StageInv
<1>5. ASSUME NEW swapIx \in SwapAnswers, ReturnSwap(swapIx)
      PROVE  SearcherInv'
  <2>1. /\ arb' \in Arb /\ arb'.borrowAmount = arb.borrowAmount /\ arb'.returnAmount = arb.returnAmount
        /\ stage' = "lookupTables" /\ stage = "returnSwap"
    BY <1>5, SearcherAssumption DEF Arb, TypeOK, ReturnSwap
  <2> QED BY <1>5, <2>1, HandlerStep DEF ReturnSwap, Stage, StageInv
<1>6. ASSUME Built
      PROVE  SearcherInv'
  <2>1. arb' = arb /\ arb \in Arb /\ stage' = "simulateBundle" /\ stage = "lookupTables"
    BY <1>6 DEF Built, TypeOK
  <2> QED BY <1>6, <2>1, HandlerStep DEF Built, Stage, StageInv
<1>7. ASSUME Failure
      PROVE  SearcherInv'
  BY <1>7, DropStep DEF Failure
<1>8. ASSUME NEW id \in BundleIds, Simulated(id)
      PROVE  SearcherInv'
  <2>1. CASE Drop /\ UNCHANGED sends
    BY <1>8, <2>1, DropStep DEF Simulated
  <2>2. CASE stage' = "sendBundle" /\ sends' = Append(sends, NewBundle(id, arb)) /\ UNCHANGED arb
    <3>1. NewBundle(id, arb) \in Bundle /\ Len(sends) < MaxSends
      BY <1>8, BundleTyped DEF Simulated, StageInv, TypeOK
    <3>2. sends' \in Seq(Bundle) /\ Len(sends') = Len(sends) + 1 /\ DOMAIN sends' = 1 .. Len(sends')
          /\ DOMAIN sends = 1 .. Len(sends) /\ Len(sends) \in Nat
      BY <2>2, <3>1 DEF TypeOK
    <3>3. TypeOK'
      <4>1. Len(sends') <= MaxSends
        BY <3>1, <3>2, BoundsAssumption
      <4>2. stage' \in Stage /\ arb' \in Arb
        BY <2>2 DEF Stage, TypeOK
      <4>3. UNCHANGED <<tracking, received>>
        BY <1>8 DEF Simulated
      <4> QED BY <3>2, <4>1, <4>2, <4>3 DEF TypeOK, tracking, received
    <3>4. StageInv'
      BY <2>2, <3>2 DEF StageInv
    <3>5. TrackInv'
      BY <1>8, <3>2 DEF TrackInv, Simulated, tracking
    <3> QED BY <3>3, <3>4, <3>5
  <2> QED BY <1>8, <2>1, <2>2 DEF Simulated
<1>9. ASSUME SendBundle
      PROVE  SearcherInv'
  <2>1. /\ Len(sends) \in Sent /\ Len(sends) \in DOMAIN sends
        /\ sends[Len(sends)].id \in BundleIds
    <3>1. sends # <<>> /\ sends \in Seq(Bundle) /\ Len(sends) <= MaxSends
      BY <1>9 DEF SendBundle, StageInv, TypeOK
    <3>2. Len(sends) \in 1 .. MaxSends /\ Len(sends) \in DOMAIN sends
      BY <3>1, BoundsAssumption
    <3>3. sends[Len(sends)] \in Bundle
      BY <3>1, <3>2
    <3> QED BY <3>2, <3>3 DEF Sent, Bundle
  <2>2. timers' \in Seq(Sent) /\ timers' = Append(timers, Len(sends)) /\ timers \in Seq(Sent)
    BY <1>9, <2>1 DEF SendBundle, Armed, TypeOK
  <2>3. stage' = "waiting" /\ arb' \in Arb
    BY <1>9, MaxSafeAssumption DEF SendBundle, Drop, NoArb, NewArb, NoSwap, Arb, Asked, Mint, SwapInstructions
  <2>4. bundlesInTransit' \in [BundleIds -> {NoRecord} \cup Sent]
    BY <1>9, <2>1 DEF SendBundle, TypeOK
  <2>5. TypeOK'
    BY <1>9, <2>2, <2>3, <2>4 DEF TypeOK, SendBundle, received, Stage
  <2>6. StageInv'
    BY <2>3 DEF StageInv
  <2>7. TrackInv'
    BY <1>9, <2>1, <2>2 DEF TrackInv, SendBundle
  <2> QED BY <2>5, <2>6, <2>7
<1>10. ASSUME NEW id \in BundleIds, NEW kind \in Result, BundleResult(id, kind)
       PROVE  SearcherInv'
  <2>1. \A r \in Record : Note(r, kind) \in Record
    <3>1. ASSUME NEW r \in Record PROVE [r EXCEPT !.accepted = @ + 1] \in Record
      BY DEF Record
    <3>2. ASSUME NEW r \in Record PROVE [r EXCEPT !.rejected = TRUE] \in Record
      BY DEF Record
    <3> QED BY <3>1, <3>2 DEF Note
  <2>2. record' \in [Sent -> Record]
    <3>1. bundlesInTransit[id] # NoRecord => bundlesInTransit[id] \in Sent
      BY DEF TypeOK
    <3> QED BY <1>10, <2>1, <3>1 DEF BundleResult, TypeOK
  <2>3. heard' \in [Sent -> Record]
    BY <1>10, <2>1 DEF BundleResult, TypeOK
  <2>4. TypeOK'
    BY <1>10, <2>2, <2>3 DEF TypeOK, BundleResult, handler
  <2>5. StageInv' /\ TrackInv'
    BY <1>10 DEF StageInv, TrackInv, BundleResult, handler
  <2> QED BY <2>4, <2>5
<1>11. ASSUME TimerFires
       PROVE  SearcherInv'
  <2>1. /\ timers \in Seq(Sent) /\ timers # <<>> /\ timers' = Tail(timers)
        /\ Head(timers) = timers[1] /\ 1 \in DOMAIN timers
    BY <1>11 DEF TimerFires, TypeOK
  <2>2. /\ timers' \in Seq(Sent)
        /\ \A i \in DOMAIN timers' : i + 1 \in DOMAIN timers /\ timers'[i] = timers[i + 1]
    BY <2>1
  <2>3. /\ Head(timers) \in Sent /\ Head(timers) \in DOMAIN sends
        /\ sends[Head(timers)].id \in BundleIds
    <3>1. Head(timers) \in Sent /\ Head(timers) \in DOMAIN sends
      BY <2>1 DEF TrackInv
    <3>2. sends[Head(timers)] \in Bundle
      BY <3>1 DEF TypeOK
    <3> QED BY <3>1, <3>2 DEF Bundle
  <2>4. /\ checks' = [checks EXCEPT ![Head(timers)] = bundlesInTransit[sends[Head(timers)].id]]
        /\ bundlesInTransit' = bundlesInTransit
    BY <1>11 DEF TimerFires, WhileChecking
  <2>5. checks' \in [Sent -> {NoRecord} \cup Sent]
    BY <2>3, <2>4 DEF TypeOK
  <2>6. TypeOK'
    BY <1>11, <2>2, <2>4, <2>5 DEF TypeOK, TimerFires, handler, received
  <2>7. StageInv'
    BY <1>11 DEF StageInv, TimerFires, handler
  <2>8. TrackInv'
    BY <1>11, <2>2, <2>3, <2>4 DEF TrackInv, TimerFires, TypeOK
  <2> QED BY <2>6, <2>7, <2>8
<1>12. ASSUME NEW n \in Sent, NEW landed \in BOOLEAN, Checked(n, landed)
       PROVE  SearcherInv'
  <2>1. checks[n] \in Sent
    BY <1>12 DEF Checked, TypeOK
  <2>2. rows' \in Seq([trade : Sent, result : Record, landed : BOOLEAN])
    BY <1>12, <2>1 DEF Checked, TypeOK
  <2>3. checks' \in [Sent -> {NoRecord} \cup Sent] /\ bundlesInTransit' \in [BundleIds -> {NoRecord} \cup Sent]
    BY <1>12 DEF Checked, Deleted, TypeOK
  <2>4. TypeOK'
    BY <1>12, <2>2, <2>3 DEF TypeOK, Checked, handler, received
  <2>5. StageInv'
    BY <1>12 DEF StageInv, Checked, handler
  <2>6. TrackInv'
    BY <1>12 DEF TrackInv, Checked, TypeOK
  <2> QED BY <2>4, <2>5, <2>6
<1>13. ASSUME UNCHANGED vars
       PROVE  SearcherInv'
  BY <1>13 DEF vars, handler, tracking, received, TypeOK, StageInv, TrackInv
<1> QED
  BY <1>1, <1>2, <1>3, <1>4, <1>5, <1>6, <1>7, <1>8, <1>9, <1>10, <1>11, <1>12, <1>13 DEF Next, Wait

\* Every reachable state is well typed; in particular no amount that exceeds a
\* safe integer is ever asked for (src/flash_brain.ts, lines 171-178).
THEOREM TypeCorrect == Spec => []TypeOK
<1>1. SearcherInv => TypeOK
  BY DEF SearcherInv
<1> QED BY <1>1, InitInv, NextInv, PTL DEF Spec

-----------------------------------------------------------------------------
(***************************************************************************)
(* What is sent                                                            *)
(***************************************************************************)

\* Only a simulated trade that is worth building is ever sent.
LEMMA SendsStep ==
  ASSUME SearcherInv, [Next]_vars
  PROVE  \/ sends' = sends
         \/ /\ ~SIMULATION_MODE
            /\ WorthBuilding(arb.borrowAmount, arb.returnAmount)
            /\ \E id \in BundleIds : sends' = Append(sends, NewBundle(id, arb))
<1>1. ASSUME NEW id \in BundleIds, Simulated(id)
      PROVE  \/ sends' = sends
             \/ /\ ~SIMULATION_MODE
                /\ WorthBuilding(arb.borrowAmount, arb.returnAmount)
                /\ \E i \in BundleIds : sends' = Append(sends, NewBundle(i, arb))
  BY <1>1 DEF Simulated, Broadcasting, SearcherInv, StageInv
<1>2. ASSUME \A id \in BundleIds : ~Simulated(id)
      PROVE  sends' = sends
  BY <1>2 DEF Next, vars, HandleTrade, ForwardQuote, ReturnQuote, ForwardSwap, ReturnSwap, Built, Failure,
     SendBundle, TimerFires, Wait, BundleResult, Checked
<1> QED BY <1>1, <1>2

\* What every bundle is that can be sent.
Sound(b) ==
  /\ b.borrowAmount <= MAX_SAFE_INTEGER
  /\ Value(b.mint, b.returnAmount)
       > Value(b.mint, b.borrowAmount + CalculateFlashLoanFee(b.borrowAmount)) + b.tip + TXN_FEES_LAMPORTS
  /\ RepaysItsBorrow(b.instructions, b.borrowInstructionIndex)

LEMMA NewBundleSound ==
  ASSUME NEW id \in BundleIds, NEW a \in Arb, WorthBuilding(a.borrowAmount, a.returnAmount)
  PROVE  Sound(NewBundle(id, a))
<1> DEFINE b == NewBundle(id, a)
           owed == a.borrowAmount + CalculateFlashLoanFee(a.borrowAmount)
           costs == Tip(a) + TXN_FEES_LAMPORTS
<1>1. /\ a.mint \in Mint /\ a.borrowAmount \in Nat /\ a.returnAmount \in Nat
      /\ a.forwardSwapIx \in SwapInstructions /\ a.returnSwapIx \in SwapInstructions
  BY MaxSafeAssumption DEF Arb, Asked
<1>2. Tip(a) \in Nat /\ CalculateFlashLoanFee(a.borrowAmount) \in Nat
  BY <1>1, Worthwhile, FeesTyped DEF Tip, Gross
<1>3. a.returnAmount > owed + costs
  BY <1>1, Worthwhile DEF Tip, Gross
<1>4. owed \in Nat /\ costs \in Nat
  BY <1>1, <1>2 DEF TXN_FEES_LAMPORTS
<1> HIDE DEF owed, costs
<1>5. a.returnAmount * UsdcValue > owed * UsdcValue + costs
  BY <1>1, <1>3, <1>4, UsdcValueAssumption, ProfitInValue
<1>6. Value(a.mint, a.returnAmount) > Value(a.mint, owed) + costs
  BY <1>3, <1>5 DEF Value
<1>7. Value(a.mint, owed) \in Nat
  BY <1>4, UsdcValueAssumption DEF Value
<1>8. Value(a.mint, a.returnAmount) > Value(a.mint, owed) + Tip(a) + TXN_FEES_LAMPORTS
  BY <1>2, <1>6, <1>7 DEF costs, TXN_FEES_LAMPORTS
<1>9. /\ b.mint = a.mint /\ b.returnAmount = a.returnAmount /\ b.borrowAmount = a.borrowAmount
      /\ b.tip = Tip(a) /\ b.borrowInstructionIndex = BorrowInstructionIndex
      /\ b.instructions = Instructions(a.mint, a.forwardSwapIx, a.returnSwapIx)
  BY DEF NewBundle
<1>10. RepaysItsBorrow(b.instructions, b.borrowInstructionIndex)
  BY <1>1, <1>9, Layout
<1>11. b.borrowAmount <= MAX_SAFE_INTEGER
  BY <1>9, MaxSafeAssumption DEF Arb, Asked
<1> QED BY <1>8, <1>9, <1>10, <1>11 DEF Sound, owed

LEMMA SoundInv == SearcherInv /\ (\A n \in DOMAIN sends : Sound(sends[n])) /\ [Next]_vars
                    => (\A n \in DOMAIN sends : Sound(sends[n]))'
<1> SUFFICES ASSUME SearcherInv, \A n \in DOMAIN sends : Sound(sends[n]), [Next]_vars,
                    NEW n \in DOMAIN sends'
             PROVE  Sound(sends'[n])
  BY DEF Sound, Value
<1>1. CASE sends' = sends
  BY <1>1
<1>2. ASSUME NEW id \in BundleIds, sends' = Append(sends, NewBundle(id, arb)),
             WorthBuilding(arb.borrowAmount, arb.returnAmount)
      PROVE  Sound(sends'[n])
  <2>1. sends \in Seq(Bundle) /\ arb \in Arb
    BY DEF SearcherInv, TypeOK
  <2>2. Sound(NewBundle(id, arb))
    BY <1>2, <2>1, NewBundleSound
  <2>3. CASE n \in DOMAIN sends
    BY <1>2, <2>1, <2>3
  <2>4. CASE n = Len(sends) + 1
    BY <1>2, <2>1, <2>2, <2>4
  <2> QED BY <1>2, <2>1, <2>3, <2>4
<1> QED BY <1>1, <1>2, SendsStep

\* Whatever is sent earns more than it costs, for every tip configuration, every
\* trade and quote, and every price at which a unit of USDC is worth a lamport.
THEOREM CostsAreCovered == Spec => []CostsCovered
<1>1. Init => \A n \in DOMAIN sends : Sound(sends[n])
  BY DEF Init
<1>2. (\A n \in DOMAIN sends : Sound(sends[n])) => CostsCovered
  BY DEF CostsCovered, Sound
<1> QED BY <1>1, <1>2, InitInv, NextInv, SoundInv, PTL DEF Spec

\* Whatever is sent takes its loan and repays it, for every answer of Jupiter.
THEOREM LoansAreRepaid == Spec => []LoanRepaid
<1>1. Init => \A n \in DOMAIN sends : Sound(sends[n])
  BY DEF Init
<1>2. (\A n \in DOMAIN sends : Sound(sends[n])) => LoanRepaid
  BY DEF LoanRepaid, Sound
<1> QED BY <1>1, <1>2, InitInv, NextInv, SoundInv, PTL DEF Spec

\* In simulation mode nothing is ever sent.
THEOREM NothingSentInSimulationMode == Spec => []DryRun
<1>1. Init => DryRun
  BY DEF Init, DryRun
<1>2. SearcherInv /\ DryRun /\ [Next]_vars => DryRun'
  <2> SUFFICES ASSUME SearcherInv, DryRun, [Next]_vars PROVE DryRun'
    OBVIOUS
  <2> QED BY SendsStep DEF DryRun
<1> QED BY <1>1, <1>2, InitInv, NextInv, PTL DEF Spec

-----------------------------------------------------------------------------
(***************************************************************************)
(* The trade records                                                       *)
(***************************************************************************)
LEMMA ForgottenStep == SearcherInv /\ NoRecordForgotten /\ [Next]_vars => NoRecordForgotten'
<1> SUFFICES ASSUME SearcherInv, NoRecordForgotten, [Next]_vars,
                    NEW id \in BundleIds, bundlesInTransit'[id] # NoRecord
             PROVE  Pending(id)'
  BY DEF NoRecordForgotten
<1>1. timers \in Seq(Sent) /\ sends \in Seq(Bundle)
  BY DEF SearcherInv, TypeOK
<1>2. CASE UNCHANGED <<timers, checks, bundlesInTransit>>
  <2>1. \A n \in DOMAIN sends : n \in DOMAIN sends' /\ sends'[n] = sends[n]
    <3>1. CASE sends' = sends
      BY <3>1
    <3>2. ASSUME NEW b, sends' = Append(sends, b)
          PROVE  \A n \in DOMAIN sends : n \in DOMAIN sends' /\ sends'[n] = sends[n]
      BY <1>1, <3>2
    <3> QED BY <3>1, <3>2, SendsStep
  <2>2. Pending(id)
    BY <1>2 DEF NoRecordForgotten
  <2>3. CASE \E i \in DOMAIN timers : sends[timers[i]].id = id
    BY <1>2, <2>1, <2>3 DEF Pending, SearcherInv, TrackInv
  <2>4. CASE \E n \in Sent : checks[n] # NoRecord /\ sends[n].id = id
    BY <1>2, <2>1, <2>4 DEF Pending, SearcherInv, TrackInv
  <2> QED BY <2>2, <2>3, <2>4 DEF Pending
<1>3. CASE SendBundle
  <2>1. /\ timers' = Append(timers, Len(sends)) /\ UNCHANGED <<sends, checks>>
        /\ bundlesInTransit' = [bundlesInTransit EXCEPT ![sends[Len(sends)].id] = Len(sends)]
    BY <1>3 DEF SendBundle, Armed
  <2>2. /\ Len(timers) + 1 \in DOMAIN timers' /\ timers'[Len(timers) + 1] = Len(sends)
        /\ \A i \in DOMAIN timers : i \in DOMAIN timers' /\ timers'[i] = timers[i]
    BY <1>1, <2>1
  <2>3. CASE id = sends[Len(sends)].id
    BY <2>1, <2>2, <2>3 DEF Pending
  <2>4. CASE id # sends[Len(sends)].id
    <3>1. bundlesInTransit[id] # NoRecord
      BY <2>1, <2>4 DEF SearcherInv, TypeOK
    <3>2. Pending(id)
      BY <3>1 DEF NoRecordForgotten
    <3> QED BY <2>1, <2>2, <3>2 DEF Pending
  <2> QED BY <2>3, <2>4
<1>4. CASE TimerFires
  <2> DEFINE n == Head(timers)
  <2>1. /\ timers # <<>> /\ timers' = Tail(timers) /\ UNCHANGED <<sends, bundlesInTransit>>
        /\ checks' = [checks EXCEPT ![n] = bundlesInTransit[sends[n].id]]
    BY <1>4 DEF TimerFires, WhileChecking
  <2>2. /\ n \in Sent
        /\ \A i \in DOMAIN timers : (i = 1 /\ timers[i] = n) \/ (i - 1 \in DOMAIN timers' /\ timers'[i - 1] = timers[i])
    BY <1>1, <2>1
  <2> HIDE DEF n
  <2>3. bundlesInTransit[id] # NoRecord /\ Pending(id)
    BY <2>1 DEF NoRecordForgotten
  <2>4. checks' \in [Sent -> {NoRecord} \cup Sent] /\ checks \in [Sent -> {NoRecord} \cup Sent]
    BY NextInv DEF SearcherInv, TypeOK
  <2>5. CASE sends[n].id = id
    <3>1. checks'[n] # NoRecord /\ sends'[n].id = id
      BY <2>1, <2>2, <2>3, <2>4, <2>5
    <3> QED BY <3>1, <2>2 DEF Pending
  <2>6. CASE sends[n].id # id
    <3>1. CASE \E i \in DOMAIN timers : sends[timers[i]].id = id
      BY <2>1, <2>2, <2>6, <3>1 DEF Pending
    <3>2. CASE \E k \in Sent : checks[k] # NoRecord /\ sends[k].id = id
      <4>1. PICK k \in Sent : checks[k] # NoRecord /\ sends[k].id = id
        BY <3>2
      <4>2. checks'[k] = checks[k]
        BY <2>1, <2>4, <2>6, <4>1
      <4> QED BY <2>1, <4>1, <4>2 DEF Pending
    <3> QED BY <2>3, <3>1, <3>2 DEF Pending
  <2> QED BY <2>5, <2>6
<1>5. ASSUME NEW n \in Sent, NEW landed \in BOOLEAN, Checked(n, landed)
      PROVE  Pending(id)'
  <2>1. /\ UNCHANGED <<sends, timers>>
        /\ checks' = [checks EXCEPT ![n] = NoRecord]
        /\ bundlesInTransit' = [bundlesInTransit EXCEPT ![sends[n].id] = NoRecord]
    BY <1>5 DEF Checked, Deleted
  <2>2. id # sends[n].id /\ bundlesInTransit[id] # NoRecord
    BY <2>1 DEF SearcherInv, TypeOK
  <2>3. Pending(id)
    BY <2>2 DEF NoRecordForgotten
  <2>4. CASE \E i \in DOMAIN timers : sends[timers[i]].id = id
    BY <2>1, <2>4 DEF Pending
  <2>5. CASE \E k \in Sent : checks[k] # NoRecord /\ sends[k].id = id
    <3>1. PICK k \in Sent : checks[k] # NoRecord /\ sends[k].id = id
      BY <2>5
    <3>2. checks'[k] = checks[k]
      BY <2>1, <2>2, <3>1 DEF SearcherInv, TypeOK
    <3> QED BY <2>1, <3>1, <3>2 DEF Pending
  <2> QED BY <2>3, <2>4, <2>5 DEF Pending
<1> QED
  BY <1>2, <1>3, <1>4, <1>5 DEF Next, vars, tracking, HandleTrade, ForwardQuote, ReturnQuote, ForwardSwap,
     ReturnSwap, Built, Failure, Simulated, Wait, BundleResult

\* No trade record stays in bundlesInTransit without a timer or a landing check
\* that will delete it, for any number of bundles and of repeated bundle ids.
THEOREM RecordsAreNotForgotten == Spec => []NoRecordForgotten
<1>1. Init => NoRecordForgotten
  BY DEF Init, NoRecordForgotten
<1> QED BY <1>1, InitInv, NextInv, ForgottenStep, PTL DEF Spec

-----------------------------------------------------------------------------
(***************************************************************************)
(* The rows of the trade log                                               *)
(***************************************************************************)

\* The bundles whose sendBundle is over.
Over == {n \in DOMAIN sends : Answered(n)}

\* What the timers, landing checks, rows and results can be about.
BooksInv ==
  /\ \A id \in BundleIds : bundlesInTransit[id] # NoRecord =>
       bundlesInTransit[id] \in Over /\ sends[bundlesInTransit[id]].id = id
  /\ \A n \in Sent : checks[n] # NoRecord =>
       n \in Over /\ checks[n] \in Over /\ sends[checks[n]].id = sends[n].id
  /\ \A i \in DOMAIN timers : timers[i] \in Over /\ checks[timers[i]] = NoRecord
  /\ IsInjective(timers)
  /\ \A i \in DOMAIN rows : rows[i].trade \in Over
  /\ \A n \in Sent : n \notin Over => record[n] = NewRecord /\ heard[n] = NewRecord

\* The record of a bundle that was sent once is in the map until its row is
\* written, and has noted what was heard.
Awaited(n) == (\E i \in DOMAIN timers : timers[i] = n) \/ checks[n] # NoRecord
InTransit(n) == bundlesInTransit[sends[n].id] = n
FaithInv ==
  \A n \in Sent : SentOnce(n) /\ n \in Over =>
    /\ Awaited(n) => InTransit(n)
    /\ InTransit(n) => record[n] = heard[n] /\ ~Logged(n)
    /\ \A i, j \in RowsOf(n) : i = j
    /\ \A i \in RowsOf(n) : rows[i].result = heard[n]

\* A bundle sent once is not in transit under another id, and only its own
\* landing check awaits its record.
LEMMA OwnPlaces ==
  ASSUME BooksInv, NEW n \in Sent, SentOnce(n)
  PROVE  /\ \A id \in BundleIds : bundlesInTransit[id] = n /\ n # NoRecord => id = sends[n].id
         /\ \A m \in Sent : checks[m] = n /\ n # NoRecord => m = n
         /\ \A m \in Sent : m \in DOMAIN sends /\ sends[m].id = sends[n].id => m = n
  BY DEF BooksInv, SentOnce, Over

\* Steps that touch neither the bundles sent nor what is kept of them, and
\* await no answer of sendBundle that was not awaited.
LEMMA QuietStep ==
  ASSUME BooksInv, FaithInv, UNCHANGED <<sends, tracking, received>>,
         stage' = "sendBundle" => stage = "sendBundle"
  PROVE  BooksInv' /\ FaithInv'
<1>1. UNCHANGED <<sends, bundlesInTransit, record, timers, checks, rows, heard>>
  BY DEF tracking, received
<1>2. \A n : n \in Over => n \in Over'
  BY <1>1 DEF Over, Answered
<1>3. BooksInv'
  <2>1. \A n \in Sent : n \notin Over' => n \notin Over
    BY <1>2
  <2> QED BY <1>1, <1>2, <2>1 DEF BooksInv
<1>4. ASSUME NEW n \in Sent, SentOnce(n)', n \in Over'
      PROVE  /\ Awaited(n)' => InTransit(n)'
             /\ InTransit(n)' => record'[n] = heard'[n] /\ ~Logged(n)'
             /\ \A i, j \in RowsOf(n)' : i = j
             /\ \A i \in RowsOf(n)' : rows'[i].result = heard'[n]
  <2>1. SentOnce(n)
    BY <1>1, <1>4 DEF SentOnce
  <2>2. CASE n \in Over
    BY <1>1, <2>1, <2>2 DEF FaithInv, Awaited, InTransit, Logged, RowsOf
  <2>3. CASE n \notin Over
    <3>1. record[n] = heard[n] /\ checks[n] = NoRecord /\ \A i \in DOMAIN timers : timers[i] # n
      BY <2>3 DEF BooksInv
    <3>2. \A i \in DOMAIN rows : rows[i].trade # n
      BY <2>3 DEF BooksInv
    <3> QED BY <1>1, <3>1, <3>2 DEF Awaited, InTransit, Logged, RowsOf
  <2> QED BY <2>2, <2>3
<1> QED BY <1>3, <1>4 DEF FaithInv

\* A bundle is sent.
LEMMA SimulatedRows ==
  ASSUME SearcherInv, BooksInv, FaithInv, NEW id \in BundleIds, Simulated(id)
  PROVE  BooksInv' /\ FaithInv'
<1>1. CASE UNCHANGED sends
  <2>1. stage' = "sendBundle" => stage = "sendBundle"
    <3>1. CASE Drop
      BY <3>1 DEF Drop
    <3>2. CASE sends' = Append(sends, NewBundle(id, arb))
      <4>1. Len(sends') = Len(sends) + 1 /\ Len(sends) \in Nat
        BY <3>2 DEF SearcherInv, TypeOK
      <4> QED BY <1>1, <4>1
    <3> QED BY <3>1, <3>2 DEF Simulated
  <2> QED BY <1>1, <2>1, QuietStep DEF Simulated
<1>2. CASE sends' = Append(sends, NewBundle(id, arb)) /\ stage' = "sendBundle" /\ stage = "simulateBundle"
  <2>1. UNCHANGED <<bundlesInTransit, record, timers, checks, rows, heard>>
    BY DEF Simulated, tracking, received
  <2>2. /\ sends \in Seq(Bundle) /\ Len(sends) \in Nat
        /\ DOMAIN sends = 1 .. Len(sends) /\ DOMAIN sends' = 1 .. Len(sends) + 1 /\ Len(sends') = Len(sends) + 1
        /\ \A n \in DOMAIN sends : sends'[n] = sends[n]
    BY <1>2 DEF SearcherInv, TypeOK
  <2>3. \A n : n \in Over <=> n \in DOMAIN sends
    BY <1>2 DEF Over, Answered
  <2>4. \A n : n \in Over' <=> n \in DOMAIN sends
    BY <1>2, <2>2 DEF Over, Answered
  <2>5. \A n : n \in Over' <=> n \in Over
    BY <2>3, <2>4
  <2>6. BooksInv'
    BY <2>1, <2>2, <2>3, <2>5 DEF BooksInv
  <2>7. ASSUME NEW n \in Sent, SentOnce(n)', n \in Over'
        PROVE  /\ Awaited(n)' => InTransit(n)'
               /\ InTransit(n)' => record'[n] = heard'[n] /\ ~Logged(n)'
               /\ \A i, j \in RowsOf(n)' : i = j
               /\ \A i \in RowsOf(n)' : rows'[i].result = heard'[n]
    <3>1. n \in DOMAIN sends /\ sends'[n] = sends[n] /\ n \in Over
      BY <2>2, <2>3, <2>4, <2>7
    <3>2. SentOnce(n)
      BY <2>2, <2>7, <3>1 DEF SentOnce
    <3> QED BY <2>1, <3>1, <3>2 DEF FaithInv, Awaited, InTransit, Logged, RowsOf
  <2> QED BY <2>6, <2>7 DEF FaithInv
<1> QED BY <1>1, <1>2 DEF Simulated

\* The block engine took a bundle: its timer is set.
LEMMA SendBundleRows ==
  ASSUME SearcherInv, SearcherInv', BooksInv, FaithInv, SendBundle
  PROVE  BooksInv' /\ FaithInv'
<1>1. PICK k : k = Len(sends)
  OBVIOUS
<1>2. /\ k \in Sent /\ k \in DOMAIN sends /\ k # NoRecord /\ sends[k].id \in BundleIds
  <2>1. sends # <<>> /\ sends \in Seq(Bundle) /\ Len(sends) <= MaxSends
    BY DEF SendBundle, SearcherInv, StageInv, TypeOK
  <2>2. k \in 1 .. MaxSends /\ k \in DOMAIN sends
    BY <1>1, <2>1, BoundsAssumption
  <2>3. sends[k] \in Bundle
    BY <2>1, <2>2
  <2> QED BY <2>2, <2>3 DEF Sent, Bundle, NoRecord
<1>3. /\ UNCHANGED <<sends, record, checks, rows, heard>>
      /\ bundlesInTransit' = [bundlesInTransit EXCEPT ![sends[k].id] = k]
      /\ timers' = Append(timers, k)
      /\ stage = "sendBundle" /\ stage' = "waiting"
  BY <1>1 DEF SendBundle, Armed, Drop, received
<1>4. k \notin Over /\ (\A n : n \in Over' <=> n \in DOMAIN sends) /\ (\A n : n \in Over => n \in Over')
      /\ \A n : n # k => (n \in Over' <=> n \in Over)
  BY <1>1, <1>3 DEF Over, Answered
<1>5. bundlesInTransit \in [BundleIds -> {NoRecord} \cup Sent] /\ timers \in Seq(Sent)
  BY DEF SearcherInv, TypeOK
<1>6. /\ record[k] = NewRecord /\ heard[k] = NewRecord /\ checks[k] = NoRecord
      /\ \A i \in DOMAIN timers : timers[i] # k
      /\ \A i \in DOMAIN rows : rows[i].trade # k
  BY <1>2, <1>4 DEF BooksInv
<1>7. /\ DOMAIN timers' = DOMAIN timers \cup {Len(timers) + 1}
      /\ Len(timers) + 1 \notin DOMAIN timers
      /\ timers'[Len(timers) + 1] = k
      /\ \A i \in DOMAIN timers : timers'[i] = timers[i]
  BY <1>2, <1>3, <1>5
<1>8. BooksInv'
  <2>1. \A id \in BundleIds : bundlesInTransit'[id] # NoRecord =>
          bundlesInTransit'[id] \in Over' /\ sends'[bundlesInTransit'[id]].id = id
    BY <1>2, <1>3, <1>4, <1>5 DEF BooksInv
  <2>2. \A n \in Sent : checks'[n] # NoRecord =>
          n \in Over' /\ checks'[n] \in Over' /\ sends'[checks'[n]].id = sends'[n].id
    BY <1>3, <1>4 DEF BooksInv
  <2>3. \A i \in DOMAIN timers' : timers'[i] \in Over' /\ checks'[timers'[i]] = NoRecord
    BY <1>2, <1>3, <1>4, <1>6, <1>7 DEF BooksInv
  <2>4. IsInjective(timers')
    BY <1>6, <1>7 DEF BooksInv, IsInjective
  <2>5. /\ \A i \in DOMAIN rows' : rows'[i].trade \in Over'
        /\ \A n \in Sent : n \notin Over' => record'[n] = NewRecord /\ heard'[n] = NewRecord
    BY <1>3, <1>4 DEF BooksInv
  <2> QED BY <2>1, <2>2, <2>3, <2>4, <2>5 DEF BooksInv
<1>9. ASSUME NEW n \in Sent, SentOnce(n)', n \in Over'
      PROVE  /\ Awaited(n)' => InTransit(n)'
             /\ InTransit(n)' => record'[n] = heard'[n] /\ ~Logged(n)'
             /\ \A i, j \in RowsOf(n)' : i = j
             /\ \A i \in RowsOf(n)' : rows'[i].result = heard'[n]
  <2>1. SentOnce(n) /\ n \in DOMAIN sends
    BY <1>3, <1>9 DEF SentOnce
  <2>2. CASE n = k
    BY <1>2, <1>3, <1>5, <1>6, <2>2 DEF InTransit, Logged, RowsOf
  <2>3. CASE n # k
    <3>1. n \in Over /\ sends[n].id # sends[k].id
      BY <1>2, <1>4, <1>9, <2>1, <2>3 DEF SentOnce
    <3>2. bundlesInTransit'[sends[n].id] = bundlesInTransit[sends[n].id]
      BY <1>3, <1>5, <3>1
    <3>3. (Awaited(n)' <=> Awaited(n)) /\ (InTransit(n)' <=> InTransit(n))
      BY <1>3, <1>7, <2>3, <3>2 DEF Awaited, InTransit
    <3> QED BY <1>3, <2>1, <3>1, <3>3 DEF FaithInv, Logged, RowsOf
  <2> QED BY <2>2, <2>3
<1> QED BY <1>8, <1>9 DEF FaithInv

\* A result is noted in the record that is in transit under its id, and heard
\* by the bundles of that id that are over and not logged.
LEMMA BundleResultRows ==
  ASSUME SearcherInv, BooksInv, FaithInv, NEW id \in BundleIds, NEW kind \in Result, BundleResult(id, kind)
  PROVE  BooksInv' /\ FaithInv'
<1>1. /\ UNCHANGED <<stage, sends, bundlesInTransit, timers, checks, rows>>
      /\ record \in [Sent -> Record] /\ heard \in [Sent -> Record]
      /\ bundlesInTransit[id] \in {NoRecord} \cup Sent
  BY DEF BundleResult, handler, SearcherInv, TypeOK
<1>2. Over' = Over
  BY <1>1 DEF Over, Answered
<1>3. /\ \A n \in Sent : n # bundlesInTransit[id] => record'[n] = record[n]
      /\ bundlesInTransit[id] # NoRecord =>
           record'[bundlesInTransit[id]] = Note(record[bundlesInTransit[id]], kind)
  BY <1>1 DEF BundleResult
<1>4. \A n \in Sent :
        /\ n \in Over /\ sends[n].id = id /\ ~Logged(n) => heard'[n] = Note(heard[n], kind)
        /\ n \notin Over \/ sends[n].id # id \/ Logged(n) => heard'[n] = heard[n]
  BY DEF BundleResult, Over, Answered
<1>5. ASSUME NEW n \in Sent, n \notin Over
      PROVE  record'[n] = NewRecord /\ heard'[n] = NewRecord
  <2>1. bundlesInTransit[id] # n
    BY <1>5 DEF BooksInv, NoRecord, Sent
  <2> QED BY <1>3, <1>4, <1>5, <2>1 DEF BooksInv
<1>6. BooksInv'
  BY <1>1, <1>2, <1>5 DEF BooksInv
<1>7. ASSUME NEW n \in Sent, SentOnce(n)', n \in Over'
      PROVE  /\ Awaited(n)' => InTransit(n)'
             /\ InTransit(n)' => record'[n] = heard'[n] /\ ~Logged(n)'
             /\ \A i, j \in RowsOf(n)' : i = j
             /\ \A i \in RowsOf(n)' : rows'[i].result = heard'[n]
  <2>1. /\ SentOnce(n) /\ n \in Over /\ sends[n].id \in BundleIds /\ n # NoRecord
    <3>1. n \in DOMAIN sends /\ sends \in Seq(Bundle)
      BY <1>1, <1>7 DEF SentOnce, SearcherInv, TypeOK
    <3>2. sends[n] \in Bundle
      BY <3>1
    <3> QED BY <1>1, <1>2, <1>7, <3>2 DEF SentOnce, Bundle, Sent, NoRecord
  <2>2. /\ Awaited(n)' <=> Awaited(n)
        /\ InTransit(n)' <=> InTransit(n)
        /\ Logged(n)' <=> Logged(n)
        /\ RowsOf(n)' = RowsOf(n)
    BY <1>1 DEF Awaited, InTransit, Logged, RowsOf
  <2>3. ASSUME InTransit(n)
        PROVE  record'[n] = heard'[n] /\ ~Logged(n)
    <3>1. record[n] = heard[n] /\ ~Logged(n)
      BY <2>1, <2>3 DEF FaithInv
    <3>2. CASE sends[n].id = id
      BY <1>3, <1>4, <2>1, <2>3, <3>1, <3>2 DEF InTransit
    <3>3. CASE sends[n].id # id
      <4>1. bundlesInTransit[id] # n
        BY <2>1, <3>3, OwnPlaces
      <4> QED BY <1>3, <1>4, <3>1, <3>3, <4>1
    <3> QED BY <3>1, <3>2, <3>3
  <2>4. ASSUME NEW i \in RowsOf(n)
        PROVE  rows'[i].result = heard'[n]
    <3>1. Logged(n) /\ rows[i].result = heard[n]
      BY <2>1 DEF Logged, RowsOf, FaithInv
    <3> QED BY <1>1, <1>4, <3>1
  <2> QED BY <2>1, <2>2, <2>3, <2>4 DEF FaithInv
<1> QED BY <1>6, <1>7 DEF FaithInv

\* A timer fires: the landing check takes over from it.
LEMMA TimerRows ==
  ASSUME SearcherInv, BooksInv, FaithInv, TimerFires
  PROVE  BooksInv' /\ FaithInv'
<1>1. PICK k : k = Head(timers)
  OBVIOUS
<1>2. timers \in Seq(Sent) /\ timers # <<>> /\ checks \in [Sent -> {NoRecord} \cup Sent]
  BY DEF TimerFires, SearcherInv, TypeOK
<1>3. /\ UNCHANGED <<stage, sends, record, bundlesInTransit, rows, heard>>
      /\ timers' = Tail(timers)
      /\ checks' = [checks EXCEPT ![k] = bundlesInTransit[sends[k].id]]
  BY <1>1 DEF TimerFires, WhileChecking, handler, received
<1>4. /\ 1 \in DOMAIN timers /\ timers[1] = k /\ k \in Sent
      /\ \A i \in DOMAIN timers' : i + 1 \in DOMAIN timers /\ i + 1 # 1 /\ timers'[i] = timers[i + 1]
      /\ \A i \in DOMAIN timers : i # 1 => i - 1 \in DOMAIN timers' /\ timers'[i - 1] = timers[i]
  BY <1>1, <1>2, <1>3
<1>5. /\ k \in Over /\ checks[k] = NoRecord
      /\ \A i \in DOMAIN timers' : timers'[i] # k
  BY <1>4 DEF BooksInv, IsInjective
<1>6. k \in DOMAIN sends /\ sends[k].id \in BundleIds
  <2>1. k \in DOMAIN sends /\ sends \in Seq(Bundle)
    BY <1>5 DEF Over, SearcherInv, TypeOK
  <2>2. sends[k] \in Bundle
    BY <2>1
  <2> QED BY <2>1, <2>2 DEF Bundle
<1>7. Over' = Over
  BY <1>3 DEF Over, Answered
<1>8. BooksInv'
  <2>1. \A n \in Sent : checks'[n] # NoRecord =>
          n \in Over /\ checks'[n] \in Over /\ sends[checks'[n]].id = sends[n].id
    <3>1. SUFFICES ASSUME NEW n \in Sent, checks'[n] # NoRecord
                   PROVE  n \in Over /\ checks'[n] \in Over /\ sends[checks'[n]].id = sends[n].id
      OBVIOUS
    <3>2. CASE n = k
      BY <1>2, <1>3, <1>5, <1>6, <3>1, <3>2 DEF BooksInv
    <3>3. CASE n # k
      BY <1>2, <1>3, <3>1, <3>3 DEF BooksInv
    <3> QED BY <3>2, <3>3
  <2>2. \A i \in DOMAIN timers' : timers'[i] \in Over /\ checks'[timers'[i]] = NoRecord
    BY <1>2, <1>3, <1>4, <1>5 DEF BooksInv
  <2>3. IsInjective(timers')
    <3>1. SUFFICES ASSUME NEW i \in DOMAIN timers', NEW j \in DOMAIN timers', timers'[i] = timers'[j]
                   PROVE  i = j
      BY DEF IsInjective
    <3>2. i + 1 = j + 1
      BY <1>4, <3>1 DEF BooksInv, IsInjective
    <3>3. i \in Nat /\ j \in Nat
      BY <1>2, <1>3
    <3> QED BY <3>2, <3>3
  <2> QED BY <1>3, <1>7, <2>1, <2>2, <2>3 DEF BooksInv
<1>9. ASSUME NEW n \in Sent, SentOnce(n)', n \in Over'
      PROVE  /\ Awaited(n)' => InTransit(n)'
             /\ InTransit(n)' => record'[n] = heard'[n] /\ ~Logged(n)'
             /\ \A i, j \in RowsOf(n)' : i = j
             /\ \A i \in RowsOf(n)' : rows'[i].result = heard'[n]
  <2>1. SentOnce(n) /\ n \in Over
    BY <1>3, <1>7, <1>9 DEF SentOnce
  <2>2. /\ InTransit(n)' <=> InTransit(n)
        /\ Logged(n)' <=> Logged(n)
        /\ RowsOf(n)' = RowsOf(n)
    BY <1>3 DEF InTransit, Logged, RowsOf
  <2>3. Awaited(n)' => Awaited(n)
    BY <1>2, <1>3, <1>4 DEF Awaited
  <2> QED BY <1>3, <2>1, <2>2, <2>3 DEF FaithInv
<1> QED BY <1>8, <1>9 DEF FaithInv

\* A landing check ends: it writes the row and deletes the record.
LEMMA CheckedRows ==
  ASSUME SearcherInv, BooksInv, FaithInv, NEW k \in Sent, NEW landed \in BOOLEAN, Checked(k, landed)
  PROVE  BooksInv' /\ FaithInv'
<1>1. PICK t : t = checks[k]
  OBVIOUS
<1>2. /\ UNCHANGED <<stage, sends, record, timers, heard>>
      /\ t # NoRecord
      /\ checks' = [checks EXCEPT ![k] = NoRecord]
      /\ rows' = Append(rows, [trade |-> t, result |-> record[t], landed |-> landed])
      /\ bundlesInTransit' = [bundlesInTransit EXCEPT ![sends[k].id] = NoRecord]
  BY <1>1 DEF Checked, Deleted, handler, received
<1>3. /\ checks \in [Sent -> {NoRecord} \cup Sent] /\ bundlesInTransit \in [BundleIds -> {NoRecord} \cup Sent]
      /\ rows \in Seq([trade : Sent, result : Record, landed : BOOLEAN])
      /\ t \in Sent /\ record[t] \in Record
  BY <1>1, <1>2 DEF SearcherInv, TypeOK
<1>4. k \in Over /\ t \in Over /\ sends[t].id = sends[k].id
  BY <1>1, <1>2 DEF BooksInv
<1>5. Over' = Over
  BY <1>2 DEF Over, Answered
<1>6. /\ DOMAIN rows' = DOMAIN rows \cup {Len(rows) + 1} /\ Len(rows) + 1 \notin DOMAIN rows
      /\ \A i \in DOMAIN rows : rows'[i] = rows[i]
      /\ rows'[Len(rows) + 1].trade = t /\ rows'[Len(rows) + 1].result = record[t]
  <2>1. PICK row : row = [trade |-> t, result |-> record[t], landed |-> landed]
    OBVIOUS
  <2>2. row \in [trade : Sent, result : Record, landed : BOOLEAN] /\ row.trade = t /\ row.result = record[t]
    BY <1>3, <2>1
  <2> QED BY <1>2, <1>3, <2>1, <2>2
<1>7. BooksInv'
  <2>1. \A id \in BundleIds : bundlesInTransit'[id] # NoRecord =>
          bundlesInTransit'[id] \in Over /\ sends[bundlesInTransit'[id]].id = id
    BY <1>2, <1>3 DEF BooksInv
  <2>2. \A n \in Sent : checks'[n] # NoRecord =>
          n \in Over /\ checks'[n] \in Over /\ sends[checks'[n]].id = sends[n].id
    BY <1>2, <1>3 DEF BooksInv
  <2>3. \A i \in DOMAIN timers : timers[i] \in Over /\ checks'[timers[i]] = NoRecord
    <3>1. \A i \in DOMAIN timers : timers[i] \in Sent
      BY DEF SearcherInv, TypeOK
    <3> QED BY <1>2, <1>3, <3>1 DEF BooksInv
  <2>4. \A i \in DOMAIN rows' : rows'[i].trade \in Over
    BY <1>4, <1>6 DEF BooksInv
  <2> QED BY <1>2, <1>5, <2>1, <2>2, <2>3, <2>4 DEF BooksInv
<1>8. ASSUME NEW n \in Sent, SentOnce(n)', n \in Over'
      PROVE  /\ Awaited(n)' => InTransit(n)'
             /\ InTransit(n)' => record'[n] = heard'[n] /\ ~Logged(n)'
             /\ \A i, j \in RowsOf(n)' : i = j
             /\ \A i \in RowsOf(n)' : rows'[i].result = heard'[n]
  <2>1. SentOnce(n) /\ n \in Over /\ n \in DOMAIN sends
    BY <1>2, <1>5, <1>8 DEF SentOnce
  <2>2. sends[n].id \in BundleIds
    <3>1. sends \in Seq(Bundle)
      BY DEF SearcherInv, TypeOK
    <3>2. sends[n] \in Bundle
      BY <2>1, <3>1
    <3> QED BY <3>2 DEF Bundle
  <2>3. CASE n = t
    <3>1. n = k
      BY <1>4, <2>1, <2>3, OwnPlaces DEF Over
    <3>2. InTransit(n) /\ record[n] = heard[n] /\ ~Logged(n)
      BY <1>1, <1>2, <2>1, <3>1 DEF FaithInv, Awaited
    <3>3. ~InTransit(n)'
      BY <1>2, <1>3, <2>2, <3>1 DEF InTransit, NoRecord, Sent
    <3>4. ~Awaited(n)'
      <4>1. checks'[n] = NoRecord
        BY <1>2, <1>3, <3>1
      <4>2. \A i \in DOMAIN timers : timers[i] # n
        BY <1>1, <1>2, <3>1 DEF BooksInv
      <4> QED BY <1>2, <4>1, <4>2 DEF Awaited
    <3>5. RowsOf(n)' = {Len(rows) + 1}
      BY <1>6, <2>3, <3>2 DEF RowsOf, Logged
    <3> QED BY <1>2, <1>6, <2>3, <3>2, <3>3, <3>4, <3>5
  <2>4. CASE n # t
    <3>1. sends[n].id # sends[k].id
      BY <1>4, <2>1, <2>4 DEF SentOnce, Over
    <3>2. bundlesInTransit'[sends[n].id] = bundlesInTransit[sends[n].id] /\ checks'[n] = checks[n]
      BY <1>2, <1>3, <2>2, <3>1
    <3>3. (Awaited(n)' <=> Awaited(n)) /\ (InTransit(n)' <=> InTransit(n))
      BY <1>2, <3>2 DEF Awaited, InTransit
    <3>4. RowsOf(n)' = RowsOf(n) /\ (Logged(n)' <=> Logged(n))
      BY <1>6, <2>4 DEF RowsOf, Logged
    <3>5. \A i \in RowsOf(n) : rows'[i] = rows[i]
      BY <1>6 DEF RowsOf
    <3> QED BY <1>2, <2>1, <3>3, <3>4, <3>5 DEF FaithInv
  <2> QED BY <2>3, <2>4
<1> QED BY <1>7, <1>8 DEF FaithInv

LEMMA NextRows == SearcherInv /\ BooksInv /\ FaithInv /\ [Next]_vars => BooksInv' /\ FaithInv'
<1> SUFFICES ASSUME SearcherInv, BooksInv, FaithInv, [Next]_vars PROVE BooksInv' /\ FaithInv'
  OBVIOUS
<1>1. ASSUME UNCHANGED <<sends, tracking, received>>, stage' = "sendBundle" => stage = "sendBundle"
      PROVE  BooksInv' /\ FaithInv'
  BY <1>1, QuietStep
<1>2. ASSUME NEW mint \in Mint, NEW size \in TradeSizes, HandleTrade(mint, size)
      PROVE  BooksInv' /\ FaithInv'
  BY <1>1, <1>2 DEF HandleTrade, AskQuote, Drop
<1>3. ASSUME NEW out \in OutAmounts, ForwardQuote(out) \/ ReturnQuote(out)
      PROVE  BooksInv' /\ FaithInv'
  BY <1>1, <1>3 DEF ForwardQuote, ReturnQuote, AskQuote, Drop
<1>4. ASSUME NEW swapIx \in SwapAnswers, ForwardSwap(swapIx) \/ ReturnSwap(swapIx)
      PROVE  BooksInv' /\ FaithInv'
  BY <1>1, <1>4 DEF ForwardSwap, ReturnSwap
<1>5. CASE Built \/ Failure
  BY <1>1, <1>5 DEF Built, Failure, Drop
<1>6. CASE Wait \/ UNCHANGED vars
  BY <1>1, <1>6 DEF Wait, vars, handler
<1>7. CASE SendBundle
  BY <1>7, NextInv, SendBundleRows
<1>8. CASE TimerFires
  BY <1>8, TimerRows
<1> QED
  BY <1>2, <1>3, <1>4, <1>5, <1>6, <1>7, <1>8, SimulatedRows, BundleResultRows, CheckedRows DEF Next

\* A bundle that was sent once has at most one row, and the row counts every
\* result received from the answer of sendBundle to the row, for any number of
\* bundles and results.
THEOREM RowsAreFaithful == Spec => []RowIsFaithful
<1>1. Init => BooksInv /\ FaithInv
  <2> SUFFICES ASSUME Init PROVE BooksInv /\ FaithInv
    OBVIOUS
  <2>1. Over = {}
    BY DEF Init, Over
  <2>2. \A id \in BundleIds : bundlesInTransit[id] = NoRecord
    BY DEF Init
  <2>3. \A n \in Sent : checks[n] = NoRecord /\ record[n] = NewRecord /\ heard[n] = NewRecord
    BY DEF Init
  <2>4. DOMAIN timers = {} /\ DOMAIN rows = {}
    BY DEF Init
  <2> QED BY <2>1, <2>2, <2>3, <2>4 DEF BooksInv, FaithInv, IsInjective
<1>2. SearcherInv /\ BooksInv /\ FaithInv => RowIsFaithful
  <2> SUFFICES ASSUME SearcherInv, BooksInv, FaithInv, NEW n \in Sent, SentOnce(n)
               PROVE  /\ Cardinality(RowsOf(n)) <= 1
                      /\ \A i \in RowsOf(n) : rows[i].result = heard[n]
    BY DEF RowIsFaithful
  <2>1. CASE n \notin Over
    <3>1. RowsOf(n) = {}
      BY <2>1 DEF BooksInv, RowsOf
    <3> QED BY <3>1, FS_EmptySet
  <2>2. CASE n \in Over
    <3>1. RowsOf(n) = {} \/ \E i : RowsOf(n) = {i}
      BY <2>2 DEF FaithInv
    <3>2. Cardinality(RowsOf(n)) = 0 \/ Cardinality(RowsOf(n)) = 1
      BY <3>1, FS_EmptySet, FS_Singleton
    <3>3. Cardinality(RowsOf(n)) <= 1
      BY <3>2
    <3> QED BY <2>2, <3>3 DEF FaithInv
  <2> QED BY <2>1, <2>2
<1>3. SearcherInv /\ BooksInv /\ FaithInv /\ [Next]_vars => (BooksInv /\ FaithInv)'
  BY NextRows
<1> QED BY <1>1, <1>2, <1>3, InitInv, NextInv, PTL DEF Spec
=============================================================================
