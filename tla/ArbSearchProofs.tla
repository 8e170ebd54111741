--------------------------- MODULE ArbSearchProofs ---------------------------
(***************************************************************************)
(* Proofs about the search of ArbSearch, for every market graph, every set *)
(* of simulations, every number of steps and every bound on its time: the  *)
(* routes it asks for are the circles of the trade and undo it, a quote    *)
(* stays with its route, and it yields the best idea it was told of.       *)
(***************************************************************************)
EXTENDS ArbSearch, FiniteSetTheorems, WellFoundedInduction, TLAPS

Quotes == [in : Nat, out : Nat]
Ideas == [route : Seq(RouteHop), quote : Quotes]

-----------------------------------------------------------------------------
(***************************************************************************)
(* Numbers                                                                 *)
(***************************************************************************)
LEMMA FeeOfALoan ==
  ASSUME NEW in \in Nat PROVE FlashloanFee(in) \in Nat
BY SizesAssumption DEF FlashloanFee

LEMMA ProfitIsInteger ==
  ASSUME NEW q \in Quotes PROVE GetProfitForQuote(q) \in Int
<1>1. q.in \in Nat /\ q.out \in Nat
  BY DEF Quotes
<1> QED BY <1>1, FeeOfALoan DEF GetProfitForQuote

\* Nothing comes of a route that failed or timed out.
LEMMA NoProfitOfNoOutput ==
  ASSUME NEW q \in Quotes, q.out = 0 PROVE GetProfitForQuote(q) <= 0
<1>1. q.in \in Nat /\ FlashloanFee(q.in) \in Nat
  BY FeeOfALoan DEF Quotes
<1> QED BY <1>1 DEF GetProfitForQuote

LEMMA TradeFacts ==
  ASSUME NEW s \in Simulations, NEW t \in PostSimulateFilter(s)
  PROVE  /\ t \in Trades
         /\ t.market = s.market /\ t.market \in Market /\ t.market \in OfInterest
         /\ t.baseIsTokenA = TokenAIsBase(t.market)
         /\ t.baseIsTokenA \in BOOLEAN
         /\ t.tradeDirection \in Direction
         /\ t.tradeSizeA \in Nat /\ t.tradeSizeB \in Nat
<1>1. /\ s.market \in Market /\ s.market \in OfInterest
      /\ s.pre.A \in Nat /\ s.pre.B \in Nat /\ s.post.A \in Nat /\ s.post.B \in Nat
  BY SizesAssumption, InterestAssumption DEF SimulatedMarket, Vaults
<1>2. t = [market |-> s.market, baseIsTokenA |-> TokenAIsBase(s.market),
           tradeDirection |-> TradeDirection(s),
           tradeSizeA |-> Abs(Diff(s, "A")), tradeSizeB |-> Abs(Diff(s, "B"))]
  BY DEF PostSimulateFilter
<1>3. Abs(Diff(s, "A")) \in Nat /\ Abs(Diff(s, "B")) \in Nat
  BY <1>1 DEF Abs, Diff
<1>4. TokenAIsBase(s.market) \in BOOLEAN /\ TradeDirection(s) \in Direction
  BY DEF TokenAIsBase, TradeDirection, Direction
<1>5. t \in Trades
  BY DEF Trades
<1> QED BY <1>1, <1>2, <1>3, <1>4, <1>5

LEMMA TradeOf ==
  ASSUME NEW t \in Trades
  PROVE  \E s \in Simulations : t \in PostSimulateFilter(s)
BY DEF Trades

LEMMA SizeIsNatural ==
  ASSUME NEW t \in Trades, NEW n \in Nat
  PROVE  /\ TradeSizeBase(t) \in Nat /\ TradeSizeQuote(t) \in Nat
         /\ StepSize(t) * n \in Nat
<1>1. PICK s \in Simulations : t \in PostSimulateFilter(s)
  BY TradeOf
<1>2. t.tradeSizeA \in Nat /\ t.tradeSizeB \in Nat
  BY <1>1, TradeFacts
<1>3. TradeSizeBase(t) \in Nat /\ TradeSizeQuote(t) \in Nat
  BY <1>2 DEF TradeSizeBase, TradeSizeQuote
<1>4. StepSize(t) \in Nat
  BY <1>3, StepsAssumption DEF StepSize
<1> QED BY <1>3, <1>4

-----------------------------------------------------------------------------
(***************************************************************************)
(* The loop over the quotes                                                *)
(***************************************************************************)
LEMMA LeastNumber ==
  ASSUME NEW S, S \subseteq Nat, S # {}
  PROVE  \E s \in S : \A t \in S : s <= t
<1>1. PICK s \in S : \A t \in S : ~(<<t, s>> \in OpToRel(<, Nat))
  BY NatLessThanWellFounded, WFMin
<1>2. \A t \in S : t \in Nat /\ s \in Nat
  OBVIOUS
<1>3. \A t \in S : ~(t < s)
  BY <1>1, <1>2 DEF OpToRel
<1> QED BY <1>2, <1>3

LEMMA JudgeIsJudgement ==
  ASSUME NEW i, NEW s PROVE Judge(i, s) = Judgement(i, s)
BY DEF Judge

\* What is left of the routes after the quotes n, n-1, .. of a step.
IsLoop(f, s, n, m) == f = [k \in 0 .. m |-> IF k = 0 THEN s ELSE Judge(n - k + 1, f[k - 1])]

\* The recursive function of Backwards exists: the least m up to which it does
\* not would have a predecessor up to which it does.
LEMMA LoopExists ==
  ASSUME NEW s, NEW n \in Nat
  PROVE  \E f : IsLoop(f, s, n, n)
<1> DEFINE Bad == {m \in Nat : ~\E f : IsLoop(f, s, n, m)}
<1>1. SUFFICES ASSUME Bad # {} PROVE FALSE
  OBVIOUS
<1>2. PICK m \in Bad : \A t \in Bad : m <= t
  BY <1>1, LeastNumber
<1>3. m \in Nat /\ ~\E f : IsLoop(f, s, n, m)
  OBVIOUS
<1>4. m # 0
  <2> DEFINE g == [k \in 0 .. 0 |-> s]
  <2>1. g = [k \in 0 .. 0 |-> IF k = 0 THEN s ELSE Judge(n - k + 1, g[k - 1])]
    OBVIOUS
  <2> HIDE DEF g
  <2> QED BY <2>1, <1>3 DEF IsLoop
<1>5. m - 1 \in Nat /\ ~(m <= m - 1)
  BY <1>3, <1>4
<1>6. PICK f : IsLoop(f, s, n, m - 1)
  BY <1>2, <1>5
<1> DEFINE g == [k \in 0 .. m |-> IF k = m THEN Judge(n - m + 1, f[m - 1]) ELSE f[k]]
<1>7. f = [k \in 0 .. (m - 1) |-> IF k = 0 THEN s ELSE Judge(n - k + 1, f[k - 1])]
  BY <1>6 DEF IsLoop
<1>8. \A k \in 0 .. (m - 1) : f[k] = IF k = 0 THEN s ELSE Judge(n - k + 1, f[k - 1])
  <2> HIDE DEF Bad, g
  <2> QED BY <1>7
<1>9. \A k \in 0 .. m : g[k] = IF k = 0 THEN s ELSE Judge(n - k + 1, g[k - 1])
  <2> TAKE k \in 0 .. m
  <2>1. CASE k = m
    <3>1. g[k] = Judge(n - m + 1, f[m - 1]) /\ g[m - 1] = f[m - 1]
      BY <2>1, <1>3, <1>5
    <3> QED BY <3>1, <2>1, <1>4
  <2>2. CASE k # m
    <3>1. k \in 0 .. (m - 1) /\ g[k] = f[k]
      BY <2>2, <1>3
    <3>2. k # 0 => k - 1 \in 0 .. m /\ k - 1 # m
      BY <1>3
    <3>3. k # 0 => g[k - 1] = f[k - 1]
      BY <3>2
    <3> HIDE DEF g
    <3> QED BY <3>1, <3>3, <1>8
  <2> QED BY <2>1, <2>2
<1>10. g = [k \in 0 .. m |-> IF k = 0 THEN s ELSE Judge(n - k + 1, g[k - 1])]
  <2>1. g = [k \in 0 .. m |-> g[k]]
    OBVIOUS
  <2> HIDE DEF g
  <2> QED BY <2>1, <1>9
<1> HIDE DEF g
<1> QED BY <1>10, <1>3 DEF IsLoop

LEMMA LoopSteps ==
  ASSUME NEW s, NEW n \in Nat, n = Len(quotes)
  PROVE  \E f : /\ f[0] = s
                /\ \A k \in 1 .. n : f[k] = Judgement(n - k + 1, f[k - 1])
                /\ f[n] = Backwards(s)
<1> DEFINE f == CHOOSE f : IsLoop(f, s, n, n)
<1>1. IsLoop(f, s, n, n)
  BY LoopExists
<1>2. f[n] = Backwards(s)
  BY DEF Backwards, IsLoop
<1>3. f = [k \in 0 .. n |-> IF k = 0 THEN s ELSE Judge(n - k + 1, f[k - 1])]
  BY <1>1 DEF IsLoop
<1> HIDE DEF f
<1>4. \A k \in 0 .. n : f[k] = IF k = 0 THEN s ELSE Judge(n - k + 1, f[k - 1])
  BY <1>3
<1>5. f[0] = s
  BY <1>4
<1>6. \A k \in 1 .. n : f[k] = Judge(n - k + 1, f[k - 1])
  BY <1>4
<1> QED BY <1>2, <1>5, <1>6, JudgeIsJudgement

-----------------------------------------------------------------------------
(***************************************************************************)
(* What the loop does to the best quotes                                   *)
(***************************************************************************)

\* An answer that is not missed: it made no profit, or its route has a better one.
Beaten(a, best) ==
  \/ GetProfitForQuote(a.quote) <= 0
  \/ /\ a.route \in DOMAIN best
     /\ GetProfitForQuote(a.quote) <= GetProfitForQuote(best[a.route])

\* The answer is the quote of one of the first n routes.
AmongFirst(a, n) == \E j \in 1 .. n : arbRoutes[j] = a.route /\ quotes[j] = a.quote

BestAreAnswers(best) ==
  \A r \in DOMAIN best :
    /\ [route |-> r, quote |-> best[r]] \in answers
    /\ GetProfitForQuote(best[r]) > 0

\* The quotes of the step, each of the route at its index.
StepInv ==
  /\ arbRoutes \in Seq(Seq(RouteHop))
  /\ quotes \in Seq(Quotes \cup {Pending})
  /\ Len(quotes) = Len(arbRoutes)
  /\ answers \subseteq Ideas
  /\ \A i \in 1 .. Len(quotes) :
       quotes[i] # Pending /\ quotes[i].out # 0 =>
         [route |-> arbRoutes[i], quote |-> quotes[i]] \in answers

AllAnswered == \A i \in DOMAIN quotes : quotes[i] # Pending

Remain(routes, n) ==
  /\ routes \in Seq(Seq(RouteHop))
  /\ Len(routes) >= n
  /\ \A j \in 1 .. n : routes[j] = arbRoutes[j]

LoopInv(u, n) ==
  /\ DOMAIN u = {"routes", "best", "found"}
  /\ u.found \in BOOLEAN
  /\ u = [routes |-> u.routes, best |-> u.best, found |-> u.found]
  /\ Remain(u.routes, n)
  /\ BestAreAnswers(u.best)
  /\ \A a \in answers : Beaten(a, u.best) \/ AmongFirst(a, n)

LEMMA RemainAfterDrop ==
  ASSUME NEW n \in Nat \ {0}, NEW routes, Remain(routes, n)
  PROVE  Remain(RemoveAt(routes, n), n - 1)
<1>1. routes \in Seq(Seq(RouteHop)) /\ Len(routes) >= n
  BY DEF Remain
<1>2. PICK len \in Nat : len = Len(routes)
  BY <1>1
<1> DEFINE front == SubSeq(routes, 1, n - 1)
           back == SubSeq(routes, n + 1, Len(routes))
<1>3. /\ front \in Seq(Seq(RouteHop)) /\ Len(front) = n - 1
      /\ \A j \in 1 .. n - 1 : front[j] = routes[j]
  BY <1>1, <1>2
<1>4. back \in Seq(Seq(RouteHop))
  BY <1>1, <1>2
<1>5. RemoveAt(routes, n) = front \o back
  BY DEF RemoveAt
<1> HIDE DEF front, back
<1>6. \A j \in 1 .. n - 1 : (front \o back)[j] = front[j]
  BY <1>3, <1>4
<1>7. front \o back \in Seq(Seq(RouteHop)) /\ Len(front \o back) >= n - 1
  BY <1>3, <1>4
<1>8. \A j \in 1 .. n - 1 : routes[j] = arbRoutes[j]
  BY DEF Remain
<1>9. \A j \in 1 .. n - 1 : (front \o back)[j] = arbRoutes[j]
  BY <1>3, <1>6, <1>8
<1> QED BY <1>5, <1>7, <1>9 DEF Remain

LEMMA RemainFewer ==
  ASSUME NEW n \in Nat \ {0}, NEW routes, Remain(routes, n)
  PROVE  Remain(routes, n - 1)
<1>1. PICK len \in Nat : len = Len(routes)
  BY DEF Remain
<1> QED BY <1>1 DEF Remain

LEMMA QuoteOf ==
  ASSUME StepInv, AllAnswered, NEW i \in 1 .. Len(quotes)
  PROVE  quotes[i] \in Quotes
BY DEF StepInv, AllAnswered

\* A better quote takes the place of the best one of its route.
LEMMA GainKeeps ==
  ASSUME StepInv, AllAnswered, NEW n \in 1 .. Len(quotes),
         NEW s, LoopInv(s, n), Gained(s, n)
  PROVE  LET best == Stored(s.best, s.routes[n], quotes[n]) IN
           /\ BestAreAnswers(best)
           /\ \A a \in answers : Beaten(a, best) \/ AmongFirst(a, n - 1)
<1> DEFINE best == Stored(s.best, s.routes[n], quotes[n])
<1>1. quotes[n] \in Quotes /\ quotes[n] # Pending
  BY QuoteOf DEF AllAnswered, StepInv
<1>2. s.routes[n] = arbRoutes[n]
  BY DEF LoopInv, Remain, StepInv
<1>3. [route |-> arbRoutes[n], quote |-> quotes[n]] \in answers
  BY <1>1 DEF StepInv, Gained
<1>4. \A r \in DOMAIN s.best : [route |-> r, quote |-> s.best[r]] \in Ideas
  BY DEF LoopInv, BestAreAnswers, StepInv
<1>5. \A r \in DOMAIN s.best : s.best[r] \in Quotes
  BY <1>4 DEF Ideas
<1>6. \A r \in DOMAIN s.best : GetProfitForQuote(s.best[r]) \in Int /\ GetProfitForQuote(s.best[r]) > 0
  BY <1>5, ProfitIsInteger DEF LoopInv, BestAreAnswers
<1>7. GetProfitForQuote(quotes[n]) \in Int
  BY <1>1, ProfitIsInteger
<1>8. /\ GetProfitForQuote(quotes[n]) > 0
      /\ arbRoutes[n] \in DOMAIN s.best => GetProfitForQuote(quotes[n]) > GetProfitForQuote(s.best[arbRoutes[n]])
  BY <1>2, <1>6, <1>7 DEF Gained, PrevBestProfit
<1>9. /\ DOMAIN best = DOMAIN s.best \cup {arbRoutes[n]}
      /\ best[arbRoutes[n]] = quotes[n]
      /\ \A r \in DOMAIN s.best : r # arbRoutes[n] => best[r] = s.best[r]
  <2> DEFINE stored == Stored(s.best, arbRoutes[n], quotes[n])
  <2>1. best = stored
    BY <1>2
  <2>2. /\ DOMAIN stored = DOMAIN s.best \cup {arbRoutes[n]}
        /\ stored[arbRoutes[n]] = quotes[n]
        /\ \A r \in DOMAIN s.best : r # arbRoutes[n] => stored[r] = s.best[r]
    BY DEF Stored
  <2> HIDE DEF best, stored
  <2> QED BY <2>1, <2>2
<1> HIDE DEF best
<1>10. BestAreAnswers(best)
  <2> SUFFICES ASSUME NEW r \in DOMAIN best
               PROVE  [route |-> r, quote |-> best[r]] \in answers /\ GetProfitForQuote(best[r]) > 0
    BY DEF BestAreAnswers
  <2>1. CASE r = arbRoutes[n]
    BY <2>1, <1>3, <1>8, <1>9
  <2>2. CASE r # arbRoutes[n]
    <3>1. r \in DOMAIN s.best /\ best[r] = s.best[r]
      BY <2>2, <1>9
    <3> QED BY <3>1 DEF LoopInv, BestAreAnswers
  <2> QED BY <2>1, <2>2
<1>11. ASSUME NEW a \in answers
       PROVE  Beaten(a, best) \/ AmongFirst(a, n - 1)
  <2>1. GetProfitForQuote(a.quote) \in Int
    BY ProfitIsInteger DEF StepInv, Ideas
  <2>2. CASE Beaten(a, s.best)
    <3>1. CASE GetProfitForQuote(a.quote) <= 0
      BY <3>1 DEF Beaten
    <3>2. CASE a.route \in DOMAIN s.best /\ GetProfitForQuote(a.quote) <= GetProfitForQuote(s.best[a.route])
      <4>1. a.route \in DOMAIN best
        BY <3>2, <1>9
      <4>2. CASE a.route = arbRoutes[n]
        <5>1. GetProfitForQuote(quotes[n]) > GetProfitForQuote(s.best[a.route]) /\ best[a.route] = quotes[n]
          BY <4>2, <3>2, <1>8, <1>9
        <5>2. GetProfitForQuote(a.quote) <= GetProfitForQuote(quotes[n])
          BY <5>1, <3>2, <2>1, <1>6, <1>7
        <5> QED BY <5>1, <5>2, <4>1 DEF Beaten
      <4>3. CASE a.route # arbRoutes[n]
        <5>1. best[a.route] = s.best[a.route]
          BY <4>3, <3>2, <1>9
        <5> QED BY <5>1, <3>2, <4>1 DEF Beaten
      <4> QED BY <4>2, <4>3
    <3> QED BY <2>2, <3>1, <3>2 DEF Beaten
  <2>3. CASE AmongFirst(a, n)
    <3>1. PICK j \in 1 .. n : arbRoutes[j] = a.route /\ quotes[j] = a.quote
      BY <2>3 DEF AmongFirst
    <3>2. CASE j = n
      <4>1. a.route \in DOMAIN best /\ best[a.route] = a.quote
        BY <3>1, <3>2, <1>9
      <4> QED BY <4>1, <2>1 DEF Beaten
    <3>3. CASE j # n
      <4>1. j \in 1 .. n - 1
        BY <3>3
      <4> QED BY <4>1, <3>1 DEF AmongFirst
    <3> QED BY <3>2, <3>3
  <2> QED BY <2>2, <2>3 DEF LoopInv
<1> QED BY <1>10, <1>11 DEF best

\* Nothing is lost with a route that gained nothing.
LEMMA LossKeeps ==
  ASSUME StepInv, AllAnswered, NEW n \in 1 .. Len(quotes),
         NEW s, LoopInv(s, n), ~Gained(s, n)
  PROVE  \A a \in answers : Beaten(a, s.best) \/ AmongFirst(a, n - 1)
<1>1. quotes[n] \in Quotes
  BY QuoteOf
<1>2. s.routes[n] = arbRoutes[n]
  BY DEF LoopInv, Remain, StepInv
<1>3. GetProfitForQuote(quotes[n]) \in Int
  BY <1>1, ProfitIsInteger
<1>4. \A r \in DOMAIN s.best : [route |-> r, quote |-> s.best[r]] \in Ideas
  BY DEF LoopInv, BestAreAnswers, StepInv
<1>5. \A r \in DOMAIN s.best : s.best[r] \in Quotes
  BY <1>4 DEF Ideas
<1>6. PrevBestProfit(s.best, arbRoutes[n]) \in Int
  BY <1>5, ProfitIsInteger DEF PrevBestProfit
<1>7. \/ GetProfitForQuote(quotes[n]) <= 0
      \/ GetProfitForQuote(quotes[n]) <= PrevBestProfit(s.best, arbRoutes[n])
  BY <1>1, <1>2, <1>3, <1>6, NoProfitOfNoOutput DEF Gained
<1> SUFFICES ASSUME NEW a \in answers
             PROVE  Beaten(a, s.best) \/ AmongFirst(a, n - 1)
  OBVIOUS
<1>8. CASE AmongFirst(a, n)
  <2>1. PICK j \in 1 .. n : arbRoutes[j] = a.route /\ quotes[j] = a.quote
    BY <1>8 DEF AmongFirst
  <2>2. CASE j = n
    BY <2>1, <2>2, <1>7 DEF Beaten, PrevBestProfit
  <2>3. CASE j # n
    <3>1. j \in 1 .. n - 1
      BY <2>3
    <3> QED BY <3>1, <2>1 DEF AmongFirst
  <2> QED BY <2>2, <2>3
<1> QED BY <1>8 DEF LoopInv

LEMMA LoopStep ==
  ASSUME StepInv, AllAnswered, NEW n \in 1 .. Len(quotes), NEW s, LoopInv(s, n)
  PROVE  LoopInv(Judgement(n, s), n - 1)
<1>1. n \in Nat \ {0} /\ Remain(s.routes, n)
  BY DEF LoopInv, StepInv
<1>2. s = [routes |-> s.routes, best |-> s.best, found |-> s.found] /\ s.found \in BOOLEAN
  BY DEF LoopInv
<1>3. CASE Gained(s, n)
  <2> DEFINE best == Stored(s.best, s.routes[n], quotes[n])
  <2>1. BestAreAnswers(best) /\ \A a \in answers : Beaten(a, best) \/ AmongFirst(a, n - 1)
    BY <1>3, GainKeeps
  <2>2. Judgement(n, s) = [s EXCEPT !.best = best, !.found = TRUE]
    BY <1>3 DEF Judgement
  <2> HIDE DEF best
  <2>3. Judgement(n, s) = [routes |-> s.routes, best |-> best, found |-> TRUE]
    BY <2>2, <1>2
  <2>4. Remain(s.routes, n - 1)
    BY <1>1, RemainFewer
  <2> QED BY <2>1, <2>3, <2>4 DEF LoopInv
<1>4. CASE ~Gained(s, n)
  <2>1. \A a \in answers : Beaten(a, s.best) \/ AmongFirst(a, n - 1)
    BY <1>4, LossKeeps
  <2> DEFINE routes == RemoveAt(s.routes, n)
  <2>2. Judgement(n, s) = [s EXCEPT !.routes = routes]
    BY <1>4 DEF Judgement, Drop
  <2>3. Remain(routes, n - 1)
    BY <1>1, RemainAfterDrop
  <2> HIDE DEF routes
  <2>4. Judgement(n, s) = [routes |-> routes, best |-> s.best, found |-> s.found]
    BY <2>2, <1>2
  <2>5. BestAreAnswers(s.best)
    BY DEF LoopInv
  <2> QED BY <2>1, <2>3, <2>4, <2>5, <1>2 DEF LoopInv
<1> QED BY <1>3, <1>4

\* After the loop nothing waits for its judgement.
LEMMA LoopEnds ==
  ASSUME StepInv, AllAnswered, BestAreAnswers(bestQuotes),
         \A a \in answers : Beaten(a, bestQuotes) \/ AmongFirst(a, Len(quotes))
  PROVE  LoopInv(Judged, 0)
<1>1. PICK n \in Nat : n = Len(quotes)
  BY DEF StepInv
<1> DEFINE s == [routes |-> arbRoutes, best |-> bestQuotes, found |-> FALSE]
<1>2. PICK f : /\ f[0] = s
               /\ \A k \in 1 .. n : f[k] = Judgement(n - k + 1, f[k - 1])
               /\ f[n] = Backwards(s)
  BY <1>1, LoopSteps
<1>3. LoopInv(s, n)
  <2>1. Remain(arbRoutes, n)
    BY <1>1 DEF Remain, StepInv
  <2> QED BY <1>1, <2>1 DEF LoopInv
<1>4. Backwards(s) = Judged
  BY DEF Judged
<1> HIDE DEF s
<1> DEFINE Bad == {k \in Nat : k <= n /\ ~LoopInv(f[k], n - k)}
<1>5. ASSUME Bad # {} PROVE FALSE
  <2>1. PICK k \in Bad : \A j \in Bad : k <= j
    BY <1>5, LeastNumber
  <2>2. k \in Nat /\ k <= n /\ ~LoopInv(f[k], n - k)
    OBVIOUS
  <2>3. k # 0
    <3>1. n - 0 = n
      BY <1>1
    <3> QED BY <1>2, <1>3, <2>2, <3>1
  <2>4. k - 1 \in Nat /\ k - 1 <= n /\ ~(k <= k - 1)
    BY <1>1, <2>2, <2>3
  <2>5. LoopInv(f[k - 1], n - (k - 1))
    BY <2>1, <2>4
  <2> DEFINE i == n - k + 1
  <2>6. i \in 1 .. Len(quotes) /\ n - (k - 1) = i /\ i - 1 = n - k
    BY <1>1, <2>2, <2>3
  <2>7. k \in 1 .. n /\ f[k] = Judgement(i, f[k - 1])
    BY <1>1, <1>2, <2>2, <2>3
  <2> HIDE DEF i, Bad
  <2>8. LoopInv(Judgement(i, f[k - 1]), i - 1)
    BY <2>5, <2>6, LoopStep
  <2> QED BY <2>2, <2>6, <2>7, <2>8
<1>6. n \in Nat /\ n <= n /\ n - n = 0
  BY <1>1
<1>7. LoopInv(f[n], n - n)
  BY <1>5, <1>6
<1> QED BY <1>2, <1>4, <1>6, <1>7

-----------------------------------------------------------------------------
(***************************************************************************)
(* The cache of the routes                                                 *)
(***************************************************************************)

\* Whichever way round a pair was looked up first, what is cached for it and for
\* the way back is what the graph gives.
CacheInv ==
  /\ DOMAIN routeCache \subseteq Mint \X Mint
  /\ \A x, y \in Mint : <<x, y>> \in DOMAIN routeCache => routeCache[<<x, y>>] = TwoHopRoutes(x, y)

LEMMA RouteOfTwoHops ==
  ASSUME NEW x, NEW y, NEW r
  PROVE  r \in TwoHopRoutes(x, y) <=>
           \E i \in GetNeighbours(x) \cap GetNeighbours(y) :
             \E m \in GetMarkets(x, i), n \in GetMarkets(i, y) : r = [hop1 |-> m, hop2 |-> n]
BY DEF TwoHopRoutes

LEMMA MarketsBothWays ==
  ASSUME NEW x, NEW y
  PROVE  GetMarkets(x, y) = GetMarkets(y, x) /\ GetMarkets(x, y) \subseteq Market
BY DEF GetMarkets, OfInterest

LEMMA RoutesOfMarkets ==
  ASSUME NEW x, NEW y
  PROVE  TwoHopRoutes(x, y) \subseteq [hop1 : Market, hop2 : Market]
<1> SUFFICES ASSUME NEW r \in TwoHopRoutes(x, y) PROVE r \in [hop1 : Market, hop2 : Market]
  OBVIOUS
<1>1. PICK i \in GetNeighbours(x) \cap GetNeighbours(y) :
        \E m \in GetMarkets(x, i), n \in GetMarkets(i, y) : r = [hop1 |-> m, hop2 |-> n]
  BY RouteOfTwoHops
<1>2. PICK m \in GetMarkets(x, i), n \in GetMarkets(i, y) : r = [hop1 |-> m, hop2 |-> n]
  BY <1>1
<1>3. m \in Market /\ n \in Market
  BY MarketsBothWays
<1> QED BY <1>2, <1>3

LEMMA WayBack ==
  ASSUME NEW x, NEW y
  PROVE  RoutesReverse(TwoHopRoutes(x, y)) = TwoHopRoutes(y, x)
<1>1. ASSUME NEW v, NEW w, NEW r \in TwoHopRoutes(v, w)
      PROVE  [hop1 |-> r.hop2, hop2 |-> r.hop1] \in TwoHopRoutes(w, v)
  <2>1. PICK i \in GetNeighbours(v) \cap GetNeighbours(w) :
          \E m \in GetMarkets(v, i), n \in GetMarkets(i, w) : r = [hop1 |-> m, hop2 |-> n]
    BY RouteOfTwoHops
  <2>2. PICK m \in GetMarkets(v, i), n \in GetMarkets(i, w) : r = [hop1 |-> m, hop2 |-> n]
    BY <2>1
  <2>3. n \in GetMarkets(w, i) /\ m \in GetMarkets(i, v)
    BY MarketsBothWays
  <2>4. [hop1 |-> r.hop2, hop2 |-> r.hop1] = [hop1 |-> n, hop2 |-> m]
    BY <2>2
  <2>5. i \in GetNeighbours(w) \cap GetNeighbours(v)
    BY <2>1
  <2> QED BY <2>3, <2>4, <2>5, RouteOfTwoHops
<1>2. ASSUME NEW q \in RoutesReverse(TwoHopRoutes(x, y)) PROVE q \in TwoHopRoutes(y, x)
  <2>1. PICK r \in TwoHopRoutes(x, y) : q = [hop1 |-> r.hop2, hop2 |-> r.hop1]
    BY DEF RoutesReverse
  <2> QED BY <1>1, <2>1
<1>3. ASSUME NEW q \in TwoHopRoutes(y, x) PROVE q \in RoutesReverse(TwoHopRoutes(x, y))
  <2> DEFINE r == [hop1 |-> q.hop2, hop2 |-> q.hop1]
  <2>1. r \in TwoHopRoutes(x, y)
    BY <1>1
  <2>2. q \in [hop1 : Market, hop2 : Market]
    BY RoutesOfMarkets
  <2>3. q = [hop1 |-> r.hop2, hop2 |-> r.hop1]
    BY <2>2
  <2> HIDE DEF r
  <2> QED BY <2>1, <2>3 DEF RoutesReverse
<1> QED BY <1>2, <1>3

LEMMA KeyOfTrade ==
  ASSUME NEW t \in Trades
  PROVE  /\ CacheKey(t) = <<CacheKey(t)[1], CacheKey(t)[2]>>
         /\ CacheKey(t)[1] \in Mint /\ CacheKey(t)[2] \in Mint
<1>1. PICK s \in Simulations : t \in PostSimulateFilter(s)
  BY TradeOf
<1>2. t.market \in Market
  BY <1>1, TradeFacts
<1> QED BY <1>2, MarketAssumption DEF CacheKey, BackrunIntermediateMint, BackrunSourceMint

LEMMA CacheGives ==
  ASSUME CacheInv, NEW x \in Mint, NEW y \in Mint
  PROVE  GetAll2HopRoutes(<<x, y>>) = TwoHopRoutes(x, y)
BY DEF CacheInv, GetAll2HopRoutes

LEMMA FillFacts ==
  ASSUME CacheInv, NEW x \in Mint, NEW y \in Mint, <<x, y>> \notin DOMAIN routeCache
  PROVE  LET filled == FillRouteCache(<<x, y>>) IN
           /\ DOMAIN filled = DOMAIN routeCache \cup {<<x, y>>, <<y, x>>}
           /\ filled[<<y, x>>] = TwoHopRoutes(y, x)
           /\ filled[<<x, y>>] = TwoHopRoutes(x, y)
           /\ \A key \in DOMAIN routeCache :
                key # <<x, y>> /\ key # <<y, x>> => filled[key] = routeCache[key]
<1> DEFINE routes == TwoHopRoutes(x, y)
           back == RoutesReverse(routes)
           filled == FillRouteCache(<<x, y>>)
<1>1. filled = Stored(Stored(routeCache, <<x, y>>, routes), <<y, x>>, back)
  BY DEF FillRouteCache
<1>2. back = TwoHopRoutes(y, x)
  BY WayBack
<1>3. <<x, y>> = <<y, x>> => back = routes
  BY <1>2
<1>4. routes = TwoHopRoutes(x, y)
  OBVIOUS
<1> HIDE DEF routes, back, filled
<1>5. /\ DOMAIN filled = DOMAIN routeCache \cup {<<x, y>>, <<y, x>>}
      /\ filled[<<y, x>>] = back
      /\ filled[<<x, y>>] = routes
      /\ \A key \in DOMAIN routeCache :
           key # <<x, y>> /\ key # <<y, x>> => filled[key] = routeCache[key]
  BY <1>1, <1>3 DEF Stored
<1> QED BY <1>2, <1>4, <1>5 DEF filled

LEMMA CacheStep ==
  ASSUME CacheInv, Next PROVE CacheInv'
<1>1. CASE UNCHANGED routeCache
  BY <1>1 DEF CacheInv
<1>2. ASSUME NEW s \in Simulations, NEW t \in PostSimulateFilter(s), TakeTrade(t, s)
      PROVE  CacheInv'
  <2>1. t \in Trades
    BY TradeFacts
  <2>2. PICK x \in Mint, y \in Mint : CacheKey(t) = <<x, y>>
    BY <2>1, KeyOfTrade
  <2>3. routeCache' = FillRouteCache(<<x, y>>)
    BY <1>2, <2>2 DEF TakeTrade
  <2>4. CASE <<x, y>> \in DOMAIN routeCache
    <3>1. routeCache' = routeCache
      BY <2>3, <2>4 DEF FillRouteCache
    <3> QED BY <3>1, <1>1
  <2>5. CASE <<x, y>> \notin DOMAIN routeCache
    <3>1. /\ DOMAIN routeCache' = DOMAIN routeCache \cup {<<x, y>>, <<y, x>>}
          /\ routeCache'[<<y, x>>] = TwoHopRoutes(y, x)
          /\ routeCache'[<<x, y>>] = TwoHopRoutes(x, y)
          /\ \A key \in DOMAIN routeCache :
               key # <<x, y>> /\ key # <<y, x>> => routeCache'[key] = routeCache[key]
      BY <2>3, <2>5, FillFacts
    <3>2. DOMAIN routeCache' \subseteq Mint \X Mint
      BY <3>1 DEF CacheInv
    <3>3. ASSUME NEW v \in Mint, NEW w \in Mint, <<v, w>> \in DOMAIN routeCache'
          PROVE  routeCache'[<<v, w>>] = TwoHopRoutes(v, w)
      <4>1. CASE <<v, w>> = <<x, y>>
        <5>1. v = x /\ w = y
          BY <4>1
        <5> QED BY <5>1, <3>1
      <4>2. CASE <<v, w>> = <<y, x>>
        <5>1. v = y /\ w = x
          BY <4>2
        <5> QED BY <5>1, <3>1
      <4>3. CASE <<v, w>> # <<x, y>> /\ <<v, w>> # <<y, x>>
        <5>1. <<v, w>> \in DOMAIN routeCache
          BY <4>3, <3>1, <3>3
        <5>2. routeCache'[<<v, w>>] = routeCache[<<v, w>>]
          BY <4>3, <5>1, <3>1
        <5> QED BY <5>1, <5>2 DEF CacheInv
      <4> QED BY <4>1, <4>2, <4>3
    <3> QED BY <3>2, <3>3 DEF CacheInv
  <2> QED BY <2>4, <2>5
<1> QED
  BY <1>1, <1>2 DEF Next, Answer, NoOutput, TimeOut, Settle, QuoteRejected, Tick, EndOfStep, Dead, vars

-----------------------------------------------------------------------------
(***************************************************************************)
(* The routes of a trade                                                   *)
(***************************************************************************)
LEMMA MintsOfTrade ==
  ASSUME NEW t \in Trades
  PROVE  /\ t.market \in Market /\ t.market \in OfInterest
         /\ t.baseIsTokenA \in BOOLEAN
         /\ t.tradeDirection \in Direction
         /\ TradeSizeBase(t) \in Nat /\ TradeSizeQuote(t) \in Nat
<1>1. PICK s \in Simulations : t \in PostSimulateFilter(s)
  BY TradeOf
<1>2. TradeSizeBase(t) \in Nat /\ TradeSizeQuote(t) \in Nat
  BY SizeIsNatural, 0 \in Nat
<1> QED BY <1>1, <1>2, TradeFacts

LEMMA HopTyped ==
  ASSUME NEW m \in Market, NEW from
  PROVE  Hop(m, from) \in RouteHop
BY DEF Hop, RouteHop, NoOverride

LEMMA OriginalTyped ==
  ASSUME NEW t \in Trades
  PROVE  Original(t) \in RouteHop
BY MintsOfTrade DEF Original, RouteHop

LEMMA CircleTyped ==
  ASSUME NEW t \in Trades, NEW others \in Seq(RouteHop)
  PROVE  Circle(t, others) \in Seq(RouteHop)
<1>1. <<Original(t)>> \in Seq(RouteHop)
  BY OriginalTyped
<1> QED BY <1>1 DEF Circle

LEMMA RoutesTyped ==
  ASSUME NEW t \in Trades, NEW routes, routes \subseteq [hop1 : Market, hop2 : Market]
  PROVE  ArbRoutes(t, routes) \subseteq Seq(RouteHop)
<1>1. TwoHops(t) \subseteq Seq(RouteHop)
  <2> SUFFICES ASSUME NEW m \in Market
               PROVE  Circle(t, <<Hop(m, StartOfOthers(t))>>) \in Seq(RouteHop)
    BY DEF TwoHops, GetMarketsForPair
  <2>1. <<Hop(m, StartOfOthers(t))>> \in Seq(RouteHop)
    BY HopTyped
  <2> QED BY <2>1, CircleTyped
<1>2. ThreeHops(t, routes) \subseteq Seq(RouteHop)
  <2> DEFINE first(r) == Hop(r.hop1, StartOfOthers(t))
             second(r) == Hop(r.hop2, Destination(first(r)))
  <2> SUFFICES ASSUME NEW r \in routes
               PROVE  Circle(t, <<first(r), second(r)>>) \in Seq(RouteHop)
    BY DEF ThreeHops
  <2>1. r.hop1 \in Market /\ r.hop2 \in Market
    OBVIOUS
  <2>2. first(r) \in RouteHop /\ second(r) \in RouteHop
    BY <2>1, HopTyped
  <2> HIDE DEF first, second
  <2>3. <<first(r), second(r)>> \in Seq(RouteHop)
    BY <2>2
  <2> QED BY <2>3, CircleTyped
<1> QED BY <1>1, <1>2 DEF ArbRoutes

\* The image of a finite set under a function.
LEMMA ImageIsFinite ==
  ASSUME NEW S, IsFiniteSet(S), NEW T, NEW f \in [S -> T], \A y \in T : \E x \in S : f[x] = y
  PROVE  IsFiniteSet(T)
<1>1. f \in Surjection(S, T)
  BY DEF Surjection
<1> QED BY <1>1, FS_Surjection

LEMMA RoutesAreFinite ==
  ASSUME NEW t \in Trades, NEW routes, routes \subseteq [hop1 : Market, hop2 : Market]
  PROVE  IsFiniteSet(ArbRoutes(t, routes))
<1>1. IsFiniteSet(TwoHops(t))
  <2> DEFINE S == GetMarketsForPair(BackrunSourceMint(t), BackrunIntermediateMint(t))
             f == [m \in S |-> Circle(t, <<Hop(m, StartOfOthers(t))>>)]
  <2>1. IsFiniteSet(S)
    BY FS_Subset, MarketsAssumption DEF GetMarketsForPair
  <2>2. f \in [S -> TwoHops(t)] /\ \A y \in TwoHops(t) : \E x \in S : f[x] = y
    BY DEF TwoHops
  <2> HIDE DEF S, f
  <2> QED BY <2>1, <2>2, ImageIsFinite
<1>2. IsFiniteSet(routes)
  <2> DEFINE pairs == Market \X Market
             all == [hop1 : Market, hop2 : Market]
             f == [p \in pairs |-> [hop1 |-> p[1], hop2 |-> p[2]]]
  <2>1. IsFiniteSet(pairs)
    BY FS_Product, MarketsAssumption
  <2>2. f \in [pairs -> all]
    OBVIOUS
  <2>3. ASSUME NEW y \in all PROVE \E x \in pairs : f[x] = y
    <3>1. <<y.hop1, y.hop2>> \in pairs
      OBVIOUS
    <3>2. f[<<y.hop1, y.hop2>>] = [hop1 |-> y.hop1, hop2 |-> y.hop2]
      BY <3>1
    <3>3. y = [hop1 |-> y.hop1, hop2 |-> y.hop2]
      OBVIOUS
    <3> QED BY <3>1, <3>2, <3>3
  <2> HIDE DEF pairs, f
  <2>4. IsFiniteSet(all)
    BY <2>1, <2>2, <2>3, ImageIsFinite
  <2> QED BY <2>4, FS_Subset
<1>3. IsFiniteSet(ThreeHops(t, routes))
  <2> DEFINE f == [r \in routes |-> Circle(t, <<Hop(r.hop1, StartOfOthers(t)),
                                    Hop(r.hop2, Destination(Hop(r.hop1, StartOfOthers(t))))>>)]
  <2>1. f \in [routes -> ThreeHops(t, routes)] /\ \A y \in ThreeHops(t, routes) : \E x \in routes : f[x] = y
    BY DEF ThreeHops
  <2> HIDE DEF f
  <2> QED BY <1>2, <2>1, ImageIsFinite
<1>4. IsFiniteSet(TwoHops(t) \cup ThreeHops(t, routes))
  BY <1>1, <1>3, FS_Union
<1> QED BY <1>4, FS_Subset DEF ArbRoutes

\* Every element once, in some order.
LEMMA SetAsSequence ==
  ASSUME NEW S, IsFiniteSet(S)
  PROVE  /\ SetToSeq(S) \in Seq(S)
         /\ Len(SetToSeq(S)) = Cardinality(S)
         /\ {SetToSeq(S)[i] : i \in DOMAIN SetToSeq(S)} = S
<1> DEFINE n == Cardinality(S)
           s == SetToSeq(S)
<1>1. n \in Nat /\ \E f : f \in Bijection(1 .. n, S)
  BY FS_CardinalityType DEF ExistsBijection
<1>2. s \in [1 .. n -> S] /\ IsInjective(s)
  <2>1. PICK f : f \in [1 .. n -> S] /\ IsInjective(f)
    BY <1>1 DEF Bijection, Injection
  <2> QED BY <2>1 DEF SetToSeq
<1>3. s \in Injection(1 .. n, S)
  BY <1>2 DEF Injection
<1>4. Cardinality(1 .. n) = n
  <2>1. n \in Int /\ 1 \in Int /\ (IF 1 > n THEN 0 ELSE n - 1 + 1) = n
    BY <1>1
  <2> HIDE DEF n
  <2> QED BY <2>1, FS_Interval
<1> HIDE DEF n, s
<1>5. s \in Surjection(1 .. n, S)
  <2>1. Cardinality(1 .. n) = Cardinality(S)
    BY <1>4 DEF n
  <2> QED BY <1>3, <2>1, FS_Injection
<1>6. {s[i] : i \in DOMAIN s} = S
  BY <1>2, <1>5 DEF Surjection
<1>7. s \in Seq(S) /\ Len(s) = n
  BY <1>1, <1>2
<1> QED BY <1>6, <1>7 DEF n, s

\* The routes with which a search begins.
LEMMA FirstRoutes ==
  ASSUME CacheInv, NEW s \in Simulations, NEW t \in PostSimulateFilter(s), TakeTrade(t, s)
  PROVE  LET routes == ArbRoutes(t, TwoHopRoutes(CacheKey(t)[1], CacheKey(t)[2])) IN
           /\ arbRoutes' = SetToSeq(routes)
           /\ arbRoutes' \in Seq(Seq(RouteHop))
           /\ Len(arbRoutes') = Cardinality(routes)
           /\ {arbRoutes'[i] : i \in DOMAIN arbRoutes'} = routes
<1> DEFINE found == TwoHopRoutes(CacheKey(t)[1], CacheKey(t)[2])
           routes == ArbRoutes(t, found)
<1>1. t \in Trades
  BY TradeFacts
<1>2. GetAll2HopRoutes(CacheKey(t)) = found
  BY <1>1, KeyOfTrade, CacheGives
<1>3. arbRoutes' = SetToSeq(routes)
  BY <1>2 DEF TakeTrade
<1>4. IsFiniteSet(routes) /\ routes \subseteq Seq(RouteHop)
  BY <1>1, RoutesOfMarkets, RoutesTyped, RoutesAreFinite
<1> HIDE DEF found, routes
<1>5. /\ SetToSeq(routes) \in Seq(routes)
      /\ Len(SetToSeq(routes)) = Cardinality(routes)
      /\ {SetToSeq(routes)[i] : i \in DOMAIN SetToSeq(routes)} = routes
  BY <1>4, SetAsSequence
<1>6. SetToSeq(routes) \in Seq(Seq(RouteHop))
  BY <1>4, <1>5
<1> QED BY <1>3, <1>5, <1>6 DEF routes, found

-----------------------------------------------------------------------------
(***************************************************************************)
(* The search                                                              *)
(***************************************************************************)

\* No answer is missed: a route has a better one, or the loop is yet to see it.
NoneMissed == \A a \in answers : Beaten(a, bestQuotes) \/ AmongFirst(a, Len(quotes))

Ranges ==
  /\ trade \in Trades \cup {NoTrade}
  /\ simulated \in Simulations \cup {NoTrade}
  /\ stage = "quoting" => trade \in Trades /\ step # 0
  /\ step \in 0 .. ARB_CALCULATION_NUM_STEPS
  /\ elapsed \in 0 .. MAX_ARB_CALCULATION_TIME_MS + 1
  /\ stage \in {"idle", "quoting", "dead"}

SearchInv == CacheInv /\ Ranges /\ StepInv /\ BestAreAnswers(bestQuotes) /\ NoneMissed

LEMMA SearchInit == Init => SearchInv
<1> SUFFICES ASSUME Init PROVE SearchInv
  OBVIOUS
<1>1. CacheInv
  BY DEF Init, CacheInv
<1>2. Ranges
  BY StepsAssumption, TimeAssumption DEF Init, Ranges
<1>3. StepInv
  BY DEF Init, StepInv
<1>4. BestAreAnswers(bestQuotes) /\ NoneMissed
  BY DEF Init, BestAreAnswers, NoneMissed
<1> QED BY <1>1, <1>2, <1>3, <1>4 DEF SearchInv

LEMMA TypesFollow == SearchInv => TypeOK
<1> SUFFICES ASSUME SearchInv PROVE TypeOK
  OBVIOUS
<1>1. ASSUME NEW key \in DOMAIN routeCache
      PROVE  routeCache[key] \subseteq [hop1 : Market, hop2 : Market]
  <2>1. PICK x \in Mint, y \in Mint : key = <<x, y>>
    BY DEF SearchInv, CacheInv
  <2>2. routeCache[key] = TwoHopRoutes(x, y)
    BY <2>1 DEF SearchInv, CacheInv
  <2> QED BY <2>2, RoutesOfMarkets
<1>2. DOMAIN routeCache \subseteq Mint \X Mint
  BY DEF SearchInv, CacheInv
<1>3. \A i \in DOMAIN quotes : quotes[i] = Pending \/ quotes[i] \in [in : Nat, out : Nat]
  BY DEF SearchInv, StepInv, Quotes
<1>4. Len(quotes) = Len(arbRoutes) /\ \A r \in DOMAIN bestQuotes : GetProfitForQuote(bestQuotes[r]) > 0
  BY DEF SearchInv, StepInv, BestAreAnswers
<1> QED BY <1>1, <1>2, <1>3, <1>4 DEF SearchInv, Ranges, TypeOK

\* A new step has no quotes, and so only the best ones account for the answers.
LEMMA PendingFacts ==
  ASSUME NEW routes \in Seq(Seq(RouteHop))
  PROVE  /\ AllPending(routes) \in Seq(Quotes \cup {Pending})
         /\ Len(AllPending(routes)) = Len(routes)
         /\ \A i \in 1 .. Len(routes) : AllPending(routes)[i] = Pending
<1>1. PICK n \in Nat : n = Len(routes) /\ DOMAIN routes = 1 .. n
  OBVIOUS
<1>2. AllPending(routes) = [i \in 1 .. n |-> Pending]
  BY <1>1 DEF AllPending
<1> QED BY <1>1, <1>2

LEMMA TakeTradeKeeps ==
  ASSUME SearchInv, NEW s \in Simulations, NEW t \in PostSimulateFilter(s), TakeTrade(t, s)
  PROVE  Ranges' /\ StepInv' /\ BestAreAnswers(bestQuotes)' /\ NoneMissed'
<1>1. t \in Trades
  BY TradeFacts
<1>2. arbRoutes' \in Seq(Seq(RouteHop))
  BY FirstRoutes DEF SearchInv
<1>3. Ranges'
  BY <1>1, StepsAssumption, TimeAssumption DEF TakeTrade, Ranges
<1>4. answers' = {} /\ bestQuotes' = <<>>
  BY DEF TakeTrade
<1>5. quotes' = AllPending(arbRoutes')
  BY DEF TakeTrade
<1>6. /\ quotes' \in Seq(Quotes \cup {Pending}) /\ Len(quotes') = Len(arbRoutes')
      /\ \A i \in 1 .. Len(arbRoutes') : quotes'[i] = Pending
  BY <1>2, <1>5, PendingFacts
<1>7. StepInv'
  BY <1>2, <1>4, <1>6 DEF StepInv
<1> QED BY <1>3, <1>4, <1>7 DEF BestAreAnswers, NoneMissed

LEMMA SizeOfQuote ==
  ASSUME SearchInv, stage = "quoting"
  PROVE  ArbSize \in Nat /\ FlashloanFee(ArbSize) \in Nat
<1>1. trade \in Trades /\ step \in Nat
  BY StepsAssumption DEF SearchInv, Ranges
<1>2. ArbSize \in Nat
  BY <1>1, SizeIsNatural DEF ArbSize
<1> QED BY <1>2, FeeOfALoan

\* A quote that arrives has the index of its route, and no answer loses its own.
LEMMA SettleKeeps ==
  ASSUME SearchInv, NEW i \in DOMAIN quotes, NEW q \in Quotes, Settle(i, q),
         \/ answers' = answers \cup {[route |-> arbRoutes[i], quote |-> q]}
         \/ q.out = 0 /\ answers' = answers
  PROVE  SearchInv'
<1>1. PICK n \in Nat : /\ n = Len(quotes) /\ n = Len(arbRoutes)
                       /\ DOMAIN quotes = 1 .. n /\ DOMAIN arbRoutes = 1 .. n
  BY DEF SearchInv, StepInv
<1>2. /\ UNCHANGED <<routeCache, trade, simulated, arbRoutes, step, bestQuotes, elapsed, stage>>
      /\ quotes' = [quotes EXCEPT ![i] = q]
      /\ quotes[i] = Pending
  BY DEF Settle
<1>3. /\ quotes' \in Seq(Quotes \cup {Pending}) /\ Len(quotes') = n
      /\ quotes'[i] = q
      /\ \A j \in 1 .. n : j # i => quotes'[j] = quotes[j]
  BY <1>1, <1>2 DEF SearchInv, StepInv
<1>4. i \in 1 .. n /\ arbRoutes[i] \in Seq(RouteHop)
  BY <1>1 DEF SearchInv, StepInv
<1> DEFINE told == [route |-> arbRoutes[i], quote |-> q]
<1>5. told \in Ideas
  BY <1>4 DEF Ideas
<1>6. answers \subseteq answers' /\ answers' \subseteq answers \cup {told}
  OBVIOUS
<1>7. q.out # 0 => told \in answers'
  OBVIOUS
<1>8. CacheInv' /\ Ranges'
  BY <1>2 DEF SearchInv, CacheInv, Ranges
<1>9. StepInv'
  <2>1. ASSUME NEW j \in 1 .. n, quotes'[j] # Pending, quotes'[j].out # 0
        PROVE  [route |-> arbRoutes[j], quote |-> quotes'[j]] \in answers'
    <3>1. CASE j = i
      BY <3>1, <2>1, <1>3, <1>7
    <3>2. CASE j # i
      <4>1. quotes'[j] = quotes[j]
        BY <3>2, <1>3
      <4>2. [route |-> arbRoutes[j], quote |-> quotes[j]] \in answers
        BY <4>1, <2>1, <1>1 DEF SearchInv, StepInv
      <4> QED BY <4>1, <4>2, <1>6
    <3> QED BY <3>1, <3>2
  <2>2. answers' \subseteq Ideas
    BY <1>5, <1>6 DEF SearchInv, StepInv
  <2>3. arbRoutes' = arbRoutes /\ arbRoutes \in Seq(Seq(RouteHop))
    BY <1>2 DEF SearchInv, StepInv
  <2> QED BY <2>1, <2>2, <2>3, <1>1, <1>3 DEF StepInv
<1>10. BestAreAnswers(bestQuotes)'
  BY <1>2, <1>6 DEF SearchInv, BestAreAnswers
<1>11. ASSUME NEW a \in answers'
       PROVE  Beaten(a, bestQuotes) \/ \E j \in 1 .. n : arbRoutes[j] = a.route /\ quotes'[j] = a.quote
  <2>1. CASE a = told
    BY <2>1, <1>3, <1>4
  <2>2. CASE a \in answers
    <3>1. CASE AmongFirst(a, n)
      <4>1. PICK j \in 1 .. n : arbRoutes[j] = a.route /\ quotes[j] = a.quote
        BY <3>1 DEF AmongFirst
      <4>2. a.quote \in Quotes
        BY <2>2 DEF SearchInv, StepInv, Ideas
      <4>3. j # i
        BY <4>1, <4>2, <1>2, NoValuesAssumption DEF Quotes
      <4> QED BY <4>1, <4>3, <1>3
    <3>2. CASE Beaten(a, bestQuotes)
      BY <3>2
    <3> QED BY <2>2, <3>1, <3>2, <1>1 DEF SearchInv, NoneMissed
  <2> QED BY <2>1, <2>2, <1>6
<1>12. NoneMissed'
  <2>1. Len(quotes') = n /\ arbRoutes' = arbRoutes /\ bestQuotes' = bestQuotes
    BY <1>2, <1>3
  <2> QED BY <1>11, <2>1 DEF NoneMissed, Beaten, AmongFirst
<1> QED BY <1>8, <1>9, <1>10, <1>12 DEF SearchInv

\* What the loop leaves at the end of a step.
LEMMA EndFacts ==
  ASSUME SearchInv, EndOfStep
  PROVE  /\ Judged.routes \in Seq(Seq(RouteHop))
         /\ BestAreAnswers(Judged.best)
         /\ \A a \in answers : Beaten(a, Judged.best)
<1>1. AllAnswered
  BY DEF EndOfStep, AllAnswered
<1>2. LoopInv(Judged, 0)
  BY <1>1, LoopEnds DEF SearchInv, NoneMissed
<1>3. \A a \in answers : ~AmongFirst(a, 0)
  BY DEF AmongFirst
<1> QED BY <1>2, <1>3 DEF LoopInv, Remain

LEMMA EndKeeps ==
  ASSUME SearchInv, EndOfStep
  PROVE  Ranges' /\ StepInv' /\ BestAreAnswers(bestQuotes)' /\ NoneMissed'
<1> DEFINE judged == Judged
<1>1. /\ judged.routes \in Seq(Seq(RouteHop))
      /\ BestAreAnswers(judged.best)
      /\ \A a \in answers : Beaten(a, judged.best)
  BY EndFacts
<1>2. \/ step < ARB_CALCULATION_NUM_STEPS /\ NextStep(judged)
      \/ Yield(judged)
  BY DEF EndOfStep
<1> HIDE DEF judged
<1>3. CASE step < ARB_CALCULATION_NUM_STEPS /\ NextStep(judged)
  <2>1. /\ arbRoutes' = judged.routes /\ bestQuotes' = judged.best
        /\ quotes' = AllPending(judged.routes)
        /\ step' = step + 1
        /\ UNCHANGED <<trade, simulated, answers, elapsed, stage>>
    BY <1>3 DEF NextStep
  <2>2. Ranges'
    BY <2>1, <1>3, StepsAssumption DEF SearchInv, Ranges
  <2>3. /\ quotes' \in Seq(Quotes \cup {Pending}) /\ Len(quotes') = Len(arbRoutes')
        /\ \A i \in 1 .. Len(arbRoutes') : quotes'[i] = Pending
    BY <1>1, <2>1, PendingFacts
  <2>4. StepInv'
    BY <1>1, <2>1, <2>3 DEF SearchInv, StepInv
  <2>5. BestAreAnswers(bestQuotes)'
    BY <1>1, <2>1 DEF BestAreAnswers
  <2>6. NoneMissed'
    BY <1>1, <2>1 DEF NoneMissed, Beaten
  <2> QED BY <2>2, <2>4, <2>5, <2>6
<1>4. CASE Yield(judged)
  <2>1. /\ stage' = "idle" /\ trade' = NoTrade /\ simulated' = NoTrade /\ step' = 0 /\ elapsed' = 0
        /\ arbRoutes' = <<>> /\ quotes' = <<>> /\ bestQuotes' = <<>> /\ answers' = {}
    BY <1>4 DEF Yield
  <2>2. Ranges'
    BY <2>1, StepsAssumption, TimeAssumption DEF Ranges
  <2>3. StepInv'
    BY <2>1 DEF StepInv
  <2>4. BestAreAnswers(bestQuotes)' /\ NoneMissed'
    BY <2>1 DEF BestAreAnswers, NoneMissed
  <2> QED BY <2>2, <2>3, <2>4
<1> QED BY <1>2, <1>3, <1>4

LEMMA SearchStep == SearchInv /\ [Next]_vars => SearchInv'
<1> SUFFICES ASSUME SearchInv, [Next]_vars PROVE SearchInv'
  OBVIOUS
<1>1. CASE UNCHANGED vars
  BY <1>1 DEF vars, search, SearchInv, CacheInv, Ranges, StepInv, BestAreAnswers, NoneMissed, Beaten, AmongFirst
<1>2. ASSUME Next PROVE CacheInv'
  BY <1>2, CacheStep DEF SearchInv
<1>3. ASSUME NEW s \in Simulations, NEW t \in PostSimulateFilter(s), TakeTrade(t, s)
      PROVE  SearchInv'
  BY <1>2, <1>3, TakeTradeKeeps DEF SearchInv, Next
<1>4. ASSUME NEW i \in DOMAIN quotes, NEW gain \in Gains, Answer(i, gain)
      PROVE  SearchInv'
  <2> DEFINE q == Quote(ArbSize, ArbSize + FlashloanFee(ArbSize) + gain)
  <2>1. q.out >= 0 /\ Settle(i, q) /\ answers' = answers \cup {[route |-> arbRoutes[i], quote |-> q]}
    BY <1>4 DEF Answer
  <2>2. ArbSize \in Nat /\ FlashloanFee(ArbSize) \in Nat /\ gain \in Int
    BY <2>1, SizeOfQuote, SizesAssumption DEF Settle
  <2>3. q \in Quotes
    BY <2>1, <2>2 DEF Quotes, Quote
  <2> QED BY <2>1, <2>3, SettleKeeps
<1>5. ASSUME NEW i \in DOMAIN quotes, NoOutput(i)
      PROVE  SearchInv'
  <2> DEFINE q == Quote(ArbSize, 0)
  <2>1. Settle(i, q) /\ answers' = answers
    BY <1>5 DEF NoOutput
  <2>2. ArbSize \in Nat
    BY <2>1, SizeOfQuote DEF Settle
  <2>3. q \in Quotes /\ q.out = 0
    BY <2>2 DEF Quotes, Quote
  <2> QED BY <2>1, <2>3, SettleKeeps
<1>6. ASSUME NEW i \in DOMAIN quotes, TimeOut(i)
      PROVE  SearchInv'
  BY <1>5, <1>6 DEF TimeOut
<1>7. ASSUME NEW i \in DOMAIN quotes, QuoteRejected(i)
      PROVE  SearchInv'
  BY <1>7 DEF QuoteRejected, search, SearchInv, CacheInv, Ranges, StepInv, BestAreAnswers, NoneMissed, Beaten, AmongFirst
<1>8. CASE Tick
  <2>1. Ranges'
    BY <1>8, TimeAssumption DEF Tick, search, SearchInv, Ranges
  <2>2. CacheInv' /\ StepInv' /\ BestAreAnswers(bestQuotes)' /\ NoneMissed'
    BY <1>8 DEF Tick, search, SearchInv, CacheInv, StepInv, BestAreAnswers, NoneMissed, Beaten, AmongFirst
  <2> QED BY <2>1, <2>2 DEF SearchInv
<1>9. CASE EndOfStep
  BY <1>2, <1>9, EndKeeps DEF SearchInv, Next
<1>10. CASE Dead
  BY <1>1, <1>10 DEF Dead
<1> QED BY <1>1, <1>3, <1>4, <1>5, <1>6, <1>7, <1>8, <1>9, <1>10 DEF Next

\* Whatever the workers answer and whenever time is up, SearchInv holds: the cache,
\* the routes and quotes of the step, and that no answer is forgotten.
THEOREM SearchIsInvariant == Spec => []SearchInv
BY SearchInit, SearchStep, PTL DEF Spec

\* The variables of the search have the values their types allow: every step has
\* a quote or a question for each route that is left, and only profits are kept
\* as the best quotes (calculate-arb.ts, lines 302-362).
THEOREM TypeCorrect == Spec => []TypeOK
BY SearchIsInvariant, TypesFollow, PTL

\* A quote is kept for the route it was asked for, although routes are removed by
\* their index while the quotes stay where they are (lines 337-358).
THEOREM QuotesStay == Spec => []QuotesKeepTheirRoute
<1>1. SearchInv => QuotesKeepTheirRoute
  BY DEF SearchInv, BestAreAnswers, QuotesKeepTheirRoute
<1> QED BY <1>1, SearchIsInvariant, PTL

LEMMA YieldIsBest ==
  ASSUME SearchInv, Next, stage = "quoting", stage' = "idle"
  PROVE  IF arbIdea' = NoIdea THEN \A a \in answers : GetProfitForQuote(a.quote) <= 0
         ELSE /\ arbIdea' \in answers
              /\ GetProfitForQuote(arbIdea'.quote) > 0
              /\ \A a \in answers : GetProfitForQuote(a.quote) <= GetProfitForQuote(arbIdea'.quote)
<1>1. EndOfStep
  BY DEF Next, TakeTrade, Answer, NoOutput, TimeOut, Settle, QuoteRejected, Tick, Dead, vars
<1> DEFINE best == Judged.best
<1>2. BestAreAnswers(best) /\ \A a \in answers : Beaten(a, best)
  BY <1>1, EndFacts
<1>3. Yield(Judged)
  BY <1>1 DEF EndOfStep, NextStep
<1>4. arbIdea' \in IF best = <<>> THEN {NoIdea} ELSE BestOf(best)
  BY <1>3 DEF Yield
<1>5. answers \subseteq Ideas
  BY DEF SearchInv, StepInv
<1> HIDE DEF best
<1>6. \A a \in answers : GetProfitForQuote(a.quote) \in Int
  BY <1>5, ProfitIsInteger DEF Ideas
<1>7. CASE best = <<>>
  <2>1. DOMAIN best = {}
    BY <1>7
  <2> QED BY <2>1, <1>2, <1>4, <1>7 DEF Beaten
<1>8. CASE best # <<>>
  <2>1. PICK r \in DOMAIN best : /\ arbIdea' = [route |-> r, quote |-> best[r]]
                                 /\ \A o \in DOMAIN best : GetProfitForQuote(best[o]) <= GetProfitForQuote(best[r])
    BY <1>4, <1>8 DEF BestOf
  <2>2. arbIdea' \in answers /\ arbIdea'.quote = best[r] /\ GetProfitForQuote(best[r]) > 0
    BY <1>2, <2>1 DEF BestAreAnswers
  <2>3. GetProfitForQuote(best[r]) \in Int
    BY <2>2, <1>6
  <2>4. arbIdea' # NoIdea
    BY <2>2, <1>5, NoValuesAssumption DEF Ideas, Quotes
  <2>5. ASSUME NEW a \in answers
        PROVE  GetProfitForQuote(a.quote) <= GetProfitForQuote(best[r])
    <3>1. CASE GetProfitForQuote(a.quote) <= 0
      BY <3>1, <1>6, <2>2, <2>3
    <3>2. CASE a.route \in DOMAIN best /\ GetProfitForQuote(a.quote) <= GetProfitForQuote(best[a.route])
      <4>1. [route |-> a.route, quote |-> best[a.route]] \in answers
        BY <3>2, <1>2 DEF BestAreAnswers
      <4>2. GetProfitForQuote(best[a.route]) \in Int
        BY <4>1, <1>6
      <4>3. GetProfitForQuote(best[a.route]) <= GetProfitForQuote(best[r])
        BY <3>2, <2>1
      <4> QED BY <3>2, <4>2, <4>3, <1>6, <2>3
    <3> QED BY <3>1, <3>2, <1>2 DEF Beaten
  <2> QED BY <2>2, <2>4, <2>5
<1> QED BY <1>7, <1>8

\* A search that was told of a profit yields an idea, and none it was told of was
\* better, whatever timed out, failed or was dropped later; a search that was
\* told of none yields nothing (lines 364-399).
THEOREM TheBestIsYielded == Spec => YieldsTheBest
<1>1. SearchInv /\ [Next]_vars =>
        [stage = "quoting" /\ stage' = "idle" =>
           IF arbIdea' = NoIdea THEN \A a \in answers : GetProfitForQuote(a.quote) <= 0
           ELSE /\ arbIdea' \in answers
                /\ GetProfitForQuote(arbIdea'.quote) > 0
                /\ \A a \in answers : GetProfitForQuote(a.quote) <= GetProfitForQuote(arbIdea'.quote)]_vars
  BY YieldIsBest
<1> QED BY <1>1, SearchIsInvariant, PTL DEF Spec, YieldsTheBest

-----------------------------------------------------------------------------
(***************************************************************************)
(* The routes are the circles                                              *)
(***************************************************************************)

\* A hop on a market as a circle has it, and as the code makes it.
Leg(m, from) == [market |-> m, fromA |-> m.tokenMintA = from]
Plain(h) == [market |-> h.market, fromA |-> h.fromA, tradeOutputOverride |-> NoOverride]
WithEstimate(t, h) ==
  [market |-> h.market, fromA |-> h.fromA, tradeOutputOverride |-> Original(t).tradeOutputOverride]

\* The hop against the trade starts at the mint that the trade brought in.
LegOfTrade(t) ==
  Leg(t.market, IF BuyOnOriginalMarketFirst(t) THEN BackrunSourceMint(t) ELSE BackrunIntermediateMint(t))

LEMMA SizeOfPair ==
  ASSUME NEW a, NEW b
  PROVE  /\ IsFiniteSet({a, b})
         /\ Cardinality({a, b}) = IF a = b THEN 1 ELSE 2
         /\ Cardinality({a, b}) = 2 <=> a # b
<1>1. IsFiniteSet({a}) /\ Cardinality({a}) = 1
  BY FS_Singleton
<1>2. IsFiniteSet({a} \cup {b}) /\ Cardinality({a} \cup {b}) = IF b \in {a} THEN Cardinality({a}) ELSE Cardinality({a}) + 1
  BY <1>1, FS_AddElement
<1>3. {a} \cup {b} = {a, b}
  OBVIOUS
<1> QED BY <1>1, <1>2, <1>3

LEMMA SizeOfTriple ==
  ASSUME NEW a, NEW b, NEW c
  PROVE  Cardinality({a, b, c}) = 3 <=> a # b /\ a # c /\ b # c
<1>1. IsFiniteSet({a, b}) /\ Cardinality({a, b}) = IF a = b THEN 1 ELSE 2
  BY SizeOfPair
<1>2. Cardinality({a, b} \cup {c}) = IF c \in {a, b} THEN Cardinality({a, b}) ELSE Cardinality({a, b}) + 1
  BY <1>1, FS_AddElement
<1>3. {a, b} \cup {c} = {a, b, c}
  OBVIOUS
<1> QED BY <1>1, <1>2, <1>3

LEMMA LegGoes ==
  ASSUME NEW m \in Market, NEW x, NEW y, Pair(m) = {x, y}
  PROVE  /\ x # y /\ x \in Mint /\ y \in Mint
         /\ Source(Leg(m, x)) = x /\ Destination(Leg(m, x)) = y
         /\ Destination(Hop(m, x)) = y
         /\ Plain(Leg(m, x)) = Hop(m, x)
         /\ m \in OfInterest => Leg(m, x) \in Hops
<1>1. m.tokenMintA \in Mint /\ m.tokenMintB \in Mint /\ m.tokenMintA # m.tokenMintB
  BY MarketAssumption
<1>2. \/ x = m.tokenMintA /\ y = m.tokenMintB
      \/ x = m.tokenMintB /\ y = m.tokenMintA
  BY <1>1 DEF Pair
<1>3. /\ Leg(m, x).market = m /\ Leg(m, x).fromA = (m.tokenMintA = x)
      /\ Hop(m, x).market = m /\ Hop(m, x).fromA = (m.tokenMintA = x)
  BY DEF Leg, Hop
<1>4. x # y /\ x \in Mint /\ y \in Mint
  BY <1>1, <1>2
<1>5. /\ Source(Leg(m, x)) = x /\ Destination(Leg(m, x)) = y
      /\ Destination(Hop(m, x)) = y
  BY <1>1, <1>2, <1>3 DEF Source, Destination
<1>6. Plain(Leg(m, x)) = Hop(m, x)
  BY <1>3 DEF Plain, Hop
<1>7. m \in OfInterest => Leg(m, x) \in Hops
  BY DEF Leg, Hops
<1> QED BY <1>4, <1>5, <1>6, <1>7

LEMMA EveryHopIsALeg ==
  ASSUME NEW h \in Hops
  PROVE  /\ h.market \in Market /\ h.market \in OfInterest
         /\ h = Leg(h.market, Source(h))
         /\ Pair(h.market) = {Source(h), Destination(h)}
         /\ Source(h) \in Mint /\ Destination(h) \in Mint
<1>1. h.market \in Market /\ h.market \in OfInterest /\ h.fromA \in BOOLEAN
      /\ h = [market |-> h.market, fromA |-> h.fromA]
  BY DEF Hops, OfInterest
<1>2. /\ h.market.tokenMintA \in Mint /\ h.market.tokenMintB \in Mint
      /\ h.market.tokenMintA # h.market.tokenMintB
  BY <1>1, MarketAssumption
<1>3. (h.market.tokenMintA = Source(h)) = h.fromA
  BY <1>1, <1>2 DEF Source
<1> QED BY <1>1, <1>2, <1>3 DEF Leg, Source, Destination, Pair

LEMMA TheTradesOwnHop ==
  ASSUME NEW t \in Trades
  PROVE  /\ Pair(t.market) = {BackrunSourceMint(t), BackrunIntermediateMint(t)}
         /\ BackrunSourceMint(t) # BackrunIntermediateMint(t)
         /\ LegOfTrade(t) \in Hops
         /\ LegOfTrade(t).market = t.market
         /\ WithEstimate(t, LegOfTrade(t)) = Original(t)
         /\ AgainstTheTrade(t, LegOfTrade(t))
         /\ BuyOnOriginalMarketFirst(t) =>
              /\ Source(LegOfTrade(t)) = BackrunSourceMint(t)
              /\ Destination(LegOfTrade(t)) = BackrunIntermediateMint(t)
         /\ ~BuyOnOriginalMarketFirst(t) =>
              /\ Source(LegOfTrade(t)) = BackrunIntermediateMint(t)
              /\ Destination(LegOfTrade(t)) = BackrunSourceMint(t)
<1>1. /\ t.market \in Market /\ t.market \in OfInterest /\ t.baseIsTokenA \in BOOLEAN
      /\ t.market.tokenMintA # t.market.tokenMintB
  BY MintsOfTrade, MarketAssumption
<1> DEFINE src == BackrunSourceMint(t)
           mid == BackrunIntermediateMint(t)
<1>2. Pair(t.market) = {src, mid} /\ src # mid
  BY <1>1 DEF Pair, BackrunSourceMint, BackrunIntermediateMint
<1>3. /\ Source(Leg(t.market, src)) = src /\ Destination(Leg(t.market, src)) = mid
      /\ Source(Leg(t.market, mid)) = mid /\ Destination(Leg(t.market, mid)) = src
      /\ Leg(t.market, src) \in Hops /\ Leg(t.market, mid) \in Hops
  <2>1. Pair(t.market) = {mid, src}
    BY <1>2
  <2> HIDE DEF src, mid
  <2> QED BY <1>1, <1>2, <2>1, LegGoes
<1>4. (t.market.tokenMintA = src) = t.baseIsTokenA /\ (t.market.tokenMintA = mid) = ~t.baseIsTokenA
  BY <1>1 DEF BackrunSourceMint, BackrunIntermediateMint
<1>5. WithEstimate(t, LegOfTrade(t)) = Original(t)
  BY <1>4 DEF WithEstimate, LegOfTrade, Leg, Original
<1>6. LegOfTrade(t).market = t.market
  BY DEF LegOfTrade, Leg
<1>7. AgainstTheTrade(t, LegOfTrade(t))
  BY <1>3, <1>6 DEF AgainstTheTrade, LegOfTrade, BuyOnOriginalMarketFirst
<1> QED BY <1>2, <1>3, <1>5, <1>6, <1>7 DEF LegOfTrade

LEMMA OnlyTheTradesOwnHop ==
  ASSUME NEW t \in Trades, NEW h \in Hops, AgainstTheTrade(t, h)
  PROVE  h = LegOfTrade(t)
<1>1. h = Leg(h.market, Source(h)) /\ h.market = t.market /\ Pair(h.market) = {Source(h), Destination(h)}
  BY EveryHopIsALeg DEF AgainstTheTrade
<1>2. Pair(t.market) = {BackrunSourceMint(t), BackrunIntermediateMint(t)}
      /\ BackrunSourceMint(t) # BackrunIntermediateMint(t)
  BY TheTradesOwnHop
<1>3. CASE BuyOnOriginalMarketFirst(t)
  <2>1. Source(h) = BackrunSourceMint(t)
    BY <1>3 DEF AgainstTheTrade, BuyOnOriginalMarketFirst
  <2> QED BY <1>1, <1>3, <2>1 DEF LegOfTrade
<1>4. CASE ~BuyOnOriginalMarketFirst(t)
  <2>1. Destination(h) = BackrunSourceMint(t)
    BY <1>4 DEF AgainstTheTrade, BuyOnOriginalMarketFirst
  <2>2. Source(h) = BackrunIntermediateMint(t)
    BY <1>1, <1>2, <2>1
  <2> QED BY <1>1, <1>4, <2>2 DEF LegOfTrade
<1> QED BY <1>3, <1>4

LEMMA CircleOfTwo ==
  ASSUME NEW t, NEW g, NEW h
  PROVE  /\ IsCircle(t, <<g, h>>) <=>
              /\ Source(g) = BackrunSourceMint(t) /\ Destination(h) = BackrunSourceMint(t)
              /\ Destination(g) = Source(h)
              /\ g.market # h.market
              /\ BuyOnOriginalMarketFirst(t) => AgainstTheTrade(t, g)
              /\ ~BuyOnOriginalMarketFirst(t) => AgainstTheTrade(t, h)
         /\ BuyOnOriginalMarketFirst(t) => Estimated(t, <<g, h>>) = <<WithEstimate(t, g), Plain(h)>>
         /\ ~BuyOnOriginalMarketFirst(t) => Estimated(t, <<g, h>>) = <<Plain(g), WithEstimate(t, h)>>
<1> DEFINE hops == <<g, h>>
<1>1. Len(hops) = 2 /\ hops[1] = g /\ hops[2] = h /\ DOMAIN hops = {1, 2} /\ 1 .. Len(hops) - 1 = {1}
  OBVIOUS
<1>2. {hops[i].market : i \in DOMAIN hops} = {g.market, h.market}
  BY <1>1
<1>3. Place(t, 2) = IF BuyOnOriginalMarketFirst(t) THEN 1 ELSE 2
  BY DEF Place, BuyOnOriginalMarketFirst
<1>4. Cardinality({g.market, h.market}) = 2 <=> g.market # h.market
  BY SizeOfPair
<1>5. hops[Place(t, 2)] = IF BuyOnOriginalMarketFirst(t) THEN g ELSE h
  BY <1>1, <1>3
<1> HIDE DEF hops
<1>6. IsCircle(t, hops) <=>
        /\ Source(g) = BackrunSourceMint(t) /\ Destination(h) = BackrunSourceMint(t)
        /\ Destination(g) = Source(h)
        /\ g.market # h.market
        /\ BuyOnOriginalMarketFirst(t) => AgainstTheTrade(t, g)
        /\ ~BuyOnOriginalMarketFirst(t) => AgainstTheTrade(t, h)
  BY <1>1, <1>2, <1>4, <1>5 DEF IsCircle
<1>7. Estimated(t, hops) =
        [i \in {1, 2} |-> [market |-> hops[i].market, fromA |-> hops[i].fromA,
                           tradeOutputOverride |-> IF i = Place(t, 2) THEN Original(t).tradeOutputOverride ELSE NoOverride]]
  BY <1>1 DEF Estimated
<1>8. /\ BuyOnOriginalMarketFirst(t) => Estimated(t, hops) = <<WithEstimate(t, g), Plain(h)>>
      /\ ~BuyOnOriginalMarketFirst(t) => Estimated(t, hops) = <<Plain(g), WithEstimate(t, h)>>
  <2>1. {1, 2} = 1 .. 2
    OBVIOUS
  <2> QED BY <1>1, <1>3, <1>7, <2>1 DEF WithEstimate, Plain
<1> QED BY <1>6, <1>8 DEF hops

LEMMA CircleOfThree ==
  ASSUME NEW t, NEW f, NEW g, NEW h
  PROVE  /\ IsCircle(t, <<f, g, h>>) <=>
              /\ Source(f) = BackrunSourceMint(t) /\ Destination(h) = BackrunSourceMint(t)
              /\ Destination(f) = Source(g) /\ Destination(g) = Source(h)
              /\ f.market # g.market /\ f.market # h.market /\ g.market # h.market
              /\ BuyOnOriginalMarketFirst(t) => AgainstTheTrade(t, f)
              /\ ~BuyOnOriginalMarketFirst(t) => AgainstTheTrade(t, h)
         /\ BuyOnOriginalMarketFirst(t) => Estimated(t, <<f, g, h>>) = <<WithEstimate(t, f), Plain(g), Plain(h)>>
         /\ ~BuyOnOriginalMarketFirst(t) => Estimated(t, <<f, g, h>>) = <<Plain(f), Plain(g), WithEstimate(t, h)>>
<1> DEFINE hops == <<f, g, h>>
<1>1. /\ Len(hops) = 3 /\ hops[1] = f /\ hops[2] = g /\ hops[3] = h
      /\ DOMAIN hops = {1, 2, 3} /\ 1 .. Len(hops) - 1 = {1, 2}
  OBVIOUS
<1>2. {hops[i].market : i \in DOMAIN hops} = {f.market, g.market, h.market}
  BY <1>1
<1>3. Place(t, 3) = IF BuyOnOriginalMarketFirst(t) THEN 1 ELSE 3
  BY DEF Place, BuyOnOriginalMarketFirst
<1>4. Cardinality({f.market, g.market, h.market}) = 3 <=>
        f.market # g.market /\ f.market # h.market /\ g.market # h.market
  BY SizeOfTriple
<1>5. hops[Place(t, 3)] = IF BuyOnOriginalMarketFirst(t) THEN f ELSE h
  BY <1>1, <1>3
<1> HIDE DEF hops
<1>6. IsCircle(t, hops) <=>
        /\ Source(f) = BackrunSourceMint(t) /\ Destination(h) = BackrunSourceMint(t)
        /\ Destination(f) = Source(g) /\ Destination(g) = Source(h)
        /\ f.market # g.market /\ f.market # h.market /\ g.market # h.market
        /\ BuyOnOriginalMarketFirst(t) => AgainstTheTrade(t, f)
        /\ ~BuyOnOriginalMarketFirst(t) => AgainstTheTrade(t, h)
  BY <1>1, <1>2, <1>4, <1>5 DEF IsCircle
<1>7. Estimated(t, hops) =
        [i \in {1, 2, 3} |-> [market |-> hops[i].market, fromA |-> hops[i].fromA,
                              tradeOutputOverride |-> IF i = Place(t, 3) THEN Original(t).tradeOutputOverride ELSE NoOverride]]
  BY <1>1 DEF Estimated
<1>8. /\ BuyOnOriginalMarketFirst(t) => Estimated(t, hops) = <<WithEstimate(t, f), Plain(g), Plain(h)>>
      /\ ~BuyOnOriginalMarketFirst(t) => Estimated(t, hops) = <<Plain(f), Plain(g), WithEstimate(t, h)>>
  <2>1. {1, 2, 3} = 1 .. 3
    OBVIOUS
  <2> QED BY <1>1, <1>3, <1>7, <2>1 DEF WithEstimate, Plain
<1> QED BY <1>6, <1>8 DEF hops

LEMMA PlainIsHop ==
  ASSUME NEW h \in Hops
  PROVE  Plain(h) = Hop(h.market, Source(h)) /\ Plain(h).market = h.market
<1>1. h.market \in Market /\ h = Leg(h.market, Source(h)) /\ Pair(h.market) = {Source(h), Destination(h)}
  BY EveryHopIsALeg
<1>2. Plain(Leg(h.market, Source(h))) = Hop(h.market, Source(h))
  BY <1>1, LegGoes
<1> QED BY <1>1, <1>2 DEF Plain

LEMMA OriginalMarket ==
  ASSUME NEW t PROVE Original(t).market = t.market
BY DEF Original

LEMMA CircleOfHops ==
  ASSUME NEW t
  PROVE  /\ \A a : Circle(t, <<a>>) =
              IF BuyOnOriginalMarketFirst(t) THEN <<Original(t), a>> ELSE <<a, Original(t)>>
         /\ \A a, b : Circle(t, <<a, b>>) =
              IF BuyOnOriginalMarketFirst(t) THEN <<Original(t), a, b>> ELSE <<a, b, Original(t)>>
<1>1. ASSUME NEW a, NEW b PROVE <<a>> \o <<b>> = <<a, b>>
  <2> DEFINE r == <<a>> \o <<b>>
  <2>1. <<a>> \in Seq({a, b}) /\ <<b>> \in Seq({a, b})
    OBVIOUS
  <2>2. r \in Seq({a, b}) /\ Len(r) = 2 /\ r[1] = a /\ r[2] = b
    BY <2>1
  <2> HIDE DEF r
  <2>3. r = <<a, b>>
    BY <2>2
  <2> QED BY <2>3 DEF r
<1>2. ASSUME NEW a, NEW b, NEW c
      PROVE  <<a>> \o <<b, c>> = <<a, b, c>> /\ <<a, b>> \o <<c>> = <<a, b, c>>
  <2>1. /\ <<a>> \in Seq({a, b, c}) /\ <<b, c>> \in Seq({a, b, c})
        /\ <<a, b>> \in Seq({a, b, c}) /\ <<c>> \in Seq({a, b, c})
    OBVIOUS
  <2> DEFINE r == <<a>> \o <<b, c>>
             q == <<a, b>> \o <<c>>
  <2>2. r \in Seq({a, b, c}) /\ Len(r) = 3 /\ r[1] = a /\ r[2] = b /\ r[3] = c
    BY <2>1
  <2>3. q \in Seq({a, b, c}) /\ Len(q) = 3 /\ q[1] = a /\ q[2] = b /\ q[3] = c
    BY <2>1
  <2> HIDE DEF r, q
  <2>4. r = <<a, b, c>> /\ q = <<a, b, c>>
    BY <2>2, <2>3
  <2> QED BY <2>4 DEF r, q
<1> QED BY <1>1, <1>2 DEF Circle

LEMMA DifferOfHops ==
  /\ \A a, b : MarketsDiffer(<<a, b>>) <=> a.market # b.market
  /\ \A a, b, c : MarketsDiffer(<<a, b, c>>) <=>
       a.market # b.market /\ a.market # c.market /\ b.market # c.market
<1>1. ASSUME NEW a, NEW b PROVE MarketsDiffer(<<a, b>>) <=> a.market # b.market
  <2> DEFINE r == <<a, b>>
  <2>1. DOMAIN r = {1, 2} /\ r[1] = a /\ r[2] = b
    OBVIOUS
  <2> HIDE DEF r
  <2>2. MarketsDiffer(r) <=> a.market # b.market
    BY <2>1 DEF MarketsDiffer
  <2> QED BY <2>2 DEF r
<1>2. ASSUME NEW a, NEW b, NEW c
      PROVE  MarketsDiffer(<<a, b, c>>) <=> a.market # b.market /\ a.market # c.market /\ b.market # c.market
  <2> DEFINE r == <<a, b, c>>
  <2>1. DOMAIN r = {1, 2, 3} /\ r[1] = a /\ r[2] = b /\ r[3] = c
    OBVIOUS
  <2> HIDE DEF r
  <2>2. MarketsDiffer(r) <=> a.market # b.market /\ a.market # c.market /\ b.market # c.market
    BY <2>1 DEF MarketsDiffer
  <2> QED BY <2>2 DEF r
<1> QED BY <1>1, <1>2

\* Parallel markets to a market of interest are of interest.
LEMMA ParallelMarkets ==
  ASSUME NEW t \in Trades, NEW m \in GetMarketsForPair(BackrunSourceMint(t), BackrunIntermediateMint(t))
  PROVE  /\ m \in Market /\ m \in OfInterest
         /\ Pair(m) = {BackrunSourceMint(t), BackrunIntermediateMint(t)}
         /\ Pair(m) = {BackrunIntermediateMint(t), BackrunSourceMint(t)}
<1>1. Pair(m) = Pair(t.market) /\ m \in Market
  BY TheTradesOwnHop DEF GetMarketsForPair
<1>2. m \in OfInterest
  BY <1>1, MintsOfTrade DEF OfInterest
<1> QED BY <1>1, <1>2, TheTradesOwnHop

LEMMA TwoHopsAreCircles ==
  ASSUME NEW t \in Trades, NEW route
  PROVE  route \in TwoHops(t) /\ MarketsDiffer(route) <=>
           \E g, h \in Hops : IsCircle(t, <<g, h>>) /\ route = Estimated(t, <<g, h>>)
<1> DEFINE src == BackrunSourceMint(t)
           mid == BackrunIntermediateMint(t)
           own == LegOfTrade(t)
<1>1. /\ own \in Hops /\ own.market = t.market /\ WithEstimate(t, own) = Original(t)
      /\ AgainstTheTrade(t, own)
      /\ BuyOnOriginalMarketFirst(t) => Source(own) = src /\ Destination(own) = mid
      /\ ~BuyOnOriginalMarketFirst(t) => Source(own) = mid /\ Destination(own) = src
  BY TheTradesOwnHop
<1>2. StartOfOthers(t) = IF BuyOnOriginalMarketFirst(t) THEN mid ELSE src
  BY DEF StartOfOthers
<1>3. ASSUME NEW m \in GetMarketsForPair(src, mid)
      PROVE  /\ Leg(m, mid) \in Hops /\ Source(Leg(m, mid)) = mid /\ Destination(Leg(m, mid)) = src
             /\ Leg(m, src) \in Hops /\ Source(Leg(m, src)) = src /\ Destination(Leg(m, src)) = mid
             /\ Plain(Leg(m, mid)) = Hop(m, mid) /\ Plain(Leg(m, src)) = Hop(m, src)
             /\ Leg(m, mid).market = m /\ Leg(m, src).market = m
             /\ Hop(m, mid).market = m /\ Hop(m, src).market = m
  <2>1. m \in Market /\ m \in OfInterest /\ Pair(m) = {src, mid} /\ Pair(m) = {mid, src}
    BY ParallelMarkets
  <2>2. Leg(m, mid).market = m /\ Leg(m, src).market = m /\ Hop(m, mid).market = m /\ Hop(m, src).market = m
    BY DEF Leg, Hop
  <2> HIDE DEF src, mid
  <2> QED BY <2>1, <2>2, LegGoes
<1>4. Original(t).market = t.market
  BY OriginalMarket
<1> HIDE DEF src, mid, own
<1>5. ASSUME route \in TwoHops(t), MarketsDiffer(route)
      PROVE  \E g, h \in Hops : IsCircle(t, <<g, h>>) /\ route = Estimated(t, <<g, h>>)
  <2>1. PICK m \in GetMarketsForPair(src, mid) : route = Circle(t, <<Hop(m, StartOfOthers(t))>>)
    BY <1>5 DEF TwoHops, src, mid
  <2>2. CASE BuyOnOriginalMarketFirst(t)
    <3>1. route = <<Original(t), Hop(m, mid)>>
      BY <1>2, <2>1, <2>2, CircleOfHops
    <3>2. t.market # m
      BY <3>1, <1>3, <1>4, <1>5, DifferOfHops
    <3>3. IsCircle(t, <<own, Leg(m, mid)>>)
      BY <1>1, <1>3, <2>2, <3>2, CircleOfTwo DEF src
    <3>4. Estimated(t, <<own, Leg(m, mid)>>) = <<WithEstimate(t, own), Plain(Leg(m, mid))>>
      BY <2>2, CircleOfTwo
    <3> QED BY <1>1, <1>3, <3>1, <3>3, <3>4
  <2>3. CASE ~BuyOnOriginalMarketFirst(t)
    <3>1. route = <<Hop(m, src), Original(t)>>
      BY <1>2, <2>1, <2>3, CircleOfHops
    <3>2. t.market # m
      BY <3>1, <1>3, <1>4, <1>5, DifferOfHops
    <3>3. IsCircle(t, <<Leg(m, src), own>>)
      BY <1>1, <1>3, <2>3, <3>2, CircleOfTwo DEF src
    <3>4. Estimated(t, <<Leg(m, src), own>>) = <<Plain(Leg(m, src)), WithEstimate(t, own)>>
      BY <2>3, CircleOfTwo
    <3> QED BY <1>1, <1>3, <3>1, <3>3, <3>4
  <2> QED BY <2>2, <2>3
<1>6. ASSUME NEW g \in Hops, NEW h \in Hops, IsCircle(t, <<g, h>>), route = Estimated(t, <<g, h>>)
      PROVE  route \in TwoHops(t) /\ MarketsDiffer(route)
  <2>1. /\ Source(g) = src /\ Destination(h) = src /\ Destination(g) = Source(h)
        /\ g.market # h.market
        /\ BuyOnOriginalMarketFirst(t) =>
             AgainstTheTrade(t, g) /\ route = <<WithEstimate(t, g), Plain(h)>>
        /\ ~BuyOnOriginalMarketFirst(t) =>
             AgainstTheTrade(t, h) /\ route = <<Plain(g), WithEstimate(t, h)>>
    BY <1>6, CircleOfTwo DEF src
  <2>2. /\ Plain(g) = Hop(g.market, Source(g)) /\ Plain(g).market = g.market
        /\ Plain(h) = Hop(h.market, Source(h)) /\ Plain(h).market = h.market
    BY PlainIsHop
  <2>3. /\ g.market \in Market /\ Pair(g.market) = {Source(g), Destination(g)}
        /\ h.market \in Market /\ Pair(h.market) = {Source(h), Destination(h)}
    BY EveryHopIsALeg
  <2>4. CASE BuyOnOriginalMarketFirst(t)
    <3>1. g = own
      BY <2>1, <2>4, OnlyTheTradesOwnHop DEF own
    <3>2. route = <<Original(t), Hop(h.market, mid)>>
      BY <1>1, <2>1, <2>2, <2>4, <3>1
    <3>3. h.market \in GetMarketsForPair(src, mid)
      BY <1>1, <2>1, <2>3, <2>4, <3>1 DEF GetMarketsForPair
    <3>4. route = Circle(t, <<Hop(h.market, StartOfOthers(t))>>)
      BY <1>2, <2>4, <3>2, CircleOfHops
    <3>5. MarketsDiffer(route)
      BY <1>1, <1>3, <1>4, <2>1, <3>1, <3>2, <3>3, DifferOfHops
    <3> QED BY <3>3, <3>4, <3>5 DEF TwoHops, src, mid
  <2>5. CASE ~BuyOnOriginalMarketFirst(t)
    <3>1. h = own
      BY <2>1, <2>5, OnlyTheTradesOwnHop DEF own
    <3>2. route = <<Hop(g.market, src), Original(t)>>
      BY <1>1, <2>1, <2>2, <2>5, <3>1
    <3>3. g.market \in GetMarketsForPair(src, mid)
      BY <1>1, <2>1, <2>3, <2>5, <3>1 DEF GetMarketsForPair
    <3>4. route = Circle(t, <<Hop(g.market, StartOfOthers(t))>>)
      BY <1>2, <2>5, <3>2, CircleOfHops
    <3>5. MarketsDiffer(route)
      BY <1>1, <1>3, <1>4, <2>1, <3>1, <3>2, <3>3, DifferOfHops
    <3> QED BY <3>3, <3>4, <3>5 DEF TwoHops, src, mid
  <2> QED BY <2>4, <2>5
<1> QED BY <1>5, <1>6

\* What the graph gives between two mints: two markets with a mint in between.
LEMMA RouteBetween ==
  ASSUME NEW x \in Mint, NEW y \in Mint, NEW i \in Mint,
         NEW m \in OfInterest, NEW n \in OfInterest, Pair(m) = {x, i}, Pair(n) = {i, y}
  PROVE  [hop1 |-> m, hop2 |-> n] \in TwoHopRoutes(x, y)
<1>1. m \in GetMarkets(x, i) /\ n \in GetMarkets(i, y)
  BY DEF GetMarkets
<1>2. n \in GetMarkets(y, i)
  BY <1>1, MarketsBothWays
<1>3. i \in GetNeighbours(x) \cap GetNeighbours(y)
  BY <1>1, <1>2 DEF GetNeighbours
<1> QED BY <1>1, <1>3, RouteOfTwoHops

LEMMA HopsOfRoute ==
  ASSUME NEW x, NEW y, NEW r \in TwoHopRoutes(x, y)
  PROVE  \E i \in Mint :
           /\ r.hop1 \in Market /\ r.hop1 \in OfInterest /\ Pair(r.hop1) = {x, i} /\ Pair(r.hop1) = {i, x}
           /\ r.hop2 \in Market /\ r.hop2 \in OfInterest /\ Pair(r.hop2) = {i, y} /\ Pair(r.hop2) = {y, i}
<1>1. PICK i \in GetNeighbours(x) \cap GetNeighbours(y) :
        \E m \in GetMarkets(x, i), n \in GetMarkets(i, y) : r = [hop1 |-> m, hop2 |-> n]
  BY RouteOfTwoHops
<1>2. PICK m \in GetMarkets(x, i), n \in GetMarkets(i, y) : r = [hop1 |-> m, hop2 |-> n]
  BY <1>1
<1>3. r.hop1 = m /\ r.hop2 = n /\ i \in Mint
  BY <1>2 DEF GetNeighbours
<1>4. /\ m \in Market /\ m \in OfInterest /\ Pair(m) = {x, i} /\ Pair(m) = {i, x}
      /\ n \in Market /\ n \in OfInterest /\ Pair(n) = {i, y} /\ Pair(n) = {y, i}
  BY DEF GetMarkets, OfInterest
<1> QED BY <1>3, <1>4

\* The hops of a route: from x over the mint in between to y.
LEMMA LegsOfRoute ==
  ASSUME NEW x, NEW y, NEW r \in TwoHopRoutes(x, y)
  PROVE  \E g, h \in Hops :
           /\ g.market = r.hop1 /\ Source(g) = x /\ Destination(h) = y
           /\ h.market = r.hop2 /\ Destination(g) = Source(h)
           /\ Plain(g) = Hop(r.hop1, x) /\ Plain(h) = Hop(r.hop2, Destination(Hop(r.hop1, x)))
<1>1. PICK i \in Mint :
        /\ r.hop1 \in Market /\ r.hop1 \in OfInterest /\ Pair(r.hop1) = {x, i} /\ Pair(r.hop1) = {i, x}
        /\ r.hop2 \in Market /\ r.hop2 \in OfInterest /\ Pair(r.hop2) = {i, y} /\ Pair(r.hop2) = {y, i}
  BY HopsOfRoute
<1>2. r.hop1 \in Market /\ r.hop1 \in OfInterest /\ Pair(r.hop1) = {x, i}
  BY <1>1
<1>3. r.hop2 \in Market /\ r.hop2 \in OfInterest /\ Pair(r.hop2) = {i, y}
  BY <1>1
<1>4. /\ Source(Leg(r.hop1, x)) = x /\ Destination(Leg(r.hop1, x)) = i
      /\ Destination(Hop(r.hop1, x)) = i /\ Plain(Leg(r.hop1, x)) = Hop(r.hop1, x)
      /\ Leg(r.hop1, x) \in Hops
  BY <1>2, LegGoes
<1>5. /\ Source(Leg(r.hop2, i)) = i /\ Destination(Leg(r.hop2, i)) = y
      /\ Plain(Leg(r.hop2, i)) = Hop(r.hop2, i)
      /\ Leg(r.hop2, i) \in Hops
  BY <1>3, LegGoes
<1>6. Leg(r.hop1, x).market = r.hop1 /\ Leg(r.hop2, i).market = r.hop2
  BY DEF Leg
<1> QED BY <1>4, <1>5, <1>6

\* And back: two hops that meet are a route of the graph.
LEMMA RouteOfLegs ==
  ASSUME NEW g \in Hops, NEW h \in Hops, Destination(g) = Source(h)
  PROVE  LET r == [hop1 |-> g.market, hop2 |-> h.market] IN
           /\ r \in TwoHopRoutes(Source(g), Destination(h))
           /\ Plain(g) = Hop(r.hop1, Source(g))
           /\ Plain(h) = Hop(r.hop2, Destination(Hop(r.hop1, Source(g))))
<1>1. /\ g.market \in Market /\ g.market \in OfInterest
      /\ Pair(g.market) = {Source(g), Destination(g)}
      /\ h.market \in Market /\ h.market \in OfInterest
      /\ Pair(h.market) = {Source(h), Destination(h)}
      /\ Source(g) \in Mint /\ Destination(h) \in Mint /\ Source(h) \in Mint
  BY EveryHopIsALeg
<1>2. [hop1 |-> g.market, hop2 |-> h.market] \in TwoHopRoutes(Source(g), Destination(h))
  BY <1>1, RouteBetween
<1>3. Plain(g) = Hop(g.market, Source(g)) /\ Plain(h) = Hop(h.market, Source(h))
  BY PlainIsHop
<1>4. Destination(Hop(g.market, Source(g))) = Source(h)
  BY <1>1, LegGoes
<1> QED BY <1>2, <1>3, <1>4

LEMMA ThreeHopsAreCircles ==
  ASSUME NEW t \in Trades, NEW route
  PROVE  route \in ThreeHops(t, TwoHopRoutes(CacheKey(t)[1], CacheKey(t)[2])) /\ MarketsDiffer(route) <=>
           \E f, g, h \in Hops : IsCircle(t, <<f, g, h>>) /\ route = Estimated(t, <<f, g, h>>)
<1> DEFINE src == BackrunSourceMint(t)
           mid == BackrunIntermediateMint(t)
           own == LegOfTrade(t)
           bought == BuyOnOriginalMarketFirst(t)
           from == IF bought THEN mid ELSE src
           to == IF bought THEN src ELSE mid
           routes == TwoHopRoutes(CacheKey(t)[1], CacheKey(t)[2])
           hops(r) == <<Hop(r.hop1, from), Hop(r.hop2, Destination(Hop(r.hop1, from)))>>
<1>1. /\ own \in Hops /\ own.market = t.market /\ WithEstimate(t, own) = Original(t)
      /\ AgainstTheTrade(t, own)
      /\ bought => Source(own) = src /\ Destination(own) = mid
      /\ ~bought => Source(own) = mid /\ Destination(own) = src
  BY TheTradesOwnHop
<1>2. StartOfOthers(t) = from
  BY DEF StartOfOthers
<1>3. routes = TwoHopRoutes(from, to)
  BY DEF CacheKey
<1>4. ThreeHops(t, routes) = {Circle(t, hops(r)) : r \in routes}
  BY <1>2 DEF ThreeHops
<1>5. Original(t).market = t.market
  BY OriginalMarket
<1>6. \A a, b : Circle(t, <<a, b>>) = IF bought THEN <<Original(t), a, b>> ELSE <<a, b, Original(t)>>
  BY CircleOfHops
<1>7. \A m, x : Hop(m, x).market = m
  BY DEF Hop
<1>8. ASSUME NEW f \in Hops, NEW g \in Hops, NEW h \in Hops
      PROVE
        /\ IsCircle(t, <<f, g, h>>) <=>
             /\ Source(f) = src /\ Destination(h) = src
             /\ Destination(f) = Source(g) /\ Destination(g) = Source(h)
             /\ f.market # g.market /\ f.market # h.market /\ g.market # h.market
             /\ bought => AgainstTheTrade(t, f)
             /\ ~bought => AgainstTheTrade(t, h)
        /\ bought => Estimated(t, <<f, g, h>>) = <<WithEstimate(t, f), Plain(g), Plain(h)>>
        /\ ~bought => Estimated(t, <<f, g, h>>) = <<Plain(f), Plain(g), WithEstimate(t, h)>>
  BY CircleOfThree
<1>9. \A h \in Hops : AgainstTheTrade(t, h) => h = own
  BY OnlyTheTradesOwnHop
<1>10. (bought => from = mid /\ to = src) /\ (~bought => from = src /\ to = mid)
  OBVIOUS
<1> HIDE DEF src, mid, own, bought, from, to, routes
<1>11. ASSUME route \in ThreeHops(t, routes), MarketsDiffer(route)
       PROVE  \E f, g, h \in Hops : IsCircle(t, <<f, g, h>>) /\ route = Estimated(t, <<f, g, h>>)
  <2>1. PICK r \in routes : route = Circle(t, hops(r))
    BY <1>4, <1>11
  <2>2. r \in TwoHopRoutes(from, to)
    BY <1>3
  <2>3. PICK g \in Hops, h \in Hops :
          /\ g.market = r.hop1 /\ Source(g) = from /\ Destination(h) = to
          /\ h.market = r.hop2 /\ Destination(g) = Source(h)
          /\ Plain(g) = Hop(r.hop1, from) /\ Plain(h) = Hop(r.hop2, Destination(Hop(r.hop1, from)))
    BY <2>2, LegsOfRoute
  <2>4. route = Circle(t, <<Plain(g), Plain(h)>>)
    BY <2>1, <2>3
  <2>5. Plain(g).market = g.market /\ Plain(h).market = h.market
    BY PlainIsHop
  <2>6. CASE bought
    <3>1. route = <<Original(t), Plain(g), Plain(h)>>
      BY <1>6, <2>4, <2>6
    <3>2. t.market # g.market /\ t.market # h.market /\ g.market # h.market
      BY <1>5, <1>11, <2>5, <3>1, DifferOfHops
    <3>3. IsCircle(t, <<own, g, h>>)
      BY <1>1, <1>8, <1>10, <2>3, <2>6, <3>2
    <3>4. Estimated(t, <<own, g, h>>) = <<WithEstimate(t, own), Plain(g), Plain(h)>>
      BY <1>1, <1>8, <2>6
    <3> QED BY <1>1, <3>1, <3>3, <3>4
  <2>7. CASE ~bought
    <3>1. route = <<Plain(g), Plain(h), Original(t)>>
      BY <1>6, <2>4, <2>7
    <3>2. g.market # t.market /\ h.market # t.market /\ g.market # h.market
      BY <1>5, <1>11, <2>5, <3>1, DifferOfHops
    <3>3. IsCircle(t, <<g, h, own>>)
      BY <1>1, <1>8, <1>10, <2>3, <2>7, <3>2
    <3>4. Estimated(t, <<g, h, own>>) = <<Plain(g), Plain(h), WithEstimate(t, own)>>
      BY <1>1, <1>8, <2>7
    <3> QED BY <1>1, <3>1, <3>3, <3>4
  <2> QED BY <2>6, <2>7
<1>12. ASSUME NEW g \in Hops, NEW h \in Hops, Source(g) = from, Destination(h) = to, Destination(g) = Source(h)
       PROVE  Circle(t, <<Plain(g), Plain(h)>>) \in ThreeHops(t, routes)
  <2> DEFINE r == [hop1 |-> g.market, hop2 |-> h.market]
  <2>1. /\ r \in TwoHopRoutes(Source(g), Destination(h))
        /\ Plain(g) = Hop(r.hop1, Source(g))
        /\ Plain(h) = Hop(r.hop2, Destination(Hop(r.hop1, Source(g))))
    BY <1>12, RouteOfLegs
  <2> HIDE DEF r
  <2>2. r \in routes /\ hops(r) = <<Plain(g), Plain(h)>>
    BY <1>3, <1>12, <2>1
  <2> QED BY <1>4, <2>2
<1>13. ASSUME NEW f \in Hops, NEW g \in Hops, NEW h \in Hops,
              IsCircle(t, <<f, g, h>>), route = Estimated(t, <<f, g, h>>)
       PROVE  route \in ThreeHops(t, routes) /\ MarketsDiffer(route)
  <2>1. /\ Source(f) = src /\ Destination(h) = src
        /\ Destination(f) = Source(g) /\ Destination(g) = Source(h)
        /\ f.market # g.market /\ f.market # h.market /\ g.market # h.market
        /\ bought => AgainstTheTrade(t, f) /\ route = <<WithEstimate(t, f), Plain(g), Plain(h)>>
        /\ ~bought => AgainstTheTrade(t, h) /\ route = <<Plain(f), Plain(g), WithEstimate(t, h)>>
    BY <1>8, <1>13
  <2>2. Plain(f).market = f.market /\ Plain(g).market = g.market /\ Plain(h).market = h.market
    BY PlainIsHop
  <2>3. CASE bought
    <3>1. f = own
      BY <1>9, <2>1, <2>3
    <3>2. route = <<Original(t), Plain(g), Plain(h)>>
      BY <1>1, <2>1, <2>3, <3>1
    <3>3. MarketsDiffer(route)
      BY <1>1, <1>5, <2>1, <2>2, <3>1, <3>2, DifferOfHops
    <3>4. Circle(t, <<Plain(g), Plain(h)>>) \in ThreeHops(t, routes)
      BY <1>1, <1>10, <1>12, <2>1, <2>3, <3>1
    <3> QED BY <1>6, <2>3, <3>2, <3>3, <3>4
  <2>4. CASE ~bought
    <3>1. h = own
      BY <1>9, <2>1, <2>4
    <3>2. route = <<Plain(f), Plain(g), Original(t)>>
      BY <1>1, <2>1, <2>4, <3>1
    <3>3. MarketsDiffer(route)
      BY <1>1, <1>5, <2>1, <2>2, <3>1, <3>2, DifferOfHops
    <3>4. Circle(t, <<Plain(f), Plain(g)>>) \in ThreeHops(t, routes)
      BY <1>1, <1>10, <1>12, <2>1, <2>4, <3>1
    <3> QED BY <1>6, <2>4, <3>2, <3>3, <3>4
  <2> QED BY <2>3, <2>4
<1> QED BY <1>11, <1>13 DEF routes

LEMMA RoutesAreCircles ==
  ASSUME NEW t \in Trades
  PROVE  ArbRoutes(t, TwoHopRoutes(CacheKey(t)[1], CacheKey(t)[2])) = Circles(t)
<1> DEFINE routes == TwoHopRoutes(CacheKey(t)[1], CacheKey(t)[2])
<1>1. ASSUME NEW route
      PROVE  route \in Circles(t) <=>
               \/ \E g, h \in Hops : IsCircle(t, <<g, h>>) /\ route = Estimated(t, <<g, h>>)
               \/ \E f, g, h \in Hops : IsCircle(t, <<f, g, h>>) /\ route = Estimated(t, <<f, g, h>>)
  <2>1. route \in Circles(t) <=>
          \/ \E hops \in [1 .. 2 -> Hops] : IsCircle(t, hops) /\ route = Estimated(t, hops)
          \/ \E hops \in [1 .. 3 -> Hops] : IsCircle(t, hops) /\ route = Estimated(t, hops)
    BY DEF Circles
  <2>2. \A hops \in [1 .. 2 -> Hops] : hops = <<hops[1], hops[2]>> /\ hops[1] \in Hops /\ hops[2] \in Hops
    OBVIOUS
  <2>3. \A hops \in [1 .. 3 -> Hops] :
          hops = <<hops[1], hops[2], hops[3]>> /\ hops[1] \in Hops /\ hops[2] \in Hops /\ hops[3] \in Hops
    OBVIOUS
  <2>4. \A f, g, h \in Hops : <<g, h>> \in [1 .. 2 -> Hops] /\ <<f, g, h>> \in [1 .. 3 -> Hops]
    OBVIOUS
  <2>5. ASSUME NEW hops \in [1 .. 2 -> Hops], IsCircle(t, hops), route = Estimated(t, hops)
        PROVE  \E g, h \in Hops : IsCircle(t, <<g, h>>) /\ route = Estimated(t, <<g, h>>)
    <3>1. PICK g \in Hops, h \in Hops : hops = <<g, h>>
      BY <2>2
    <3> QED BY <2>5, <3>1
  <2>6. ASSUME NEW hops \in [1 .. 3 -> Hops], IsCircle(t, hops), route = Estimated(t, hops)
        PROVE  \E f, g, h \in Hops : IsCircle(t, <<f, g, h>>) /\ route = Estimated(t, <<f, g, h>>)
    <3>1. PICK f \in Hops, g \in Hops, h \in Hops : hops = <<f, g, h>>
      BY <2>3
    <3> QED BY <2>6, <3>1
  <2>7. ASSUME NEW g \in Hops, NEW h \in Hops, IsCircle(t, <<g, h>>), route = Estimated(t, <<g, h>>)
        PROVE  route \in Circles(t)
    BY <2>1, <2>4, <2>7
  <2>8. ASSUME NEW f \in Hops, NEW g \in Hops, NEW h \in Hops,
               IsCircle(t, <<f, g, h>>), route = Estimated(t, <<f, g, h>>)
        PROVE  route \in Circles(t)
    BY <2>1, <2>4, <2>8
  <2> QED BY <2>1, <2>5, <2>6, <2>7, <2>8
<1>2. ASSUME NEW route
      PROVE  route \in ArbRoutes(t, routes) <=>
               \/ route \in TwoHops(t) /\ MarketsDiffer(route)
               \/ route \in ThreeHops(t, routes) /\ MarketsDiffer(route)
  BY DEF ArbRoutes
<1>3. ASSUME NEW route PROVE route \in ArbRoutes(t, routes) <=> route \in Circles(t)
  <2>1. route \in TwoHops(t) /\ MarketsDiffer(route) <=>
          \E g, h \in Hops : IsCircle(t, <<g, h>>) /\ route = Estimated(t, <<g, h>>)
    BY TwoHopsAreCircles
  <2>2. route \in ThreeHops(t, routes) /\ MarketsDiffer(route) <=>
          \E f, g, h \in Hops : IsCircle(t, <<f, g, h>>) /\ route = Estimated(t, <<f, g, h>>)
    BY ThreeHopsAreCircles
  <2> QED BY <1>1, <1>2, <2>1, <2>2
<1> QED BY <1>3

\* The routes a search begins with are exactly the circles a backrun can take,
\* whichever pair of mints was looked up first and left its routes, and the
\* reversed ones, in the cache (lines 186-300; markets/index.ts 226-278).
THEOREM CirclesAreAsked == Spec => []RoutesAreTheCircles
<1>1. Init => RoutesAreTheCircles
  BY DEF Init, RoutesAreTheCircles
<1>2. SearchInv /\ RoutesAreTheCircles /\ [Next]_vars => RoutesAreTheCircles'
  <2> SUFFICES ASSUME SearchInv, RoutesAreTheCircles, [Next]_vars PROVE RoutesAreTheCircles'
    OBVIOUS
  <2>1. CASE UNCHANGED <<stage, step, trade, arbRoutes>>
    BY <2>1 DEF RoutesAreTheCircles
  <2>2. ASSUME NEW s \in Simulations, NEW t \in PostSimulateFilter(s), TakeTrade(t, s)
        PROVE  RoutesAreTheCircles'
    <3>1. t \in Trades /\ trade' = t
      BY <2>2, TradeFacts DEF TakeTrade
    <3> DEFINE routes == ArbRoutes(t, TwoHopRoutes(CacheKey(t)[1], CacheKey(t)[2]))
    <3>2. Len(arbRoutes') = Cardinality(routes) /\ {arbRoutes'[i] : i \in DOMAIN arbRoutes'} = routes
      BY <2>2, FirstRoutes DEF SearchInv
    <3>3. routes = Circles(t)
      BY <3>1, RoutesAreCircles
    <3>4. CirclesOf[t] = Circles(t)
      BY <3>1 DEF CirclesOf
    <3> HIDE DEF routes
    <3> QED BY <3>1, <3>2, <3>3, <3>4 DEF RoutesAreTheCircles, CirclesOf
  <2>3. CASE EndOfStep
    <3>1. stage' = "idle" \/ step' = step + 1
      BY <2>3 DEF EndOfStep, NextStep, Yield
    <3>2. stage = "quoting"
      BY <2>3 DEF EndOfStep
    <3> QED BY <3>1, <3>2 DEF SearchInv, Ranges, RoutesAreTheCircles
  <2>4. ASSUME NEW i \in DOMAIN quotes, QuoteRejected(i)
        PROVE  RoutesAreTheCircles'
    BY <2>4 DEF QuoteRejected, RoutesAreTheCircles
  <2> QED
    BY <2>1, <2>2, <2>3, <2>4 DEF Next, Answer, NoOutput, TimeOut, Settle, Tick, Dead, vars, search
<1> QED BY <1>1, <1>2, SearchIsInvariant, PTL DEF Spec

-----------------------------------------------------------------------------
(***************************************************************************)
(* The hop on the market of the trade                                      *)
(***************************************************************************)
LEMMA OriginalIsThere ==
  ASSUME NEW t, NEW routes, NEW route \in ArbRoutes(t, routes)
  PROVE  \E i \in DOMAIN route : route[i] = Original(t)
<1>1. ASSUME NEW a, route = <<Original(t), a>> \/ route = <<a, Original(t)>>
      PROVE  \E i \in DOMAIN route : route[i] = Original(t)
  BY <1>1
<1>2. ASSUME NEW a, NEW b, route = <<Original(t), a, b>> \/ route = <<a, b, Original(t)>>
      PROVE  \E i \in DOMAIN route : route[i] = Original(t)
  BY <1>2
<1>3. CASE route \in TwoHops(t)
  <2>1. PICK a : route = Circle(t, <<a>>)
    BY <1>3 DEF TwoHops
  <2>2. route = <<Original(t), a>> \/ route = <<a, Original(t)>>
    BY <2>1, CircleOfHops
  <2> QED BY <1>1, <2>2
<1>4. CASE route \in ThreeHops(t, routes)
  <2>1. PICK a, b : route = Circle(t, <<a, b>>)
    BY <1>4 DEF ThreeHops
  <2>2. route = <<Original(t), a, b>> \/ route = <<a, b, Original(t)>>
    BY <2>1, CircleOfHops
  <2> QED BY <1>2, <2>2
<1> QED BY <1>3, <1>4 DEF ArbRoutes

LEMMA OriginalUndoes ==
  ASSUME NEW s \in Simulations, NEW t \in PostSimulateFilter(s)
  PROVE  GoesAgainst(s, Original(t)) /\ Original(t).market = s.market
<1>1. s.pre.A \in Nat /\ s.pre.B \in Nat /\ s.post.A \in Nat /\ s.post.B \in Nat
  BY SizesAssumption DEF SimulatedMarket, Vaults
<1>2. /\ IsSwap(s) /\ t.market = s.market
      /\ t.baseIsTokenA = TokenAIsBase(s.market)
      /\ t.tradeDirection = TradeDirection(s)
  BY DEF PostSimulateFilter
<1>3. PICK a, b : a = Diff(s, "A") /\ b = Diff(s, "B")
  OBVIOUS
<1>4. a \in Int /\ b \in Int /\ a # 0 /\ b # 0 /\ (a < 0) # (b < 0)
  BY <1>1, <1>2, <1>3 DEF IsSwap, Diff
<1>5. /\ TokenAIsBase(s.market) => (BuyOnOriginalMarketFirst(t) <=> a < 0)
      /\ ~TokenAIsBase(s.market) => (BuyOnOriginalMarketFirst(t) <=> b < 0)
  BY <1>2, <1>3 DEF BuyOnOriginalMarketFirst, TradeDirection
<1>6. /\ BuyOnOriginalMarketFirst(t) => (Original(t).fromA <=> TokenAIsBase(s.market))
      /\ ~BuyOnOriginalMarketFirst(t) => (Original(t).fromA <=> ~TokenAIsBase(s.market))
  BY <1>2 DEF Original
<1>7. IF Original(t).fromA THEN a < 0 ELSE b < 0
  <2>1. (a < 0 /\ ~(b < 0)) \/ (b < 0 /\ ~(a < 0))
    BY <1>4
  <2> QED BY <1>5, <1>6, <2>1, Zenon
<1>8. Original(t).market = s.market
  BY <1>2, OriginalMarket
<1>9. IF Original(t).fromA THEN Diff(s, "A") < 0 ELSE Diff(s, "B") < 0
  BY <1>3, <1>7, Zenon
<1> QED BY <1>8, <1>9, Zenon DEF GoesAgainst

\* Whichever token of a market is the base, and whether it was bought or sold,
\* every route goes once through the market of the trade and takes out of it what
\* the trade put in (post-simulation-filter.ts, lines 108-148; calculate-arb.ts,
\* lines 186-243).
THEOREM TheTradeIsUndone == Spec => BackrunsUndoTheTrade
<1>1. SearchInv /\ [Next]_vars => [stage = "idle" => UndoTheTrade(arbRoutes', simulated')]_vars
  <2> SUFFICES ASSUME SearchInv, Next, stage = "idle", NEW i \in DOMAIN arbRoutes'
               PROVE  /\ \E h \in Range(arbRoutes'[i]) : h.market = simulated'.market
                      /\ \A h \in Range(arbRoutes'[i]) : h.market = simulated'.market => GoesAgainst(simulated', h)
    BY DEF UndoTheTrade
  <2>1. PICK s \in Simulations : \E t \in PostSimulateFilter(s) : TakeTrade(t, s)
    <3>1. ~EndOfStep /\ ~Tick /\ ~Dead
      BY DEF EndOfStep, Tick, Dead
    <3>2. \A j \in DOMAIN quotes : ~QuoteRejected(j) /\ \A q : ~Settle(j, q)
      BY DEF QuoteRejected, Settle
    <3>3. \A j \in DOMAIN quotes : ~NoOutput(j) /\ ~TimeOut(j) /\ \A gain \in Gains : ~Answer(j, gain)
      BY <3>2 DEF NoOutput, TimeOut, Answer
    <3> QED BY <3>1, <3>2, <3>3 DEF Next
  <2>2. PICK t \in PostSimulateFilter(s) : TakeTrade(t, s)
    BY <2>1
  <2> DEFINE routes == ArbRoutes(t, TwoHopRoutes(CacheKey(t)[1], CacheKey(t)[2]))
  <2>3. {arbRoutes'[j] : j \in DOMAIN arbRoutes'} = routes
    BY <2>2, FirstRoutes DEF SearchInv
  <2>4. PICK route \in routes : route = arbRoutes'[i]
    BY <2>3
  <2>5. simulated' = s
    BY <2>2 DEF TakeTrade
  <2>6. MarketsDiffer(route) /\ \E j \in DOMAIN route : route[j] = Original(t)
    BY OriginalIsThere DEF ArbRoutes
  <2>7. PICK j \in DOMAIN route : route[j] = Original(t)
    BY <2>6
  <2>8. GoesAgainst(s, Original(t)) /\ Original(t).market = s.market
    BY OriginalUndoes
  <2> HIDE DEF routes
  <2>9. Original(t) \in Range(route)
    BY <2>7 DEF Range
  <2>10. ASSUME NEW h \in Range(route), h.market = s.market
         PROVE  h = Original(t)
    <3>1. PICK k \in DOMAIN route : route[k] = h
      BY DEF Range
    <3> QED BY <2>6, <2>7, <2>8, <2>10, <3>1 DEF MarketsDiffer
  <2> QED BY <2>4, <2>5, <2>8, <2>9, <2>10
<1> QED BY <1>1, SearchIsInvariant, PTL DEF Spec, BackrunsUndoTheTrade
=============================================================================
