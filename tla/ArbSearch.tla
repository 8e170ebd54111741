------------------------------ MODULE ArbSearch ------------------------------
(***************************************************************************)
(* calculateArb of src/calculate-arb.ts: the search for the most profitable *)
(* route and size to backrun a trade.  Every route is quoted by the worker  *)
(* threads at one step size after the other, all routes of a step at once;  *)
(* a quote that does not come in time counts as nothing, and a route that   *)
(* no longer gains by a bigger size is dropped.                             *)
(***************************************************************************)
EXTENDS ArbRoutes, SequencesExt

CONSTANTS
  Simulations,                   (* what simulations may tell of a market      *)
  feeRateBps,                    (* the fee of the markets                    *)
  Gains,                         (* what is left of a quote after the loan's  *)
                                 (* fee: bounds the answers of the workers    *)
  ARB_CALCULATION_NUM_STEPS,
  MAX_ARB_CALCULATION_TIME_MS,
  SOLEND_FLASHLOAN_FEE_BPS,
  NoTrade, NoIdea, Pending       (* model values                              *)

RouteHop == [market : Market, fromA : BOOLEAN, tradeOutputOverride : [in : Nat, estimatedOut : Nat]]

ASSUME StepsAssumption == ARB_CALCULATION_NUM_STEPS \in Nat \ {0}
ASSUME TimeAssumption == MAX_ARB_CALCULATION_TIME_MS \in Nat
ASSUME SizesAssumption ==
  /\ Simulations \subseteq SimulatedMarket
  /\ feeRateBps \in 0 .. 5000
  /\ Gains \subseteq Int
  /\ SOLEND_FLASHLOAN_FEE_BPS \in Nat
ASSUME InterestAssumption == \A s \in Simulations : s.market \in OfInterest
ASSUME MarketsAssumption == IsFiniteSet(Market)
ASSUME NoValuesAssumption ==
  /\ Pending \notin [in : Nat, out : Nat]
  /\ NoIdea \notin [route : Seq(RouteHop), quote : [in : Nat, out : Nat]]

VARIABLES
  routeCache,    (* <<source, destination>> -> routes                   *)
  trade,
  simulated,     (* history: the simulation it comes from               *)
  arbRoutes,     (* the routes still quoted; shuffled, so in any order  *)
  step,          (* i, the step of the calculation                      *)
  quotes,        (* the answers to this step, by index of the route     *)
  bestQuotes,    (* route -> its best quote                             *)
  elapsed,       (* Date.now() - startCalculation                       *)
  stage,
  arbIdea,       (* what the last search yielded                        *)
  answers        (* history: what the workers said, and of which route  *)

search == <<trade, simulated, arbRoutes, step, quotes, bestQuotes, answers>>
vars == <<routeCache, search, elapsed, stage, arbIdea>>

Quote(in, out) == [in |-> in, out |-> out]
FlashloanFee(in) == (in * SOLEND_FLASHLOAN_FEE_BPS) \div 10000
GetProfitForQuote(q) == q.out - q.in - FlashloanFee(q.in)

StepSize(t) == TradeSizeBase(t) \div ARB_CALCULATION_NUM_STEPS
ArbSize == StepSize(trade) * step

Trades == UNION {PostSimulateFilter(s) : s \in Simulations}

TypeOK ==
  /\ DOMAIN routeCache \subseteq Mint \X Mint
  /\ \A key \in DOMAIN routeCache : routeCache[key] \subseteq [hop1 : Market, hop2 : Market]
  /\ trade \in Trades \cup {NoTrade}
  /\ simulated \in Simulations \cup {NoTrade}
  /\ step \in 0 .. ARB_CALCULATION_NUM_STEPS
  /\ Len(quotes) = Len(arbRoutes)
  /\ \A i \in DOMAIN quotes : quotes[i] = Pending \/ quotes[i] \in [in : Nat, out : Nat]
  /\ \A route \in DOMAIN bestQuotes : GetProfitForQuote(bestQuotes[route]) > 0
  /\ elapsed \in 0 .. MAX_ARB_CALCULATION_TIME_MS + 1
  /\ stage \in {"idle", "quoting", "dead"}

Init ==
  /\ routeCache = <<>>
  /\ trade = NoTrade /\ simulated = NoTrade
  /\ arbRoutes = <<>> /\ quotes = <<>> /\ bestQuotes = <<>>
  /\ step = 0
  /\ elapsed = 0
  /\ stage = "idle"
  /\ arbIdea = NoIdea
  /\ answers = {}

Stored(map, key, value) == [k \in DOMAIN map \cup {key} |-> IF k = key THEN value ELSE map[k]]

AllPending(routes) == [i \in DOMAIN routes |-> Pending]

\* getAll2HopRoutes: what it returns, and what it leaves in the cache.
GetAll2HopRoutes(key) ==
  IF key \in DOMAIN routeCache THEN routeCache[key] ELSE TwoHopRoutes(key[1], key[2])

FillRouteCache(key) ==
  IF key \in DOMAIN routeCache THEN routeCache
  ELSE LET routes == TwoHopRoutes(key[1], key[2]) IN
         Stored(Stored(routeCache, key, routes), <<key[2], key[1]>>, RoutesReverse(routes))

\* The next trade that is neither too old nor too small; its routes are asked
\* for the first step.
TakeTrade(t, s) ==
  /\ stage = "idle"
  /\ t \in PostSimulateFilter(s)
  /\ StepSize(t) # 0
  /\ routeCache' = FillRouteCache(CacheKey(t))
  /\ trade' = t /\ simulated' = s
  /\ arbRoutes' = SetToSeq(ArbRoutes(t, GetAll2HopRoutes(CacheKey(t))))
  /\ quotes' = AllPending(arbRoutes')
  /\ step' = 1
  /\ bestQuotes' = <<>>
  /\ answers' = {}
  /\ elapsed' = 0
  /\ stage' = "quoting"
  /\ arbIdea' = NoIdea

Settle(i, q) ==
  /\ stage = "quoting"
  /\ quotes[i] = Pending
  /\ quotes' = [quotes EXCEPT ![i] = q]
  /\ UNCHANGED <<routeCache, trade, simulated, arbRoutes, step, bestQuotes, elapsed, stage, arbIdea>>

\* A worker answers: the route fails at this size, or has an output.
Answer(i, gain) ==
  LET q == Quote(ArbSize, ArbSize + FlashloanFee(ArbSize) + gain) IN
    /\ q.out >= 0
    /\ Settle(i, q)
    /\ answers' = answers \cup {[route |-> arbRoutes[i], quote |-> q]}

NoOutput(i) == Settle(i, Quote(ArbSize, 0)) /\ UNCHANGED answers

\* The timeout of runTask, of what was left of the time when the step began.
\* (Mutant: no timeout is passed.)
Never == FALSE
TimeIsUp == elapsed >= MAX_ARB_CALCULATION_TIME_MS
TimeOut(i) == TimeIsUp /\ NoOutput(i)

\* The worker thread died on the task: Promise.all rejects, and nobody catches.
QuoteRejected(i) ==
  /\ stage = "quoting"
  /\ quotes[i] = Pending
  /\ stage' = "dead"
  /\ UNCHANGED <<routeCache, search, elapsed, arbIdea>>

Tick ==
  /\ stage = "quoting"
  /\ elapsed <= MAX_ARB_CALCULATION_TIME_MS
  /\ elapsed' = elapsed + 1
  /\ UNCHANGED <<routeCache, search, stage, arbIdea>>

(***************************************************************************)
(* The estimate of calculateRoute in a worker for the hop on the market of *)
(* the trade: a share of what the trade moved, less its fee both ways.     *)
(* (The code scales by 10,000 before the division and back after it, which *)
(* leaves the quotient as it is.)                                          *)
(***************************************************************************)
\* (Mutant: less the fee one way.)
OneFee == feeRateBps
BothFees == feeRateBps * 2

Estimate(override, amount) ==
  LET out == override.estimatedOut - (override.estimatedOut * BothFees) \div 10000
  IN  (amount * out) \div override.in

\* What a market with a constant product pays.
PoolPays(s, fromA, amount) ==
  LET net == amount - (amount * feeRateBps) \div 10000
      x == IF fromA THEN s.post.A ELSE s.post.B
      y == IF fromA THEN s.post.B ELSE s.post.A
  IN  (y * net) \div (x + net)

(***************************************************************************)
(* The loop over the quotes of a step.  It goes backwards, for it removes  *)
(* routes by their index.                                                  *)
(***************************************************************************)
PrevBestProfit(best, route) ==
  IF route \in DOMAIN best THEN GetProfitForQuote(best[route]) ELSE 0

\* A route gains when this quote yields more than its best one so far.
Gained(s, i) ==
  /\ quotes[i].out # 0
  /\ GetProfitForQuote(quotes[i]) > PrevBestProfit(s.best, s.routes[i])

\* (Mutant: its best quote is forgotten with the route.)
ForgetsBest(s, i) ==
  [s EXCEPT !.routes = RemoveAt(s.routes, i),
            !.best = [r \in DOMAIN s.best \ {s.routes[i]} |-> s.best[r]]]
Drop(s, i) == [s EXCEPT !.routes = RemoveAt(s.routes, i)]

Judgement(i, s) ==
  IF Gained(s, i) THEN [s EXCEPT !.best = Stored(s.best, s.routes[i], quotes[i]), !.found = TRUE]
  ELSE Drop(s, i)

\* The same, so written that TLC evaluates s once.
Judge(i, s) == CHOOSE after \in {Judgement(i, u) : u \in {s}} : TRUE

\* (Mutant: forwards, as far as there are routes.)
Forwards(s) == FoldLeft(LAMBDA u, i : IF i \in DOMAIN u.routes THEN Judge(i, u) ELSE u, s, [i \in DOMAIN quotes |-> i])
Backwards(s) ==
  LET n == Len(quotes)
      after[k \in 0 .. n] == IF k = 0 THEN s ELSE Judge(n - k + 1, after[k - 1])
  IN  after[n]

Judged == Backwards([routes |-> arbRoutes, best |-> bestQuotes, found |-> FALSE])

\* The idea with the most profit, if there is any.
BestOf(best) ==
  {[route |-> r, quote |-> best[r]] : r \in
     {r \in DOMAIN best : \A o \in DOMAIN best : GetProfitForQuote(best[o]) <= GetProfitForQuote(best[r])}}

\* All quotes of the step are there, and judged: another step of what is left.
NextStep(judged) ==
  /\ arbRoutes' = judged.routes
  /\ bestQuotes' = judged.best
  /\ quotes' = AllPending(judged.routes)
  /\ step' = step + 1
  /\ UNCHANGED <<trade, simulated, answers, elapsed, stage, arbIdea>>

\* Or the search ends with its best, and its variables go out of scope.
Yield(judged) ==
  /\ arbIdea' \in IF judged.best = <<>> THEN {NoIdea} ELSE BestOf(judged.best)
  /\ stage' = "idle"
  /\ trade' = NoTrade /\ simulated' = NoTrade /\ arbRoutes' = <<>> /\ quotes' = <<>> /\ bestQuotes' = <<>>
  /\ step' = 0 /\ elapsed' = 0 /\ answers' = {}

EndOfStep ==
  /\ stage = "quoting"
  /\ \A i \in DOMAIN quotes : quotes[i] # Pending
  /\ \E judged \in {Judged} :
       IF judged.found /\ step < ARB_CALCULATION_NUM_STEPS /\ elapsed <= MAX_ARB_CALCULATION_TIME_MS
       THEN NextStep(judged) ELSE Yield(judged)
  /\ UNCHANGED routeCache

Dead == stage = "dead" /\ UNCHANGED vars

Next ==
  \/ \E s \in Simulations : \E t \in PostSimulateFilter(s) : TakeTrade(t, s)
  \/ \E i \in DOMAIN quotes :
       (\E gain \in Gains : Answer(i, gain)) \/ NoOutput(i) \/ TimeOut(i) \/ QuoteRejected(i)
  \/ Tick \/ EndOfStep
  \/ Dead

Spec == Init /\ [][Next]_vars

\* Time passes, timers fire and the generator is resumed: the event loop runs.
\* The workers owe nothing: they may be busy, or have lost the task.
EventLoop == Tick \/ EndOfStep \/ \E i \in DOMAIN quotes : TimeOut(i)

FairSpec == Spec /\ WF_vars(EventLoop)
-----------------------------------------------------------------------------
(***************************************************************************)
(* Properties                                                              *)
(***************************************************************************)

CirclesOf == [t \in Trades |-> Circles(t)]

\* The routes asked for are exactly the circles a backrun can take, whichever
\* pair of mints was looked up first and left its routes, and the reversed
\* ones, in the cache (lines 186-300; markets/index.ts 226-278).
RoutesAreTheCircles ==
  stage = "quoting" /\ step = 1 =>
    /\ {arbRoutes[i] : i \in DOMAIN arbRoutes} = CirclesOf[trade]
    /\ Len(arbRoutes) = Cardinality(CirclesOf[trade])

\* A hop that takes out of the market what the trade put in.
GoesAgainst(s, h) == IF h.fromA THEN Diff(s, "A") < 0 ELSE Diff(s, "B") < 0

UndoTheTrade(routes, s) ==
  \A i \in DOMAIN routes :
    /\ \E h \in Range(routes[i]) : h.market = s.market
    /\ \A h \in Range(routes[i]) : h.market = s.market => GoesAgainst(s, h)

\* Every route has a hop on the market of the trade, and that hop undoes what the
\* trade did to the vaults, whichever token of the market is the base and whether
\* base was bought or sold (post-simulation-filter.ts, lines 108-148;
\* calculate-arb.ts, lines 186-243).
BackrunsUndoTheTrade == [][stage = "idle" => UndoTheTrade(arbRoutes', simulated')]_vars

\* Moreover the worker estimates no more for that hop than the market pays after
\* the trade, for every tenth of what the trade moved (amm-calc-worker.ts, lines
\* 215-254).
EstimatesAreCautious ==
  [][stage = "idle" =>
       /\ UndoTheTrade(arbRoutes', simulated')
       /\ \A i \in DOMAIN arbRoutes' : \A h \in Range(arbRoutes'[i]) :
            LET override == h.tradeOutputOverride IN
              override # NoOverride =>
                \A tenth \in 1 .. 10 :
                  LET amount == (override.in * tenth) \div 10 IN
                    Estimate(override, amount) <= PoolPays(simulated', h.fromA, amount)]_vars

\* A quote is kept for the route it was asked for, although routes are removed
\* by index while the quotes are not (lines 337-358).
QuotesKeepTheirRoute ==
  \A route \in DOMAIN bestQuotes : [route |-> route, quote |-> bestQuotes[route]] \in answers

\* A search that was told of a profit yields an idea, and none it was told of
\* was better; whatever timed out, failed or was dropped later.  A search that
\* was told of none yields nothing (lines 364-399).
YieldsTheBest ==
  [][stage = "quoting" /\ stage' = "idle" =>
       IF arbIdea' = NoIdea THEN \A a \in answers : GetProfitForQuote(a.quote) <= 0
       ELSE /\ arbIdea' \in answers
            /\ GetProfitForQuote(arbIdea'.quote) > 0
            /\ \A a \in answers : GetProfitForQuote(a.quote) <= GetProfitForQuote(arbIdea'.quote)]_vars

\* No trade holds up the ones behind it for ever, even if no worker answers
\* (lines 313-334; worker-pool.ts 178-183).
EverySearchEnds == stage = "quoting" ~> stage # "quoting"
=============================================================================
