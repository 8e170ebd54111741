------------------------------ MODULE ArbRoutes ------------------------------
(***************************************************************************)
(* The market graph of src/markets/market-graph.ts and src/markets/index.ts *)
(* and the routes that src/calculate-arb.ts makes of a backrunnable trade:  *)
(* circles of two or three markets that start and end at the base mint and  *)
(* use the market of the trade first or last.                               *)
(***************************************************************************)
EXTENDS PostFilter, Sequences, FiniteSets

Pair(m) == {m.tokenMintA, m.tokenMintB}
OfInterest == {m \in Market : Pair(m) \cap BaseMint # {}}

GetMarketsForPair(x, y) == {m \in Market : Pair(m) = {x, y}}

\* The graph has the markets of interest only.
GetMarkets(x, y) == {m \in OfInterest : Pair(m) = {x, y}}
GetNeighbours(x) == {y \in Mint : GetMarkets(x, y) # {}}

TwoHopRoutes(source, destination) ==
  UNION {{[hop1 |-> m, hop2 |-> n] : m \in GetMarkets(source, i), n \in GetMarkets(i, destination)}
           : i \in GetNeighbours(source) \cap GetNeighbours(destination)}

\* What is cached for the way back.  (Mutant: the same.)
NotReversed(routes) == routes
RoutesReverse(routes) == {[hop1 |-> r.hop2, hop2 |-> r.hop1] : r \in routes}

(***************************************************************************)
(* The backrun of a trade.                                                 *)
(***************************************************************************)
TradeSizeBase(t) == IF t.baseIsTokenA THEN t.tradeSizeA ELSE t.tradeSizeB
TradeSizeQuote(t) == IF t.baseIsTokenA THEN t.tradeSizeB ELSE t.tradeSizeA
BackrunSourceMint(t) == IF t.baseIsTokenA THEN t.market.tokenMintA ELSE t.market.tokenMintB
BackrunIntermediateMint(t) == IF t.baseIsTokenA THEN t.market.tokenMintB ELSE t.market.tokenMintA
BuyOnOriginalMarketFirst(t) == t.tradeDirection = "BOUGHT_BASE"

\* The key under which the routes that complete the circle are cached.
CacheKey(t) ==
  IF BuyOnOriginalMarketFirst(t) THEN <<BackrunIntermediateMint(t), BackrunSourceMint(t)>>
  ELSE <<BackrunSourceMint(t), BackrunIntermediateMint(t)>>

NoOverride == [in |-> 0, estimatedOut |-> 0]
Hop(m, from) == [market |-> m, fromA |-> m.tokenMintA = from, tradeOutputOverride |-> NoOverride]
Source(h) == IF h.fromA THEN h.market.tokenMintA ELSE h.market.tokenMintB
Destination(h) == IF h.fromA THEN h.market.tokenMintB ELSE h.market.tokenMintA

\* The hop on the market of the trade; its output is estimated from the trade.
Original(t) ==
  IF BuyOnOriginalMarketFirst(t)
  THEN [market |-> t.market, fromA |-> t.baseIsTokenA,
        tradeOutputOverride |-> [in |-> TradeSizeBase(t), estimatedOut |-> TradeSizeQuote(t)]]
  ELSE [market |-> t.market, fromA |-> ~t.baseIsTokenA,
        tradeOutputOverride |-> [in |-> TradeSizeQuote(t), estimatedOut |-> TradeSizeBase(t)]]

\* The hops on other markets, after the original one or before it.
Circle(t, others) ==
  IF BuyOnOriginalMarketFirst(t) THEN <<Original(t)>> \o others ELSE others \o <<Original(t)>>

StartOfOthers(t) ==
  IF BuyOnOriginalMarketFirst(t) THEN BackrunIntermediateMint(t) ELSE BackrunSourceMint(t)

TwoHops(t) ==
  {Circle(t, <<Hop(m, StartOfOthers(t))>>) :
     m \in GetMarketsForPair(BackrunSourceMint(t), BackrunIntermediateMint(t))}

ThreeHops(t, routes) ==
  {Circle(t, <<Hop(r.hop1, StartOfOthers(t)),
               Hop(r.hop2, Destination(Hop(r.hop1, StartOfOthers(t))))>>) : r \in routes}

MarketsDiffer(route) == \A i, j \in DOMAIN route : i # j => route[i].market # route[j].market

ArbRoutes(t, routes) == {route \in TwoHops(t) \cup ThreeHops(t, routes) : MarketsDiffer(route)}
-----------------------------------------------------------------------------
(***************************************************************************)
(* What the routes should be, said without the graph: every circle of two  *)
(* or three different markets of interest through the source mint, with    *)
(* the market of the trade first when base was bought there and last when  *)
(* it was sold, used against the direction of the trade.                   *)
(***************************************************************************)
Hops == [market : OfInterest, fromA : BOOLEAN]

AgainstTheTrade(t, h) ==
  /\ h.market = t.market
  /\ IF t.tradeDirection = "BOUGHT_BASE" THEN Source(h) = BackrunSourceMint(t)
     ELSE Destination(h) = BackrunSourceMint(t)

\* Where the market of the trade is in a circle of n.
Place(t, n) == IF t.tradeDirection = "BOUGHT_BASE" THEN 1 ELSE n

IsCircle(t, hops) ==
  /\ Source(hops[1]) = BackrunSourceMint(t)
  /\ Destination(hops[Len(hops)]) = BackrunSourceMint(t)
  /\ \A i \in 1 .. Len(hops) - 1 : Destination(hops[i]) = Source(hops[i + 1])
  /\ Cardinality({hops[i].market : i \in DOMAIN hops}) = Len(hops)
  /\ AgainstTheTrade(t, hops[Place(t, Len(hops))])

\* Only the output of the trade's own market is estimated.
Estimated(t, hops) ==
  [i \in DOMAIN hops |->
     [market |-> hops[i].market, fromA |-> hops[i].fromA,
      tradeOutputOverride |-> IF i = Place(t, Len(hops)) THEN Original(t).tradeOutputOverride ELSE NoOverride]]

Circles(t) ==
  {Estimated(t, hops) :
     hops \in {hops \in UNION {[1 .. n -> Hops] : n \in {2, 3}} : IsCircle(t, hops)}}
=============================================================================
