----------------------------- MODULE MCArbSearch -----------------------------
(* Instances of ArbSearch: a small market graph with parallel markets,       *)
(* and triangles over both base mints.                                      *)
EXTENDS ArbSearch

CONSTANTS SOL, USDC, BONK

M(id, a, b) == [id |-> id, tokenMintA |-> a, tokenMintB |-> b]

\* Three circles for each trade, of two and three markets, and both ways round.
MC_Market == { M(1, SOL, USDC), M(2, BONK, SOL), M(3, SOL, BONK), M(4, BONK, USDC), M(5, SOL, BONK) }

\* Somebody buys or sells 2000 of the base of a market, adds liquidity, or leaves
\* it as it was; the fee is that of a market with a constant product, exactly.
Changes ==
  {[pre |-> <<22000, 9000>>, post |-> <<20000, 10000>>],
   [pre |-> <<18000, 11000>>, post |-> <<20000, 10000>>],
   [pre |-> <<18000, 9000>>, post |-> <<20000, 10000>>],
   [pre |-> <<20000, 10000>>, post |-> <<20000, 10000>>]}
VaultsOf(m, balances) ==
  IF TokenAIsBase(m) THEN [A |-> balances[1], B |-> balances[2]]
  ELSE [A |-> balances[2], B |-> balances[1]]
MC_Simulations ==
  {[market |-> m, pre |-> VaultsOf(m, c.pre), post |-> VaultsOf(m, c.post)] :
     m \in MC_Market, c \in Changes}
=============================================================================
