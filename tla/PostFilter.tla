----------------------------- MODULE PostFilter -----------------------------
(***************************************************************************)
(* postSimulateFilter of src/post-simulation-filter.ts: the trade that a   *)
(* simulated transaction makes on a market, read off the balances of the   *)
(* market's two vaults before and after it.                                *)
(***************************************************************************)
EXTENDS Integers

CONSTANTS
  Mint,
  BaseMint,   (* SOL and USDC                                    *)
  Market      (* records [id, tokenMintA, tokenMintB]            *)

ASSUME BaseMintAssumption == BaseMint \subseteq Mint
ASSUME MarketAssumption ==
  \A m \in Market : m.tokenMintA \in Mint /\ m.tokenMintB \in Mint /\ m.tokenMintA # m.tokenMintB

Direction == {"BOUGHT_BASE", "SOLD_BASE"}

\* What the simulation of a transaction tells of a market whose vaults it
\* touches both.  (The loop throws at a market of which it touches one:
\* Pipeline!PostFilterThrows.)
Vaults == [A : Nat, B : Nat]
SimulatedMarket == [market : Market, pre : Vaults, post : Vaults]

Diff(s, vault) == s.post[vault] - s.pre[vault]
Abs(n) == IF n < 0 THEN -n ELSE n

\* Not liquidity that is added or removed.
IsSwap(s) ==
  /\ Diff(s, "A") # 0 /\ Diff(s, "B") # 0
  /\ (Diff(s, "A") < 0) # (Diff(s, "B") < 0)

TokenAIsBase(m) == m.tokenMintA \in BaseMint

\* Who "bought base" took base out of the market.  (Mutant: base is always A.)
DirectionOfA(s) == IF Diff(s, "A") < 0 THEN "BOUGHT_BASE" ELSE "SOLD_BASE"
TradeDirection(s) ==
  IF Diff(s, IF TokenAIsBase(s.market) THEN "A" ELSE "B") < 0 THEN "BOUGHT_BASE" ELSE "SOLD_BASE"

\* The trades yielded: one, or none.
PostSimulateFilter(s) ==
  {t \in {[market |-> s.market, baseIsTokenA |-> TokenAIsBase(s.market),
           tradeDirection |-> TradeDirection(s),
           tradeSizeA |-> Abs(Diff(s, "A")), tradeSizeB |-> Abs(Diff(s, "B"))]} : IsSwap(s)}
=============================================================================
