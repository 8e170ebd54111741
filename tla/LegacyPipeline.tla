---------------------------- MODULE LegacyPipeline ----------------------------
(***************************************************************************)
(* The second half of src/bot.ts: calculateArb takes trades out of its     *)
(* priority buffer (module HighWaterMark), buildBundle makes a bundle of   *)
(* an idea (module BuildBundle) and sendBundle (src/send-bundle.ts) sends  *)
(* it without waiting for the answer, so that several are on their way     *)
(* while the next trade is worked on.  A trade that was sent is logged     *)
(* 30 s after the block engine took it, or at once if it did not.          *)
(*                                                                         *)
(* Bundles are numbered as they are sent.  A SOL bundle has an account of  *)
(* its own and with it an id of its own; a USDC bundle may be, to the last *)
(* byte, one that was sent before, as the same transaction comes from two  *)
(* block engines.                                                          *)
(***************************************************************************)
EXTENDS HighWaterMark, BuildBundle

CONSTANTS
  Ideas,        (* the best ideas a search may find                         *)
  SolValues,    (* quotes of a USDC profit in lamports                      *)
  MaxResults    (* bound on the bundle results                              *)

ASSUME LegacyAssumption ==
  /\ Ideas \subseteq Idea
  /\ SolValues \subseteq Nat
  /\ MaxResults \in Nat

\* Every trade leads to one bundle at most.
Sent == Item
NoRecord == 0
NoIdea == [mint |-> "SOL", arbSize |-> 0, expectedProfit |-> 0]

VARIABLES
  process,          (* "running", or "ended" by an error nobody catches     *)
  stage,            (* what the generators between buffer and sender await  *)
  idea,             (* the idea a bundle is being built of                  *)
  lamports,         (* expectedProfitLamports of it                         *)
  sends,            (* the bundles sent so far                              *)
  bundlesInTransit, (* the bundle whose record a bundle id has              *)
  record,           (* the records' mutable fields                          *)
  timers,           (* the pending timers, in order                         *)
  checks,           (* the record whose landing the timer of a send awaits  *)
  rows,             (* the rows of trades.csv, for each bundle              *)
  results,          (* bundle results received                              *)
  heard             (* results for bundles that were taken and not logged   *)

buffer == <<prioritized, arrived, queue, waitingResolvers, resolved, consumer, delivered, lost>>
builder == <<stage, idea, lamports>>
tracking == <<bundlesInTransit, record, timers, checks, rows>>
received == <<results, heard>>
legacyVars == <<process, buffer, builder, sends, tracking, received>>

Bundle == [id : Sent, idea : Idea, lamports : Nat, answer : {"awaited", "taken", "failed"}]
Record == [accepted : Nat, rejected : BOOLEAN]
NewRecord == [accepted |-> 0, rejected |-> FALSE]
\* A row, without the landed flag and what is copied from the trade.
Row == [result : Record, sendingError : BOOLEAN]

LegacyTypeOK ==
  /\ process \in {"running", "ended"}
  /\ stage \in {"asking", "searching", "quoting", "legs"}
  /\ idea \in Idea
  /\ lamports \in Nat
  /\ sends \in Seq(Bundle) /\ Len(sends) <= MaxArrivals
  /\ bundlesInTransit \in [Sent -> {NoRecord} \cup Sent]
  /\ record \in [Sent -> Record]
  /\ timers \in Seq(Sent)
  /\ checks \in [Sent -> {NoRecord} \cup Sent]
  /\ rows \in [Sent -> Seq(Row)]
  /\ results \in Nat
  /\ heard \in [Sent -> Record]

LegacyInit ==
  /\ Init
  /\ process = "running"
  /\ stage = "asking" /\ idea = NoIdea /\ lamports = 0
  /\ sends = <<>>
  /\ bundlesInTransit = [n \in Sent |-> NoRecord]
  /\ record = [n \in Sent |-> NewRecord]
  /\ timers = <<>>
  /\ checks = [n \in Sent |-> NoRecord]
  /\ rows = [n \in Sent |-> <<>>]
  /\ results = 0
  /\ heard = [n \in Sent |-> NewRecord]

\* An error that nobody handles ends the process: what it held is gone.
Ends ==
  /\ process' = "ended"
  /\ stage' = "asking" /\ idea' = NoIdea /\ lamports' = 0
  /\ sends' = <<>> /\ timers' = <<>>
  /\ bundlesInTransit' = [n \in Sent |-> NoRecord] /\ checks' = [n \in Sent |-> NoRecord]
  /\ record' = [n \in Sent |-> NewRecord] /\ heard' = [n \in Sent |-> NewRecord]
  /\ rows' = [n \in Sent |-> <<>>] /\ results' = 0
  /\ UNCHANGED buffer

(***************************************************************************)
(* The buffer of calculateArb                                              *)
(***************************************************************************)
TradeArrives ==
  /\ process = "running"
  /\ Arrive
  /\ UNCHANGED <<process, builder, sends, tracking, received>>

AskForTrade ==
  /\ process = "running"
  /\ stage = "asking"
  /\ Ask
  /\ UNCHANGED <<process, builder, sends, tracking, received>>

TakeTrade ==
  /\ process = "running"
  /\ Yield
  /\ stage' = "searching"
  /\ UNCHANGED <<process, idea, lamports, sends, tracking, received>>

(***************************************************************************)
(* calculateArb (module ArbSearch) and buildBundle                         *)
(***************************************************************************)
NextTrade == stage' = "asking" /\ idea' = NoIdea /\ lamports' = 0

\* Whether the profit pays, known in lamports.
Weigh(i, value) ==
  IF WorthSending(value)
  THEN stage' = "legs" /\ idea' = i /\ lamports' = value
  ELSE NextTrade

NothingFound ==
  /\ process = "running"
  /\ stage = "searching"
  /\ NextTrade
  /\ UNCHANGED <<process, buffer, sends, tracking, received>>

Found(i) ==
  /\ process = "running"
  /\ stage = "searching"
  /\ IF i.mint = "USDC"
     THEN stage' = "quoting" /\ idea' = i /\ UNCHANGED lamports
     ELSE Weigh(i, i.expectedProfit)
  /\ UNCHANGED <<process, buffer, sends, tracking, received>>

\* calculateQuote of a USDC profit.
Quoted(value) ==
  /\ process = "running"
  /\ stage = "quoting"
  /\ Weigh(idea, value)
  /\ UNCHANGED <<process, buffer, sends, tracking, received>>

\* The quote or a leg of the route is rejected: the generators reject, and
\* with them the await of bot.ts.
BuilderThrows ==
  /\ process = "running"
  /\ stage \in {"quoting", "legs"}
  /\ Ends

\* The transaction is too big or cannot be signed.
Discard ==
  /\ process = "running"
  /\ stage = "legs"
  /\ NextTrade
  /\ UNCHANGED <<process, buffer, sends, tracking, received>>

(***************************************************************************)
(* sendBundle                                                              *)
(***************************************************************************)
UsdcIds == {sends[m].id : m \in {k \in DOMAIN sends : sends[k].idea.mint = "USDC"}}
Ids(i) == {Len(sends) + 1} \cup (IF i.mint = "USDC" THEN UsdcIds ELSE {})

\* The legs are there; the bundle is built and sent, its answer not awaited.
Send(id) ==
  /\ process = "running"
  /\ stage = "legs"
  /\ id \in Ids(idea)
  /\ sends' = Append(sends, [id |-> id, idea |-> idea, lamports |-> lamports, answer |-> "awaited"])
  /\ NextTrade
  /\ UNCHANGED <<process, buffer, tracking, received>>

\* setTimeout.  (Mutant: a timer that is pending already is taken to do.)
OneTimer(n) == IF timers = <<>> THEN <<n>> ELSE timers
Armed(n) == Append(timers, n)

\* The block engine takes the bundle.
Taken(n) ==
  /\ process = "running"
  /\ n \in DOMAIN sends /\ sends[n].answer = "awaited"
  /\ sends' = [sends EXCEPT ![n].answer = "taken"]
  /\ bundlesInTransit' = [bundlesInTransit EXCEPT ![sends[n].id] = n]
  /\ timers' = Armed(n)
  /\ UNCHANGED <<process, buffer, builder, record, checks, rows, received>>

\* It does not, or cannot be reached: a row at once.
Failed(n) ==
  /\ process = "running"
  /\ n \in DOMAIN sends /\ sends[n].answer = "awaited"
  /\ sends' = [sends EXCEPT ![n].answer = "failed"]
  /\ rows' = [rows EXCEPT ![n] = Append(@,
       [result |-> [accepted |-> 0, rejected |-> TRUE], sendingError |-> TRUE])]
  /\ UNCHANGED <<process, buffer, builder, bundlesInTransit, record, timers, checks, received>>

Note(r, kind) ==
  IF kind = "accepted" THEN [r EXCEPT !.accepted = @ + 1] ELSE [r EXCEPT !.rejected = TRUE]

\* The map after a result.  (Mutant: a rejected bundle is taken out.)
ForgetRejected(id, kind) ==
  IF kind = "rejected" THEN [bundlesInTransit EXCEPT ![id] = NoRecord] ELSE bundlesInTransit
AfterResult(id, kind) == bundlesInTransit

BundleResult(id, kind) ==
  /\ process = "running"
  /\ results < MaxResults
  /\ \E n \in DOMAIN sends : sends[n].id = id
  /\ results' = results + 1
  /\ bundlesInTransit' = AfterResult(id, kind)
  /\ LET n == bundlesInTransit[id] IN
       record' = IF n = NoRecord THEN record ELSE [record EXCEPT ![n] = Note(@, kind)]
  /\ heard' = [n \in Sent |->
       IF n \in DOMAIN sends /\ sends[n].answer = "taken" /\ sends[n].id = id /\ rows[n] = <<>>
       THEN Note(heard[n], kind) ELSE heard[n]]
  /\ UNCHANGED <<process, buffer, builder, sends, timers, checks, rows>>

\* The stream of results breaks.
ResultsEnd == process = "running" /\ Ends

\* processCompletedTrade up to its await: without a record, it throws.
\* (Mutant: the record is taken out of the map before the answer is there.)
TakenOutEarly(id) == [bundlesInTransit EXCEPT ![id] = NoRecord]
WhileChecking(id) == bundlesInTransit

TimerFires ==
  /\ process = "running"
  /\ timers # <<>>
  /\ LET n == Head(timers)
         trade == bundlesInTransit[sends[n].id]
     IN  IF trade = NoRecord THEN Ends
         ELSE /\ checks' = [checks EXCEPT ![n] = trade]
              /\ timers' = Tail(timers)
              /\ bundlesInTransit' = WhileChecking(sends[n].id)
              /\ UNCHANGED <<process, buffer, builder, sends, record, rows, received>>

\* ... and after it.
Checked(n) ==
  /\ process = "running"
  /\ checks[n] # NoRecord
  /\ checks' = [checks EXCEPT ![n] = NoRecord]
  /\ rows' = [rows EXCEPT ![checks[n]] = Append(@,
       [result |-> record[checks[n]], sendingError |-> FALSE])]
  /\ bundlesInTransit' = [bundlesInTransit EXCEPT ![sends[n].id] = NoRecord]
  /\ UNCHANGED <<process, buffer, builder, sends, record, timers, received>>

\* There may be no more trades; an ended process stays ended.
LegacyIdle == UNCHANGED legacyVars

LegacyNext ==
  \/ TradeArrives \/ AskForTrade \/ TakeTrade
  \/ NothingFound \/ (\E i \in Ideas : Found(i)) \/ (\E value \in SolValues : Quoted(value))
  \/ BuilderThrows \/ Discard
  \/ \E n \in Sent : Send(n) \/ Taken(n) \/ Failed(n) \/ Checked(n)
  \/ \E id \in Sent, kind \in {"accepted", "rejected"} : BundleResult(id, kind)
  \/ ResultsEnd \/ TimerFires
  \/ LegacyIdle

LegacySpec == LegacyInit /\ [][LegacyNext]_legacyVars

(***************************************************************************)
(* Fairness: the generators run, a search ends (ArbSearch!EverySearchEnds) *)
(* and workers answer; sendBundle and getTransaction are answered or fail, *)
(* and timers fire.  The ways out of a stage are enabled together, so that *)
(* weak fairness of one of them says no more than that the stage is left.  *)
(***************************************************************************)
StageIsLeft == NothingFound \/ (\E value \in SolValues : Quoted(value)) \/ Discard
FairLegacySpec ==
  /\ LegacySpec
  /\ WF_legacyVars(AskForTrade) /\ WF_legacyVars(TakeTrade)
  /\ WF_legacyVars(StageIsLeft)
  /\ WF_legacyVars(TimerFires)
  /\ \A n \in Sent : WF_legacyVars(Taken(n)) /\ WF_legacyVars(Checked(n))
-----------------------------------------------------------------------------
(***************************************************************************)
(* Properties                                                              *)
(***************************************************************************)
\* Whatever the route of the bundle being built returns: when the main
\* transaction lands, the loan is repaid and the tip and the profit buffer are
\* left in the borrowed mint; and it does land when the route returns what it
\* was quoted (build-bundle.ts, lines 147-200 and 318-382).
LandingLeavesTheMargin ==
  stage = "legs" =>
    /\ Execution(idea, lamports, QuotedOut(idea)).landed
    /\ \A out \in Outs(idea) : LeavesTheMargin(idea, lamports, out)

\* A bundle whose route returns what it was quoted gains, beyond its tip, at least
\* the part of the minimum profit that is not tipped: nothing between the profit
\* check and the end of the transaction takes more (lines 67-70, 174-200, 318-382).
\* The profit of a USDC bundle is taken at its quote in lamports.
QuotedPriceKeepsItsShare ==
  stage = "legs" =>
    100 * GainAt(idea, lamports, QuotedOut(idea)) >= (100 - TIP_PERCENT) * minProfit

\* A bundle whose profit, as quoted, does not cover its tip and the fees of its
\* transactions is dropped, not sent: README.md, line 20.  The profit check (build-bundle.ts,
\* lines 67-70 and 174) compares with the least tip of the configuration, not
\* with the tip the bundle will pay; so this fails for the TIP_PERCENT of
\* .env.docker.example.
QuotedPricePays ==
  \A n \in DOMAIN sends :
    GainAt(sends[n].idea, sends[n].lamports, QuotedOut(sends[n].idea)) >= TXN_FEES_LAMPORTS

SentOnce(n) == n \in DOMAIN sends /\ \A m \in DOMAIN sends : sends[m].id = sends[n].id => m = n

\* processCompletedTrade finds the record of its bundle: only the timer of a
\* bundle that was sent again may find none, which ends the process
\* (send-bundle.ts, lines 57-60).
EveryTimerFindsItsTrade ==
  \A i \in DOMAIN timers :
    LET n == timers[i] IN SentOnce(n) => bundlesInTransit[sends[n].id] = n

\* A bundle that was sent once has one row at most; it tells whether the bundle
\* was taken, and every result from then to the row, those during the landing
\* check included.
LegacyRowIsFaithful ==
  \A n \in Sent : SentOnce(n) =>
    /\ Len(rows[n]) <= 1
    /\ \A i \in DOMAIN rows[n] :
         IF sends[n].answer = "failed" THEN rows[n][i].sendingError
         ELSE rows[n][i].result = heard[n] /\ ~rows[n][i].sendingError

\* Every bundle gets its row, in the end, unless it was sent again or the
\* process ends.
EveryBundleLogged ==
  \A n \in Sent :
    n \in DOMAIN sends ~> (rows[n] # <<>> \/ ~SentOnce(n) \/ process = "ended")
=============================================================================
