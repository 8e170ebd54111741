------------------------------- MODULE Pipeline -------------------------------
(***************************************************************************)
(* The chain of asynchronous generators that src/bot.ts and src/index.ts   *)
(* put together, from the block engines to the trades: mempool fuses one   *)
(* generator per block engine (src/mempool.ts, fuseGenerators of           *)
(* src/utils.ts), a lossy buffer feeds preSimulationFilter, its            *)
(* transactions are simulated (module Simulator), and a second lossy       *)
(* buffer feeds postSimulateFilter, whose trades the consumer takes when   *)
(* it likes.  The lookup tables, the accounts of interest and the results  *)
(* of a simulation are choices here; module HighWaterMark has the buffers  *)
(* in detail.                                                              *)
(***************************************************************************)
EXTENDS Simulator

CONSTANTS
  Updates,            (* Updates[s][n]: how many transactions update n of   *)
                      (* source s has; the sources in the order of gens     *)
  MempoolMark,        (* HIGH_WATER_MARK of preSimulationFilter             *)
  SimulationsMark,    (* HIGH_WATER_MARK of postSimulateFilter              *)
  MaxTrades           (* bound on the trades of one transaction             *)

Source == DOMAIN Updates
NoSource == 0
Update == UNION {{<<s, n>> : n \in DOMAIN Updates[s]} : s \in Source}
Transactions(u) == [i \in 1 .. Updates[u[1]][u[2]] |-> <<u[1], u[2], i>>]
Transaction == UNION {Range(Transactions(u)) : u \in Update}

ASSUME PipelineAssumption ==
  /\ Updates \in Seq(Seq(Nat))
  /\ MempoolMark \in Nat \ {0} /\ SimulationsMark \in Nat \ {0}
  /\ MaxTrades \in Nat

VARIABLES
  process,          (* "running", or "ended" by an error nobody catches     *)
  produced,         (* updates of each source whose next() has settled      *)
  settled,          (* sources whose promise is settled and not yet used    *)
  winner,           (* the source that Promise.race has chosen              *)
  mempoolUpdates,   (* the queue before preSimulationFilter                 *)
  txns,             (* transactions of its current update, not yet filtered *)
  passedBy,         (* transactions skipped, or lost at the mark            *)
  filtered,         (* the transactions received by sendSimulations         *)
  simulations,      (* the queue before postSimulateFilter                  *)
  trades            (* of its current simulation, not yet handed on         *)

mempool == <<produced, settled, winner>>
preFilter == <<mempoolUpdates, txns, passedBy>>
postFilter == <<simulations, trades>>
pipelineVars == <<process, mempool, preFilter, filtered, vars, postFilter>>

PipelineTypeOK ==
  /\ TypeOK
  /\ process \in {"running", "ended"}
  /\ produced \in [Source -> Nat] /\ \A s \in Source : produced[s] <= Len(Updates[s])
  /\ settled \subseteq Source
  /\ winner \in settled \cup {NoSource}
  /\ mempoolUpdates \in Seq(Update) /\ Len(mempoolUpdates) <= MempoolMark
  /\ txns \in Seq(Transaction)
  /\ passedBy \subseteq Transaction
  /\ filtered \in Seq(Transaction)
  /\ simulations \in Seq(Txn) /\ Len(simulations) <= SimulationsMark
  /\ trades \in 0 .. MaxTrades

PipelineInit ==
  /\ process = "running"
  /\ produced = [s \in Source |-> 0]
  /\ settled = {} /\ winner = NoSource
  /\ mempoolUpdates = <<>> /\ txns = <<>> /\ passedBy = {} /\ filtered = <<>>
  /\ Init
  /\ simulations = <<>> /\ trades = 0

\* An error that nobody handles ends the process: what it held is gone.
Ends ==
  /\ process' = "ended"
  /\ produced' = [s \in Source |-> 0]
  /\ settled' = {} /\ winner' = NoSource
  /\ mempoolUpdates' = <<>> /\ txns' = <<>> /\ passedBy' = {} /\ filtered' = <<>>
  /\ received' = 0 /\ simulating' = {} /\ pendingSimulations' = 0
  /\ simulationResults' = <<>> /\ generator' = "suspended" /\ yielded' = <<>> /\ dropped' = {}
  /\ simulations' = <<>> /\ trades' = 0

(***************************************************************************)
(* mempool: fuseGenerators                                                 *)
(***************************************************************************)

\* A block engine sends an update: next() settles, and wins a race that is on.
Settle(s) ==
  /\ process = "running"
  /\ s \notin settled
  /\ produced[s] < Len(Updates[s])
  /\ produced' = [produced EXCEPT ![s] = @ + 1]
  /\ settled' = settled \cup {s}
  /\ winner' = IF winner = NoSource THEN s ELSE winner
  /\ UNCHANGED <<process, preFilter, filtered, vars, postFilter>>

\* Promise.race over settled promises takes the one that is listed first.
\* (Mutant: the last.)
LastOf(S) == IF S = {} THEN NoSource ELSE CHOOSE s \in S : \A t \in S : t <= s
FirstOf(S) == IF S = {} THEN NoSource ELSE CHOOSE s \in S : \A t \in S : s <= t

\* The promise that is replaced by that of the next item.  (Mutant: always
\* that of the first generator.)
FirstGenerator(s) == settled \ {1}
Rearmed(s) == settled \ {s}

\* Into the queue before preSimulationFilter, or to it when it waits.
Buffer(u) ==
  IF txns = <<>> /\ mempoolUpdates = <<>>
  THEN txns' = Transactions(u) /\ UNCHANGED <<mempoolUpdates, passedBy>>
  ELSE IF Len(mempoolUpdates) < MempoolMark
  THEN mempoolUpdates' = Append(mempoolUpdates, u) /\ UNCHANGED <<txns, passedBy>>
  ELSE passedBy' = passedBy \cup Range(Transactions(u)) /\ UNCHANGED <<txns, mempoolUpdates>>

\* The update of the winner is handed on, its generator is asked for the next
\* one, and the next race begins.
Fuse ==
  /\ process = "running"
  /\ winner # NoSource
  /\ Buffer(<<winner, produced[winner]>>)
  /\ settled' = Rearmed(winner)
  /\ winner' = FirstOf(Rearmed(winner))
  /\ UNCHANGED <<process, produced, filtered, vars, postFilter>>

(***************************************************************************)
(* preSimulationFilter                                                     *)
(***************************************************************************)
TakeUpdate ==
  /\ process = "running"
  /\ txns = <<>>
  /\ mempoolUpdates # <<>>
  /\ txns' = Transactions(Head(mempoolUpdates))
  /\ mempoolUpdates' = Tail(mempoolUpdates)
  /\ UNCHANGED <<process, mempool, passedBy, filtered, vars, postFilter>>

\* A transaction that is of no interest.
Skip ==
  /\ process = "running"
  /\ txns # <<>>
  /\ passedBy' = passedBy \cup {Head(txns)}
  /\ txns' = Tail(txns)
  /\ UNCHANGED <<process, mempool, mempoolUpdates, filtered, vars, postFilter>>

\* One of interest goes to sendSimulations.
Filter ==
  /\ process = "running"
  /\ txns # <<>>
  /\ Receive
  /\ filtered' = Append(filtered, Head(txns))
  /\ txns' = Tail(txns)
  /\ UNCHANGED <<process, mempool, mempoolUpdates, passedBy, postFilter>>

\* One with a lookup table that is missing or too short: the error passes
\* through the generators to a promise nobody handles.
FilterThrows ==
  /\ process = "running"
  /\ txns # <<>>
  /\ Ends

(***************************************************************************)
(* simulate and the buffer after it                                        *)
(***************************************************************************)
SimulationAnswered(x) ==
  /\ process = "running"
  /\ Simulated(x)
  /\ UNCHANGED <<process, mempool, preFilter, filtered, postFilter>>

\* Whether the buffer asks simulate for more.  (Mutant: only when it has room.)
AsksWhenRoom == Len(simulations) < SimulationsMark
AsksAlways == TRUE

\* simulate runs; what it yields is buffered, handed to postSimulateFilter
\* later, or lost at the mark.
Simulate ==
  /\ process = "running"
  /\ AsksAlways
  /\ Resume
  /\ simulations' =
       IF yielded' # yielded /\ Len(simulations) < SimulationsMark
       THEN Append(simulations, Last(yielded')) ELSE simulations
  /\ UNCHANGED <<process, mempool, preFilter, filtered, trades>>

(***************************************************************************)
(* postSimulateFilter                                                      *)
(***************************************************************************)

\* A simulation with an error, or without a swap, has no trades.
TakeSimulation ==
  /\ process = "running"
  /\ trades = 0
  /\ simulations # <<>>
  /\ trades' \in 0 .. MaxTrades
  /\ simulations' = Tail(simulations)
  /\ UNCHANGED <<process, mempool, preFilter, filtered, vars>>

\* It comes to a market of which the transaction touches one vault only, perhaps
\* after it has handed on trades of others.
PostFilterThrows ==
  /\ process = "running"
  /\ trades > 0 \/ simulations # <<>>
  /\ Ends

\* The consumer takes a trade.
HandOn ==
  /\ process = "running"
  /\ trades > 0
  /\ trades' = trades - 1
  /\ UNCHANGED <<process, mempool, preFilter, filtered, vars, simulations>>

\* The block engines may be silent for ever; an ended process stays ended.
Idle == UNCHANGED pipelineVars

PipelineNext ==
  \/ \E s \in Source : Settle(s)
  \/ Fuse \/ TakeUpdate \/ Skip \/ Filter \/ FilterThrows
  \/ \E x \in Txn : SimulationAnswered(x)
  \/ Simulate \/ TakeSimulation \/ PostFilterThrows \/ HandOn \/ Idle

PipelineSpec == PipelineInit /\ [][PipelineNext]_pipelineVars

(***************************************************************************)
(* Fairness: Node runs what is ready, lookups of tables and simulations    *)
(* are answered or fail.  None for the block engines, and none for what is *)
(* after the second buffer: the consumer may stay with one trade for ever. *)
(***************************************************************************)
FairPipelineSpec ==
  /\ PipelineSpec
  /\ WF_pipelineVars(Fuse)
  /\ WF_pipelineVars(TakeUpdate \/ Skip \/ Filter)
  /\ \A x \in Txn : WF_pipelineVars(SimulationAnswered(x))
  /\ WF_pipelineVars(Simulate)
-----------------------------------------------------------------------------
(***************************************************************************)
(* Properties                                                              *)
(***************************************************************************)

\* Where the transactions of the updates are that fuseGenerators has handed on.
HandedOn(s) == IF s \in settled THEN produced[s] - 1 ELSE produced[s]
Fused == UNION {Range(Transactions(u)) : u \in {v \in Update : v[2] <= HandedOn(v[1])}}
Queued == UNION {Range(Transactions(mempoolUpdates[i])) : i \in DOMAIN mempoolUpdates}

\* Every transaction of every update that was handed on waits in the buffer or
\* the filter, was passed by, or was received by sendSimulations, once; and those
\* of one block engine are received in their order, though several generators
\* are drained through one race (src/utils.ts, lines 146-162).
InOrderOnce ==
  /\ Queued \cup Range(txns) \cup passedBy \cup Range(filtered) = Fused
  /\ \A i, j \in DOMAIN filtered :
       LET x == filtered[i] y == filtered[j] IN
         i < j /\ x[1] = y[1] => (x[2] < y[2] \/ (x[2] = y[2] /\ x[3] < y[3]))

\* When an update is handed on, no source listed after one whose update is ready
\* is next: a ready source is overtaken once at most but by sources listed
\* before it, and with the two block engines of .env.example none starves.
OnlyEarlierOvertake ==
  [][ process' = "running" /\ winner' # winner => \A s \in settled \ {winner} : winner' \in 1 .. s ]_mempool

\* A consumer that keeps a trade for ever holds up nothing before the second
\* buffer: every transaction that was handed on is passed by, or simulated and
\* then yielded or dropped, in the end, unless the process ends.
Leaves(t) ==
  \/ t \in passedBy
  \/ \E i \in DOMAIN filtered :
       filtered[i] = t /\ (i \in dropped \/ \E j \in DOMAIN yielded : yielded[j] = i)
NoBackPressure ==
  \A t \in Transaction : t \in Fused ~> (Leaves(t) \/ process = "ended")
=============================================================================
