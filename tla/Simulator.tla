------------------------------ MODULE Simulator ------------------------------
(***************************************************************************)
(* src/simulation.ts: sendSimulations starts a simulation for every        *)
(* filtered transaction, up to a number of pending ones; their answers are *)
(* queued, and the generator simulate hands those of use to its consumer,  *)
(* waiting for an event while there is none.                               *)
(***************************************************************************)
EXTENDS Integers, Sequences, FiniteSets, SequencesExt

CONSTANTS
  MaxTxns,                  (* bound on the transactions received *)
  MAX_PENDING_SIMULATIONS

ASSUME SimulatorAssumption == MaxTxns \in Nat /\ MAX_PENDING_SIMULATIONS \in Nat

\* Transactions are numbered in the order they are received.
Txn == 1 .. MaxTxns
\* What becomes of a simulation; failed: its response is null.
SimulationResult == [txn : Txn, failed : BOOLEAN]

VARIABLES
  received,           (* transactions taken from the iterator                 *)
  simulating,         (* those whose simulateBundle is not settled            *)
  pendingSimulations,
  simulationResults,
  generator,          (* "suspended" at a yield, "waiting" for the event, or  *)
                      (* "woken" by it and not yet resumed                    *)
  yielded,            (* in order                                             *)
  dropped

sender == <<received, simulating, pendingSimulations>>
vars == <<sender, simulationResults, generator, yielded, dropped>>

TypeOK ==
  /\ received \in 0 .. MaxTxns
  /\ simulating \in SUBSET Txn
  /\ pendingSimulations \in 0 .. MAX_PENDING_SIMULATIONS + 1
  /\ simulationResults \in Seq(SimulationResult)
  /\ generator \in {"suspended", "waiting", "woken"}
  /\ yielded \in Seq(Txn)
  /\ dropped \in SUBSET Txn

Init ==
  /\ received = 0
  /\ simulating = {}
  /\ pendingSimulations = 0
  /\ simulationResults = <<>>
  /\ generator = "suspended"
  /\ yielded = <<>>
  /\ dropped = {}

\* The limit on pending simulations is exceeded by one before it is felt.
TooMany == pendingSimulations > MAX_PENDING_SIMULATIONS

\* An iteration of sendSimulations.
Receive ==
  /\ received < MaxTxns
  /\ received' = received + 1
  /\ IF TooMany
     THEN dropped' = dropped \cup {received + 1} /\ UNCHANGED <<simulating, pendingSimulations>>
     ELSE /\ simulating' = simulating \cup {received + 1}
          /\ pendingSimulations' = pendingSimulations + 1
          /\ UNCHANGED dropped
  /\ UNCHANGED <<simulationResults, generator, yielded>>

\* The pending simulations after an answer.  (Mutant: a failure is not counted
\* down.)
CountSuccess(failed) == IF failed THEN pendingSimulations ELSE pendingSimulations - 1
CountDown(failed) == pendingSimulations - 1

\* The results after an answer.
Push(x, failed) == Append(simulationResults, [txn |-> x, failed |-> failed])

\* Whom the event wakes.
Emit == IF generator = "waiting" THEN "woken" ELSE generator

\* simulateBundle resolves or rejects.
Simulated(x) ==
  /\ x \in simulating
  /\ simulating' = simulating \ {x}
  /\ \E failed \in BOOLEAN :
       /\ simulationResults' = Push(x, failed)
       /\ pendingSimulations' = CountDown(failed)
  /\ generator' = Emit
  /\ UNCHANGED <<received, yielded, dropped>>

\* simulate runs from one await or yield to the next: it drops n results that
\* failed or are too old, and yields the next one or, when that was the last,
\* waits.  (Mutant: it waits for the event of the next result.)
WaitsForNext(n) == n = Len(simulationResults) \/ generator = "suspended"
NoneLeft(n) == n = Len(simulationResults)

Resume ==
  /\ generator \in {"suspended", "woken"}
  /\ \E n \in 0 .. Len(simulationResults) :
       /\ dropped' = dropped \cup {simulationResults[i].txn : i \in 1 .. n}
       /\ \/ /\ NoneLeft(n)
             /\ generator' = "waiting"
             /\ simulationResults' = SubSeq(simulationResults, n + 1, Len(simulationResults))
             /\ UNCHANGED yielded
          \/ /\ ~NoneLeft(n)
             /\ ~simulationResults[n + 1].failed
             /\ generator' = "suspended"
             /\ yielded' = Append(yielded, simulationResults[n + 1].txn)
             /\ simulationResults' = SubSeq(simulationResults, n + 2, Len(simulationResults))
  /\ UNCHANGED sender

\* The mempool may be silent for ever.
Silent == received = MaxTxns /\ UNCHANGED vars

Next == Receive \/ (\E x \in Txn : Simulated(x)) \/ Resume \/ Silent

Spec == Init /\ [][Next]_vars
-----------------------------------------------------------------------------
(***************************************************************************)
(* Properties                                                              *)
(***************************************************************************)

\* The counter is the number of simulations in flight, whichever of then and
\* catch saw the answer (lines 56-78); so it never exceeds the limit by more
\* than one, and transactions are simulated again when the load is over.
PendingIsInFlight ==
  /\ pendingSimulations = Cardinality(simulating)
  /\ pendingSimulations <= MAX_PENDING_SIMULATIONS + 1

\* The generator never waits for the event while a result is queued, and never
\* takes a result from an empty queue when it was woken (lines 88-96).
NoLostWakeup ==
  /\ generator = "waiting" => simulationResults = <<>>
  /\ generator = "woken" => simulationResults # <<>>

\* Every transaction received is being simulated, waits as a result, was
\* yielded or was dropped: one of these, once.
ResultTxns == {simulationResults[i].txn : i \in DOMAIN simulationResults}
EachTxnOnce ==
  /\ simulating \cup ResultTxns \cup Range(yielded) \cup dropped = 1 .. received
  /\ Cardinality(simulating) + Len(simulationResults) + Len(yielded) + Cardinality(dropped) = received
=============================================================================
