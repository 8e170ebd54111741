---------------------------- MODULE PipelineProofs ----------------------------
(***************************************************************************)
(* Proofs about Simulator for every limit and number of transactions, and  *)
(* about the Pipeline it is a stage of, for any number of block engines    *)
(* and updates, and for all marks and limits.                              *)
(***************************************************************************)
EXTENDS Pipeline, FiniteSetTheorems, WellFoundedInduction, TLAPS

(***************************************************************************)
(* The simulation stage by itself                                          *)
(***************************************************************************)
\* NotYetReceived: a transaction is simulated only after it was received, so
\* that none is added to "simulating" twice.
SimulatorInv ==
  /\ TypeOK
  /\ IsFiniteSet(simulating)
  /\ simulating \subseteq 1 .. received
  /\ PendingIsInFlight
  /\ NoLostWakeup

LEMMA SubSeqTyped ==
  ASSUME NEW S, NEW q \in Seq(S), NEW i \in Nat \ {0}
  PROVE  /\ SubSeq(q, i, Len(q)) \in Seq(S)
         /\ i > Len(q) => SubSeq(q, i, Len(q)) = <<>>
  OBVIOUS

LEMMA InitInv == Init => SimulatorInv
  BY SimulatorAssumption, FS_EmptySet
     DEF Init, SimulatorInv, TypeOK, PendingIsInFlight, NoLostWakeup, Txn

LEMMA ReceiveStep == SimulatorInv /\ Receive => SimulatorInv'
<1> SUFFICES ASSUME SimulatorInv, Receive PROVE SimulatorInv'
  OBVIOUS
<1> USE DEF SimulatorInv, TypeOK, PendingIsInFlight, NoLostWakeup
<1>1. received + 1 \in Txn /\ received' \in 0 .. MaxTxns /\ received' = received + 1
  BY SimulatorAssumption DEF Receive, Txn
<1>2. CASE TooMany
  <2>1. dropped' = dropped \cup {received + 1}
        /\ UNCHANGED <<simulating, pendingSimulations, simulationResults, generator, yielded>>
    BY <1>2 DEF Receive
  <2>2. dropped' \in SUBSET Txn
    BY <1>1, <2>1
  <2>3. simulating' \subseteq 1 .. received'
    BY <1>1, <2>1
  <2> QED BY <1>1, <2>1, <2>2, <2>3
<1>3. CASE ~TooMany
  <2>1. simulating' = simulating \cup {received + 1} /\ pendingSimulations' = pendingSimulations + 1
        /\ UNCHANGED <<simulationResults, generator, yielded, dropped>>
    BY <1>3 DEF Receive
  <2>2. received + 1 \notin simulating
    OBVIOUS
  <2>3. IsFiniteSet(simulating') /\ Cardinality(simulating') = Cardinality(simulating) + 1
    BY <2>1, <2>2, FS_AddElement
  <2>4. pendingSimulations' \in 0 .. MAX_PENDING_SIMULATIONS + 1
    BY <1>3, <2>1, SimulatorAssumption DEF TooMany
  <2>5. simulating' \subseteq 1 .. received'
    BY <1>1, <2>1
  <2>6. simulating' \in SUBSET Txn
    BY <1>1, <2>1
  <2> QED BY <1>1, <2>1, <2>3, <2>4, <2>5, <2>6
<1> QED BY <1>2, <1>3

LEMMA SimulatedStep ==
  ASSUME SimulatorInv, NEW x \in Txn, Simulated(x)
  PROVE  SimulatorInv'
<1> USE DEF SimulatorInv, TypeOK, PendingIsInFlight, NoLostWakeup
<1>1. PICK failed \in BOOLEAN :
        /\ simulationResults' = Push(x, failed)
        /\ pendingSimulations' = CountDown(failed)
  BY DEF Simulated
<1>2. x \in simulating /\ simulating' = simulating \ {x} /\ generator' = Emit
      /\ UNCHANGED <<received, yielded, dropped>>
  BY DEF Simulated
<1>3. IsFiniteSet(simulating') /\ Cardinality(simulating') = Cardinality(simulating) - 1
  BY <1>2, FS_RemoveElement
<1>4. Cardinality(simulating) \in Nat /\ Cardinality(simulating) # 0
  BY <1>2, FS_CardinalityType, FS_EmptySet
<1>5. pendingSimulations' = Cardinality(simulating') /\ pendingSimulations' \in 0 .. MAX_PENDING_SIMULATIONS + 1
  BY <1>1, <1>3, <1>4, SimulatorAssumption DEF CountDown
<1>6. simulationResults' \in Seq(SimulationResult) /\ simulationResults' # <<>>
  <2>1. [txn |-> x, failed |-> failed] \in SimulationResult
    BY DEF SimulationResult
  <2>2. PICK item \in SimulationResult : simulationResults' = Append(simulationResults, item)
    BY <1>1, <2>1 DEF Push
  <2> QED BY <2>2
<1>7. generator' \in {"suspended", "woken"}
  BY <1>2 DEF Emit
<1> QED BY <1>2, <1>3, <1>5, <1>6, <1>7

LEMMA ResumeStep == SimulatorInv /\ Resume => SimulatorInv'
<1> SUFFICES ASSUME SimulatorInv, Resume PROVE SimulatorInv'
  OBVIOUS
<1> USE DEF SimulatorInv, TypeOK, PendingIsInFlight, NoLostWakeup
<1>1. UNCHANGED <<received, simulating, pendingSimulations>>
  BY DEF Resume, sender
<1> DEFINE results == simulationResults
<1>2. PICK n \in 0 .. Len(results) :
       /\ dropped' = dropped \cup {results[i].txn : i \in 1 .. n}
       /\ \/ /\ NoneLeft(n)
             /\ generator' = "waiting"
             /\ results' = SubSeq(results, n + 1, Len(results))
             /\ UNCHANGED yielded
          \/ /\ ~NoneLeft(n)
             /\ generator' = "suspended"
             /\ yielded' = Append(yielded, results[n + 1].txn)
             /\ results' = SubSeq(results, n + 2, Len(results))
  BY DEF Resume
<1>3. Len(results) \in Nat /\ \A i \in 1 .. Len(results) : results[i].txn \in Txn
  <2>1. results \in Seq(SimulationResult)
    OBVIOUS
  <2>2. Len(results) \in Nat /\ \A i \in 1 .. Len(results) : results[i] \in SimulationResult
    BY ONLY <2>1
  <2>3. \A r \in SimulationResult : r.txn \in Txn
    BY DEF SimulationResult
  <2> QED BY <2>2, <2>3
<1>4. dropped' \in SUBSET Txn
  <2>1. {results[i].txn : i \in 1 .. n} \in SUBSET Txn
    BY <1>3
  <2> QED BY <1>2, <2>1
<1>5. CASE NoneLeft(n) /\ generator' = "waiting" /\ results' = SubSeq(results, n + 1, Len(results)) /\ UNCHANGED yielded
  <2>1. n = Len(results)
    BY <1>5 DEF NoneLeft
  <2>2. results' = <<>>
    <3>1. results \in Seq(SimulationResult) /\ results' = SubSeq(results, Len(results) + 1, Len(results))
          /\ Len(results) \in Nat
      BY <1>3, <1>5, <2>1
    <3> QED BY <3>1, SubSeqTyped
  <2> QED BY <1>1, <1>4, <1>5, <2>2
<1>6. CASE ~NoneLeft(n) /\ generator' = "suspended" /\ yielded' = Append(yielded, results[n + 1].txn)
           /\ results' = SubSeq(results, n + 2, Len(results))
  <2>1. n + 1 \in 1 .. Len(results)
    BY <1>3, <1>6 DEF NoneLeft
  <2>2. yielded' \in Seq(Txn)
    BY <1>3, <1>6, <2>1
  <2>3. results' \in Seq(SimulationResult)
    <3>1. /\ results \in Seq(SimulationResult) /\ results' = SubSeq(results, n + 2, Len(results))
          /\ n \in Nat
      BY <1>6, <1>3
    <3> QED BY <3>1, SubSeqTyped
  <2> QED BY <1>1, <1>4, <1>6, <2>2, <2>3
<1> QED BY <1>2, <1>5, <1>6

LEMMA NextInv == SimulatorInv /\ [Next]_vars => SimulatorInv'
<1> SUFFICES ASSUME SimulatorInv, [Next]_vars PROVE SimulatorInv'
  OBVIOUS
<1>1. CASE UNCHANGED vars
  BY <1>1 DEF vars, sender, SimulatorInv, TypeOK, PendingIsInFlight, NoLostWakeup
<1> QED BY <1>1, ReceiveStep, SimulatedStep, ResumeStep DEF Next, Silent

\* At most MAX_PENDING_SIMULATIONS + 1 simulations are pending.
THEOREM TypeCorrect == Spec => []TypeOK
<1>1. SimulatorInv => TypeOK
  BY DEF SimulatorInv
<1> QED BY <1>1, InitInv, NextInv, PTL DEF Spec

\* The counter never leaks: it is the number of simulations in flight.
THEOREM CounterIsExact == Spec => []PendingIsInFlight
<1>1. SimulatorInv => PendingIsInFlight
  BY DEF SimulatorInv
<1> QED BY <1>1, InitInv, NextInv, PTL DEF Spec

\* The generator neither sleeps beside a result nor wakes without one.
THEOREM WakeupsAreNotLost == Spec => []NoLostWakeup
<1>1. SimulatorInv => NoLostWakeup
  BY DEF SimulatorInv
<1> QED BY <1>1, InitInv, NextInv, PTL DEF Spec

-----------------------------------------------------------------------------
(***************************************************************************)
(* The sources                                                             *)
(***************************************************************************)
LEMMA SourceFacts ==
  /\ \A s \in Source : s \in Nat /\ s # NoSource
  /\ Source \subseteq Nat
<1>1. Source = 1 .. Len(Updates) /\ Len(Updates) \in Nat
  BY PipelineAssumption DEF Source
<1> QED BY <1>1 DEF NoSource

LEMMA LeastOfSources ==
  ASSUME NEW S, S \subseteq Nat, S # {}
  PROVE  \E s \in S : \A t \in S : s <= t
<1>1. PICK s \in S : \A t \in S : ~(<<t, s>> \in OpToRel(<, Nat))
  BY NatLessThanWellFounded, WFMin
<1>2. \A t \in S : t \in Nat /\ s \in Nat
  OBVIOUS
<1>3. \A t \in S : ~(t < s)
  BY <1>1, <1>2 DEF OpToRel
<1> QED BY <1>2, <1>3

LEMMA FirstIsLeast ==
  ASSUME NEW S, S \subseteq Source
  PROVE  /\ S = {} => FirstOf(S) = NoSource
         /\ S # {} => FirstOf(S) \in S /\ \A t \in S : FirstOf(S) <= t
<1>1. CASE S = {}
  BY <1>1 DEF FirstOf
<1>2. CASE S # {}
  <2>1. \E s \in S : \A t \in S : s <= t
    BY <1>2, SourceFacts, LeastOfSources
  <2> QED BY <1>2, <2>1 DEF FirstOf
<1> QED BY <1>1, <1>2

-----------------------------------------------------------------------------
(***************************************************************************)
(* The race                                                                *)
(***************************************************************************)

\* A race is on, that is, has no winner yet, only while no promise is settled.
RaceInv ==
  /\ settled \subseteq Source
  /\ winner \in settled \cup {NoSource}
  /\ winner = NoSource => settled = {}

LEMMA RaceInit == PipelineInit => RaceInv
BY DEF PipelineInit, RaceInv

LEMMA RaceNext ==
  ASSUME RaceInv, [PipelineNext]_pipelineVars
  PROVE  /\ RaceInv'
         /\ process' = "running" /\ winner' # winner =>
              \A s \in settled \ {winner} : winner' \in 1 .. s
<1>1. CASE UNCHANGED <<settled, winner>>
  BY <1>1 DEF RaceInv
<1>2. CASE Ends
  BY <1>2 DEF Ends, RaceInv
<1>3. ASSUME NEW s \in Source, Settle(s)
      PROVE  RaceInv' /\ (winner' # winner => settled = {})
  BY <1>3, SourceFacts DEF Settle, RaceInv
<1>4. CASE Fuse
  <2> DEFINE left == settled \ {winner}
  <2>1. settled' = left /\ winner' = FirstOf(left) /\ left \subseteq Source
    BY <1>4 DEF Fuse, Rearmed, RaceInv
  <2>2. left = {} => winner' = NoSource
    BY <2>1, FirstIsLeast
  <2>3. left # {} => winner' \in left /\ \A t \in left : winner' <= t
    BY <2>1, FirstIsLeast
  <2> HIDE DEF left
  <2>4. RaceInv'
    BY <2>1, <2>2, <2>3, SourceFacts DEF RaceInv
  <2>5. \A s \in left : winner' \in 1 .. s
    <3> SUFFICES ASSUME NEW s \in left PROVE winner' \in 1 .. s
      OBVIOUS
    <3>1. winner' \in Nat /\ s \in Nat /\ winner' # 0 /\ winner' <= s
      BY <2>1, <2>3, SourceFacts DEF NoSource
    <3> QED BY <3>1
  <2> QED BY <2>4, <2>5 DEF left
<1>5. ASSUME TakeUpdate \/ Skip \/ Filter \/ Simulate \/ TakeSimulation \/ HandOn \/ Idle \/ UNCHANGED pipelineVars
      PROVE  UNCHANGED <<settled, winner>>
  BY <1>5 DEF TakeUpdate, Skip, Filter, Simulate, TakeSimulation, HandOn, Idle, pipelineVars, mempool
<1>6. ASSUME NEW x \in Txn, SimulationAnswered(x) PROVE UNCHANGED <<settled, winner>>
  BY <1>6 DEF SimulationAnswered, mempool
<1>7. FilterThrows \/ PostFilterThrows => Ends
  BY DEF FilterThrows, PostFilterThrows
<1> QED BY <1>1, <1>2, <1>3, <1>4, <1>5, <1>6, <1>7 DEF PipelineNext

\* A ready source is overtaken only by sources that are listed before it.
THEOREM OvertakenByEarlierOnly == PipelineSpec => OnlyEarlierOvertake
<1>1. RaceInv /\ [PipelineNext]_pipelineVars =>
        [process' = "running" /\ winner' # winner =>
           \A s \in settled \ {winner} : winner' \in 1 .. s]_mempool
  BY RaceNext
<1>2. RaceInv /\ [PipelineNext]_pipelineVars => RaceInv'
  BY RaceNext
<1> QED BY <1>1, <1>2, RaceInit, PTL DEF PipelineSpec, OnlyEarlierOvertake

-----------------------------------------------------------------------------
(***************************************************************************)
(* The simulations in the chain                                            *)
(***************************************************************************)
LEMMA ChainInit == PipelineInit => SimulatorInv
BY InitInv DEF PipelineInit

LEMMA ChainReset == Ends => SimulatorInv'
<1> SUFFICES ASSUME Ends PROVE SimulatorInv'
  OBVIOUS
<1>1. /\ received' = 0 /\ simulating' = {} /\ pendingSimulations' = 0
      /\ simulationResults' = <<>> /\ generator' = "suspended" /\ yielded' = <<>> /\ dropped' = {}
  BY DEF Ends
<1> QED BY <1>1, SimulatorAssumption, FS_EmptySet
        DEF SimulatorInv, TypeOK, PendingIsInFlight, NoLostWakeup, Txn

LEMMA ChainNext == SimulatorInv /\ [PipelineNext]_pipelineVars => SimulatorInv'
<1> SUFFICES ASSUME SimulatorInv, [PipelineNext]_pipelineVars PROVE SimulatorInv'
  OBVIOUS
<1>1. CASE UNCHANGED vars
  BY <1>1 DEF vars, sender, SimulatorInv, TypeOK, PendingIsInFlight, NoLostWakeup
<1>2. CASE Filter
  BY <1>2, ReceiveStep DEF Filter
<1>3. ASSUME NEW x \in Txn, SimulationAnswered(x) PROVE SimulatorInv'
  BY <1>3, SimulatedStep DEF SimulationAnswered
<1>4. CASE Simulate
  BY <1>4, ResumeStep DEF Simulate
<1>5. FilterThrows \/ PostFilterThrows => SimulatorInv'
  BY ChainReset DEF FilterThrows, PostFilterThrows
<1>6. ASSUME Fuse \/ TakeUpdate \/ Skip \/ TakeSimulation \/ HandOn \/ Idle \/ UNCHANGED pipelineVars
      PROVE  UNCHANGED vars
  BY <1>6 DEF Fuse, TakeUpdate, Skip, TakeSimulation, HandOn, Idle, pipelineVars
<1>7. ASSUME NEW s \in Source, Settle(s) PROVE UNCHANGED vars
  BY <1>7 DEF Settle
<1> QED BY <1>1, <1>2, <1>3, <1>4, <1>5, <1>6, <1>7 DEF PipelineNext

\* Whatever the other stages do, and lose, the counter of pending simulations is
\* their number.
THEOREM CounterIsExactInTheChain == PipelineSpec => []PendingIsInFlight
<1>1. SimulatorInv => PendingIsInFlight
  BY DEF SimulatorInv
<1> QED BY <1>1, ChainInit, ChainNext, PTL DEF PipelineSpec

\* And simulate misses no event.
THEOREM WakeupsAreNotLostInTheChain == PipelineSpec => []NoLostWakeup
<1>1. SimulatorInv => NoLostWakeup
  BY DEF SimulatorInv
<1> QED BY <1>1, ChainInit, ChainNext, PTL DEF PipelineSpec

-----------------------------------------------------------------------------
(***************************************************************************)
(* The way of the transactions                                             *)
(***************************************************************************)
Numbered == Source \X Nat \X Nat
Precedes(x, y) == x[1] = y[1] => x[2] < y[2] \/ (x[2] = y[2] /\ x[3] < y[3])
Ordered(q) == \A i, j \in DOMAIN q : i < j => Precedes(q[i], q[j])
UpdatesOrdered(q) == \A i, j \in DOMAIN q : i < j /\ q[i][1] = q[j][1] => q[i][2] < q[j][2]

ChainTypes ==
  /\ produced \in [Source -> Nat]
  /\ \A s \in Source : produced[s] <= Len(Updates[s])
  /\ \A s \in settled : produced[s] > 0
  /\ mempoolUpdates \in Seq(Update)
  /\ txns \in Seq(Numbered)
  /\ filtered \in Seq(Numbered)

\* What was received comes before what is in the filter, and that before what
\* waits in the buffer; none of it is ahead of the race.
InLine ==
  /\ Ordered(filtered) /\ Ordered(txns) /\ UpdatesOrdered(mempoolUpdates)
  /\ \A x \in Range(filtered), y \in Range(txns) : Precedes(x, y)
  /\ \A x \in Range(filtered) \cup Range(txns), u \in Range(mempoolUpdates) :
       x[1] = u[1] => x[2] < u[2]
  /\ \A x \in Range(filtered) \cup Range(txns) \cup Range(mempoolUpdates) :
       x[2] <= HandedOn(x[1])

Everything == Queued \cup Range(txns) \cup passedBy \cup Range(filtered) = Fused

OrderInv == RaceInv /\ ChainTypes /\ InLine /\ Everything

LEMMA UpdateFacts ==
  /\ \A u \in Update : /\ u[1] \in Source /\ u[2] \in Nat \ {0} /\ u[2] <= Len(Updates[u[1]])
                       /\ Updates[u[1]][u[2]] \in Nat /\ u = <<u[1], u[2]>>
  /\ \A s \in Source, n \in Nat \ {0} : n <= Len(Updates[s]) => <<s, n>> \in Update
<1>1. \A s \in Source : Updates[s] \in Seq(Nat)
  BY PipelineAssumption DEF Source
<1>2. \A s \in Source : /\ Len(Updates[s]) \in Nat /\ DOMAIN Updates[s] = 1 .. Len(Updates[s])
                        /\ \A n \in 1 .. Len(Updates[s]) : Updates[s][n] \in Nat
  BY <1>1
<1>3. ASSUME NEW u \in Update
      PROVE  /\ u[1] \in Source /\ u[2] \in Nat \ {0} /\ u[2] <= Len(Updates[u[1]])
             /\ Updates[u[1]][u[2]] \in Nat /\ u = <<u[1], u[2]>>
  <2>1. PICK s \in Source : \E n \in DOMAIN Updates[s] : u = <<s, n>>
    BY DEF Update
  <2>2. PICK n \in DOMAIN Updates[s] : u = <<s, n>>
    BY <2>1
  <2>3. u[1] = s /\ u[2] = n
    BY <2>2
  <2> QED BY <1>2, <2>2, <2>3
<1>4. ASSUME NEW s \in Source, NEW n \in Nat \ {0}, n <= Len(Updates[s])
      PROVE  <<s, n>> \in Update
  <2>1. n \in DOMAIN Updates[s]
    BY <1>2, <1>4
  <2> QED BY <2>1 DEF Update
<1> QED BY <1>3, <1>4

\* The transactions of an update, in order.
LEMMA TransactionsOf ==
  ASSUME NEW u \in Update
  PROVE  /\ Transactions(u) \in Seq(Numbered)
         /\ Ordered(Transactions(u))
         /\ \A x \in Range(Transactions(u)) : x[1] = u[1] /\ x[2] = u[2]
<1>1. PICK k \in Nat : k = Updates[u[1]][u[2]]
  BY UpdateFacts
<1>2. PICK q : q = Transactions(u)
  OBVIOUS
<1>3. q = [i \in 1 .. k |-> <<u[1], u[2], i>>]
  BY <1>1, <1>2 DEF Transactions
<1>4. \A i \in 1 .. k : <<u[1], u[2], i>> \in Numbered
  BY UpdateFacts DEF Numbered
<1>5. q \in Seq(Numbered)
  BY <1>3, <1>4
<1>6. DOMAIN q = 1 .. k /\ \A i \in 1 .. k : q[i][1] = u[1] /\ q[i][2] = u[2] /\ q[i][3] = i
  BY <1>3
<1>7. Ordered(q)
  BY <1>6 DEF Ordered, Precedes
<1>8. \A x \in Range(q) : x[1] = u[1] /\ x[2] = u[2]
  BY <1>6 DEF Range
<1> QED BY <1>2, <1>5, <1>7, <1>8

LEMMA Appended ==
  ASSUME NEW S, NEW q \in Seq(S), NEW x \in S
  PROVE  /\ Append(q, x) \in Seq(S)
         /\ DOMAIN Append(q, x) = 1 .. Len(q) + 1 /\ DOMAIN q = 1 .. Len(q) /\ Len(q) \in Nat
         /\ \A i \in 1 .. Len(q) : Append(q, x)[i] = q[i]
         /\ Append(q, x)[Len(q) + 1] = x
OBVIOUS

LEMMA Shifted ==
  ASSUME NEW S, NEW q \in Seq(S), q # <<>>
  PROVE  /\ Head(q) = q[1] /\ Head(q) \in S
         /\ Tail(q) \in Seq(S)
         /\ Len(q) \in Nat \ {0} /\ DOMAIN q = 1 .. Len(q)
         /\ DOMAIN Tail(q) = 1 .. Len(q) - 1
         /\ \A i \in 1 .. Len(q) - 1 : Tail(q)[i] = q[i + 1]
OBVIOUS

\* r is q and x, and r is q without its head h.
Grows(S, q, x, r) ==
  /\ r \in Seq(S) /\ Range(r) = Range(q) \cup {x}
  /\ Ordered(q) /\ (\A y \in Range(q) : Precedes(y, x)) => Ordered(r)
  /\ UpdatesOrdered(q) /\ (\A y \in Range(q) : y[1] = x[1] => y[2] < x[2]) => UpdatesOrdered(r)
Shrinks(S, q, h, r) ==
  /\ h \in S /\ r \in Seq(S) /\ Range(q) = Range(r) \cup {h}
  /\ Ordered(q) => Ordered(r) /\ \A y \in Range(r) : Precedes(h, y)
  /\ UpdatesOrdered(q) => UpdatesOrdered(r) /\ \A y \in Range(r) : h[1] = y[1] => h[2] < y[2]

LEMMA RangeAppended ==
  ASSUME NEW S, NEW q \in Seq(S), NEW x \in S, NEW r, r = Append(q, x)
  PROVE  Grows(S, q, x, r)
<1>1. PICK len \in Nat :
        /\ r \in Seq(S)
        /\ DOMAIN r = 1 .. len + 1 /\ DOMAIN q = 1 .. len
        /\ \A i \in 1 .. len : r[i] = q[i]
        /\ r[len + 1] = x
  BY Appended
<1>2. \A i \in 1 .. len + 1 : i \in 1 .. len \/ i = len + 1
  OBVIOUS
<1>3. Range(r) = Range(q) \cup {x}
  BY <1>1, <1>2 DEF Range
<1>4. \A i \in 1 .. len : q[i] \in Range(q)
  BY <1>1 DEF Range
<1>5. ASSUME NEW i \in 1 .. len + 1, NEW j \in 1 .. len + 1, i < j
      PROVE  \/ i \in 1 .. len /\ j \in 1 .. len /\ r[i] = q[i] /\ r[j] = q[j]
             \/ i \in 1 .. len /\ r[i] \in Range(q) /\ r[j] = x
  BY <1>1, <1>2, <1>4, <1>5
<1>6. Ordered(q) /\ (\A y \in Range(q) : Precedes(y, x)) => Ordered(r)
  BY <1>1, <1>5 DEF Ordered
<1>7. UpdatesOrdered(q) /\ (\A y \in Range(q) : y[1] = x[1] => y[2] < x[2]) => UpdatesOrdered(r)
  BY <1>1, <1>5 DEF UpdatesOrdered
<1> QED BY <1>1, <1>3, <1>6, <1>7 DEF Grows

LEMMA RangeShifted ==
  ASSUME NEW S, NEW q \in Seq(S), q # <<>>, NEW r, r = Tail(q), NEW h, h = Head(q)
  PROVE  Shrinks(S, q, h, r)
<1>1. PICK len \in Nat \ {0} :
        /\ h = q[1] /\ h \in S /\ r \in Seq(S)
        /\ DOMAIN q = 1 .. len /\ DOMAIN r = 1 .. len - 1
        /\ \A i \in 1 .. len - 1 : r[i] = q[i + 1]
  BY Shifted
<1>2. \A i \in 1 .. len - 1 : i + 1 \in 1 .. len /\ 1 < i + 1
  OBVIOUS
<1>3. \A i \in 1 .. len : i = 1 \/ (i - 1 \in 1 .. len - 1 /\ (i - 1) + 1 = i)
  OBVIOUS
<1>4. 1 \in 1 .. len
  OBVIOUS
<1>5. Range(q) = Range(r) \cup {h}
  <2>1. Range(r) \cup {h} \subseteq Range(q)
    BY <1>1, <1>2, <1>4 DEF Range
  <2>2. ASSUME NEW i \in 1 .. len PROVE q[i] \in Range(r) \cup {h}
    <3>1. CASE i = 1
      BY <1>1, <3>1
    <3>2. CASE i # 1
      <4>1. i - 1 \in DOMAIN r /\ r[i - 1] = q[i]
        BY <1>1, <1>3, <3>2
      <4> QED BY <4>1 DEF Range
    <3> QED BY <3>1, <3>2
  <2>3. Range(q) = {q[i] : i \in 1 .. len}
    BY <1>1 DEF Range
  <2> QED BY <2>1, <2>2, <2>3
<1>6. \A i, j \in 1 .. len - 1 : i < j => i + 1 < j + 1
  OBVIOUS
<1>7. Ordered(q) => Ordered(r) /\ \A y \in Range(r) : Precedes(h, y)
  BY <1>1, <1>2, <1>4, <1>6 DEF Ordered, Range
<1>8. UpdatesOrdered(q) => UpdatesOrdered(r) /\ \A y \in Range(r) : h[1] = y[1] => h[2] < y[2]
  BY <1>1, <1>2, <1>4, <1>6 DEF UpdatesOrdered, Range
<1> QED BY <1>1, <1>5, <1>7, <1>8 DEF Shrinks

LEMMA RangeTyped ==
  ASSUME NEW S, NEW q \in Seq(S)
  PROVE  Range(q) \subseteq S /\ (q = <<>> => Range(q) = {})
BY DEF Range

LEMMA QueuedIs == Queued = UNION {Range(Transactions(u)) : u \in Range(mempoolUpdates)}
BY DEF Queued, Range

LEMMA HandedOnIsInt ==
  ASSUME RaceInv, ChainTypes, NEW s \in Source
  PROVE  HandedOn(s) \in Nat
BY DEF HandedOn, ChainTypes

\* Steps before and after the way.
LEMMA OrderStutter ==
  ASSUME OrderInv, RaceInv',
         UNCHANGED <<produced, settled, mempoolUpdates, txns, passedBy, filtered>>
  PROVE  OrderInv'
<1>1. \A s : HandedOn(s)' = HandedOn(s)
  BY DEF HandedOn
<1>2. ChainTypes'
  BY DEF OrderInv, ChainTypes
<1>3. Everything'
  <2>1. Fused' = Fused
    BY <1>1 DEF Fused
  <2> QED BY <2>1 DEF OrderInv, Everything, Queued
<1>4. InLine'
  BY <1>1 DEF OrderInv, InLine
<1> QED BY <1>2, <1>3, <1>4 DEF OrderInv

LEMMA EmptyChain ==
  /\ Ordered(<<>>) /\ UpdatesOrdered(<<>>) /\ Range(<<>>) = {}
  /\ <<>> \in Seq(Numbered) /\ <<>> \in Seq(Update)
BY DEF Ordered, UpdatesOrdered, Range

LEMMA SettleOrder ==
  ASSUME OrderInv, RaceInv', NEW s \in Source, Settle(s)
  PROVE  OrderInv'
<1>1. /\ s \notin settled /\ produced[s] < Len(Updates[s])
      /\ produced' = [produced EXCEPT ![s] = @ + 1]
      /\ settled' = settled \cup {s}
      /\ UNCHANGED <<mempoolUpdates, txns, passedBy, filtered>>
  BY DEF Settle, preFilter
<1>2. ChainTypes
  BY DEF OrderInv
<1>3. Len(Updates[s]) \in Nat
  BY PipelineAssumption DEF Source
<1>4. /\ produced' \in [Source -> Nat]
      /\ produced'[s] = produced[s] + 1
      /\ \A t \in Source : t # s => produced'[t] = produced[t]
  BY <1>1, <1>2 DEF ChainTypes
<1>5. ChainTypes'
  BY <1>1, <1>2, <1>3, <1>4 DEF ChainTypes, OrderInv, RaceInv
<1>6. \A t \in Source : HandedOn(t)' = HandedOn(t)
  BY <1>1, <1>2, <1>4 DEF HandedOn, ChainTypes
<1>7. Range(filtered) \cup Range(txns) \subseteq Numbered /\ Range(mempoolUpdates) \subseteq Update
  BY <1>2, RangeTyped DEF ChainTypes
<1>8. InLine'
  <2>1. \A x \in Range(filtered) \cup Range(txns) \cup Range(mempoolUpdates) : x[1] \in Source
    BY <1>7, UpdateFacts DEF Numbered
  <2>2. InLine
    BY DEF OrderInv
  <2> QED BY <1>1, <1>6, <2>1, <2>2 DEF InLine
<1>9. Everything'
  <2>1. Fused' = Fused
    BY <1>6, UpdateFacts DEF Fused
  <2>2. Everything
    BY DEF OrderInv
  <2> QED BY <1>1, <2>1, <2>2 DEF Everything, Queued
<1> QED BY <1>5, <1>8, <1>9 DEF OrderInv

\* The update that is handed on is after all that was handed on before.
LEMMA FuseFacts ==
  ASSUME OrderInv, Fuse, NEW u, u = <<winner, produced[winner]>>
  PROVE  /\ u \in Update
         /\ \A t \in Source : HandedOn(t) <= HandedOn(t)' /\ HandedOn(t) \in Nat /\ HandedOn(t)' \in Nat
         /\ u[2] = HandedOn(u[1])' /\ HandedOn(u[1]) < u[2] /\ u[1] \in Source /\ u[2] \in Nat
         /\ Fused' = Fused \cup Range(Transactions(u))
         /\ UNCHANGED <<produced, filtered>> /\ settled' = settled \ {winner}
<1>1. RaceInv /\ ChainTypes
  BY DEF OrderInv
<1>2. PICK w : w = winner
  OBVIOUS
<1>3. w \in settled /\ w \in Source /\ settled' = settled \ {w} /\ UNCHANGED <<produced, filtered>>
  BY <1>1, <1>2 DEF Fuse, Rearmed, RaceInv
<1>4. produced[w] \in Nat \ {0} /\ produced[w] <= Len(Updates[w])
  BY <1>1, <1>3 DEF ChainTypes
<1>5. u \in Update /\ u[1] = w /\ u[2] = produced[w]
  BY <1>2, <1>3, <1>4, UpdateFacts
<1>6. HandedOn(w) = produced[w] - 1 /\ HandedOn(w)' = produced[w]
  BY <1>3 DEF HandedOn
<1>7. \A t \in Source : t # w => HandedOn(t)' = HandedOn(t)
  BY <1>3 DEF HandedOn
<1>8. \A t \in Source : HandedOn(t) \in Nat
  BY <1>1, HandedOnIsInt
<1>9. \A v \in Update : v[2] <= HandedOn(v[1])' <=> v[2] <= HandedOn(v[1]) \/ v = u
  <2> SUFFICES ASSUME NEW v \in Update
               PROVE  v[2] <= HandedOn(v[1])' <=> v[2] <= HandedOn(v[1]) \/ v = u
    OBVIOUS
  <2>1. v[1] \in Source /\ v[2] \in Nat /\ v = <<v[1], v[2]>>
    BY UpdateFacts
  <2>2. u = <<w, produced[w]>>
    BY <1>2
  <2>3. CASE v[1] = w
    <3>1. v = u <=> v[2] = produced[w]
      BY <2>1, <2>2, <2>3
    <3>2. v[2] <= HandedOn(v[1])' <=> v[2] <= produced[w]
      BY <1>6, <2>3
    <3>3. v[2] <= HandedOn(v[1]) <=> v[2] <= produced[w] - 1
      BY <1>6, <2>3
    <3> QED BY <1>4, <2>1, <3>1, <3>2, <3>3
  <2>4. CASE v[1] # w
    BY <1>5, <1>7, <2>1, <2>4
  <2> QED BY <2>3, <2>4
<1>10. Fused' = Fused \cup Range(Transactions(u))
  <2>1. {v \in Update : v[2] <= HandedOn(v[1])'} = {v \in Update : v[2] <= HandedOn(v[1])} \cup {u}
    BY <1>5, <1>9
  <2> QED BY <2>1 DEF Fused
<1> QED BY <1>2, <1>3, <1>4, <1>5, <1>6, <1>7, <1>8, <1>10

LEMMA FuseOrder ==
  ASSUME OrderInv, RaceInv', Fuse
  PROVE  OrderInv'
<1>1. PICK u : u = <<winner, produced[winner]>>
  OBVIOUS
<1>2. ChainTypes /\ InLine /\ Everything /\ RaceInv
  BY DEF OrderInv
<1>3. /\ u \in Update
      /\ \A t \in Source : HandedOn(t) <= HandedOn(t)' /\ HandedOn(t) \in Nat /\ HandedOn(t)' \in Nat
      /\ u[2] = HandedOn(u[1])' /\ HandedOn(u[1]) < u[2] /\ u[1] \in Source /\ u[2] \in Nat
      /\ Fused' = Fused \cup Range(Transactions(u))
      /\ UNCHANGED <<produced, filtered>> /\ settled' = settled \ {winner}
  BY <1>1, FuseFacts
<1>4. Buffer(u)
  BY <1>1 DEF Fuse
<1> DEFINE All == Range(filtered) \cup Range(txns) \cup Range(mempoolUpdates)
<1>5. \A x \in All : x[1] \in Source /\ x[2] \in Nat
  <2>1. Range(filtered) \cup Range(txns) \subseteq Numbered /\ Range(mempoolUpdates) \subseteq Update
    BY <1>2, RangeTyped DEF ChainTypes
  <2> QED BY <2>1, UpdateFacts DEF Numbered
<1>6. \A x \in All : x[2] <= HandedOn(x[1])
  BY <1>2 DEF InLine
<1>7. \A x \in All : x[2] <= HandedOn(x[1])' /\ (x[1] = u[1] => x[2] < u[2])
  BY <1>3, <1>5, <1>6
<1>8. \A x \in Range(Transactions(u)) : x[1] = u[1] /\ x[2] = u[2]
  BY <1>3, TransactionsOf
<1>9. CASE txns = <<>> /\ mempoolUpdates = <<>>
  <2>1. txns' = Transactions(u) /\ UNCHANGED <<mempoolUpdates, passedBy>>
    BY <1>4, <1>9 DEF Buffer
  <2>2. Transactions(u) \in Seq(Numbered) /\ Ordered(Transactions(u))
    BY <1>3, TransactionsOf
  <2>3. Range(mempoolUpdates) = {} /\ Range(txns) = {}
    BY <1>9, EmptyChain
  <2>4. ChainTypes'
    BY <1>2, <1>3, <2>1, <2>2 DEF ChainTypes
  <2>5. InLine'
    BY <1>2, <1>3, <1>7, <1>8, <2>1, <2>2, <2>3 DEF InLine, Precedes
  <2>6. Everything'
    BY <1>2, <1>3, <2>1, <2>3 DEF Everything, Queued
  <2> QED BY <2>4, <2>5, <2>6 DEF OrderInv
<1>10. CASE ~(txns = <<>> /\ mempoolUpdates = <<>>) /\ Len(mempoolUpdates) < MempoolMark
  <2>1. mempoolUpdates' = Append(mempoolUpdates, u) /\ UNCHANGED <<txns, passedBy>>
    BY <1>4, <1>10 DEF Buffer
  <2>2. \A v \in Range(mempoolUpdates) : v[1] = u[1] => v[2] < u[2]
    BY <1>7
  <2>3. /\ mempoolUpdates' \in Seq(Update) /\ Range(mempoolUpdates') = Range(mempoolUpdates) \cup {u}
        /\ UpdatesOrdered(mempoolUpdates')
    <3>1. mempoolUpdates \in Seq(Update) /\ UpdatesOrdered(mempoolUpdates)
      BY <1>2 DEF ChainTypes, InLine
    <3>2. PICK r : r = mempoolUpdates'
      OBVIOUS
    <3>3. r = Append(mempoolUpdates, u) /\ u \in Update
      BY <1>3, <2>1, <3>2
    <3>4. Grows(Update, mempoolUpdates, u, r)
      BY ONLY <3>1, <3>3, RangeAppended
    <3>5. r \in Seq(Update) /\ Range(r) = Range(mempoolUpdates) \cup {u} /\ UpdatesOrdered(r)
      BY <2>2, <3>1, <3>4 DEF Grows
    <3> QED BY <3>2, <3>5
  <2>4. ChainTypes'
    BY <1>2, <1>3, <2>1, <2>3 DEF ChainTypes
  <2>5. InLine'
    <3>1. \A x \in Range(filtered) \cup Range(txns) : x[1] = u[1] => x[2] < u[2]
      BY <1>7
    <3>2. \A x \in All \cup {u} : x[2] <= HandedOn(x[1])'
      BY <1>3, <1>7
    <3> QED BY <1>2, <1>3, <2>1, <2>3, <3>1, <3>2 DEF InLine
  <2>6. Everything'
    <3>1. Queued' = Queued \cup Range(Transactions(u))
      <4>1. Queued' = UNION {Range(Transactions(v)) : v \in Range(mempoolUpdates')}
        BY DEF Queued, Range
      <4> QED BY <2>3, <4>1, QueuedIs
    <3> QED BY <1>2, <1>3, <2>1, <3>1 DEF Everything
  <2> QED BY <2>4, <2>5, <2>6 DEF OrderInv
<1>11. CASE ~(txns = <<>> /\ mempoolUpdates = <<>>) /\ ~(Len(mempoolUpdates) < MempoolMark)
  <2>1. passedBy' = passedBy \cup Range(Transactions(u)) /\ UNCHANGED <<txns, mempoolUpdates>>
    BY <1>4, <1>11 DEF Buffer
  <2>2. ChainTypes'
    BY <1>2, <1>3, <2>1 DEF ChainTypes
  <2>3. InLine'
    BY <1>2, <1>3, <1>7, <2>1 DEF InLine
  <2>4. Everything'
    BY <1>2, <1>3, <2>1 DEF Everything, Queued
  <2> QED BY <2>2, <2>3, <2>4 DEF OrderInv
<1> QED BY <1>9, <1>10, <1>11

LEMMA TakeUpdateOrder ==
  ASSUME OrderInv, RaceInv', TakeUpdate
  PROVE  OrderInv'
<1>1. ChainTypes /\ InLine /\ Everything
  BY DEF OrderInv
<1>2. /\ txns = <<>> /\ mempoolUpdates # <<>>
      /\ txns' = Transactions(Head(mempoolUpdates)) /\ mempoolUpdates' = Tail(mempoolUpdates)
      /\ UNCHANGED <<produced, settled, passedBy, filtered>>
  BY DEF TakeUpdate, mempool
<1>3. PICK u, r : u = Head(mempoolUpdates) /\ r = Tail(mempoolUpdates)
  OBVIOUS
<1>4. mempoolUpdates \in Seq(Update) /\ UpdatesOrdered(mempoolUpdates)
  BY <1>1 DEF ChainTypes, InLine
<1>5. /\ u \in Update /\ r \in Seq(Update) /\ Range(mempoolUpdates) = Range(r) \cup {u}
      /\ UpdatesOrdered(r) /\ \A v \in Range(r) : u[1] = v[1] => u[2] < v[2]
  <2>1. Shrinks(Update, mempoolUpdates, u, r)
    BY ONLY <1>2, <1>3, <1>4, RangeShifted
  <2> QED BY <1>4, <2>1 DEF Shrinks
<1>6. PICK t : t = Transactions(u)
  OBVIOUS
<1>7. t \in Seq(Numbered) /\ Ordered(t) /\ \A x \in Range(t) : x[1] = u[1] /\ x[2] = u[2]
  BY <1>5, <1>6, TransactionsOf
<1>8. txns' = t /\ mempoolUpdates' = r
  BY <1>2, <1>3, <1>6
<1>9. ChainTypes'
  BY <1>1, <1>2, <1>5, <1>7, <1>8 DEF ChainTypes
<1>10. \A s : HandedOn(s)' = HandedOn(s)
  BY <1>2 DEF HandedOn
<1>11. /\ \A x \in Range(filtered), v \in Range(mempoolUpdates) : x[1] = v[1] => x[2] < v[2]
       /\ \A x \in Range(filtered) \cup Range(mempoolUpdates) : x[2] <= HandedOn(x[1])
       /\ Ordered(filtered)
  BY <1>1 DEF InLine
<1>12. InLine'
  <2>1. \A x \in Range(filtered), y \in Range(t) : Precedes(x, y)
    BY <1>5, <1>7, <1>11 DEF Precedes
  <2>2. \A x \in Range(filtered) \cup Range(t), v \in Range(r) : x[1] = v[1] => x[2] < v[2]
    BY <1>5, <1>7, <1>11
  <2>3. \A x \in Range(filtered) \cup Range(t) \cup Range(r) : x[2] <= HandedOn(x[1])'
    BY <1>5, <1>7, <1>10, <1>11
  <2> QED BY <1>2, <1>5, <1>7, <1>8, <1>11, <2>1, <2>2, <2>3 DEF InLine
<1>13. Everything'
  <2>1. Fused' = Fused
    BY <1>10 DEF Fused
  <2>2. Queued = Queued' \cup Range(t)
    <3>1. Queued' = UNION {Range(Transactions(v)) : v \in Range(r)}
      BY <1>8 DEF Queued, Range
    <3> QED BY <1>5, <1>6, <3>1, QueuedIs
  <2>3. Range(txns) = {}
    BY <1>2, EmptyChain
  <2> QED BY <1>1, <1>2, <1>8, <2>1, <2>2, <2>3 DEF Everything
<1> QED BY <1>9, <1>12, <1>13 DEF OrderInv

\* The first transaction in the filter is passed by or received.
LEMMA FilterOrder ==
  ASSUME OrderInv, RaceInv', txns # <<>>, txns' = Tail(txns),
         UNCHANGED <<produced, settled, mempoolUpdates>>,
         \/ passedBy' = passedBy \cup {Head(txns)} /\ UNCHANGED filtered
         \/ filtered' = Append(filtered, Head(txns)) /\ UNCHANGED passedBy
  PROVE  OrderInv'
<1>1. ChainTypes /\ InLine /\ Everything
  BY DEF OrderInv
<1>2. PICK h, t : h = Head(txns) /\ t = Tail(txns)
  OBVIOUS
<1>3. txns \in Seq(Numbered) /\ Ordered(txns) /\ filtered \in Seq(Numbered) /\ Ordered(filtered)
  BY <1>1 DEF ChainTypes, InLine
<1>4. /\ h \in Numbered /\ t \in Seq(Numbered) /\ Range(txns) = Range(t) \cup {h}
      /\ Ordered(t) /\ \A y \in Range(t) : Precedes(h, y)
  <2>1. Shrinks(Numbered, txns, h, t)
    BY ONLY <1>2, <1>3, txns # <<>>, RangeShifted
  <2> QED BY <1>3, <2>1 DEF Shrinks
<1>5. \A s : HandedOn(s)' = HandedOn(s)
  BY DEF HandedOn
<1>6. Fused' = Fused /\ Queued' = Queued /\ txns' = t
  BY <1>2, <1>5 DEF Fused, Queued
<1>7. CASE passedBy' = passedBy \cup {h} /\ UNCHANGED filtered
  <2>1. ChainTypes'
    BY <1>1, <1>4, <1>6, <1>7 DEF ChainTypes
  <2>2. InLine'
    BY <1>1, <1>4, <1>5, <1>6, <1>7 DEF InLine
  <2>3. Everything'
    BY <1>1, <1>4, <1>6, <1>7 DEF Everything
  <2> QED BY <2>1, <2>2, <2>3 DEF OrderInv
<1>8. CASE filtered' = Append(filtered, h) /\ UNCHANGED passedBy
  <2>1. PICK f : f = filtered'
    OBVIOUS
  <2>2. \A y \in Range(filtered) : Precedes(y, h)
    BY <1>1, <1>4 DEF InLine
  <2>3. f \in Seq(Numbered) /\ Range(f) = Range(filtered) \cup {h} /\ Ordered(f)
    <3>1. Grows(Numbered, filtered, h, f)
      BY ONLY <1>3, <1>4, <1>8, <2>1, RangeAppended
    <3> QED BY <1>3, <2>2, <3>1 DEF Grows
  <2>4. ChainTypes'
    BY <1>1, <1>4, <1>6, <2>1, <2>3 DEF ChainTypes
  <2>5. InLine'
    <3>1. \A x \in Range(f), y \in Range(t) : Precedes(x, y)
      BY <1>1, <1>4, <2>3 DEF InLine
    <3> QED BY <1>1, <1>4, <1>5, <1>6, <2>1, <2>3, <3>1 DEF InLine
  <2>6. Everything'
    BY <1>1, <1>4, <1>6, <1>8, <2>1, <2>3 DEF Everything
  <2> QED BY <2>4, <2>5, <2>6 DEF OrderInv
<1> QED BY <1>2, <1>7, <1>8

\* At the start, and after the end, nothing is on its way.
LEMMA OrderStart ==
  ASSUME produced' = [s \in Source |-> 0], settled' = {}, RaceInv',
         mempoolUpdates' = <<>>, txns' = <<>>, passedBy' = {}, filtered' = <<>>
  PROVE  OrderInv'
<1>1. \A s \in Source : HandedOn(s)' = 0
  BY DEF HandedOn
<1>2. \A s \in Source : Len(Updates[s]) \in Nat
  BY PipelineAssumption DEF Source
<1>3. ChainTypes'
  BY <1>2, EmptyChain DEF ChainTypes
<1>4. InLine'
  BY EmptyChain DEF InLine
<1>5. Fused' = {}
  BY <1>1, UpdateFacts DEF Fused
<1>6. Everything'
  BY <1>5, EmptyChain DEF Everything, Queued
<1> QED BY <1>3, <1>4, <1>6 DEF OrderInv

LEMMA OrderInit == PipelineInit => OrderInv
<1> SUFFICES ASSUME PipelineInit PROVE OrderInv
  OBVIOUS
<1>1. /\ produced = [s \in Source |-> 0] /\ settled = {}
      /\ mempoolUpdates = <<>> /\ txns = <<>> /\ passedBy = {} /\ filtered = <<>>
  BY DEF PipelineInit
<1>2. \A s \in Source : HandedOn(s) = 0
  BY <1>1 DEF HandedOn
<1>3. \A s \in Source : Len(Updates[s]) \in Nat
  BY PipelineAssumption DEF Source
<1>4. ChainTypes
  BY <1>1, <1>3, EmptyChain DEF ChainTypes
<1>5. InLine
  BY <1>1, EmptyChain DEF InLine
<1>6. Fused = {}
  BY <1>2, UpdateFacts DEF Fused
<1>7. Everything
  BY <1>1, <1>6, EmptyChain DEF Everything, Queued
<1> QED BY <1>4, <1>5, <1>7, RaceInit DEF OrderInv

LEMMA OrderNext == OrderInv /\ [PipelineNext]_pipelineVars => OrderInv'
<1> SUFFICES ASSUME OrderInv, [PipelineNext]_pipelineVars PROVE OrderInv'
  OBVIOUS
<1>1. RaceInv'
  BY RaceNext DEF OrderInv
<1> DEFINE way == <<produced, settled, mempoolUpdates, txns, passedBy, filtered>>
<1>2. ASSUME UNCHANGED way PROVE OrderInv'
  BY <1>1, <1>2, OrderStutter
<1>3. ASSUME NEW s \in Source, Settle(s) PROVE OrderInv'
  BY <1>1, <1>3, SettleOrder
<1>4. Fuse \/ TakeUpdate => OrderInv'
  BY <1>1, FuseOrder, TakeUpdateOrder
<1>5. CASE Skip
  BY <1>1, <1>5, FilterOrder DEF Skip, mempool
<1>6. CASE Filter
  BY <1>1, <1>6, FilterOrder DEF Filter, mempool
<1>7. FilterThrows \/ PostFilterThrows => OrderInv'
  BY <1>1, OrderStart DEF FilterThrows, PostFilterThrows, Ends
<1>8. ASSUME NEW x \in Txn, SimulationAnswered(x) PROVE UNCHANGED way
  BY <1>8 DEF SimulationAnswered, mempool, preFilter
<1>9. ASSUME Simulate \/ TakeSimulation \/ HandOn \/ Idle \/ UNCHANGED pipelineVars PROVE UNCHANGED way
  BY <1>9 DEF Simulate, TakeSimulation, HandOn, Idle, pipelineVars, mempool, preFilter
<1> QED BY <1>2, <1>3, <1>4, <1>5, <1>6, <1>7, <1>8, <1>9 DEF PipelineNext

\* For any number of block engines and updates: what was handed on is somewhere,
\* and the transactions of one engine are received in order and once.
THEOREM InOrderAndOnce == PipelineSpec => []InOrderOnce
<1>1. OrderInv => InOrderOnce
  BY DEF OrderInv, InLine, Ordered, Precedes, Everything, InOrderOnce
<1> QED BY <1>1, OrderInit, OrderNext, PTL DEF PipelineSpec
=============================================================================
