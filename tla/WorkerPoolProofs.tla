-------------------------- MODULE WorkerPoolProofs --------------------------
(***************************************************************************)
(* Theorems about WorkerPool for any number of workers, calls and          *)
(* broadcasts: type correctness; every promise is resolved with the result *)
(* of its own task and every worker has one task in flight; no worker      *)
(* idles beside work; and the pool implements the task service.            *)
(***************************************************************************)
EXTENDS WorkerPool, FiniteSetTheorems, SequenceTheorems, WellFoundedInduction, TLAPS

(***************************************************************************)
(* Lemmas about the operators of processTask                               *)
(***************************************************************************)

\* Min of a set of naturals is one of them, the least.
LEMMA MinOfNaturals ==
  ASSUME NEW S, S \subseteq Nat, S # {}
  PROVE  Min(S) \in S /\ \A y \in S : Min(S) <= y
<1>1. PICK x \in S : \A y \in S : ~(<<y, x>> \in OpToRel(<, Nat))
  BY WFMin, NatLessThanWellFounded
<1>2. OpToRel(<, Nat) = {p \in Nat \X Nat : p[1] < p[2]}
  BY DEF OpToRel
<1>3. \A y \in S : x =< y
  <2>1. SUFFICES ASSUME NEW y \in S PROVE ~(y < x)
    OBVIOUS
  <2>2. <<y, x>> \notin {p \in Nat \X Nat : p[1] < p[2]}
    BY <1>1, <1>2
  <2>3. QED
    BY <2>2
<1>4. QED
  BY <1>3 DEF Min

\* Functions and short tuples as sequences.
LEMMA FunctionIsSeq ==
  ASSUME NEW S, NEW n \in Nat, NEW f \in [1 .. n -> S]
  PROVE  f \in Seq(S)
  BY SeqDef

LEMMA TupleIsSeq ==
  ASSUME NEW S, NEW a \in S, NEW b \in S
  PROVE  <<>> \in Seq(S) /\ <<a>> \in Seq(S) /\ <<a, b>> \in Seq(S)
  OBVIOUS

\* The first task of a shared queue that is not cancelled, and what stays
\* behind it, belong to the queue.
LEMMA FirstLive ==
  ASSUME NEW q \in Seq(Calls), Live(q) # {}
  PROVE  /\ Min(Live(q)) \in DOMAIN q
         /\ q[Min(Live(q))] \in Calls
         /\ After(q, Min(Live(q))) \in Seq(Calls)
<1>1. DOMAIN q = 1 .. Len(q) /\ Len(q) \in Nat
  BY LenProperties
<1>2. Live(q) \subseteq Nat
  BY <1>1 DEF Live
<1>3. Min(Live(q)) \in DOMAIN q
  BY <1>2, MinOfNaturals DEF Live
<1>4. \A i \in Min(Live(q)) + 1 .. Len(q) : q[i] \in Calls
  BY <1>1, <1>3, ElementOfSeq
<1>5. After(q, Min(Live(q))) \in Seq(Calls)
  <2> DEFINE m == Min(Live(q)) + 1
  <2>1. m \in Int /\ Len(q) \in Int
    BY <1>1, <1>3
  <2>2. \A i \in m .. Len(q) : q[i] \in Calls
    BY <1>4
  <2> HIDE DEF m
  <2>3. SubSeq(q, m, Len(q)) \in Seq(Calls)
    BY <2>1, <2>2, SubSeqProperties
  <2>4. QED
    BY <2>3 DEF After, m
<1>6. QED
  BY <1>1, <1>3, <1>5, ElementOfSeq

LEMMA CallType == \A w \in Workers, wake \in BOOLEAN : Call(w, wake) \in Entry
  BY DEF Call, Entry

LEMMA IdleWorkersFinite == IsFiniteSet(IdleWorkers) /\ Cardinality(IdleWorkers) \in Nat
<1>1. IsFiniteSet(0 .. Size - 1)
  BY SizeAssumption, FS_Interval
<1>2. IdleWorkers \in SUBSET (0 .. Size - 1)
  BY DEF IdleWorkers, Workers
<1>3. QED
  BY <1>1, <1>2, FS_Subset, FS_CardinalityType

\* The worker runTask calls processTask for is a worker.
LEMMA IdleWorkerCallType == IdleWorkerCall \in Seq(Entry)
<1>1. CASE IdleWorkers = {}
  BY <1>1, EmptySeq DEF IdleWorkerCall
<1>2. CASE IdleWorkers # {}
  <2>1. IdleWorkers \subseteq Nat
    BY SizeAssumption DEF IdleWorkers, Workers
  <2>2. Min(IdleWorkers) \in Workers
    BY <1>2, <2>1, MinOfNaturals DEF IdleWorkers
  <2>3. Call(Min(IdleWorkers), FALSE) \in Entry
    BY <2>2, CallType
  <2>4. <<Call(Min(IdleWorkers), FALSE)>> \in Seq(Entry)
    BY <2>3, TupleIsSeq
  <2>5. QED
    BY <1>2, <2>4 DEF IdleWorkerCall
<1>3. QED
  BY <1>1, <1>2

(***************************************************************************)
(* Type correctness                                                        *)
(***************************************************************************)
LEMMA InitType == Init => TypeOK
  BY DEF Init, TypeOK, Status

\* posting a task keeps the types of what run() assigns.
LEMMA RunType ==
  ASSUME TypeOK, NEW w \in Workers, NEW t \in Task, Run(w, t)
  PROVE  /\ ready' \in [Workers -> BOOLEAN]
         /\ listeners' \in [Workers -> Seq(Task)]
         /\ inbox' \in [Workers -> Seq(Task)]
  BY DEF TypeOK, Run

LEMMA ProcessTaskType ==
  ASSUME TypeOK, NEW w \in Workers, NEW coin \in BOOLEAN, ProcessTask(w, coin)
  PROVE  TypeOK'
<1> DEFINE own == OwnFirst(coin)
<1>1. agenda' \in Seq(Entry)
  BY HeadTailProperties DEF TypeOK, ProcessTask
<1>2. CASE TakeOwn(w, own)
  <2>1. /\ Head(perWorkerTaskQueue[w]) \in OwnTask
        /\ Tail(perWorkerTaskQueue[w]) \in Seq(OwnTask)
    BY <1>2, HeadTailProperties DEF TypeOK, TakeOwn
  <2>2. Head(perWorkerTaskQueue[w]) \in Task
    BY <2>1 DEF Task
  <2>3. QED
    BY <1>1, <1>2, <2>1, <2>2, RunType DEF TypeOK, TakeOwn, ProcessTask, promises
<1>3. CASE TakeHighPriority(w, own)
  <2> DEFINE i == Min(Live(highPriorityTaskQueue))
  <2>1. highPriorityTaskQueue[i] \in Calls /\ After(highPriorityTaskQueue, i) \in Seq(Calls)
    BY <1>3, FirstLive DEF TypeOK, TakeHighPriority
  <2>2. highPriorityTaskQueue[i] \in Task
    BY <2>1 DEF Task
  <2>3. Run(w, highPriorityTaskQueue[i]) /\ highPriorityTaskQueue' = After(highPriorityTaskQueue, i)
    BY <1>3 DEF TakeHighPriority
  <2> HIDE DEF i
  <2>4. QED
    BY <1>1, <1>3, <2>1, <2>2, <2>3, RunType
    DEF TypeOK, TakeHighPriority, ProcessTask, promises
<1>4. CASE TakeNormal(w, own)
  <2> DEFINE i == Min(Live(taskQueue))
  <2>1. taskQueue[i] \in Calls /\ After(taskQueue, i) \in Seq(Calls)
    BY <1>4, FirstLive DEF TypeOK, TakeNormal
  <2>2. taskQueue[i] \in Task
    BY <2>1 DEF Task
  <2>3. Run(w, taskQueue[i]) /\ taskQueue' = After(taskQueue, i)
    BY <1>4 DEF TakeNormal
  <2> HIDE DEF i
  <2>4. QED
    BY <1>1, <1>4, <2>1, <2>2, <2>3, RunType
    DEF TypeOK, TakeNormal, ProcessTask, promises
<1>5. CASE TakeNothing(w, Head(agenda).wake)
  <2>1. Head(agenda).wake \in BOOLEAN
    <3>1. Head(agenda) \in Entry
      BY HeadTailProperties DEF TypeOK, ProcessTask
    <3>2. QED
      BY <3>1 DEF Entry
  <2>2. ready' \in [Workers -> BOOLEAN]
    BY <1>5, <2>1 DEF TypeOK, TakeNothing
  <2>3. QED
    BY <1>1, <1>5, <2>2 DEF TypeOK, TakeNothing, ProcessTask, promises
<1>6. QED
  BY <1>2, <1>3, <1>4, <1>5 DEF ProcessTask

LEMMA NextType == TypeOK /\ [Next]_vars => TypeOK'
<1> SUFFICES ASSUME TypeOK, [Next]_vars PROVE TypeOK'
  OBVIOUS
<1>1. ASSUME NEW w \in Workers, Online(w) PROVE TypeOK'
  <2>1. Call(w, TRUE) \in Entry /\ Call(w, FALSE) \in Entry
    BY CallType
  <2>2. <<Call(w, TRUE), Call(w, FALSE)>> \in Seq(Entry)
    BY <2>1, TupleIsSeq
  <2>3. QED
    BY <1>1, <2>2 DEF TypeOK, Online, queues, threads, promises
<1>2. ASSUME NEW w \in Workers, OnMessage(w) PROVE TypeOK'
  <2>1. Head(replies[w]) \in Task /\ Tail(replies[w]) \in Seq(Task)
    BY <1>2, HeadTailProperties DEF TypeOK, OnMessage
  <2>2. agenda' \in Seq(Entry)
    <3>1. listeners[w] \in Seq(Task)
      BY DEF TypeOK
    <3>2. DOMAIN listeners[w] = 1 .. Len(listeners[w]) /\ Len(listeners[w]) \in Nat
      BY <3>1, LenProperties
    <3>3. Call(w, TRUE) \in Entry
      BY CallType
    <3>4. agenda' = [i \in 1 .. Len(listeners[w]) |-> Call(w, TRUE)]
      BY <1>2, <3>2 DEF OnMessage
    <3>5. agenda' \in [1 .. Len(listeners[w]) -> Entry]
      BY <3>3, <3>4
    <3>6. QED
      BY <3>2, <3>5, FunctionIsSeq
  <2>3. /\ status' \in [Task -> Status]
        /\ answer' \in [Task -> Task \cup {NoTask}]
    BY <1>2, <2>1 DEF TypeOK, OnMessage, Settle, Status
  <2>4. QED
    BY <1>2, <2>1, <2>2, <2>3 DEF TypeOK, OnMessage, queues
<1>3. ASSUME NEW w \in Workers, OnError(w) PROVE TypeOK'
  <2>1. /\ status' \in [Task -> Status]
        /\ answer' \in [Task -> Task \cup {NoTask}]
    BY <1>3 DEF TypeOK, OnError, Settle, Status
  <2>2. QED
    BY <1>3, <2>1 DEF TypeOK, OnError, queues
<1>4. ASSUME NEW w \in Workers, OnExit(w) PROVE TypeOK'
  BY <1>4 DEF TypeOK, OnExit, queues, threads, promises
<1>5. ASSUME NEW w \in Workers, Answer(w) PROVE TypeOK'
  <2>1. Head(inbox[w]) \in Task /\ Tail(inbox[w]) \in Seq(Task)
    BY <1>5, HeadTailProperties DEF TypeOK, Answer
  <2>2. QED
    BY <1>5, <2>1 DEF TypeOK, Answer, queues, promises
<1>6. ASSUME NEW w \in Workers, NEW coin \in BOOLEAN, ProcessTask(w, coin) PROVE TypeOK'
  BY <1>6, ProcessTaskType
<1>7. ASSUME NEW c \in Calls, NEW timed \in BOOLEAN, NEW prioritze \in BOOLEAN,
             RunTask(c, timed, prioritze)
      PROVE  TypeOK'
  <2>1. /\ status' \in [Task -> Status]
        /\ answer' \in [Task -> Task \cup {NoTask}]
        /\ cancelled' \in [Task -> BOOLEAN]
        /\ timer' \in [Task -> BOOLEAN]
    BY <1>7 DEF TypeOK, RunTask, Submit, Status
  <2>2. highPriorityTaskQueue' \in Seq(Calls) /\ taskQueue' \in Seq(Calls)
    <3>1. \/ /\ highPriorityTaskQueue' = Append(highPriorityTaskQueue, c)
             /\ taskQueue' = taskQueue
          \/ /\ highPriorityTaskQueue' = highPriorityTaskQueue
             /\ taskQueue' = Append(taskQueue, c)
      BY <1>7, Zenon DEF RunTask
    <3>2. highPriorityTaskQueue \in Seq(Calls) /\ taskQueue \in Seq(Calls)
      BY DEF TypeOK
    <3>3. /\ Append(highPriorityTaskQueue, c) \in Seq(Calls)
          /\ Append(taskQueue, c) \in Seq(Calls)
      BY <3>2
    <3>4. QED
      BY <3>1, <3>2, <3>3, Zenon
  <2>3. agenda' \in Seq(Entry)
    BY <1>7, IdleWorkerCallType DEF RunTask
  <2>4. QED
    BY <1>7, <2>1, <2>2, <2>3 DEF TypeOK, RunTask, threads
<1>8. ASSUME NEW b \in Broadcasts, RunTaskOnAllWorkers(b) PROVE TypeOK'
  <2>1. /\ status' \in [Task -> Status]
        /\ answer' \in [Task -> Task \cup {NoTask}]
        /\ cancelled' \in [Task -> BOOLEAN]
        /\ timer' \in [Task -> BOOLEAN]
    BY <1>8 DEF TypeOK, RunTaskOnAllWorkers, Submit, Status
  <2>2. perWorkerTaskQueue' \in [Workers -> Seq(OwnTask)]
    BY <1>8, AppendProperties DEF TypeOK, RunTaskOnAllWorkers, OwnTask
  <2>3. agenda' \in Seq(Entry)
    <3>1. PICK order \in [1 .. Cardinality(IdleWorkers) -> IdleWorkers] :
            agenda' = [i \in DOMAIN order |-> Call(order[i], FALSE)]
      BY <1>8 DEF RunTaskOnAllWorkers
    <3>2. \A i \in DOMAIN order : Call(order[i], FALSE) \in Entry
      BY CallType DEF IdleWorkers
    <3>3. agenda' \in [1 .. Cardinality(IdleWorkers) -> Entry]
      BY <3>1, <3>2
    <3>4. QED
      BY <3>3, IdleWorkersFinite, FunctionIsSeq
  <2>4. QED
    BY <1>8, <2>1, <2>2, <2>3 DEF TypeOK, RunTaskOnAllWorkers, threads
<1>9. ASSUME NEW t \in Task, OnTimeout(t) PROVE TypeOK'
  <2>1. /\ status' \in [Task -> Status]
        /\ answer' \in [Task -> Task \cup {NoTask}]
    BY <1>9 DEF TypeOK, OnTimeout, Settle, Status
  <2>2. QED
    BY <1>9, <2>1 DEF TypeOK, OnTimeout, queues, threads
<1>10. CASE UNCHANGED vars
  BY <1>10 DEF TypeOK, vars, queues, threads, promises
<1>11. QED
  BY <1>1, <1>2, <1>3, <1>4, <1>5, <1>6, <1>7, <1>8, <1>9, <1>10 DEF Next, Stopped

\* The state of the pool has the types it is declared with.
THEOREM TypeCorrect == Spec => []TypeOK
  BY InitType, NextType, PTL DEF Spec

(***************************************************************************)
(* The dispatch invariant                                                  *)
(***************************************************************************)
LEMMA InitDispatch == Init => DispatchInv
<1> SUFFICES ASSUME Init PROVE DispatchInv
  OBVIOUS
<1>1. \A w \in Workers : Vacant(w) /\ listeners[w] = <<>>
  BY DEF Init, Vacant
<1>2. NothingQueued
  BY DEF Init, NothingQueued
<1>3. DOMAIN agenda = {}
  BY DEF Init
<1>4. ResultOfOwnTask
  BY DEF Init, ResultOfOwnTask
<1>5. QED
  BY <1>1, <1>2, <1>3, <1>4
  DEF DispatchInv, OneInFlight, QuietBeforeInitialized, AgendaIsSafe

\* Giving a task to a vacant worker makes it busy with that task.
LEMMA RunMakesBusy ==
  ASSUME TypeOK, OneInFlight, NEW w \in Workers, NEW t \in Task,
         listeners[w] = <<>>, Run(w, t), replies' = replies
  PROVE  /\ OneInFlight'
         /\ \A v \in Workers \ {w} : listeners'[v] = listeners[v]
<1>1. Vacant(w)
  BY DEF OneInFlight, Busy
<1>2. /\ ready'[w] = FALSE
      /\ listeners'[w] = <<t>>
      /\ inbox'[w] = <<t>>
      /\ replies'[w] = <<>>
  BY <1>1 DEF Run, TypeOK, Vacant
<1>3. \A v \in Workers \ {w} :
        /\ ready'[v] = ready[v]
        /\ listeners'[v] = listeners[v]
        /\ inbox'[v] = inbox[v]
        /\ replies'[v] = replies[v]
  BY DEF Run, TypeOK
<1>4. Busy(w, t)'
  BY <1>2 DEF Busy
<1>5. ASSUME NEW v \in Workers \ {w}
      PROVE  Vacant(v)' \/ \E u \in Task : Busy(v, u)'
  <2>1. CASE Vacant(v)
    BY <2>1, <1>3 DEF Vacant
  <2>2. ASSUME NEW u \in Task, Busy(v, u) PROVE Busy(v, u)'
    BY <2>2, <1>3 DEF Busy
  <2>3. QED
    BY <2>1, <2>2 DEF OneInFlight
<1>6. QED
  BY <1>3, <1>4, <1>5 DEF OneInFlight

LEMMA ProcessTaskDispatch ==
  ASSUME TypeOK, DispatchInv, NEW w \in Workers, NEW coin \in BOOLEAN, ProcessTask(w, coin)
  PROVE  DispatchInv'
<1> DEFINE own == OwnFirst(coin)
<1>1. /\ agenda \in Seq(Entry) /\ agenda # <<>>
      /\ agenda' = Tail(agenda)
      /\ Head(agenda).worker = w
  BY DEF ProcessTask, TypeOK
<1>2. /\ Len(agenda) \in Nat \ {0}
      /\ DOMAIN agenda = 1 .. Len(agenda)
      /\ DOMAIN agenda' = 1 .. Len(agenda) - 1
      /\ \A i \in DOMAIN agenda' : agenda'[i] = agenda[i + 1] /\ i + 1 \in DOMAIN agenda
      /\ agenda[1].worker = w
  <2>1. Len(agenda) \in Nat \ {0} /\ DOMAIN agenda = 1 .. Len(agenda)
    BY <1>1, EmptySeq, LenProperties
  <2>2. /\ Tail(agenda) \in Seq(Entry)
        /\ Len(Tail(agenda)) = Len(agenda) - 1
        /\ \A i \in 1 .. Len(Tail(agenda)) : Tail(agenda)[i] = agenda[i + 1]
    BY <1>1, HeadTailProperties
  <2>3. DOMAIN Tail(agenda) = 1 .. Len(agenda) - 1
    BY <2>2, LenProperties
  <2>4. agenda[1].worker = w
    BY <1>1, <2>1
  <2>5. QED
    BY <1>1, <2>1, <2>2, <2>3, <2>4
<1>3. listeners[w] = <<>>
  BY <1>2 DEF DispatchInv, AgendaIsSafe
<1>4. ResultOfOwnTask'
  BY DEF DispatchInv, ResultOfOwnTask, ProcessTask, promises
<1>5. ASSUME NEW t \in Task, Run(w, t), ~NothingQueued
      PROVE  DispatchInv'
  <2>1. replies' = replies /\ online' = online
    BY DEF ProcessTask
  <2>2. /\ OneInFlight'
        /\ \A v \in Workers \ {w} : listeners'[v] = listeners[v]
    BY <1>3, <1>5, <2>1, RunMakesBusy DEF DispatchInv
  <2>3. Initialized'
    BY <1>5, <2>1 DEF DispatchInv, QuietBeforeInitialized, Initialized
  <2>4. \A i \in DOMAIN agenda' : agenda'[i].worker # w
    BY <1>2, <1>5 DEF DispatchInv, AgendaIsSafe
  <2>5. \A i \in DOMAIN agenda' : agenda'[i].worker \in Workers
    <3>1. \A i \in DOMAIN agenda : agenda[i] \in Entry
      BY <1>1, <1>2, ElementOfSeq
    <3>2. QED
      BY <1>2, <3>1 DEF Entry
  <2>6. \A i \in DOMAIN agenda' : listeners'[agenda'[i].worker] = <<>>
    BY <1>2, <2>2, <2>4, <2>5 DEF DispatchInv, AgendaIsSafe
  <2>7. \A i, j \in DOMAIN agenda' : i # j => agenda'[i].worker # agenda'[j].worker
    BY <1>2, <1>5 DEF DispatchInv, AgendaIsSafe
  <2>8. QED
    BY <1>4, <2>2, <2>3, <2>6, <2>7
    DEF DispatchInv, QuietBeforeInitialized, AgendaIsSafe
<1>6. CASE TakeOwn(w, own)
  <2>1. Head(perWorkerTaskQueue[w]) \in Task
    <3>1. Head(perWorkerTaskQueue[w]) \in OwnTask
      BY <1>6, HeadTailProperties DEF TypeOK, TakeOwn
    <3>2. QED
      BY <3>1 DEF Task
  <2>2. QED
    BY <1>5, <1>6, <2>1 DEF TakeOwn, NothingQueued
<1>7. CASE TakeHighPriority(w, own)
  <2>1. highPriorityTaskQueue[Min(Live(highPriorityTaskQueue))] \in Task
    BY <1>7, FirstLive DEF TypeOK, TakeHighPriority, Task
  <2>2. highPriorityTaskQueue # <<>>
    BY <1>7 DEF TakeHighPriority, Live
  <2>3. QED
    BY <1>5, <1>7, <2>1, <2>2 DEF TakeHighPriority, NothingQueued
<1>8. CASE TakeNormal(w, own)
  <2>1. taskQueue[Min(Live(taskQueue))] \in Task
    BY <1>8, FirstLive DEF TypeOK, TakeNormal, Task
  <2>2. taskQueue # <<>>
    BY <1>8 DEF TakeNormal, Live
  <2>3. QED
    BY <1>5, <1>8, <2>1, <2>2 DEF TakeNormal, NothingQueued
<1>9. CASE TakeNothing(w, Head(agenda).wake)
  <2>1. /\ inbox' = inbox /\ replies' = replies /\ listeners' = listeners
        /\ online' = online /\ perWorkerTaskQueue' = perWorkerTaskQueue
        /\ highPriorityTaskQueue' = <<>> /\ taskQueue' = <<>>
    BY <1>9 DEF TakeNothing, ProcessTask
  <2>2. \A v \in Workers \ {w} : ready'[v] = ready[v]
    BY <1>9 DEF TakeNothing, TypeOK
  <2>3. OneInFlight'
    BY <1>3, <2>1, <2>2 DEF DispatchInv, OneInFlight, Vacant, Busy
  <2>4. NothingQueued => NothingQueued'
    BY <2>1 DEF NothingQueued
  <2>5. QuietBeforeInitialized'
    BY <2>1, <2>4 DEF DispatchInv, QuietBeforeInitialized, Initialized
  <2>6. AgendaIsSafe'
    BY <1>2, <2>1, <2>4 DEF DispatchInv, AgendaIsSafe
  <2>7. QED
    BY <1>4, <2>3, <2>5, <2>6 DEF DispatchInv
<1>10. QED
  BY <1>6, <1>7, <1>8, <1>9 DEF ProcessTask

\* Handlers that run between agendas, and the worker threads.
LEMMA NextDispatch == TypeOK /\ DispatchInv /\ [Next]_vars => DispatchInv'
<1> SUFFICES ASSUME TypeOK, DispatchInv, [Next]_vars PROVE DispatchInv'
  OBVIOUS
<1> USE DEF DispatchInv
<1>1. ASSUME NEW w \in Workers, Online(w) PROVE DispatchInv'
  <2>1. NothingQueued /\ \A v \in Workers : listeners[v] = <<>>
    BY <1>1 DEF Online, QuietBeforeInitialized, Initialized
  <2>2. NothingQueued' /\ listeners' = listeners
    BY <1>1, <2>1 DEF Online, NothingQueued, queues, threads
  <2>3. OneInFlight'
    BY <1>1 DEF Online, OneInFlight, Vacant, Busy, threads
  <2>4. \A i \in DOMAIN agenda' : agenda'[i].worker = w
    BY <1>1 DEF Online, Call
  <2>5. ResultOfOwnTask'
    BY <1>1 DEF Online, ResultOfOwnTask, promises
  <2>6. QED
    BY <2>1, <2>2, <2>3, <2>4, <2>5 DEF QuietBeforeInitialized, AgendaIsSafe
<1>2. ASSUME NEW w \in Workers, OnMessage(w) PROVE DispatchInv'
  <2>1. PICK t \in Task : Busy(w, t)
    BY <1>2 DEF OnMessage, OneInFlight, Vacant
  <2>2. /\ listeners[w] = <<t>>
        /\ replies[w] = <<t>>
        /\ inbox[w] = <<>>
    BY <1>2, <2>1 DEF OnMessage, Busy
  <2>3. Range(listeners[w]) = {t} /\ Head(replies[w]) = t
    BY <2>2 DEF Range
  <2>4. ResultOfOwnTask'
    BY <1>2, <2>3 DEF OnMessage, Settle, ResultOfOwnTask, TypeOK
  <2>5. /\ listeners'[w] = <<>> /\ replies'[w] = <<>> /\ inbox'[w] = <<>>
        /\ \A v \in Workers \ {w} : /\ listeners'[v] = listeners[v]
                                     /\ replies'[v] = replies[v]
                                     /\ inbox'[v] = inbox[v]
        /\ ready' = ready
    BY <1>2, <2>2 DEF OnMessage, TypeOK
  <2>6. OneInFlight'
    BY <2>5 DEF OneInFlight, Vacant, Busy
  <2>7. Initialized'
    BY <1>2, <2>2 DEF OnMessage, QuietBeforeInitialized, Initialized
  <2>8. /\ DOMAIN agenda' = {1}
        /\ agenda'[1].worker = w
    BY <1>2, <2>2 DEF OnMessage, Call
  <2>9. QED
    BY <2>4, <2>5, <2>6, <2>7, <2>8 DEF QuietBeforeInitialized, AgendaIsSafe
<1>3. ASSUME NEW w \in Workers, OnError(w) PROVE DispatchInv'
  <2>1. /\ listeners'[w] = <<>> /\ replies'[w] = <<>> /\ inbox'[w] = <<>>
        /\ \A v \in Workers \ {w} : /\ listeners'[v] = listeners[v]
                                     /\ replies'[v] = replies[v]
                                     /\ inbox'[v] = inbox[v]
        /\ ready' = ready /\ agenda' = <<>> /\ online' = online
    BY <1>3 DEF OnError, TypeOK, EventLoop
  <2>2. OneInFlight'
    BY <2>1 DEF OneInFlight, Vacant, Busy
  <2>3. ResultOfOwnTask'
    BY <1>3 DEF OnError, Settle, ResultOfOwnTask, TypeOK
  <2>4. NothingQueued => NothingQueued'
    BY <1>3 DEF OnError, NothingQueued, queues
  <2>5. QuietBeforeInitialized'
    BY <2>1, <2>4 DEF QuietBeforeInitialized, Initialized
  <2>6. QED
    BY <2>1, <2>2, <2>3, <2>5 DEF AgendaIsSafe
<1>4. ASSUME NEW w \in Workers, Answer(w) PROVE DispatchInv'
  <2>1. PICK t \in Task : Busy(w, t)
    BY <1>4 DEF Answer, OneInFlight, Vacant
  <2>2. inbox[w] = <<t>> /\ replies[w] = <<>>
    BY <1>4, <2>1 DEF Answer, Busy
  <2>3. /\ inbox'[w] = <<>> /\ replies'[w] = <<t>>
        /\ \A v \in Workers \ {w} : replies'[v] = replies[v] /\ inbox'[v] = inbox[v]
        /\ ready' = ready /\ listeners' = listeners
    BY <1>4, <2>2 DEF Answer, TypeOK
  <2>4. OneInFlight'
    BY <2>1, <2>3 DEF OneInFlight, Vacant, Busy
  <2>5. NothingQueued' = NothingQueued
    BY <1>4 DEF Answer, NothingQueued, queues
  <2>6. QED
    BY <1>4, <2>3, <2>4, <2>5
    DEF Answer, QuietBeforeInitialized, Initialized, AgendaIsSafe, ResultOfOwnTask, promises
<1>5. ASSUME NEW w \in Workers, NEW coin \in BOOLEAN, ProcessTask(w, coin) PROVE DispatchInv'
  BY <1>5, ProcessTaskDispatch
<1>6. ASSUME NEW c \in Calls, NEW timed \in BOOLEAN, NEW prioritze \in BOOLEAN,
             RunTask(c, timed, prioritze)
      PROVE  DispatchInv'
  <2>1. ResultOfOwnTask'
    BY <1>6 DEF RunTask, Submit, ResultOfOwnTask, TypeOK
  <2>2. OneInFlight' /\ Initialized' /\ listeners' = listeners
    BY <1>6 DEF RunTask, Initialized, OneInFlight, Vacant, Busy, threads
  <2>3. CASE IdleWorkers = {}
    <3>1. DOMAIN agenda' = {}
      BY <1>6, <2>3 DEF RunTask, IdleWorkerCall
    <3>2. QED
      BY <2>1, <2>2, <3>1 DEF QuietBeforeInitialized, AgendaIsSafe
  <2>4. CASE IdleWorkers # {}
    <3>1. Min(IdleWorkers) \in IdleWorkers
      BY <2>4, SizeAssumption, MinOfNaturals DEF IdleWorkers, Workers
    <3>2. listeners[Min(IdleWorkers)] = <<>>
      BY <3>1 DEF IdleWorkers, OneInFlight, Vacant, Busy
    <3>3. /\ DOMAIN agenda' = {1}
          /\ agenda'[1].worker = Min(IdleWorkers)
      BY <1>6, <2>4 DEF RunTask, IdleWorkerCall, Call
    <3>4. QED
      BY <2>1, <2>2, <3>2, <3>3 DEF QuietBeforeInitialized, AgendaIsSafe
  <2>5. QED
    BY <2>3, <2>4
<1>7. ASSUME NEW b \in Broadcasts, RunTaskOnAllWorkers(b) PROVE DispatchInv'
  <2>1. ResultOfOwnTask'
    BY <1>7 DEF RunTaskOnAllWorkers, Submit, ResultOfOwnTask, TypeOK
  <2>2. OneInFlight' /\ Initialized' /\ listeners' = listeners
    BY <1>7 DEF RunTaskOnAllWorkers, Initialized, OneInFlight, Vacant, Busy, threads
  <2>3. PICK order \in [1 .. Cardinality(IdleWorkers) -> IdleWorkers] :
          /\ \A i, j \in DOMAIN order : i < j => order[i] < order[j]
          /\ agenda' = [i \in DOMAIN order |-> Call(order[i], FALSE)]
    BY <1>7 DEF RunTaskOnAllWorkers
  <2>4. DOMAIN agenda' = DOMAIN order /\ \A i \in DOMAIN order : agenda'[i].worker = order[i]
    BY <2>3 DEF Call
  <2>5. \A i \in DOMAIN order : listeners[order[i]] = <<>>
    BY DEF IdleWorkers, OneInFlight, Vacant, Busy
  <2>6. \A i, j \in DOMAIN order : i # j => order[i] # order[j]
    <3>1. \A i \in DOMAIN order : i \in Int /\ order[i] \in Int
      BY IdleWorkersFinite, SizeAssumption DEF IdleWorkers, Workers
    <3>2. QED
      BY <2>3, <3>1
  <2>7. QED
    BY <2>1, <2>2, <2>4, <2>5, <2>6 DEF QuietBeforeInitialized, AgendaIsSafe
<1>8. ASSUME NEW t \in Task, OnTimeout(t) PROVE DispatchInv'
  <2>1. ResultOfOwnTask'
    BY <1>8 DEF OnTimeout, Settle, ResultOfOwnTask, TypeOK
  <2>2. OneInFlight' /\ NothingQueued' = NothingQueued
    BY <1>8 DEF OnTimeout, OneInFlight, Vacant, Busy, NothingQueued, queues, threads
  <2>3. QED
    BY <1>8, <2>1, <2>2
    DEF OnTimeout, QuietBeforeInitialized, Initialized, AgendaIsSafe, queues, threads
<1>9. ASSUME NEW w \in Workers, OnExit(w) PROVE DispatchInv'
  <2>1. UNCHANGED <<online, ready, queues, threads, agenda, promises>>
    BY <1>9 DEF OnExit
  <2>2. QED
    BY <2>1 DEF OneInFlight, Vacant, Busy, NothingQueued, QuietBeforeInitialized,
      Initialized, AgendaIsSafe, ResultOfOwnTask, queues, threads, promises
<1>10. CASE UNCHANGED vars
  <2>1. UNCHANGED <<online, ready, queues, threads, agenda, promises>>
    BY <1>10 DEF vars
  <2>2. QED
    BY <2>1 DEF OneInFlight, Vacant, Busy, NothingQueued, QuietBeforeInitialized,
      Initialized, AgendaIsSafe, ResultOfOwnTask, queues, threads, promises
<1>11. QED
  BY <1>1, <1>2, <1>3, <1>4, <1>5, <1>6, <1>7, <1>8, <1>9, <1>10 DEF Next, Stopped

\* The dispatch invariant holds in every reachable state.
THEOREM DispatchSafe == Spec => []DispatchInv
<1>1. TypeOK /\ DispatchInv /\ [Next]_vars => TypeOK' /\ DispatchInv'
  BY NextType, NextDispatch
<1>2. QED
  BY InitType, InitDispatch, <1>1, PTL DEF Spec

\* No promise is ever resolved with the result of another task.
THEOREM ResultsGoToTheirTask == Spec => []ResultOfOwnTask
<1>1. DispatchInv => ResultOfOwnTask
  BY DEF DispatchInv
<1>2. QED
  BY <1>1, DispatchSafe, PTL

\* Every worker has at most one task in flight, and none while it is ready.
THEOREM WorkersRunOneTask == Spec => []OneTaskPerWorker
<1>1. TypeOK /\ DispatchInv => OneTaskPerWorker
  <2> SUFFICES ASSUME TypeOK, DispatchInv, NEW w \in Workers
               PROVE  /\ Len(listeners[w]) <= 1
                      /\ replies[w] \o inbox[w] = listeners[w]
                      /\ ready[w] => listeners[w] = <<>>
    BY DEF OneTaskPerWorker
  <2>1. CASE Vacant(w)
    <3>1. <<>> \in Seq(Task) /\ Len(<<>>) = 0 /\ <<>> \o <<>> = <<>>
      BY EmptySeq, ConcatEmptySeq
    <3>2. QED
      BY <2>1, <3>1 DEF Vacant
  <2>2. ASSUME NEW t \in Task, Busy(w, t)
        PROVE  /\ Len(listeners[w]) <= 1
               /\ replies[w] \o inbox[w] = listeners[w]
               /\ ready[w] => listeners[w] = <<>>
    <3>1. <<t>> \in Seq(Task) /\ Len(<<t>>) = 1
      OBVIOUS
    <3>2. <<>> \o <<t>> = <<t>> /\ <<t>> \o <<>> = <<t>>
      BY <3>1, ConcatEmptySeq
    <3>3. replies[w] \o inbox[w] = <<t>>
      <4>1. CASE inbox[w] = <<t>> /\ replies[w] = <<>>
        BY <4>1, <3>2
      <4>2. CASE inbox[w] = <<>> /\ replies[w] = <<t>>
        BY <4>2, <3>2
      <4>3. QED
        BY <2>2, <4>1, <4>2 DEF Busy
    <3>4. listeners[w] = <<t>> /\ ~ready[w]
      BY <2>2 DEF Busy
    <3>5. Len(listeners[w]) <= 1
      BY <3>1, <3>4
    <3>6. QED
      BY <3>3, <3>4, <3>5
  <2>3. QED
    BY <2>1, <2>2 DEF DispatchInv, OneInFlight
<1>2. QED
  BY <1>1, TypeCorrect, DispatchSafe, PTL

(***************************************************************************)
(* No worker idles beside work                                             *)
(***************************************************************************)

\* What stays of a shared queue behind its i-th task.
LEMMA AfterProperties ==
  ASSUME NEW q \in Seq(Calls), NEW i \in DOMAIN q
  PROVE  /\ After(q, i) \in Seq(Calls)
         /\ Len(After(q, i)) = Len(q) - i
         /\ \A k \in DOMAIN After(q, i) : k + i \in DOMAIN q /\ After(q, i)[k] = q[k + i]
<1>1. DOMAIN q = 1 .. Len(q) /\ Len(q) \in Nat /\ i \in 1 .. Len(q)
  BY LenProperties
<1>2. \A k \in i + 1 .. Len(q) : q[k] \in Calls
  BY <1>1, ElementOfSeq
<1> DEFINE m == i + 1
<1>3. m \in 1 .. Len(q) + 1 /\ \A k \in m .. Len(q) : q[k] \in Calls
  BY <1>1, <1>2
<1> HIDE DEF m
<1>4. /\ SubSeq(q, m, Len(q)) \in Seq(Calls)
      /\ Len(SubSeq(q, m, Len(q))) = IF m <= Len(q) THEN Len(q) - m + 1 ELSE 0
      /\ \A k \in 1 .. Len(q) - m + 1 : SubSeq(q, m, Len(q))[k] = q[m + k - 1]
  BY <1>1, <1>3, SubSeqProperties
<1>5. Len(SubSeq(q, m, Len(q))) = Len(q) - i
  BY <1>1, <1>4 DEF m
<1>6. DOMAIN SubSeq(q, m, Len(q)) = 1 .. Len(q) - i
  BY <1>4, <1>5, LenProperties
<1>7. \A k \in 1 .. Len(q) - i : k + i \in 1 .. Len(q) /\ SubSeq(q, m, Len(q))[k] = q[k + i]
  BY <1>1, <1>4 DEF m
<1> QED BY <1>1, <1>4, <1>5, <1>6, <1>7 DEF After, m

\* Behind the only live task of a queue, its last, nothing stays.
LEMMA NothingAfterTheLast ==
  ASSUME NEW q \in Seq(Calls), Live(q) # {}, OnlyTheLast(q)
  PROVE  After(q, Min(Live(q))) = <<>>
<1>1. Min(Live(q)) \in DOMAIN q
  BY FirstLive
<1>2. Live(q) = {Len(q)}
  BY DEF OnlyTheLast
<1>3. Live(q) \subseteq Nat /\ Len(q) \in Nat
  BY LenProperties DEF Live
<1>4. Min(Live(q)) = Len(q)
  BY <1>2, <1>3, MinOfNaturals
<1>5. Len(After(q, Len(q))) = 0 /\ After(q, Len(q)) \in Seq(Calls)
  BY <1>1, <1>3, <1>4, AfterProperties
<1> QED BY <1>4, <1>5, EmptySeq

LEMMA InitWork == Init => WorkInv
  BY DEF Init, WorkInv, OwnWorkIsCalled, SharedWorkIsCalled, IdleWorkers

\* The calls that are left when the first one is made.
LEMMA AgendaTail ==
  ASSUME TypeOK, agenda # <<>>, agenda' = Tail(agenda), NEW v \in Workers,
         v # Head(agenda).worker, \E i \in DOMAIN agenda : agenda[i].worker = v
  PROVE  \E i \in DOMAIN agenda' : agenda'[i].worker = v
<1>1. agenda \in Seq(Entry) /\ Len(agenda) \in Nat /\ DOMAIN agenda = 1 .. Len(agenda)
  BY LenProperties DEF TypeOK
<1>2. /\ Tail(agenda) \in Seq(Entry)
      /\ Len(Tail(agenda)) = Len(agenda) - 1
      /\ \A i \in 1 .. Len(Tail(agenda)) : Tail(agenda)[i] = agenda[i + 1]
  BY <1>1, HeadTailProperties
<1>3. DOMAIN agenda' = 1 .. Len(agenda) - 1
  BY <1>1, <1>2, LenProperties
<1>4. PICK i \in DOMAIN agenda : agenda[i].worker = v
  OBVIOUS
<1>5. Head(agenda) = agenda[1]
  BY <1>1
<1>6. i # 1
  BY <1>4, <1>5
<1>7. i - 1 \in 1 .. Len(agenda) - 1 /\ agenda'[i - 1] = agenda[i]
  BY <1>1, <1>2, <1>6
<1> QED BY <1>3, <1>4, <1>7

LEMMA ProcessTaskWork ==
  ASSUME TypeOK, WorkInv, NEW w \in Workers, NEW coin \in BOOLEAN, ProcessTask(w, coin)
  PROVE  WorkInv'
<1> DEFINE own == OwnFirst(coin)
<1>1. /\ agenda # <<>> /\ agenda' = Tail(agenda) /\ Head(agenda).worker = w
      /\ cancelled' = cancelled
  BY DEF ProcessTask, promises
\* A worker that is still idle, or has become so, found nothing.
<1>2. ASSUME NEW t \in Task, Run(w, t),
             perWorkerTaskQueue' = perWorkerTaskQueue
               \/ perWorkerTaskQueue' = [perWorkerTaskQueue EXCEPT ![w] = Tail(@)]
      PROVE  /\ OwnWorkIsCalled'
             /\ IdleWorkers' \subseteq IdleWorkers \ {w}
  <2>1. IdleWorkers' \subseteq IdleWorkers \ {w}
    BY <1>2 DEF Run, IdleWorkers, TypeOK
  <2>2. ASSUME NEW v \in IdleWorkers', perWorkerTaskQueue'[v] # <<>>
        PROVE  \E i \in DOMAIN agenda' : agenda'[i].worker = v
    <3>1. v \in IdleWorkers /\ v # w /\ v \in Workers
      BY <2>1, <2>2 DEF IdleWorkers
    <3>2. perWorkerTaskQueue'[v] = perWorkerTaskQueue[v]
      BY <1>2, <3>1 DEF TypeOK
    <3>3. \E i \in DOMAIN agenda : agenda[i].worker = v
      BY <2>2, <3>1, <3>2 DEF WorkInv, OwnWorkIsCalled
    <3> QED BY <1>1, <3>1, <3>3, AgendaTail
  <2> QED BY <2>1, <2>2 DEF OwnWorkIsCalled
<1>3. CASE TakeOwn(w, own)
  <2>1. Head(perWorkerTaskQueue[w]) \in Task
    BY <1>3, HeadTailProperties DEF TypeOK, TakeOwn, Task
  <2>2. OwnWorkIsCalled' /\ IdleWorkers' \subseteq IdleWorkers \ {w}
    BY <1>2, <1>3, <2>1 DEF TakeOwn
  <2>3. ASSUME SharedLive', IdleWorkers' # {} PROVE FALSE
    <3>1. own /\ SharedLive
      BY <1>1, <1>3, <2>3 DEF TakeOwn, SharedLive, Live
    <3>2. PICK v \in IdleWorkers : agenda = <<Call(v, FALSE)>> /\ perWorkerTaskQueue[v] = <<>>
      BY <2>2, <2>3, <3>1 DEF WorkInv, SharedWorkIsCalled
    <3>3. v = w
      BY <1>1, <3>2 DEF Call
    <3> QED BY <1>3, <3>2, <3>3 DEF TakeOwn
  <2> QED BY <2>2, <2>3 DEF WorkInv, SharedWorkIsCalled
<1>4. CASE TakeHighPriority(w, own)
  <2>1. /\ Live(highPriorityTaskQueue) # {}
        /\ highPriorityTaskQueue' = After(highPriorityTaskQueue, Min(Live(highPriorityTaskQueue)))
        /\ taskQueue' = taskQueue
    BY <1>4 DEF TakeHighPriority
  <2>2. highPriorityTaskQueue[Min(Live(highPriorityTaskQueue))] \in Task
    BY <2>1, FirstLive DEF TypeOK, Task
  <2>3. OwnWorkIsCalled' /\ IdleWorkers' \subseteq IdleWorkers \ {w}
    BY <1>2, <1>4, <2>2 DEF TakeHighPriority
  <2>4. ASSUME SharedLive', IdleWorkers' # {} PROVE FALSE
    <3>1. OneSharedTask
      BY <2>1, <2>3, <2>4 DEF WorkInv, SharedWorkIsCalled, SharedLive
    <3>2. OnlyTheLast(highPriorityTaskQueue) /\ Live(taskQueue) = {}
      BY <2>1, <3>1 DEF OneSharedTask
    <3>3. highPriorityTaskQueue' = <<>>
      BY <2>1, <3>2, NothingAfterTheLast DEF TypeOK
    <3>4. Live(highPriorityTaskQueue)' = {}
      BY <3>3 DEF Live
    <3>5. Live(taskQueue)' = {}
      BY <1>1, <2>1, <3>2 DEF Live
    <3> QED BY <2>4, <3>4, <3>5 DEF SharedLive
  <2> QED BY <2>3, <2>4 DEF WorkInv, SharedWorkIsCalled
<1>5. CASE TakeNormal(w, own)
  <2>1. /\ Live(taskQueue) # {}
        /\ taskQueue' = After(taskQueue, Min(Live(taskQueue)))
        /\ highPriorityTaskQueue' = <<>>
    BY <1>5 DEF TakeNormal
  <2>2. taskQueue[Min(Live(taskQueue))] \in Task
    BY <2>1, FirstLive DEF TypeOK, Task
  <2>3. OwnWorkIsCalled' /\ IdleWorkers' \subseteq IdleWorkers \ {w}
    BY <1>2, <1>5, <2>2 DEF TakeNormal
  <2>4. ASSUME SharedLive', IdleWorkers' # {} PROVE FALSE
    <3>1. OneSharedTask
      BY <2>1, <2>3, <2>4 DEF WorkInv, SharedWorkIsCalled, SharedLive
    <3>2. OnlyTheLast(taskQueue)
      BY <2>1, <3>1 DEF OneSharedTask
    <3>3. taskQueue' = <<>>
      BY <2>1, <3>2, NothingAfterTheLast DEF TypeOK
    <3>4. Live(highPriorityTaskQueue)' = {}
      BY <2>1 DEF Live
    <3>5. Live(taskQueue)' = {}
      BY <3>3 DEF Live
    <3> QED BY <2>4, <3>4, <3>5 DEF SharedLive
  <2> QED BY <2>3, <2>4 DEF WorkInv, SharedWorkIsCalled
<1>6. CASE TakeNothing(w, Head(agenda).wake)
  <2>1. /\ perWorkerTaskQueue[w] = <<>> /\ perWorkerTaskQueue' = perWorkerTaskQueue
        /\ highPriorityTaskQueue' = <<>> /\ taskQueue' = <<>>
    BY <1>6 DEF TakeNothing
  <2>2. ~SharedLive'
    BY <2>1 DEF SharedLive, Live
  <2>3. ASSUME NEW v \in IdleWorkers', perWorkerTaskQueue'[v] # <<>>
        PROVE  \E i \in DOMAIN agenda' : agenda'[i].worker = v
    <3>1. v \in Workers /\ v # w
      BY <2>1, <2>3 DEF IdleWorkers
    <3>2. v \in IdleWorkers
      BY <1>6, <2>3, <3>1 DEF IdleWorkers, TakeNothing, TypeOK
    <3>3. \E i \in DOMAIN agenda : agenda[i].worker = v
      BY <2>1, <2>3, <3>2 DEF WorkInv, OwnWorkIsCalled
    <3> QED BY <1>1, <3>1, <3>3, AgendaTail
  <2> QED BY <2>2, <2>3 DEF WorkInv, OwnWorkIsCalled, SharedWorkIsCalled
<1> QED BY <1>3, <1>4, <1>5, <1>6 DEF ProcessTask

\* A step that wakes nobody, adds nothing to the queues and starts no handler
\* with an idle worker left out.
LEMMA NoNewWork ==
  ASSUME TypeOK, WorkInv, agenda = <<>>, UNCHANGED <<ready, queues>>,
         \A t \in Task : cancelled[t] => cancelled'[t]
  PROVE  WorkInv'
<1>1. IdleWorkers' = IdleWorkers /\ perWorkerTaskQueue' = perWorkerTaskQueue
  BY DEF IdleWorkers, queues
<1>2. \A v \in IdleWorkers : perWorkerTaskQueue[v] = <<>>
  BY DEF WorkInv, OwnWorkIsCalled
<1>3. SharedLive' => SharedLive
  <2>1. highPriorityTaskQueue' = highPriorityTaskQueue /\ taskQueue' = taskQueue
    BY DEF queues
  <2>2. Live(highPriorityTaskQueue)' \subseteq Live(highPriorityTaskQueue)
    BY <2>1, ElementOfSeq, LenProperties DEF Live, Task, TypeOK
  <2>3. Live(taskQueue)' \subseteq Live(taskQueue)
    BY <2>1, ElementOfSeq, LenProperties DEF Live, Task, TypeOK
  <2> QED BY <2>2, <2>3 DEF SharedLive
<1>4. IdleWorkers = {} \/ ~SharedLive
  <2>1. \A v : agenda # <<Call(v, FALSE)>>
    OBVIOUS
  <2> QED BY <2>1 DEF WorkInv, SharedWorkIsCalled
<1> QED BY <1>1, <1>2, <1>3, <1>4 DEF WorkInv, OwnWorkIsCalled, SharedWorkIsCalled

\* runTask finds nothing that is wanted in the queues, if it finds an idle worker.
LEMMA RunTaskWork ==
  ASSUME TypeOK, WorkInv, NEW c \in Calls, NEW timed \in BOOLEAN, NEW prioritze \in BOOLEAN,
         RunTask(c, timed, prioritze)
  PROVE  WorkInv'
<1>1. agenda = <<>> /\ IdleWorkers' = IdleWorkers /\ perWorkerTaskQueue' = perWorkerTaskQueue
  BY DEF RunTask, EventLoop, IdleWorkers
<1>2. \A v \in IdleWorkers : perWorkerTaskQueue[v] = <<>>
  BY <1>1 DEF WorkInv, OwnWorkIsCalled
<1>3. OwnWorkIsCalled'
  BY <1>1, <1>2 DEF OwnWorkIsCalled
<1>4. SUFFICES ASSUME IdleWorkers # {} PROVE SharedWorkIsCalled'
  BY <1>1, <1>3 DEF WorkInv, SharedWorkIsCalled
<1>5. Min(IdleWorkers) \in IdleWorkers
  BY <1>4, SizeAssumption, MinOfNaturals DEF IdleWorkers, Workers
<1>6. agenda' = <<Call(Min(IdleWorkers), FALSE)>>
  BY <1>4 DEF RunTask, IdleWorkerCall
<1>7. ~SharedLive
  <2>1. \A v : agenda # <<Call(v, FALSE)>>
    BY <1>1
  <2> QED BY <1>4, <2>1 DEF WorkInv, SharedWorkIsCalled
<1>8. /\ highPriorityTaskQueue \in Seq(Calls) /\ taskQueue \in Seq(Calls)
      /\ Live(highPriorityTaskQueue) = {} /\ Live(taskQueue) = {}
  BY <1>7 DEF TypeOK, SharedLive
<1>9. c \notin Range(highPriorityTaskQueue) /\ c \notin Range(taskQueue)
  BY DEF RunTask, Submit, Free, Queued
<1>10. \A t \in Task \ {c} : cancelled[t] => cancelled'[t]
  BY DEF RunTask, Submit
\* The new task makes no task live that was cancelled.
<1>11. ASSUME NEW q \in Seq(Calls), Live(q) = {}, c \notin Range(q)
       PROVE  /\ {i \in DOMAIN q : ~cancelled'[q[i]]} = {}
              /\ {i \in DOMAIN Append(q, c) : ~cancelled'[Append(q, c)[i]]} \subseteq {Len(Append(q, c))}
  <2>1. \A i \in DOMAIN q : q[i] \in Task \ {c}
    BY <1>11, ElementOfSeq, LenProperties DEF Range, Task
  <2>2. \A i \in DOMAIN q : cancelled'[q[i]]
    BY <1>10, <1>11, <2>1 DEF Live
  <2>3. /\ Append(q, c) \in Seq(Calls) /\ Len(Append(q, c)) = Len(q) + 1 /\ Len(q) \in Nat
        /\ \A i \in 1 .. Len(q) : Append(q, c)[i] = q[i]
    BY AppendProperties, LenProperties
  <2>4. DOMAIN q = 1 .. Len(q) /\ DOMAIN Append(q, c) = 1 .. Len(q) + 1
    BY <2>3, LenProperties
  <2> QED BY <2>2, <2>3, <2>4
<1>12. CASE prioritze
  <2>1. highPriorityTaskQueue' = Append(highPriorityTaskQueue, c) /\ taskQueue' = taskQueue
    BY <1>12, Zenon DEF RunTask
  <2>2. OnlyTheLast(highPriorityTaskQueue)' /\ Live(taskQueue)' = {}
    BY <1>8, <1>9, <1>11, <2>1 DEF OnlyTheLast, Live
  <2> QED BY <1>1, <1>2, <1>5, <1>6, <2>2 DEF SharedWorkIsCalled, OneSharedTask
<1>13. CASE ~prioritze
  <2>1. taskQueue' = Append(taskQueue, c) /\ highPriorityTaskQueue' = highPriorityTaskQueue
    BY <1>13, Zenon DEF RunTask
  <2>2. OnlyTheLast(taskQueue)' /\ Live(highPriorityTaskQueue)' = {}
    BY <1>8, <1>9, <1>11, <2>1 DEF OnlyTheLast, Live
  <2> QED BY <1>1, <1>2, <1>5, <1>6, <2>2 DEF SharedWorkIsCalled, OneSharedTask
<1> QED BY <1>12, <1>13

LEMMA RunTaskOnAllWorkersWork ==
  ASSUME TypeOK, WorkInv, NEW b \in Broadcasts, RunTaskOnAllWorkers(b)
  PROVE  WorkInv'
<1>1. /\ agenda = <<>> /\ IdleWorkers' = IdleWorkers
      /\ highPriorityTaskQueue' = highPriorityTaskQueue /\ taskQueue' = taskQueue
  BY DEF RunTaskOnAllWorkers, EventLoop, IdleWorkers
<1>2. PICK order \in [1 .. Cardinality(IdleWorkers) -> IdleWorkers] :
        /\ \A i, j \in DOMAIN order : i < j => order[i] < order[j]
        /\ agenda' = [i \in DOMAIN order |-> Call(order[i], FALSE)]
  BY DEF RunTaskOnAllWorkers
\* All idle workers are called: as many as there are, and no two the same.
<1>3. \A v \in IdleWorkers : \E i \in DOMAIN order : order[i] = v
  <2>1. IsFiniteSet(IdleWorkers) /\ Cardinality(IdleWorkers) \in Nat
    BY IdleWorkersFinite
  <2>2. \A i, j \in DOMAIN order : i # j => order[i] # order[j]
    <3>1. \A i \in DOMAIN order : i \in Int /\ order[i] \in Int
      BY <2>1, SizeAssumption DEF IdleWorkers, Workers
    <3> QED BY <1>2, <3>1
  <2>3. order \in Injection(1 .. Cardinality(IdleWorkers), IdleWorkers)
    BY <2>2 DEF Injection, IsInjective
  <2>4. Cardinality(1 .. Cardinality(IdleWorkers)) = Cardinality(IdleWorkers)
    BY <2>1, FS_Interval
  <2>5. order \in Surjection(1 .. Cardinality(IdleWorkers), IdleWorkers)
    BY <2>1, <2>3, <2>4, FS_Injection
  <2> QED BY <2>5 DEF Surjection
<1>4. \A v \in IdleWorkers : \E i \in DOMAIN agenda' : agenda'[i].worker = v
  BY <1>2, <1>3 DEF Call
<1>5. OwnWorkIsCalled'
  BY <1>1, <1>4 DEF OwnWorkIsCalled
<1>6. IdleWorkers = {} \/ ~SharedLive
  <2>1. \A v : agenda # <<Call(v, FALSE)>>
    BY <1>1
  <2> QED BY <2>1 DEF WorkInv, SharedWorkIsCalled
<1>7. SharedLive' => SharedLive
  <2>1. \A t \in Calls : t \in Task /\ t \notin {b} \X Workers
    BY TaskAssumption DEF OwnTask, Task
  <2>2. \A t \in Calls : cancelled'[t] <=> cancelled[t]
    BY <2>1 DEF RunTaskOnAllWorkers, Submit
  <2>3. Live(highPriorityTaskQueue)' = Live(highPriorityTaskQueue)
    BY <1>1, <2>2, ElementOfSeq, LenProperties DEF Live, TypeOK
  <2>4. Live(taskQueue)' = Live(taskQueue)
    BY <1>1, <2>2, ElementOfSeq, LenProperties DEF Live, TypeOK
  <2> QED BY <2>3, <2>4 DEF SharedLive
<1> QED BY <1>1, <1>5, <1>6, <1>7 DEF WorkInv, SharedWorkIsCalled

LEMMA NextWork == TypeOK /\ DispatchInv /\ WorkInv /\ [Next]_vars => WorkInv'
<1> SUFFICES ASSUME TypeOK, DispatchInv, WorkInv, [Next]_vars PROVE WorkInv'
  OBVIOUS
\* A handler that only schedules calls for workers that are not ready.
<1>1. ASSUME agenda = <<>>, UNCHANGED <<ready, queues, cancelled>> PROVE WorkInv'
  <2>1. IdleWorkers' = IdleWorkers /\ perWorkerTaskQueue' = perWorkerTaskQueue
    BY <1>1 DEF IdleWorkers, queues
  <2>2. SharedLive' = SharedLive
    BY <1>1 DEF SharedLive, Live, queues
  <2>3. \A v \in IdleWorkers : perWorkerTaskQueue[v] = <<>>
    BY <1>1 DEF WorkInv, OwnWorkIsCalled
  <2>4. IdleWorkers = {} \/ ~SharedLive
    <3>1. \A v : agenda # <<Call(v, FALSE)>>
      BY <1>1
    <3> QED BY <3>1 DEF WorkInv, SharedWorkIsCalled
  <2> QED BY <2>1, <2>2, <2>3, <2>4 DEF WorkInv, OwnWorkIsCalled, SharedWorkIsCalled
<1>2. ASSUME NEW w \in Workers, Online(w) PROVE WorkInv'
  BY <1>1, <1>2 DEF Online, EventLoop, promises
<1>3. ASSUME NEW w \in Workers, OnMessage(w) PROVE WorkInv'
  BY <1>1, <1>3 DEF OnMessage, EventLoop
<1>4. ASSUME NEW w \in Workers, OnError(w) PROVE WorkInv'
  BY <1>1, <1>4 DEF OnError, EventLoop
<1>5. ASSUME NEW w \in Workers, OnExit(w) PROVE WorkInv'
  BY <1>1, <1>5 DEF OnExit, EventLoop, promises
<1>6. ASSUME UNCHANGED <<ready, queues, cancelled, agenda>> PROVE WorkInv'
  BY <1>6 DEF WorkInv, OwnWorkIsCalled, SharedWorkIsCalled, OneSharedTask, OnlyTheLast,
    SharedLive, Live, IdleWorkers, queues
<1>7. ASSUME NEW w \in Workers, Answer(w) PROVE WorkInv'
  BY <1>6, <1>7 DEF Answer, promises
<1>8. ASSUME NEW w \in Workers, NEW coin \in BOOLEAN, ProcessTask(w, coin) PROVE WorkInv'
  BY <1>8, ProcessTaskWork
<1>9. ASSUME NEW c \in Calls, NEW timed \in BOOLEAN, NEW prioritze \in BOOLEAN,
             RunTask(c, timed, prioritze)
      PROVE  WorkInv'
  BY <1>9, RunTaskWork
<1>10. ASSUME NEW b \in Broadcasts, RunTaskOnAllWorkers(b) PROVE WorkInv'
  BY <1>10, RunTaskOnAllWorkersWork
<1>11. ASSUME NEW t \in Task, OnTimeout(t) PROVE WorkInv'
  <2>1. \A u \in Task : cancelled[u] => cancelled'[u]
    BY <1>11 DEF OnTimeout, TypeOK
  <2> QED BY <1>11, <2>1, NoNewWork DEF OnTimeout, EventLoop
<1>12. CASE UNCHANGED vars
  BY <1>6, <1>12 DEF vars, promises
<1> QED BY <1>2, <1>3, <1>4, <1>5, <1>7, <1>8, <1>9, <1>10, <1>11, <1>12 DEF Next, Stopped

\* Between handlers no ready worker stands beside a task it could run.
THEOREM NoWorkerIdles == Spec => []WorkConserving
<1>1. TypeOK /\ WorkInv => WorkConserving
  <2> SUFFICES ASSUME WorkInv, EventLoop, NEW w \in IdleWorkers
               PROVE  perWorkerTaskQueue[w] = <<>> /\ ~SharedLive
    BY DEF WorkConserving
  <2>1. agenda = <<>> /\ \A v : agenda # <<Call(v, FALSE)>>
    BY DEF EventLoop
  <2> QED BY <2>1 DEF WorkInv, OwnWorkIsCalled, SharedWorkIsCalled
<1>2. TypeOK /\ DispatchInv /\ WorkInv /\ [Next]_vars => TypeOK' /\ DispatchInv' /\ WorkInv'
  BY NextType, NextDispatch, NextWork
<1> QED BY <1>1, <1>2, InitType, InitDispatch, InitWork, PTL DEF Spec

(***************************************************************************)
(* Where the tasks are                                                     *)
(***************************************************************************)
LEMMA OnceAppend ==
  ASSUME NEW S, NEW q \in Seq(S), NEW x \in S
  PROVE  /\ Range(Append(q, x)) = Range(q) \cup {x}
         /\ Once(q) /\ x \notin Range(q) => Once(Append(q, x))
<1>1. /\ Append(q, x) \in Seq(S) /\ Len(Append(q, x)) = Len(q) + 1 /\ Len(q) \in Nat
      /\ \A i \in 1 .. Len(q) : Append(q, x)[i] = q[i]
      /\ Append(q, x)[Len(q) + 1] = x
  BY AppendProperties, LenProperties
<1>2. DOMAIN q = 1 .. Len(q) /\ DOMAIN Append(q, x) = 1 .. Len(q) + 1
  BY <1>1, LenProperties
<1>3. 1 .. Len(q) + 1 = (1 .. Len(q)) \cup {Len(q) + 1}
  BY <1>1
<1>4. Range(Append(q, x)) = Range(q) \cup {x}
  BY <1>1, <1>2, <1>3 DEF Range
<1>5. ASSUME Once(q), x \notin Range(q) PROVE Once(Append(q, x))
  BY <1>1, <1>2, <1>3, <1>5 DEF Once, Range
<1> QED BY <1>4, <1>5

LEMMA OnceTail ==
  ASSUME NEW S, NEW q \in Seq(S), q # <<>>
  PROVE  /\ Head(q) \in S
         /\ Range(q) = Range(Tail(q)) \cup {Head(q)}
         /\ Once(q) => Once(Tail(q)) /\ Head(q) \notin Range(Tail(q))
<1>1. /\ Tail(q) \in Seq(S) /\ Len(Tail(q)) = Len(q) - 1 /\ Len(q) \in Nat \ {0}
      /\ \A i \in 1 .. Len(Tail(q)) : Tail(q)[i] = q[i + 1]
      /\ Head(q) \in S
  BY HeadTailProperties, LenProperties, EmptySeq
<1>2. Head(q) = q[1]
  OBVIOUS
<1>3. DOMAIN q = 1 .. Len(q) /\ DOMAIN Tail(q) = 1 .. Len(q) - 1
  BY <1>1, LenProperties
<1>4. ASSUME NEW y \in Range(q) PROVE y \in Range(Tail(q)) \cup {Head(q)}
  <2>1. PICK i \in 1 .. Len(q) : q[i] = y
    BY <1>3, <1>4 DEF Range
  <2>2. i = 1 \/ (i - 1 \in 1 .. Len(q) - 1 /\ Tail(q)[i - 1] = y)
    BY <1>1, <2>1
  <2> QED BY <1>2, <1>3, <2>1, <2>2 DEF Range
<1>5. ASSUME NEW y \in Range(Tail(q)) \cup {Head(q)} PROVE y \in Range(q)
  BY <1>1, <1>2, <1>3 DEF Range
<1>6. ASSUME Once(q) PROVE Once(Tail(q)) /\ Head(q) \notin Range(Tail(q))
  <2>1. \A i, j \in 1 .. Len(q) : q[i] = q[j] => i = j
    BY <1>3, <1>6 DEF Once
  <2>2. \A i \in 1 .. Len(q) - 1 : Tail(q)[i] = q[i + 1] /\ i + 1 \in 1 .. Len(q) /\ i + 1 # 1
    BY <1>1
  <2>3. 1 \in 1 .. Len(q)
    BY <1>1
  <2>4. Once(Tail(q))
    BY <1>3, <2>1, <2>2 DEF Once
  <2>5. Head(q) \notin Range(Tail(q))
    BY <1>2, <1>3, <2>1, <2>2, <2>3 DEF Range
  <2> QED BY <2>4, <2>5
<1> QED BY <1>1, <1>4, <1>5, <1>6

\* What a worker that takes the first live task of a shared queue leaves in it,
\* and what it takes out besides.
LEMMA OnceAfter ==
  ASSUME NEW q \in Seq(Calls), Live(q) # {}, Once(q)
  PROVE  LET t == q[Min(Live(q))]
             rest == After(q, Min(Live(q)))
         IN  /\ t \in Range(q) /\ ~cancelled[t]
             /\ Range(rest) \subseteq Range(q) /\ Once(rest) /\ t \notin Range(rest)
             /\ \A u \in Range(q) \ Range(rest) : u # t => cancelled[u]
<1> DEFINE m == Min(Live(q))
           rest == After(q, m)
<1>1. DOMAIN q = 1 .. Len(q) /\ Len(q) \in Nat
  BY LenProperties
<1>2. Live(q) \subseteq Nat
  BY <1>1 DEF Live
<1>3. m \in Live(q) /\ \A i \in Live(q) : m <= i
  BY <1>2, MinOfNaturals
<1>4. m \in DOMAIN q /\ ~cancelled[q[m]]
  BY <1>3 DEF Live
<1> HIDE DEF m
<1>5. /\ rest \in Seq(Calls) /\ Len(rest) = Len(q) - m
      /\ \A k \in DOMAIN rest : k + m \in DOMAIN q /\ rest[k] = q[k + m]
  BY <1>4, AfterProperties
<1>6. DOMAIN rest = 1 .. Len(q) - m
  BY <1>5, LenProperties
<1> HIDE DEF rest
<1>7. Range(rest) \subseteq Range(q)
  BY <1>5 DEF Range
<1>8. Once(rest)
  BY <1>1, <1>4, <1>5, <1>6 DEF Once
<1>9. q[m] \notin Range(rest)
  <2>1. \A k \in DOMAIN rest : k + m # m
    BY <1>1, <1>4, <1>6
  <2> QED BY <1>4, <1>5, <2>1 DEF Range, Once
<1>10. ASSUME NEW u \in Range(q) \ Range(rest), u # q[m] PROVE cancelled[u]
  <2>1. PICK i \in DOMAIN q : q[i] = u
    BY DEF Range
  <2>2. i # m
    BY <1>10, <2>1
  <2>3. ~(m < i)
    <3>1. SUFFICES ASSUME m < i PROVE FALSE
      OBVIOUS
    <3>2. i - m \in DOMAIN rest /\ i - m + m = i
      BY <1>1, <1>4, <1>6, <3>1
    <3>3. rest[i - m] = u
      BY <1>5, <2>1, <3>2
    <3> QED BY <3>2, <3>3 DEF Range
  <2>4. i \notin Live(q)
    BY <1>1, <1>3, <1>4, <2>2, <2>3
  <2> QED BY <2>1, <2>4 DEF Live
<1> QED BY <1>4, <1>7, <1>8, <1>9, <1>10 DEF m, rest, Range

\* A queue with nothing live in it holds cancelled tasks only.
LEMMA NothingLive ==
  ASSUME NEW q, Live(q) = {}
  PROVE  \A u \in Range(q) : cancelled[u]
  BY DEF Live, Range

LEMMA NothingQueuedTwice == Once(<<>>) /\ Range(<<>>) = {}
  BY DEF Once, Range

\* The shared queues hold calls, the queue of a worker the tasks of broadcasts.
LEMMA QueuedTypes ==
  ASSUME TypeOK
  PROVE  /\ Range(highPriorityTaskQueue) \subseteq Calls
         /\ Range(taskQueue) \subseteq Calls
         /\ \A v \in Workers : Range(perWorkerTaskQueue[v]) \subseteq OwnTask
<1>1. ASSUME NEW S, NEW q \in Seq(S) PROVE Range(q) \subseteq S
  BY ElementOfSeq, LenProperties DEF Range
<1> QED BY <1>1 DEF TypeOK

\* A call of processTask takes one task that somebody still waits for out of the
\* queues, or none, and besides only cancelled ones.
LEMMA ProcessTaskTakes ==
  ASSUME TypeOK, PlaceInv, NEW w \in Workers, NEW coin \in BOOLEAN, ProcessTask(w, coin)
  PROVE  /\ QueuedOnce'
         /\ \A u \in Task : Queued(u)' => Queued(u)
         /\ \/ \E t \in Task :
                 /\ Run(w, t)
                 /\ Queued(t) /\ ~Queued(t)' /\ ~cancelled[t]
                 /\ \A u \in Task : Queued(u) /\ ~Queued(u)' /\ u # t => cancelled[u]
            \/ /\ listeners' = listeners
               /\ \A u \in Task : Queued(u) /\ ~Queued(u)' => cancelled[u]
<1> DEFINE own == OwnFirst(coin)
           hp == highPriorityTaskQueue
           tq == taskQueue
<1>1. /\ Range(hp) \subseteq Calls /\ Range(tq) \subseteq Calls
      /\ \A v \in Workers : Range(perWorkerTaskQueue[v]) \subseteq OwnTask
      /\ \A u \in Calls : u \in Task /\ u \notin OwnTask
      /\ OwnTask \subseteq Task
  BY QueuedTypes, TaskAssumption DEF Task
<1>2. /\ Once(hp) /\ Once(tq) /\ Range(hp) \cap Range(tq) = {}
      /\ \A v \in Workers : Once(perWorkerTaskQueue[v]) /\ \A t \in Range(perWorkerTaskQueue[v]) : t[2] = v
  BY DEF PlaceInv, QueuedOnce
<1>3. CASE TakeOwn(w, own)
  <2> DEFINE q == perWorkerTaskQueue[w]
  <2>0. PICK t : t = Head(q)
    OBVIOUS
  <2>1. /\ q \in Seq(OwnTask) /\ q # <<>>
        /\ \A v \in Workers : perWorkerTaskQueue'[v] = IF v = w THEN Tail(q) ELSE perWorkerTaskQueue[v]
        /\ Run(w, t)
    BY <1>3, <2>0 DEF TakeOwn, TypeOK
  <2>2. /\ t \in OwnTask /\ Range(q) = Range(Tail(q)) \cup {t}
        /\ Once(Tail(q)) /\ t \notin Range(Tail(q))
    BY <1>2, <2>0, <2>1, OnceTail
  <2>3. \/ hp' = hp /\ tq' = tq
        \/ hp' = <<>> /\ tq' = <<>> /\ Live(hp) = {} /\ Live(tq) = {}
    BY <1>3 DEF TakeOwn, SharedLive
  <2>4. /\ Once(hp') /\ Once(tq')
        /\ Range(hp') \subseteq Range(hp) /\ Range(tq') \subseteq Range(tq)
        /\ \A u \in Range(hp) \ Range(hp') : cancelled[u]
        /\ \A u \in Range(tq) \ Range(tq') : cancelled[u]
    BY <1>2, <2>3, NothingLive, NothingQueuedTwice
  <2>5. \A v \in Workers : /\ Once(perWorkerTaskQueue'[v])
                           /\ Range(perWorkerTaskQueue'[v]) \subseteq Range(perWorkerTaskQueue[v])
                           /\ Range(perWorkerTaskQueue[v]) \subseteq Range(perWorkerTaskQueue'[v]) \cup {t}
    BY <1>2, <2>1, <2>2
  <2>6. QueuedOnce'
    BY <1>2, <2>4, <2>5 DEF QueuedOnce
  <2>7. \A u \in Task : Queued(u)' => Queued(u)
    BY <2>4, <2>5 DEF Queued
  <2>8. Queued(t) /\ ~cancelled[t]
    BY <2>2 DEF Queued, PlaceInv, BroadcastsHaveNoTimeout
  <2>9. ~Queued(t)'
    <3>1. t \notin Calls /\ t \in Range(q)
      BY <1>1, <2>2
    <3>2. t \notin Range(hp') /\ t \notin Range(tq')
      BY <1>1, <2>4, <3>1
    <3>3. ASSUME NEW v \in Workers PROVE t \notin Range(perWorkerTaskQueue'[v])
      <4>1. CASE v = w
        BY <2>1, <2>2, <4>1
      <4>2. CASE v # w
        BY <1>2, <2>5, <3>1, <4>2
      <4> QED BY <4>1, <4>2
    <3> QED BY <3>2, <3>3 DEF Queued
  <2>10. \A u \in Task : Queued(u) /\ ~Queued(u)' /\ u # t => cancelled[u]
    BY <2>4, <2>5 DEF Queued
  <2>11. t \in Task
    BY <1>1, <2>2
  <2> QED BY <2>1, <2>6, <2>7, <2>8, <2>9, <2>10, <2>11
<1>4. CASE TakeHighPriority(w, own)
  <2> DEFINE rest == After(hp, Min(Live(hp)))
  <2>0. PICK t : t = hp[Min(Live(hp))]
    OBVIOUS
  <2>1. /\ hp \in Seq(Calls) /\ Live(hp) # {}
        /\ Run(w, t) /\ hp' = rest /\ tq' = tq /\ perWorkerTaskQueue' = perWorkerTaskQueue
    BY <1>4, <2>0 DEF TakeHighPriority, TypeOK
  <2>2. /\ t \in Range(hp) /\ ~cancelled[t]
        /\ Range(rest) \subseteq Range(hp) /\ Once(rest) /\ t \notin Range(rest)
        /\ \A u \in Range(hp) \ Range(rest) : u # t => cancelled[u]
    BY <1>2, <2>0, <2>1, OnceAfter
  <2> HIDE DEF rest
  <2>3. QueuedOnce'
    BY <1>2, <2>1, <2>2 DEF QueuedOnce
  <2>4. Queued(t) /\ ~Queued(t)' /\ \A u \in Task : Queued(u)' => Queued(u)
    BY <1>1, <1>2, <2>1, <2>2 DEF Queued
  <2>5. \A u \in Task : Queued(u) /\ ~Queued(u)' /\ u # t => cancelled[u]
    BY <2>1, <2>2 DEF Queued
  <2>6. t \in Task
    BY <1>1, <2>2
  <2> QED BY <2>1, <2>2, <2>3, <2>4, <2>5, <2>6
<1>5. CASE TakeNormal(w, own)
  <2> DEFINE rest == After(tq, Min(Live(tq)))
  <2>0. PICK t : t = tq[Min(Live(tq))]
    OBVIOUS
  <2>1. /\ tq \in Seq(Calls) /\ Live(tq) # {} /\ Live(hp) = {}
        /\ Run(w, t) /\ tq' = rest /\ hp' = <<>> /\ perWorkerTaskQueue' = perWorkerTaskQueue
    BY <1>5, <2>0 DEF TakeNormal, TypeOK
  <2>2. /\ t \in Range(tq) /\ ~cancelled[t]
        /\ Range(rest) \subseteq Range(tq) /\ Once(rest) /\ t \notin Range(rest)
        /\ \A u \in Range(tq) \ Range(rest) : u # t => cancelled[u]
    BY <1>2, <2>0, <2>1, OnceAfter
  <2> HIDE DEF rest
  <2>3. /\ Once(hp') /\ Range(hp') = {} /\ \A u \in Range(hp) : cancelled[u]
    BY <2>1, NothingLive, NothingQueuedTwice
  <2>4. QueuedOnce'
    BY <1>2, <2>1, <2>2, <2>3 DEF QueuedOnce
  <2>5. Queued(t) /\ ~Queued(t)' /\ \A u \in Task : Queued(u)' => Queued(u)
    BY <1>1, <2>1, <2>2, <2>3 DEF Queued
  <2>6. \A u \in Task : Queued(u) /\ ~Queued(u)' /\ u # t => cancelled[u]
    BY <2>1, <2>2, <2>3 DEF Queued
  <2>7. t \in Task
    BY <1>1, <2>2
  <2> QED BY <2>1, <2>2, <2>4, <2>5, <2>6, <2>7
<1>6. CASE TakeNothing(w, Head(agenda).wake)
  <2>1. /\ hp' = <<>> /\ tq' = <<>> /\ Live(hp) = {} /\ Live(tq) = {}
        /\ perWorkerTaskQueue' = perWorkerTaskQueue /\ listeners' = listeners
    BY <1>6 DEF TakeNothing, SharedLive
  <2>2. /\ Once(hp') /\ Once(tq') /\ Range(hp') = {} /\ Range(tq') = {}
        /\ \A u \in Range(hp) \cup Range(tq) : cancelled[u]
    BY <2>1, NothingLive, NothingQueuedTwice
  <2>3. QueuedOnce'
    BY <1>2, <2>1, <2>2 DEF QueuedOnce
  <2>4. \A u \in Task : (Queued(u)' => Queued(u)) /\ (Queued(u) /\ ~Queued(u)' => cancelled[u])
    BY <2>1, <2>2 DEF Queued
  <2> QED BY <2>1, <2>3, <2>4
<1> QED BY <1>3, <1>4, <1>5, <1>6 DEF ProcessTask

LEMMA InitPlace == Init => PlaceInv
<1> SUFFICES ASSUME Init PROVE PlaceInv
  OBVIOUS
<1>1. \A t : ~Queued(t)
  BY NothingQueuedTwice DEF Init, Queued
<1>2. QueuedOnce
  BY NothingQueuedTwice DEF Init, QueuedOnce
<1>3. BroadcastsHaveNoTimeout
  BY DEF Init, BroadcastsHaveNoTimeout, Task
<1> QED BY <1>1, <1>2, <1>3 DEF PlaceInv, QueuedOrRunning, CancelledIfExpired

\* The tasks that are submitted become live and wait in one queue each.
LEMMA SubmitPlace ==
  ASSUME TypeOK, PlaceInv, NEW S \in SUBSET Task, NEW timed \in BOOLEAN, Submit(S, timed),
         \A t \in S : t \in OwnTask => ~timed,
         \A u \in Task : Queued(u)' <=> Queued(u) \/ u \in S,
         QueuedOnce', listeners' = listeners
  PROVE  PlaceInv'
<1>1. /\ \A t \in S : status'[t] = "waiting" /\ ~cancelled'[t] /\ (timer'[t] <=> timed)
      /\ \A t \in Task \ S : /\ status'[t] = status[t]
                             /\ cancelled'[t] <=> cancelled[t]
                             /\ timer'[t] <=> timer[t]
  BY DEF Submit
<1>2. \A t \in S, w \in Workers : t \notin Range(listeners[w])
  BY DEF Submit, Free, Posted
<1>3. QueuedOrRunning'
  <2> SUFFICES ASSUME NEW t \in Task, NEW w \in Workers, Queued(t)' PROVE t \notin Range(listeners[w])
    BY DEF QueuedOrRunning
  <2> QED BY <1>2 DEF PlaceInv, QueuedOrRunning
<1>4. CancelledIfExpired'
  <2> SUFFICES ASSUME NEW t \in Task, Queued(t)' PROVE cancelled'[t] <=> status'[t] # "waiting"
    BY DEF CancelledIfExpired
  <2>1. CASE t \in S
    BY <1>1, <2>1
  <2>2. CASE t \notin S
    BY <1>1, <2>2 DEF PlaceInv, CancelledIfExpired
  <2> QED BY <2>1, <2>2
<1>5. BroadcastsHaveNoTimeout'
  BY <1>1 DEF PlaceInv, BroadcastsHaveNoTimeout, Task
<1> QED BY <1>3, <1>4, <1>5 DEF PlaceInv

LEMMA RunTaskPlace ==
  ASSUME TypeOK, PlaceInv, NEW c \in Calls, NEW timed \in BOOLEAN, NEW prioritze \in BOOLEAN,
         RunTask(c, timed, prioritze)
  PROVE  PlaceInv' /\ \A u \in Task : Queued(u)' <=> Queued(u) \/ u \in {c}
<1>1. /\ c \in Task /\ c \notin OwnTask
      /\ Submit({c}, timed) /\ listeners' = listeners /\ perWorkerTaskQueue' = perWorkerTaskQueue
  BY TaskAssumption DEF RunTask, threads, Task
<1>2. c \notin Range(highPriorityTaskQueue) /\ c \notin Range(taskQueue)
  BY <1>1 DEF Submit, Free, Queued
<1>3. /\ highPriorityTaskQueue \in Seq(Calls) /\ taskQueue \in Seq(Calls)
      /\ Once(highPriorityTaskQueue) /\ Once(taskQueue)
      /\ Range(highPriorityTaskQueue) \cap Range(taskQueue) = {}
      /\ \A w \in Workers :
           Once(perWorkerTaskQueue[w]) /\ \A t \in Range(perWorkerTaskQueue[w]) : t[2] = w
  BY DEF TypeOK, PlaceInv, QueuedOnce
<1>4. \/ /\ highPriorityTaskQueue' = Append(highPriorityTaskQueue, c)
         /\ taskQueue' = taskQueue
      \/ /\ highPriorityTaskQueue' = highPriorityTaskQueue
         /\ taskQueue' = Append(taskQueue, c)
  BY Zenon DEF RunTask
<1>5. /\ Once(highPriorityTaskQueue') /\ Once(taskQueue')
      /\ \/ /\ Range(highPriorityTaskQueue') = Range(highPriorityTaskQueue) \cup {c}
            /\ Range(taskQueue') = Range(taskQueue)
         \/ /\ Range(highPriorityTaskQueue') = Range(highPriorityTaskQueue)
            /\ Range(taskQueue') = Range(taskQueue) \cup {c}
  <2>1. \A q \in Seq(Calls) : Range(Append(q, c)) = Range(q) \cup {c}
    BY OnceAppend
  <2>2. \A q \in Seq(Calls) : Once(q) /\ c \notin Range(q) => Once(Append(q, c))
    BY OnceAppend
  <2>3. /\ Once(Append(highPriorityTaskQueue, c)) /\ Once(Append(taskQueue, c))
        /\ Range(Append(highPriorityTaskQueue, c)) = Range(highPriorityTaskQueue) \cup {c}
        /\ Range(Append(taskQueue, c)) = Range(taskQueue) \cup {c}
    BY <1>2, <1>3, <2>1, <2>2
  <2> QED BY <1>3, <1>4, <2>3, Zenon
<1>6. QueuedOnce'
  BY <1>1, <1>2, <1>3, <1>5 DEF QueuedOnce
<1>7. \A u \in Task : Queued(u)' <=> Queued(u) \/ u \in {c}
  BY <1>1, <1>5 DEF Queued
<1>8. {c} \in SUBSET Task /\ \A t \in {c} : t \in OwnTask => ~timed
  BY <1>1
<1> QED BY <1>1, <1>6, <1>7, <1>8, SubmitPlace

LEMMA RunTaskOnAllWorkersPlace ==
  ASSUME TypeOK, PlaceInv, NEW b \in Broadcasts, RunTaskOnAllWorkers(b)
  PROVE  PlaceInv' /\ \A u \in Task : Queued(u)' <=> Queued(u) \/ u \in {b} \X Workers
<1>1. /\ Submit({b} \X Workers, FALSE) /\ listeners' = listeners
      /\ highPriorityTaskQueue' = highPriorityTaskQueue /\ taskQueue' = taskQueue
      /\ \A w \in Workers : perWorkerTaskQueue'[w] = Append(perWorkerTaskQueue[w], <<b, w>>)
  BY DEF RunTaskOnAllWorkers, threads
<1>2. /\ \A w \in Workers : <<b, w>> \in OwnTask
      /\ {b} \X Workers \in SUBSET Task
  BY DEF OwnTask, Task
<1>3. \A w \in Workers : <<b, w>> \notin Range(perWorkerTaskQueue[w])
  BY <1>1 DEF Submit, Free, Queued
<1>4. \A w \in Workers : /\ Once(perWorkerTaskQueue'[w])
                         /\ Range(perWorkerTaskQueue'[w]) = Range(perWorkerTaskQueue[w]) \cup {<<b, w>>}
  <2> SUFFICES ASSUME NEW w \in Workers
               PROVE  /\ Once(perWorkerTaskQueue'[w])
                      /\ Range(perWorkerTaskQueue'[w]) = Range(perWorkerTaskQueue[w]) \cup {<<b, w>>}
    OBVIOUS
  <2> DEFINE q == perWorkerTaskQueue[w]
  <2>1. q \in Seq(OwnTask) /\ Once(q) /\ <<b, w>> \in OwnTask /\ <<b, w>> \notin Range(q)
    BY <1>2, <1>3 DEF TypeOK, PlaceInv, QueuedOnce
  <2>2. perWorkerTaskQueue'[w] = Append(q, <<b, w>>)
    BY <1>1
  <2> HIDE DEF q
  <2>3. Once(Append(q, <<b, w>>)) /\ Range(Append(q, <<b, w>>)) = Range(q) \cup {<<b, w>>}
    BY <2>1, OnceAppend
  <2> QED BY <2>2, <2>3 DEF q
<1>5. QueuedOnce'
  BY <1>1, <1>4 DEF PlaceInv, QueuedOnce
<1>6. \A u \in Task : Queued(u)' <=> Queued(u) \/ u \in {b} \X Workers
  <2>1. \A u : u \in {b} \X Workers <=> \E w \in Workers : u = <<b, w>>
    OBVIOUS
  <2> QED BY <1>1, <1>4, <2>1 DEF Queued
<1> QED BY <1>1, <1>2, <1>5, <1>6, SubmitPlace

\* Range of what a worker is busy with.
LEMMA RangeOfOne == \A t : Range(<<t>>) = {t}
  BY DEF Range

LEMMA ProcessTaskPlace ==
  ASSUME TypeOK, DispatchInv, PlaceInv, NEW w \in Workers, NEW coin \in BOOLEAN, ProcessTask(w, coin)
  PROVE  PlaceInv'
<1>1. UNCHANGED promises
  BY DEF ProcessTask
<1>2. QueuedOnce' /\ \A u \in Task : Queued(u)' => Queued(u)
  BY ProcessTaskTakes
<1>3. CancelledIfExpired' /\ BroadcastsHaveNoTimeout'
  BY <1>1, <1>2 DEF PlaceInv, CancelledIfExpired, BroadcastsHaveNoTimeout, promises
<1>4. listeners[w] = <<>>
  <2>1. 1 \in DOMAIN agenda /\ agenda[1] = Head(agenda) /\ Head(agenda).worker = w
    BY LenProperties, EmptySeq DEF ProcessTask, TypeOK
  <2> QED BY <2>1 DEF DispatchInv, AgendaIsSafe
<1>5. QueuedOrRunning'
  <2>1. ASSUME NEW t \in Task, Run(w, t), ~Queued(t)' PROVE QueuedOrRunning'
    <3>1. \A v \in Workers : listeners'[v] = IF v = w THEN <<t>> ELSE listeners[v]
      BY <1>4, <2>1 DEF Run, TypeOK
    <3> QED BY <1>2, <2>1, <3>1, RangeOfOne DEF PlaceInv, QueuedOrRunning
  <2>2. CASE listeners' = listeners
    BY <1>2, <2>2 DEF PlaceInv, QueuedOrRunning
  <2> QED BY <2>1, <2>2, ProcessTaskTakes
<1> QED BY <1>2, <1>3, <1>5 DEF PlaceInv

LEMMA NextPlace == TypeOK /\ DispatchInv /\ PlaceInv /\ [Next]_vars => PlaceInv'
<1> SUFFICES ASSUME TypeOK, DispatchInv, PlaceInv, [Next]_vars PROVE PlaceInv'
  OBVIOUS
<1>1. ASSUME UNCHANGED <<queues, listeners, promises>> PROVE PlaceInv'
  BY <1>1 DEF PlaceInv, QueuedOnce, QueuedOrRunning, CancelledIfExpired,
    BroadcastsHaveNoTimeout, Queued, queues, promises
\* The promises of the tasks a worker had are settled.
<1>2. ASSUME NEW w \in Workers, UNCHANGED <<queues, cancelled, timer>>,
             listeners' = [listeners EXCEPT ![w] = <<>>],
             \A t \in Task \ Range(listeners[w]) : status'[t] = status[t]
      PROVE  PlaceInv'
  <2>1. \A u \in Task : Queued(u)' <=> Queued(u)
    BY <1>2 DEF Queued, queues
  <2>2. QueuedOnce' /\ BroadcastsHaveNoTimeout'
    BY <1>2 DEF PlaceInv, QueuedOnce, BroadcastsHaveNoTimeout, queues
  <2>3. CancelledIfExpired'
    BY <1>2, <2>1 DEF PlaceInv, CancelledIfExpired, QueuedOrRunning
  <2>4. \A v \in Workers : Range(listeners'[v]) \subseteq Range(listeners[v])
    BY <1>2, NothingQueuedTwice DEF TypeOK
  <2>5. QueuedOrRunning'
    BY <2>1, <2>4 DEF PlaceInv, QueuedOrRunning
  <2> QED BY <2>2, <2>3, <2>5 DEF PlaceInv
<1>3. ASSUME NEW w \in Workers, Online(w) PROVE PlaceInv'
  BY <1>1, <1>3 DEF Online, threads
<1>4. ASSUME NEW w \in Workers, OnMessage(w) PROVE PlaceInv'
  <2>1. \A t \in Task \ Range(listeners[w]) : status'[t] = status[t]
    BY <1>4 DEF OnMessage, Settle
  <2> QED BY <1>2, <1>4, <2>1 DEF OnMessage
<1>5. ASSUME NEW w \in Workers, OnError(w) PROVE PlaceInv'
  <2>1. \A t \in Task \ Range(listeners[w]) : status'[t] = status[t]
    BY <1>5 DEF OnError, Settle
  <2> QED BY <1>2, <1>5, <2>1 DEF OnError
<1>6. ASSUME NEW w \in Workers, OnExit(w) PROVE PlaceInv'
  BY <1>1, <1>6 DEF OnExit, threads
<1>7. ASSUME NEW w \in Workers, Answer(w) PROVE PlaceInv'
  BY <1>1, <1>7 DEF Answer
<1>8. ASSUME NEW w \in Workers, NEW coin \in BOOLEAN, ProcessTask(w, coin) PROVE PlaceInv'
  BY <1>8, ProcessTaskPlace
<1>9. ASSUME NEW c \in Calls, NEW timed \in BOOLEAN, NEW prioritze \in BOOLEAN,
             RunTask(c, timed, prioritze)
      PROVE  PlaceInv'
  BY <1>9, RunTaskPlace
<1>10. ASSUME NEW b \in Broadcasts, RunTaskOnAllWorkers(b) PROVE PlaceInv'
  BY <1>10, RunTaskOnAllWorkersPlace
<1>11. ASSUME NEW t \in Task, OnTimeout(t) PROVE PlaceInv'
  <2>1. UNCHANGED <<queues, listeners>>
    BY <1>11 DEF OnTimeout, threads
  <2>2. \A u \in Task : Queued(u)' <=> Queued(u)
    BY <2>1 DEF Queued, queues
  <2>3. /\ cancelled'[t] /\ ~timer'[t] /\ status'[t] # "waiting"
        /\ \A u \in Task \ {t} : /\ status'[u] = status[u]
                                 /\ cancelled'[u] <=> cancelled[u]
                                 /\ timer'[u] <=> timer[u]
    BY <1>11 DEF OnTimeout, Settle, TypeOK
  <2>4. QueuedOnce' /\ QueuedOrRunning'
    BY <2>1, <2>2 DEF PlaceInv, QueuedOnce, QueuedOrRunning, queues
  <2>5. CancelledIfExpired'
    BY <2>2, <2>3 DEF PlaceInv, CancelledIfExpired
  <2>6. t \notin OwnTask
    BY <1>11 DEF OnTimeout, PlaceInv, BroadcastsHaveNoTimeout
  <2>7. BroadcastsHaveNoTimeout'
    BY <2>3, <2>6 DEF PlaceInv, BroadcastsHaveNoTimeout, Task
  <2> QED BY <2>4, <2>5, <2>7 DEF PlaceInv
<1>12. CASE UNCHANGED vars
  BY <1>1, <1>12 DEF vars, threads
<1> QED BY <1>3, <1>4, <1>5, <1>6, <1>7, <1>8, <1>9, <1>10, <1>11, <1>12 DEF Next, Stopped

(***************************************************************************)
(* The pool implements the task service                                    *)
(***************************************************************************)

\* A worker has the job it is busy with.
LEMMA JobIsListened ==
  ASSUME DispatchInv
  PROVE  /\ \A w \in Workers : listeners[w] = <<>> => Job[w] = NoTask
         /\ \A w \in Workers : \A t : listeners[w] = <<t>> => Job[w] = t
         /\ \A w \in Workers : Job[w] # NoTask => Job[w] \in Range(listeners[w])
<1>1. \A w \in Workers : Job[w] = IF listeners[w] = <<>> THEN NoTask ELSE Head(listeners[w])
  BY DEF Job
<1>2. \A t : <<t>> # <<>> /\ Head(<<t>>) = t
  OBVIOUS
<1>3. \A w \in Workers : \A t : listeners[w] = <<t>> => Job[w] = t
  BY <1>1, <1>2
<1>4. \A w \in Workers : listeners[w] = <<>> \/ \E t \in Task : listeners[w] = <<t>>
  BY DEF DispatchInv, OneInFlight, Vacant, Busy
<1> QED BY <1>1, <1>3, <1>4, RangeOfOne

LEMMA AcceptStep ==
  ASSUME TypeOK, DispatchInv, NEW S \in SUBSET Task, S # {}, NEW timed, Submit(S, timed),
         \A u \in Task : Queued(u)' <=> Queued(u) \/ u \in S,
         alive, alive' = alive, listeners' = listeners
  PROVE  Service!Next
<1>1. Job' = Job
  BY DEF Job
<1>2. Todo' = Todo \cup S
  BY DEF Todo
<1>3. \A t \in S : t \notin Todo /\ status[t] # "waiting" /\ \A w \in Workers : t \notin Range(listeners[w])
  BY DEF Submit, Free, Posted, Todo
<1>4. \A t \in S, w \in Workers : Job[w] # t
  BY <1>3, JobIsListened, TaskAssumption
<1>5. Service!Accept(S)
  BY <1>1, <1>2, <1>3, <1>4 DEF Service!Accept, Submit
<1> QED BY <1>5 DEF Service!Next

LEMMA ProcessTaskStep ==
  ASSUME TypeOK, DispatchInv, PlaceInv, NEW w \in Workers, NEW coin \in BOOLEAN, ProcessTask(w, coin)
  PROVE  Service!Next
<1>1. alive /\ alive' = alive /\ status' = status /\ answer' = answer
  BY DEF ProcessTask, promises
<1>2. \A u \in Task : Queued(u) => (cancelled[u] <=> status[u] # "waiting")
  BY DEF PlaceInv, CancelledIfExpired
<1>3. \A u \in Task : Queued(u)' => Queued(u)
  BY ProcessTaskTakes
<1>4. listeners[w] = <<>>
  <2>1. 1 \in DOMAIN agenda /\ agenda[1] = Head(agenda) /\ Head(agenda).worker = w
    BY LenProperties, EmptySeq DEF ProcessTask, TypeOK
  <2> QED BY <2>1 DEF DispatchInv, AgendaIsSafe
<1>5. ASSUME NEW t \in Task, Run(w, t), Queued(t), ~Queued(t)', ~cancelled[t],
             \A u \in Task : Queued(u) /\ ~Queued(u)' /\ u # t => cancelled[u]
      PROVE  Service!Next
  <2>1. PICK D : D = {u \in Todo : ~Queued(u)' /\ u # t}
    OBVIOUS
  <2>2. t \in Todo \ D /\ status[t] = "waiting"
    BY <1>2, <1>5, <2>1 DEF Todo
  <2>3. D \in SUBSET Task /\ D \subseteq Todo /\ \A d \in D : status[d] # "waiting"
    BY <1>2, <1>5, <2>1 DEF Todo
  <2>4. Todo' = Todo \ (D \cup {t})
    BY <1>3, <1>5, <2>1 DEF Todo
  <2>5. listeners' = [listeners EXCEPT ![w] = <<t>>]
    BY <1>4, <1>5 DEF Run, TypeOK
  <2>6. Job[w] = NoTask /\ Job' = [Job EXCEPT ![w] = t]
    <3>1. <<t>> # <<>> /\ Head(<<t>>) = t
      OBVIOUS
    <3>2. \A v \in Workers : listeners'[v] = IF v = w THEN <<t>> ELSE listeners[v]
      BY <2>5 DEF TypeOK
    <3>3. Job' = [v \in Workers |-> IF v = w THEN t ELSE Job[v]]
      BY <3>1, <3>2 DEF Job
    <3> QED BY <1>4, <3>3 DEF Job
  <2>7. Service!Start(w, t, D)
    BY <1>1, <2>2, <2>3, <2>4, <2>6 DEF Service!Start
  <2> QED BY <2>3, <2>7 DEF Service!Next
<1>6. ASSUME listeners' = listeners, \A u \in Task : Queued(u) /\ ~Queued(u)' => cancelled[u]
      PROVE  Service!Next
  <2>1. PICK D : D = {u \in Todo : ~Queued(u)'}
    OBVIOUS
  <2>2. D \in SUBSET Task /\ D \subseteq Todo /\ \A d \in D : status[d] # "waiting"
    BY <1>2, <1>6, <2>1 DEF Todo
  <2>3. Todo' = Todo \ D
    BY <1>3, <2>1 DEF Todo
  <2>4. Job' = Job
    BY <1>6 DEF Job
  <2>5. Service!Discard(D)
    BY <1>1, <2>2, <2>3, <2>4 DEF Service!Discard
  <2> QED BY <2>2, <2>5 DEF Service!Next
<1> QED BY <1>5, <1>6, ProcessTaskTakes

\* A worker is done with its task, by its answer or its end.
LEMMA DoneStep ==
  ASSUME TypeOK, DispatchInv, NEW w \in Workers, NEW t \in Task, listeners[w] = <<t>>,
         listeners' = [listeners EXCEPT ![w] = <<>>], UNCHANGED queues,
         NEW s, NEW a, Settle({t}, s, a)
  PROVE  /\ Job[w] = t /\ Job[w] # NoTask
         /\ Job' = [Job EXCEPT ![w] = NoTask]
         /\ Todo' = Todo
         /\ Service!Settle(t, s, a)
<1>1. Job[w] = t /\ t # NoTask
  BY JobIsListened, TaskAssumption
<1>2. \A v \in Workers : listeners'[v] = IF v = w THEN <<>> ELSE listeners[v]
  BY DEF TypeOK
<1>3. Job' = [v \in Workers |-> IF v = w THEN NoTask ELSE Job[v]]
  BY <1>2 DEF Job
<1>4. Job' = [Job EXCEPT ![w] = NoTask]
  BY <1>3 DEF Job
<1>5. Todo' = Todo
  BY DEF Todo, Queued, queues
<1>6. Service!Settle(t, s, a)
  BY DEF Settle, Service!Settle, TypeOK
<1> QED BY <1>1, <1>4, <1>5, <1>6

LEMMA NextService ==
  TypeOK /\ DispatchInv /\ PlaceInv /\ [Next]_vars
    => [Service!Next]_<<Todo, Job, status, answer, alive>>
<1> SUFFICES ASSUME TypeOK, DispatchInv, PlaceInv, [Next]_vars
             PROVE  Service!Next \/ UNCHANGED <<Todo, Job, status, answer, alive>>
  OBVIOUS
<1>1. ASSUME UNCHANGED <<queues, listeners>> PROVE Todo' = Todo /\ Job' = Job
  BY <1>1 DEF Todo, Job, Queued, queues
<1>2. ASSUME NEW w \in Workers, Online(w) PROVE UNCHANGED <<Todo, Job, status, answer, alive>>
  BY <1>1, <1>2 DEF Online, threads, promises
<1>3. ASSUME NEW w \in Workers, Answer(w) PROVE UNCHANGED <<Todo, Job, status, answer, alive>>
  BY <1>1, <1>3 DEF Answer, promises
<1>4. ASSUME NEW w \in Workers, OnMessage(w) PROVE Service!Next
  <2>1. PICK t \in Task : Busy(w, t)
    BY <1>4 DEF OnMessage, DispatchInv, OneInFlight, Vacant
  <2>2. listeners[w] = <<t>> /\ replies[w] = <<t>>
    BY <1>4, <2>1 DEF OnMessage, Busy
  <2>3. Range(listeners[w]) = {t} /\ Head(replies[w]) = t
    BY <2>2, RangeOfOne
  <2>4. /\ listeners' = [listeners EXCEPT ![w] = <<>>] /\ UNCHANGED queues
        /\ Settle({t}, "resolved", t)
        /\ alive /\ alive' = alive
    BY <1>4, <2>3 DEF OnMessage, EventLoop
  <2>5. Service!Finish(w)
    BY <2>2, <2>4, DoneStep DEF Service!Finish
  <2> QED BY <2>5 DEF Service!Next
<1>5. ASSUME NEW w \in Workers, OnError(w) PROVE Service!Next
  <2>1. PICK t \in Task : Busy(w, t)
    BY <1>5 DEF OnError, DispatchInv, OneInFlight, Vacant
  <2>2. listeners[w] = <<t>> /\ Range(listeners[w]) = {t}
    BY <2>1, RangeOfOne DEF Busy
  <2>3. /\ listeners' = [listeners EXCEPT ![w] = <<>>] /\ UNCHANGED queues
        /\ Settle({t}, "rejected", NoTask)
        /\ alive /\ alive' = alive
    BY <1>5, <2>2 DEF OnError, EventLoop
  <2>4. Service!Fail(w)
    BY <2>2, <2>3, DoneStep DEF Service!Fail
  <2> QED BY <2>4 DEF Service!Next
<1>6. ASSUME NEW w \in Workers, OnExit(w) PROVE Service!Next
  <2>1. Service!Die
    BY <1>1, <1>6 DEF OnExit, EventLoop, threads, promises, Service!Die
  <2> QED BY <2>1 DEF Service!Next
<1>7. ASSUME NEW w \in Workers, NEW coin \in BOOLEAN, ProcessTask(w, coin) PROVE Service!Next
  BY <1>7, ProcessTaskStep
<1>8. ASSUME NEW c \in Calls, NEW timed \in BOOLEAN, NEW prioritze \in BOOLEAN,
             RunTask(c, timed, prioritze)
      PROVE  Service!Next
  <2>1. \A u \in Task : Queued(u)' <=> Queued(u) \/ u \in {c}
    BY <1>8, RunTaskPlace
  <2>2. /\ {c} \in SUBSET Task /\ {c} # {} /\ Submit({c}, timed)
        /\ alive /\ alive' = alive /\ listeners' = listeners
    BY <1>8 DEF RunTask, EventLoop, threads, Task
  <2> QED BY <2>1, <2>2, AcceptStep
<1>9. ASSUME NEW b \in Broadcasts, RunTaskOnAllWorkers(b) PROVE Service!Next
  <2>1. \A u \in Task : Queued(u)' <=> Queued(u) \/ u \in {b} \X Workers
    BY <1>9, RunTaskOnAllWorkersPlace
  <2>2. 0 \in Workers
    BY SizeAssumption DEF Workers
  <2>3. {b} \X Workers \in SUBSET Task /\ {b} \X Workers # {}
    <3>1. \A u \in {b} \X Workers : u \in Task
      BY DEF Task, OwnTask
    <3>2. <<b, 0>> \in {b} \X Workers
      BY <2>2
    <3> QED BY <3>1, <3>2
  <2>4. /\ Submit({b} \X Workers, FALSE)
        /\ alive /\ alive' = alive /\ listeners' = listeners
    BY <1>9 DEF RunTaskOnAllWorkers, EventLoop, threads
  <2> QED BY <2>1, <2>3, <2>4, AcceptStep
<1>10. ASSUME NEW t \in Task, OnTimeout(t) PROVE Service!Next
  <2>1. Todo' = Todo /\ Job' = Job
    BY <1>1, <1>10 DEF OnTimeout, threads
  <2>2. Service!Expire(t)
    BY <1>10, <2>1 DEF OnTimeout, EventLoop, Settle, Service!Expire, Service!Settle, TypeOK
  <2> QED BY <2>2 DEF Service!Next
<1>11. CASE UNCHANGED vars
  BY <1>1, <1>11 DEF vars, threads, promises
<1> QED BY <1>2, <1>3, <1>4, <1>5, <1>6, <1>7, <1>8, <1>9, <1>10, <1>11 DEF Next, Stopped

\* Queues, listeners, mailboxes, the order of the calls of processTask and the
\* coin together do no more than the task service allows.
THEOREM PoolServesTasks == Spec => ImplementsService
<1>1. Init => Service!Init
  <2> SUFFICES ASSUME Init PROVE Service!Init
    OBVIOUS
  <2>1. \A t : ~Queued(t)
    BY NothingQueuedTwice DEF Init, Queued
  <2>2. Todo = {}
    BY <2>1 DEF Todo
  <2>3. Job = [w \in Workers |-> NoTask]
    BY DEF Init, Job
  <2> QED BY <2>2, <2>3 DEF Init, Service!Init
<1>2. TypeOK /\ DispatchInv /\ PlaceInv /\ [Next]_vars => TypeOK' /\ DispatchInv' /\ PlaceInv'
  BY NextType, NextDispatch, NextPlace
<1> QED
  BY <1>1, <1>2, InitType, InitDispatch, InitPlace, NextService, PTL
  DEF Spec, ImplementsService, Service!Spec, Service!vars
=============================================================================
