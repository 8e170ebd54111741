----------------------------- MODULE WorkerPool -----------------------------
(***************************************************************************)
(* The worker pool of src/worker-pool.ts: one main thread (the event loop) *)
(* that queues tasks and posts them to worker threads, and the worker      *)
(* threads, which answer the posted messages in order.                     *)
(*                                                                         *)
(* The main thread runs one handler at a time, to its end.  Inside a       *)
(* handler processTask is called for one worker after the other, directly  *)
(* or by emitting 'ready' / 'worker-ready'; "agenda" lists the calls the   *)
(* running handler still has to make, and no other handler starts before   *)
(* it is empty.  The worker threads run in parallel with all of that.      *)
(***************************************************************************)
EXTENDS Integers, Sequences, Functions, FiniteSetsExt

CONSTANTS
  Size,        (* number of workers                                         *)
  Calls,       (* runTask calls that can be in flight; reused when free     *)
  Broadcasts,  (* runTaskOnAllWorkers calls that can be in flight           *)
  NoTask       (* no task                                                   *)

Workers == 0 .. Size - 1

\* runTaskOnAllWorkers makes one task per worker.
OwnTask == Broadcasts \X Workers
Task == Calls \cup OwnTask

ASSUME SizeAssumption == Size \in Nat \ {0}
ASSUME TaskAssumption == NoTask \notin Task /\ Calls \cap OwnTask = {}

VARIABLES
  online,                 (* workers whose 'online' event was handled          *)
  ready,                  (* PoolWorker.ready                                  *)
  highPriorityTaskQueue,
  taskQueue,
  perWorkerTaskQueue,
  inbox,                  (* messages posted to a worker thread, unread        *)
  replies,                (* answers posted back, not yet handled              *)
  listeners,              (* tasks with a once('message') listener on a worker *)
  agenda,                 (* processTask calls left in the running handler     *)
  cancelled,              (* TaskContainer.isCanelled                          *)
  timer,                  (* the timeout of a runTask call is pending          *)
  status, answer,         (* how the promise of a task ended, and by whose     *)
                          (* result it was resolved                            *)
  failed,                 (* worker threads that emitted 'error'               *)
  alive                   (* the process is up                                 *)

queues == <<highPriorityTaskQueue, taskQueue, perWorkerTaskQueue>>
threads == <<inbox, replies, listeners>>
promises == <<cancelled, timer, status, answer>>
vars == <<online, ready, queues, threads, agenda, promises, failed, alive>>

Status == {"idle", "waiting", "resolved", "timedOut", "rejected"}

\* A call of processTask; "wake" when it comes from setReadyToWork, which
\* marks the worker ready first.
Entry == [worker : Workers, wake : BOOLEAN]
Call(w, wake) == [worker |-> w, wake |-> wake]

TypeOK ==
  /\ online \in SUBSET Workers
  /\ ready \in [Workers -> BOOLEAN]
  /\ highPriorityTaskQueue \in Seq(Calls)
  /\ taskQueue \in Seq(Calls)
  /\ perWorkerTaskQueue \in [Workers -> Seq(OwnTask)]
  /\ inbox \in [Workers -> Seq(Task)]
  /\ replies \in [Workers -> Seq(Task)]
  /\ listeners \in [Workers -> Seq(Task)]
  /\ agenda \in Seq(Entry)
  /\ cancelled \in [Task -> BOOLEAN]
  /\ timer \in [Task -> BOOLEAN]
  /\ status \in [Task -> Status]
  /\ answer \in [Task -> Task \cup {NoTask}]
  /\ failed \in SUBSET Workers
  /\ alive \in BOOLEAN

Init ==
  /\ online = {}
  /\ ready = [w \in Workers |-> FALSE]
  /\ highPriorityTaskQueue = <<>>
  /\ taskQueue = <<>>
  /\ perWorkerTaskQueue = [w \in Workers |-> <<>>]
  /\ inbox = [w \in Workers |-> <<>>]
  /\ replies = [w \in Workers |-> <<>>]
  /\ listeners = [w \in Workers |-> <<>>]
  /\ agenda = <<>>
  /\ cancelled = [t \in Task |-> FALSE]
  /\ timer = [t \in Task |-> FALSE]
  /\ status = [t \in Task |-> "idle"]
  /\ answer = [t \in Task |-> NoTask]
  /\ failed = {}
  /\ alive = TRUE

\* The event loop can start the next handler.
EventLoop == alive /\ agenda = <<>>

\* initialize() has resolved: src/markets/index.ts awaits it before any task.
\* (Mutant: the await is forgotten.)
InitializeNotAwaited == TRUE
Initialized == online = Workers

\* A queued, running or unexpired task id is not reused.
Queued(t) ==
  \/ t \in Range(highPriorityTaskQueue)
  \/ t \in Range(taskQueue)
  \/ \E w \in Workers : t \in Range(perWorkerTaskQueue[w])

Posted(t) ==
  \E w \in Workers : t \in Range(inbox[w]) \cup Range(replies[w]) \cup Range(listeners[w])

Free(t) == status[t] # "waiting" /\ ~timer[t] /\ ~Queued(t) /\ ~Posted(t)

(***************************************************************************)
(* Handlers of the main thread                                             *)
(***************************************************************************)

\* 'online': the worker's own listener emits 'ready', then the one added by
\* initialize emits 'worker-ready'.
Online(w) ==
  /\ EventLoop
  /\ w \notin online
  /\ online' = online \cup {w}
  /\ agenda' = <<Call(w, TRUE), Call(w, FALSE)>>
  /\ UNCHANGED <<ready, queues, threads, promises, failed, alive>>

\* A new promise, not settled.
Submit(S, timed) ==
  /\ \A t \in S : Free(t)
  /\ status' = [t \in Task |-> IF t \in S THEN "waiting" ELSE status[t]]
  /\ answer' = [t \in Task |-> IF t \in S THEN NoTask ELSE answer[t]]
  /\ cancelled' = [t \in Task |-> t \notin S /\ cancelled[t]]
  /\ timer' = [t \in Task |-> IF t \in S THEN timed ELSE timer[t]]

IdleWorkers == {w \in Workers : ready[w]}

\* runTask hands the first idle worker, if any, to processTask.
\* (Mutant: it only queues the task.)
NoIdleWorkerCall == <<>>
IdleWorkerCall == IF IdleWorkers = {} THEN <<>> ELSE <<Call(Min(IdleWorkers), FALSE)>>

RunTask(c, timed, prioritze) ==
  /\ EventLoop
  /\ Initialized
  /\ Submit({c}, timed)
  /\ IF prioritze
     THEN /\ highPriorityTaskQueue' = Append(highPriorityTaskQueue, c)
          /\ UNCHANGED taskQueue
     ELSE /\ taskQueue' = Append(taskQueue, c)
          /\ UNCHANGED highPriorityTaskQueue
  /\ agenda' = IdleWorkerCall
  /\ UNCHANGED <<online, ready, perWorkerTaskQueue, threads, failed, alive>>

RunTaskOnAllWorkers(b) ==
  /\ EventLoop
  /\ Initialized
  /\ Submit({b} \X Workers, FALSE)
  /\ perWorkerTaskQueue' = [w \in Workers |-> Append(perWorkerTaskQueue[w], <<b, w>>)]
  /\ \E order \in [1 .. Cardinality(IdleWorkers) -> IdleWorkers] :
       /\ \A i, j \in DOMAIN order : i < j => order[i] < order[j]
       /\ agenda' = [i \in DOMAIN order |-> Call(order[i], FALSE)]
  /\ UNCHANGED <<online, ready, highPriorityTaskQueue, taskQueue, threads, failed, alive>>

(***************************************************************************)
(* processTask(worker).  ownFirst: the per-worker queue is tried first.    *)
(* The shared queues are read, high priority first, up to the first task   *)
(* that is not cancelled; what precedes it is gone.                        *)
(***************************************************************************)
NoneSkipped(q) == DOMAIN q  \* (Mutant: cancelled tasks are not skipped.)
Live(q) == {i \in DOMAIN q : ~cancelled[q[i]]}
After(q, i) == SubSeq(q, i + 1, Len(q))
SharedLive == Live(highPriorityTaskQueue) # {} \/ Live(taskQueue) # {}

\* PoolWorker.run.  (Mutant: the worker stays marked ready.)
RunStaysReady(w, t) ==
  /\ UNCHANGED ready
  /\ listeners' = [listeners EXCEPT ![w] = Append(@, t)]
  /\ inbox' = [inbox EXCEPT ![w] = Append(@, t)]
Run(w, t) ==
  /\ ready' = [ready EXCEPT ![w] = FALSE]
  /\ listeners' = [listeners EXCEPT ![w] = Append(@, t)]
  /\ inbox' = [inbox EXCEPT ![w] = Append(@, t)]

TakeOwn(w, ownFirst) ==
  /\ perWorkerTaskQueue[w] # <<>>
  /\ ownFirst \/ ~SharedLive
  /\ Run(w, Head(perWorkerTaskQueue[w]))
  /\ perWorkerTaskQueue' = [perWorkerTaskQueue EXCEPT ![w] = Tail(@)]
  /\ highPriorityTaskQueue' = IF ownFirst THEN highPriorityTaskQueue ELSE <<>>
  /\ taskQueue' = IF ownFirst THEN taskQueue ELSE <<>>

TakeHighPriority(w, ownFirst) ==
  /\ ownFirst => perWorkerTaskQueue[w] = <<>>
  /\ Live(highPriorityTaskQueue) # {}
  /\ LET i == Min(Live(highPriorityTaskQueue)) IN
       /\ Run(w, highPriorityTaskQueue[i])
       /\ highPriorityTaskQueue' = After(highPriorityTaskQueue, i)
  /\ UNCHANGED <<taskQueue, perWorkerTaskQueue>>

TakeNormal(w, ownFirst) ==
  /\ ownFirst => perWorkerTaskQueue[w] = <<>>
  /\ Live(highPriorityTaskQueue) = {}
  /\ Live(taskQueue) # {}
  /\ LET i == Min(Live(taskQueue)) IN
       /\ Run(w, taskQueue[i])
       /\ taskQueue' = After(taskQueue, i)
  /\ highPriorityTaskQueue' = <<>>
  /\ UNCHANGED perWorkerTaskQueue

TakeNothing(w, wake) ==
  /\ perWorkerTaskQueue[w] = <<>>
  /\ ~SharedLive
  /\ ready' = [ready EXCEPT ![w] = wake \/ @]
  /\ highPriorityTaskQueue' = <<>>
  /\ taskQueue' = <<>>
  /\ UNCHANGED <<perWorkerTaskQueue, inbox, listeners>>

\* Math.random() < 0.5.  (Mutants: one of the two orders is never used.)
AlwaysOwnFirst(coin) == TRUE
AlwaysSharedFirst(coin) == FALSE
OwnFirst(coin) == coin

ProcessTask(w, coin) ==
  /\ alive
  /\ agenda # <<>>
  /\ Head(agenda).worker = w
  /\ agenda' = Tail(agenda)
  /\ \/ TakeOwn(w, OwnFirst(coin))
     \/ TakeHighPriority(w, OwnFirst(coin))
     \/ TakeNormal(w, OwnFirst(coin))
     \/ TakeNothing(w, Head(agenda).wake)
  /\ UNCHANGED <<online, replies, promises, failed, alive>>

\* Only the first resolve or reject of a promise counts.
Settle(S, s, a) ==
  /\ status' = [t \in Task |-> IF t \in S /\ status[t] = "waiting" THEN s ELSE status[t]]
  /\ answer' = [t \in Task |-> IF t \in S /\ status[t] = "waiting" THEN a ELSE answer[t]]

\* 'message': every once('message') listener of the worker runs, in order;
\* each one marks the worker ready, processes the next task and resolves its
\* own task with this message.
OnMessage(w) ==
  /\ EventLoop
  /\ replies[w] # <<>>
  /\ replies' = [replies EXCEPT ![w] = Tail(@)]
  /\ listeners' = [listeners EXCEPT ![w] = <<>>]
  /\ agenda' = [i \in DOMAIN listeners[w] |-> Call(w, TRUE)]
  /\ Settle(Range(listeners[w]), "resolved", Head(replies[w]))
  /\ UNCHANGED <<online, ready, queues, inbox, cancelled, timer, failed, alive>>

\* 'error': the thread threw while serving a message.  The worker does not
\* become ready again, and its 'exit' event follows.
OnError(w) ==
  /\ EventLoop
  /\ inbox[w] # <<>>
  /\ replies[w] = <<>>
  /\ failed' = failed \cup {w}
  /\ inbox' = [inbox EXCEPT ![w] = <<>>]
  /\ listeners' = [listeners EXCEPT ![w] = <<>>]
  /\ Settle(Range(listeners[w]), "rejected", NoTask)
  /\ UNCHANGED <<online, ready, queues, replies, agenda, cancelled, timer, alive>>

\* 'exit': the handler throws and nobody catches it.
OnExit(w) ==
  /\ EventLoop
  /\ w \in failed
  /\ alive' = FALSE
  /\ UNCHANGED <<online, ready, queues, threads, agenda, promises, failed>>

\* The timeout of runTask.  The task stays where it is.
OnTimeout(t) ==
  /\ EventLoop
  /\ timer[t]
  /\ timer' = [timer EXCEPT ![t] = FALSE]
  /\ cancelled' = [cancelled EXCEPT ![t] = TRUE]
  /\ Settle({t}, "timedOut", NoTask)
  /\ UNCHANGED <<online, ready, queues, threads, agenda, failed, alive>>

(***************************************************************************)
(* The worker thread answers the message at the head of its inbox.         *)
(***************************************************************************)
Answer(w) ==
  /\ alive
  /\ inbox[w] # <<>>
  /\ inbox' = [inbox EXCEPT ![w] = Tail(@)]
  /\ replies' = [replies EXCEPT ![w] = Append(@, Head(inbox[w]))]
  /\ UNCHANGED <<online, ready, queues, listeners, agenda, promises, failed, alive>>

\* The process is gone; nothing but this can happen, and TLC checks that no
\* other state is stuck.
Stopped == ~alive /\ UNCHANGED vars

Next ==
  \/ \E w \in Workers : Online(w) \/ OnMessage(w) \/ OnError(w) \/ OnExit(w) \/ Answer(w)
  \/ \E w \in Workers, coin \in BOOLEAN : ProcessTask(w, coin)
  \/ \E c \in Calls, timed, prioritze \in BOOLEAN : RunTask(c, timed, prioritze)
  \/ \E b \in Broadcasts : RunTaskOnAllWorkers(b)
  \/ \E t \in Task : OnTimeout(t)
  \/ Stopped

Spec == Init /\ [][Next]_vars

(***************************************************************************)
(* Fairness.  Worker threads run.  Every source of events of the loop is   *)
(* polled again and again although other handlers keep running, hence the  *)
(* strong form; and a fair coin comes up both ways for each worker.        *)
(***************************************************************************)
Fairness ==
  /\ \A w \in Workers :
       /\ WF_vars(Answer(w))
       /\ SF_vars(Online(w))
       /\ SF_vars(OnMessage(w))
       /\ SF_vars(OnExit(w))
       /\ \A coin \in BOOLEAN : SF_vars(ProcessTask(w, coin))
  /\ \A t \in Calls : SF_vars(OnTimeout(t))

FairSpec == Spec /\ Fairness
-----------------------------------------------------------------------------
(***************************************************************************)
(* Properties                                                              *)
(***************************************************************************)

\* A promise is resolved only with the result of its own task: no reply
\* reaches the once('message') listener of another task (run, lines 35-56).
ResultOfOwnTask == \A t \in Task : answer[t] \in {t, NoTask}

\* A worker never has two tasks in flight, and a worker marked ready has none,
\* so the next reply always belongs to the one registered listener.
OneTaskPerWorker ==
  \A w \in Workers :
    /\ Len(listeners[w]) <= 1
    /\ replies[w] \o inbox[w] = listeners[w]
    /\ ready[w] => listeners[w] = <<>>

\* Between handlers no worker idles while it could run something: neither its
\* own queue nor a shared queue holds a task that is still wanted.
WorkConserving ==
  EventLoop => \A w \in IdleWorkers : perWorkerTaskQueue[w] = <<>> /\ ~SharedLive

\* Neither kind of task starves the other (comment at line 129): a task for one
\* worker and a high-priority task are settled whatever else keeps arriving,
\* unless a worker failure takes the process down.
BroadcastServed == \A t \in OwnTask : status[t] = "waiting" ~> (status[t] # "waiting" \/ ~alive)
PriorityServed ==
  \A c \in Calls : c \in Range(highPriorityTaskQueue) /\ status[c] = "waiting"
                     ~> (status[c] # "waiting" \/ ~alive)

(***************************************************************************)
(* The inductive invariant behind ResultOfOwnTask and OneTaskPerWorker.    *)
(* processTask does not look at "ready", so a second call for a worker     *)
(* that was just given a task would post another one.  What rules this out *)
(* is that a handler calls it twice for one worker only when nothing is    *)
(* queued: on 'online', before initialize() has resolved.                  *)
(***************************************************************************)
NothingQueued ==
  /\ highPriorityTaskQueue = <<>>
  /\ taskQueue = <<>>
  /\ \A w \in Workers : perWorkerTaskQueue[w] = <<>>

Vacant(w) == listeners[w] = <<>> /\ inbox[w] = <<>> /\ replies[w] = <<>>

Busy(w, t) ==
  /\ ~ready[w]
  /\ listeners[w] = <<t>>
  /\ \/ inbox[w] = <<t>> /\ replies[w] = <<>>
     \/ inbox[w] = <<>> /\ replies[w] = <<t>>

OneInFlight == \A w \in Workers : Vacant(w) \/ \E t \in Task : Busy(w, t)

QuietBeforeInitialized ==
  ~Initialized => NothingQueued /\ \A w \in Workers : listeners[w] = <<>>

AgendaIsSafe ==
  /\ \A i \in DOMAIN agenda : listeners[agenda[i].worker] = <<>>
  /\ \A i, j \in DOMAIN agenda :
       i # j /\ agenda[i].worker = agenda[j].worker => NothingQueued

DispatchInv == OneInFlight /\ QuietBeforeInitialized /\ AgendaIsSafe /\ ResultOfOwnTask

(***************************************************************************)
(* The inductive invariant behind WorkConserving.  In the middle of a      *)
(* handler an idle worker may have work, if the handler is still going to  *)
(* call processTask for it; and while a shared task and an idle worker are *)
(* there at once, that is the one task runTask has just queued and the one *)
(* worker it calls processTask for.                                        *)
(***************************************************************************)
OwnWorkIsCalled ==
  \A w \in IdleWorkers : perWorkerTaskQueue[w] # <<>> => \E i \in DOMAIN agenda : agenda[i].worker = w

OnlyTheLast(q) == Live(q) \subseteq {Len(q)}
OneSharedTask ==
  \/ OnlyTheLast(highPriorityTaskQueue) /\ Live(taskQueue) = {}
  \/ Live(highPriorityTaskQueue) = {} /\ OnlyTheLast(taskQueue)

SharedWorkIsCalled ==
  SharedLive /\ IdleWorkers # {} =>
    /\ OneSharedTask
    /\ \E w \in IdleWorkers : agenda = <<Call(w, FALSE)>> /\ perWorkerTaskQueue[w] = <<>>

WorkInv == OwnWorkIsCalled /\ SharedWorkIsCalled

(***************************************************************************)
(* What the refinement below needs besides DispatchInv: a task is queued   *)
(* once, and not while a worker has it; a queued task is cancelled as soon *)
(* as nobody waits for it; the tasks of a broadcast have no timeout.       *)
(***************************************************************************)
Once(q) == \A i, j \in DOMAIN q : q[i] = q[j] => i = j

QueuedOnce ==
  /\ Once(highPriorityTaskQueue) /\ Once(taskQueue)
  /\ Range(highPriorityTaskQueue) \cap Range(taskQueue) = {}
  /\ \A w \in Workers : Once(perWorkerTaskQueue[w]) /\ \A t \in Range(perWorkerTaskQueue[w]) : t[2] = w

QueuedOrRunning == \A t \in Task, w \in Workers : Queued(t) => t \notin Range(listeners[w])

CancelledIfExpired == \A t \in Task : Queued(t) => (cancelled[t] <=> status[t] # "waiting")

BroadcastsHaveNoTimeout == \A t \in OwnTask : ~timer[t] /\ ~cancelled[t]

PlaceInv == QueuedOnce /\ QueuedOrRunning /\ CancelledIfExpired /\ BroadcastsHaveNoTimeout

(***************************************************************************)
(* The pool implements the abstract task service.                          *)
(***************************************************************************)
Todo == {t \in Task : Queued(t)}
Job == [w \in Workers |-> IF listeners[w] = <<>> THEN NoTask ELSE Head(listeners[w])]

Service == INSTANCE TaskService WITH todo <- Todo, job <- Job

ImplementsService == Service!Spec
=============================================================================
