---------------------------- MODULE HighWaterMark ----------------------------
(***************************************************************************)
(* dropBeyondHighWaterMark and prioritize of src/utils.ts, with their      *)
(* queues AsyncQueue and AsyncPriorityQueue: consume() takes every item of *)
(* the source at once and puts it into the queue or drops it; the          *)
(* generator gets one item after the other for its consumer and waits, as  *)
(* a resolver in the queue, while there is none.                           *)
(***************************************************************************)
EXTENDS Integers, Sequences, SequencesExt

CONSTANTS
  MaxArrivals,    (* bound on the items the source yields              *)
  Rank,           (* Rank[x]: the priority of item x                   *)
  highWaterMark

\* Items are numbered in the order of their arrival.
Item == 1 .. MaxArrivals

ASSUME MaxArrivalsAssumption == MaxArrivals \in Nat
ASSUME ParameterAssumption ==
  /\ Rank \in [Item -> Nat]
  /\ highWaterMark \in Nat

VARIABLES
  prioritized,      (* the generator is prioritize, not dropBeyondHighWaterMark *)
  arrived,          (* items the source has yielded                             *)
  queue,            (* _queue, or _priorityQueue in order of arrival            *)
  waitingResolvers, (* how many                                                 *)
  resolved,         (* items of promises that are resolved, not yet resumed     *)
  consumer,         (* "asking": it awaits the next item of the generator       *)
  delivered,        (* items yielded to the consumer, in order                  *)
  lost              (* items dropped                                            *)

vars == <<prioritized, arrived, queue, waitingResolvers, resolved, consumer, delivered, lost>>

TypeOK ==
  /\ prioritized \in BOOLEAN
  /\ arrived \in 0 .. MaxArrivals
  /\ queue \in Seq(Item)
  /\ Len(queue) <= highWaterMark
  /\ waitingResolvers \in {0, 1}
  /\ resolved \in Seq(Item)
  /\ consumer \in {"busy", "asking"}
  /\ delivered \in Seq(Item)
  /\ lost \in SUBSET Item

Init ==
  /\ prioritized \in BOOLEAN
  /\ arrived = 0
  /\ queue = <<>>
  /\ waitingResolvers = 0
  /\ resolved = <<>>
  /\ consumer = "busy"
  /\ delivered = <<>>
  /\ lost = {}

\* put / enqueue.  (Mutant: a waiting resolver is not looked at.)
PutWithoutResolver(x) ==
  queue' = Append(queue, x) /\ UNCHANGED <<waitingResolvers, resolved>>
Put(x) ==
  IF waitingResolvers > 0
  THEN /\ waitingResolvers' = waitingResolvers - 1
       /\ resolved' = Append(resolved, x)
       /\ UNCHANGED queue
  ELSE queue' = Append(queue, x) /\ UNCHANGED <<waitingResolvers, resolved>>

\* consume().
HasRoom == Len(queue) < highWaterMark

Arrive ==
  /\ arrived < MaxArrivals
  /\ arrived' = arrived + 1
  /\ IF HasRoom
     THEN Put(arrived + 1) /\ UNCHANGED lost
     ELSE lost' = lost \cup {arrived + 1} /\ UNCHANGED <<queue, waitingResolvers, resolved>>
  /\ UNCHANGED <<prioritized, consumer, delivered>>

\* The item to dequeue: the oldest, or one of the highest rank.  (Mutant:
\* always the oldest.)
Oldest(q) == DOMAIN q \cap {1}
First(q) ==
  IF prioritized
  THEN {i \in DOMAIN q : \A j \in DOMAIN q : Rank[q[j]] <= Rank[q[i]]}
  ELSE DOMAIN q \cap {1}

\* The consumer asks for the next item: get() / dequeue() resolves at once or
\* leaves a resolver.
Ask ==
  /\ consumer = "busy"
  /\ consumer' = "asking"
  /\ \/ \E i \in First(queue) :
          /\ resolved' = Append(resolved, queue[i])
          /\ queue' = RemoveAt(queue, i)
          /\ UNCHANGED waitingResolvers
     \/ /\ queue = <<>>
        /\ waitingResolvers' = waitingResolvers + 1
        /\ UNCHANGED <<queue, resolved>>
  /\ UNCHANGED <<prioritized, arrived, delivered, lost>>

\* The generator resumes and yields.
Yield ==
  /\ consumer = "asking"
  /\ resolved # <<>>
  /\ delivered' = Append(delivered, Head(resolved))
  /\ resolved' = Tail(resolved)
  /\ consumer' = "busy"
  /\ UNCHANGED <<prioritized, arrived, queue, waitingResolvers, lost>>

\* The source may be silent for ever.
Silent == arrived = MaxArrivals /\ UNCHANGED vars

Next == Arrive \/ Ask \/ Yield \/ Silent

Spec == Init /\ [][Next]_vars
-----------------------------------------------------------------------------
(***************************************************************************)
(* Properties                                                              *)
(***************************************************************************)

\* The consumer never waits beside a queued item: whenever a resolver is in
\* the queue, no item is, so put may hand its item to the resolver without
\* overtaking anything (lines 9-18), and get never leaves one behind.
NoneWaitsBesideAnItem ==
  /\ waitingResolvers > 0 => queue = <<>>
  /\ waitingResolvers + Len(resolved) = IF consumer = "asking" THEN 1 ELSE 0

\* The generator is the lossy queue: every item that arrives is accepted, passed
\* on or lost, once; it is bounded by the mark, loses only when full, and hands
\* out in order.
Buffer == INSTANCE LossyQueue WITH
  content <- queue, handedOut <- delivered \o resolved
ImplementsLossyQueue == Buffer!Spec
=============================================================================
