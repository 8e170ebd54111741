----------------------------- MODULE RpcLimiter -----------------------------
(***************************************************************************)
(* coalesceFetch and TokenBucket of src/clients/rpc.ts: a request draws a  *)
(* token and is posted alone, or joins requestQueue; whenever the bucket   *)
(* is refilled the queue is posted in batches, and the items of a batch's  *)
(* answer are handed to the requests by their ids.                         *)
(*                                                                         *)
(* coalesceRequests is started by an event handler that does not await it: *)
(* what it throws ends the process (Node 16 of the Dockerfile).            *)
(***************************************************************************)
EXTENDS Integers, Sequences, FiniteSets, SequencesExt

CONSTANTS
  MaxRequests,         (* bound on the requests                   *)
  capacity,            (* RPC_REQUESTS_PER_SECOND                 *)
  RPC_MAX_BATCH_SIZE

ASSUME LimiterAssumption ==
  /\ MaxRequests \in Nat
  /\ capacity \in Nat \ {0}
  /\ RPC_MAX_BATCH_SIZE \in Nat \ {0}

\* Requests are numbered in the order of their calls of fetch.
Request == 1 .. MaxRequests

VARIABLES
  asked,         (* calls of fetch so far                                          *)
  tokens,
  due,           (* whole intervals since lastRefill; more than capacity are alike *)
  requestQueue,
  posts,         (* HTTP requests that await their response                        *)
  settled,       (* how the promise of each request was settled                    *)
  process,
  allowance      (* history: what a bucket of this capacity would hold from which  *)
                 (* every HTTP request draws a token                               *)

clock == <<due, allowance>>
vars == <<asked, tokens, clock, requestQueue, posts, settled, process>>

\* A promise is pending, is settled by a failure (a response that is not ok, a
\* rejection), or resolved with the answer to a request.
Pending == 0
Failure == -1
Outcome == {Pending, Failure} \cup Request
\* A post: of one request, with the caller's options, or of coalesced ones.
Post == [coalesced : BOOLEAN, requests : Seq(Request)]

TypeOK ==
  /\ asked \in 0 .. MaxRequests
  /\ tokens \in 0 .. capacity
  /\ due \in 0 .. capacity
  /\ requestQueue \in Seq(Request)
  /\ posts \in SUBSET Post
  /\ \A p \in posts : Len(p.requests) \in 1 .. RPC_MAX_BATCH_SIZE
  /\ settled \in [Request -> Outcome]
  /\ process \in {"running", "dead"}
  /\ allowance \in Int

Init ==
  /\ asked = 0
  /\ tokens = capacity
  /\ due = 0
  /\ requestQueue = <<>>
  /\ posts = {}
  /\ settled = [r \in Request |-> Pending]
  /\ process = "running"
  /\ allowance = capacity

Least(a, b) == IF a <= b THEN a ELSE b

(***************************************************************************)
(* Sending                                                                 *)
(***************************************************************************)

\* How many batches the refill handler starts.  (Mutant: only full batches.)
FullBatches(q) == Len(q) \div RPC_MAX_BATCH_SIZE
BatchesNeeded(q) == (Len(q) + RPC_MAX_BATCH_SIZE - 1) \div RPC_MAX_BATCH_SIZE

\* What the n-th call of coalesceRequests takes from the queue, and what n
\* calls leave of it.
Batch(q, n) ==
  [coalesced |-> TRUE,
   requests |-> SubSeq(q, (n - 1) * RPC_MAX_BATCH_SIZE + 1, Least(n * RPC_MAX_BATCH_SIZE, Len(q)))]
After(q, n) == SubSeq(q, n * RPC_MAX_BATCH_SIZE + 1, Len(q))

\* refill(): the tokens it leaves, the posts and the queue its handler leaves.
Refilled == Least(capacity, tokens + due)
Started == IF due > 0 THEN BatchesNeeded(requestQueue) ELSE 0
Batches == {Batch(requestQueue, n) : n \in 1 .. Started}
Uncoalesced == After(requestQueue, Started)

\* The timer of the bucket.
Refill ==
  /\ process = "running"
  /\ due > 0
  /\ due' = 0
  /\ tokens' = Refilled
  /\ posts' = posts \cup Batches
  /\ requestQueue' = Uncoalesced
  /\ allowance' = allowance - Started
  /\ UNCHANGED <<asked, settled, process>>

\* fetch: tryConsume refills first.
Alone(r) == [coalesced |-> FALSE, requests |-> <<r>>]
Fetch ==
  /\ process = "running"
  /\ asked < MaxRequests
  /\ asked' = asked + 1
  /\ due' = 0
  /\ IF Refilled >= 1
     THEN /\ tokens' = Refilled - 1
          /\ posts' = posts \cup Batches \cup {Alone(asked + 1)}
          /\ requestQueue' = Uncoalesced
          /\ allowance' = allowance - Started - 1
     ELSE /\ tokens' = Refilled
          /\ posts' = posts \cup Batches
          /\ requestQueue' = Append(Uncoalesced, asked + 1)
          /\ allowance' = allowance - Started
  /\ UNCHANGED <<settled, process>>

\* An interval passes.
Tick ==
  /\ process = "running"
  /\ due' = Least(capacity, due + 1)
  /\ allowance' = Least(capacity, allowance + 1)
  /\ UNCHANGED <<asked, tokens, requestQueue, posts, settled, process>>

(***************************************************************************)
(* Answers                                                                 *)
(***************************************************************************)

\* Which request gets the k-th item of an answer whose k-th item answers
\* p.requests[order[k]] and carries its id.  (Mutant: the k-th.)
ByPosition(p, order, k) == p.requests[k]
Resolved(p, order, k) == p.requests[order[k]]

Settle(p, order, items) ==
  settled' = [r \in Request |->
    IF \E k \in items : Resolved(p, order, k) = r
    THEN p.requests[order[CHOOSE k \in items : Resolved(p, order, k) = r]]
    ELSE settled[r]]

Orders(p) == {o \in [DOMAIN p.requests -> DOMAIN p.requests] : IsInjective(o)}

\* The response is ok; the items of a batch come in any order.
Answered(p) ==
  /\ \E order \in Orders(p) : Settle(p, order, DOMAIN p.requests)
  /\ UNCHANGED process

\* It is not: whoever waits for it gets it.  (Mutant: the first of a batch.)
TheFirst(p) == {Head(p.requests)}
Waiting(p) == Range(p.requests)
NotOk(p) ==
  /\ settled' = [r \in Request |-> IF r \in Waiting(p) THEN Failure ELSE settled[r]]
  /\ UNCHANGED process

\* The connection fails.
Failed(p) ==
  IF p.coalesced
  THEN process' = "dead" /\ UNCHANGED settled
  ELSE /\ settled' = [r \in Request |-> IF r \in Range(p.requests) THEN Failure ELSE settled[r]]
       /\ UNCHANGED process

\* The response to a batch is not an array of items with the ids of the batch:
\* the loop throws after the items before that.
Garbled(p) ==
  /\ p.coalesced
  /\ \E order \in Orders(p) : \E n \in 0 .. Len(p.requests) - 1 : Settle(p, order, 1 .. n)
  /\ process' = "dead"

Respond(p) ==
  /\ process = "running"
  /\ p \in posts
  /\ posts' = posts \ {p}
  /\ Answered(p) \/ NotOk(p) \/ Failed(p) \/ Garbled(p)
  /\ UNCHANGED <<asked, tokens, clock, requestQueue>>

Dead == process = "dead" /\ UNCHANGED vars

Next == Fetch \/ Tick \/ Refill \/ (\E p \in posts : Respond(p)) \/ Dead

Spec == Init /\ [][Next]_vars

\* Time passes, the bucket's timer runs, and every post comes to an end (the
\* agent's timeout of 4 s).
Fairness ==
  /\ WF_vars(Tick)
  /\ WF_vars(Refill)
  /\ \A r \in Request : WF_vars(\E p \in posts : r \in Range(p.requests) /\ Respond(p))

FairSpec == Spec /\ Fairness
-----------------------------------------------------------------------------
(***************************************************************************)
(* Properties                                                              *)
(***************************************************************************)

\* Requests are posted in the order they were made: those that wait are the
\* last ones made, in order, so none made later was posted (lines 139-158).
NoOvertaking ==
  \A i \in DOMAIN requestQueue : requestQueue[i] = asked - Len(requestQueue) + i

\* Nothing waits while there is a token: a refill empties the queue whatever
\* its length (lines 139-145).
QueuedForTokens == requestQueue # <<>> => tokens = 0

\* Every request made is in the queue, in one post, or settled, unless the
\* process is dead; none is posted twice or after it was settled.
Holders(r) == {p \in posts : r \in Range(p.requests)}
EachRequestOnce ==
  process = "running" =>
    \A r \in 1 .. asked :
      /\ settled[r] = Pending <=> r \in Range(requestQueue) \/ Holders(r) # {}
      /\ Cardinality(Holders(r)) <= 1
      /\ ~(r \in Range(requestQueue) /\ Holders(r) # {})

\* A request never gets the answer to another one, in whatever order a batch
\* is answered (lines 125-132).
OwnAnswer == \A r \in Request : settled[r] \in Request => settled[r] = r

\* Every request is settled, or the process dies of a batch (line 142).
EveryRequestSettled ==
  \A r \in Request : asked >= r ~> settled[r] # Pending \/ process = "dead"

\* What .env.example says of RPC_REQUESTS_PER_SECOND: a rate limit for RPC
\* requests.  HTTP requests never exceed a token bucket of that rate.
RateLimited == allowance >= 0
=============================================================================
