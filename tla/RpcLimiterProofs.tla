-------------------------- MODULE RpcLimiterProofs --------------------------
(***************************************************************************)
(* Proofs about RpcLimiter for every rate, batch size and number of        *)
(* requests.                                                               *)
(***************************************************************************)
EXTENDS RpcLimiter, FiniteSetTheorems, SequenceTheorems, TLAPS

LimiterInv == TypeOK /\ NoOvertaking /\ QueuedForTokens /\ OwnAnswer

\* A refill starts enough batches for the whole queue, and none is empty.
LEMMA EnoughBatches ==
  ASSUME NEW n \in Nat, NEW b \in Nat \ {0}
  PROVE  /\ (n + b - 1) \div b \in Nat
         /\ ((n + b - 1) \div b) * b >= n
         /\ \A m \in 1 .. (n + b - 1) \div b : (m - 1) * b + 1 <= n
<1> DEFINE k == (n + b - 1) \div b
<1>1. n + b - 1 \in Nat
  OBVIOUS
<1>2. k \in Nat
  BY <1>1, SMT
<1>3. k * b + ((n + b - 1) % b) = n + b - 1 /\ (n + b - 1) % b \in 0 .. b - 1
  BY <1>1, SMT
<1>4. ASSUME NEW m \in 1 .. k PROVE (m - 1) * b + 1 <= n
  <2>1. k * b <= n + b - 1
    BY <1>1, <1>2, <1>3, SMT
  <2>2. m * b <= k * b
    BY <1>2, SMT
  <2>3. (m - 1) * b = m * b - b
    BY <1>2, SMT
  <2> HIDE DEF k
  <2> QED BY <1>2, <2>1, <2>2, <2>3, SMT
<1> QED BY <1>1, <1>2, <1>3, <1>4, SMT

\* A batch takes between one and RPC_MAX_BATCH_SIZE requests of the queue.
LEMMA BatchTyped ==
  ASSUME NEW q \in Seq(Request), NEW n \in 1 .. BatchesNeeded(q)
  PROVE  Batch(q, n) \in Post /\ Len(Batch(q, n).requests) \in 1 .. RPC_MAX_BATCH_SIZE
<1> DEFINE lo == (n - 1) * RPC_MAX_BATCH_SIZE + 1
           hi == Least(n * RPC_MAX_BATCH_SIZE, Len(q))
<1>1. Len(q) \in Nat /\ RPC_MAX_BATCH_SIZE \in Nat \ {0}
  BY LimiterAssumption
<1>2. BatchesNeeded(q) \in Nat /\ n \in Nat \ {0}
  BY <1>1, EnoughBatches DEF BatchesNeeded
<1>3. lo <= Len(q)
  BY <1>1, EnoughBatches DEF BatchesNeeded
<1>4. n * RPC_MAX_BATCH_SIZE = lo - 1 + RPC_MAX_BATCH_SIZE /\ lo \in Nat \ {0}
  BY <1>1, <1>2, SMT
<1>5. hi \in lo .. Len(q) /\ hi <= lo - 1 + RPC_MAX_BATCH_SIZE
  <2> HIDE DEF lo
  <2> QED BY <1>1, <1>3, <1>4 DEF Least
<1>6. SubSeq(q, lo, hi) \in Seq(Request) /\ Len(SubSeq(q, lo, hi)) = hi - lo + 1
  <2> HIDE DEF lo, hi
  <2> QED BY <1>1, <1>4, <1>5
<1>7. Batch(q, n) = [coalesced |-> TRUE, requests |-> SubSeq(q, lo, hi)]
  BY DEF Batch
<1> HIDE DEF lo, hi
<1>8. Batch(q, n).requests = SubSeq(q, lo, hi)
  <2>1. \A s : [coalesced |-> TRUE, requests |-> s].requests = s
    OBVIOUS
  <2> QED BY <1>7, <2>1
<1>9. hi - lo + 1 \in 1 .. RPC_MAX_BATCH_SIZE
  BY <1>1, <1>4, <1>5
<1> QED BY <1>6, <1>7, <1>8, <1>9 DEF Post

\* A refill leaves nothing in the queue.
LEMMA Drained ==
  ASSUME NEW q \in Seq(Request)
  PROVE  /\ After(q, BatchesNeeded(q)) = <<>>
         /\ After(q, 0) = q
<1>1. Len(q) \in Nat /\ RPC_MAX_BATCH_SIZE \in Nat \ {0}
  BY LimiterAssumption
<1>2. BatchesNeeded(q) \in Nat /\ BatchesNeeded(q) * RPC_MAX_BATCH_SIZE >= Len(q)
  BY <1>1, EnoughBatches DEF BatchesNeeded
<1>3. PICK x \in Nat : x = BatchesNeeded(q) * RPC_MAX_BATCH_SIZE
  BY <1>1, <1>2, SMT
<1>4. SubSeq(q, x + 1, Len(q)) = <<>>
  BY <1>1, <1>2, <1>3
<1>5. SubSeq(q, 1, Len(q)) = q
  OBVIOUS
<1>6. 0 * RPC_MAX_BATCH_SIZE + 1 = 1
  BY <1>1
<1> QED BY <1>3, <1>4, <1>5, <1>6 DEF After

\* What a refill leaves.
LEMMA RefillEffect ==
  ASSUME TypeOK
  PROVE  /\ Started \in Nat
         /\ Refilled \in 0 .. capacity
         /\ Uncoalesced = IF due > 0 THEN <<>> ELSE requestQueue
         /\ due > 0 => Refilled > 0
         /\ due = 0 => Refilled = tokens
         /\ Batches \subseteq Post
         /\ \A p \in Batches : Len(p.requests) \in 1 .. RPC_MAX_BATCH_SIZE
<1>1. Len(requestQueue) \in Nat /\ RPC_MAX_BATCH_SIZE \in Nat \ {0} /\ capacity \in Nat \ {0}
  BY LimiterAssumption DEF TypeOK
<1>2. BatchesNeeded(requestQueue) \in Nat
  BY <1>1, EnoughBatches DEF BatchesNeeded
<1>3. Started \in Nat
  BY <1>2 DEF Started
<1>4. Refilled \in 0 .. capacity /\ (due > 0 => Refilled > 0) /\ (due = 0 => Refilled = tokens)
  BY <1>1 DEF Refilled, Least, TypeOK
<1>5. Uncoalesced = IF due > 0 THEN <<>> ELSE requestQueue
  BY Drained DEF Uncoalesced, Started, TypeOK
<1>6. ASSUME NEW n \in 1 .. Started
      PROVE  n \in 1 .. BatchesNeeded(requestQueue)
  BY <1>2 DEF Started
<1>7. ASSUME NEW p \in Batches
      PROVE  p \in Post /\ Len(p.requests) \in 1 .. RPC_MAX_BATCH_SIZE
  BY <1>6, BatchTyped DEF Batches, TypeOK
<1> QED BY <1>3, <1>4, <1>5, <1>7

LEMMA InitInv == Init => LimiterInv
  BY LimiterAssumption
     DEF Init, LimiterInv, TypeOK, NoOvertaking, QueuedForTokens, OwnAnswer, Outcome, Pending, Request, Post

\* The step of a refill alone.
LEMMA RefillStep == LimiterInv /\ Refill => LimiterInv'
<1> SUFFICES ASSUME LimiterInv, Refill PROVE LimiterInv'
  OBVIOUS
<1>1. TypeOK /\ NoOvertaking /\ QueuedForTokens /\ OwnAnswer
  BY DEF LimiterInv
<1>2. due > 0 /\ due' = 0 /\ tokens' = Refilled /\ posts' = posts \cup Batches
      /\ requestQueue' = <<>> /\ allowance' = allowance - Started /\ UNCHANGED <<asked, settled, process>>
  BY <1>1, RefillEffect DEF Refill
<1>3. TypeOK'
  BY <1>1, <1>2, RefillEffect, LimiterAssumption DEF TypeOK
<1> QED BY <1>1, <1>2, <1>3 DEF LimiterInv, NoOvertaking, QueuedForTokens, OwnAnswer

\* A request that finds a token finds the queue empty, one that finds none
\* joins its end.
LEMMA FetchStep == LimiterInv /\ Fetch => LimiterInv'
<1> SUFFICES ASSUME LimiterInv, Fetch PROVE LimiterInv'
  OBVIOUS
<1>1. TypeOK /\ NoOvertaking /\ QueuedForTokens /\ OwnAnswer
  BY DEF LimiterInv
<1>2. asked + 1 \in Request /\ asked' = asked + 1 /\ asked' \in 0 .. MaxRequests /\ due' = 0
  BY <1>1, LimiterAssumption DEF TypeOK, Fetch, Request
<1>3. UNCHANGED <<settled, process>>
  BY DEF Fetch
<1>4. CASE Refilled >= 1
  <2>1. tokens' = Refilled - 1 /\ posts' = posts \cup Batches \cup {Alone(asked + 1)}
        /\ requestQueue' = Uncoalesced /\ allowance' = allowance - Started - 1
    BY <1>4 DEF Fetch
  <2>2. requestQueue' = <<>>
    BY <1>1, <1>4, <2>1, RefillEffect DEF QueuedForTokens, TypeOK
  <2>3. Alone(asked + 1) \in Post /\ Len(Alone(asked + 1).requests) \in 1 .. RPC_MAX_BATCH_SIZE
    BY <1>2, LimiterAssumption DEF Alone, Post
  <2>4. posts' \in SUBSET Post /\ \A p \in posts' : Len(p.requests) \in 1 .. RPC_MAX_BATCH_SIZE
    BY <1>1, <2>1, <2>3, RefillEffect DEF TypeOK
  <2>5. tokens' \in 0 .. capacity /\ allowance' \in Int
    BY <1>1, <1>4, <2>1, RefillEffect, LimiterAssumption DEF TypeOK
  <2>6. TypeOK'
    BY <1>1, <1>2, <1>3, <2>2, <2>4, <2>5, LimiterAssumption DEF TypeOK
  <2> QED BY <1>1, <1>3, <2>2, <2>6 DEF LimiterInv, NoOvertaking, QueuedForTokens, OwnAnswer
<1>5. CASE ~(Refilled >= 1)
  <2>1. tokens' = Refilled /\ posts' = posts \cup Batches
        /\ requestQueue' = Append(Uncoalesced, asked + 1) /\ allowance' = allowance - Started
    BY <1>5 DEF Fetch
  <2>2. Refilled = 0 /\ due = 0
    BY <1>1, <1>5, RefillEffect, LimiterAssumption DEF TypeOK
  <2>3. requestQueue' = Append(requestQueue, asked + 1)
    BY <1>1, <2>1, <2>2, RefillEffect
  <2>4. /\ requestQueue' \in Seq(Request) /\ Len(requestQueue') = Len(requestQueue) + 1
        /\ \A i \in 1 .. Len(requestQueue) : requestQueue'[i] = requestQueue[i]
        /\ requestQueue'[Len(requestQueue) + 1] = asked + 1
    BY <1>1, <1>2, <2>3 DEF TypeOK
  <2>5. TypeOK'
    <3>1. posts' \in SUBSET Post /\ \A p \in posts' : Len(p.requests) \in 1 .. RPC_MAX_BATCH_SIZE
      BY <1>1, <2>1, RefillEffect DEF TypeOK
    <3>2. tokens' \in 0 .. capacity /\ allowance' \in Int
      BY <1>1, <2>1, RefillEffect DEF TypeOK
    <3> QED BY <1>1, <1>2, <1>3, <2>4, <3>1, <3>2, LimiterAssumption DEF TypeOK
  <2>6. NoOvertaking'
    <3>1. Len(requestQueue) \in Nat /\ asked \in Nat /\ DOMAIN requestQueue = 1 .. Len(requestQueue)
          /\ DOMAIN requestQueue' = 1 .. Len(requestQueue')
      BY <1>1, <2>4 DEF TypeOK
    <3>2. ASSUME NEW i \in DOMAIN requestQueue'
          PROVE  requestQueue'[i] = asked' - Len(requestQueue') + i
      <4>1. CASE i \in 1 .. Len(requestQueue)
        <5>1. requestQueue[i] = asked - Len(requestQueue) + i
          BY <1>1, <3>1, <4>1 DEF NoOvertaking
        <5>2. requestQueue'[i] = requestQueue[i] /\ Len(requestQueue') = Len(requestQueue) + 1
          BY <2>4, <4>1
        <5> QED BY <1>2, <3>1, <4>1, <5>1, <5>2
      <4>2. CASE i = Len(requestQueue) + 1
        <5>1. requestQueue'[i] = asked + 1 /\ Len(requestQueue') = Len(requestQueue) + 1
          BY <2>4, <4>2
        <5> QED BY <1>2, <3>1, <4>2, <5>1
      <4> QED BY <2>4, <3>1, <4>1, <4>2
    <3> QED BY <3>2 DEF NoOvertaking
  <2> QED BY <1>1, <1>3, <2>1, <2>2, <2>5, <2>6 DEF LimiterInv, QueuedForTokens, OwnAnswer
<1> QED BY <1>4, <1>5

\* Settling the items of an answer settles each request with its own answer,
\* whatever the order.
LEMMA SettleOwn ==
  ASSUME TypeOK, OwnAnswer, NEW p \in posts, NEW order \in Orders(p),
         NEW items \in SUBSET DOMAIN p.requests, Settle(p, order, items)
  PROVE  settled' \in [Request -> Outcome] /\ OwnAnswer'
<1> DEFINE Get(r) == CHOOSE k \in items : Resolved(p, order, k) = r
           New(r) == IF \E k \in items : Resolved(p, order, k) = r
                     THEN p.requests[order[Get(r)]] ELSE settled[r]
<1>1. settled' = [r \in Request |-> New(r)]
  BY DEF Settle
<1>2. ASSUME NEW r \in Request, \E k \in items : Resolved(p, order, k) = r
      PROVE  New(r) = r
  <2>1. Get(r) \in items /\ Resolved(p, order, Get(r)) = r
    BY <1>2
  <2> QED BY <1>2, <2>1 DEF Resolved
<1>3. ASSUME NEW r \in Request
      PROVE  New(r) = r \/ New(r) = settled[r]
  BY <1>2, <1>3
<1> HIDE DEF New
<1>4. \A r \in Request : settled[r] \in Outcome
  BY DEF TypeOK
<1>5. \A r \in Request : r \in Outcome
  BY DEF Outcome
<1>6. \A r \in Request : settled'[r] = r \/ settled'[r] = settled[r]
  BY <1>1, <1>3
<1> QED BY <1>1, <1>3, <1>4, <1>5, <1>6 DEF OwnAnswer

LEMMA RespondStep ==
  ASSUME LimiterInv, NEW p \in posts, Respond(p)
  PROVE  LimiterInv'
<1>1. TypeOK /\ NoOvertaking /\ QueuedForTokens /\ OwnAnswer
  BY DEF LimiterInv
<1>2. posts' = posts \ {p} /\ UNCHANGED <<asked, tokens, due, allowance, requestQueue>>
  BY DEF Respond, clock
<1>3. settled' \in [Request -> Outcome] /\ OwnAnswer' /\ process' \in {"running", "dead"}
  <2>1. p \in Post /\ p.requests \in Seq(Request) /\ Len(p.requests) \in Nat
        /\ DOMAIN p.requests = 1 .. Len(p.requests)
    BY <1>1 DEF TypeOK, Post
  <2>2. CASE Answered(p)
    BY <1>1, <2>2, SettleOwn DEF Answered, TypeOK
  <2>3. CASE NotOk(p)
    BY <1>1, <2>3 DEF NotOk, TypeOK, OwnAnswer, Outcome, Failure, Request
  <2>4. CASE Failed(p)
    <3>1. CASE settled' = settled /\ process' = "dead"
      BY <1>1, <3>1 DEF TypeOK, OwnAnswer
    <3>2. CASE /\ settled' = [r \in Request |-> IF r \in Range(p.requests) THEN Failure ELSE settled[r]]
               /\ process' = process
      BY <1>1, <3>2 DEF TypeOK, OwnAnswer, Outcome, Failure, Request
    <3> QED BY <2>4, <3>1, <3>2, Zenon DEF Failed
  <2>5. CASE Garbled(p)
    <3>1. \A n \in 0 .. Len(p.requests) - 1 : 1 .. n \in SUBSET DOMAIN p.requests
      BY <2>1
    <3> QED BY <1>1, <2>5, <3>1, SettleOwn DEF Garbled
  <2> QED BY <2>2, <2>3, <2>4, <2>5 DEF Respond
<1>4. TypeOK'
  BY <1>1, <1>2, <1>3 DEF TypeOK
<1> QED BY <1>1, <1>2, <1>3, <1>4 DEF LimiterInv, NoOvertaking, QueuedForTokens

LEMMA NextInv == LimiterInv /\ [Next]_vars => LimiterInv'
<1> SUFFICES ASSUME LimiterInv, [Next]_vars PROVE LimiterInv'
  OBVIOUS
<1>1. CASE Fetch
  BY <1>1, FetchStep
<1>2. CASE Refill
  BY <1>2, RefillStep
<1>3. CASE Tick
  BY <1>3, LimiterAssumption
     DEF Tick, Least, LimiterInv, TypeOK, NoOvertaking, QueuedForTokens, OwnAnswer
<1>4. ASSUME NEW p \in posts, Respond(p) PROVE LimiterInv'
  BY <1>4, RespondStep
<1>5. CASE UNCHANGED vars
  BY <1>5 DEF vars, clock, LimiterInv, TypeOK, NoOvertaking, QueuedForTokens, OwnAnswer
<1> QED BY <1>1, <1>2, <1>3, <1>4, <1>5 DEF Next, Dead

\* The bucket and the batches keep their sizes.
THEOREM TypeCorrect == Spec => []TypeOK
<1>1. LimiterInv => TypeOK
  BY DEF LimiterInv
<1> QED BY <1>1, InitInv, NextInv, PTL DEF Spec

\* Requests are posted in the order they were made.
THEOREM PostedInOrder == Spec => []NoOvertaking
<1>1. LimiterInv => NoOvertaking
  BY DEF LimiterInv
<1> QED BY <1>1, InitInv, NextInv, PTL DEF Spec

\* Nothing waits while there is a token.
THEOREM WaitsOnlyForTokens == Spec => []QueuedForTokens
<1>1. LimiterInv => QueuedForTokens
  BY DEF LimiterInv
<1> QED BY <1>1, InitInv, NextInv, PTL DEF Spec

\* A request never gets the answer to another one.
THEOREM AnswersAreNotMixedUp == Spec => []OwnAnswer
<1>1. LimiterInv => OwnAnswer
  BY DEF LimiterInv
<1> QED BY <1>1, InitInv, NextInv, PTL DEF Spec

-----------------------------------------------------------------------------
(***************************************************************************)
(* Every request is in one place.                                          *)
(***************************************************************************)

\* What posts hold is theirs alone: no request twice in a post, in two posts,
\* in a post and the queue, or in a post after it was settled.
HeldOnce(ps, q, n, out) ==
  \A p \in ps :
    /\ IsInjective(p.requests)
    /\ \A r \in Range(p.requests) : r \in 1 .. n /\ out[r] = Pending /\ r \notin Range(q)
    /\ \A o \in ps : \A r \in Range(p.requests) : r \in Range(o.requests) => o = p

\* What is not settled is somewhere, and what was not asked is not settled.
HeldOrSettled(ps, q, n, out) ==
  /\ \A r \in Range(q) : r \in 1 .. n /\ out[r] = Pending
  /\ \A r \in 1 .. n : out[r] = Pending =>
       r \in Range(q) \/ \E p \in ps : r \in Range(p.requests)
  /\ \A r \in Request : r > n => out[r] = Pending

Placed(ps, q, n, out) == HeldOnce(ps, q, n, out) /\ HeldOrSettled(ps, q, n, out)

PlacesInv == process = "running" => Placed(posts, requestQueue, asked, settled)

\* s is what a batch takes of q after its first x items.
IsSlice(s, q, x) ==
  /\ x \in Nat
  /\ s \in Seq(Request)
  /\ Len(s) \in 1 .. RPC_MAX_BATCH_SIZE
  /\ x + Len(s) <= Len(q)
  /\ Len(s) = RPC_MAX_BATCH_SIZE \/ x + Len(s) = Len(q)
  /\ \A i \in 1 .. Len(s) : s[i] = q[x + i]

\* Where the items of a batch were in the queue.
LEMMA BatchItems ==
  ASSUME NEW q \in Seq(Request), NEW n \in 1 .. BatchesNeeded(q), NEW s, s = Batch(q, n).requests,
         NEW x, x = (n - 1) * RPC_MAX_BATCH_SIZE
  PROVE  IsSlice(s, q, x)
<1>1. Len(q) \in Nat /\ RPC_MAX_BATCH_SIZE \in Nat \ {0}
  BY LimiterAssumption
<1>2. BatchesNeeded(q) \in Nat /\ n \in Nat \ {0} /\ (n - 1) * RPC_MAX_BATCH_SIZE + 1 <= Len(q)
  BY <1>1, EnoughBatches DEF BatchesNeeded
<1>3. n * RPC_MAX_BATCH_SIZE = x + RPC_MAX_BATCH_SIZE
  BY <1>1, <1>2, SMT
<1>4. x \in Nat
  BY <1>1, <1>2, SMT
<1>5. PICK y : y = Least(x + RPC_MAX_BATCH_SIZE, Len(q))
  OBVIOUS
<1>6. y \in x + 1 .. Len(q) /\ y <= x + RPC_MAX_BATCH_SIZE /\ (y = x + RPC_MAX_BATCH_SIZE \/ y = Len(q))
  BY <1>1, <1>2, <1>4, <1>5 DEF Least
<1>7. s = SubSeq(q, x + 1, y)
  <2>1. Batch(q, n) = [coalesced |-> TRUE, requests |-> SubSeq(q, x + 1, y)]
    BY <1>3, <1>5 DEF Batch
  <2>2. \A t : [coalesced |-> TRUE, requests |-> t].requests = t
    OBVIOUS
  <2> QED BY <2>1, <2>2
<1>8. s \in Seq(Request) /\ Len(s) = y - x /\ \A i \in 1 .. Len(s) : s[i] = q[x + i]
  <2>1. x + 1 \in Int /\ y \in Int /\ x + 1 <= y /\ y - (x + 1) + 1 = y - x
    BY <1>4, <1>6
  <2>2. \A i \in x + 1 .. y : i \in 1 .. Len(q)
    BY <1>1, <1>4, <1>6
  <2>3. \A i \in x + 1 .. y : q[i] \in Request
    BY <2>2
  <2>4. /\ s \in Seq(Request) /\ Len(s) = y - x
        /\ \A i \in 1 .. y - x : s[i] = q[x + 1 + i - 1]
    BY <1>7, <2>1, <2>3, SubSeqProperties
  <2>5. \A i \in 1 .. y - x : x + 1 + i - 1 = x + i
    BY <1>4, <2>1
  <2> QED BY <2>4, <2>5
<1> QED BY <1>1, <1>4, <1>6, <1>8 DEF IsSlice

\* The batches of a refill are a partition of the queue.
LEMMA BatchesPartition ==
  ASSUME NEW q \in Seq(Request), IsInjective(q)
  PROVE  /\ \A n \in 1 .. BatchesNeeded(q) :
              /\ IsInjective(Batch(q, n).requests)
              /\ Range(Batch(q, n).requests) \subseteq Range(q)
         /\ \A n, m \in 1 .. BatchesNeeded(q) : \A r :
              r \in Range(Batch(q, n).requests) /\ r \in Range(Batch(q, m).requests) => n = m
         /\ \A r \in Range(q) : \E n \in 1 .. BatchesNeeded(q) : r \in Range(Batch(q, n).requests)
<1> DEFINE b == RPC_MAX_BATCH_SIZE
<1>1. Len(q) \in Nat /\ b \in Nat \ {0} /\ DOMAIN q = 1 .. Len(q)
  BY LimiterAssumption
<1>2. BatchesNeeded(q) \in Nat /\ BatchesNeeded(q) * b >= Len(q)
  BY <1>1, EnoughBatches DEF BatchesNeeded
<1>3. \A i, j \in 1 .. Len(q) : q[i] = q[j] => i = j
  BY <1>1 DEF IsInjective
<1>4. ASSUME NEW n \in 1 .. BatchesNeeded(q), NEW s, s = Batch(q, n).requests
      PROVE  IsInjective(s) /\ Range(s) \subseteq Range(q)
  <2>1. PICK x : x = (n - 1) * b
    OBVIOUS
  <2>2. /\ x \in Nat
        /\ s \in Seq(Request)
        /\ Len(s) \in 1 .. RPC_MAX_BATCH_SIZE
        /\ x + Len(s) <= Len(q)
        /\ Len(s) = RPC_MAX_BATCH_SIZE \/ x + Len(s) = Len(q)
        /\ \A i \in 1 .. Len(s) : s[i] = q[x + i]
    <3>1. IsSlice(s, q, x)
      BY <1>4, <2>1, BatchItems
    <3> QED BY <3>1 DEF IsSlice
  <2>3. \A i \in 1 .. Len(s) : x + i \in 1 .. Len(q) /\ s[i] = q[x + i]
    <3>1. Len(s) \in Nat /\ Len(q) \in Nat /\ x \in Nat /\ x + Len(s) <= Len(q)
      BY <1>1, <2>2
    <3>2. \A i \in 1 .. Len(s) : x + i \in 1 .. Len(q)
      BY <3>1
    <3> QED BY <2>2, <3>2
  <2>4. IsInjective(s)
    <3>1. SUFFICES ASSUME NEW i \in 1 .. Len(s), NEW j \in 1 .. Len(s), s[i] = s[j] PROVE i = j
      BY <2>2 DEF IsInjective
    <3>2. x + i = x + j
      BY <1>3, <2>3, <3>1
    <3> QED BY <2>2, <3>2
  <2>5. Range(s) \subseteq Range(q)
    <3>1. DOMAIN s = 1 .. Len(s)
      BY <2>2
    <3> QED BY <1>1, <2>3, <3>1 DEF Range
  <2> QED BY <2>4, <2>5
<1>5. ASSUME NEW n \in 1 .. BatchesNeeded(q), NEW m \in 1 .. BatchesNeeded(q), NEW r,
             r \in Range(Batch(q, n).requests), r \in Range(Batch(q, m).requests), n < m
      PROVE  FALSE
  <2>1. PICK s : s = Batch(q, n).requests
    OBVIOUS
  <2>2. PICK t : t = Batch(q, m).requests
    OBVIOUS
  <2>3. PICK x : x = (n - 1) * b
    OBVIOUS
  <2>4. PICK y : y = (m - 1) * b
    OBVIOUS
  <2>5. x + b <= y
    <3>1. n \in Nat /\ m \in Nat /\ n + 1 <= m
      BY <1>2, <1>5
    <3>2. PICK d \in Nat : m = n + 1 + d
      BY <3>1
    <3>3. (m - 1) * b = (n - 1) * b + b + d * b /\ d * b \in Nat
      BY <1>1, <3>1, <3>2, SMT
    <3> QED BY <1>1, <2>3, <2>4, <3>3
  <2>6. /\ x \in Nat
        /\ s \in Seq(Request)
        /\ Len(s) \in 1 .. RPC_MAX_BATCH_SIZE
        /\ x + Len(s) <= Len(q)
        /\ Len(s) = RPC_MAX_BATCH_SIZE \/ x + Len(s) = Len(q)
        /\ \A i \in 1 .. Len(s) : s[i] = q[x + i]
    <3>1. IsSlice(s, q, x)
      BY <2>1, <2>3, BatchItems
    <3> QED BY <3>1 DEF IsSlice
  <2>7. /\ y \in Nat
        /\ t \in Seq(Request)
        /\ Len(t) \in 1 .. RPC_MAX_BATCH_SIZE
        /\ y + Len(t) <= Len(q)
        /\ Len(t) = RPC_MAX_BATCH_SIZE \/ y + Len(t) = Len(q)
        /\ \A i \in 1 .. Len(t) : t[i] = q[y + i]
    <3>1. IsSlice(t, q, y)
      BY <2>2, <2>4, BatchItems
    <3> QED BY <3>1 DEF IsSlice
  <2>8. PICK i \in 1 .. Len(s) : r = s[i]
    BY <1>5, <2>1, <2>6 DEF Range
  <2>9. PICK j \in 1 .. Len(t) : r = t[j]
    BY <1>5, <2>2, <2>7 DEF Range
  <2>10. x + i \in 1 .. Len(q) /\ y + j \in 1 .. Len(q) /\ x + i < y + j
    <3>1. PICK l : l = Len(s)
      OBVIOUS
    <3>2. PICK o : o = Len(t)
      OBVIOUS
    <3>3. l \in 1 .. b /\ o \in 1 .. b /\ x + l <= Len(q) /\ y + o <= Len(q) /\ x \in Nat /\ y \in Nat
      BY <2>6, <2>7, <3>1, <3>2
    <3>4. i \in 1 .. l /\ j \in 1 .. o
      BY <3>1, <3>2
    <3> QED BY <1>1, <2>5, <3>3, <3>4
  <2>11. q[x + i] = q[y + j]
    BY <2>6, <2>7, <2>8, <2>9
  <2>12. x + i = y + j
    BY <1>3, <2>10, <2>11
  <2> QED BY <2>6, <2>7, <2>10, <2>12
<1>6. ASSUME NEW r \in Range(q)
      PROVE  \E n \in 1 .. BatchesNeeded(q) : r \in Range(Batch(q, n).requests)
  <2>1. PICK k \in 1 .. Len(q) : r = q[k]
    BY <1>1 DEF Range
  <2>2. PICK n : n = (k - 1) \div b + 1
    OBVIOUS
  <2>3. /\ n \in Nat \ {0}
        /\ (n - 1) * b + ((k - 1) % b) = k - 1 /\ (k - 1) % b \in 0 .. b - 1
    BY <1>1, <2>1, <2>2, SMT
  <2>4. PICK x \in Nat : x = (n - 1) * b
    BY <1>1, <2>3, SMT
  <2>5. x <= k - 1 /\ k <= x + b
    BY <1>1, <2>1, <2>3, <2>4
  <2>6. n <= BatchesNeeded(q)
    <3>1. SUFFICES ASSUME n > BatchesNeeded(q) PROVE FALSE
      BY <1>2, <2>3
    <3>2. PICK d \in Nat : n - 1 = BatchesNeeded(q) + d
      <4>1. PICK k0 \in Nat : k0 = BatchesNeeded(q)
        BY <1>2
      <4>2. n - 1 - k0 \in Nat /\ n - 1 = k0 + (n - 1 - k0)
        BY <2>3, <3>1, <4>1
      <4> QED BY <4>1, <4>2
    <3>3. (n - 1) * b = BatchesNeeded(q) * b + d * b /\ d * b \in Nat
      BY <1>1, <1>2, <3>2, SMT
    <3>4. PICK z \in Nat : z = BatchesNeeded(q) * b
      BY <1>1, <1>2, SMT
    <3> QED BY <1>1, <1>2, <2>1, <2>4, <2>5, <3>3, <3>4
  <2>7. n \in 1 .. BatchesNeeded(q)
    BY <1>2, <2>3, <2>6
  <2>8. PICK s : s = Batch(q, n).requests
    OBVIOUS
  <2>9. /\ x \in Nat
        /\ s \in Seq(Request)
        /\ Len(s) \in 1 .. RPC_MAX_BATCH_SIZE
        /\ x + Len(s) <= Len(q)
        /\ Len(s) = RPC_MAX_BATCH_SIZE \/ x + Len(s) = Len(q)
        /\ \A i \in 1 .. Len(s) : s[i] = q[x + i]
    <3>1. IsSlice(s, q, x)
      BY <2>4, <2>7, <2>8, BatchItems
    <3> QED BY <3>1 DEF IsSlice
  <2>10. k - x \in 1 .. Len(s) /\ x + (k - x) = k
    <3>1. k \in 1 .. Len(q) /\ x + 1 <= k /\ k <= x + b
      BY <1>1, <2>1, <2>4, <2>5
    <3>2. PICK l : l = Len(s)
      OBVIOUS
    <3>3. x \in Nat /\ l \in 1 .. b /\ (l = b \/ x + l = Len(q))
      BY <2>9, <3>2
    <3>4. k - x \in 1 .. l /\ x + (k - x) = k
      <4>1. PICK z : z = Len(q)
        OBVIOUS
      <4>2. z \in Nat /\ k \in 1 .. z /\ (l = b \/ x + l = z)
        BY <1>1, <3>1, <3>3, <4>1
      <4>3. b \in Nat /\ l \in Nat /\ l >= 1 /\ x \in Nat /\ k \in Nat /\ x + 1 <= k
            /\ k <= x + b /\ k <= z
        <5>1. k \in Nat /\ k <= z
          BY <4>2
        <5>2. b \in Nat
          BY <1>1
        <5>3. l \in Nat /\ l >= 1 /\ x \in Nat
          BY <3>3, <5>2
        <5> QED BY <3>1, <5>1, <5>2, <5>3
      <4>4. CASE l = b
        BY <4>3, <4>4
      <4>5. CASE x + l = z
        BY <4>2, <4>3, <4>5
      <4> QED BY <4>2, <4>4, <4>5
    <3> QED BY <3>2, <3>4
  <2>11. s[k - x] = r
    BY <2>1, <2>9, <2>10
  <2>12. r \in Range(s)
    <3>1. DOMAIN s = 1 .. Len(s)
      BY <2>9
    <3> QED BY <2>10, <2>11, <3>1 DEF Range
  <2> QED BY <2>7, <2>8, <2>12
<1>7. ASSUME NEW n \in 1 .. BatchesNeeded(q), NEW m \in 1 .. BatchesNeeded(q), NEW r,
             r \in Range(Batch(q, n).requests), r \in Range(Batch(q, m).requests)
      PROVE  n = m
  <2>1. n \in Nat /\ m \in Nat
    BY <1>2
  <2>2. ~(n < m)
    BY <1>5, <1>7
  <2>3. ~(m < n)
    BY <1>5, <1>7
  <2> QED BY <2>1, <2>2, <2>3
<1> QED BY <1>4, <1>6, <1>7

\* The queue holds no request twice.
LEMMA QueueInjective == TypeOK /\ NoOvertaking => IsInjective(requestQueue)
<1> SUFFICES ASSUME TypeOK, NoOvertaking PROVE IsInjective(requestQueue)
  OBVIOUS
<1>1. Len(requestQueue) \in Nat /\ asked \in Nat /\ DOMAIN requestQueue = 1 .. Len(requestQueue)
  BY LimiterAssumption DEF TypeOK
<1>2. SUFFICES ASSUME NEW i \in DOMAIN requestQueue, NEW j \in DOMAIN requestQueue,
                      requestQueue[i] = requestQueue[j]
               PROVE  i = j
  BY DEF IsInjective
<1>3. PICK x \in Int : x = asked - Len(requestQueue)
  BY <1>1
<1>4. requestQueue[i] = x + i /\ requestQueue[j] = x + j
  BY <1>3 DEF NoOvertaking
<1>5. i \in Int /\ j \in Int
  BY <1>1
<1>6. x + i = x + j
  BY <1>2, <1>4
<1> QED BY <1>3, <1>5, <1>6

\* A refill moves the queue into posts.
LEMMA RefillPlaces ==
  ASSUME TypeOK, NoOvertaking, Placed(posts, requestQueue, asked, settled)
  PROVE  Placed(posts \cup Batches, Uncoalesced, asked, settled)
<1>1. CASE ~(due > 0)
  <2>1. Uncoalesced = requestQueue /\ Started = 0
    BY <1>1, RefillEffect DEF Started
  <2>2. Batches = {}
    BY <2>1 DEF Batches
  <2> QED BY <2>1, <2>2
<1>2. CASE due > 0
  <2> DEFINE k == BatchesNeeded(requestQueue)
  <2>1. Uncoalesced = <<>> /\ Range(<<>>) = {}
    BY <1>2, RefillEffect DEF Range
  <2>2. Batches = {Batch(requestQueue, n) : n \in 1 .. k}
    BY <1>2 DEF Batches, Started
  <2>3. /\ \A n \in 1 .. k : /\ IsInjective(Batch(requestQueue, n).requests)
                            /\ Range(Batch(requestQueue, n).requests) \subseteq Range(requestQueue)
        /\ \A n, m \in 1 .. k : \A r :
             r \in Range(Batch(requestQueue, n).requests) /\ r \in Range(Batch(requestQueue, m).requests) => n = m
        /\ \A r \in Range(requestQueue) : \E n \in 1 .. k : r \in Range(Batch(requestQueue, n).requests)
    <3>1. requestQueue \in Seq(Request) /\ IsInjective(requestQueue)
      BY QueueInjective DEF TypeOK
    <3> QED BY <3>1, BatchesPartition
  <2> HIDE DEF k
  <2>4. /\ \A p \in Batches : IsInjective(p.requests) /\ Range(p.requests) \subseteq Range(requestQueue)
        /\ \A p, o \in Batches : \A r : r \in Range(p.requests) /\ r \in Range(o.requests) => o = p
        /\ \A r \in Range(requestQueue) : \E p \in Batches : r \in Range(p.requests)
    BY <2>2, <2>3
  <2>5. /\ \A p \in posts : /\ IsInjective(p.requests)
                            /\ \A r \in Range(p.requests) : r \in 1 .. asked /\ settled[r] = Pending /\ r \notin Range(requestQueue)
        /\ \A p, o \in posts : \A r : r \in Range(p.requests) /\ r \in Range(o.requests) => o = p
    BY DEF Placed, HeldOnce
  <2>6. \A r \in Range(requestQueue) : r \in 1 .. asked /\ settled[r] = Pending
    BY DEF Placed, HeldOrSettled
  <2>7. ASSUME NEW p \in posts \cup Batches
        PROVE  /\ IsInjective(p.requests)
               /\ \A r \in Range(p.requests) : r \in 1 .. asked /\ settled[r] = Pending /\ r \notin Range(Uncoalesced)
               /\ \A o \in posts \cup Batches : \A r : r \in Range(p.requests) /\ r \in Range(o.requests) => o = p
    BY <2>1, <2>4, <2>5, <2>6, Zenon
  <2>8. HeldOrSettled(posts \cup Batches, Uncoalesced, asked, settled)
    BY <2>1, <2>4 DEF Placed, HeldOrSettled
  <2> QED BY <2>7, <2>8 DEF Placed, HeldOnce
<1> QED BY <1>1, <1>2

\* A new request that is posted alone.
LEMMA AlonePlaces ==
  ASSUME NEW ps, NEW q, NEW n \in Nat, n + 1 \in Request, NEW out, Placed(ps, q, n, out)
  PROVE  Placed(ps \cup {Alone(n + 1)}, q, n + 1, out)
<1>1. Alone(n + 1).requests = <<n + 1>>
  BY DEF Alone
<1>2. IsInjective(<<n + 1>>) /\ Range(<<n + 1>>) = {n + 1}
  BY DEF IsInjective, Range
<1>3. /\ \A p \in ps : \A r \in Range(p.requests) : r \in 1 .. n
      /\ \A r \in Range(q) : r \in 1 .. n
      /\ out[n + 1] = Pending
  BY DEF Placed, HeldOnce, HeldOrSettled
<1>4. 1 .. n + 1 = (1 .. n) \cup {n + 1} /\ n + 1 \notin 1 .. n
  OBVIOUS
<1>5. HeldOnce(ps \cup {Alone(n + 1)}, q, n + 1, out)
  <2>1. ASSUME NEW p \in ps
        PROVE  /\ IsInjective(p.requests)
               /\ \A r \in Range(p.requests) : r \in 1 .. n + 1 /\ out[r] = Pending /\ r \notin Range(q)
               /\ n + 1 \notin Range(p.requests)
    BY <1>3, <1>4 DEF Placed, HeldOnce
  <2>2. n + 1 \in 1 .. n + 1 /\ out[n + 1] = Pending /\ n + 1 \notin Range(q)
    BY <1>3, <1>4
  <2>3. \A p, o \in ps : \A r : r \in Range(p.requests) /\ r \in Range(o.requests) => o = p
    BY DEF Placed, HeldOnce
  <2> HIDE DEF Alone
  <2> QED BY <1>1, <1>2, <2>1, <2>2, <2>3, Zenon DEF HeldOnce
<1>6. HeldOrSettled(ps \cup {Alone(n + 1)}, q, n + 1, out)
  <2>1. \A r \in 1 .. n : out[r] = Pending => r \in Range(q) \/ \E p \in ps : r \in Range(p.requests)
    BY DEF Placed, HeldOrSettled
  <2>2. n + 1 \in Range(Alone(n + 1).requests)
    BY <1>1, <1>2
  <2>3. \A r \in Request : r > n + 1 => out[r] = Pending
    BY DEF Placed, HeldOrSettled, Request
  <2> QED BY <1>3, <1>4, <2>1, <2>2, <2>3 DEF HeldOrSettled, Placed
<1> QED BY <1>5, <1>6 DEF Placed

\* A new request that joins the queue.
LEMMA QueuedPlaces ==
  ASSUME NEW ps, NEW q \in Seq(Request), NEW n \in Nat, n + 1 \in Request, NEW out, Placed(ps, q, n, out)
  PROVE  Placed(ps, Append(q, n + 1), n + 1, out)
<1>1. Range(Append(q, n + 1)) = Range(q) \cup {n + 1}
  <2>1. Append(q, n + 1) \in Seq(Request) /\ Len(Append(q, n + 1)) = Len(q) + 1 /\ Len(q) \in Nat
    OBVIOUS
  <2>2. /\ \A i \in 1 .. Len(q) : Append(q, n + 1)[i] = q[i]
        /\ Append(q, n + 1)[Len(q) + 1] = n + 1
    OBVIOUS
  <2>3. DOMAIN Append(q, n + 1) = (1 .. Len(q)) \cup {Len(q) + 1} /\ DOMAIN q = 1 .. Len(q)
    BY <2>1
  <2> QED BY <2>2, <2>3, Zenon DEF Range
<1>2. /\ \A p \in ps : \A r \in Range(p.requests) : r \in 1 .. n
      /\ \A r \in Range(q) : r \in 1 .. n
      /\ out[n + 1] = Pending
  BY DEF Placed, HeldOnce, HeldOrSettled
<1>3. 1 .. n + 1 = (1 .. n) \cup {n + 1} /\ n + 1 \notin 1 .. n
  OBVIOUS
<1>4. HeldOnce(ps, Append(q, n + 1), n + 1, out)
  BY <1>1, <1>2, <1>3 DEF Placed, HeldOnce
<1>5. HeldOrSettled(ps, Append(q, n + 1), n + 1, out)
  <2>1. \A r \in Request : r > n + 1 => out[r] = Pending
    BY DEF Placed, HeldOrSettled, Request
  <2> QED BY <1>1, <1>2, <1>3, <2>1 DEF Placed, HeldOrSettled
<1> QED BY <1>4, <1>5 DEF Placed

\* A post whose requests are all settled.
LEMMA SettledPlaces ==
  ASSUME NEW ps, NEW q, NEW n, NEW out, Placed(ps, q, n, out), NEW p \in ps, NEW new,
         \A r \in Request : IF r \in Range(p.requests) THEN new[r] # Pending ELSE new[r] = out[r],
         n \in 0 .. MaxRequests
  PROVE  Placed(ps \ {p}, q, n, new)
<1>1. 1 .. n \subseteq Request /\ \A r \in Request : r > n => r \notin 1 .. n
  BY LimiterAssumption DEF Request
<1>2. \A o \in ps : \A r \in Range(o.requests) : r \in 1 .. n /\ out[r] = Pending /\ r \notin Range(q)
  BY DEF Placed, HeldOnce
<1>3. \A r \in Range(q) : r \in Request /\ r \notin Range(p.requests)
  BY <1>1, <1>2 DEF Placed, HeldOrSettled
<1>4. \A o \in ps \ {p} : \A r \in Range(o.requests) : r \in Request /\ r \notin Range(p.requests)
  BY <1>1, <1>2 DEF Placed, HeldOnce
<1>5. HeldOnce(ps \ {p}, q, n, new)
  BY <1>4 DEF Placed, HeldOnce
<1>6. \A r \in 1 .. n : new[r] = Pending => r \in Range(q) \/ \E o \in ps \ {p} : r \in Range(o.requests)
  <2>1. SUFFICES ASSUME NEW r \in 1 .. n, new[r] = Pending, r \notin Range(q)
                 PROVE  \E o \in ps \ {p} : r \in Range(o.requests)
    OBVIOUS
  <2>2. r \in Request /\ r \notin Range(p.requests) /\ out[r] = Pending
    BY <1>1, <2>1
  <2> QED BY <2>1, <2>2 DEF Placed, HeldOrSettled
<1>7. \A r \in Request : r > n => new[r] = Pending
  BY <1>1, <1>2 DEF Placed, HeldOrSettled
<1>8. \A r \in Range(q) : r \in 1 .. n /\ new[r] = Pending
  BY <1>3 DEF Placed, HeldOrSettled
<1>9. HeldOrSettled(ps \ {p}, q, n, new)
  BY <1>6, <1>7, <1>8 DEF HeldOrSettled
<1> QED BY <1>5, <1>9 DEF Placed

\* An answer settles every request of its post, in whatever order.
LEMMA AnswerSettles ==
  ASSUME TypeOK, NEW p \in posts, NEW order \in Orders(p), Settle(p, order, DOMAIN p.requests)
  PROVE  \A r \in Request :
           IF r \in Range(p.requests) THEN settled'[r] # Pending ELSE settled'[r] = settled[r]
<1> DEFINE D == DOMAIN p.requests
           Get(r) == CHOOSE k \in D : Resolved(p, order, k) = r
           New(r) == IF \E k \in D : Resolved(p, order, k) = r
                     THEN p.requests[order[Get(r)]] ELSE settled[r]
<1>1. settled' = [r \in Request |-> New(r)]
  BY DEF Settle
<1>2. order \in [D -> D] /\ IsInjective(order)
  BY DEF Orders
<1>3. D = 1 .. Len(p.requests) /\ Len(p.requests) \in Nat
  BY DEF TypeOK, Post
<1>4. \A t \in D : \E k \in D : order[k] = t
  <2>1. IsFiniteSet(D)
    BY <1>3, FS_Interval
  <2>2. order \in Injection(D, D)
    BY <1>2 DEF Injection
  <2>3. order \in Surjection(D, D)
    BY <2>1, <2>2, FS_Injection
  <2> QED BY <2>3 DEF Surjection
<1>5. ASSUME NEW r \in Request, r \in Range(p.requests)
      PROVE  New(r) # Pending
  <2>1. \E k \in D : Resolved(p, order, k) = r
    BY <1>4, <1>5 DEF Range, Resolved
  <2>2. Get(r) \in D /\ Resolved(p, order, Get(r)) = r
    BY <2>1
  <2>3. New(r) = r
    BY <2>1, <2>2 DEF Resolved
  <2> QED BY <2>3 DEF Request, Pending
<1>6. ASSUME NEW r \in Request, r \notin Range(p.requests)
      PROVE  New(r) = settled[r]
  <2>1. ~ \E k \in D : Resolved(p, order, k) = r
    BY <1>2, <1>6 DEF Range, Resolved
  <2> QED BY <2>1
<1> HIDE DEF New
<1> QED BY <1>1, <1>5, <1>6

LEMMA InitPlaces == Init => PlacesInv
  BY DEF Init, PlacesInv, Placed, HeldOnce, HeldOrSettled, Range, Pending

LEMMA FetchPlaces == LimiterInv /\ PlacesInv /\ Fetch => PlacesInv'
<1> SUFFICES ASSUME LimiterInv, PlacesInv, Fetch PROVE PlacesInv'
  OBVIOUS
<1>1. TypeOK /\ NoOvertaking /\ asked \in Nat /\ asked + 1 \in Request
  BY LimiterAssumption DEF LimiterInv, TypeOK, Fetch, Request
<1>2. Placed(posts \cup Batches, Uncoalesced, asked, settled)
  BY <1>1, RefillPlaces DEF PlacesInv, Fetch
<1>3. asked' = asked + 1 /\ settled' = settled
  BY DEF Fetch
<1>4. CASE Refilled >= 1
  <2>1. posts' = posts \cup Batches \cup {Alone(asked + 1)} /\ requestQueue' = Uncoalesced
    BY <1>4 DEF Fetch
  <2>2. Placed(posts \cup Batches \cup {Alone(asked + 1)}, Uncoalesced, asked + 1, settled)
    BY <1>1, <1>2, AlonePlaces
  <2> QED BY <1>3, <2>1, <2>2 DEF PlacesInv
<1>5. CASE ~(Refilled >= 1)
  <2>1. posts' = posts \cup Batches /\ requestQueue' = Append(Uncoalesced, asked + 1)
    BY <1>5 DEF Fetch
  <2>2. Uncoalesced \in Seq(Request)
    <3>1. Uncoalesced = <<>> \/ Uncoalesced = requestQueue
      BY <1>1, RefillEffect
    <3>2. requestQueue \in Seq(Request) /\ <<>> \in Seq(Request)
      BY <1>1 DEF TypeOK
    <3> QED BY <3>1, <3>2, Zenon
  <2>3. Placed(posts \cup Batches, Append(Uncoalesced, asked + 1), asked + 1, settled)
    BY <1>1, <1>2, <2>2, QueuedPlaces
  <2> QED BY <1>3, <2>1, <2>3 DEF PlacesInv
<1> QED BY <1>4, <1>5

LEMMA RespondPlaces ==
  ASSUME LimiterInv, PlacesInv, NEW p \in posts, Respond(p)
  PROVE  PlacesInv'
<1>1. SUFFICES ASSUME process' = "running" PROVE Placed(posts', requestQueue', asked', settled')
  BY DEF PlacesInv
<1>2. posts' = posts \ {p} /\ asked' = asked /\ requestQueue' = requestQueue
  BY DEF Respond
<1>3. TypeOK /\ Placed(posts, requestQueue, asked, settled) /\ asked \in 0 .. MaxRequests
  BY DEF LimiterInv, TypeOK, PlacesInv, Respond
<1>4. \A r \in Request :
        IF r \in Range(p.requests) THEN settled'[r] # Pending ELSE settled'[r] = settled[r]
  <2>1. CASE Answered(p)
    BY <1>3, <2>1, AnswerSettles DEF Answered
  <2>2. CASE settled' = [r \in Request |-> IF r \in Range(p.requests) THEN Failure ELSE settled[r]]
    BY <2>2 DEF Failure, Pending
  <2>3. CASE NotOk(p)
    <3>1. settled' = [r \in Request |-> IF r \in Range(p.requests) THEN Failure ELSE settled[r]]
      BY <2>3 DEF NotOk, Waiting
    <3> QED BY <2>2, <3>1
  <2>4. CASE Failed(p)
    <3>1. CASE p.coalesced
      BY <1>1, <2>4, <3>1 DEF Failed
    <3>2. CASE ~p.coalesced
      <4>1. settled' = [r \in Request |-> IF r \in Range(p.requests) THEN Failure ELSE settled[r]]
        BY <2>4, <3>2 DEF Failed
      <4> QED BY <2>2, <4>1
    <3> QED BY <3>1, <3>2
  <2>5. CASE Garbled(p)
    BY <1>1, <2>5 DEF Garbled
  <2> QED BY <2>1, <2>3, <2>4, <2>5 DEF Respond
<1>5. Placed(posts \ {p}, requestQueue, asked, settled')
  BY <1>3, <1>4, SettledPlaces
<1> QED BY <1>2, <1>5

LEMMA NextPlaces == LimiterInv /\ PlacesInv /\ [Next]_vars => PlacesInv'
<1> SUFFICES ASSUME LimiterInv, PlacesInv, [Next]_vars PROVE PlacesInv'
  OBVIOUS
<1>1. CASE Fetch
  BY <1>1, FetchPlaces
<1>2. CASE Refill
  <2>1. Placed(posts \cup Batches, Uncoalesced, asked, settled)
    BY <1>2, RefillPlaces DEF LimiterInv, PlacesInv, Refill
  <2> QED BY <1>2, <2>1 DEF PlacesInv, Refill
<1>3. CASE Tick
  BY <1>3 DEF Tick, PlacesInv
<1>4. ASSUME NEW p \in posts, Respond(p) PROVE PlacesInv'
  BY <1>4, RespondPlaces
<1>5. CASE UNCHANGED vars
  BY <1>5 DEF vars, clock, PlacesInv
<1> QED BY <1>1, <1>2, <1>3, <1>4, <1>5 DEF Next, Dead

\* Every request made is in the queue, in one post, or settled, unless the
\* process is dead; none is posted twice or after it was settled.
THEOREM EveryRequestHasOnePlace == Spec => []EachRequestOnce
<1>1. LimiterInv /\ PlacesInv => EachRequestOnce
  <2> SUFFICES ASSUME LimiterInv, PlacesInv, process = "running", NEW r \in 1 .. asked
               PROVE  /\ settled[r] = Pending <=> r \in Range(requestQueue) \/ Holders(r) # {}
                      /\ Cardinality(Holders(r)) <= 1
                      /\ ~(r \in Range(requestQueue) /\ Holders(r) # {})
    BY DEF EachRequestOnce
  <2>1. /\ \A p \in posts : r \in Range(p.requests) => settled[r] = Pending /\ r \notin Range(requestQueue)
        /\ \A p, o \in posts : r \in Range(p.requests) /\ r \in Range(o.requests) => o = p
    BY DEF PlacesInv, Placed, HeldOnce
  <2>2. /\ r \in Range(requestQueue) => settled[r] = Pending
        /\ settled[r] = Pending => r \in Range(requestQueue) \/ \E p \in posts : r \in Range(p.requests)
    BY DEF PlacesInv, Placed, HeldOrSettled
  <2>3. Holders(r) = {} \/ \E p : Holders(r) = {p}
    BY <2>1 DEF Holders
  <2>4. Cardinality(Holders(r)) <= 1
    <3>1. Cardinality(Holders(r)) = 0 \/ Cardinality(Holders(r)) = 1
      BY <2>3, FS_EmptySet, FS_Singleton
    <3> QED BY <3>1
  <2> QED BY <2>1, <2>2, <2>4 DEF Holders
<1>2. Init => LimiterInv /\ PlacesInv
  BY InitInv, InitPlaces
<1>3. LimiterInv /\ PlacesInv /\ [Next]_vars => (LimiterInv /\ PlacesInv)'
  BY NextInv, NextPlaces
<1> QED BY <1>1, <1>2, <1>3, PTL DEF Spec
=============================================================================
