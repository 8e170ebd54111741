-------------------------- MODULE AccountFeedProofs --------------------------
(***************************************************************************)
(* Theorems about AccountFeed for any workers, pools, accounts and bound:  *)
(* type correctness; a pool quotes only once all its accounts have data,   *)
(* and from the data it has; no worker goes back to an older version of an *)
(* account unless it was read again; and the workers are replicas.         *)
(***************************************************************************)
EXTENDS AccountFeed, SequenceTheorems, TLAPS

(***************************************************************************)
(* Lemmas about messages and queues                                        *)
(***************************************************************************)
LEMMA MessageTypes ==
  /\ \A p \in PoolSet : AddPool(p) \in Message
  /\ \A a \in Accounts, i \in Found, s \in {"seed", "geyser", "reseed"} :
       AccountUpdate(a, i, s) \in Message
  BY DEF Message, AddPool, AccountUpdate

\* Sending messages keeps the type of the queues.
LEMMA BroadcastType ==
  ASSUME queue \in [Workers -> Seq(Message)], NEW ms \in Seq(Message), Broadcast(ms)
  PROVE  queue' \in [Workers -> Seq(Message)]
<1>1. \A w \in Workers : queue[w] \o ms \in Seq(Message)
  BY ConcatProperties
<1>2. QED
  BY <1>1 DEF Broadcast, Enqueue

LEMMA SingletonSeq == ASSUME NEW S, NEW e \in S PROVE <<e>> \in Seq(S)
  OBVIOUS

LEMMA OnChainIsFound ==
  ASSUME TypeOK, NEW a \in Accounts
  PROVE  OnChain(a) \in Found
  BY MaxVersionAssumption DEF TypeOK, OnChain, Found, Null, Version

\* The seeds are messages, and what a callback read is an account.
LEMMA SeedsType ==
  ASSUME TypeOK
  PROVE  [i \in DOMAIN fetched |-> AccountUpdate(fetched[i][1], fetched[i][2], "seed")] \in Seq(Message)
<1> DEFINE ms == [i \in DOMAIN fetched |-> AccountUpdate(fetched[i][1], fetched[i][2], "seed")]
<1>1. /\ DOMAIN fetched = 1 .. Len(fetched) /\ Len(fetched) \in Nat
      /\ \A i \in 1 .. Len(fetched) : fetched[i] \in Accounts \X Found
  BY LenProperties, ElementOfSeq DEF TypeOK
<1>2. \A i \in 1 .. Len(fetched) : AccountUpdate(fetched[i][1], fetched[i][2], "seed") \in Message
  BY <1>1, MessageTypes
<1>3. ms \in [1 .. Len(fetched) -> Message]
  BY <1>1, <1>2
<1> QED BY <1>1, <1>3, SeqDef

LEMMA ReadIsFound ==
  ASSUME TypeOK, NEW a \in Accounts, NEW v \in Version, callbacks[<<a, v>>].stage = "read"
  PROVE  callbacks[<<a, v>>].info \in Found
<1>1. callbacks[<<a, v>>] \in Callback
  BY DEF TypeOK
<1>2. ASSUME NEW i \in Found PROVE HasRead(i).info = i
  BY DEF HasRead, CallbackState
<1>3. NoCallback.stage # "read" /\ Reading.stage # "read" /\ Reseeded.stage # "read"
  BY DEF NoCallback, Reading, Reseeded, CallbackState
<1> QED BY <1>1, <1>2, <1>3 DEF Callback

(***************************************************************************)
(* Type correctness                                                        *)
(***************************************************************************)
LEMMA InitType == Init => TypeOK
<1> SUFFICES ASSUME Init PROVE TypeOK
  OBVIOUS
<1>1. [i \in DOMAIN Pools |-> AddPool(Pools[i])] \in Seq(Message)
  <2>1. DOMAIN Pools = 1 .. Len(Pools) /\ Len(Pools) \in Nat
    BY PoolsAssumption, LenProperties
  <2>2. \A i \in 1 .. Len(Pools) : AddPool(Pools[i]) \in Message
    BY <2>1, PoolsAssumption, MessageTypes, ElementOfSeq
  <2>3. [i \in 1 .. Len(Pools) |-> AddPool(Pools[i])] \in [1 .. Len(Pools) -> Message]
    BY <2>2
  <2>4. QED
    BY <2>1, <2>3, SeqDef
<1>2. queue \in [Workers -> Seq(Message)]
  BY <1>1 DEF Init
<1>3. fetched \in Seq(Accounts \X Found)
  BY EmptySeq DEF Init
<1>4. callbacks \in [Accounts \X Version -> Callback]
  BY DEF Init, Callback
<1>5. /\ accountInfos \in [Workers -> [Accounts -> Info]]
      /\ applied \in [Workers -> [PoolSet -> [Accounts -> Info]]]
  BY DEF Init, NothingApplied, Info
<1>6. QED
  BY <1>2, <1>3, <1>4, <1>5, MaxVersionAssumption DEF Init, TypeOK

\* What a worker does with a message keeps the types of its own state and of
\* the callback that waits for it.
LEMMA StoredType ==
  ASSUME NEW infos \in [Accounts -> Info], NEW a \in Accounts, NEW i \in Found
  PROVE  [infos EXCEPT ![a] = Stored(@, i)] \in [Accounts -> Info]
  BY DEF Stored, Info

LEMMA AnsweredType ==
  ASSUME NEW c \in Callback, NEW w \in Workers, NEW error \in BOOLEAN
  PROVE  Answered(c, w, error) \in Callback
<1>1. c.left \in SUBSET Workers /\ c.error \in BOOLEAN
  <2>1. CASE c \in {NoCallback, Reading, Reseeded}
    <3>1. c = NoCallback \/ c = Reading \/ c = Reseeded
      BY <2>1
    <3>2. NoCallback.left = {} /\ NoCallback.error = FALSE
      BY DEF CallbackState, NoCallback
    <3>3. Reading.left = {} /\ Reading.error = FALSE
      BY DEF CallbackState, Reading
    <3>4. Reseeded.left = {} /\ Reseeded.error = FALSE
      BY DEF CallbackState, Reseeded
    <3>5. QED
      BY <3>1, <3>2, <3>3, <3>4
  <2>2. ASSUME NEW i \in Found, c = HasRead(i)
        PROVE  c.left \in SUBSET Workers /\ c.error \in BOOLEAN
    BY <2>2 DEF CallbackState, HasRead
  <2>3. CASE c \in [stage : {"applying"}, left : (SUBSET Workers) \ {{}},
                    error : BOOLEAN, info : {Unknown}]
    BY <2>3
  <2>4. QED
    BY <2>1, <2>2, <2>3 DEF Callback
<1>2. CASE c.left \ {w} # {}
  <2>1. (c.error \/ error) \in BOOLEAN
    BY <1>1
  <2>2. ASSUME NEW e \in BOOLEAN PROVE Applying(c.left \ {w}, e) \in Callback
    BY <1>1, <1>2 DEF Applying, CallbackState, Callback
  <2>3. QED
    BY <1>2, <2>1, <2>2 DEF Answered
<1>3. CASE c.left \ {w} = {}
  BY <1>3 DEF Answered, Callback
<1>4. QED
  BY <1>2, <1>3

LEMMA WorkType ==
  ASSUME TypeOK, NEW w \in Workers, Work(w)
  PROVE  TypeOK'
<1> DEFINE m == Head(queue[w])
<1>1. /\ queue[w] \in Seq(Message) /\ queue[w] # <<>>
      /\ m \in Message /\ Tail(queue[w]) \in Seq(Message)
  BY HeadTailProperties DEF TypeOK, Work
<1>2. queue' \in [Workers -> Seq(Message)]
  BY <1>1 DEF TypeOK, Work
<1>3. UNCHANGED <<chain, mainVars>>
  BY DEF Work
<1>4. CASE m.type = "addPool" /\ DoAddPool(w, m.pool)
  <2>1. m.pool \in PoolSet
    BY <1>1, <1>4 DEF Message
  <2>2. /\ pools' \in [Workers -> SUBSET PoolSet]
        /\ ammIsInitialized' \in [Workers -> [PoolSet -> BOOLEAN]]
        /\ UNCHANGED <<accountInfos, applied, callbacks>>
    BY <1>4, <2>1 DEF DoAddPool, TypeOK
  <2>3. QED
    BY <1>2, <1>3, <2>2 DEF TypeOK, mainVars
<1>5. CASE m.type = "accountUpdate" /\ DoAccountUpdate(w, m)
  <2> DEFINE infos == [accountInfos[w] EXCEPT ![m.account] = Stored(@, m.info)]
             tried == {p \in AmmsForAccount(w, m.account) : Complete(infos, p)}
             taken == {p \in tried : ~Throws(infos, p)}
             answered == Answered(callbacks[<<m.account, m.info>>], w, tried # taken)
  <2>1. m.account \in Accounts /\ m.info \in Found /\ m.source \in {"seed", "geyser", "reseed"}
    BY <1>1, <1>5 DEF Message
  <2>2. infos \in [Accounts -> Info]
    BY <2>1, StoredType DEF TypeOK
  <2>3. accountInfos' = [accountInfos EXCEPT ![w] = infos]
    BY <1>5 DEF DoAccountUpdate
  <2>4. accountInfos' \in [Workers -> [Accounts -> Info]]
    BY <2>2, <2>3 DEF TypeOK
  <2>5. applied' \in [Workers -> [PoolSet -> [Accounts -> Info]]]
    <3> DEFINE new(p) == [a \in Accounts |-> IF a \in AccountsOf[p] THEN infos[a] ELSE Unknown]
               row == [p \in PoolSet |-> IF p \in taken THEN new(p) ELSE applied[w][p]]
    <3>1. \A p \in PoolSet : new(p) \in [Accounts -> Info]
      BY <2>2 DEF Info
    <3>2. row \in [PoolSet -> [Accounts -> Info]]
      BY <3>1 DEF TypeOK
    <3>3. applied' = [applied EXCEPT ![w] = row]
      BY <1>5 DEF DoAccountUpdate
    <3>4. QED
      BY <3>2, <3>3 DEF TypeOK
  <2>6. ammIsInitialized' \in [Workers -> [PoolSet -> BOOLEAN]]
    BY <1>5 DEF DoAccountUpdate, TypeOK
  <2>7. callbacks' \in [Accounts \X Version -> Callback]
    <3>1. CASE m.source = "geyser" /\ <<m.account, m.info>> \in Accounts \X Version
      <4>1. answered \in Callback
        BY <3>1, AnsweredType DEF TypeOK
      <4>2. callbacks' = [callbacks EXCEPT ![<<m.account, m.info>>] = answered]
        BY <1>5, <3>1 DEF DoAccountUpdate
      <4>3. QED
        BY <4>1, <4>2 DEF TypeOK
    <3>2. CASE m.source = "geyser" /\ <<m.account, m.info>> \notin Accounts \X Version
      BY <1>5, <3>2 DEF DoAccountUpdate, TypeOK
    <3>3. CASE m.source # "geyser"
      BY <1>5, <3>3 DEF DoAccountUpdate, TypeOK
    <3>4. QED
      BY <3>1, <3>2, <3>3
  <2>8. pools' = pools
    BY <1>5 DEF DoAccountUpdate
  <2>9. QED
    BY <1>2, <1>3, <2>4, <2>5, <2>6, <2>7, <2>8 DEF TypeOK, mainVars
<1>6. QED
  BY <1>4, <1>5 DEF Work

LEMMA NextType == TypeOK /\ [Next]_vars => TypeOK'
<1> SUFFICES ASSUME TypeOK, [Next]_vars PROVE TypeOK'
  OBVIOUS
<1>1. CASE StartFetch
  BY <1>1 DEF StartFetch, TypeOK, workerVars
<1>2. ASSUME NEW a \in Accounts, ChainWrite(a) PROVE TypeOK'
  BY <1>2, MaxVersionAssumption DEF ChainWrite, TypeOK, mainVars, workerVars
<1>3. ASSUME NEW a \in Accounts, Fetch(a) PROVE TypeOK'
  <2>1. <<a, OnChain(a)>> \in Accounts \X Found
    BY OnChainIsFound
  <2>2. fetched' \in Seq(Accounts \X Found)
    BY <1>3, <2>1, AppendProperties DEF Fetch, TypeOK
  <2>3. QED
    BY <1>3, <2>2 DEF Fetch, TypeOK, workerVars
<1>4. CASE Seed
  <2> DEFINE ms == [i \in DOMAIN fetched |-> AccountUpdate(fetched[i][1], fetched[i][2], "seed")]
  <2>1. ms \in Seq(Message)
    BY SeedsType
  <2>2. Broadcast(ms)
    BY <1>4 DEF Seed
  <2> HIDE DEF ms
  <2>3. queue' \in [Workers -> Seq(Message)]
    BY <2>1, <2>2, BroadcastType DEF TypeOK
  <2>4. QED
    BY <1>4, <2>3 DEF Seed, TypeOK, workerVars
<1>5. CASE Subscribe
  BY <1>5, MaxVersionAssumption DEF Subscribe, TypeOK, workerVars
<1>6. ASSUME NEW a \in Accounts, NEW v \in Version, Update(a, v) PROVE TypeOK'
  <2>1. AccountUpdate(a, v, "geyser") \in Message
    BY MessageTypes DEF Found
  <2>2. queue' \in [Workers -> Seq(Message)]
    BY <1>6, <2>1, SingletonSeq, BroadcastType DEF Update, TypeOK
  <2>3. Applying(Workers, FALSE) \in Callback
    BY WorkersAssumption DEF Applying, CallbackState, Callback
  <2>4. callbacks' \in [Accounts \X Version -> Callback]
    BY <1>6, <2>3 DEF Update, TypeOK
  <2>5. seqs' \in [Accounts -> 0 .. MaxVersion]
    BY <1>6 DEF Update, TypeOK, Version
  <2>6. QED
    BY <1>6, <2>2, <2>4, <2>5 DEF Update, TypeOK, workerVars
<1>7. ASSUME NEW a \in Accounts, NEW v \in Version, ReseedRead(a, v) PROVE TypeOK'
  <2>1. HasRead(OnChain(a)) \in Callback
    BY OnChainIsFound DEF Callback
  <2>2. QED
    BY <1>7, <2>1 DEF ReseedRead, TypeOK, mainVars, workerVars
<1>8. ASSUME NEW a \in Accounts, NEW v \in Version, Reseed(a, v) PROVE TypeOK'
  <2>1. callbacks[<<a, v>>].stage = "read"
    BY <1>8 DEF Reseed
  <2>2. callbacks[<<a, v>>].info \in Found
    BY <2>1, ReadIsFound
  <2>3. AccountUpdate(a, callbacks[<<a, v>>].info, "reseed") \in Message
    BY <2>2, MessageTypes
  <2>4. queue' \in [Workers -> Seq(Message)]
    BY <1>8, <2>3, SingletonSeq, BroadcastType DEF Reseed, TypeOK
  <2>5. callbacks' \in [Accounts \X Version -> Callback]
    BY <1>8 DEF Reseed, TypeOK, Callback
  <2>6. QED
    BY <1>8, <2>4, <2>5 DEF Reseed, TypeOK, mainVars, workerVars
<1>9. ASSUME NEW w \in Workers, Work(w) PROVE TypeOK'
  BY <1>9, WorkType
<1>10. ASSUME NEW a \in Accounts, NEW v \in Version, ReseedThrows(a, v) PROVE TypeOK'
  BY <1>10 DEF ReseedThrows, TypeOK, workerVars
<1>11. CASE UNCHANGED vars
  BY <1>11 DEF vars, TypeOK, mainVars, workerVars
<1>12. QED
  BY <1>1, <1>2, <1>3, <1>4, <1>5, <1>6, <1>7, <1>8, <1>9, <1>10, <1>11 DEF Next, Wait

\* The state of the feed has the types it is declared with.
THEOREM TypeCorrect == Spec => []TypeOK
  BY InitType, NextType, PTL DEF Spec

(***************************************************************************)
(* Pools quote only from complete data                                     *)
(***************************************************************************)

\* The inductive form: it ranges over all pools, added or not.
QuotablePoolsHaveData ==
  \A w \in Workers, p \in PoolSet : ammIsInitialized[w][p] =>
    \A a \in AccountsOf[p] : accountInfos[w][a] \in Version /\ applied[w][p][a] \in Version

LEMMA WorkKeepsData ==
  ASSUME TypeOK, QuotablePoolsHaveData, NEW w \in Workers, Work(w)
  PROVE  QuotablePoolsHaveData'
<1> DEFINE m == Head(queue[w])
<1>1. m \in Message
  BY HeadTailProperties DEF TypeOK, Work
<1>2. CASE m.type = "addPool" /\ DoAddPool(w, m.pool)
  BY <1>2, AccountsOfAssumption DEF DoAddPool, TypeOK, QuotablePoolsHaveData
<1>3. CASE m.type = "accountUpdate" /\ DoAccountUpdate(w, m)
  <2> DEFINE infos == [accountInfos[w] EXCEPT ![m.account] = Stored(@, m.info)]
             tried == {p \in AmmsForAccount(w, m.account) : Complete(infos, p)}
             taken == {p \in tried : ~Throws(infos, p)}
             new(p) == [a \in Accounts |-> IF a \in AccountsOf[p] THEN infos[a] ELSE Unknown]
  <2>1. m.account \in Accounts /\ m.info \in Found
    BY <1>1, <1>3 DEF Message
  <2>2. infos \in [Accounts -> Info]
    BY <2>1, StoredType DEF TypeOK
  <2>3. \A a \in Accounts : accountInfos[w][a] \in Version => infos[a] \in Version
    BY <2>1 DEF Stored, Found, Version, Null, Unknown, TypeOK
  <2>4. accountInfos' = [accountInfos EXCEPT ![w] = infos]
    BY <1>3 DEF DoAccountUpdate
  <2>5. accountInfos'[w] = infos /\ \A x \in Workers \ {w} : accountInfos'[x] = accountInfos[x]
    BY <2>4 DEF TypeOK
  <2>6. /\ \A p \in PoolSet : applied'[w][p] = IF p \in taken THEN new(p) ELSE applied[w][p]
        /\ \A x \in Workers \ {w} : applied'[x] = applied[x]
    BY <1>3 DEF DoAccountUpdate, TypeOK
  <2>7. /\ \A p \in PoolSet :
              ammIsInitialized'[w][p] = (ammIsInitialized[w][p] \/ (p \in taken /\ Quotable(infos, p)))
        /\ \A x \in Workers \ {w} : ammIsInitialized'[x] = ammIsInitialized[x]
    BY <1>3 DEF DoAccountUpdate, TypeOK
  <2>8. \A p \in PoolSet : Quotable(infos, p) => \A a \in AccountsOf[p] : infos[a] \in Version
    BY <2>2, AccountsOfAssumption DEF Quotable, Complete, Info, Found
  <2>9. ASSUME NEW p \in PoolSet, NEW a \in AccountsOf[p], ammIsInitialized'[w][p]
        PROVE  infos[a] \in Version /\ applied'[w][p][a] \in Version
    <3> a \in Accounts
      BY AccountsOfAssumption
    <3>1. infos[a] \in Version
      BY <2>3, <2>7, <2>8, <2>9 DEF QuotablePoolsHaveData
    <3>2. CASE p \in taken
      <4>1. applied'[w][p] = new(p)
        BY <2>6, <3>2
      <4>2. QED
        BY <3>1, <4>1
    <3>3. CASE p \notin taken
      <4>1. ammIsInitialized[w][p] /\ applied'[w][p] = applied[w][p]
        BY <2>6, <2>7, <2>9, <3>3
      <4>2. QED
        BY <3>1, <4>1 DEF QuotablePoolsHaveData
    <3>4. QED
      BY <3>2, <3>3, <3>1
  <2>10. QED
    BY <2>5, <2>6, <2>7, <2>9 DEF QuotablePoolsHaveData
<1>4. QED
  BY <1>2, <1>3 DEF Work

LEMMA NextKeepsData ==
  TypeOK /\ QuotablePoolsHaveData /\ [Next]_vars => QuotablePoolsHaveData'
<1> SUFFICES ASSUME TypeOK, QuotablePoolsHaveData, [Next]_vars
             PROVE  QuotablePoolsHaveData'
  OBVIOUS
<1>1. ASSUME NEW w \in Workers, Work(w) PROVE QuotablePoolsHaveData'
  BY <1>1, WorkKeepsData
<1>2. CASE UNCHANGED workerVars
  BY <1>2 DEF workerVars, QuotablePoolsHaveData
<1>3. QED
  BY <1>1, <1>2 DEF Next, StartFetch, ChainWrite, Fetch, Seed, Subscribe, Update,
    ReseedRead, ReseedThrows, Reseed, Wait, vars

\* A pool that may quote holds data, none of it unknown or missing, for every
\* account it reads, and was updated with such data.
THEOREM QuotesComplete == Spec => []InitializedIsComplete
<1>1. Init => QuotablePoolsHaveData
  BY DEF Init, QuotablePoolsHaveData
<1>2. QuotablePoolsHaveData /\ TypeOK => InitializedIsComplete
  BY DEF QuotablePoolsHaveData, InitializedIsComplete, TypeOK
<1>3. TypeOK /\ QuotablePoolsHaveData /\ [Next]_vars => TypeOK' /\ QuotablePoolsHaveData'
  BY NextType, NextKeepsData
<1>4. QED
  BY InitType, <1>1, <1>2, <1>3, PTL DEF Spec

(***************************************************************************)
(* Quotes follow the accounts                                              *)
(***************************************************************************)

\* The pools come before the accounts: a worker that still has a pool to add
\* knows no account, and no update is in front of the pool.
PoolsFirst ==
  \A w \in Workers : \A j \in DOMAIN queue[w] : queue[w][j].type = "addPool" =>
    /\ \A i \in 1 .. j : queue[w][i].type = "addPool"
    /\ \A a \in Accounts : accountInfos[w][a] = Unknown


\* What is behind what in a queue after messages were sent and taken.
LEMMA SentBehind ==
  ASSUME NEW q \in Seq(Message), NEW ms \in Seq(Message), NEW r, r = q \o ms
  PROVE  /\ DOMAIN q \subseteq DOMAIN r
         /\ \A i \in DOMAIN q : i \in Nat /\ r[i] = q[i] /\ 1 .. i \subseteq DOMAIN q
         /\ \A i \in DOMAIN r : i \notin DOMAIN q =>
              i - Len(q) \in DOMAIN ms /\ r[i] = ms[i - Len(q)] /\ \A j \in DOMAIN q : j < i
<1>1. Len(q) \in Nat /\ Len(ms) \in Nat /\ Len(r) = Len(q) + Len(ms) /\ r \in Seq(Message)
  OBVIOUS
<1>2. DOMAIN q = 1 .. Len(q) /\ DOMAIN ms = 1 .. Len(ms) /\ DOMAIN r = 1 .. Len(q) + Len(ms)
  BY <1>1
<1>3. \A i \in DOMAIN q : i \in Nat /\ r[i] = q[i] /\ 1 .. i \subseteq DOMAIN q
  BY <1>1, <1>2
<1>4. ASSUME NEW i \in DOMAIN r, i \notin DOMAIN q
      PROVE  i - Len(q) \in DOMAIN ms /\ r[i] = ms[i - Len(q)] /\ \A j \in DOMAIN q : j < i
  BY <1>1, <1>2, <1>4
<1> QED BY <1>1, <1>2, <1>3, <1>4

LEMMA TakenFront ==
  ASSUME NEW q \in Seq(Message), q # <<>>, NEW r, r = Tail(q)
  PROVE  /\ 1 \in DOMAIN q /\ q[1] = Head(q) /\ Head(q) \in Message
         /\ \A i \in DOMAIN r : i \in Nat /\ i + 1 \in DOMAIN q /\ i + 1 > 1 /\ r[i] = q[i + 1] /\ 1 .. i \subseteq DOMAIN r
  OBVIOUS

\* Every step is one of these, as far as the workers are concerned.
LEMMA QueueStep ==
  ASSUME TypeOK, [Next]_vars
  PROVE  \/ \E w \in Workers : Work(w)
         \/ UNCHANGED workerVars /\ UNCHANGED queue
         \/ /\ UNCHANGED workerVars
            /\ \E ms \in Seq(Message) :
                 /\ Broadcast(ms)
                 /\ \A i \in DOMAIN ms : ms[i].type = "accountUpdate"
<1>1. ASSUME Seed
      PROVE  \E ms \in Seq(Message) : Broadcast(ms) /\ \A i \in DOMAIN ms : ms[i].type = "accountUpdate"
  <2> DEFINE ms == [i \in DOMAIN fetched |-> AccountUpdate(fetched[i][1], fetched[i][2], "seed")]
  <2>1. ms \in Seq(Message)
    BY SeedsType
  <2>2. Broadcast(ms)
    BY <1>1 DEF Seed
  <2>3. \A i \in DOMAIN ms : ms[i].type = "accountUpdate"
    BY DEF AccountUpdate
  <2> HIDE DEF ms
  <2> QED BY <2>1, <2>2, <2>3
<1>2. ASSUME NEW m \in Message, m.type = "accountUpdate", Broadcast(<<m>>)
      PROVE  \E ms \in Seq(Message) : Broadcast(ms) /\ \A i \in DOMAIN ms : ms[i].type = "accountUpdate"
  <2>1. <<m>> \in Seq(Message) /\ \A i \in DOMAIN <<m>> : <<m>>[i].type = "accountUpdate"
    BY <1>2
  <2> QED BY <1>2, <2>1
<1>3. ASSUME NEW a \in Accounts, NEW v \in Version, Update(a, v)
      PROVE  \E ms \in Seq(Message) : Broadcast(ms) /\ \A i \in DOMAIN ms : ms[i].type = "accountUpdate"
  <2>1. AccountUpdate(a, v, "geyser") \in Message /\ AccountUpdate(a, v, "geyser").type = "accountUpdate"
    BY MessageTypes DEF Found, AccountUpdate
  <2> QED BY <1>2, <1>3, <2>1 DEF Update
<1>4. ASSUME NEW a \in Accounts, NEW v \in Version, Reseed(a, v)
      PROVE  \E ms \in Seq(Message) : Broadcast(ms) /\ \A i \in DOMAIN ms : ms[i].type = "accountUpdate"
  <2> DEFINE m == AccountUpdate(a, callbacks[<<a, v>>].info, "reseed")
  <2>1. m \in Message /\ m.type = "accountUpdate"
    BY <1>4, ReadIsFound, MessageTypes DEF AccountUpdate, Reseed
  <2>2. Broadcast(<<m>>)
    BY <1>4 DEF Reseed
  <2> HIDE DEF m
  <2> QED BY <1>2, <2>1, <2>2
<1> QED
  BY <1>1, <1>3, <1>4 DEF Next, StartFetch, ChainWrite, Fetch, Seed, Subscribe, Update,
    ReseedRead, ReseedThrows, Reseed, Wait, vars

LEMMA PoolsFirstStep == TypeOK /\ PoolsFirst /\ [Next]_vars => PoolsFirst'
<1> SUFFICES ASSUME TypeOK, PoolsFirst, [Next]_vars, NEW w \in Workers,
                    NEW j \in DOMAIN queue'[w], queue'[w][j].type = "addPool"
             PROVE  /\ \A i \in 1 .. j : queue'[w][i].type = "addPool"
                    /\ \A a \in Accounts : accountInfos'[w][a] = Unknown
  BY DEF PoolsFirst
<1>1. queue[w] \in Seq(Message)
  BY DEF TypeOK
<1>2. CASE UNCHANGED workerVars /\ UNCHANGED queue
  BY <1>2 DEF PoolsFirst, workerVars
<1>3. ASSUME UNCHANGED workerVars, NEW ms \in Seq(Message), Broadcast(ms),
             \A i \in DOMAIN ms : ms[i].type = "accountUpdate"
      PROVE  /\ \A i \in 1 .. j : queue'[w][i].type = "addPool"
             /\ \A a \in Accounts : accountInfos'[w][a] = Unknown
  <2>1. queue'[w] = queue[w] \o ms
    BY <1>3 DEF Broadcast, Recipients, Enqueue
  <2>2. j \in DOMAIN queue[w]
    BY <1>1, <1>3, <2>1, SentBehind
  <2>3. \A i \in 1 .. j : queue'[w][i] = queue[w][i]
    BY <1>1, <2>1, <2>2, SentBehind
  <2>4. queue[w][j].type = "addPool"
    BY <1>1, <2>1, <2>2, SentBehind
  <2> QED BY <1>3, <2>2, <2>3, <2>4 DEF PoolsFirst, workerVars
<1>4. ASSUME NEW x \in Workers, Work(x)
      PROVE  /\ \A i \in 1 .. j : queue'[w][i].type = "addPool"
             /\ \A a \in Accounts : accountInfos'[w][a] = Unknown
  <2>1. CASE w # x
    <3>1. queue'[w] = queue[w] /\ accountInfos'[w] = accountInfos[w]
      BY <1>4, <2>1 DEF Work, DoAddPool, DoAccountUpdate, TypeOK
    <3> QED BY <3>1 DEF PoolsFirst
  <2>2. CASE w = x
    <3>1. queue[w] # <<>> /\ queue'[w] = Tail(queue[w])
      BY <1>4, <2>2 DEF Work, TypeOK
    <3>2. /\ 1 \in 1 .. j + 1 /\ queue[w][1] = Head(queue[w])
          /\ j \in Nat /\ j + 1 \in DOMAIN queue[w] /\ queue[w][j + 1].type = "addPool"
          /\ \A i \in 1 .. j : i + 1 \in 1 .. j + 1 /\ queue'[w][i] = queue[w][i + 1]
      BY <1>1, <3>1, TakenFront
    <3>3. \A i \in 1 .. j + 1 : queue[w][i].type = "addPool"
      BY <3>2 DEF PoolsFirst
    <3>4. Head(queue[w]).type = "addPool"
      BY <3>2, <3>3
    <3>5. accountInfos' = accountInfos
      BY <1>4, <2>2, <3>4 DEF Work, DoAddPool
    <3> QED BY <3>2, <3>3, <3>5 DEF PoolsFirst
  <2> QED BY <2>1, <2>2
<1> QED BY <1>2, <1>3, <1>4, QueueStep

\* What a worker does with a message, pool by pool.
LEMMA WorkEffect ==
  ASSUME TypeOK, NEW w \in Workers, Work(w), NEW m, m = Head(queue[w])
  PROVE  /\ m \in Message
         /\ \A x \in Workers \ {w} :
              UNCHANGED <<queue[x], pools[x], accountInfos[x], applied[x], ammIsInitialized[x]>>
         /\ m.type = "addPool" =>
              /\ pools'[w] = pools[w] \cup {m.pool}
              /\ UNCHANGED <<accountInfos, applied, callbacks>>
         /\ m.type # "addPool" =>
              /\ m.type = "accountUpdate" /\ m.account \in Accounts /\ m.info \in Found
              /\ pools' = pools
              /\ accountInfos'[w] = [accountInfos[w] EXCEPT ![m.account] = Stored(@, m.info)]
              /\ \A p \in PoolSet :
                   IF /\ p \in AmmsForAccount(w, m.account)
                      /\ Complete(accountInfos'[w], p) /\ ~Throws(accountInfos'[w], p)
                   THEN \A a \in AccountsOf[p] : applied'[w][p][a] = accountInfos'[w][a]
                   ELSE applied'[w][p] = applied[w][p]
<1>1. m \in Message
  BY HeadTailProperties DEF TypeOK, Work
<1>2. CASE m.type = "addPool" /\ DoAddPool(w, m.pool)
  BY <1>1, <1>2 DEF DoAddPool, Work, TypeOK
<1>3. CASE m.type = "accountUpdate" /\ DoAccountUpdate(w, m)
  <2> DEFINE infos == [accountInfos[w] EXCEPT ![m.account] = Stored(@, m.info)]
             tried == {p \in AmmsForAccount(w, m.account) : Complete(infos, p)}
             taken == {p \in tried : ~Throws(infos, p)}
             new(p) == [a \in Accounts |-> IF a \in AccountsOf[p] THEN infos[a] ELSE Unknown]
  <2>1. m.account \in Accounts /\ m.info \in Found
    BY <1>1, <1>3 DEF Message
  <2>2. accountInfos' = [accountInfos EXCEPT ![w] = infos]
    BY <1>3 DEF DoAccountUpdate
  <2>3. accountInfos'[w] = infos /\ \A x \in Workers \ {w} : accountInfos'[x] = accountInfos[x]
    BY <2>2 DEF TypeOK
  <2>4. /\ \A p \in PoolSet : applied'[w][p] = IF p \in taken THEN new(p) ELSE applied[w][p]
        /\ \A x \in Workers \ {w} : applied'[x] = applied[x]
    BY <1>3 DEF DoAccountUpdate, TypeOK
  <2>5. \A x \in Workers \ {w} : queue'[x] = queue[x] /\ ammIsInitialized'[x] = ammIsInitialized[x]
    BY <1>3 DEF DoAccountUpdate, Work, TypeOK
  <2>6. pools' = pools
    BY <1>3 DEF DoAccountUpdate
  <2>7. ASSUME NEW p \in PoolSet
        PROVE  IF /\ p \in AmmsForAccount(w, m.account)
                  /\ Complete(accountInfos'[w], p) /\ ~Throws(accountInfos'[w], p)
               THEN \A a \in AccountsOf[p] : applied'[w][p][a] = accountInfos'[w][a]
               ELSE applied'[w][p] = applied[w][p]
    <3> HIDE DEF infos
    <3>1. p \in taken <=> /\ p \in AmmsForAccount(w, m.account)
                         /\ Complete(accountInfos'[w], p) /\ ~Throws(accountInfos'[w], p)
      BY <2>3
    <3>2. \A a \in AccountsOf[p] : a \in Accounts /\ new(p)[a] = infos[a]
      BY AccountsOfAssumption
    <3> HIDE DEF taken, new
    <3> QED BY <2>3, <2>4, <3>1, <3>2
  <2> QED BY <1>1, <1>3, <2>1, <2>3, <2>4, <2>5, <2>6, <2>7
<1> QED BY <1>1, <1>2, <1>3 DEF Work

LEMMA QuotesStep ==
  TypeOK /\ PoolsFirst /\ QuotesFollowAccounts /\ [Next]_vars => QuotesFollowAccounts'
<1> SUFFICES ASSUME TypeOK, PoolsFirst, QuotesFollowAccounts, [Next]_vars, NEW w \in Workers,
                    NEW p \in pools'[w], AccountsOf[p] # {},
                    Complete(accountInfos'[w], p), ~Throws(accountInfos'[w], p), NEW a \in AccountsOf[p]
             PROVE  applied'[w][p][a] = accountInfos'[w][a]
  BY DEF QuotesFollowAccounts, Complete, Throws
<1>1. CASE UNCHANGED workerVars
  BY <1>1 DEF workerVars, QuotesFollowAccounts
<1>2. ASSUME NEW x \in Workers, Work(x)
      PROVE  applied'[w][p][a] = accountInfos'[w][a]
  <2>1. CASE w # x
    <3>1. UNCHANGED <<queue[w], pools[w], accountInfos[w], applied[w], ammIsInitialized[w]>>
      BY <1>2, <2>1, WorkEffect
    <3>2. p \in pools[w] /\ Complete(accountInfos[w], p) /\ ~Throws(accountInfos[w], p)
      BY <3>1
    <3> QED BY <3>1, <3>2 DEF QuotesFollowAccounts
  <2>2. CASE w = x /\ Head(queue[w]).type = "addPool"
    <3>1. /\ queue[w] # <<>> /\ queue[w] \in Seq(Message)
          /\ accountInfos'[w] = accountInfos[w] /\ applied'[w] = applied[w]
          /\ pools'[w] = pools[w] \cup {Head(queue[w]).pool}
      BY <1>2, <2>2, WorkEffect DEF Work, TypeOK
    <3>2. \A b \in Accounts : accountInfos[w][b] = Unknown
      BY <2>2, <3>1, TakenFront DEF PoolsFirst
    <3>3. p \in PoolSet
      BY TypeOK, NextType DEF TypeOK
    <3>4. ~Complete(accountInfos[w], p)
      BY <3>2, <3>3, AccountsOfAssumption DEF Complete
    <3> QED BY <3>1, <3>4
  <2>3. CASE w = x /\ Head(queue[w]).type # "addPool"
    <3> DEFINE m == Head(queue[w])
    <3>1. /\ pools' = pools /\ m.account \in Accounts
          /\ accountInfos'[w] = [accountInfos[w] EXCEPT ![m.account] = Stored(@, m.info)]
          /\ \A q \in PoolSet :
               IF /\ q \in AmmsForAccount(w, m.account)
                  /\ Complete(accountInfos'[w], q) /\ ~Throws(accountInfos'[w], q)
               THEN \A b \in AccountsOf[q] : applied'[w][q][b] = accountInfos'[w][b]
               ELSE applied'[w][q] = applied[w][q]
      BY <1>2, <2>3, WorkEffect
    <3> HIDE DEF m
    <3>2. p \in pools[w] /\ p \in PoolSet
      BY <3>1 DEF TypeOK
    <3>3. CASE m.account \in AccountsOf[p]
      BY <3>1, <3>2, <3>3 DEF AmmsForAccount
    <3>4. CASE m.account \notin AccountsOf[p]
      <4>1. \A b \in AccountsOf[p] : b \in Accounts /\ accountInfos'[w][b] = accountInfos[w][b]
        BY <3>1, <3>2, <3>4, AccountsOfAssumption DEF TypeOK
      <4>2. applied'[w][p] = applied[w][p]
        BY <3>1, <3>2, <3>4 DEF AmmsForAccount
      <4>3. Complete(accountInfos[w], p) /\ ~Throws(accountInfos[w], p)
        BY <4>1 DEF Complete, Throws
      <4> QED BY <3>2, <4>1, <4>2, <4>3 DEF QuotesFollowAccounts
    <3> QED BY <3>3, <3>4
  <2> QED BY <2>1, <2>2, <2>3
<1> QED BY <1>1, <1>2, QueueStep

\* Whenever all accounts of a pool are known and acceptable, the pool was
\* updated with exactly them, for any pools, accounts and messages.
THEOREM QuotesAreCurrent == Spec => []QuotesFollowAccounts
<1>1. Init => PoolsFirst
  <2> SUFFICES ASSUME Init, NEW w \in Workers, NEW j \in DOMAIN queue[w]
               PROVE  /\ \A i \in 1 .. j : queue[w][i].type = "addPool"
                      /\ \A a \in Accounts : accountInfos[w][a] = Unknown
    BY DEF PoolsFirst
  <2>1. queue[w] = [i \in DOMAIN Pools |-> AddPool(Pools[i])]
    BY DEF Init
  <2>2. DOMAIN Pools = 1 .. Len(Pools) /\ Len(Pools) \in Nat
    BY PoolsAssumption
  <2>3. j \in 1 .. Len(Pools) /\ 1 .. j \subseteq DOMAIN Pools
    BY <2>1, <2>2
  <2>4. \A i \in 1 .. j : queue[w][i].type = "addPool"
    BY <2>1, <2>3 DEF AddPool
  <2> QED BY <2>4 DEF Init, NothingApplied
<1>2. Init => QuotesFollowAccounts
  BY DEF Init, QuotesFollowAccounts
<1> QED BY <1>1, <1>2, InitType, NextType, PoolsFirstStep, QuotesStep, PTL DEF Spec

(***************************************************************************)
(* The order of the updates                                                *)
(***************************************************************************)
Updates(w, a) == {i \in DOMAIN queue[w] : queue[w][i].type = "accountUpdate" /\ queue[w][i].account = a}
GeyserUpdates(w) == {i \in DOMAIN queue[w] : queue[w][i].type = "accountUpdate" /\ queue[w][i].source = "geyser"}
Subscribed == phase \in {"live", "ended"}

\* Before the seeds nothing is known, before the subscription geyser delivers
\* nothing, and every account is fetched once.
BootInv ==
  /\ phase \in {"adding", "fetching"} =>
       \A w \in Workers, a \in Accounts : Updates(w, a) = {} /\ accountInfos[w][a] = Unknown
  /\ ~Subscribed => \A w \in Workers : GeyserUpdates(w) = {}
  /\ ~Subscribed => \A c \in Accounts \X Version : callbacks[c] = NoCallback
  /\ \A i \in DOMAIN fetched : fetched[i][2] <= chain[fetched[i][1]]
  /\ \A i, j \in DOMAIN fetched : fetched[i][1] = fetched[j][1] => i = j

\* A geyser update is queued once for a worker, and its callback waits for the
\* worker till then; so no callback is reused or ends early.
CallbackInv ==
  /\ \A w \in Workers : \A i \in GeyserUpdates(w) :
       LET m == queue[w][i] IN
         /\ m.info \in 1 .. seqs[m.account]
         /\ callbacks[<<m.account, m.info>>].stage = "applying"
         /\ w \in callbacks[<<m.account, m.info>>].left
         /\ \A j \in GeyserUpdates(w) : queue[w][j] = m => j = i
  /\ \A a \in Accounts, v \in Version : callbacks[<<a, v>>] # NoCallback => v <= seqs[a]

\* The newest version a worker can have heard of, unless the account was read
\* again.
ReadAgain(a) == \E v \in Version : callbacks[<<a, v>>] = Reseeded
Newest(a) ==
  IF ~Subscribed THEN chain[a] ELSE IF seqs[a] <= subscribedAt[a] THEN subscribedAt[a] ELSE seqs[a]
AgeInv ==
  \A w \in Workers, a \in Accounts : ~ReadAgain(a) =>
    /\ accountInfos[w][a] <= Newest(a)
    /\ \A i \in Updates(w, a) : accountInfos[w][a] <= queue[w][i].info /\ queue[w][i].info <= Newest(a)
    /\ \A i, j \in Updates(w, a) : i <= j => queue[w][i].info <= queue[w][j].info

\* Where the messages of the queues were before a worker took one ...
LEMMA AfterWork ==
  ASSUME TypeOK, NEW x \in Workers, Work(x), NEW w \in Workers, NEW i \in DOMAIN queue'[w]
  PROVE  \E j \in DOMAIN queue[w] :
           /\ i \in Nat /\ queue'[w][i] = queue[w][j]
           /\ IF w = x THEN j = i + 1 /\ j > 1 ELSE j = i
<1>1. queue[w] \in Seq(Message)
  BY DEF TypeOK
<1>2. CASE w = x
  <2>1. queue[w] # <<>> /\ queue'[w] = Tail(queue[w])
    BY <1>2 DEF Work, TypeOK
  <2> QED BY <1>1, <1>2, <2>1, TakenFront
<1>3. CASE w # x
  <2>1. queue'[w] = queue[w]
    BY <1>3 DEF Work, TypeOK
  <2> QED BY <1>1, <1>3, <2>1
<1> QED BY <1>2, <1>3

\* ... and before one was sent to all.
LEMMA AfterBroadcast ==
  ASSUME TypeOK, NEW m \in Message, Broadcast(<<m>>), NEW w \in Workers, NEW i \in DOMAIN queue'[w]
  PROVE  /\ i \in Nat
         /\ \A j \in DOMAIN queue[w] : j \in Nat /\ j < Len(queue[w]) + 1
         /\ IF i \in DOMAIN queue[w]
            THEN queue'[w][i] = queue[w][i]
            ELSE queue'[w][i] = m /\ i = Len(queue[w]) + 1
<1>1. queue[w] \in Seq(Message) /\ queue'[w] = queue[w] \o <<m>> /\ <<m>> \in Seq(Message)
  BY DEF TypeOK, Broadcast, Recipients, Enqueue
<1>2. /\ DOMAIN queue[w] = 1 .. Len(queue[w]) /\ Len(queue[w]) \in Nat
      /\ DOMAIN queue'[w] = 1 .. Len(queue[w]) + 1
      /\ queue'[w][Len(queue[w]) + 1] = m
      /\ \A k \in 1 .. Len(queue[w]) : queue'[w][k] = queue[w][k]
  BY <1>1
<1> QED BY <1>2

\* Which callback a worker's answer touches.
LEMMA WorkCallbacks ==
  ASSUME TypeOK, NEW w \in Workers, Work(w), NEW m, m = Head(queue[w])
  PROVE  /\ 1 \in DOMAIN queue[w] /\ queue[w][1] = m
         /\ \/ callbacks' = callbacks /\ ~(m.type = "accountUpdate" /\ m.source = "geyser")
            \/ /\ m.type = "accountUpdate" /\ m.source = "geyser"
               /\ \E e \in BOOLEAN :
                    callbacks' = [callbacks EXCEPT ![<<m.account, m.info>>] = Answered(@, w, e)]
<1>1. 1 \in DOMAIN queue[w] /\ queue[w][1] = m
  BY TakenFront DEF Work, TypeOK
<1>2. CASE m.type = "addPool" /\ DoAddPool(w, m.pool)
  BY <1>1, <1>2 DEF DoAddPool
<1>3. CASE m.type = "accountUpdate" /\ DoAccountUpdate(w, m)
  <2> DEFINE infos == [accountInfos[w] EXCEPT ![m.account] = Stored(@, m.info)]
             tried == {p \in AmmsForAccount(w, m.account) : Complete(infos, p)}
             taken == {p \in tried : ~Throws(infos, p)}
  <2>1. PICK e : e = (tried # taken)
    OBVIOUS
  <2>2. e \in BOOLEAN
    BY <2>1
  <2>3. callbacks' = IF m.source = "geyser"
                     THEN [callbacks EXCEPT ![<<m.account, m.info>>] = Answered(@, w, e)]
                     ELSE callbacks
    BY <1>3, <2>1 DEF DoAccountUpdate
  <2> HIDE DEF tried, taken, infos
  <2> QED BY <1>1, <1>3, <2>2, <2>3
<1> QED BY <1>2, <1>3 DEF Work

LEMMA BootStep == TypeOK /\ BootInv /\ [Next]_vars => BootInv'
<1> SUFFICES ASSUME TypeOK, BootInv, [Next]_vars PROVE BootInv'
  OBVIOUS
<1>1. ASSUME UNCHANGED <<phase, queue, accountInfos, callbacks, fetched>>,
             \A a \in Accounts : chain[a] <= chain'[a]
      PROVE  BootInv'
  <2>1. \A i \in DOMAIN fetched : fetched[i][1] \in Accounts /\ fetched[i][2] \in Int
    BY MaxVersionAssumption DEF TypeOK, Found, Null, Version
  <2>2. \A a \in Accounts : chain[a] \in Int /\ chain'[a] \in Int
    BY NextType, MaxVersionAssumption DEF TypeOK
  <2>3. \A i \in DOMAIN fetched : fetched[i][2] <= chain'[fetched[i][1]]
    BY <1>1, <2>1, <2>2 DEF BootInv
  <2> QED BY <1>1, <2>3 DEF BootInv, Subscribed, Updates, GeyserUpdates
<1>2. \A a \in Accounts : chain[a] <= chain[a]
  BY MaxVersionAssumption DEF TypeOK
<1>3. CASE StartFetch
  BY <1>3 DEF StartFetch, BootInv, workerVars, Subscribed, Updates, GeyserUpdates
<1>4. ASSUME NEW a \in Accounts, ChainWrite(a) PROVE BootInv'
  <2>1. \A b \in Accounts : chain[b] <= chain'[b]
    BY <1>4, MaxVersionAssumption DEF ChainWrite, TypeOK
  <2> QED BY <1>1, <1>4, <2>1 DEF ChainWrite, mainVars, workerVars
<1>5. ASSUME NEW a \in Accounts, Fetch(a) PROVE BootInv'
  <2>1. OnChain(a) <= chain[a]
    BY MaxVersionAssumption DEF OnChain, Null, TypeOK
  <2>2. /\ fetched' = Append(fetched, <<a, OnChain(a)>>) /\ fetched \in Seq(Accounts \X Found)
        /\ <<a, OnChain(a)>> \in Accounts \X Found
        /\ \A i \in DOMAIN fetched : fetched[i][1] # a
    BY <1>5, OnChainIsFound DEF Fetch, TypeOK
  <2>3. /\ DOMAIN fetched' = DOMAIN fetched \cup {Len(fetched) + 1}
        /\ fetched'[Len(fetched) + 1] = <<a, OnChain(a)>>
        /\ \A i \in DOMAIN fetched : fetched'[i] = fetched[i]
    BY <2>2
  <2>4. \A i \in DOMAIN fetched' : fetched'[i][2] <= chain[fetched'[i][1]]
    BY <2>1, <2>3 DEF BootInv
  <2>5. \A i, j \in DOMAIN fetched' : fetched'[i][1] = fetched'[j][1] => i = j
    BY <2>2, <2>3 DEF BootInv
  <2> QED BY <1>5, <2>4, <2>5 DEF Fetch, BootInv, workerVars, Subscribed, Updates, GeyserUpdates
<1>6. CASE Seed
  <2>1. PICK ms : ms = [i \in DOMAIN fetched |-> AccountUpdate(fetched[i][1], fetched[i][2], "seed")]
    OBVIOUS
  <2>2. ms \in Seq(Message) /\ \A w \in Workers : queue'[w] = queue[w] \o ms /\ queue[w] \in Seq(Message)
    BY <1>6, <2>1, SeedsType DEF Seed, Broadcast, Recipients, Enqueue, TypeOK
  <2>3. \A i \in DOMAIN ms : ms[i].source = "seed"
    BY <2>1 DEF AccountUpdate
  <2>4. \A w \in Workers : GeyserUpdates(w) = {} => GeyserUpdates(w)' = {}
    <3> SUFFICES ASSUME NEW w \in Workers, GeyserUpdates(w) = {}, NEW i \in DOMAIN queue'[w],
                        queue'[w][i].type = "accountUpdate", queue'[w][i].source = "geyser"
                 PROVE  FALSE
      BY DEF GeyserUpdates
    <3>1. PICK q \in Seq(Message), r \in Seq(Message) : q = queue[w] /\ r = ms
      BY <2>2
    <3>2. queue'[w] = q \o r
      BY <2>2, <3>1
    <3>3. i \in DOMAIN (q \o r)
      BY <3>2
    <3>4. CASE i \in DOMAIN q
      <4>1. queue'[w][i] = q[i]
        BY <3>2, <3>4
      <4> QED BY <3>1, <3>4, <4>1 DEF GeyserUpdates
    <3>5. CASE i \notin DOMAIN q
      <4>1. (q \o r)[i] = r[i - Len(q)] /\ i - Len(q) \in DOMAIN r
        BY <3>3, <3>5
      <4> QED BY <2>3, <3>1, <3>2, <4>1
    <3> QED BY <3>4, <3>5
  <2>5. phase = "fetching" /\ phase' = "seeding" /\ UNCHANGED <<fetched, chain, callbacks>>
    BY <1>6 DEF Seed
  <2> QED BY <2>4, <2>5 DEF BootInv, Subscribed
<1>7. CASE Subscribe
  BY <1>7 DEF Subscribe, BootInv, Subscribed
<1>8. ASSUME NEW a \in Accounts, NEW v \in Version, Update(a, v) \/ ReseedRead(a, v) \/ ReseedThrows(a, v) \/ Reseed(a, v)
      PROVE  BootInv'
  <2>1. phase = "live" /\ phase' \in {"live", "ended"} /\ UNCHANGED <<fetched, chain>>
    BY <1>8 DEF Update, ReseedRead, ReseedThrows, Reseed, mainVars
  <2> QED BY <2>1 DEF BootInv, Subscribed
<1>9. ASSUME NEW x \in Workers, Work(x) PROVE BootInv'
  <2>1. UNCHANGED <<chain, phase, fetched>>
    BY <1>9 DEF Work, mainVars
  <2>2. PICK m : m = Head(queue[x])
    OBVIOUS
  <2>3. 1 \in DOMAIN queue[x] /\ queue[x][1] = m /\ m \in Message
    <3>1. 1 \in DOMAIN queue[x] /\ queue[x][1] = m
      BY <1>9, <2>2, WorkCallbacks
    <3>2. queue[x] \in Seq(Message)
      BY DEF TypeOK
    <3> QED BY <3>1, <3>2
  <2>4. ASSUME \A w \in Workers, a \in Accounts : Updates(w, a) = {} /\ accountInfos[w][a] = Unknown
        PROVE  \A w \in Workers, a \in Accounts : Updates(w, a)' = {} /\ accountInfos'[w][a] = Unknown
    <3>1. m.type = "addPool"
      BY <2>3, <2>4 DEF Updates, Message
    <3>2. accountInfos' = accountInfos
      BY <1>9, <2>2, <3>1, WorkEffect
    <3>3. ASSUME NEW w \in Workers, NEW a \in Accounts, NEW i \in DOMAIN queue'[w],
                 queue'[w][i].type = "accountUpdate" /\ queue'[w][i].account = a
          PROVE  FALSE
      <4>1. PICK j \in DOMAIN queue[w] : queue'[w][i] = queue[w][j]
        BY <1>9, AfterWork
      <4> QED BY <2>4, <3>3, <4>1 DEF Updates
    <3> QED BY <2>4, <3>2, <3>3 DEF Updates
  <2>5. ASSUME \A w \in Workers : GeyserUpdates(w) = {}
        PROVE  (\A w \in Workers : GeyserUpdates(w)' = {}) /\ callbacks' = callbacks
    <3>1. callbacks' = callbacks
      <4>1. callbacks' = callbacks \/ (m.type = "accountUpdate" /\ m.source = "geyser")
        BY <1>9, <2>2, WorkCallbacks
      <4> QED BY <2>3, <2>5, <4>1 DEF GeyserUpdates
    <3>2. ASSUME NEW w \in Workers, NEW i \in DOMAIN queue'[w],
                 queue'[w][i].type = "accountUpdate" /\ queue'[w][i].source = "geyser"
          PROVE  FALSE
      <4>1. PICK j \in DOMAIN queue[w] : queue'[w][i] = queue[w][j]
        BY <1>9, AfterWork
      <4> QED BY <2>5, <3>2, <4>1 DEF GeyserUpdates
    <3> QED BY <3>1, <3>2 DEF GeyserUpdates
  <2> QED BY <2>1, <2>4, <2>5 DEF BootInv, Subscribed
<1>10. CASE UNCHANGED vars
  BY <1>1, <1>2, <1>10 DEF vars, mainVars, workerVars
<1> QED BY <1>3, <1>4, <1>5, <1>6, <1>7, <1>8, <1>9, <1>10 DEF Next, Wait

\* A queued geyser update keeps its callback and stays the only one of its kind.
LEMMA CallbackStep == TypeOK /\ BootInv /\ CallbackInv /\ [Next]_vars => CallbackInv'
<1> SUFFICES ASSUME TypeOK, BootInv, CallbackInv, [Next]_vars PROVE CallbackInv'
  OBVIOUS
<1>0. \A a \in Accounts : seqs[a] \in Int
  BY MaxVersionAssumption DEF TypeOK
<1>1. CASE UNCHANGED <<queue, seqs, callbacks>>
  BY <1>1 DEF CallbackInv, GeyserUpdates
<1>2. CASE Seed
  <2>1. BootInv' /\ ~Subscribed'
    BY <1>2, BootStep DEF Seed, Subscribed
  <2>2. /\ \A w \in Workers : GeyserUpdates(w)' = {}
        /\ \A c \in Accounts \X Version : callbacks'[c] = NoCallback
    BY <2>1 DEF BootInv
  <2> QED BY <2>2 DEF CallbackInv
<1>3. CASE Subscribe
  <2>1. /\ \A w \in Workers : GeyserUpdates(w) = {}
        /\ \A c \in Accounts \X Version : callbacks[c] = NoCallback
        /\ UNCHANGED <<queue, callbacks>>
    BY <1>3 DEF Subscribe, BootInv, Subscribed
  <2>2. \A w \in Workers : GeyserUpdates(w)' = {}
    BY <2>1 DEF GeyserUpdates
  <2> QED BY <2>1, <2>2 DEF CallbackInv
<1>4. ASSUME NEW a \in Accounts, NEW v \in Version, Update(a, v) PROVE CallbackInv'
  <2>1. PICK m \in Message : m = AccountUpdate(a, v, "geyser")
    BY MessageTypes DEF Found
  <2>2. m.type = "accountUpdate" /\ m.source = "geyser" /\ m.account = a /\ m.info = v
    BY <2>1 DEF AccountUpdate
  <2>3. Broadcast(<<m>>) /\ v > seqs[a] /\ v \in Nat /\ v >= 1
    BY <1>4, <2>1, MaxVersionAssumption DEF Update, NewerUpdate, Version
  <2>4. /\ seqs'[a] = v /\ \A b \in Accounts : b # a => seqs'[b] = seqs[b]
        /\ callbacks'[<<a, v>>] = Applying(Workers, FALSE)
        /\ \A c \in Accounts \X Version : c # <<a, v>> => callbacks'[c] = callbacks[c]
    BY <1>4 DEF Update, TypeOK
  <2>5. \A b \in Accounts : seqs[b] <= seqs'[b]
    BY <1>0, <2>3, <2>4
  <2>6. ASSUME NEW w \in Workers, NEW i \in GeyserUpdates(w)'
        PROVE  /\ queue'[w][i].info \in 1 .. seqs'[queue'[w][i].account]
               /\ callbacks'[<<queue'[w][i].account, queue'[w][i].info>>].stage = "applying"
               /\ w \in callbacks'[<<queue'[w][i].account, queue'[w][i].info>>].left
               /\ \A j \in GeyserUpdates(w)' : queue'[w][j] = queue'[w][i] => j = i
    <3>1. i \in DOMAIN queue'[w] /\ queue'[w][i].type = "accountUpdate" /\ queue'[w][i].source = "geyser"
      BY DEF GeyserUpdates
    <3>2. ASSUME NEW j \in GeyserUpdates(w)', j \in DOMAIN queue[w]
          PROVE  /\ queue'[w][j] = queue[w][j] /\ j \in GeyserUpdates(w)
                 /\ queue[w][j].account \in Accounts
                 /\ queue[w][j].info \in 1 .. seqs[queue[w][j].account]
                 /\ <<queue[w][j].account, queue[w][j].info>> # <<a, v>>
                 /\ queue'[w][j] # m
      <4>1. j \in DOMAIN queue'[w] /\ queue'[w][j].type = "accountUpdate" /\ queue'[w][j].source = "geyser"
        BY DEF GeyserUpdates
      <4>2. queue'[w][j] = queue[w][j]
        BY <2>3, <3>2, <4>1, AfterBroadcast
      <4>3. j \in GeyserUpdates(w)
        BY <3>2, <4>1, <4>2 DEF GeyserUpdates
      <4>4. queue[w][j] \in Message
        BY <3>2 DEF TypeOK
      <4>5. queue[w][j].account \in Accounts
        BY <4>1, <4>2, <4>4 DEF Message
      <4>6. queue[w][j].info \in 1 .. seqs[queue[w][j].account]
        BY <4>3 DEF CallbackInv
      <4>7. <<queue[w][j].account, queue[w][j].info>> # <<a, v>>
        BY <1>0, <2>3, <4>5, <4>6
      <4> QED BY <2>2, <4>2, <4>3, <4>5, <4>6, <4>7
    <3>3. ASSUME NEW j \in GeyserUpdates(w)', j \notin DOMAIN queue[w]
          PROVE  queue'[w][j] = m /\ j = Len(queue[w]) + 1
      <4>1. j \in DOMAIN queue'[w]
        BY DEF GeyserUpdates
      <4> QED BY <2>3, <3>3, <4>1, AfterBroadcast
    <3>4. CASE i \in DOMAIN queue[w]
      <4>1. PICK n : n = queue[w][i]
        OBVIOUS
      <4>2. /\ queue'[w][i] = n /\ i \in GeyserUpdates(w) /\ n.account \in Accounts
            /\ n.info \in 1 .. seqs[n.account] /\ <<n.account, n.info>> # <<a, v>> /\ n # m
        BY <3>2, <3>4, <4>1
      <4>3. /\ callbacks[<<n.account, n.info>>].stage = "applying"
            /\ w \in callbacks[<<n.account, n.info>>].left
            /\ \A j \in GeyserUpdates(w) : queue[w][j] = n => j = i
        BY <4>1, <4>2 DEF CallbackInv
      <4>4. n.info \in Version
        BY <4>2, MaxVersionAssumption DEF TypeOK, Version
      <4>5. callbacks'[<<n.account, n.info>>] = callbacks[<<n.account, n.info>>]
        BY <2>4, <4>2, <4>4
      <4>6. \A j \in GeyserUpdates(w)' : queue'[w][j] = n => j = i
        BY <3>2, <3>3, <4>2, <4>3
      <4>7. n.info \in 1 .. seqs'[n.account]
        BY <1>0, <2>3, <2>4, <4>2
      <4> QED BY <4>2, <4>3, <4>5, <4>6, <4>7
    <3>5. CASE i \notin DOMAIN queue[w]
      <4>1. queue'[w][i] = m /\ i = Len(queue[w]) + 1
        BY <3>3, <3>5
      <4>2. callbacks'[<<a, v>>].stage = "applying" /\ w \in callbacks'[<<a, v>>].left
        BY <2>4 DEF Applying, CallbackState
      <4>3. \A j \in GeyserUpdates(w)' : queue'[w][j] = m => j = i
        BY <3>2, <3>3, <4>1
      <4>4. v \in 1 .. seqs'[a]
        BY <2>3, <2>4
      <4> QED BY <2>2, <4>1, <4>2, <4>3, <4>4
    <3> QED BY <3>4, <3>5
  <2>7. ASSUME NEW b \in Accounts, NEW u \in Version, callbacks'[<<b, u>>] # NoCallback
        PROVE  u <= seqs'[b]
    <3>1. CASE <<b, u>> = <<a, v>>
      BY <2>3, <2>4, <3>1
    <3>2. CASE <<b, u>> # <<a, v>>
      <4>1. callbacks[<<b, u>>] # NoCallback
        BY <2>4, <2>7, <3>2
      <4>2. u <= seqs[b] /\ u \in Int
        BY <4>1 DEF CallbackInv, Version
      <4>3. seqs[b] <= seqs'[b] /\ seqs'[b] \in Int
        BY <1>0, <2>3, <2>4
      <4> QED BY <1>0, <4>2, <4>3
    <3> QED BY <3>1, <3>2
  <2> QED BY <2>6, <2>7 DEF CallbackInv
<1>5. ASSUME NEW a \in Accounts, NEW v \in Version, callbacks[<<a, v>>].stage # "applying",
             callbacks[<<a, v>>] # NoCallback, UNCHANGED seqs,
             \A c \in Accounts \X Version : c # <<a, v>> => callbacks'[c] = callbacks[c],
             NEW w \in Workers, NEW i \in GeyserUpdates(w)
      PROVE  /\ queue[w][i].info \in 1 .. seqs'[queue[w][i].account]
             /\ callbacks'[<<queue[w][i].account, queue[w][i].info>>].stage = "applying"
             /\ w \in callbacks'[<<queue[w][i].account, queue[w][i].info>>].left
  <2>1. PICK n : n = queue[w][i]
    OBVIOUS
  <2>2. n \in Message /\ n.type = "accountUpdate"
    BY <2>1 DEF TypeOK, GeyserUpdates
  <2>3. /\ n.info \in 1 .. seqs[n.account]
        /\ callbacks[<<n.account, n.info>>].stage = "applying"
        /\ w \in callbacks[<<n.account, n.info>>].left
    BY <2>1 DEF CallbackInv
  <2>4. n.account \in Accounts
    BY <2>2 DEF Message
  <2>5. n.info \in Version
    BY <2>3, <2>4, MaxVersionAssumption DEF TypeOK, Version
  <2>6. callbacks'[<<n.account, n.info>>] = callbacks[<<n.account, n.info>>]
    BY <1>5, <2>3, <2>4, <2>5
  <2> QED BY <1>5, <2>1, <2>3, <2>6
<1>6. ASSUME NEW a \in Accounts, NEW v \in Version, callbacks[<<a, v>>] # NoCallback, UNCHANGED seqs,
             \A c \in Accounts \X Version : c # <<a, v>> => callbacks'[c] = callbacks[c],
             NEW b \in Accounts, NEW u \in Version, callbacks'[<<b, u>>] # NoCallback
      PROVE  u <= seqs'[b]
  <2>1. callbacks[<<b, u>>] # NoCallback
    BY <1>6
  <2> QED BY <1>6, <2>1 DEF CallbackInv
<1>7. ASSUME NEW a \in Accounts, NEW v \in Version, ReseedRead(a, v) PROVE CallbackInv'
  <2>1. /\ UNCHANGED <<queue, seqs>> /\ callbacks[<<a, v>>].stage = "reading"
        /\ \A c \in Accounts \X Version : c # <<a, v>> => callbacks'[c] = callbacks[c]
    BY <1>7 DEF ReseedRead, mainVars, TypeOK
  <2>2. callbacks[<<a, v>>] # NoCallback
    BY <2>1 DEF NoCallback, CallbackState
  <2>3. \A w \in Workers : GeyserUpdates(w)' = GeyserUpdates(w)
    BY <2>1 DEF GeyserUpdates
  <2>4. ASSUME NEW w \in Workers, NEW i \in GeyserUpdates(w)
        PROVE  /\ queue'[w][i].info \in 1 .. seqs'[queue'[w][i].account]
               /\ callbacks'[<<queue'[w][i].account, queue'[w][i].info>>].stage = "applying"
               /\ w \in callbacks'[<<queue'[w][i].account, queue'[w][i].info>>].left
               /\ \A j \in GeyserUpdates(w) : queue'[w][j] = queue'[w][i] => j = i
    <3>1. \A j \in GeyserUpdates(w) : queue[w][j] = queue[w][i] => j = i
      BY DEF CallbackInv
    <3> QED BY <1>5, <2>1, <2>2, <3>1
  <2>5. \A b \in Accounts, u \in Version : callbacks'[<<b, u>>] # NoCallback => u <= seqs'[b]
    BY <1>6, <2>1, <2>2
  <2> QED BY <2>3, <2>4, <2>5 DEF CallbackInv
<1>8. ASSUME NEW a \in Accounts, NEW v \in Version, Reseed(a, v) PROVE CallbackInv'
  <2>1. /\ UNCHANGED seqs /\ callbacks[<<a, v>>].stage = "read"
        /\ \A c \in Accounts \X Version : c # <<a, v>> => callbacks'[c] = callbacks[c]
    BY <1>8 DEF Reseed, mainVars, TypeOK
  <2>2. callbacks[<<a, v>>] # NoCallback
    BY <2>1 DEF NoCallback, CallbackState
  <2>3. PICK m : m = AccountUpdate(a, callbacks[<<a, v>>].info, "reseed")
    OBVIOUS
  <2>4. m \in Message /\ m.source = "reseed" /\ Broadcast(<<m>>)
    BY <1>8, <2>1, <2>3, ReadIsFound, MessageTypes DEF Reseed, AccountUpdate
  <2>5. ASSUME NEW w \in Workers, NEW i \in GeyserUpdates(w)'
        PROVE  i \in GeyserUpdates(w) /\ queue'[w][i] = queue[w][i]
    <3>1. i \in DOMAIN queue'[w] /\ queue'[w][i].type = "accountUpdate" /\ queue'[w][i].source = "geyser"
      BY DEF GeyserUpdates
    <3>2. IF i \in DOMAIN queue[w] THEN queue'[w][i] = queue[w][i] ELSE queue'[w][i] = m
      BY <2>4, <3>1, AfterBroadcast
    <3>3. i \in DOMAIN queue[w]
      BY <2>4, <3>1, <3>2
    <3> QED BY <3>1, <3>2, <3>3 DEF GeyserUpdates
  <2>6. ASSUME NEW w \in Workers, NEW i \in GeyserUpdates(w)'
        PROVE  /\ queue'[w][i].info \in 1 .. seqs'[queue'[w][i].account]
               /\ callbacks'[<<queue'[w][i].account, queue'[w][i].info>>].stage = "applying"
               /\ w \in callbacks'[<<queue'[w][i].account, queue'[w][i].info>>].left
               /\ \A j \in GeyserUpdates(w)' : queue'[w][j] = queue'[w][i] => j = i
    <3>1. i \in GeyserUpdates(w) /\ queue'[w][i] = queue[w][i]
      BY <2>5
    <3>2. \A j \in GeyserUpdates(w) : queue[w][j] = queue[w][i] => j = i
      BY <3>1 DEF CallbackInv
    <3>3. \A j \in GeyserUpdates(w)' : queue'[w][j] = queue'[w][i] => j = i
      BY <2>5, <3>1, <3>2
    <3> QED BY <1>5, <2>1, <2>2, <3>1, <3>3
  <2>7. \A b \in Accounts, u \in Version : callbacks'[<<b, u>>] # NoCallback => u <= seqs'[b]
    BY <1>6, <2>1, <2>2
  <2> QED BY <2>6, <2>7 DEF CallbackInv
<1>9. ASSUME NEW x \in Workers, Work(x) PROVE CallbackInv'
  <2>1. PICK m : m = Head(queue[x])
    OBVIOUS
  <2>2. UNCHANGED seqs
    BY <1>9 DEF Work, mainVars
  <2>3. 1 \in DOMAIN queue[x] /\ queue[x][1] = m /\ m \in Message
    <3>1. 1 \in DOMAIN queue[x] /\ queue[x][1] = m
      BY <1>9, <2>1, WorkCallbacks
    <3>2. queue[x] \in Seq(Message)
      BY DEF TypeOK
    <3> QED BY <3>1, <3>2
  <2>4. \/ callbacks' = callbacks
        \/ /\ 1 \in GeyserUpdates(x)
           /\ \E e \in BOOLEAN :
                callbacks' = [callbacks EXCEPT ![<<m.account, m.info>>] = Answered(@, x, e)]
    <3>1. \/ callbacks' = callbacks
          \/ /\ m.type = "accountUpdate" /\ m.source = "geyser"
             /\ \E e \in BOOLEAN :
                  callbacks' = [callbacks EXCEPT ![<<m.account, m.info>>] = Answered(@, x, e)]
      BY <1>9, <2>1, WorkCallbacks
    <3> QED BY <2>3, <3>1 DEF GeyserUpdates
  <2>5. ASSUME NEW w \in Workers, NEW i \in GeyserUpdates(w)'
        PROVE  \E j \in GeyserUpdates(w) :
                 /\ i \in Nat /\ queue'[w][i] = queue[w][j]
                 /\ IF w = x THEN j = i + 1 /\ j > 1 ELSE j = i
    <3>1. i \in DOMAIN queue'[w] /\ queue'[w][i].type = "accountUpdate" /\ queue'[w][i].source = "geyser"
      BY DEF GeyserUpdates
    <3>2. PICK j \in DOMAIN queue[w] : /\ i \in Nat /\ queue'[w][i] = queue[w][j]
                                       /\ IF w = x THEN j = i + 1 /\ j > 1 ELSE j = i
      BY <1>9, <3>1, AfterWork
    <3> QED BY <3>1, <3>2 DEF GeyserUpdates
  <2>6. ASSUME NEW w \in Workers, NEW i \in GeyserUpdates(w)'
        PROVE  /\ queue'[w][i].info \in 1 .. seqs'[queue'[w][i].account]
               /\ callbacks'[<<queue'[w][i].account, queue'[w][i].info>>].stage = "applying"
               /\ w \in callbacks'[<<queue'[w][i].account, queue'[w][i].info>>].left
               /\ \A k \in GeyserUpdates(w)' : queue'[w][k] = queue'[w][i] => k = i
    <3>1. PICK j \in GeyserUpdates(w) : /\ i \in Nat /\ queue'[w][i] = queue[w][j]
                                        /\ IF w = x THEN j = i + 1 /\ j > 1 ELSE j = i
      BY <2>5
    <3>2. PICK n : n = queue[w][j]
      OBVIOUS
    <3>3. /\ n.info \in 1 .. seqs[n.account]
          /\ callbacks[<<n.account, n.info>>].stage = "applying"
          /\ w \in callbacks[<<n.account, n.info>>].left
          /\ \A k \in GeyserUpdates(w) : queue[w][k] = n => k = j
      BY <3>2 DEF CallbackInv
    <3>4. n \in Message /\ n.type = "accountUpdate" /\ n.source = "geyser"
      BY <3>2 DEF GeyserUpdates, TypeOK
    <3>5. n.account \in Accounts
      BY <3>4 DEF Message
    <3>6. n.info \in Version
      BY <3>3, <3>5, MaxVersionAssumption DEF TypeOK, Version
    <3>7. ASSUME NEW k \in GeyserUpdates(w)', queue'[w][k] = queue'[w][i] PROVE k = i
      <4>1. PICK l \in GeyserUpdates(w) : /\ k \in Nat /\ queue'[w][k] = queue[w][l]
                                          /\ IF w = x THEN l = k + 1 /\ l > 1 ELSE l = k
        BY <2>5
      <4>2. l = j
        BY <3>1, <3>2, <3>3, <3>7, <4>1
      <4> QED BY <3>1, <4>1, <4>2
    <3>8. /\ callbacks'[<<n.account, n.info>>].stage = "applying"
          /\ w \in callbacks'[<<n.account, n.info>>].left
      <4>1. CASE callbacks' = callbacks
        BY <3>3, <4>1
      <4>2. CASE callbacks' # callbacks
        <5>1. 1 \in GeyserUpdates(x) /\ m.type = "accountUpdate" /\ m.source = "geyser"
          BY <2>3, <2>4, <4>2 DEF GeyserUpdates
        <5>2. PICK e \in BOOLEAN :
                callbacks' = [callbacks EXCEPT ![<<m.account, m.info>>] = Answered(@, x, e)]
          BY <2>4, <4>2
        <5>3. CASE <<n.account, n.info>> # <<m.account, m.info>>
          BY <3>3, <3>5, <3>6, <5>2, <5>3 DEF TypeOK
        <5>4. CASE <<n.account, n.info>> = <<m.account, m.info>>
          <6>1. n = m
            BY <2>3, <3>4, <5>1, <5>4 DEF Message
          <6>2. w # x
            BY <2>3, <3>1, <3>3, <5>1, <6>1
          <6>3. PICK c : c = callbacks[<<n.account, n.info>>]
            OBVIOUS
          <6>4. callbacks'[<<n.account, n.info>>] = Answered(c, x, e)
            BY <3>5, <3>6, <5>2, <5>4, <6>3 DEF TypeOK
          <6>5. w \in c.left \ {x}
            BY <3>3, <6>2, <6>3
          <6>6. Answered(c, x, e) = Applying(c.left \ {x}, c.error \/ e)
            BY <6>5 DEF Answered
          <6> QED BY <6>4, <6>5, <6>6 DEF Applying, CallbackState
        <5> QED BY <5>3, <5>4
      <4> QED BY <4>1, <4>2
    <3> QED BY <2>2, <3>1, <3>2, <3>3, <3>7, <3>8
  <2>7. ASSUME NEW b \in Accounts, NEW u \in Version, callbacks'[<<b, u>>] # NoCallback
        PROVE  u <= seqs'[b]
    <3>1. CASE callbacks[<<b, u>>] # NoCallback
      BY <2>2, <3>1 DEF CallbackInv
    <3>2. CASE callbacks[<<b, u>>] = NoCallback
      <4>1. 1 \in GeyserUpdates(x) /\ <<b, u>> = <<m.account, m.info>>
        BY <2>4, <2>7, <3>2 DEF TypeOK
      <4>2. callbacks[<<m.account, m.info>>].stage = "applying"
        BY <2>3, <4>1 DEF CallbackInv
      <4> QED BY <3>2, <4>1, <4>2 DEF NoCallback, CallbackState
    <3> QED BY <3>1, <3>2
  <2> QED BY <2>6, <2>7 DEF CallbackInv
<1>10. ASSUME NEW a \in Accounts, ChainWrite(a) \/ Fetch(a) PROVE CallbackInv'
  BY <1>1, <1>10 DEF ChainWrite, Fetch, mainVars
<1>11. CASE StartFetch
  BY <1>1, <1>11 DEF StartFetch
<1>12. ASSUME NEW a \in Accounts, NEW v \in Version, ReseedThrows(a, v) PROVE CallbackInv'
  BY <1>1, <1>12 DEF ReseedThrows
<1>13. CASE UNCHANGED vars
  BY <1>1, <1>13 DEF vars, mainVars
<1> QED BY <1>2, <1>3, <1>4, <1>7, <1>8, <1>9, <1>10, <1>11, <1>12, <1>13 DEF Next, Wait

\* An account that was read again stays one that was.
LEMMA KeptReads ==
  ASSUME TypeOK, BootInv, CallbackInv, [Next]_vars, NEW a \in Accounts, ReadAgain(a)
  PROVE  ReadAgain(a)'
<1>1. PICK v \in Version : callbacks[<<a, v>>] = Reseeded
  BY DEF ReadAgain
<1> DEFINE c == <<a, v>>
<1>2. callbacks[c].stage = "reseeded" /\ callbacks[c] # NoCallback
  BY <1>1 DEF Reseeded, NoCallback, CallbackState
<1>3. Subscribed
  BY <1>2 DEF BootInv
<1>4. v <= seqs[a]
  BY <1>2 DEF CallbackInv
<1>5. callbacks'[c] = callbacks[c]
  <2>1. ASSUME NEW b \in Accounts, NEW u \in Version, Update(b, u) PROVE callbacks'[c] = callbacks[c]
    <3>1. <<b, u>> # c
      BY <1>4, <2>1, MaxVersionAssumption DEF Update, NewerUpdate, TypeOK, Version
    <3> QED BY <2>1, <3>1 DEF Update, TypeOK
  <2>2. ASSUME NEW b \in Accounts, NEW u \in Version, ReseedRead(b, u) \/ Reseed(b, u)
        PROVE  callbacks'[c] = callbacks[c]
    <3>1. <<b, u>> # c
      BY <1>2, <2>2 DEF ReseedRead, Reseed
    <3> QED BY <2>2, <3>1 DEF ReseedRead, Reseed, TypeOK
  <2>3. ASSUME NEW x \in Workers, Work(x) PROVE callbacks'[c] = callbacks[c]
    <3>1. PICK m : m = Head(queue[x])
      OBVIOUS
    <3>2. CASE callbacks' = callbacks
      BY <3>2
    <3>3. CASE callbacks' # callbacks
      <4>1. /\ 1 \in DOMAIN queue[x] /\ queue[x][1] = m
            /\ m.type = "accountUpdate" /\ m.source = "geyser"
            /\ \E e \in BOOLEAN :
                 callbacks' = [callbacks EXCEPT ![<<m.account, m.info>>] = Answered(@, x, e)]
        BY <2>3, <3>1, <3>3, WorkCallbacks
      <4>2. callbacks[<<m.account, m.info>>].stage = "applying"
        BY <4>1 DEF CallbackInv, GeyserUpdates
      <4>3. <<m.account, m.info>> # c
        BY <1>2, <4>2
      <4> QED BY <4>1, <4>3 DEF TypeOK
    <3> QED BY <3>2, <3>3
  <2>4. CASE StartFetch \/ Seed \/ Subscribe
    BY <2>4 DEF StartFetch, Seed, Subscribe
  <2>5. ASSUME NEW b \in Accounts, ChainWrite(b) \/ Fetch(b) PROVE callbacks'[c] = callbacks[c]
    BY <2>5 DEF ChainWrite, Fetch
  <2>6. ASSUME NEW b \in Accounts, NEW u \in Version, ReseedThrows(b, u) PROVE callbacks'[c] = callbacks[c]
    BY <2>6 DEF ReseedThrows
  <2>7. CASE UNCHANGED vars
    BY <2>7 DEF vars
  <2> QED BY <2>1, <2>2, <2>3, <2>4, <2>5, <2>6, <2>7 DEF Next, Wait
<1> QED BY <1>1, <1>5 DEF ReadAgain

\* What the workers can have heard of only grows.
LEMMA NewestGrows ==
  ASSUME TypeOK, [Next]_vars, NEW a \in Accounts
  PROVE  Newest(a) \in Int /\ Newest(a)' \in Int /\ Newest(a) <= Newest(a)'
<1>1. /\ chain[a] \in Nat /\ seqs[a] \in Nat /\ subscribedAt[a] \in Nat
      /\ chain'[a] \in Nat /\ seqs'[a] \in Nat /\ subscribedAt'[a] \in Nat
  BY NextType, MaxVersionAssumption DEF TypeOK
<1>2. CASE Subscribed' = Subscribed /\ UNCHANGED <<chain, seqs, subscribedAt>>
  BY <1>1, <1>2 DEF Newest
<1>3. CASE StartFetch \/ Seed \/ (\E b \in Accounts : Fetch(b)) \/ UNCHANGED vars
  BY <1>2, <1>3 DEF StartFetch, Seed, Fetch, Subscribed, vars, mainVars
<1>4. CASE Subscribe
  <2>1. /\ ~Subscribed /\ Subscribed'
        /\ seqs'[a] = 0 /\ subscribedAt'[a] = chain[a]
    BY <1>4 DEF Subscribe, Subscribed
  <2> QED BY <1>1, <2>1 DEF Newest
<1>5. ASSUME NEW b \in Accounts, ChainWrite(b) PROVE Newest(a) <= Newest(a)'
  <2>1. chain[a] <= chain'[a] /\ UNCHANGED <<phase, seqs, subscribedAt>>
    BY <1>1, <1>5 DEF ChainWrite, TypeOK, mainVars
  <2> QED BY <1>1, <2>1 DEF Newest, Subscribed
<1>6. ASSUME NEW b \in Accounts, NEW u \in Version, Update(b, u) PROVE Newest(a) <= Newest(a)'
  <2>1. seqs[a] <= seqs'[a] /\ UNCHANGED <<chain, phase, subscribedAt>>
    BY <1>1, <1>6 DEF Update, NewerUpdate, TypeOK
  <2> QED BY <1>1, <2>1 DEF Newest, Subscribed
<1>7. ASSUME NEW b \in Accounts, NEW u \in Version, ReseedRead(b, u) \/ ReseedThrows(b, u) \/ Reseed(b, u)
      PROVE  Newest(a) <= Newest(a)'
  <2>1. Subscribed /\ Subscribed' /\ UNCHANGED <<chain, seqs, subscribedAt>>
    BY <1>7 DEF ReseedRead, ReseedThrows, Reseed, mainVars, Subscribed
  <2> QED BY <1>2, <2>1
<1>8. ASSUME NEW x \in Workers, Work(x) PROVE Newest(a) <= Newest(a)'
  <2>1. UNCHANGED <<phase, chain, seqs, subscribedAt>>
    BY <1>8 DEF Work, mainVars
  <2> QED BY <1>1, <2>1 DEF Newest, Subscribed
<1>9. Newest(a) \in Int /\ Newest(a)' \in Int
  BY <1>1 DEF Newest
<1> QED BY <1>1, <1>2, <1>3, <1>4, <1>5, <1>6, <1>7, <1>8, <1>9 DEF Next, Wait, Newest

\* What a worker knows of an account after a message: the old or the message's.
LEMMA WorkInfos ==
  ASSUME TypeOK, NEW x \in Workers, Work(x), NEW w \in Workers, NEW a \in Accounts
  PROVE  \/ accountInfos'[w][a] = accountInfos[w][a]
         \/ w = x /\ 1 \in Updates(w, a) /\ accountInfos'[w][a] = queue[w][1].info
<1>1. CASE w # x
  BY <1>1, WorkEffect
<1>2. CASE w = x
  <2>1. PICK m : m = Head(queue[x])
    OBVIOUS
  <2>2. 1 \in DOMAIN queue[x] /\ queue[x][1] = m
    BY <2>1, WorkCallbacks
  <2>3. CASE m.type = "addPool"
    BY <2>1, <2>3, WorkEffect
  <2>4. CASE m.type # "addPool"
    <3>1. /\ m.type = "accountUpdate"
          /\ accountInfos'[x] = [accountInfos[x] EXCEPT ![m.account] = Stored(@, m.info)]
      BY <2>1, <2>4, WorkEffect
    <3> QED BY <1>2, <2>2, <3>1 DEF Updates, Stored, TypeOK
  <2> QED BY <2>3, <2>4
<1> QED BY <1>1, <1>2

\* Unless an account was read again, its updates wait in the order of its
\* versions, none older than what the worker knows.
LEMMA AgeStep == TypeOK /\ BootInv /\ CallbackInv /\ AgeInv /\ [Next]_vars => AgeInv'
<1> SUFFICES ASSUME TypeOK, BootInv, CallbackInv, AgeInv, [Next]_vars,
                    NEW w \in Workers, NEW a \in Accounts, ~ReadAgain(a)'
             PROVE  /\ accountInfos'[w][a] <= Newest(a)'
                    /\ \A i \in Updates(w, a)' :
                         accountInfos'[w][a] <= queue'[w][i].info /\ queue'[w][i].info <= Newest(a)'
                    /\ \A i, j \in Updates(w, a)' : i <= j => queue'[w][i].info <= queue'[w][j].info
  BY DEF AgeInv
<1>1. ~ReadAgain(a)
  BY KeptReads
<1>2. /\ accountInfos[w][a] <= Newest(a)
      /\ \A i \in Updates(w, a) : accountInfos[w][a] <= queue[w][i].info /\ queue[w][i].info <= Newest(a)
      /\ \A i, j \in Updates(w, a) : i <= j => queue[w][i].info <= queue[w][j].info
  BY <1>1 DEF AgeInv
<1>3. Newest(a) \in Int /\ Newest(a)' \in Int /\ Newest(a) <= Newest(a)'
  BY NewestGrows
<1>4. /\ accountInfos[w][a] \in Int /\ accountInfos'[w][a] \in Int
      /\ \A i \in Updates(w, a) : i \in Nat /\ queue[w][i].info \in Int
  <2>1. \A f \in Info : f \in Int
    BY MaxVersionAssumption DEF Info, Found, Null, Unknown, Version
  <2>2. accountInfos[w][a] \in Info /\ accountInfos'[w][a] \in Info
    BY NextType DEF TypeOK
  <2>3. ASSUME NEW i \in Updates(w, a) PROVE i \in Nat /\ queue[w][i].info \in Int
    <3>1. i \in DOMAIN queue[w] /\ queue[w] \in Seq(Message) /\ queue[w][i].type = "accountUpdate"
      BY DEF TypeOK, Updates
    <3>2. queue[w][i] \in Message /\ i \in Nat
      BY <3>1
    <3>3. queue[w][i].info \in Found
      BY <3>1, <3>2 DEF Message
    <3> QED BY <2>1, <3>2, <3>3 DEF Info
  <2> QED BY <2>1, <2>2, <2>3
<1>5. ASSUME accountInfos'[w][a] = accountInfos[w][a],
             \A i \in Updates(w, a)' : i \in Updates(w, a) /\ queue'[w][i] = queue[w][i]
      PROVE  /\ accountInfos'[w][a] <= Newest(a)'
             /\ \A i \in Updates(w, a)' :
                  accountInfos'[w][a] <= queue'[w][i].info /\ queue'[w][i].info <= Newest(a)'
             /\ \A i, j \in Updates(w, a)' : i <= j => queue'[w][i].info <= queue'[w][j].info
  <2>1. accountInfos'[w][a] <= Newest(a)'
    BY <1>2, <1>3, <1>4, <1>5
  <2>2. ASSUME NEW i \in Updates(w, a)'
        PROVE  accountInfos'[w][a] <= queue'[w][i].info /\ queue'[w][i].info <= Newest(a)'
    BY <1>2, <1>3, <1>4, <1>5
  <2>3. \A i, j \in Updates(w, a)' : i <= j => queue'[w][i].info <= queue'[w][j].info
    BY <1>2, <1>5
  <2> QED BY <2>1, <2>2, <2>3
<1>6. CASE UNCHANGED <<queue, accountInfos>>
  BY <1>5, <1>6 DEF Updates
<1>7. CASE Seed
  <2>1. PICK ms : ms = [i \in DOMAIN fetched |-> AccountUpdate(fetched[i][1], fetched[i][2], "seed")]
    OBVIOUS
  <2>2. PICK q \in Seq(Message), r \in Seq(Message) : q = queue[w] /\ r = ms /\ queue'[w] = q \o r
    BY <1>7, <2>1, SeedsType DEF Seed, Broadcast, Recipients, Enqueue, TypeOK
  <2>3. /\ Updates(w, a) = {} /\ accountInfos[w][a] = Unknown
        /\ UNCHANGED <<accountInfos, chain>> /\ phase' = "seeding"
    BY <1>7 DEF Seed, BootInv, workerVars
  <2>4. Newest(a)' = chain[a]
    BY <2>3 DEF Newest, Subscribed
  <2>5. ASSUME NEW i \in Updates(w, a)'
        PROVE  /\ i \in Int /\ i - Len(q) \in DOMAIN fetched
               /\ fetched[i - Len(q)][1] = a /\ queue'[w][i].info = fetched[i - Len(q)][2]
    <3>1. i \in DOMAIN (q \o r) /\ (q \o r)[i].type = "accountUpdate" /\ (q \o r)[i].account = a
      BY <2>2 DEF Updates
    <3>2. CASE i \in DOMAIN q
      <4>1. (q \o r)[i] = q[i]
        BY <3>2
      <4> QED BY <2>2, <2>3, <3>1, <3>2, <4>1 DEF Updates
    <3>3. CASE i \notin DOMAIN q
      <4>1. (q \o r)[i] = r[i - Len(q)] /\ i - Len(q) \in DOMAIN r /\ i \in Int
        BY <3>1, <3>3
      <4>2. r[i - Len(q)] = AccountUpdate(fetched[i - Len(q)][1], fetched[i - Len(q)][2], "seed")
            /\ i - Len(q) \in DOMAIN fetched
        BY <2>1, <2>2, <4>1
      <4> QED BY <2>2, <3>1, <4>1, <4>2 DEF AccountUpdate
    <3> QED BY <3>2, <3>3
  <2>6. \A k \in DOMAIN fetched : fetched[k][2] \in Found
    BY DEF TypeOK
  <2>7. \A f \in Found : Unknown <= f /\ f \in Int
    BY MaxVersionAssumption DEF Found, Null, Unknown, Version
  <2>8. ASSUME NEW i \in Updates(w, a)'
        PROVE  accountInfos'[w][a] <= queue'[w][i].info /\ queue'[w][i].info <= Newest(a)'
    BY <2>3, <2>4, <2>5, <2>6, <2>7 DEF BootInv
  <2>9. ASSUME NEW i \in Updates(w, a)', NEW j \in Updates(w, a)' PROVE i = j
    <3>1. i - Len(q) = j - Len(q)
      BY <2>5 DEF BootInv
    <3>2. i \in Int /\ j \in Int /\ Len(q) \in Int
      BY <2>5
    <3> QED BY <3>1, <3>2
  <2>10. \A i, j \in Updates(w, a)' : i <= j => queue'[w][i].info <= queue'[w][j].info
    BY <2>5, <2>6, <2>7, <2>9
  <2>11. accountInfos'[w][a] <= Newest(a)'
    BY <1>2, <1>3, <1>4, <2>3
  <2> QED BY <2>8, <2>10, <2>11
<1>8. ASSUME NEW m \in Message, m.type = "accountUpdate", Broadcast(<<m>>), UNCHANGED workerVars,
             m.account = a => m.info = Newest(a)'
      PROVE  /\ accountInfos'[w][a] <= Newest(a)'
             /\ \A i \in Updates(w, a)' :
                  accountInfos'[w][a] <= queue'[w][i].info /\ queue'[w][i].info <= Newest(a)'
             /\ \A i, j \in Updates(w, a)' : i <= j => queue'[w][i].info <= queue'[w][j].info
  <2>1. accountInfos' = accountInfos
    BY <1>8 DEF workerVars
  <2>2. ASSUME NEW i \in Updates(w, a)'
        PROVE  \/ i \in Updates(w, a) /\ queue'[w][i] = queue[w][i] /\ i < Len(queue[w]) + 1
               \/ queue'[w][i].info = Newest(a)' /\ i = Len(queue[w]) + 1
    <3>1. i \in DOMAIN queue'[w] /\ queue'[w][i].type = "accountUpdate" /\ queue'[w][i].account = a
      BY DEF Updates
    <3>2. /\ \A j \in DOMAIN queue[w] : j \in Nat /\ j < Len(queue[w]) + 1
          /\ IF i \in DOMAIN queue[w]
             THEN queue'[w][i] = queue[w][i]
             ELSE queue'[w][i] = m /\ i = Len(queue[w]) + 1
      BY <1>8, <3>1, AfterBroadcast
    <3>3. CASE i \in DOMAIN queue[w]
      BY <3>1, <3>2, <3>3 DEF Updates
    <3>4. CASE i \notin DOMAIN queue[w]
      BY <1>8, <3>1, <3>2, <3>4
    <3> QED BY <3>3, <3>4
  <2>3. accountInfos'[w][a] <= Newest(a)'
    BY <1>2, <1>3, <1>4, <2>1
  <2>4. PICK l : l = Len(queue[w])
    OBVIOUS
  <2>5. l \in Nat
    BY <2>4 DEF TypeOK
  <2>6. ASSUME NEW i \in Updates(w, a)'
        PROVE  accountInfos'[w][a] <= queue'[w][i].info /\ queue'[w][i].info <= Newest(a)'
    BY <1>2, <1>3, <1>4, <2>1, <2>2, <2>3
  <2>7. ASSUME NEW i \in Updates(w, a)', NEW j \in Updates(w, a)', i <= j
        PROVE  queue'[w][i].info <= queue'[w][j].info
    <3>1. CASE i \in Updates(w, a) /\ queue'[w][i] = queue[w][i] /\ i < l + 1
      <4>1. CASE j \in Updates(w, a) /\ queue'[w][j] = queue[w][j]
        BY <1>2, <2>7, <3>1, <4>1
      <4>2. CASE queue'[w][j].info = Newest(a)'
        BY <1>2, <1>3, <1>4, <3>1, <4>2
      <4> QED BY <2>2, <4>1, <4>2
    <3>2. CASE queue'[w][i].info = Newest(a)' /\ i = l + 1
      <4>1. ~(j \in Nat /\ j < l + 1)
        BY <2>5, <2>7, <3>2
      <4>2. queue'[w][j].info = Newest(a)'
        BY <1>4, <2>2, <2>4, <4>1
      <4> QED BY <1>3, <3>2, <4>2
    <3> QED BY <2>2, <2>4, <3>1, <3>2
  <2> QED BY <2>3, <2>6, <2>7
<1>9. ASSUME NEW b \in Accounts, NEW v \in Version, Update(b, v)
      PROVE  /\ accountInfos'[w][a] <= Newest(a)'
             /\ \A i \in Updates(w, a)' :
                  accountInfos'[w][a] <= queue'[w][i].info /\ queue'[w][i].info <= Newest(a)'
             /\ \A i, j \in Updates(w, a)' : i <= j => queue'[w][i].info <= queue'[w][j].info
  <2>1. PICK m \in Message : m = AccountUpdate(b, v, "geyser")
    BY MessageTypes DEF Found
  <2>2. m.type = "accountUpdate" /\ m.account = b /\ m.info = v
    BY <2>1 DEF AccountUpdate
  <2>3. Broadcast(<<m>>) /\ UNCHANGED workerVars
    BY <1>9, <2>1 DEF Update
  <2>4. b = a => v = Newest(a)'
    BY <1>9, MaxVersionAssumption DEF Update, Newest, Subscribed, TypeOK
  <2> QED BY <1>8, <2>2, <2>3, <2>4
<1>10. ASSUME NEW b \in Accounts, NEW v \in Version, Reseed(b, v)
       PROVE  /\ accountInfos'[w][a] <= Newest(a)'
              /\ \A i \in Updates(w, a)' :
                   accountInfos'[w][a] <= queue'[w][i].info /\ queue'[w][i].info <= Newest(a)'
              /\ \A i, j \in Updates(w, a)' : i <= j => queue'[w][i].info <= queue'[w][j].info
  <2>1. callbacks'[<<b, v>>] = Reseeded
    BY <1>10 DEF Reseed, TypeOK
  <2>2. a # b
    BY <2>1 DEF ReadAgain
  <2>3. PICK m \in Message : m = AccountUpdate(b, callbacks[<<b, v>>].info, "reseed")
    BY <1>10, ReadIsFound, MessageTypes DEF Reseed
  <2>4. m.type = "accountUpdate" /\ m.account = b
    BY <2>3 DEF AccountUpdate
  <2>5. Broadcast(<<m>>) /\ UNCHANGED workerVars
    BY <1>10, <2>3 DEF Reseed
  <2> QED BY <1>8, <2>2, <2>4, <2>5
<1>11. ASSUME NEW x \in Workers, Work(x)
       PROVE  /\ accountInfos'[w][a] <= Newest(a)'
              /\ \A i \in Updates(w, a)' :
                   accountInfos'[w][a] <= queue'[w][i].info /\ queue'[w][i].info <= Newest(a)'
              /\ \A i, j \in Updates(w, a)' : i <= j => queue'[w][i].info <= queue'[w][j].info
  <2>1. ASSUME NEW i \in Updates(w, a)'
        PROVE  \E k \in Updates(w, a) :
                 /\ i \in Nat /\ queue'[w][i] = queue[w][k]
                 /\ IF w = x THEN k = i + 1 /\ k > 1 ELSE k = i
    <3>1. i \in DOMAIN queue'[w] /\ queue'[w][i].type = "accountUpdate" /\ queue'[w][i].account = a
      BY DEF Updates
    <3>2. PICK k \in DOMAIN queue[w] : /\ i \in Nat /\ queue'[w][i] = queue[w][k]
                                       /\ IF w = x THEN k = i + 1 /\ k > 1 ELSE k = i
      BY <1>11, <3>1, AfterWork
    <3> QED BY <3>1, <3>2 DEF Updates
  <2>2. \/ accountInfos'[w][a] = accountInfos[w][a]
        \/ w = x /\ 1 \in Updates(w, a) /\ accountInfos'[w][a] = queue[w][1].info
    BY <1>11, WorkInfos
  <2>3. accountInfos'[w][a] <= Newest(a)'
    BY <1>2, <1>3, <1>4, <2>2
  <2>4. ASSUME NEW i \in Updates(w, a)'
        PROVE  accountInfos'[w][a] <= queue'[w][i].info /\ queue'[w][i].info <= Newest(a)'
    <3>1. PICK k \in Updates(w, a) : /\ i \in Nat /\ queue'[w][i] = queue[w][k]
                                     /\ IF w = x THEN k = i + 1 /\ k > 1 ELSE k = i
      BY <2>1
    <3>2. queue[w][k].info <= Newest(a)'
      BY <1>2, <1>3, <1>4
    <3>3. accountInfos'[w][a] <= queue[w][k].info
      <4>1. CASE accountInfos'[w][a] = accountInfos[w][a]
        BY <1>2, <4>1
      <4>2. CASE w = x /\ 1 \in Updates(w, a) /\ accountInfos'[w][a] = queue[w][1].info
        <5>1. 1 <= k
          BY <1>4, <3>1, <4>2
        <5> QED BY <1>2, <4>2, <5>1
      <4> QED BY <2>2, <4>1, <4>2
    <3> QED BY <3>1, <3>2, <3>3
  <2>5. ASSUME NEW i \in Updates(w, a)', NEW j \in Updates(w, a)', i <= j
        PROVE  queue'[w][i].info <= queue'[w][j].info
    <3>1. PICK k \in Updates(w, a) : /\ i \in Nat /\ queue'[w][i] = queue[w][k]
                                     /\ IF w = x THEN k = i + 1 /\ k > 1 ELSE k = i
      BY <2>1
    <3>2. PICK l \in Updates(w, a) : /\ j \in Nat /\ queue'[w][j] = queue[w][l]
                                     /\ IF w = x THEN l = j + 1 /\ l > 1 ELSE l = j
      BY <2>1
    <3>3. k <= l
      BY <2>5, <3>1, <3>2
    <3> QED BY <1>2, <3>1, <3>2, <3>3
  <2> QED BY <2>3, <2>4, <2>5
<1>12. CASE StartFetch \/ Subscribe \/ (\E b \in Accounts : ChainWrite(b) \/ Fetch(b)) \/ UNCHANGED vars
  BY <1>6, <1>12 DEF StartFetch, Subscribe, ChainWrite, Fetch, vars, workerVars
<1>13. ASSUME NEW b \in Accounts, NEW v \in Version, ReseedRead(b, v) \/ ReseedThrows(b, v)
       PROVE  UNCHANGED <<queue, accountInfos>>
  BY <1>13 DEF ReseedRead, ReseedThrows, workerVars
<1> QED BY <1>6, <1>7, <1>9, <1>10, <1>11, <1>12, <1>13 DEF Next, Wait

\* No worker goes back to an older version of an account, whatever the order,
\* delay or repetition of the updates, unless a failed update made the account
\* be read again; for any workers, accounts and number of versions.
THEOREM NeverBackWithoutReread == Spec => OnlyReseedGoesBack
<1>1. Init => BootInv /\ CallbackInv /\ AgeInv
  <2> SUFFICES ASSUME Init PROVE BootInv /\ CallbackInv /\ AgeInv
    OBVIOUS
  <2>1. \A w \in Workers : \A i \in DOMAIN queue[w] : queue[w][i].type = "addPool"
    BY PoolsAssumption DEF Init, AddPool
  <2>2. \A w \in Workers, a \in Accounts : Updates(w, a) = {} /\ GeyserUpdates(w) = {}
    BY <2>1 DEF Updates, GeyserUpdates
  <2>3. \A w \in Workers : GeyserUpdates(w) = {}
    BY <2>1 DEF GeyserUpdates
  <2>4. \A w \in Workers, a \in Accounts : accountInfos[w][a] = Unknown /\ Unknown <= chain[a]
    BY InitType, MaxVersionAssumption DEF Init, NothingApplied, Unknown, TypeOK
  <2>5. \A a \in Accounts : Newest(a) = chain[a]
    BY DEF Init, Newest, Subscribed
  <2>6. AgeInv
    BY <2>2, <2>4, <2>5 DEF AgeInv
  <2>7. BootInv
    BY <2>2, <2>3, <2>4 DEF Init, BootInv
  <2>8. CallbackInv
    BY <2>3 DEF Init, CallbackInv
  <2> QED BY <2>6, <2>7, <2>8
<1>2. TypeOK /\ AgeInv /\ [Next]_vars =>
        [\A w \in Workers, a \in Accounts :
           Behind(w, a) => \E v \in Version : callbacks[<<a, v>>] = Reseeded]_vars
  <2> SUFFICES ASSUME TypeOK, AgeInv, Next, NEW w \in Workers, NEW a \in Accounts, Behind(w, a)
               PROVE  ReadAgain(a)
    BY DEF ReadAgain, Next
  <2>1. accountInfos[w][a] \in Int
    BY MaxVersionAssumption DEF TypeOK, Info, Found, Null, Unknown, Version
  <2>2. accountInfos'[w][a] < accountInfos[w][a] /\ accountInfos'[w][a] # accountInfos[w][a]
    BY <2>1 DEF Behind
  <2>3. PICK x \in Workers : Work(x)
    BY <2>2, QueueStep DEF workerVars
  <2>4. 1 \in Updates(w, a) /\ accountInfos'[w][a] = queue[w][1].info
    BY <2>2, <2>3, WorkInfos
  <2>5. queue[w][1].info \in Int
    <3>1. queue[w][1] \in Message /\ queue[w][1].type = "accountUpdate"
      BY <2>4 DEF Updates, TypeOK
    <3> QED BY <3>1, MaxVersionAssumption DEF Message, Found, Null, Version
  <2>6. ~(accountInfos[w][a] <= queue[w][1].info)
    BY <2>1, <2>2, <2>4, <2>5
  <2> QED BY <2>4, <2>6 DEF AgeInv
<1> QED BY <1>1, <1>2, InitType, NextType, BootStep, CallbackStep, AgeStep, PTL DEF Spec, OnlyReseedGoesBack

(***************************************************************************)
(* The workers are replicas                                                *)
(***************************************************************************)
StateOf(w) ==
  [pools |-> pools[w], infos |-> accountInfos[w], applied |-> applied[w], initialized |-> ammIsInitialized[w]]

\* What a message makes of a worker that is in state s.
AfterUpdate(s, infos, taken) ==
  [pools |-> s.pools, infos |-> infos,
   applied |-> [p \in PoolSet |-> IF p \in taken
                                  THEN [a \in Accounts |-> IF a \in AccountsOf[p] THEN infos[a] ELSE Unknown]
                                  ELSE s.applied[p]],
   initialized |-> [p \in PoolSet |-> s.initialized[p] \/ (p \in taken /\ Quotable(infos, p))]]
After(s, m) ==
  LET infos == [s.infos EXCEPT ![m.account] = Stored(@, m.info)]
      taken == {p \in s.pools : m.account \in AccountsOf[p] /\ Complete(infos, p) /\ ~Throws(infos, p)}
  IN
    IF m.type = "addPool"
    THEN [pools |-> s.pools \cup {m.pool}, infos |-> s.infos, applied |-> s.applied,
          initialized |-> [s.initialized EXCEPT ![m.pool] = AccountsOf[m.pool] = {}]]
    ELSE AfterUpdate(s, infos, taken)

\* All workers get one log of messages.  h[i] is the state after its first i,
\* as far as some worker has come, which is m; a worker whose queue is q has all
\* but the last Len(q) behind it and is in state s.
History(log, m, h) ==
  /\ log \in Seq(Message)
  /\ m \in 0 .. Len(log)
  /\ \A i \in 1 .. m : h[i] = After(h[i - 1], log[i])
Replays(log, m, h, q, s) ==
  /\ Len(log) - Len(q) \in 0 .. m
  /\ \A i \in 1 .. Len(q) : q[i] = log[Len(log) - Len(q) + i]
  /\ s = h[Len(log) - Len(q)]
ReplicaInv ==
  \E log, m, h : History(log, m, h) /\ \A w \in Workers : Replays(log, m, h, queue[w], StateOf(w))

\* A worker's answer to a message depends on its state and the message alone.
LEMMA WorkIsAfter ==
  ASSUME TypeOK, NEW w \in Workers, Work(w)
  PROVE  StateOf(w)' = After(StateOf(w), Head(queue[w]))
<1>1. PICK m : m = Head(queue[w])
  OBVIOUS
<1>2. PICK s : s = StateOf(w)
  OBVIOUS
<1>3. s.pools = pools[w] /\ s.infos = accountInfos[w] /\ s.applied = applied[w] /\ s.initialized = ammIsInitialized[w]
  BY <1>2 DEF StateOf
<1>4. CASE m.type = "addPool" /\ DoAddPool(w, m.pool)
  <2>1. pools'[w] = s.pools \cup {m.pool} /\ accountInfos'[w] = s.infos /\ applied'[w] = s.applied
    BY <1>3, <1>4 DEF DoAddPool, TypeOK
  <2>2. ammIsInitialized'[w] = [s.initialized EXCEPT ![m.pool] = AccountsOf[m.pool] = {}]
    BY <1>3, <1>4, Zenon DEF DoAddPool, TypeOK
  <2>3. After(s, m) = [pools |-> pools'[w], infos |-> accountInfos'[w], applied |-> applied'[w],
                       initialized |-> ammIsInitialized'[w]]
    BY <1>4, <2>1, <2>2, Zenon DEF After
  <2> QED BY <1>1, <1>2, <2>3 DEF StateOf
<1>5. CASE m.type = "accountUpdate" /\ DoAccountUpdate(w, m)
  <2> DEFINE infos == [accountInfos[w] EXCEPT ![m.account] = Stored(@, m.info)]
             tried == {p \in AmmsForAccount(w, m.account) : Complete(infos, p)}
             taken == {p \in tried : ~Throws(infos, p)}
  <2>1. infos = [s.infos EXCEPT ![m.account] = Stored(@, m.info)]
    BY <1>3
  <2>3. taken = {p \in s.pools : m.account \in AccountsOf[p] /\ Complete(infos, p) /\ ~Throws(infos, p)}
    <3> HIDE DEF infos
    <3> QED BY <1>3 DEF AmmsForAccount
  <2>4. /\ accountInfos' = [accountInfos EXCEPT ![w] = infos]
        /\ applied' = [applied EXCEPT ![w] =
             [p \in PoolSet |-> IF p \in taken
                                THEN [a \in Accounts |-> IF a \in AccountsOf[p] THEN infos[a] ELSE Unknown]
                                ELSE applied[w][p]]]
        /\ ammIsInitialized' = [ammIsInitialized EXCEPT ![w] =
             [p \in PoolSet |-> ammIsInitialized[w][p] \/ (p \in taken /\ Quotable(infos, p))]]
        /\ pools' = pools
    <3>1. accountInfos' = [accountInfos EXCEPT ![w] = infos] /\ pools' = pools
      BY <1>5 DEF DoAccountUpdate
    <3>2. applied' = [applied EXCEPT ![w] =
             [p \in PoolSet |-> IF p \in taken
                                THEN [a \in Accounts |-> IF a \in AccountsOf[p] THEN infos[a] ELSE Unknown]
                                ELSE applied[w][p]]]
      BY <1>5 DEF DoAccountUpdate
    <3>3. ammIsInitialized' = [ammIsInitialized EXCEPT ![w] =
             [p \in PoolSet |-> ammIsInitialized[w][p] \/ (p \in taken /\ Quotable(infos, p))]]
      BY <1>5, Zenon DEF DoAccountUpdate
    <3> QED BY <3>1, <3>2, <3>3
  <2> HIDE DEF infos, tried, taken
  <2>5. /\ pools'[w] = s.pools /\ accountInfos'[w] = infos
        /\ applied'[w] = [p \in PoolSet |-> IF p \in taken
                            THEN [a \in Accounts |-> IF a \in AccountsOf[p] THEN infos[a] ELSE Unknown]
                            ELSE s.applied[p]]
    BY <1>3, <2>4 DEF TypeOK
  <2>6. ammIsInitialized'[w] = [p \in PoolSet |-> s.initialized[p] \/ (p \in taken /\ Quotable(infos, p))]
    BY <1>3, <2>4, Zenon DEF TypeOK
  <2>7. m.type # "addPool"
    BY <1>5
  <2>8. After(s, m) = [pools |-> pools'[w], infos |-> accountInfos'[w], applied |-> applied'[w],
                       initialized |-> ammIsInitialized'[w]]
    <3> DEFINE i == [s.infos EXCEPT ![m.account] = Stored(@, m.info)]
               t == {p \in s.pools : m.account \in AccountsOf[p] /\ Complete(i, p) /\ ~Throws(i, p)}
    <3>1. After(s, m) = AfterUpdate(s, i, t)
      BY <2>7, Zenon DEF After
    <3>2. i = infos
      BY <2>1
    <3>3. t = taken
      <4> HIDE DEF i
      <4> QED BY <2>3, <3>2
    <3> HIDE DEF i, t
    <3>4. AfterUpdate(s, infos, taken) =
            [pools |-> pools'[w], infos |-> accountInfos'[w], applied |-> applied'[w],
             initialized |-> ammIsInitialized'[w]]
      BY <2>5, <2>6, Zenon DEF AfterUpdate
    <3> QED BY <3>1, <3>2, <3>3, <3>4
  <2> QED BY <1>1, <1>2, <2>8 DEF StateOf
<1> QED BY <1>1, <1>4, <1>5 DEF Work

\* The next message of a worker is the log's next: it arrives at a state that
\* another worker reached already, or is the first to do so.
LEMMA ReplayTake ==
  ASSUME NEW log, NEW m, NEW h, History(log, m, h),
         NEW q \in Seq(Message), NEW s, Replays(log, m, h, q, s), q # <<>>
  PROVE  \E k, g :
           /\ History(log, k, g)
           /\ Replays(log, k, g, Tail(q), After(s, Head(q)))
           /\ \A r \in Seq(Message) : \A t : Replays(log, m, h, r, t) => Replays(log, k, g, r, t)
<1>1. PICK l : l = Len(log)
  OBVIOUS
<1>2. PICK n : n = l - Len(q)
  OBVIOUS
<1>3. /\ l \in Nat /\ m \in 0 .. l /\ log \in Seq(Message)
      /\ \A i \in 1 .. m : h[i] = After(h[i - 1], log[i])
  BY <1>1 DEF History
<1>4. /\ n \in 0 .. m /\ s = h[n]
      /\ \A i \in 1 .. Len(q) : q[i] = log[n + i]
  BY <1>1, <1>2 DEF Replays
<1>5. /\ Len(q) \in Nat /\ Len(q) >= 1 /\ Len(Tail(q)) = Len(q) - 1 /\ Head(q) = q[1]
      /\ \A i \in 1 .. Len(Tail(q)) : Tail(q)[i] = q[i + 1]
  OBVIOUS
<1>6. Head(q) = log[n + 1] /\ n + 1 \in 1 .. l /\ l - Len(Tail(q)) = n + 1
  BY <1>2, <1>3, <1>4, <1>5
<1>7. \A i \in 1 .. Len(Tail(q)) : Tail(q)[i] = log[n + 1 + i]
  <2> SUFFICES ASSUME NEW i \in 1 .. Len(Tail(q)) PROVE Tail(q)[i] = log[n + 1 + i]
    OBVIOUS
  <2>1. i + 1 \in 1 .. Len(q) /\ Tail(q)[i] = q[i + 1]
    BY <1>5
  <2>2. q[i + 1] = log[n + (i + 1)]
    BY <1>4, <2>1
  <2>3. n + (i + 1) = n + 1 + i
    BY <1>3, <1>4, <1>5
  <2> QED BY <2>1, <2>2, <2>3
<1>8. After(s, Head(q)) = After(h[n], log[n + 1])
  BY <1>4, <1>6
<1>9. CASE n < m
  <2>1. h[n + 1] = After(h[n], log[n + 1])
    <3>1. n + 1 \in 1 .. m /\ (n + 1) - 1 = n
      BY <1>3, <1>4, <1>9
    <3>2. h[n + 1] = After(h[(n + 1) - 1], log[n + 1])
      BY <1>3, <3>1
    <3> QED BY <3>1, <3>2
  <2>2. n + 1 \in 0 .. m
    BY <1>3, <1>4, <1>9
  <2>3. Replays(log, m, h, Tail(q), After(s, Head(q)))
    BY <1>1, <1>6, <1>7, <1>8, <2>1, <2>2 DEF Replays
  <2> QED BY <2>3
<1>10. CASE n = m
  <2>1. PICK k : k = m + 1
    OBVIOUS
  <2>2. PICK g : g = [i \in Nat |-> IF i = k THEN After(s, Head(q)) ELSE h[i]]
    OBVIOUS
  <2>3. k \in 1 .. l /\ k = n + 1 /\ k \in Nat /\ k - 1 = n
    BY <1>3, <1>4, <1>6, <1>10, <2>1
  <2>4. g[k] = After(s, Head(q)) /\ \A i \in 0 .. m : g[i] = h[i]
    BY <1>3, <2>1, <2>2, <2>3
  <2>5. ASSUME NEW i \in 1 .. k PROVE g[i] = After(g[i - 1], log[i])
    <3>1. CASE i = k
      <4>1. g[k - 1] = h[n]
        BY <1>3, <1>4, <2>3, <2>4
      <4> QED BY <1>8, <2>3, <2>4, <3>1, <4>1
    <3>2. CASE i # k
      <4>1. i \in 1 .. m /\ i \in 0 .. m /\ i - 1 \in 0 .. m
        BY <1>3, <2>1, <3>2
      <4>2. g[i] = h[i] /\ g[i - 1] = h[i - 1]
        BY <2>4, <4>1
      <4>3. h[i] = After(h[i - 1], log[i])
        BY <1>3, <4>1
      <4> QED BY <4>2, <4>3
    <3> QED BY <3>1, <3>2
  <2>6. History(log, k, g)
    BY <1>1, <1>3, <2>3, <2>5 DEF History
  <2>7. Replays(log, k, g, Tail(q), After(s, Head(q)))
    BY <1>1, <1>6, <1>7, <2>3, <2>4 DEF Replays
  <2>8. ASSUME NEW r \in Seq(Message), NEW t, Replays(log, m, h, r, t) PROVE Replays(log, k, g, r, t)
    <3>1. PICK d : d = Len(log) - Len(r)
      OBVIOUS
    <3>2. d \in 0 .. m /\ t = h[d] /\ \A i \in 1 .. Len(r) : r[i] = log[d + i]
      BY <2>8, <3>1 DEF Replays
    <3>3. d \in 0 .. k
      BY <1>3, <2>1, <3>2
    <3>4. g[d] = h[d]
      BY <2>4, <3>2
    <3> QED BY <3>1, <3>2, <3>3, <3>4 DEF Replays
  <2> QED BY <2>6, <2>7, <2>8
<1> QED BY <1>3, <1>4, <1>9, <1>10

\* A message to all workers is one more entry of the log.
LEMMA ReplaySend ==
  ASSUME NEW log, NEW m, NEW h, History(log, m, h), NEW ms \in Seq(Message)
  PROVE  /\ History(log \o ms, m, h)
         /\ \A q \in Seq(Message) : \A s :
              Replays(log, m, h, q, s) => Replays(log \o ms, m, h, q \o ms, s)
<1>1. PICK l, c : l = Len(log) /\ c = Len(ms)
  OBVIOUS
<1>2. /\ l \in Nat /\ c \in Nat /\ m \in 0 .. l /\ log \in Seq(Message)
      /\ \A i \in 1 .. m : h[i] = After(h[i - 1], log[i])
  BY <1>1 DEF History
<1>3. /\ log \o ms \in Seq(Message) /\ Len(log \o ms) = l + c
      /\ \A i \in 1 .. l : (log \o ms)[i] = log[i]
      /\ \A i \in 1 .. c : (log \o ms)[l + i] = ms[i]
  BY <1>1, <1>2
<1>4. History(log \o ms, m, h)
  <2>1. m \in 0 .. l + c
    BY <1>2
  <2>2. \A i \in 1 .. m : (log \o ms)[i] = log[i]
    BY <1>2, <1>3
  <2> QED BY <1>2, <1>3, <2>1, <2>2 DEF History
<1>5. ASSUME NEW q \in Seq(Message), NEW s, Replays(log, m, h, q, s)
      PROVE  Replays(log \o ms, m, h, q \o ms, s)
  <2>1. PICK e : e = Len(q)
    OBVIOUS
  <2>2. l - e \in 0 .. m /\ s = h[l - e] /\ \A i \in 1 .. e : q[i] = log[l - e + i]
    BY <1>1, <1>5, <2>1 DEF Replays
  <2>3. /\ e \in Nat /\ Len(q \o ms) = e + c
        /\ \A i \in 1 .. e : (q \o ms)[i] = q[i]
        /\ \A i \in 1 .. c : (q \o ms)[e + i] = ms[i]
    BY <1>1, <2>1
  <2>4. (l + c) - (e + c) = l - e
    BY <1>2, <2>3
  <2>5. ASSUME NEW i \in 1 .. e + c PROVE (q \o ms)[i] = (log \o ms)[l - e + i]
    <3>1. CASE i \in 1 .. e
      <4>1. l - e + i \in 1 .. l
        BY <1>2, <2>2, <2>3, <3>1
      <4> QED BY <1>3, <2>2, <2>3, <3>1, <4>1
    <3>2. CASE i \notin 1 .. e
      <4>1. PICK j : j = i - e
        OBVIOUS
      <4>2. j \in 1 .. c /\ i = e + j /\ l - e + i = l + j
        BY <1>2, <2>3, <3>2, <4>1
      <4> QED BY <1>3, <2>3, <4>2
    <3> QED BY <3>1, <3>2
  <2> QED BY <1>3, <2>2, <2>3, <2>4, <2>5 DEF Replays
<1> QED BY <1>4, <1>5

LEMMA ReplicaStep == TypeOK /\ ReplicaInv /\ [Next]_vars => ReplicaInv'
<1> SUFFICES ASSUME TypeOK, ReplicaInv, [Next]_vars PROVE ReplicaInv'
  OBVIOUS
<1>1. PICK log, m, h : History(log, m, h) /\ \A w \in Workers : Replays(log, m, h, queue[w], StateOf(w))
  BY DEF ReplicaInv
<1>2. \A w \in Workers : queue[w] \in Seq(Message)
  BY DEF TypeOK
<1>3. CASE UNCHANGED workerVars /\ UNCHANGED queue
  <2>1. \A w \in Workers : queue'[w] = queue[w] /\ StateOf(w)' = StateOf(w)
    BY <1>3 DEF StateOf, workerVars
  <2>2. \A w \in Workers : Replays(log, m, h, queue'[w], StateOf(w)')
    BY <1>1, <2>1
  <2> QED BY <1>1, <2>2 DEF ReplicaInv
<1>4. ASSUME UNCHANGED workerVars, NEW ms \in Seq(Message), Broadcast(ms) PROVE ReplicaInv'
  <2>1. \A w \in Workers : queue'[w] = queue[w] \o ms /\ StateOf(w)' = StateOf(w)
    BY <1>4 DEF StateOf, workerVars, Broadcast, Recipients, Enqueue
  <2>2. \A w \in Workers : Replays(log \o ms, m, h, queue[w] \o ms, StateOf(w))
    BY <1>1, <1>2, ReplaySend
  <2>3. History(log \o ms, m, h)
    BY <1>1, ReplaySend
  <2>4. \A w \in Workers : Replays(log \o ms, m, h, queue'[w], StateOf(w)')
    BY <2>1, <2>2
  <2> QED BY <2>3, <2>4 DEF ReplicaInv
<1>5. ASSUME NEW x \in Workers, Work(x) PROVE ReplicaInv'
  <2>1. queue[x] # <<>> /\ queue'[x] = Tail(queue[x])
    BY <1>5 DEF Work, TypeOK
  <2>2. PICK k, g :
          /\ History(log, k, g)
          /\ Replays(log, k, g, Tail(queue[x]), After(StateOf(x), Head(queue[x])))
          /\ \A r \in Seq(Message) : \A t : Replays(log, m, h, r, t) => Replays(log, k, g, r, t)
    BY <1>1, <1>2, <2>1, ReplayTake
  <2>3. ASSUME NEW w \in Workers PROVE Replays(log, k, g, queue'[w], StateOf(w)')
    <3>1. CASE w = x
      <4>1. StateOf(w)' = After(StateOf(x), Head(queue[x]))
        BY <1>5, <3>1, WorkIsAfter
      <4> QED BY <2>1, <2>2, <3>1, <4>1
    <3>2. CASE w # x
      <4>1. UNCHANGED <<queue[w], pools[w], accountInfos[w], applied[w], ammIsInitialized[w]>>
        BY <1>5, <3>2, WorkEffect
      <4>2. queue'[w] = queue[w] /\ StateOf(w)' = StateOf(w)
        BY <4>1 DEF StateOf
      <4> QED BY <1>1, <1>2, <2>2, <4>2
    <3> QED BY <3>1, <3>2
  <2> QED BY <2>2, <2>3 DEF ReplicaInv
<1> QED BY <1>3, <1>4, <1>5, QueueStep

\* Two workers that have no message left know the same accounts and quote from
\* the same pool states, however many messages they were apart.
THEOREM WorkersAreReplicas == Spec => []ReplicasAgree
<1>1. Init => ReplicaInv
  <2> SUFFICES ASSUME Init PROVE ReplicaInv
    OBVIOUS
  <2>1. PICK log : log = [i \in DOMAIN Pools |-> AddPool(Pools[i])]
    OBVIOUS
  <2>2. PICK h : h = [i \in Nat |-> [pools |-> {}, infos |-> NothingApplied,
                                     applied |-> [p \in PoolSet |-> NothingApplied],
                                     initialized |-> [p \in PoolSet |-> FALSE]]]
    OBVIOUS
  <2>3. PICK v \in Workers : TRUE
    BY WorkersAssumption
  <2>4. log \in Seq(Message) /\ \A w \in Workers : queue[w] = log
    BY <2>1, <2>3, InitType DEF Init, TypeOK
  <2>5. \A w \in Workers : StateOf(w) = h[0]
    BY <2>2 DEF Init, StateOf
  <2>6. Len(log) \in Nat /\ Len(log) - Len(log) = 0
    BY <2>4
  <2>7. History(log, 0, h)
    BY <2>4, <2>6 DEF History
  <2>8. \A w \in Workers : Replays(log, 0, h, queue[w], StateOf(w))
    <3>1. Replays(log, 0, h, log, h[0])
      <4>1. \A i \in 1 .. Len(log) : log[i] = log[0 + i]
        BY <2>6
      <4>2. 0 \in 0 .. 0
        OBVIOUS
      <4>3. /\ Len(log) - Len(log) \in 0 .. 0
            /\ \A i \in 1 .. Len(log) : log[i] = log[Len(log) - Len(log) + i]
            /\ h[0] = h[Len(log) - Len(log)]
        BY <2>6, <4>1, <4>2, Zenon
      <4> QED BY <4>3 DEF Replays
    <3> QED BY <2>4, <2>5, <3>1
  <2> QED BY <2>7, <2>8 DEF ReplicaInv
<1>2. ReplicaInv => ReplicasAgree
  <2> SUFFICES ASSUME ReplicaInv, NEW v \in Workers, NEW w \in Workers, Drained(v), Drained(w)
               PROVE  StateOf(v) = StateOf(w)
    BY DEF ReplicasAgree, StateOf
  <2>1. PICK log, m, h : History(log, m, h) /\ \A u \in Workers : Replays(log, m, h, queue[u], StateOf(u))
    BY DEF ReplicaInv
  <2>2. Replays(log, m, h, <<>>, StateOf(v)) /\ Replays(log, m, h, <<>>, StateOf(w))
    BY <2>1 DEF Drained
  <2>3. /\ StateOf(v) = h[Len(log) - Len(<<>>)]
        /\ StateOf(w) = h[Len(log) - Len(<<>>)]
    BY <2>2 DEF Replays
  <2> QED BY <2>3
<1> QED BY <1>1, <1>2, InitType, NextType, ReplicaStep, PTL DEF Spec
=============================================================================
