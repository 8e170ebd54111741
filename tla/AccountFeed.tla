---------------------------- MODULE AccountFeed ----------------------------
(***************************************************************************)
(* How the workers learn the accounts of the pools they quote.  The main   *)
(* thread (src/markets/index.ts) adds the pools, fetches every account     *)
(* once over RPC, seeds the workers, then subscribes to geyser and passes  *)
(* each update on (src/clients/geyser.ts); every worker applies the same   *)
(* messages (src/markets/amm-calc-worker.ts), one at a time and in order.  *)
(* When a pool rejects an update the account is read again over RPC and    *)
(* sent to all workers.                                                    *)
(*                                                                         *)
(* The content of an account is its version: 0 while it does not exist,    *)
(* then 1, 2, ... as the chain writes it.  A write may close the account:  *)
(* geyser then delivers an empty account, and a read finds none.           *)
(***************************************************************************)
EXTENDS Integers, Sequences, SequencesExt

CONSTANTS
  Workers,
  Pools,       (* in the order the DEXes list them                          *)
  Accounts,
  AccountsOf,  (* AccountsOf[p]: what getAccountsForUpdate returns for p    *)
  Rejected,    (* <<account, version>> data on which amm.update throws      *)
  Closed,      (* <<account, version>> writes that close the account        *)
  MaxVersion   (* bound on the writes to an account                         *)

PoolSet == Range(Pools)

ASSUME PoolsAssumption == Pools \in Seq(PoolSet)
ASSUME AccountsOfAssumption == AccountsOf \in [PoolSet -> SUBSET Accounts]
ASSUME WorkersAssumption == Workers # {}
ASSUME MaxVersionAssumption == MaxVersion \in Nat

Unknown == -1   \* not in accountInfos
Null == 0       \* the account does not exist
Version == 1 .. MaxVersion
Found == {Null} \cup Version     \* what a read can return
Info == {Unknown} \cup Found

VARIABLES
  chain,        (* the version of each account on the chain                 *)
  phase,        (* how far the boot of markets/index.ts has come            *)
  fetched,      (* initialAccountBuffers, in insertion order                *)
  queue,        (* messages for each worker, oldest first                   *)
  pools,        (* the pools each worker has                                *)
  accountInfos, (* what each worker knows of each account                   *)
  applied,      (* the accounts amm.update last took, per worker and pool   *)
  ammIsInitialized,
  subscribedAt, (* chain when the subscription began                        *)
  seqs,         (* GeyserAccountUpdateClient.seqs                           *)
  callbacks     (* the geyser callback of each update of each account       *)

workerVars == <<pools, accountInfos, applied, ammIsInitialized>>
mainVars == <<phase, fetched, subscribedAt, seqs>>
vars == <<chain, mainVars, queue, workerVars, callbacks>>

Message ==
  [type : {"addPool"}, pool : PoolSet]
    \cup [type : {"accountUpdate"}, account : Accounts, info : Found, source : {"seed", "geyser", "reseed"}]

AddPool(p) == [type |-> "addPool", pool |-> p]
AccountUpdate(a, i, s) == [type |-> "accountUpdate", account |-> a, info |-> i, source |-> s]

\* A callback awaits the workers in "left", then perhaps reads the account
\* again; "info" is what that read returned.  Each update has one callback; whether
\* it re-seeded the account is kept.
CallbackState(stage, left, error, info) ==
  [stage |-> stage, left |-> left, error |-> error, info |-> info]
NoCallback == CallbackState("none", {}, FALSE, Unknown)
Applying(left, error) == CallbackState("applying", left, error, Unknown)
Reading == CallbackState("reading", {}, FALSE, Unknown)
HasRead(info) == CallbackState("read", {}, FALSE, info)
Reseeded == CallbackState("reseeded", {}, FALSE, Unknown)
Callback ==
  {NoCallback, Reading, Reseeded}
    \cup {HasRead(i) : i \in Found}
    \cup [stage : {"applying"}, left : (SUBSET Workers) \ {{}}, error : BOOLEAN, info : {Unknown}]

NothingApplied == [a \in Accounts |-> Unknown]

TypeOK ==
  /\ chain \in [Accounts -> 0 .. MaxVersion]
  /\ phase \in {"adding", "fetching", "seeding", "live", "ended"}
  /\ fetched \in Seq(Accounts \X Found)
  /\ queue \in [Workers -> Seq(Message)]
  /\ pools \in [Workers -> SUBSET PoolSet]
  /\ accountInfos \in [Workers -> [Accounts -> Info]]
  /\ applied \in [Workers -> [PoolSet -> [Accounts -> Info]]]
  /\ ammIsInitialized \in [Workers -> [PoolSet -> BOOLEAN]]
  /\ subscribedAt \in [Accounts -> 0 .. MaxVersion]
  /\ seqs \in [Accounts -> 0 .. MaxVersion]
  /\ callbacks \in [Accounts \X Version -> Callback]

Init ==
  /\ chain \in [Accounts -> {0, 1} \cap 0 .. MaxVersion]
  /\ phase = "adding"
  /\ fetched = <<>>
  /\ queue = [w \in Workers |-> [i \in DOMAIN Pools |-> AddPool(Pools[i])]]
  /\ pools = [w \in Workers |-> {}]
  /\ accountInfos = [w \in Workers |-> NothingApplied]
  /\ applied = [w \in Workers |-> [p \in PoolSet |-> NothingApplied]]
  /\ ammIsInitialized = [w \in Workers |-> [p \in PoolSet |-> FALSE]]
  /\ subscribedAt = [a \in Accounts |-> 0]
  /\ seqs = [a \in Accounts |-> 0]
  /\ callbacks = [c \in Accounts \X Version |-> NoCallback]

\* The chain moves on, whatever the searcher does; an account that was closed
\* is not written again.
ChainWrite(a) ==
  /\ chain[a] < MaxVersion
  /\ <<a, chain[a]>> \notin Closed
  /\ chain' = [chain EXCEPT ![a] = @ + 1]
  /\ UNCHANGED <<mainVars, queue, workerVars, callbacks>>

(***************************************************************************)
(* Boot of the main thread                                                 *)
(***************************************************************************)

\* runTaskOnAllWorkers: the message goes to the per-worker queue of each
\* worker.  (Mutants: new messages overtake the older ones; only one
\* worker gets them.)
EnqueueFirst(q, ms) == ms \o q
Enqueue(q, ms) == q \o ms

SomeWorker == {CHOOSE w \in Workers : TRUE}
Recipients == Workers

Broadcast(ms) ==
  queue' = [w \in Workers |-> IF w \in Recipients THEN Enqueue(queue[w], ms) ELSE queue[w]]

\* Promise.race: one worker's answer per pool is enough to go on.
StartFetch ==
  /\ phase = "adding"
  /\ \A p \in PoolSet : \E w \in Workers : p \in pools[w]
  /\ phase' = "fetching"
  /\ UNCHANGED <<chain, fetched, subscribedAt, seqs, queue, workerVars, callbacks>>

\* What a read of the chain finds.
OnChain(a) == IF <<a, chain[a]>> \in Closed THEN Null ELSE chain[a]

\* The answer to getMultipleAccountsInfo; each batch is read at a time of its
\* own.
Fetch(a) ==
  /\ phase = "fetching"
  /\ \A i \in DOMAIN fetched : fetched[i][1] # a
  /\ fetched' = Append(fetched, <<a, OnChain(a)>>)
  /\ UNCHANGED <<chain, phase, subscribedAt, seqs, queue, workerVars, callbacks>>

Seed ==
  /\ phase = "fetching"
  /\ \A a \in Accounts : \E i \in DOMAIN fetched : fetched[i][1] = a
  /\ phase' = "seeding"
  /\ Broadcast([i \in DOMAIN fetched |-> AccountUpdate(fetched[i][1], fetched[i][2], "seed")])
  /\ UNCHANGED <<chain, fetched, subscribedAt, seqs, workerVars, callbacks>>

\* All seeds are answered; addSubscriptions.
Subscribe ==
  /\ phase = "seeding"
  /\ \A w \in Workers : queue[w] = <<>>
  /\ phase' = "live"
  /\ subscribedAt' = chain
  /\ seqs' = [a \in Accounts |-> 0]
  /\ UNCHANGED <<chain, fetched, queue, workerVars, callbacks>>

(***************************************************************************)
(* Geyser updates                                                          *)
(***************************************************************************)

\* processUpdate drops what is not newer than the last update of the account.
\* (Mutant: it does not.)
EveryUpdate(a, v) == TRUE
NewerUpdate(a, v) == v > seqs[a]

\* The stream delivers the writes made since the subscription, in any order
\* and possibly again.
Update(a, v) ==
  /\ phase = "live"
  /\ v \in subscribedAt[a] + 1 .. chain[a]
  /\ NewerUpdate(a, v)
  /\ seqs' = [seqs EXCEPT ![a] = v]
  /\ Broadcast(<<AccountUpdate(a, v, "geyser")>>)
  /\ callbacks' = [callbacks EXCEPT ![<<a, v>>] = Applying(Workers, FALSE)]
  /\ UNCHANGED <<chain, phase, fetched, subscribedAt, workerVars>>

\* getAccountInfo is answered with the account as it is at that moment ...
ReseedRead(a, v) ==
  /\ phase = "live"
  /\ callbacks[<<a, v>>].stage = "reading"
  /\ OnChain(a) # Null
  /\ callbacks' = [callbacks EXCEPT ![<<a, v>>] = HasRead(OnChain(a))]
  /\ UNCHANGED <<chain, mainVars, queue, workerVars>>

\* ... or not at all if it was closed: the callback dereferences null, nobody
\* catches that, and the process ends ...
ReseedThrows(a, v) ==
  /\ phase = "live"
  /\ callbacks[<<a, v>>].stage = "reading"
  /\ OnChain(a) = Null
  /\ phase' = "ended"
  /\ UNCHANGED <<chain, fetched, subscribedAt, seqs, queue, workerVars, callbacks>>

\* ... and the answer reaches the workers later.
Reseed(a, v) ==
  /\ phase = "live"
  /\ callbacks[<<a, v>>].stage = "read"
  /\ Broadcast(<<AccountUpdate(a, callbacks[<<a, v>>].info, "reseed")>>)
  /\ callbacks' = [callbacks EXCEPT ![<<a, v>>] = Reseeded]
  /\ UNCHANGED <<chain, mainVars, workerVars>>

(***************************************************************************)
(* The worker: messages of type addPool and accountUpdate                  *)
(***************************************************************************)
DoAddPool(w, p) ==
  /\ pools' = [pools EXCEPT ![w] = @ \cup {p}]
  /\ ammIsInitialized' = [ammIsInitialized EXCEPT ![w][p] = AccountsOf[p] = {}]
  /\ UNCHANGED <<accountInfos, applied, callbacks>>

\* null never replaces what is known.
Stored(old, new) == IF old = Unknown \/ new # Null THEN new ELSE old

Complete(infos, p) == \A a \in AccountsOf[p] : infos[a] # Unknown

\* A pool can quote once it was updated with data for all its accounts.
\* (Mutant: accounts that do not exist are not looked at.)
CompleteIsEnough(infos, p) == Complete(infos, p)
Quotable(infos, p) == Complete(infos, p) /\ \A a \in AccountsOf[p] : infos[a] # Null

\* amm.update throws: no pool state changes.
Throws(infos, p) == \E a \in AccountsOf[p] : <<a, infos[a]>> \in Rejected

\* The pools an update of account a makes the worker recompute.  (Mutant:
\* addPool replaces the list of an account that it should extend.)
LastAdded(w, a) ==
  {p \in pools[w] : a \in AccountsOf[p]
     /\ \E i \in DOMAIN Pools : Pools[i] = p
          /\ \A j \in i + 1 .. Len(Pools) : Pools[j] \notin pools[w] \/ a \notin AccountsOf[Pools[j]]}
AmmsForAccount(w, a) == {p \in pools[w] : a \in AccountsOf[p]}

\* The main thread hears the answer of worker w to a geyser update.  The last
\* one ends the callback, or starts the read that follows an error.
Answered(c, w, error) ==
  IF c.left \ {w} # {} THEN Applying(c.left \ {w}, c.error \/ error)
  ELSE IF c.error \/ error THEN Reading
  ELSE NoCallback

DoAccountUpdate(w, m) ==
  LET infos == [accountInfos[w] EXCEPT ![m.account] = Stored(@, m.info)]
      tried == {p \in AmmsForAccount(w, m.account) : Complete(infos, p)}
      taken == {p \in tried : ~Throws(infos, p)}
  IN
    /\ accountInfos' = [accountInfos EXCEPT ![w] = infos]
    /\ applied' = [applied EXCEPT ![w] =
         [p \in PoolSet |-> IF p \in taken
                            THEN [a \in Accounts |-> IF a \in AccountsOf[p] THEN infos[a] ELSE Unknown]
                            ELSE applied[w][p]]]
    /\ ammIsInitialized' = [ammIsInitialized EXCEPT ![w] =
         [p \in PoolSet |-> @[p] \/ (p \in taken /\ Quotable(infos, p))]]
    /\ callbacks' = IF m.source = "geyser"
                    THEN [callbacks EXCEPT ![<<m.account, m.info>>] = Answered(@, w, tried # taken)]
                    ELSE callbacks
    /\ UNCHANGED pools

Work(w) ==
  /\ phase # "ended"
  /\ queue[w] # <<>>
  /\ queue' = [queue EXCEPT ![w] = Tail(@)]
  /\ LET m == Head(queue[w]) IN
       \/ m.type = "addPool" /\ DoAddPool(w, m.pool)
       \/ m.type = "accountUpdate" /\ DoAccountUpdate(w, m)
  /\ UNCHANGED <<chain, mainVars>>

\* The searcher waits for the chain; an ended process stays ended.
Wait == phase \in {"live", "ended"} /\ UNCHANGED vars

Next ==
  \/ StartFetch \/ Seed \/ Subscribe
  \/ \E a \in Accounts : ChainWrite(a) \/ Fetch(a)
  \/ \E a \in Accounts, v \in Version : 
       Update(a, v) \/ ReseedRead(a, v) \/ ReseedThrows(a, v) \/ Reseed(a, v)
  \/ \E w \in Workers : Work(w)
  \/ Wait

Spec == Init /\ [][Next]_vars

\* Worker threads run; the pool serves its per-worker queues (WorkerPool's
\* BroadcastServed).  Nothing is assumed of the chain, the stream or the RPC.
FairSpec == Spec /\ \A w \in Workers : WF_vars(Work(w))
-----------------------------------------------------------------------------
(***************************************************************************)
(* Properties                                                              *)
(***************************************************************************)
Drained(w) == queue[w] = <<>>

\* The workers are replicas: two that have no message left know the same
\* accounts and quote from the same pool states, although they ran at their
\* own pace and one worker's failed update re-seeds all (lines 131-178).
ReplicasAgree ==
  \A v, w \in Workers : Drained(v) /\ Drained(w) =>
    /\ accountInfos[v] = accountInfos[w]
    /\ applied[v] = applied[w]
    /\ ammIsInitialized[v] = ammIsInitialized[w]

\* A pool that may quote was updated with data for each of its accounts: none
\* unknown and none that does not exist, and it stays so.
InitializedIsComplete ==
  \A w \in Workers : \A p \in pools[w] : ammIsInitialized[w][p] =>
    \A a \in AccountsOf[p] : accountInfos[w][a] \in Version /\ applied[w][p][a] \in Version

\* Quotes come from the accounts the worker holds: whenever all accounts of a
\* pool are known and acceptable, the pool was updated with exactly them.
QuotesFollowAccounts ==
  \A w \in Workers : \A p \in pools[w] :
    AccountsOf[p] # {} /\ Complete(accountInfos[w], p) /\ ~Throws(accountInfos[w], p)
      => \A a \in AccountsOf[p] : applied[w][p][a] = accountInfos[w][a]

\* Late and repeated geyser updates never take a worker back to an older
\* version of an account.  Only after a failed update can that happen: the read
\* that follows it may be answered with what geyser delivers later, so that
\* updates in between go back, or be applied after what was newer already
\* (geyser.ts, lines 33-36, and markets/index.ts, lines 149-172).
Behind(w, a) == accountInfos'[w][a] < accountInfos[w][a]
OnlyReseedGoesBack ==
  [][\A w \in Workers, a \in Accounts :
       Behind(w, a) => \E v \in Version : callbacks[<<a, v>>] = Reseeded]_vars

\* Every geyser update reaches every worker, itself or a newer one, and no older
\* one replaces it for good unless a failed update made the account be read again
\* or the process ended (lines 131-178): when the stream falls silent, which it
\* does at MaxVersion, the workers hold all that it delivered.
UpdatesReachWorkers ==
  <>[](phase = "live" =>
         \A w \in Workers, a \in Accounts :
           accountInfos[w][a] >= seqs[a] \/ \E v \in Version : callbacks[<<a, v>>] = Reseeded)
=============================================================================
