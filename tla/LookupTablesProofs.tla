------------------------- MODULE LookupTablesProofs -------------------------
(***************************************************************************)
(* Theorems about LookupTables for any tables, contents and transactions:  *)
(* type correctness, that the index covers the cache, what can take the    *)
(* cache back, and that the tables chosen for a set of addresses help and  *)
(* leave out none that would.                                              *)
(***************************************************************************)
EXTENDS LookupTables, FiniteSetTheorems, SequenceTheorems, WellFoundedInduction, TLAPS

\* The read of each caller is for the table that its answer is cached under,
\* and getLookupTable is never asked twice at once by the filter.
ReadsInv ==
  /\ reads["boot"].asked => reads["boot"].table = CustomTable
  /\ reads["filter"].asked =>
       /\ stage = "resolving" /\ Len(resolved) < Len(txn)
       /\ reads["filter"].table = Lookup.table
LookupInv == TypeOK /\ ReadsInv

ReadRecord == [table : Table, asked : BOOLEAN, version : {Unread, Missing} \cup Version]

LEMMA ReadRecords ==
  /\ NoRead \in ReadRecord /\ ~NoRead.asked
  /\ \A t \in Table : Ask(t) \in ReadRecord /\ Ask(t).asked /\ Ask(t).table = t
  BY TablesAssumption DEF NoRead, Ask, ReadRecord

LEMMA VersionIsNat ==
  /\ \A v \in Version : v \in Int /\ v # Missing /\ v \in 0 .. MaxVersion
  /\ \A v \in 0 .. MaxVersion : v \in Int /\ v \in {Unread, Missing} \cup Version
  BY TablesAssumption DEF Version, Missing

LEMMA LookupType ==
  ASSUME TypeOK, Len(resolved) < Len(txn)
  PROVE  Lookup.table \in Table /\ txn \in Txns
<1>1. Len(resolved) \in Nat
  BY DEF TypeOK
<1>2. txn # <<>>
  BY <1>1
<1>3. txn \in Txns
  BY <1>2 DEF TypeOK
<1>4. txn \in Seq([table : Table, need : Version])
  BY <1>3, TxnsAssumption
<1>5. Len(resolved) + 1 \in 1 .. Len(txn)
  BY <1>1, <1>4
<1>6. Lookup \in [table : Table, need : Version]
  <2>1. PICK k : k = Len(resolved) + 1
    OBVIOUS
  <2>2. txn[k] \in [table : Table, need : Version]
    BY <1>4, <1>5, <2>1, ElementOfSeq
  <2> QED BY <2>1, <2>2 DEF Lookup
<1> QED BY <1>3, <1>6

\* updateCache keeps the types and the index: whatever it overwrites, the index
\* keeps the tables it named and names the table for its new addresses.
LEMMA CacheType ==
  ASSUME TypeOK, NEW t \in Table, NEW v \in Version, UpdateCache(t, v)
  PROVE  /\ lookupTables' \in [Table -> {Missing} \cup Version]
         /\ addressesForLookupTable' \in [Table -> SUBSET Address]
         /\ lookupTablesForAddress' \in [Address -> SUBSET Table]
<1>1. Contents[t][v] \in SUBSET Address
  BY DEF Address
<1> QED BY <1>1 DEF TypeOK, UpdateCache, Indexed

LEMMA CacheIndexed ==
  ASSUME TypeOK, IndexCoversCache, NEW t \in Table, NEW v \in Version, UpdateCache(t, v)
  PROVE  IndexCoversCache'
<1>1. /\ lookupTables'[t] = v /\ v # Missing
      /\ \A u \in Table : u # t => lookupTables'[u] = lookupTables[u]
      /\ \A a \in Address : lookupTablesForAddress'[a] =
           IF a \in Contents[t][v] THEN lookupTablesForAddress[a] \cup {t} ELSE lookupTablesForAddress[a]
  BY VersionIsNat DEF TypeOK, UpdateCache, Indexed
<1>2. ASSUME NEW u \in Table, Cached(u)', NEW a \in Contents[u][lookupTables'[u]]
      PROVE  u \in lookupTablesForAddress'[a]
  <2>1. lookupTables'[u] \in Version
    BY <1>1, <1>2 DEF Cached, TypeOK
  <2>2. a \in Address
    BY <2>1 DEF Address
  <2>3. CASE u = t
    BY <1>1, <2>2, <2>3
  <2>4. CASE u # t
    <3>1. Cached(u) /\ a \in Contents[u][lookupTables[u]]
      BY <1>1, <1>2, <2>4 DEF Cached
    <3>2. u \in lookupTablesForAddress[a]
      BY <3>1 DEF IndexCoversCache
    <3> QED BY <1>1, <2>2, <3>2
  <2> QED BY <2>3, <2>4
<1>3. ASSUME NEW a \in Address, NEW u \in lookupTablesForAddress'[a]
      PROVE  lookupTables'[u] # Missing
  <2>1. CASE u = t
    BY <1>1, <2>1
  <2>2. CASE u # t
    <3>1. u \in lookupTablesForAddress[a] /\ u \in Table
      <4>1. u \in lookupTablesForAddress[a]
        BY <1>1, <1>3, <2>2
      <4> QED BY <4>1 DEF TypeOK
    <3> QED BY <1>1, <2>2, <3>1 DEF IndexCoversCache
  <2> QED BY <2>1, <2>2
<1> QED BY <1>2, <1>3 DEF IndexCoversCache

\* What an answer that is not null carries.
LEMMA AnswerType ==
  ASSUME TypeOK, NEW c \in Caller, Answered(c), reads[c].version # Missing
  PROVE  reads[c].version \in Version
  BY DEF TypeOK, Answered

LEMMA InitInv == Init => LookupInv /\ IndexCoversCache
<1> SUFFICES ASSUME Init PROVE LookupInv /\ IndexCoversCache
  OBVIOUS
<1>1. reads["boot"] = Ask(CustomTable) /\ reads["filter"] = NoRead
  BY DEF Init, Caller
<1>2. reads \in [Caller -> ReadRecord]
  BY ReadRecords, TablesAssumption DEF Init
<1>3. ReadsInv
  BY <1>1, ReadRecords, TablesAssumption DEF ReadsInv
<1>4. chain \in [Table -> 0 .. MaxVersion] /\ seqs \in [Table -> 0 .. MaxVersion]
  BY TablesAssumption DEF Init
<1>5. resolved \in Seq(Version) /\ Len(resolved) <= Len(txn)
  BY DEF Init
<1>6. TypeOK
  BY <1>2, <1>4, <1>5 DEF Init, TypeOK, ReadRecord
<1>7. IndexCoversCache
  BY DEF Init, IndexCoversCache, Cached
<1> QED BY <1>3, <1>6, <1>7 DEF LookupInv

\* The steps that update the cache.
CacheStep ==
  \E t \in Table, v \in Version :
    /\ UpdateCache(t, v)
    /\ \/ Update(t, v)
       \/ \E c \in Caller : Answered(c) /\ reads[c].table = t /\ ~reads'[c].asked

LEMMA CacheSteps == LookupInv /\ [Next]_vars => CacheStep \/ UNCHANGED cache
<1> SUFFICES ASSUME LookupInv, [Next]_vars PROVE CacheStep \/ UNCHANGED cache
  OBVIOUS
<1>1. ASSUME NEW t \in Table, NEW v \in Version, Update(t, v) PROVE CacheStep
  BY <1>1 DEF Update, CacheStep
<1>2. ASSUME BootAnswer PROVE CacheStep \/ UNCHANGED cache
  <2>1. Answered("boot") /\ reads["boot"].table = CustomTable /\ "boot" \in Caller
    BY <1>2 DEF BootAnswer, Answered, LookupInv, ReadsInv, Caller
  <2>2. ~reads'["boot"].asked
    BY <1>2, <2>1, ReadRecords DEF BootAnswer, LookupInv, TypeOK
  <2>3. CASE reads["boot"].version # Missing
    <3>1. reads["boot"].version \in Version /\ UpdateCache(CustomTable, reads["boot"].version)
      BY <1>2, <2>1, <2>3, AnswerType DEF BootAnswer, LookupInv
    <3> QED BY <2>1, <2>2, <3>1, TablesAssumption DEF CacheStep
  <2> QED BY <1>2, <2>3 DEF BootAnswer
<1>3. ASSUME FilterAnswer PROVE CacheStep \/ UNCHANGED cache
  <2>1. /\ Answered("filter") /\ "filter" \in Caller
        /\ reads["filter"].table = Lookup.table /\ Lookup.table \in Table
    BY <1>3, LookupType DEF FilterAnswer, Answered, LookupInv, ReadsInv, Caller
  <2>2. ~reads'["filter"].asked
    BY <1>3, <2>1, ReadRecords DEF FilterAnswer, LookupInv, TypeOK
  <2>3. CASE reads["filter"].version # Missing
    <3>1. reads["filter"].version \in Version /\ UpdateCache(Lookup.table, reads["filter"].version)
      BY <1>3, <2>1, <2>3, AnswerType DEF FilterAnswer, LookupInv
    <3> QED BY <2>1, <2>2, <3>1 DEF CacheStep
  <2> QED BY <1>3, <2>3 DEF FilterAnswer
<1>4. CASE \E t \in Table : Extend(t)
  BY <1>4 DEF Extend
<1>5. CASE \E c \in Caller : Read(c) \/ ReadFails(c)
  BY <1>5 DEF Read, ReadFails
<1>6. CASE (\E x \in Txns : TakeTxn(x)) \/ Resolve \/ AllResolved \/ GetAccountKeys
  BY <1>6 DEF TakeTxn, Resolve, AllResolved, GetAccountKeys
<1>7. CASE UNCHANGED vars
  BY <1>7 DEF vars
<1> QED BY <1>1, <1>2, <1>3, <1>4, <1>5, <1>6, <1>7 DEF Next, Dead

LEMMA NextInv == LookupInv /\ [Next]_vars => LookupInv'
<1> SUFFICES ASSUME LookupInv, [Next]_vars PROVE LookupInv'
  OBVIOUS
<1>1. /\ lookupTables' \in [Table -> {Missing} \cup Version]
      /\ addressesForLookupTable' \in [Table -> SUBSET Address]
      /\ lookupTablesForAddress' \in [Address -> SUBSET Table]
  <2>1. CASE CacheStep
    BY <2>1, CacheType DEF CacheStep, LookupInv
  <2>2. CASE UNCHANGED cache
    BY <2>2 DEF cache, LookupInv, TypeOK
  <2> QED BY <2>1, <2>2, CacheSteps
<1>2. CASE UNCHANGED <<chain, seqs, subscribedAt, reads, filter>> /\ process' \in {"running", "deadOfRpc"}
  BY <1>1, <1>2 DEF LookupInv, TypeOK, ReadsInv, filter, Lookup
<1>3. ASSUME NEW t \in Table, Extend(t) PROVE LookupInv'
  <2>1. chain' \in [Table -> 0 .. MaxVersion]
    BY <1>3, TablesAssumption DEF Extend, LookupInv, TypeOK
  <2> QED BY <1>1, <1>3, <2>1 DEF Extend, LookupInv, TypeOK, ReadsInv, filter, Lookup
<1>4. ASSUME NEW t \in Table, NEW v \in Version, Update(t, v) PROVE LookupInv'
  <2>1. seqs' \in [Table -> 0 .. MaxVersion]
    BY <1>4, VersionIsNat DEF Update, LookupInv, TypeOK
  <2> QED BY <1>1, <1>4, <2>1 DEF Update, LookupInv, TypeOK, ReadsInv, filter, Lookup
<1>5. ASSUME NEW c \in Caller, Read(c) PROVE LookupInv'
  <2>1. chain[reads[c].table] \in {Unread, Missing} \cup Version
    BY VersionIsNat DEF LookupInv, TypeOK
  <2>2. reads' = [reads EXCEPT ![c].version = chain[reads[c].table]] /\ reads \in [Caller -> ReadRecord]
    BY <1>5 DEF Read, LookupInv, TypeOK, ReadRecord
  <2>3. /\ reads' \in [Caller -> ReadRecord]
        /\ \A d \in Caller : reads'[d].asked = reads[d].asked /\ reads'[d].table = reads[d].table
    BY <2>1, <2>2 DEF ReadRecord
  <2>4. ReadsInv'
    BY <1>5, <2>3 DEF Read, LookupInv, ReadsInv, filter, Lookup, Caller
  <2>5. TypeOK'
    BY <1>1, <1>5, <2>3 DEF Read, LookupInv, TypeOK, filter, ReadRecord
  <2> QED BY <2>4, <2>5 DEF LookupInv
<1>6. CASE BootAnswer
  <2>1. /\ reads' \in [Caller -> ReadRecord] /\ ~reads'["boot"].asked
        /\ reads'["filter"] = reads["filter"]
    BY <1>6, ReadRecords DEF BootAnswer, LookupInv, TypeOK, ReadRecord, Caller
  <2> QED BY <1>1, <1>6, <2>1 DEF BootAnswer, LookupInv, TypeOK, ReadsInv, filter, Lookup, ReadRecord
<1>7. ASSUME NEW x \in Txns, TakeTxn(x) PROVE LookupInv'
  <2>1. ~reads["filter"].asked
    BY <1>7 DEF TakeTxn, LookupInv, ReadsInv
  <2>2. resolved' = <<>> /\ Len(resolved') <= Len(txn') /\ txn' \in Txns
    BY <1>7, TxnsAssumption DEF TakeTxn
  <2> QED BY <1>1, <1>7, <2>1, <2>2 DEF TakeTxn, LookupInv, TypeOK, ReadsInv
<1>8. CASE Resolve
  <2>1. Lookup.table \in Table
    BY <1>8, LookupType DEF Resolve, LookupInv
  <2>2. CASE Cached(Lookup.table)
    <3>1. lookupTables[Lookup.table] \in Version
      BY <2>1, <2>2 DEF Cached, LookupInv, TypeOK
    <3>2. resolved' = Append(resolved, lookupTables[Lookup.table]) /\ resolved \in Seq(Version)
      BY <1>8, <2>2 DEF Resolve, LookupInv, TypeOK
    <3>3. resolved' \in Seq(Version) /\ Len(resolved') = Len(resolved) + 1 /\ Len(resolved) \in Nat
      BY <3>1, <3>2
    <3>4. Len(resolved') <= Len(txn)
      <4>1. txn \in Seq([table : Table, need : Version])
        BY <1>8, LookupType, TxnsAssumption DEF Resolve, LookupInv
      <4>2. Len(txn) \in Nat /\ Len(resolved) < Len(txn)
        BY <1>8, <4>1 DEF Resolve
      <4> QED BY <3>3, <4>2
    <3> QED BY <1>1, <1>8, <2>2, <3>3, <3>4 DEF Resolve, LookupInv, TypeOK, ReadsInv
  <2>3. CASE ~Cached(Lookup.table)
    <3>1. /\ reads' = [reads EXCEPT !["filter"] = Ask(Lookup.table)]
          /\ UNCHANGED <<resolved, txn, stage>>
          /\ stage = "resolving" /\ Len(resolved) < Len(txn)
      BY <1>8, <2>3 DEF Resolve
    <3>2. /\ reads' \in [Caller -> ReadRecord] /\ reads'["filter"] = Ask(Lookup.table)
          /\ reads'["boot"] = reads["boot"]
      BY <2>1, <3>1, ReadRecords DEF LookupInv, TypeOK, ReadRecord, Caller
    <3>3. ReadsInv'
      BY <2>1, <3>1, <3>2, ReadRecords DEF LookupInv, ReadsInv, Lookup
    <3>4. TypeOK'
      BY <1>1, <1>8, <3>1, <3>2 DEF Resolve, LookupInv, TypeOK, ReadRecord
    <3> QED BY <3>3, <3>4 DEF LookupInv
  <2> QED BY <2>2, <2>3
<1>9. CASE FilterAnswer
  <2>1. /\ reads' \in [Caller -> ReadRecord] /\ ~reads'["filter"].asked
        /\ reads'["boot"] = reads["boot"]
    BY <1>9, ReadRecords DEF FilterAnswer, LookupInv, TypeOK, ReadRecord, Caller
  <2>2. ReadsInv'
    BY <2>1 DEF LookupInv, ReadsInv
  <2>3. stage' \in {"idle", "resolving", "resolved"} /\ UNCHANGED <<chain, seqs, subscribedAt, txn, process>>
    BY <1>9 DEF FilterAnswer, LookupInv, TypeOK
  <2>4. resolved' \in Seq(Version) /\ Len(resolved') <= Len(txn)
    <3>1. CASE reads["filter"].version = Missing
      BY <1>9, <3>1 DEF FilterAnswer, LookupInv, TypeOK
    <3>2. CASE reads["filter"].version # Missing
      <4>1. /\ reads["filter"].version \in Version
            /\ resolved' = Append(resolved, reads["filter"].version)
            /\ resolved \in Seq(Version) /\ Len(resolved) < Len(txn)
        BY <1>9, <3>2, AnswerType DEF FilterAnswer, LookupInv, TypeOK, ReadsInv, Answered, Caller
      <4>2. txn \in Seq([table : Table, need : Version])
        BY <4>1, LookupType, TxnsAssumption DEF LookupInv
      <4>3. Len(txn) \in Nat
        BY <4>2
      <4> QED BY <4>1, <4>3
    <3> QED BY <3>1, <3>2
  <2>5. TypeOK'
    BY <1>1, <2>1, <2>3, <2>4 DEF LookupInv, TypeOK, ReadRecord
  <2> QED BY <2>2, <2>5 DEF LookupInv
<1>10. CASE AllResolved
  <2>1. ~reads["filter"].asked
    BY <1>10 DEF AllResolved
  <2> QED BY <1>1, <1>10, <2>1 DEF AllResolved, LookupInv, TypeOK, ReadsInv
<1>11. CASE GetAccountKeys
  <2>1. ~reads["filter"].asked
    BY <1>11 DEF GetAccountKeys, LookupInv, ReadsInv
  <2>2. resolved' \in Seq(Version) /\ Len(resolved') <= Len(txn')
    BY <1>11 DEF GetAccountKeys
  <2>3. process' \in {"running", "deadOfRpc", "deadOfFilter"}
    BY <1>11 DEF GetAccountKeys
  <2> QED BY <1>1, <1>11, <2>1, <2>2, <2>3 DEF GetAccountKeys, LookupInv, TypeOK, ReadsInv
<1>12. ASSUME NEW c \in Caller, ReadFails(c) PROVE LookupInv'
  BY <1>2, <1>12 DEF ReadFails
<1>13. CASE UNCHANGED vars
  BY <1>13 DEF vars, cache, filter, LookupInv, TypeOK, ReadsInv, Lookup
<1> QED BY <1>3, <1>4, <1>5, <1>6, <1>7, <1>8, <1>9, <1>10, <1>11, <1>12, <1>13 DEF Next, Dead

\* The cache, its index, the reads and the filter keep their types.
THEOREM TypeCorrect == Spec => []TypeOK
<1>1. LookupInv => TypeOK
  BY DEF LookupInv
<1> QED BY <1>1, InitInv, NextInv, PTL DEF Spec

\* An update of the cache keeps the index complete.
LEMMA IndexStep ==
  ASSUME LookupInv, IndexCoversCache, [Next]_vars PROVE IndexCoversCache'
<1>1. CASE CacheStep
  BY <1>1, CacheIndexed DEF CacheStep, LookupInv
<1>2. CASE UNCHANGED cache
  BY <1>2 DEF cache, IndexCoversCache, Cached
<1> QED BY <1>1, <1>2, CacheSteps

\* computeIdealLookupTablesForAddresses finds every cached table that holds an
\* address and no table that is not cached, whatever overwrote what: for any
\* tables, contents, answers and updates.
THEOREM IndexIsComplete == Spec => []IndexCoversCache
<1>1. LookupInv /\ IndexCoversCache /\ [Next]_vars => IndexCoversCache'
  BY IndexStep
<1> QED BY <1>1, InitInv, NextInv, PTL DEF Spec

\* Updates alone never take the cache of a table back: only an answer to a read
\* does, or an update that such an answer had overtaken.
THEOREM OnlyReadsGoBack == Spec => GoesBackOnlyByReads
<1>1. LookupInv /\ [Next]_vars =>
        [\A t \in Table : lookupTables'[t] < lookupTables[t] =>
           \/ lookupTables[t] > seqs[t]
           \/ \E c \in Caller : Answered(c) /\ reads[c].table = t /\ ~reads'[c].asked]_vars
  <2> SUFFICES ASSUME LookupInv, Next, NEW t \in Table, lookupTables'[t] < lookupTables[t]
               PROVE  \/ lookupTables[t] > seqs[t]
                      \/ \E c \in Caller : Answered(c) /\ reads[c].table = t /\ ~reads'[c].asked
    BY DEF Next
  <2>1. lookupTables[t] \in Int /\ seqs[t] \in Int
    BY VersionIsNat DEF LookupInv, TypeOK, Missing
  <2>2. CacheStep
    BY <2>1, CacheSteps DEF cache
  <2>3. PICK u \in Table, v \in Version :
          /\ UpdateCache(u, v)
          /\ \/ Update(u, v)
             \/ \E c \in Caller : Answered(c) /\ reads[c].table = u /\ ~reads'[c].asked
    BY <2>2 DEF CacheStep
  <2>4. u = t /\ lookupTables'[t] = v
    BY <2>1, <2>3 DEF UpdateCache, LookupInv, TypeOK
  <2>5. CASE Update(t, v)
    BY <2>1, <2>4, <2>5, VersionIsNat DEF Update, NewerUpdate
  <2> QED BY <2>3, <2>4, <2>5
<1> QED BY <1>1, InitInv, NextInv, PTL DEF Spec, GoesBackOnlyByReads

-----------------------------------------------------------------------------
(***************************************************************************)
(* The choice of tables                                                    *)
(***************************************************************************)

\* The addresses kept for a table are those of the version that is kept.
CacheAgrees == \A t \in Table : Cached(t) => addressesForLookupTable[t] = Contents[t][lookupTables[t]]

LEMMA AgreesStep ==
  ASSUME LookupInv, CacheAgrees, [Next]_vars PROVE CacheAgrees'
<1>1. CASE CacheStep
  <2>1. PICK t \in Table, v \in Version : UpdateCache(t, v)
    BY <1>1 DEF CacheStep
  <2>2. /\ lookupTables'[t] = v /\ addressesForLookupTable'[t] = Contents[t][v]
        /\ \A u \in Table : u # t => /\ lookupTables'[u] = lookupTables[u]
                                     /\ addressesForLookupTable'[u] = addressesForLookupTable[u]
    BY <2>1 DEF UpdateCache, LookupInv, TypeOK
  <2> QED BY <2>2 DEF CacheAgrees, Cached
<1>2. CASE UNCHANGED cache
  BY <1>2 DEF cache, CacheAgrees, Cached
<1> QED BY <1>1, <1>2, CacheSteps

ChoiceInv == LookupInv /\ IndexCoversCache /\ CacheAgrees

\* What a table adds to those before.
New(addresses, t, before) == (addresses \cap Covered({t})) \ Covered(before)

LEMMA CoveredFacts ==
  /\ \A t : Covered({t}) = Contents[t][lookupTables[t]]
  /\ \A ts, t : Covered(ts \cup {t}) = Covered(ts) \cup Covered({t})
  /\ Covered({}) = {}
BY DEF Covered

LEMMA Fewer ==
  ASSUME NEW S, S \subseteq Address, NEW R, R \subseteq S
  PROVE  /\ Cardinality(S) \in Nat /\ Cardinality(R) \in Nat
         /\ Cardinality(R) <= Cardinality(S)
<1>1. IsFiniteSet(S)
  BY FS_Subset, FinitenessAssumption
<1>2. IsFiniteSet(R) /\ Cardinality(R) <= Cardinality(S)
  BY <1>1, FS_Subset
<1> QED BY <1>1, <1>2, FS_CardinalityType

LEMMA StillTooFew ==
  ASSUME NEW S, S \subseteq Address, NEW R, R \subseteq S,
         Cardinality(S) < MIN_ADDRESSES_TO_INCLUDE_TABLE
  PROVE  Cardinality(R) < MIN_ADDRESSES_TO_INCLUDE_TABLE
<1>1. PICK m : m = Cardinality(S)
  OBVIOUS
<1>2. PICK n : n = Cardinality(R)
  OBVIOUS
<1>3. m \in Nat /\ n \in Nat /\ n <= m /\ m < MIN_ADDRESSES_TO_INCLUDE_TABLE
  BY <1>1, <1>2, Fewer
<1>4. n < MIN_ADDRESSES_TO_INCLUDE_TABLE
  BY <1>3, LimitsAssumption
<1> QED BY <1>2, <1>4

TablesOf(addresses) == UNION {lookupTablesForAddress[a] : a \in addresses}

\* Every table of the index is tried, once, and is cached.
LEMMA OrderFacts ==
  ASSUME ChoiceInv, NEW addresses \in SUBSET Address, NEW order \in Sorted(addresses)
  PROVE  /\ Len(order) \in Nat
         /\ \A k \in 1 .. Len(order) : order[k] \in Table /\ Cached(order[k])
         /\ \A t \in TablesOf(addresses) : \E k \in 1 .. Len(order) : order[k] = t
<1> DEFINE S == TablesOf(addresses)
           n == Cardinality(S)
<1>1. S \subseteq Table /\ \A t \in S : Cached(t)
  BY DEF TablesOf, ChoiceInv, LookupInv, TypeOK, IndexCoversCache, Cached
<1>2. IsFiniteSet(S)
  BY <1>1, FS_Subset, FinitenessAssumption
<1>3. n \in Nat
  BY <1>2, FS_CardinalityType
<1>4. order \in [1 .. n -> S] /\ \A i, j \in 1 .. n : i # j => order[i] # order[j]
  BY DEF Sorted, SetToSeqs, TablesOf
<1>5. Cardinality(1 .. n) = n
  <2>1. n \in Int /\ 1 \in Int /\ (IF 1 > n THEN 0 ELSE n - 1 + 1) = n
    BY <1>3
  <2> HIDE DEF n
  <2> QED BY <2>1, FS_Interval
<1>6. order \in Injection(1 .. n, S)
  BY <1>4 DEF Injection, IsInjective
<1>7. order \in Surjection(1 .. n, S)
  <2>1. Cardinality(1 .. n) = Cardinality(S)
    BY <1>5
  <2> HIDE DEF S, n
  <2> QED BY <1>2, <1>6, <2>1, FS_Injection
<1>8. \A t \in S : \E k \in 1 .. n : order[k] = t
  BY <1>7 DEF Surjection
<1> HIDE DEF n
<1>9. Len(order) = n
  BY <1>3, <1>4
<1> HIDE DEF S
<1> QED BY <1>1, <1>3, <1>4, <1>8, <1>9 DEF S

GreedyInv(addresses, order, s, k) ==
  /\ s = [selected |-> s.selected, remaining |-> s.remaining]
  /\ s.selected \in Seq(Table)
  /\ Len(s.selected) <= MAX_TABLE_COUNT
  /\ s.remaining = Remaining(addresses) \ Covered(Range(s.selected))
  /\ \A i \in 1 .. Len(s.selected) :
       Cardinality(New(addresses, s.selected[i], {s.selected[j] : j \in 1 .. i - 1})) >= MIN_ADDRESSES_TO_INCLUDE_TABLE
  /\ \A j \in 1 .. k :
       \/ order[j] \in Range(s.selected)
       \/ Len(s.selected) = MAX_TABLE_COUNT
       \/ Cardinality(New(addresses, order[j], Range(s.selected))) < MIN_ADDRESSES_TO_INCLUDE_TABLE

\* What a table still matches is what it adds, for the index misses nothing.
LEMMA MatchesAreNew ==
  ASSUME ChoiceInv, NEW addresses \in SUBSET Address, NEW t \in Table, Cached(t),
         NEW s, NEW ts, s.remaining = Remaining(addresses) \ Covered(ts)
  PROVE  /\ AddressMatches(s, t) = New(addresses, t, ts)
         /\ New(addresses, t, ts) \subseteq {a \in addresses : t \in lookupTablesForAddress[a]}
         /\ New(addresses, t, ts) \subseteq s.remaining
<1>1. addressesForLookupTable[t] = Contents[t][lookupTables[t]]
  BY DEF ChoiceInv, CacheAgrees
<1>2. \A a \in Contents[t][lookupTables[t]] : t \in lookupTablesForAddress[a]
  BY DEF ChoiceInv, IndexCoversCache
<1>3. Covered({t}) = Contents[t][lookupTables[t]]
  BY CoveredFacts
<1>4. \A a \in addresses \cap Covered({t}) : a \in Remaining(addresses) /\ t \in lookupTablesForAddress[a]
  BY <1>2, <1>3 DEF Remaining
<1>5. Remaining(addresses) \subseteq addresses
  BY DEF Remaining
<1>6. AddressMatches(s, t) = s.remaining \cap Covered({t})
  BY <1>1, <1>3 DEF AddressMatches
<1> QED BY <1>4, <1>5, <1>6 DEF New

LEMMA AppendFacts ==
  ASSUME NEW s \in Seq(Table), NEW t \in Table
  PROVE  /\ Append(s, t) \in Seq(Table)
         /\ Len(Append(s, t)) = Len(s) + 1 /\ Len(s) \in Nat
         /\ Append(s, t)[Len(s) + 1] = t
         /\ \A i \in 1 .. Len(s) : Append(s, t)[i] = s[i]
         /\ Range(Append(s, t)) = Range(s) \cup {t}
<1>1. PICK n \in Nat : n = Len(s) /\ DOMAIN s = 1 .. n
  OBVIOUS
<1>2. /\ Append(s, t) \in Seq(Table) /\ Len(Append(s, t)) = n + 1
      /\ Append(s, t)[n + 1] = t
      /\ \A i \in 1 .. n : Append(s, t)[i] = s[i]
      /\ DOMAIN Append(s, t) = 1 .. n + 1
  BY <1>1
<1> DEFINE r == Append(s, t)
<1>3. Range(r) = {r[i] : i \in 1 .. n + 1} /\ Range(s) = {s[i] : i \in 1 .. n}
  BY <1>1, <1>2 DEF Range
<1> HIDE DEF r
<1>4. {r[i] : i \in 1 .. n + 1} = {r[i] : i \in 1 .. n} \cup {r[n + 1]}
  OBVIOUS
<1>5. {r[i] : i \in 1 .. n} = {s[i] : i \in 1 .. n}
  BY <1>2 DEF r
<1> QED BY <1>1, <1>2, <1>3, <1>4, <1>5 DEF r

LEMMA SelectKeeps ==
  ASSUME ChoiceInv, NEW addresses \in SUBSET Address, NEW order \in Sorted(addresses),
         NEW k \in 1 .. Len(order), NEW s, GreedyInv(addresses, order, s, k - 1)
  PROVE  GreedyInv(addresses, order, Select(addresses, s, order[k]), k)
<1> DEFINE t == order[k]
           sel == s.selected
           new(ts) == New(addresses, t, ts)
<1>1. t \in Table /\ Cached(t) /\ k \in Nat /\ Len(order) \in Nat
  BY OrderFacts
<1>2. /\ s = [selected |-> sel, remaining |-> s.remaining]
      /\ sel \in Seq(Table) /\ Len(sel) <= MAX_TABLE_COUNT
      /\ s.remaining = Remaining(addresses) \ Covered(Range(sel))
  BY DEF GreedyInv
<1>3. /\ AddressMatches(s, t) = new(Range(sel))
      /\ new(Range(sel)) \subseteq {a \in addresses : t \in lookupTablesForAddress[a]}
      /\ new(Range(sel)) \subseteq s.remaining
  BY <1>1, <1>2, MatchesAreNew
<1>4. \A i \in 1 .. Len(sel) :
        Cardinality(New(addresses, sel[i], {sel[j] : j \in 1 .. i - 1})) >= MIN_ADDRESSES_TO_INCLUDE_TABLE
  BY DEF GreedyInv
<1>5. \A j \in 1 .. k - 1 :
        \/ order[j] \in Range(sel)
        \/ Len(sel) = MAX_TABLE_COUNT
        \/ Cardinality(New(addresses, order[j], Range(sel))) < MIN_ADDRESSES_TO_INCLUDE_TABLE
  BY DEF GreedyInv
<1> DEFINE Chosen == /\ IntersectionSize(addresses, t) >= MIN_ADDRESSES_TO_INCLUDE_TABLE
                     /\ Len(sel) < MAX_TABLE_COUNT
                     /\ Cardinality(s.remaining) > 1
                     /\ Cardinality(AddressMatches(s, t)) >= MIN_ADDRESSES_TO_INCLUDE_TABLE
<1>6. Len(sel) \in Nat
  BY <1>2
<1>7. CASE Chosen
  <2> DEFINE more == Append(sel, t)
             left == s.remaining \ AddressMatches(s, t)
  <2>1. Select(addresses, s, t) = [selected |-> more, remaining |-> left]
    BY <1>7 DEF Select
  <2>2. /\ more \in Seq(Table) /\ Len(more) = Len(sel) + 1
        /\ more[Len(sel) + 1] = t
        /\ \A i \in 1 .. Len(sel) : more[i] = sel[i]
        /\ Range(more) = Range(sel) \cup {t}
    BY <1>1, <1>2, AppendFacts
  <2>3. Len(more) <= MAX_TABLE_COUNT
    BY <1>6, <1>7, <2>2, LimitsAssumption
  <2>4. left = Remaining(addresses) \ Covered(Range(more))
    <3>1. Covered(Range(more)) = Covered(Range(sel)) \cup Covered({t})
      BY <2>2, CoveredFacts
    <3>2. AddressMatches(s, t) = s.remaining \cap Covered({t})
      <4>1. Remaining(addresses) \subseteq addresses
        BY DEF Remaining
      <4> QED BY <1>2, <1>3, <4>1 DEF New
    <3> QED BY <1>2, <3>1, <3>2
  <2>5. Range(sel) = {sel[j] : j \in 1 .. Len(sel)}
    BY <1>2 DEF Range
  <2> HIDE DEF more, left
  <2>6. ASSUME NEW i \in 1 .. Len(more)
        PROVE  Cardinality(New(addresses, more[i], {more[j] : j \in 1 .. i - 1})) >= MIN_ADDRESSES_TO_INCLUDE_TABLE
    <3>1. i \in 1 .. Len(sel) + 1
      BY <2>2
    <3>2. {more[j] : j \in 1 .. i - 1} = {sel[j] : j \in 1 .. i - 1}
      <4>1. \A j \in 1 .. i - 1 : more[j] = sel[j]
        BY <1>6, <2>2, <3>1
      <4> QED BY <4>1
    <3>3. CASE i = Len(sel) + 1
      <4>1. i - 1 = Len(sel) /\ more[i] = t
        BY <1>6, <2>2, <3>3
      <4>2. {more[j] : j \in 1 .. i - 1} = Range(sel)
        BY <2>5, <3>2, <4>1
      <4> QED BY <1>3, <1>7, <4>1, <4>2
    <3>4. CASE i # Len(sel) + 1
      <4>1. i \in 1 .. Len(sel) /\ more[i] = sel[i]
        BY <1>6, <2>2, <3>1, <3>4
      <4> QED BY <1>4, <3>2, <4>1
    <3> QED BY <3>3, <3>4
  <2>7. ASSUME NEW j \in 1 .. k
        PROVE  \/ order[j] \in Range(more)
               \/ Len(more) = MAX_TABLE_COUNT
               \/ Cardinality(New(addresses, order[j], Range(more))) < MIN_ADDRESSES_TO_INCLUDE_TABLE
    <3>1. CASE j = k
      BY <2>2, <3>1
    <3>2. CASE j # k
      <4>1. j \in 1 .. k - 1
        BY <1>1, <3>2
      <4>2. CASE order[j] \in Range(sel)
        BY <2>2, <4>2
      <4>3. CASE Cardinality(New(addresses, order[j], Range(sel))) < MIN_ADDRESSES_TO_INCLUDE_TABLE
        <5>1. Covered(Range(more)) = Covered(Range(sel)) \cup Covered({t})
          BY <2>2, CoveredFacts
        <5>2. /\ New(addresses, order[j], Range(more)) \subseteq New(addresses, order[j], Range(sel))
              /\ New(addresses, order[j], Range(sel)) \subseteq Address
          BY <5>1 DEF New
        <5>3. Cardinality(New(addresses, order[j], Range(more))) < MIN_ADDRESSES_TO_INCLUDE_TABLE
          <6> DEFINE S == New(addresses, order[j], Range(sel))
                     R == New(addresses, order[j], Range(more))
          <6>1. S \subseteq Address /\ R \subseteq S /\ Cardinality(S) < MIN_ADDRESSES_TO_INCLUDE_TABLE
            BY <4>3, <5>2
          <6> HIDE DEF S, R
          <6>2. Cardinality(R) < MIN_ADDRESSES_TO_INCLUDE_TABLE
            BY <6>1, StillTooFew
          <6> QED BY <6>2 DEF R
        <5> QED BY <5>3
      <4>4. Len(sel) # MAX_TABLE_COUNT
        BY <1>6, <1>7, LimitsAssumption
      <4> QED BY <1>5, <4>1, <4>2, <4>3, <4>4
    <3> QED BY <3>1, <3>2
  <2> DEFINE next == Select(addresses, s, t)
  <2>8. /\ next = [selected |-> more, remaining |-> left]
        /\ next.selected = more /\ next.remaining = left
    BY <2>1
  <2> HIDE DEF next
  <2>9. /\ next = [selected |-> next.selected, remaining |-> next.remaining]
        /\ next.selected \in Seq(Table)
        /\ Len(next.selected) <= MAX_TABLE_COUNT
        /\ next.remaining = Remaining(addresses) \ Covered(Range(next.selected))
    BY <2>2, <2>3, <2>4, <2>8
  <2>10. GreedyInv(addresses, order, next, k)
    BY <2>6, <2>7, <2>8, <2>9 DEF GreedyInv
  <2> QED BY <2>10 DEF next
<1>8. CASE ~Chosen
  <2>1. Select(addresses, s, t) = s
    BY <1>8 DEF Select
  <2>2. \/ Len(sel) = MAX_TABLE_COUNT
        \/ Cardinality(new(Range(sel))) < MIN_ADDRESSES_TO_INCLUDE_TABLE
    <3> DEFINE said == {a \in addresses : t \in lookupTablesForAddress[a]}
    <3>1. said \subseteq Address /\ s.remaining \subseteq Address
      BY <1>2 DEF Remaining
    <3>2. /\ Cardinality(said) \in Nat /\ Cardinality(s.remaining) \in Nat
          /\ Cardinality(new(Range(sel))) \in Nat
          /\ Cardinality(new(Range(sel))) <= Cardinality(said)
          /\ Cardinality(new(Range(sel))) <= Cardinality(s.remaining)
      BY <1>3, <3>1, Fewer
    <3>3. IntersectionSize(addresses, t) = Cardinality(said)
      BY DEF IntersectionSize
    <3> HIDE DEF said, new
    <3> QED BY <1>2, <1>3, <1>6, <1>8, <3>2, <3>3, LimitsAssumption
  <2>3. ASSUME NEW j \in 1 .. k
        PROVE  \/ order[j] \in Range(sel)
               \/ Len(sel) = MAX_TABLE_COUNT
               \/ Cardinality(New(addresses, order[j], Range(sel))) < MIN_ADDRESSES_TO_INCLUDE_TABLE
    <3>1. j = k \/ j \in 1 .. k - 1
      BY <1>1
    <3> QED BY <1>5, <2>2, <3>1
  <2> QED BY <1>2, <1>4, <2>1, <2>3 DEF GreedyInv
<1> QED BY <1>7, <1>8

-----------------------------------------------------------------------------
(***************************************************************************)
(* The loop over the tables                                                *)
(***************************************************************************)
LEMMA LeastNumber ==
  ASSUME NEW S, S \subseteq Nat, S # {}
  PROVE  \E m \in S : \A t \in S : m <= t
<1>1. PICK m \in S : \A t \in S : ~(<<t, m>> \in OpToRel(<, Nat))
  BY NatLessThanWellFounded, WFMin
<1>2. \A t \in S : t \in Nat /\ m \in Nat
  OBVIOUS
<1>3. \A t \in S : ~(t < m)
  BY <1>1, <1>2 DEF OpToRel
<1> QED BY <1>2, <1>3

Start(addresses) == [selected |-> <<>>, remaining |-> Remaining(addresses)]

\* f is the recursive function of ComputeIdealLookupTables, up to table m.
IsLoop(f, addresses, order, m) ==
  f = [k \in 0 .. m |-> IF k = 0 THEN Start(addresses) ELSE Select(addresses, f[k - 1], order[k])]

\* That function exists: the least m up to which it does not would have a
\* predecessor up to which it does.
LEMMA LoopExists ==
  ASSUME NEW addresses, NEW order, NEW n \in Nat
  PROVE  \E f : IsLoop(f, addresses, order, n)
<1> DEFINE Bad == {m \in Nat : ~\E f : IsLoop(f, addresses, order, m)}
<1>1. SUFFICES ASSUME Bad # {} PROVE FALSE
  OBVIOUS
<1>2. PICK m \in Bad : \A t \in Bad : m <= t
  BY <1>1, LeastNumber
<1>3. m \in Nat /\ ~\E f : IsLoop(f, addresses, order, m)
  OBVIOUS
<1>4. m # 0
  <2> DEFINE g == [k \in 0 .. 0 |-> Start(addresses)]
  <2>1. g = [k \in 0 .. 0 |-> IF k = 0 THEN Start(addresses) ELSE Select(addresses, g[k - 1], order[k])]
    OBVIOUS
  <2> HIDE DEF g
  <2> QED BY <2>1, <1>3 DEF IsLoop
<1>5. m - 1 \in Nat /\ ~(m <= m - 1)
  BY <1>3, <1>4
<1>6. PICK f : IsLoop(f, addresses, order, m - 1)
  BY <1>2, <1>5
<1> DEFINE g == [k \in 0 .. m |-> IF k = m THEN Select(addresses, f[m - 1], order[m]) ELSE f[k]]
<1>7. \A k \in 0 .. (m - 1) : f[k] = IF k = 0 THEN Start(addresses) ELSE Select(addresses, f[k - 1], order[k])
  <2>1. f = [k \in 0 .. (m - 1) |-> IF k = 0 THEN Start(addresses) ELSE Select(addresses, f[k - 1], order[k])]
    BY <1>6 DEF IsLoop
  <2> HIDE DEF Bad, g
  <2> QED BY <2>1
<1>8. \A k \in 0 .. m : g[k] = IF k = 0 THEN Start(addresses) ELSE Select(addresses, g[k - 1], order[k])
  <2> TAKE k \in 0 .. m
  <2>1. CASE k = m
    <3>1. g[k] = Select(addresses, f[m - 1], order[m]) /\ g[m - 1] = f[m - 1]
      BY <2>1, <1>3, <1>5
    <3> QED BY <3>1, <2>1, <1>4
  <2>2. CASE k # m
    <3>1. k \in 0 .. (m - 1) /\ g[k] = f[k]
      BY <2>2, <1>3
    <3>2. k # 0 => k - 1 \in 0 .. m /\ k - 1 # m
      BY <1>3
    <3>3. k # 0 => g[k - 1] = f[k - 1]
      BY <3>2
    <3> HIDE DEF g
    <3> QED BY <3>1, <3>3, <1>7
  <2> QED BY <2>1, <2>2
<1>9. g = [k \in 0 .. m |-> IF k = 0 THEN Start(addresses) ELSE Select(addresses, g[k - 1], order[k])]
  <2>1. g = [k \in 0 .. m |-> g[k]]
    OBVIOUS
  <2> HIDE DEF g
  <2> QED BY <2>1, <1>8
<1> HIDE DEF g
<1> QED BY <1>9, <1>3 DEF IsLoop

LEMMA LoopSteps ==
  ASSUME NEW addresses, NEW order, NEW n \in Nat, n = Len(order)
  PROVE  \E f : /\ f[0] = Start(addresses)
                /\ \A k \in 1 .. n : f[k] = Select(addresses, f[k - 1], order[k])
                /\ f[n].selected = ComputeIdealLookupTables(addresses, order)
<1> DEFINE f == CHOOSE f : IsLoop(f, addresses, order, n)
<1>1. IsLoop(f, addresses, order, n)
  BY LoopExists
<1>2. f[n].selected = ComputeIdealLookupTables(addresses, order)
  BY DEF ComputeIdealLookupTables, IsLoop, Start
<1>3. f = [k \in 0 .. n |-> IF k = 0 THEN Start(addresses) ELSE Select(addresses, f[k - 1], order[k])]
  BY <1>1 DEF IsLoop
<1> HIDE DEF f
<1>4. \A k \in 0 .. n : f[k] = IF k = 0 THEN Start(addresses) ELSE Select(addresses, f[k - 1], order[k])
  BY <1>3
<1>5. f[0] = Start(addresses)
  BY <1>4
<1>6. \A k \in 1 .. n : f[k] = Select(addresses, f[k - 1], order[k])
  BY <1>4
<1> QED BY <1>2, <1>5, <1>6

LEMMA StartsGreedy ==
  ASSUME NEW addresses \in SUBSET Address, NEW order
  PROVE  GreedyInv(addresses, order, Start(addresses), 0)
<1> DEFINE s == Start(addresses)
<1>1. /\ s = [selected |-> s.selected, remaining |-> s.remaining]
      /\ s.selected = <<>> /\ s.remaining = Remaining(addresses)
  BY DEF Start
<1> HIDE DEF s
<1>2. s.selected \in Seq(Table) /\ Len(s.selected) = 0
  BY <1>1
<1>3. Range(s.selected) = {}
  BY <1>1 DEF Range
<1>4. s.remaining = Remaining(addresses) \ Covered(Range(s.selected))
  BY <1>1, <1>3, CoveredFacts
<1>5. 0 <= MAX_TABLE_COUNT
  BY LimitsAssumption
<1>6. GreedyInv(addresses, order, s, 0)
  BY <1>1, <1>2, <1>4, <1>5 DEF GreedyInv
<1> QED BY <1>6 DEF s

\* After all tables were tried, none that would help was left out: the least
\* number of tables after which GreedyInv fails would have a predecessor.
LEMMA LoopIsGreedy ==
  ASSUME ChoiceInv, NEW addresses \in SUBSET Address, NEW order \in Sorted(addresses)
  PROVE  \E s : /\ s.selected = ComputeIdealLookupTables(addresses, order)
                /\ GreedyInv(addresses, order, s, Len(order))
<1>1. PICK n \in Nat : n = Len(order)
  BY OrderFacts
<1>2. PICK f : /\ f[0] = Start(addresses)
               /\ \A k \in 1 .. n : f[k] = Select(addresses, f[k - 1], order[k])
               /\ f[n].selected = ComputeIdealLookupTables(addresses, order)
  BY <1>1, LoopSteps
<1> DEFINE Bad == {k \in 0 .. n : ~GreedyInv(addresses, order, f[k], k)}
<1>3. Bad = {}
  <2>1. SUFFICES ASSUME Bad # {} PROVE FALSE
    OBVIOUS
  <2>2. Bad \subseteq Nat
    OBVIOUS
  <2>3. PICK m \in Bad : \A t \in Bad : m <= t
    BY <2>1, <2>2, LeastNumber
  <2>4. m \in 0 .. n /\ ~GreedyInv(addresses, order, f[m], m)
    OBVIOUS
  <2>5. m # 0
    BY <1>2, <2>4, StartsGreedy
  <2>6. m \in 1 .. n /\ m - 1 \in 0 .. n /\ ~(m <= m - 1)
    BY <2>4, <2>5
  <2>7. GreedyInv(addresses, order, f[m - 1], m - 1)
    BY <2>3, <2>6
  <2>8. GreedyInv(addresses, order, Select(addresses, f[m - 1], order[m]), m)
    BY <1>1, <2>6, <2>7, SelectKeeps
  <2> QED BY <1>2, <2>4, <2>6, <2>8
<1>4. GreedyInv(addresses, order, f[n], n)
  BY <1>3
<1> QED BY <1>1, <1>2, <1>4

\* A table that the index does not name for the addresses adds none of them.
LEMMA UntriedAddsNothing ==
  ASSUME ChoiceInv, NEW addresses \in SUBSET Address, NEW t \in Table, Cached(t),
         t \notin TablesOf(addresses), NEW before
  PROVE  Cardinality(New(addresses, t, before)) < MIN_ADDRESSES_TO_INCLUDE_TABLE
<1>1. \A a \in Contents[t][lookupTables[t]] : t \in lookupTablesForAddress[a]
  BY DEF ChoiceInv, IndexCoversCache
<1>2. \A a \in addresses : a \notin Contents[t][lookupTables[t]]
  BY <1>1 DEF TablesOf
<1>3. New(addresses, t, before) = {}
  BY <1>2, CoveredFacts DEF New
<1> QED BY <1>3, FS_EmptySet, LimitsAssumption

LEMMA ChoiceIsUseful ==
  ASSUME ChoiceInv PROVE SelectionIsUseful
<1>1. ASSUME NEW addresses \in SUBSET Address, NEW order \in Sorted(addresses),
             NEW selected, selected = ComputeIdealLookupTables(addresses, order)
      PROVE  /\ Len(selected) <= MAX_TABLE_COUNT
             /\ \A i \in DOMAIN selected :
                  Cardinality(New(addresses, selected[i], {selected[j] : j \in 1 .. i - 1}))
                    >= MIN_ADDRESSES_TO_INCLUDE_TABLE
             /\ Len(selected) < MAX_TABLE_COUNT =>
                  \A t \in Table : Cached(t) /\ t \notin Range(selected) =>
                    Cardinality(New(addresses, t, Range(selected))) < MIN_ADDRESSES_TO_INCLUDE_TABLE
  <2>1. PICK s : s.selected = selected /\ GreedyInv(addresses, order, s, Len(order))
    BY <1>1, LoopIsGreedy
  <2>2. /\ selected \in Seq(Table)
        /\ Len(selected) <= MAX_TABLE_COUNT
        /\ \A i \in 1 .. Len(selected) :
             Cardinality(New(addresses, selected[i], {selected[j] : j \in 1 .. i - 1}))
               >= MIN_ADDRESSES_TO_INCLUDE_TABLE
        /\ \A j \in 1 .. Len(order) :
             \/ order[j] \in Range(selected)
             \/ Len(selected) = MAX_TABLE_COUNT
             \/ Cardinality(New(addresses, order[j], Range(selected))) < MIN_ADDRESSES_TO_INCLUDE_TABLE
    BY <2>1 DEF GreedyInv
  <2>3. DOMAIN selected = 1 .. Len(selected) /\ Len(selected) \in Nat
    BY <2>2
  <2>4. ASSUME Len(selected) < MAX_TABLE_COUNT, NEW t \in Table, Cached(t), t \notin Range(selected)
        PROVE  Cardinality(New(addresses, t, Range(selected))) < MIN_ADDRESSES_TO_INCLUDE_TABLE
    <3>1. CASE t \in TablesOf(addresses)
      <4>1. PICK k \in 1 .. Len(order) : order[k] = t
        BY <3>1, OrderFacts
      <4>2. Len(selected) # MAX_TABLE_COUNT
        <5>1. \A n \in Nat : n < MAX_TABLE_COUNT => n # MAX_TABLE_COUNT
          BY LimitsAssumption
        <5>2. Len(selected) \in Nat /\ Len(selected) < MAX_TABLE_COUNT
          BY <2>3, <2>4
        <5> QED BY <5>1, <5>2, Zenon
      <4>3. \/ order[k] \in Range(selected)
            \/ Len(selected) = MAX_TABLE_COUNT
            \/ Cardinality(New(addresses, order[k], Range(selected))) < MIN_ADDRESSES_TO_INCLUDE_TABLE
        BY <2>2, <4>1
      <4>4. CASE Cardinality(New(addresses, order[k], Range(selected))) < MIN_ADDRESSES_TO_INCLUDE_TABLE
        BY <4>1, <4>4, Zenon
      <4> QED BY <2>4, <4>1, <4>2, <4>3, <4>4, Zenon
    <3>2. CASE t \notin TablesOf(addresses)
      BY <2>4, <3>2, UntriedAddsNothing
    <3> QED BY <3>1, <3>2
  <2>5. \A i \in DOMAIN selected :
          Cardinality(New(addresses, selected[i], {selected[j] : j \in 1 .. i - 1}))
            >= MIN_ADDRESSES_TO_INCLUDE_TABLE
    BY <2>2, <2>3
  <2>6. Len(selected) < MAX_TABLE_COUNT =>
          \A t \in Table : Cached(t) /\ t \notin Range(selected) =>
            Cardinality(New(addresses, t, Range(selected))) < MIN_ADDRESSES_TO_INCLUDE_TABLE
    BY <2>4
  <2> QED BY <2>2, <2>5, <2>6
<1> QED BY <1>1 DEF SelectionIsUseful, New

\* For any tables, contents, answers and updates, and in whatever order tables
\* with the same count are tried: each table that
\* computeIdealLookupTablesForAddresses chooses holds at least the minimum of the
\* addresses that those before it do not, and while there is room none that would
\* add so many is left out.
THEOREM SelectionHelps == Spec => []SelectionIsUseful
<1>1. Init => ChoiceInv
  <2>1. Init => CacheAgrees
    BY DEF Init, CacheAgrees, Cached
  <2> QED BY <2>1, InitInv DEF ChoiceInv
<1>2. ChoiceInv /\ [Next]_vars => ChoiceInv'
  <2> SUFFICES ASSUME ChoiceInv, [Next]_vars PROVE ChoiceInv'
    OBVIOUS
  <2>1. LookupInv'
    BY NextInv DEF ChoiceInv
  <2>2. IndexCoversCache'
    BY IndexStep DEF ChoiceInv
  <2>3. CacheAgrees'
    BY AgreesStep DEF ChoiceInv
  <2> QED BY <2>1, <2>2, <2>3 DEF ChoiceInv
<1>3. ChoiceInv => SelectionIsUseful
  BY ChoiceIsUseful
<1> QED BY <1>1, <1>2, <1>3, PTL DEF Spec
=============================================================================
