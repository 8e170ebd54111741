---------------------------- MODULE LookupTables ----------------------------
(***************************************************************************)
(* The cache of address lookup tables, src/lookup-table-provider.ts, fed   *)
(* by geyser (GeyserProgramUpdateClient of src/clients/geyser.ts) and by   *)
(* reads over RPC, and its reader in the main pipeline, the filter of      *)
(* src/pre-simulation-filter.ts, which resolves the tables of one          *)
(* transaction after the other.                                            *)
(*                                                                         *)
(* A table is only ever extended: its content is its version, 0 while it   *)
(* does not exist.                                                         *)
(***************************************************************************)
EXTENDS Integers, Sequences, SequencesExt

CONSTANTS
  Table,
  CustomTable,   (* the table read when the module is loaded             *)
  Contents,      (* Contents[t][v]: the addresses of version v of t      *)
  Txns,          (* each a sequence of [table, need]: the lookups and    *)
                 (* the version that holds the addresses they refer to   *)
  MaxVersion,    (* bound on the extensions of a table                   *)
  MIN_ADDRESSES_TO_INCLUDE_TABLE,
  MAX_TABLE_COUNT

Version == 1 .. MaxVersion
Missing == 0     \* not on the chain, or not in the cache
Unread == -1     \* the answer is not known yet

Address == UNION {Contents[t][v] : t \in Table, v \in Version}

ASSUME TablesAssumption == CustomTable \in Table /\ MaxVersion \in Nat
ASSUME ContentsAssumption ==
  \A t \in Table : \A v, w \in Version : v <= w => Contents[t][v] \subseteq Contents[t][w]
ASSUME FinitenessAssumption == IsFiniteSet(Table) /\ IsFiniteSet(Address)
ASSUME LimitsAssumption == MIN_ADDRESSES_TO_INCLUDE_TABLE \in Nat \ {0, 1} /\ MAX_TABLE_COUNT \in Nat
ASSUME TxnsAssumption == Txns \subseteq Seq([table : Table, need : Version])

VARIABLES
  chain,                    (* the version of each table on the chain         *)
  seqs,                     (* GeyserProgramUpdateClient.seqs                 *)
  subscribedAt,             (* chain when the subscription began              *)
  lookupTables,
  addressesForLookupTable,
  lookupTablesForAddress,
  reads,                    (* getAddressLookupTable calls of the two callers *)
  txn,                      (* lookups of the transaction in the filter       *)
  resolved,                 (* versions it got for them so far                *)
  stage,                    (* of the filter                                  *)
  process

cache == <<lookupTables, addressesForLookupTable, lookupTablesForAddress>>
filter == <<txn, resolved, stage>>
vars == <<chain, seqs, subscribedAt, cache, reads, filter, process>>

Caller == {"boot", "filter"}
NoRead == [table |-> CustomTable, asked |-> FALSE, version |-> Unread]
Ask(t) == [table |-> t, asked |-> TRUE, version |-> Unread]

TypeOK ==
  /\ chain \in [Table -> 0 .. MaxVersion]
  /\ seqs \in [Table -> 0 .. MaxVersion]
  /\ subscribedAt \in [Table -> 0 .. MaxVersion]
  /\ lookupTables \in [Table -> {Missing} \cup Version]
  /\ addressesForLookupTable \in [Table -> SUBSET Address]
  /\ lookupTablesForAddress \in [Address -> SUBSET Table]
  /\ reads \in [Caller -> [table : Table, asked : BOOLEAN, version : {Unread, Missing} \cup Version]]
  /\ txn \in Txns \cup {<<>>}
  /\ resolved \in Seq(Version)
  /\ Len(resolved) <= Len(txn)
  /\ stage \in {"idle", "resolving", "resolved"}
  /\ process \in {"running", "deadOfRpc", "deadOfFilter"}

Init ==
  /\ chain \in [Table -> {0, 1} \cap 0 .. MaxVersion]
  /\ seqs = [t \in Table |-> 0]
  /\ subscribedAt = chain
  /\ lookupTables = [t \in Table |-> Missing]
  /\ addressesForLookupTable = [t \in Table |-> {}]
  /\ lookupTablesForAddress = [a \in Address |-> {}]
  /\ reads = [c \in Caller |-> IF c = "boot" THEN Ask(CustomTable) ELSE NoRead]
  /\ txn = <<>>
  /\ resolved = <<>>
  /\ stage = "idle"
  /\ process = "running"

\* A table is created or extended.
Extend(t) ==
  /\ process = "running"
  /\ chain[t] < MaxVersion
  /\ chain' = [chain EXCEPT ![t] = @ + 1]
  /\ UNCHANGED <<seqs, subscribedAt, cache, reads, filter, process>>

(***************************************************************************)
(* The cache                                                               *)
(***************************************************************************)

\* What updateCache adds to the index.  (Mutant: the address is known, so it
\* is left alone.)
IndexedIfNew(a, t) == IF lookupTablesForAddress[a] = {} THEN {t} ELSE lookupTablesForAddress[a]
Indexed(a, t) == lookupTablesForAddress[a] \cup {t}

UpdateCache(t, v) ==
  /\ lookupTables' = [lookupTables EXCEPT ![t] = v]
  /\ addressesForLookupTable' = [addressesForLookupTable EXCEPT ![t] = Contents[t][v]]
  /\ lookupTablesForAddress' =
       [a \in Address |-> IF a \in Contents[t][v] THEN Indexed(a, t) ELSE lookupTablesForAddress[a]]

\* processUpdate drops what is not newer than the last update of the table.
\* (Mutant: it does not.)
EveryUpdate(t, v) == TRUE
NewerUpdate(t, v) == v > seqs[t]

\* The stream delivers the changes since the subscription, in any order and
\* possibly again.
Update(t, v) ==
  /\ process = "running"
  /\ v \in subscribedAt[t] + 1 .. chain[t]
  /\ NewerUpdate(t, v)
  /\ seqs' = [seqs EXCEPT ![t] = v]
  /\ UpdateCache(t, v)
  /\ UNCHANGED <<chain, subscribedAt, reads, filter, process>>

\* getAddressLookupTable is answered with the table as it is at that moment ...
Read(c) ==
  /\ process = "running"
  /\ reads[c].asked /\ reads[c].version = Unread
  /\ reads' = [reads EXCEPT ![c].version = chain[reads[c].table]]
  /\ UNCHANGED <<chain, seqs, subscribedAt, cache, filter, process>>

\* ... and the answer reaches getLookupTable later, or never: nobody catches
\* the error, and the process ends.
Answered(c) == reads[c].asked /\ reads[c].version # Unread

BootAnswer ==
  /\ process = "running"
  /\ Answered("boot")
  /\ IF reads["boot"].version = Missing THEN UNCHANGED cache
     ELSE UpdateCache(CustomTable, reads["boot"].version)
  /\ reads' = [reads EXCEPT !["boot"] = NoRead]
  /\ UNCHANGED <<chain, seqs, subscribedAt, filter, process>>

ReadFails(c) ==
  /\ process = "running"
  /\ reads[c].asked
  /\ process' = "deadOfRpc"
  /\ UNCHANGED <<chain, seqs, subscribedAt, cache, reads, filter>>

(***************************************************************************)
(* The filter                                                              *)
(***************************************************************************)

\* The next transaction; its addresses are on the chain.
TakeTxn(x) ==
  /\ process = "running"
  /\ stage = "idle"
  /\ \A i \in DOMAIN x : x[i].need <= chain[x[i].table]
  /\ txn' = x
  /\ resolved' = <<>>
  /\ stage' = "resolving"
  /\ UNCHANGED <<chain, seqs, subscribedAt, cache, reads, process>>

Lookup == txn[Len(resolved) + 1]

\* getLookupTable(Lookup) finds the table in the cache, or asks for it.
Cached(t) == lookupTables[t] # Missing

Resolve ==
  /\ process = "running"
  /\ stage = "resolving" /\ ~reads["filter"].asked
  /\ Len(resolved) < Len(txn)
  /\ IF Cached(Lookup.table)
     THEN resolved' = Append(resolved, lookupTables[Lookup.table]) /\ UNCHANGED reads
     ELSE reads' = [reads EXCEPT !["filter"] = Ask(Lookup.table)] /\ UNCHANGED resolved
  /\ UNCHANGED <<chain, seqs, subscribedAt, cache, txn, stage, process>>

\* The answer; null ends the loop over the lookups.
FilterAnswer ==
  /\ process = "running"
  /\ Answered("filter")
  /\ IF reads["filter"].version = Missing
     THEN stage' = "resolved" /\ UNCHANGED <<cache, resolved>>
     ELSE /\ UpdateCache(Lookup.table, reads["filter"].version)
          /\ resolved' = Append(resolved, reads["filter"].version)
          /\ UNCHANGED stage
  /\ reads' = [reads EXCEPT !["filter"] = NoRead]
  /\ UNCHANGED <<chain, seqs, subscribedAt, txn, process>>

AllResolved ==
  /\ process = "running"
  /\ stage = "resolving" /\ ~reads["filter"].asked
  /\ Len(resolved) = Len(txn)
  /\ stage' = "resolved"
  /\ UNCHANGED <<chain, seqs, subscribedAt, cache, reads, txn, resolved, process>>

\* getAccountKeys throws when a table or an address is missing.  The error is
\* caught, and then accountKeys, still null, is used.
KeysKnown == Len(resolved) = Len(txn) /\ \A i \in DOMAIN txn : txn[i].need <= resolved[i]

GetAccountKeys ==
  /\ process = "running"
  /\ stage = "resolved"
  /\ stage' = "idle"
  /\ txn' = <<>>
  /\ resolved' = <<>>
  /\ process' = IF KeysKnown THEN process ELSE "deadOfFilter"
  /\ UNCHANGED <<chain, seqs, subscribedAt, cache, reads>>

Dead == process # "running" /\ UNCHANGED vars

Next ==
  \/ \E t \in Table : Extend(t)
  \/ \E t \in Table, v \in Version : Update(t, v)
  \/ \E c \in Caller : Read(c) \/ ReadFails(c)
  \/ \E x \in Txns : TakeTxn(x)
  \/ BootAnswer \/ Resolve \/ FilterAnswer \/ AllResolved \/ GetAccountKeys
  \/ Dead

Spec == Init /\ [][Next]_vars

(***************************************************************************)
(* computeIdealLookupTablesForAddresses                                    *)
(***************************************************************************)
IntersectionSize(addresses, t) == Cardinality({a \in addresses : t \in lookupTablesForAddress[a]})

\* The tables of the addresses, sorted by how many they are said to hold.
Sorted(addresses) ==
  {order \in SetToSeqs(UNION {lookupTablesForAddress[a] : a \in addresses}) :
     \A i, j \in DOMAIN order : i < j =>
       IntersectionSize(addresses, order[i]) >= IntersectionSize(addresses, order[j])}

Remaining(addresses) == {a \in addresses : lookupTablesForAddress[a] # {}}

\* What a table still adds.  (Mutant: it adds what the index says.)
Said(s, t) == {a \in Address : t \in lookupTablesForAddress[a]}
AddressMatches(s, t) == s.remaining \cap addressesForLookupTable[t]

Select(addresses, s, t) ==
  IF /\ IntersectionSize(addresses, t) >= MIN_ADDRESSES_TO_INCLUDE_TABLE
     /\ Len(s.selected) < MAX_TABLE_COUNT
     /\ Cardinality(s.remaining) > 1
     /\ Cardinality(AddressMatches(s, t)) >= MIN_ADDRESSES_TO_INCLUDE_TABLE
  THEN [selected |-> Append(s.selected, t), remaining |-> s.remaining \ AddressMatches(s, t)]
  ELSE s

ComputeIdealLookupTables(addresses, order) ==
  LET after[k \in 0 .. Len(order)] ==
        IF k = 0 THEN [selected |-> <<>>, remaining |-> Remaining(addresses)]
        ELSE Select(addresses, after[k - 1], order[k])
  IN  after[Len(order)].selected
-----------------------------------------------------------------------------
(***************************************************************************)
(* Properties                                                              *)
(***************************************************************************)

\* The index never misses a table that holds an address, and names no table
\* that is not cached, whatever overwrites what: computeIdeal may look up every
\* table the index names (lines 127, 134).
IndexCoversCache ==
  /\ \A t \in Table : Cached(t) => \A a \in Contents[t][lookupTables[t]] : t \in lookupTablesForAddress[a]
  /\ \A a \in Address : \A t \in lookupTablesForAddress[a] : lookupTables[t] # Missing

\* What is cached of a table goes back only when a read is answered late (lines
\* 75-80), or when an update comes that a read had overtaken: the updates, by
\* themselves, never take it back, in whatever order they are delivered.
GoesBackOnlyByReads ==
  [][\A t \in Table : lookupTables'[t] < lookupTables[t] =>
       \/ lookupTables[t] > seqs[t]
       \/ \E c \in Caller : Answered(c) /\ reads[c].table = t /\ ~reads'[c].asked]_vars

Covered(ts) == UNION {Contents[t][lookupTables[t]] : t \in ts}

\* Whatever overwrote what, the tables chosen for a set of addresses are few, and
\* each holds, as it is cached, addresses that the ones before do not; and when
\* tables may still be added, none that would help was left out, although they
\* are tried once, in the order of a count that may be out of date (lines
\* 112-140).
SelectionIsUseful ==
  \A addresses \in SUBSET Address : \A order \in Sorted(addresses) :
    LET selected == ComputeIdealLookupTables(addresses, order)
        Adds(t, before) == Cardinality((addresses \cap Covered({t})) \ Covered(before))
    IN  /\ Len(selected) <= MAX_TABLE_COUNT
        /\ \A i \in DOMAIN selected :
             Adds(selected[i], {selected[j] : j \in 1 .. i - 1}) >= MIN_ADDRESSES_TO_INCLUDE_TABLE
        /\ Len(selected) < MAX_TABLE_COUNT =>
             \A t \in Table : Cached(t) /\ t \notin Range(selected) =>
               Adds(t, Range(selected)) < MIN_ADDRESSES_TO_INCLUDE_TABLE

\* What the filter makes of a transaction with an address that is not in the
\* table: a warning (line 52 of src/pre-simulation-filter.ts).
FilterSurvives == process # "deadOfFilter"
=============================================================================
