----------------------------- MODULE LossyQueue -----------------------------
(***************************************************************************)
(* What dropBeyondHighWaterMark and prioritize promise (src/utils.ts): a   *)
(* buffer of at most highWaterMark items that takes an item whenever it is *)
(* not full, loses one only when it is full, and hands out the oldest, or  *)
(* one of the highest rank.                                                *)
(***************************************************************************)
EXTENDS Integers, Sequences, SequencesExt

CONSTANTS
  Rank,           (* Rank[x]: the priority of item x                   *)
  highWaterMark

VARIABLES
  prioritized,    (* prioritize, not dropBeyondHighWaterMark           *)
  arrived,        (* items so far; they are numbered                   *)
  content,
  handedOut,      (* in order                                          *)
  lost            (* items dropped                                     *)

\* Where the next item to hand out may be.
First(q) ==
  IF prioritized
  THEN {i \in DOMAIN q : \A j \in DOMAIN q : Rank[q[j]] <= Rank[q[i]]}
  ELSE DOMAIN q \cap {1}

Init ==
  /\ prioritized \in BOOLEAN
  /\ arrived = 0
  /\ content = <<>> /\ handedOut = <<>> /\ lost = {}

Accept ==
  /\ Len(content) < highWaterMark
  /\ arrived' = arrived + 1
  /\ content' = Append(content, arrived')
  /\ UNCHANGED <<prioritized, handedOut, lost>>

\* An item for which the consumer already waits.
PassOn ==
  /\ content = <<>>
  /\ arrived' = arrived + 1
  /\ handedOut' = Append(handedOut, arrived')
  /\ UNCHANGED <<prioritized, content, lost>>

Lose ==
  /\ Len(content) >= highWaterMark
  /\ arrived' = arrived + 1
  /\ lost' = lost \cup {arrived'}
  /\ UNCHANGED <<prioritized, content, handedOut>>

HandOut(i) ==
  /\ i \in First(content)
  /\ handedOut' = Append(handedOut, content[i])
  /\ content' = RemoveAt(content, i)
  /\ UNCHANGED <<prioritized, arrived, lost>>

Next == Accept \/ PassOn \/ Lose \/ \E i \in DOMAIN content : HandOut(i)

Spec == Init /\ [][Next]_<<prioritized, arrived, content, handedOut, lost>>
=============================================================================
