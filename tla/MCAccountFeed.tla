---------------------------- MODULE MCAccountFeed ----------------------------
(* Instances of AccountFeed for TLC: one pool over two accounts, one over one *)
(* of them.  The second account may be closed, and its pool rejects it then.  *)
EXTENDS AccountFeed, TLC

CONSTANTS w1, w2, a1, a2, p1, p2

TwoPools == <<p1, p2>>
TwoPoolsAccounts == p1 :> {a1, a2} @@ p2 :> {a1}
SomeRejected == {<<a1, 1>>, <<a2, 2>>}
SomeClosed == {<<a2, 2>>}
=============================================================================
