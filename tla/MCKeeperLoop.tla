---------------------------- MODULE MCKeeperLoop ----------------------------
(***************************************************************************)
(* Instances of KeeperLoop for TLC: two buyers, one of which may refund on *)
(* its own after expiry, a seller and the keeper, over a pool for one      *)
(* buyer, a pool for two and a pool nobody can fill.                       *)
(***************************************************************************)
EXTENDS KeeperLoop

CONSTANTS b1, b2, s1, k1

MCAccounts == {b1, b2, s1, k1}

Terms(required, until) ==
  [tierUnitPrice |-> 1, unitQty |-> 1, requiredBuyers |-> required, validUntil |-> until]

LateClocks == {-1, 0}

MCDeals == {Terms(1, 0), Terms(1, 2), Terms(2, 1), Terms(0, 1)}
PairDeals == {Terms(2, 1)}
MCEndowment == [a \in MCAccounts |-> IF a \in {b1, b2} THEN 1 ELSE 0]
=============================================================================
