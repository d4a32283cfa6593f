---------------------------- MODULE MCCoalition ----------------------------
(***************************************************************************)
(* Instances of Coalition for TLC: two buyers, a keeper that may buy too,  *)
(* and a seller; deals that one, two or three buyers fill and one that     *)
(* nobody can fill.                                                        *)
(***************************************************************************)
EXTENDS Coalition

CONSTANTS b1, b2, s1, k1

MCAccounts == {b1, b2, s1, k1}

Terms(price, qty, required, until) ==
  [tierUnitPrice |-> price, unitQty |-> qty, requiredBuyers |-> required, validUntil |-> until]

MCDeals == {Terms(1, 2, 1, 0), Terms(1, 2, 2, 1), Terms(2, 1, 3, 1), Terms(1, 1, 0, 0)}
MCEndowment == [a \in MCAccounts |-> IF a = s1 THEN 0 ELSE 2]
=============================================================================
