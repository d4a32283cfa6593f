------------------------------ MODULE MCFunding ------------------------------
(***************************************************************************)
(* Instances of Funding for TLC: buyer 1 has an agent, and an operator who *)
(* runs the script with its key; buyer 2 has an agent, or drops out.       *)
(***************************************************************************)
EXTENDS Funding, MCKeeperLoop

CONSTANTS agent1, agent2, script1

MCClients == {agent1, agent2, script1}
(* A pool for one buyer, one for two, and one whose slice buyer 2 has not. *)
FundingDeals == {Terms(1, 1), Terms(2, 1), [Terms(2, 1) EXCEPT !.unitQty = 2]}

(* Buyer 1 could pay the smaller slice twice.                              *)
FundingEndowment == [a \in MCAccounts |-> CASE a = b1 -> 2 [] a = b2 -> 1 [] OTHER -> 0]

MCOwner == [c \in MCClients |-> IF c = agent2 THEN b2 ELSE b1]
=============================================================================
