---------------------------- MODULE MCSettlement ----------------------------
(***************************************************************************)
(* Instances of Settlement for TLC.  Prices are in cents; the card is the  *)
(* start of seller.ts's for h100-pcie-hour.                                *)
(***************************************************************************)
EXTENDS Settlement, TLC

FullMesh == [a \in Agents |-> Agents]

(* Agents that all reach one of them only, as KNOWN_PEERS allows.          *)
Spokes == [a \in Agents |-> IF a = 3 THEN Agents ELSE {a, 3}]

H100 == "h100-pcie-hour"
Shouted == "H100-PCIE-HOUR"
Spellings == {H100, Shouted}
LowerCase == [s \in Spellings |-> H100]

Card == H100 :> <<[minBuyers |-> 1, unitPrice |-> 199], [minBuyers |-> 3, unitPrice |-> 150]>>

(* Three tiers with thresholds that few agents reach.                      *)
Scaled == H100 :> <<[minBuyers |-> 1, unitPrice |-> 180], [minBuyers |-> 2, unitPrice |-> 155],
                    [minBuyers |-> 3, unitPrice |-> 130]>>

(* The price for two lies between maxima that buyers of one bucket have.   *)
Tight == H100 :> <<[minBuyers |-> 1, unitPrice |-> 195], [minBuyers |-> 2, unitPrice |-> 193],
                   [minBuyers |-> 3, unitPrice |-> 130]>>

Wish(sku, max, qty) == [sku |-> sku, max |-> max, qty |-> qty, deadline |-> DEADLINE_BUCKET_MS]

Alike == [a \in Agents |-> Wish(H100, 200, a)]

(* 1 has a maximum below the price, 2 a spelling the seller does not know, *)
(* 4 a maximum of the bucket below.                                        *)
Varied == [a \in Agents |-> CASE a = 1 -> Wish(H100, 190, a)
                              [] a = 2 -> Wish(Shouted, 195, a)
                              [] a = 3 -> Wish(H100, 195, a)
                              [] OTHER -> Wish(H100, 150, a)]

Wanted == Commitment(Wish(H100, 195, 1))
=============================================================================
