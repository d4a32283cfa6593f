----------------------------- MODULE MCPayment -----------------------------
(***************************************************************************)
(* Instances of PaymentStatus for TLC, over the intents of MCSettlement.   *)
(***************************************************************************)
EXTENDS PaymentStatus, MCSettlement
=============================================================================
