----------------------------- MODULE KeeperProofs -----------------------------
(***************************************************************************)
(* Theorems about the keeper for every deal, every set of accounts, any    *)
(* clocks, and whatever others do to the pool between its awaits.          *)
(***************************************************************************)
EXTENDS KeeperLoop, CoalitionProofs

(* What the keeper or anybody else does is a step of the escrow, or leaves *)
(* it alone.                                                               *)
LEMMA KeeperActsOnEscrow == [KeeperNext]_kvars => [Next]_vars
<1> SUFFICES ASSUME KeeperNext, ~ UNCHANGED vars PROVE Next
  BY DEF kvars
<1> Keeper \in Accounts /\ Rescuers \subseteq Accounts
  BY PartiesAssumption, KeeperAssumption
<1>1. CASE KeeperStep
  BY <1>1 DEF KeeperStep, ReadState, ReadClock, Decide, SendCommit, SendRefund, Reverts,
              Next, Calls
<1>2. CASE RpcFails
  BY <1>2 DEF RpcFails
<1>3. CASE Others
  BY <1>3 DEF Others, Bystanders, Next, Calls, Environment
<1> QED
  BY <1>1, <1>2, <1>3 DEF KeeperNext

(* So what is true of the escrow is true of the escrow with this keeper.   *)
THEOREM KeeperUsesEscrow == KeeperSpec => Spec
<1>1. KeeperInit => Init
  BY DEF KeeperInit
<1> QED
  BY <1>1, KeeperActsOnEscrow, PTL DEF KeeperSpec, Spec

(* All or nothing, whoever ends the pool: the keeper, the seller's tool, a *)
(* buyer on its own, or nobody because the keeper died (keeper.ts:38-67).  *)
THEOREM KeeperSettles == ASSUME PricedDeals PROVE KeeperSpec => ImplementsSettlement
  BY KeeperUsesEscrow, SettlementRefined, PTL
-----------------------------------------------------------------------------
LEMMA KeeperTypeStep == KeeperTypeOK /\ [KeeperNext]_kvars => KeeperTypeOK'
<1> SUFFICES ASSUME KeeperTypeOK, [KeeperNext]_kvars PROVE KeeperTypeOK'
  OBVIOUS
<1> USE DEF KeeperTypeOK
<1>1. TypeOK'
  BY KeeperActsOnEscrow, TypeStep
<1>2. CASE KeeperStep
  <2>1. CASE ReadState
    BY <1>1, <2>1 DEF ReadState, TypeOK
  <2>2. CASE ReadClock
    <3>1. seenNow' \in Int
      BY <2>2, KeeperAssumption DEF ReadClock, TypeOK
    <3> QED
      BY <1>1, <2>2, <3>1 DEF ReadClock
  <2>3. CASE Decide
    BY <1>1, <2>3 DEF Decide
  <2>4. CASE SendCommit \/ SendRefund \/ Reverts
    BY <1>1, <2>4 DEF SendCommit, SendRefund, Reverts, AfterTransaction
  <2> QED
    BY <1>2, <2>1, <2>2, <2>3, <2>4 DEF KeeperStep
<1>3. CASE RpcFails
  BY <1>1, <1>3 DEF RpcFails
<1>4. CASE UNCHANGED keeper
  BY <1>1, <1>4 DEF keeper
<1> QED
  BY <1>2, <1>3, <1>4 DEF KeeperNext, kvars

LEMMA KeeperTypeInit == KeeperInit => KeeperTypeOK
  BY TypeInit DEF KeeperInit, KeeperTypeOK

(* The keeper is always at one of its awaits or at one of its three ends,  *)
(* and the escrow keeps its types with it.                                 *)
THEOREM KeeperTypeCorrect == KeeperSpec => []KeeperTypeOK
  BY KeeperTypeInit, KeeperTypeStep, PTL DEF KeeperSpec
-----------------------------------------------------------------------------
(***************************************************************************)
(* What the keeper saw stays true in part: a pool only ever moves on, from *)
(* Forming to Funded to an end, and time only passes.                      *)
(***************************************************************************)
LEMMA PoolMovesOn ==
  ASSUME TypeOK, [Next]_vars
  PROVE  /\ state # "Forming" => state' # "Forming"
         /\ Done => state' = state
         /\ deal' = deal
         /\ now' \in Nat /\ now <= now'
<1>1. CASE \E s \in Accounts : Calls(s)
  BY <1>1 DEF Calls, Fund, FundOK, Commit, CommitOK, RefundAll, RefundOK, Open, Done, TypeOK
<1>2. CASE Tick
  BY <1>2 DEF Tick, escrow, TypeOK, Done
<1>3. CASE (\E s \in Accounts : TokenStep(s)) \/ Refusals \/ UNCHANGED vars
  BY <1>3 DEF TokenStep, Refusals, Approve, Transfer, Refuse, Readmit, vars, escrow,
              TypeOK, Done
<1> QED
  BY <1>1, <1>2, <1>3 DEF Next, Environment

(* What it saw and where that has brought it.                              *)
SightInv == /\ seenState = "Funded" => state # "Forming"
            /\ seenState \in {"Committed", "Refunded"} => Done
            /\ pc = "commit" => state # "Forming"

(* A token that serves everyone keeps serving.                             *)
Serving == refused = {}

(* Then a pool that is not done can be ended by the keeper.                *)
LEMMA KeeperCan ==
  ASSUME IInv, PricedDeals, Serving
  PROVE  /\ state = "Funded" => CommitOK(Keeper)
         /\ Open => RefundOK(Keeper)
<1>1. Seller \in Accounts /\ Keeper \in Accounts
  BY PartiesAssumption
<1>2. ASSUME state = "Funded" PROVE CommitOK(Keeper)
  BY <1>1, <1>2 DEF CommitOK, Moves, Serving, IInv, SolvencyInv, Open
<1>3. ASSUME Open PROVE RefundOK(Keeper)
  <2>1. totalFunded = Amount * Cardinality(Repaid)
    BY <1>3, RosterFacts DEF Open
  <2>2. balance[Escrow] >= totalFunded
    BY <1>3 DEF IInv, SolvencyInv
  <2> QED
    BY <1>3, <2>1, <2>2 DEF RefundOK, Moves, Serving
<1> QED
  BY <1>2, <1>3

KeeperInv == IInv /\ KeeperTypeOK /\ Serving /\ SightInv /\ NeverAbandons

LEMMA ServingStep ==
  ASSUME Refusable = {}, Serving, [Next]_vars
  PROVE  Serving'
<1>1. CASE \E s \in Accounts : Calls(s)
  BY <1>1 DEF Calls, Fund, Commit, RefundAll, Serving
<1>2. CASE Environment \/ UNCHANGED vars
  BY <1>2 DEF Environment, TokenStep, Approve, Transfer, Refusals, Tick, token, vars, Serving
<1> QED
  BY <1>1, <1>2 DEF Next

LEMMA KeeperInvStep ==
  ASSUME PricedDeals, Refusable = {}, KeeperInv, IInv', [KeeperNext]_kvars
  PROVE  KeeperInv'
<1>1. TypeOK /\ [Next]_vars /\ KeeperTypeOK'
  BY KeeperActsOnEscrow, KeeperTypeStep DEF KeeperInv, KeeperTypeOK
<1>2. Serving'
  BY <1>1, ServingStep DEF KeeperInv
<1>3. /\ state # "Forming" => state' # "Forming"
      /\ Done => state' = state /\ Done'
  BY <1>1, PoolMovesOn DEF Done
<1> USE DEF KeeperInv, SightInv, NeverAbandons, KeeperTypeOK
<1>4. SightInv' /\ NeverAbandons'
  <2>1. CASE ReadState
    BY <1>1, <2>1 DEF ReadState, vars, escrow, Done, TypeOK
  <2>2. CASE ReadClock
    BY <2>2 DEF ReadClock, vars, escrow, Done
  <2>3. CASE Decide
    BY <2>3 DEF Decide, vars, escrow, Done
  <2>4. CASE SendCommit
    BY <1>3, <2>4 DEF SendCommit, Commit, AfterTransaction, Done
  <2>5. CASE SendRefund
    BY <1>3, <2>5 DEF SendRefund, RefundAll, AfterTransaction, Done
  <2>6. CASE Reverts
    <3>1. ~ Open
      BY <2>6, KeeperCan DEF Reverts, Open
    <3>2. Done
      BY <1>1, <3>1 DEF Open, Done, TypeOK
    <3> QED
      BY <1>3, <2>6, <3>2 DEF Reverts
  <2>7. CASE RpcFails
    BY <1>3, <2>7 DEF RpcFails, vars, escrow
  <2>8. CASE UNCHANGED keeper
    BY <1>3, <2>8 DEF keeper
  <2> QED
    BY <2>1, <2>2, <2>3, <2>4, <2>5, <2>6, <2>7, <2>8 DEF KeeperNext, KeeperStep, kvars
<1> QED
  BY <1>1, <1>2, <1>4

(* With a token that serves everyone and a slice that is worth something,  *)
(* the keeper stops or dies of a revert only when the pool is over,        *)
(* whatever others did since its last look.                                *)
THEOREM NeverAbandonsHolds ==
  ASSUME PricedDeals, Refusable = {}
  PROVE  KeeperSpec => []NeverAbandons
<1>1. KeeperInit /\ IInv => KeeperInv
  BY KeeperTypeInit
     DEF KeeperInit, KeeperInv, Serving, SightInv, NeverAbandons, Init
<1>2. KeeperInv /\ IInv' /\ [KeeperNext]_kvars => KeeperInv'
  BY KeeperInvStep
<1>3. KeeperInv => NeverAbandons
  BY DEF KeeperInv
<1> QED
  BY <1>1, <1>2, <1>3, KeeperUsesEscrow, InductiveInvariant, PTL DEF KeeperSpec
-----------------------------------------------------------------------------
(* The keeper's clock is not ahead of the chain's, and what it read on it  *)
(* lies in the past; it refunds only what it saw expired.                  *)
ClockInv == /\ KeeperTypeOK
            /\ seenNow <= now
            /\ pc = "refund" => seenNow > deal.validUntil

(* Nobody else refunds before the deadline, so no pool that can still fill *)
(* is ever refunded, whatever the keeper saw and however long it waited.   *)
THEOREM NoEarlyRefundHolds ==
  ASSUME \A d \in Skews : d <= 0
  PROVE  KeeperSpec => NoEarlyRefund
<1>1. KeeperInit => ClockInv
  BY KeeperTypeInit DEF KeeperInit, Init, ClockInv
<1>2. ClockInv /\ [KeeperNext]_kvars => ClockInv'
  <2> SUFFICES ASSUME ClockInv, [KeeperNext]_kvars PROVE ClockInv'
    OBVIOUS
  <2>1. KeeperTypeOK' /\ now \in Nat /\ seenNow \in Int
    BY KeeperTypeStep DEF ClockInv, KeeperTypeOK, TypeOK
  <2>2. deal' = deal /\ now' \in Nat /\ now <= now'
    BY KeeperActsOnEscrow, PoolMovesOn DEF ClockInv, KeeperTypeOK
  <2>3. CASE ReadClock
    <3>1. PICK d \in Skews : seenNow' = now + d
      BY <2>3 DEF ReadClock
    <3>2. d \in Int /\ d <= 0
      BY KeeperAssumption
    <3> QED
      BY <2>1, <2>2, <2>3, <3>1, <3>2 DEF ReadClock, ClockInv
  <2>4. CASE Decide
    BY <2>1, <2>2, <2>4 DEF Decide, ClockInv
  <2>5. CASE ReadState \/ SendCommit \/ SendRefund \/ Reverts \/ RpcFails
    BY <2>1, <2>2, <2>5 DEF ReadState, SendCommit, SendRefund, Reverts, RpcFails,
                            AfterTransaction, ClockInv
  <2>6. CASE UNCHANGED keeper
    BY <2>1, <2>2, <2>6 DEF keeper, ClockInv
  <2> QED
    BY <2>3, <2>4, <2>5, <2>6 DEF KeeperNext, KeeperStep, kvars
<1>3. ClockInv /\ [KeeperNext]_kvars => [state # "Refunded" /\ state' = "Refunded" => Expired]_kvars
  <2> SUFFICES ASSUME ClockInv, KeeperNext, state # "Refunded", state' = "Refunded"
               PROVE  Expired
    OBVIOUS
  <2>1. /\ now \in Nat /\ seenNow \in Int /\ seenNow <= now
        /\ deal.validUntil \in Nat
    BY DealsAssumption DEF ClockInv, KeeperTypeOK, TypeOK, Deal
  <2>2. CASE KeeperStep
    BY <2>1, <2>2 DEF KeeperStep, ReadState, ReadClock, Decide, Reverts, SendCommit, Commit,
                      SendRefund, ClockInv, Expired, vars, escrow
  <2>3. CASE RpcFails
    BY <2>3 DEF RpcFails, vars, escrow
  <2>4. CASE \E s \in Accounts : Fund(s) \/ TokenStep(s)
    BY <2>4 DEF Fund, TokenStep, Approve, Transfer, escrow
  <2>5. CASE Bystanders
    BY <2>5 DEF Bystanders, Commit, Refusals, Refuse, Readmit, Tick, escrow
  <2> QED
    BY <2>2, <2>3, <2>4, <2>5 DEF KeeperNext, Others
<1> QED
  BY <1>1, <1>2, <1>3, PTL DEF KeeperSpec, NoEarlyRefund
=============================================================================
