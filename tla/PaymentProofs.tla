---------------------------- MODULE PaymentProofs ----------------------------
(***************************************************************************)
(* The page over a settlement: whatever it does is, to the agents and the  *)
(* chain, a step of the settlement or none, so all that is proved of a     *)
(* settlement holds with the page beside it, for any number of simulations *)
(* and requests.                                                           *)
(***************************************************************************)
EXTENDS PaymentStatus, RestProofs

LEMMA PaymentTypeInit == PaymentInit => PaymentTypeOK
<1> SUFFICES ASSUME PaymentInit PROVE PaymentTypeOK
  OBVIOUS
<1>1. {simulating, keeperRunning, paymentComplete, keeperFired, failed} \subseteq BOOLEAN
  BY Zenon DEF PaymentInit
<1>2. loops \in 0..MaxRuns
  BY PageAssumption DEF PaymentInit
<1> QED
  BY <1>1, <1>2 DEF PaymentInit, PaymentTypeOK

LEMMA AskShape ==
  ASSUME NEW by, NEW p, Ask(by, p)
  PROVE  \E i \in 1..MaxAsks : asks' = asks \cup {[n |-> i, by |-> by, pool |-> p]}
<1> DEFINE free == {i \in 1..MaxAsks : \A r \in asks : r.n # i}
<1>1. free # {} /\ free \in SUBSET Nat /\ free \subseteq 1..MaxAsks
  BY DEF Ask
<1>2. Smallest(free) \in free
  BY <1>1, SmallestNumber
<1> QED
  BY <1>1, <1>2 DEF Ask

(* What buyer 1 shows as settled is deployed.                              *)
LEMMA ShownDeployed == ASSUME SettlementTypeOK, Shown # NoPool PROVE Shown \in DOMAIN pools
  BY PageAssumption DEF SettlementTypeOK, Shown

(* Pools are never taken off the chain.                                    *)
LEMMA PoolsStay ==
  ASSUME SettlementTypeOK, PartInv, [SettlementNext]_svars
  PROVE  DOMAIN pools \subseteq DOMAIN pools'
<1>1. ASSUME NEW p \in DOMAIN pools, Moves(p) PROVE DOMAIN pools' = DOMAIN pools
  BY <1>1, MoveShape
<1>2. ASSUME NEW a \in Agents, task[a].at = "deploy", pools' = Append(pools, NewPool(a, task[a]))
      PROVE  DOMAIN pools \subseteq DOMAIN pools'
  BY <1>2, DeployShape, AppendShape
<1> QED
  BY <1>1, <1>2, PoolsMove

(* A step with the page is a step of the settlement, or changes none of it.*)
LEMMA PageActsOnSettlement ==
  ASSUME SettlementTypeOK, PaymentTypeOK, [PaymentNext]_pvars
  PROVE  [SettlementNext]_svars
<1>1. CASE Poll \/ StartSimulation \/ SimulationAsks \/ SimulationGivesUp \/ Reset
  BY <1>1 DEF Poll, StartSimulation, SimulationAsks, SimulationGivesUp, Reset
<1>2. ASSUME NEW p \in polls, Watch(p) PROVE UNCHANGED svars
  BY <1>2 DEF Watch
<1>3. ASSUME NEW r \in asks, FetchThrows(r) PROVE UNCHANGED svars
  BY <1>3 DEF FetchThrows
<1>4. ASSUME NEW r \in asks, RouteAnswers(r) PROVE [SettlementNext]_svars
  <2>1. r.pool \in DOMAIN pools
    BY DEF PaymentTypeOK
  <2>2. UNCHANGED <<vars, first, mail, task, address, fundedByMe>>
    BY <1>4 DEF RouteAnswers, Answered
  <2>3. CASE pools' = pools
    BY <2>2, <2>3 DEF svars, settling
  <2>4. CASE pools[r.pool].outcome = "open" /\ Full(r.pool) /\ pools' = Settled(r.pool)
    <3>1. PoolStep(r.pool)
      BY <2>2, <2>4 DEF PoolStep, KeeperCommits
    <3> QED
      BY <2>1, <3>1 DEF SettlementNext
  <2> QED
    BY <1>4, <2>3, <2>4 DEF RouteAnswers
<1>5. CASE UNCHANGED pvars
  BY <1>5 DEF pvars
<1> QED
  BY <1>1, <1>2, <1>3, <1>4, <1>5 DEF PaymentNext, PageStep

LEMMA PaymentTypeStep ==
  ASSUME SettlementTypeOK, PartInv, PaymentTypeOK, [PaymentNext]_pvars
  PROVE  PaymentTypeOK'
<1>t. DOMAIN pools \subseteq DOMAIN pools' /\ MaxRuns \in Nat /\ MaxAsks \in Nat
  BY PageActsOnSettlement, PoolsStay, PageAssumption
<1>1. CASE UNCHANGED page
  BY <1>t, <1>1 DEF PaymentTypeOK, page
<1>2. CASE Poll
  BY <1>t, <1>2, ShownDeployed DEF PaymentTypeOK, Poll
<1>3. ASSUME NEW p \in polls, Watch(p) PROVE PaymentTypeOK'
  <2>1. p \in DOMAIN pools
    BY DEF PaymentTypeOK
  <2>2. asks' = asks \/ \E i \in 1..MaxAsks : asks' = asks \cup {[n |-> i, by |-> "watcher", pool |-> p]}
    BY <1>3, AskShape DEF Watch
  <2>3. asks' \subseteq [n : 1..MaxAsks, by : {"watcher", "simulation"}, pool : DOMAIN pools']
    BY <1>t, <2>1, <2>2 DEF PaymentTypeOK
  <2> QED
    BY <1>t, <1>3, <2>3 DEF PaymentTypeOK, Watch
<1>4. CASE SimulationAsks
  <2>1. Shown \in DOMAIN pools
    BY <1>4, ShownDeployed DEF SimulationAsks
  <2>2. \E i \in 1..MaxAsks : asks' = asks \cup {[n |-> i, by |-> "simulation", pool |-> Shown]}
    BY <1>4, AskShape DEF SimulationAsks
  <2>3. asks' \subseteq [n : 1..MaxAsks, by : {"watcher", "simulation"}, pool : DOMAIN pools']
    BY <1>t, <2>1, <2>2 DEF PaymentTypeOK
  <2> QED
    BY <1>t, <1>4, <2>3 DEF PaymentTypeOK, SimulationAsks
<1>5. CASE StartSimulation \/ SimulationGivesUp \/ Reset
  <2>1. {simulating', keeperRunning', paymentComplete', keeperFired', failed'} \subseteq BOOLEAN
    BY <1>5, Zenon DEF PaymentTypeOK, StartSimulation, SimulationGivesUp, Reset
  <2>2. loops' \in 0..MaxRuns
    BY <1>t, <1>5 DEF PaymentTypeOK, StartSimulation, SimulationGivesUp, Reset
  <2>3. UNCHANGED <<polls, asks, pools>>
    BY <1>5 DEF StartSimulation, SimulationGivesUp, Reset, svars, settling
  <2> QED
    BY <2>1, <2>2, <2>3 DEF PaymentTypeOK
<1>6. ASSUME NEW r \in asks, RouteAnswers(r) \/ FetchThrows(r) PROVE PaymentTypeOK'
  BY <1>t, <1>6 DEF PaymentTypeOK, RouteAnswers, Answered, FetchThrows
<1> QED
  BY <1>1, <1>2, <1>3, <1>4, <1>5, <1>6 DEF PaymentNext, PageStep, pvars
-----------------------------------------------------------------------------
(* Everything proved of a settlement carries over to one with the page.    *)
PageInv == SInv /\ IInv /\ MeetingInv /\ SettlingInv /\ PaymentTypeOK

THEOREM PaymentInductive == PaymentSpec => []PageInv
<1>1. PaymentInit => PageInv
  BY SInvInit, InvInit, MeetingInit, SettlingInit, PaymentTypeInit DEF PaymentInit, SettlementInit, PageInv
<1>2. PageInv /\ [PaymentNext]_pvars => PageInv'
  <2> SUFFICES ASSUME PageInv, [PaymentNext]_pvars PROVE PageInv'
    OBVIOUS
  <2>t. SettlementTypeOK /\ PartInv
    BY DEF PageInv, SInv, SettlingInv
  <2>1. [SettlementNext]_svars /\ [Next]_vars
    BY <2>t, PageActsOnSettlement, StepIsRendezvous DEF PageInv
  <2>2. IInv' /\ MeetingInv'
    BY <2>1, InvStep, MeetingStep DEF PageInv
  <2> QED
    BY <2>t, <2>1, <2>2, SInvStep, SettlingStep, PaymentTypeStep DEF PageInv
<1> QED
  BY <1>1, <1>2, PTL DEF PaymentSpec

(* The page never does to agents or chain what a settlement cannot do: its *)
(* route commits a full pool at the most.                                  *)
THEOREM PaymentUsesSettlement == PaymentSpec => SettlementSpec
<1>1. PaymentInit => SettlementInit
  BY DEF PaymentInit
<1>2. PageInv /\ [PaymentNext]_pvars => [SettlementNext]_svars
  BY PageActsOnSettlement DEF PageInv, SInv
<1> QED
  BY <1>1, <1>2, PaymentInductive, PTL DEF PaymentSpec, SettlementSpec

(* What the page has read and what it asks the keeper for is deployed.     *)
THEOREM PaymentTypeCorrect == PaymentSpec => []PaymentTypeOK
<1>1. PageInv => PaymentTypeOK
  BY DEF PageInv
<1> QED
  BY <1>1, PaymentInductive, PTL

(* K agents that can meet get their coalition with the page beside them,   *)
(* whatever it asks the keeper in between.                                 *)
THEOREM PaymentSettlesAtRest == PaymentSpec => []SettledAtRest
  BY PaymentUsesSettlement, SettledAtRestHolds, PTL

(* Nobody pays for two coalitions because the page asks twice.             *)
THEOREM PaymentPaysOnce == PaymentSpec => []PaysOnce
  BY PaymentUsesSettlement, PaysOnceHolds, PTL

(* Pools stay atomic when the route commits beside the keeper.             *)
THEOREM PaymentIsAtomic == PaymentSpec => PoolsAreAtomic
  BY PaymentUsesSettlement, PoolsAreAtomicHolds, PTL

(* No flag that quiets the watcher outlives its reason, for any number of  *)
(* simulations, requests and overlapping polls.                            *)
THEOREM QuietForAReasonHolds == PaymentSpec => []QuietForAReason
<1>1. PaymentInit => QuietForAReason
  BY DEF PaymentInit, QuietForAReason
<1>2. PaymentTypeOK /\ QuietForAReason /\ [PaymentNext]_pvars => QuietForAReason'
  <2> SUFFICES ASSUME PaymentTypeOK, QuietForAReason, [PaymentNext]_pvars PROVE QuietForAReason'
    OBVIOUS
  <2>1. CASE UNCHANGED page
    BY <2>1 DEF page, QuietForAReason
  <2>2. CASE Poll \/ StartSimulation \/ SimulationGivesUp \/ Reset
    BY <2>2 DEF Poll, StartSimulation, SimulationGivesUp, Reset, QuietForAReason
  <2>3. CASE SimulationAsks
    <3>1. asks' # {}
      BY <2>3, AskShape DEF SimulationAsks
    <3> QED
      BY <3>1 DEF QuietForAReason
  <2>4. ASSUME NEW p \in polls, Watch(p) PROVE QuietForAReason'
    <3>1. CASE paymentComplete \/ keeperRunning \/ keeperFired
      BY <2>4, <3>1 DEF Watch, QuietForAReason
    <3>2. CASE ~ (paymentComplete \/ keeperRunning \/ keeperFired)
      <4>1. asks' # {}
        BY <2>4, <3>2, AskShape DEF Watch
      <4> QED
        BY <4>1 DEF QuietForAReason
    <3> QED
      BY <3>1, <3>2
  <2>5. ASSUME NEW r \in asks, RouteAnswers(r) \/ FetchThrows(r) PROVE QuietForAReason'
    BY <2>5 DEF RouteAnswers, Answered, FetchThrows, QuietForAReason
  <2> QED
    BY <2>1, <2>2, <2>3, <2>4, <2>5 DEF PaymentNext, PageStep, pvars
<1> QED
  BY <1>1, <1>2, PaymentTypeCorrect, PTL DEF PaymentSpec
=============================================================================
