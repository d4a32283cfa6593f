-------------------------- MODULE SettlementProofs --------------------------
(***************************************************************************)
(* Theorems about Settlement, for every number of agents and every         *)
(* pattern of failures.  A settlement is a rendezvous with more going on,  *)
(* so what RendezvousProofs proves carries over.                           *)
(***************************************************************************)
EXTENDS Settlement, RendezvousProofs

LEMMA StepIsRendezvous == [SettlementNext]_svars => [Next]_vars
<1> SUFFICES ASSUME SettlementNext, ~ UNCHANGED vars PROVE Next
  BY DEF svars
<1>1. ASSUME NEW m \in net, Meet(m) PROVE Next
  BY <1>1 DEF Meet, Next
<1>2. ASSUME NEW m \in mail, Deliver(m) PROVE FALSE
  BY <1>2 DEF Deliver, SellerAnswers, OnNegotiateResponse, OnCoalitionReady
<1>3. ASSUME NEW a \in Agents, AgentStep(a) PROVE FALSE
  BY <1>3 DEF AgentStep, Deployed, DeployThrows, SendFund, FundReceipt, FundThrows, CallTool
<1>4. ASSUME NEW p \in DOMAIN pools, PoolStep(p) PROVE FALSE
  BY <1>4 DEF PoolStep, KeeperCommits, Cancels, Lapse
<1>5. ASSUME NEW a \in Restarting, Reboot(a) PROVE Next
  BY <1>5 DEF Reboot, Next
<1> QED
  BY <1>1, <1>2, <1>3, <1>4, <1>5 DEF SettlementNext, Matching, Next

(* Every settlement is a rendezvous: what an agent does with the chain and *)
(* the seller disturbs nothing of how agents meet (agent.ts:176-183).      *)
THEOREM SettlementKeepsRendezvous == SettlementSpec => Spec
<1>1. SettlementInit => Init
  BY DEF SettlementInit
<1> QED
  BY <1>1, StepIsRendezvous, PTL DEF SettlementSpec, Spec

(* So k-anonymity holds of agents that also settle.                        *)
THEOREM SettlementKAnonymity == SettlementSpec => []KAnonymity
  BY SettlementKeepsRendezvous, KAnonymityHolds, PTL
-----------------------------------------------------------------------------
(***************************************************************************)
(* The inductive invariant.                                                *)
(***************************************************************************)
FirstInv == \A a \in Agents : members[a] # {} => first[a] \in Agents

(* Before its receipt the fund() of an agent that does not forget is its   *)
(* first and only one.                                                     *)
PaysInv == \A a \in Agents \ (Failing \cup Restarting) :
  /\ task[a].at \in {"fund", "receipt"} => a \notin fundedByMe
  /\ \A p \in DOMAIN pools : a \in pools[p].payers =>
                               a \in fundedByMe \/ task[a].at = "receipt"
  /\ \A p, q \in DOMAIN pools : a \in pools[p].payers /\ a \in pools[q].payers => p = q

(* Whatever was announced for a coordinator is what it holds an address of.*)
DealInv ==
  /\ \A m \in mail : m.kind = "coalition_ready" =>
                       m.from = pools[m.pool].by /\ m.from # m.to
  /\ \A x \in Agents \ Restarting :
       /\ task[x].at = "deploy" => address[x] = NoPool /\ coordinator[x] = x
       /\ \A p \in DOMAIN pools : pools[p].by = x =>
            /\ coordinator[x] = x
            /\ pools[p].payers # {} => p = address[x]
            /\ \A m \in mail : m.kind = "coalition_ready" /\ m.pool = p => p = address[x]
            /\ \A b \in Agents : task[b].at = "fund" /\ task[b].pool = p => p = address[x]

SInv == SettlementTypeOK /\ FirstInv /\ PaysInv /\ DealInv

LEMMA SInvInit == SettlementInit => SInv
<1> SUFFICES ASSUME SettlementInit PROVE SInv
  OBVIOUS
<1>1. SettlementTypeOK
  BY DEF SettlementInit, SettlementTypeOK, Tasks, Idle, NoPool
<1>2. FirstInv
  BY DEF SettlementInit, Init, FirstInv
<1>3. PaysInv
  BY DEF SettlementInit, PaysInv, Idle
<1>4. DealInv
  BY DEF SettlementInit, DealInv, Idle
<1> QED
  BY <1>1, <1>2, <1>3, <1>4 DEF SInv

(* An agent with a chain transaction or a tool call on its hands.          *)
LEMMA TaskShape ==
  ASSUME SettlementTypeOK, NEW a \in Agents, task[a].at \in {"fund", "receipt", "tool"}
  PROVE  /\ task[a] \in [at : {"fund", "receipt", "tool"}, pool : Nat]
         /\ task[a].pool \in DOMAIN pools
  BY DEF SettlementTypeOK, Tasks

LEMMA DeployShape ==
  ASSUME SettlementTypeOK, NEW a \in Agents, task[a].at = "deploy"
  PROVE  /\ task[a].n \in Nat /\ task[a].qty \in Nat /\ task[a].price \in Nat
         /\ NewPool(a, task[a]) \in Pool
<1>1. task[a] \in Tasks
  BY DEF SettlementTypeOK
<1>2. task[a].n \in Nat /\ task[a].qty \in Nat /\ task[a].price \in Nat
  BY <1>1 DEF Tasks
<1> QED
  BY <1>2 DEF NewPool, Pool

LEMMA PoolShape ==
  ASSUME SettlementTypeOK
  PROVE  /\ Len(pools) \in Nat /\ DOMAIN pools = 1..Len(pools)
         /\ pools \in [1..Len(pools) -> Pool]
         /\ NoPool \notin DOMAIN pools
  BY DEF SettlementTypeOK, NoPool

(* The price is that of the last tier the count clears.                    *)
LEMMA LastCleared ==
  ASSUME NEW sku, NEW n \in Nat, Cleared(sku, n) # {}
  PROVE  \E i \in Cleared(sku, n) :
           /\ \A j \in Cleared(sku, n) : j <= i
           /\ PickTierPrice(sku, n) = TierCard[sku][i].unitPrice
           /\ sku \in DOMAIN TierCard /\ i \in DOMAIN TierCard[sku]
<1> DEFINE card == TierCard[sku]
           cleared == Cleared(sku, n)
           Less == {ss \in Nat \X Nat : ss[1] < ss[2]}
           after == {Len(card) - i : i \in cleared}
<1>c. sku \in DOMAIN TierCard /\ card \in Seq(Tier)
  BY CardAssumption DEF Cleared
<1>1. cleared \subseteq 1..Len(card) /\ Len(card) \in Nat
  BY <1>c DEF Cleared
<1>2. after \subseteq Nat /\ after # {}
  BY <1>1
<1>3. IsWellFoundedOn(Less, Nat)
  BY NatLessThanWellFounded DEF OpToRel
<1>4. PICK x \in after : \A y \in after : ~ (<<y, x>> \in Less)
  <2> HIDE DEF Less, after
  <2> QED
    BY <1>2, <1>3, WFMin
<1>5. PICK i \in cleared : x = Len(card) - i
  OBVIOUS
<1>6. ASSUME NEW j \in cleared PROVE j <= i
  <2>1. Len(card) - j \in after /\ Len(card) - j \in Nat /\ x \in Nat
    BY <1>2
  <2>2. ~ (Len(card) - j < x)
    BY <2>1, <1>4
  <2> QED
    BY <2>2, <1>1, <1>5
<1> DEFINE last == CHOOSE k \in cleared : \A j \in cleared : j <= k
<1>7. last \in cleared /\ \A j \in cleared : j <= last
  BY <1>6
<1>8. PickTierPrice(sku, n) = card[last].unitPrice
  BY DEF PickTierPrice
<1>9. last \in DOMAIN card
  BY <1>7 DEF Cleared
<1> HIDE DEF last
<1> QED
  BY <1>c, <1>7, <1>8, <1>9

LEMMA PickTierPriceNat ==
  ASSUME NEW sku, NEW n \in Nat PROVE PickTierPrice(sku, n) \in Nat
<1>1. CASE Cleared(sku, n) = {}
  BY <1>1 DEF PickTierPrice, Declined
<1>2. CASE Cleared(sku, n) # {}
  <2>1. PICK i \in Cleared(sku, n) :
          /\ PickTierPrice(sku, n) = TierCard[sku][i].unitPrice
          /\ sku \in DOMAIN TierCard /\ i \in DOMAIN TierCard[sku]
    BY <1>2, LastCleared
  <2>2. TierCard[sku][i] \in Tier
    BY <2>1, CardAssumption
  <2> QED
    BY <2>1, <2>2 DEF Tier
<1> QED
  BY <1>1, <1>2
-----------------------------------------------------------------------------
LEMMA MeetFrame ==
  ASSUME TypeOK, NEW m \in net, Receive(m)
  PROVE  /\ m.to \in Agents /\ m.from \in Agents
         /\ \A b \in Agents \ {m.to} : members'[b] = members[b] /\ coordinator'[b] = coordinator[b]
         /\ \A b \in Agents : Formed(b) => coordinator'[b] = coordinator[b]
         /\ committers' = committers
<1>1. m.to \in Agents /\ m.from \in Agents
  BY DEF TypeOK, Messages
<1>2. ASSUME NEW ms, Finalize(m.to, ms)
      PROVE  /\ \A b \in Agents \ {m.to} : members'[b] = members[b] /\ coordinator'[b] = coordinator[b]
             /\ \A b \in Agents : Formed(b) => coordinator'[b] = coordinator[b]
  BY <1>1, <1>2 DEF Finalize, TypeOK
<1>3. CASE OnCommit(m)
  BY <1>1, <1>2, <1>3 DEF OnCommit
<1>4. CASE OnRevealRequest(m)
  BY <1>1, <1>2, <1>4 DEF OnRevealRequest
<1>5. CASE OnRevealResponse(m)
  BY <1>1, <1>2, <1>5 DEF OnRevealResponse
<1> QED
  BY <1>1, <1>3, <1>4, <1>5 DEF Receive

(* The agent that elects itself has the members it elected from.           *)
LEMMA ElectedHasMembers ==
  ASSUME TypeOK, IInv', NEW m \in net, Receive(m),
         ~ Formed(m.to), coordinator'[m.to] = m.to
  PROVE  m.to \in Agents /\ members'[m.to] \in SUBSET Agents /\ members'[m.to] # {}
<1> DEFINE a == m.to
<1>1. a \in Agents
  BY MeetFrame
<1>2. Formed(a)'
  BY <1>1, AgentsAssumption DEF Formed
<1>3. PICK ms \in SUBSET members'[a] : ElectedFrom(a, ms)'
  BY <1>1, <1>2 DEF IInv, ElectionInv
<1>4. members'[a] \in SUBSET Agents
  BY <1>1 DEF IInv, TypeOK
<1> QED
  BY <1>1, <1>3, <1>4, CompleteMembers DEF ElectedFrom

LEMMA SInvMeet == ASSUME SInv, IInv, IInv', NEW m \in net, Meet(m) PROVE SInv'
<1> DEFINE a == m.to
<1>t. SettlementTypeOK /\ FirstInv /\ PaysInv /\ DealInv /\ TypeOK /\ TypeOK'
  BY DEF SInv, IInv
<1>m. /\ task[a] = Idle /\ Receive(m)
      /\ UNCHANGED <<task, address, fundedByMe, pools>>
  BY DEF Meet
<1>f. /\ a \in Agents /\ m.from \in Agents
      /\ \A b \in Agents \ {a} : members'[b] = members[b]
      /\ \A b \in Agents : Formed(b) => coordinator'[b] = coordinator[b]
  BY <1>t, <1>m, MeetFrame
<1>1. first' \in [Agents -> Agents \cup {NoAgent}] /\ FirstInv'
  <2>1. first' = IF members[a] = {} /\ members'[a] # {}
                 THEN [first EXCEPT ![a] = IF m.kind = "commit" THEN a ELSE m.from]
                 ELSE first
    BY DEF Meet
  <2>2. first \in [Agents -> Agents \cup {NoAgent}]
    BY <1>t DEF SettlementTypeOK
  <2> QED
    BY <1>t, <1>f, <2>1, <2>2 DEF FirstInv
<1> DEFINE elected == ~ Formed(a) /\ coordinator'[a] = a
           request == Request(a, Cardinality(members'[a]), first'[a])
           new == IF elected THEN {request} ELSE {}
<1>2. /\ mail' = mail \cup new
      /\ \A r \in new : r \in Mail /\ r.kind = "negotiate_request"
  <2>1. mail' = mail \cup new
    BY DEF Meet
  <2>2. ASSUME elected PROVE request \in Mail /\ request.kind = "negotiate_request"
    <3>1. members'[a] \in SUBSET Agents /\ members'[a] # {}
      BY <2>2, <1>t, <1>m, ElectedHasMembers
    <3>2. first'[a] \in Agents
      BY <3>1, <1>1, <1>f DEF FirstInv
    <3>3. Cardinality(members'[a]) \in Nat
      BY <3>1, SubsetCard
    <3>4. /\ Intent[first'[a]].sku \in Skus
          /\ Intent[first'[a]].max \in Nat /\ Intent[first'[a]].qty \in Nat
      BY <3>2, IntentAssumption DEF IntentType
    <3> HIDE <2>2
    <3> QED
      BY <1>f, <3>3, <3>4 DEF Request, Mail
  <2> QED
    BY <2>1, <2>2
<1> HIDE DEF new
<1>3. SettlementTypeOK'
  BY <1>t, <1>m, <1>1, <1>2 DEF SettlementTypeOK
<1>4. PaysInv'
  BY <1>t, <1>m DEF PaysInv
<1>5. \A x \in Agents : coordinator[x] = x => coordinator'[x] = x
  BY <1>f, AgentsAssumption DEF Formed
<1>6. DealInv'
  BY <1>t, <1>m, <1>2, <1>5 DEF DealInv
<1> QED
  BY <1>1, <1>3, <1>4, <1>6 DEF SInv

LEMMA SInvSellerAnswers ==
  ASSUME SInv, NEW m \in mail, SellerAnswers(m) PROVE SInv'
<1>t. SettlementTypeOK /\ FirstInv /\ PaysInv /\ DealInv
  BY DEF SInv
<1>u. UNCHANGED <<vars, first, task, address, fundedByMe, pools>>
  BY DEF SellerAnswers
<1>1. m.from \in Agents /\ m.n \in Nat /\ m.qty \in Nat
  BY <1>t DEF SettlementTypeOK, Mail, SellerAnswers
<1>2. PickTierPrice(m.sku, m.n) \in Nat
  BY <1>1, PickTierPriceNat
<1> DEFINE tier == PickTierPrice(m.sku, m.n)
           price == IF tier > m.max THEN Declined ELSE tier
           answer == Response(m.from, m.n, m.qty, price)
<1>3. price \in Nat
  BY <1>2 DEF Declined
<1>4. answer \in Mail /\ answer.kind = "negotiate_response"
  <2> HIDE DEF price
  <2> QED
    BY <1>1, <1>3 DEF Response, Mail
<1>5. mail' \subseteq mail \cup {answer}
  BY DEF SellerAnswers
<1> HIDE DEF answer
<1>6. SettlementTypeOK' /\ FirstInv'
  BY <1>t, <1>u, <1>4, <1>5 DEF SettlementTypeOK, FirstInv, vars, local
<1>7. PaysInv' /\ DealInv'
  BY <1>t, <1>u, <1>4, <1>5 DEF PaysInv, DealInv, vars, local
<1> QED
  BY <1>6, <1>7 DEF SInv

LEMMA SInvOnNegotiateResponse ==
  ASSUME SInv, NEW m \in mail, OnNegotiateResponse(m) PROVE SInv'
<1> DEFINE a == m.to
           deploy == [at |-> "deploy", n |-> m.n, qty |-> m.qty, price |-> m.price]
<1>t. SettlementTypeOK /\ FirstInv /\ PaysInv /\ DealInv
  BY DEF SInv
<1>u. /\ mail' = mail \ {m} /\ task[a] = Idle
      /\ UNCHANGED <<vars, first, address, fundedByMe, pools>>
  BY DEF OnNegotiateResponse
<1>1. a \in Agents /\ m.n \in Nat /\ m.qty \in Nat /\ m.price \in Nat
  BY <1>t DEF SettlementTypeOK, Mail, OnNegotiateResponse
<1>2. CASE Deploys(a, m)
  <2>1. task' = [task EXCEPT ![a] = deploy]
    BY <1>2 DEF OnNegotiateResponse
  <2>2. deploy \in Tasks /\ deploy.at = "deploy"
    BY <1>1 DEF Tasks
  <2> HIDE DEF deploy
  <2>3. SettlementTypeOK' /\ FirstInv'
    BY <1>t, <1>u, <2>1, <2>2 DEF SettlementTypeOK, FirstInv, vars, local
  <2>4. /\ task'[a].at = "deploy"
        /\ \A b \in Agents \ {a} : task'[b] = task[b]
    BY <1>t, <1>1, <2>1, <2>2 DEF SettlementTypeOK
  <2>5. PaysInv'
    BY <1>t, <1>u, <2>4, <1>1 DEF PaysInv, vars, local, Idle
  <2>6. DealInv'
    BY <1>t, <1>u, <2>4, <1>1, <1>2 DEF DealInv, Deploys, vars, local, Idle
  <2> QED
    BY <2>3, <2>5, <2>6 DEF SInv
<1>3. CASE ~ Deploys(a, m)
  <2>1. task' = task
    BY <1>3 DEF OnNegotiateResponse
  <2> QED
    BY <1>t, <1>u, <2>1 DEF SInv, SettlementTypeOK, FirstInv, PaysInv, DealInv, vars, local
<1> QED
  BY <1>2, <1>3

(* maybeFundCoalition() leaves an agent idle, or about to pay for the      *)
(* first time as far as it remembers.                                      *)
LEMMA FundsShape ==
  ASSUME NEW a, NEW p \in Nat
  PROVE  \/ Funds(a, p) = Idle
         \/ /\ Funds(a, p) \in [at : {"fund"}, pool : {p}]
            /\ a \notin fundedByMe
  BY DEF Funds

LEMMA SInvOnCoalitionReady ==
  ASSUME SInv, NEW m \in mail, OnCoalitionReady(m) PROVE SInv'
<1> DEFINE a == m.to
<1>t. SettlementTypeOK /\ FirstInv /\ PaysInv /\ DealInv
  BY DEF SInv
<1>u. /\ m.kind = "coalition_ready" /\ mail' = mail \ {m} /\ task[a] = Idle
      /\ UNCHANGED <<vars, first, fundedByMe, pools>>
  BY DEF OnCoalitionReady
<1>1. a \in Agents /\ m.pool \in DOMAIN pools /\ m.pool \in Nat
  BY <1>t, <1>u DEF SettlementTypeOK, Mail
<1>2. CASE Believes(m)
  <2>1. /\ address' = [address EXCEPT ![a] = m.pool]
        /\ task' = [task EXCEPT ![a] = Funds(a, m.pool)]
    BY <1>2 DEF OnCoalitionReady
  <2>2. Funds(a, m.pool) \in Tasks
    BY <1>1, FundsShape DEF Tasks, Idle
  <2>3. /\ address'[a] = m.pool /\ task'[a] = Funds(a, m.pool)
        /\ \A b \in Agents \ {a} : address'[b] = address[b] /\ task'[b] = task[b]
        /\ task' \in [Agents -> Tasks]
        /\ address' \in [Agents -> {NoPool} \cup DOMAIN pools']
    BY <1>t, <1>u, <1>1, <2>1, <2>2 DEF SettlementTypeOK
  <2>4. \/ task'[a] = Idle
        \/ task'[a].at = "fund" /\ task'[a].pool = m.pool /\ a \notin fundedByMe
    BY <1>1, <2>3, FundsShape
  <2>5. SettlementTypeOK' /\ FirstInv'
    BY <1>t, <1>u, <1>1, <2>3, <2>4 DEF SettlementTypeOK, FirstInv, vars, local, Idle
  <2>6. PaysInv'
    BY <1>t, <1>u, <1>1, <2>3, <2>4 DEF PaysInv, vars, local, Idle
  <2>7. \A x \in Agents \ Restarting : \A p \in DOMAIN pools :
          pools[p].by = x => address'[x] = address[x]
    BY <1>t, <1>u, <1>1, <1>2, <2>3, AgentsAssumption DEF DealInv, Believes, Formed
  <2>8. \A p \in DOMAIN pools : m.pool = p /\ pools[p].by \in Agents \ Restarting =>
                                   p = address[pools[p].by]
    BY <1>t, <1>u, <1>1 DEF DealInv
  <2>9. DealInv'
    <3>1. \A n \in mail' : n.kind = "coalition_ready" =>
                            n.from = pools'[n.pool].by /\ n.from # n.to
      BY <1>t, <1>u DEF DealInv
    <3>2. ASSUME NEW x \in Agents \ Restarting, task'[x].at = "deploy"
          PROVE  address'[x] = NoPool /\ coordinator'[x] = x
      <4>1. x # a
        BY <2>4, <3>2 DEF Idle
      <4> QED
        BY <1>t, <1>u, <2>3, <3>2, <4>1 DEF DealInv, vars, local
    <3>3. ASSUME NEW x \in Agents \ Restarting, NEW p \in DOMAIN pools', pools'[p].by = x
          PROVE  /\ coordinator'[x] = x
                 /\ pools'[p].payers # {} => p = address'[x]
                 /\ \A n \in mail' : n.kind = "coalition_ready" /\ n.pool = p => p = address'[x]
                 /\ \A b \in Agents : task'[b].at = "fund" /\ task'[b].pool = p => p = address'[x]
      <4>1. address'[x] = address[x]
        BY <1>u, <2>7, <3>3
      <4>2. ASSUME NEW b \in Agents, task'[b].at = "fund", task'[b].pool = p
            PROVE  p = address[x]
        <5>1. CASE b = a
          BY <5>1, <4>2, <2>4, <2>8, <1>u, <3>3 DEF Idle
        <5>2. CASE b # a
          BY <5>2, <4>2, <2>3, <1>t, <1>u, <3>3 DEF DealInv
        <5> QED
          BY <5>1, <5>2
      <4> QED
        BY <1>t, <1>u, <3>3, <4>1, <4>2 DEF DealInv, vars, local
    <3> QED
      BY <3>1, <3>2, <3>3 DEF DealInv
  <2> QED
    BY <2>5, <2>6, <2>9 DEF SInv
<1>3. CASE ~ Believes(m)
  <2>1. UNCHANGED <<address, task>>
    BY <1>3 DEF OnCoalitionReady
  <2> QED
    BY <1>t, <1>u, <2>1 DEF SInv, SettlementTypeOK, FirstInv, PaysInv, DealInv, vars, local
<1> QED
  BY <1>2, <1>3

(* A new pool at the end of the chain changes none of the others.          *)
LEMMA AppendShape ==
  ASSUME SettlementTypeOK, NEW pool \in Pool, pools' = Append(pools, pool)
  PROVE  /\ Len(pools) + 1 \in Nat
         /\ pools' \in Seq(Pool)
         /\ DOMAIN pools' = DOMAIN pools \cup {Len(pools) + 1}
         /\ Len(pools) + 1 \notin DOMAIN pools
         /\ \A p \in DOMAIN pools : pools'[p] = pools[p]
         /\ pools'[Len(pools) + 1] = pool
  BY DEF SettlementTypeOK

LEMMA SInvDeployed == ASSUME SInv, IInv, NEW a \in Agents, Deployed(a) PROVE SInv'
<1> DEFINE p == Len(pools) + 1
<1>t. SettlementTypeOK /\ FirstInv /\ PaysInv /\ DealInv
  BY DEF SInv
<1>u. /\ task[a].at = "deploy"
      /\ pools' = Append(pools, NewPool(a, task[a]))
      /\ address' = [address EXCEPT ![a] = p]
      /\ mail' = mail \cup {Ready(a, b, p) : b \in members[a] \ {a}}
      /\ task' = [task EXCEPT ![a] = Funds(a, p)]
      /\ UNCHANGED <<vars, first, fundedByMe>>
  BY DEF Deployed
<1>1. NewPool(a, task[a]) \in Pool
  BY <1>t, <1>u, DeployShape
<1>2. /\ p \in Nat /\ pools' \in Seq(Pool) /\ DOMAIN pools' = DOMAIN pools \cup {p}
      /\ p \notin DOMAIN pools
      /\ \A q \in DOMAIN pools : pools'[q] = pools[q]
      /\ pools'[p] = NewPool(a, task[a])
  BY <1>t, <1>u, <1>1, AppendShape
<1>3. pools'[p].by = a /\ pools'[p].payers = {}
  BY <1>2 DEF NewPool
<1> HIDE DEF p
<1>4. Funds(a, p) \in Tasks
  BY <1>2, FundsShape DEF Tasks, Idle
<1>5. /\ address'[a] = p /\ task'[a] = Funds(a, p)
      /\ \A b \in Agents \ {a} : address'[b] = address[b] /\ task'[b] = task[b]
      /\ task' \in [Agents -> Tasks]
      /\ address' \in [Agents -> {NoPool} \cup DOMAIN pools']
  BY <1>t, <1>u, <1>2, <1>4 DEF SettlementTypeOK
<1>6. \/ task'[a] = Idle
      \/ task'[a].at = "fund" /\ task'[a].pool = p /\ a \notin fundedByMe
  BY <1>2, <1>5, FundsShape
<1>7. ASSUME NEW m \in mail', m \notin mail
      PROVE  /\ m \in Mail /\ m.kind = "coalition_ready"
             /\ m.pool = p /\ m.from = a /\ m.to # a
  <2>1. PICK b \in members[a] \ {a} : m = Ready(a, b, p)
    BY <1>u, <1>7
  <2>2. b \in Agents
    BY DEF IInv, TypeOK
  <2> QED
    BY <2>1, <2>2, <1>2 DEF Ready, Mail
<1>8. SettlementTypeOK' /\ FirstInv'
  <2>1. mail' \subseteq Mail
    BY <1>t, <1>7 DEF SettlementTypeOK
  <2>2. \A m \in mail' : m.kind = "coalition_ready" => m.pool \in DOMAIN pools'
    BY <1>t, <1>2, <1>7 DEF SettlementTypeOK
  <2>3. \A b \in Agents : task'[b].at \notin {"idle", "deploy"} => task'[b].pool \in DOMAIN pools'
    BY <1>t, <1>2, <1>5, <1>6 DEF SettlementTypeOK, Idle
  <2> QED
    BY <1>t, <1>u, <1>2, <1>5, <2>1, <2>2, <2>3 DEF SettlementTypeOK, FirstInv, vars, local
<1>9. PaysInv'
  <2> SUFFICES ASSUME NEW b \in Agents \ (Failing \cup Restarting)
               PROVE  /\ task'[b].at \in {"fund", "receipt"} => b \notin fundedByMe'
                      /\ \A q \in DOMAIN pools' : b \in pools'[q].payers =>
                           q \in DOMAIN pools /\ (b \in fundedByMe' \/ task'[b].at = "receipt")
    BY <1>t, <1>2 DEF PaysInv
  <2>1. task'[b].at \in {"fund", "receipt"} => b \notin fundedByMe'
    BY <1>t, <1>u, <1>5, <1>6 DEF PaysInv, Idle
  <2>2. ASSUME NEW q \in DOMAIN pools', b \in pools'[q].payers
        PROVE  q \in DOMAIN pools /\ (b \in fundedByMe' \/ task'[b].at = "receipt")
    <3>1. q \in DOMAIN pools /\ b \in pools[q].payers
      BY <2>2, <1>2, <1>3
    <3>2. b \in fundedByMe \/ task[b].at = "receipt"
      BY <3>1, <1>t DEF PaysInv
    <3> QED
      BY <3>1, <3>2, <1>u, <1>5
  <2> QED
    BY <2>1, <2>2
<1>10. DealInv'
  <2>1. \A m \in mail' : m.kind = "coalition_ready" =>
                            m.from = pools'[m.pool].by /\ m.from # m.to
    BY <1>t, <1>2, <1>3, <1>7 DEF DealInv, SettlementTypeOK
  <2>2. ASSUME NEW x \in Agents \ Restarting, task'[x].at = "deploy"
        PROVE  address'[x] = NoPool /\ coordinator'[x] = x
    BY <2>2, <1>t, <1>u, <1>5, <1>6 DEF DealInv, vars, local, Idle
  <2>3. ASSUME NEW x \in Agents \ Restarting, NEW q \in DOMAIN pools', pools'[q].by = x
        PROVE  /\ coordinator'[x] = x
               /\ pools'[q].payers # {} => q = address'[x]
               /\ \A m \in mail' : m.kind = "coalition_ready" /\ m.pool = q => q = address'[x]
               /\ \A b \in Agents : task'[b].at = "fund" /\ task'[b].pool = q => q = address'[x]
    <3>1. CASE q = p
      <4>1. x = a
        BY <3>1, <2>3, <1>3
      <4> QED
        BY <3>1, <4>1, <1>t, <1>u, <1>3, <1>5 DEF DealInv, vars, local
    <3>2. CASE q # p
      <4>1. q \in DOMAIN pools /\ pools[q].by = x /\ pools'[q] = pools[q] /\ q # NoPool
        BY <3>2, <2>3, <1>2, <1>t, PoolShape
      <4>2. /\ coordinator[x] = x
            /\ pools[q].payers # {} => q = address[x]
            /\ \A m \in mail : m.kind = "coalition_ready" /\ m.pool = q => q = address[x]
            /\ \A b \in Agents : task[b].at = "fund" /\ task[b].pool = q => q = address[x]
        BY <4>1, <1>t DEF DealInv
      <4>3. x = a => address[x] = NoPool
        BY <1>t, <1>u DEF DealInv
      <4>4. \A b \in Agents : task'[b].at = "fund" /\ task'[b].pool = q =>
                                 task[b].at = "fund" /\ task[b].pool = q
        BY <3>2, <1>5, <1>6 DEF Idle
      <4>5. \A m \in mail' : m.kind = "coalition_ready" /\ m.pool = q => m \in mail
        BY <3>2, <1>7
      <4> QED
        BY <4>1, <4>2, <4>3, <4>4, <4>5, <1>u, <1>5 DEF vars, local
    <3> QED
      BY <3>1, <3>2
  <2> QED
    BY <2>1, <2>2, <2>3 DEF DealInv
<1> QED
  BY <1>8, <1>9, <1>10 DEF SInv

LEMMA SInvDeployThrows == ASSUME SInv, NEW a \in Agents, DeployThrows(a) PROVE SInv'
<1>t. SettlementTypeOK /\ FirstInv /\ PaysInv /\ DealInv
  BY DEF SInv
<1>u. /\ task[a].at = "deploy" /\ a \in Failing
      /\ task' = [task EXCEPT ![a] = Idle]
      /\ UNCHANGED <<vars, first, mail, address, fundedByMe>>
  BY DEF DeployThrows
<1>1. /\ task' \in [Agents -> Tasks] /\ task'[a] = Idle
      /\ \A b \in Agents \ {a} : task'[b] = task[b]
  BY <1>t, <1>u DEF SettlementTypeOK, Tasks, Idle
<1>2. CASE pools' = pools
  BY <1>t, <1>u, <1>1, <1>2
     DEF SInv, SettlementTypeOK, FirstInv, PaysInv, DealInv, vars, local, Idle
<1>3. CASE pools' = Append(pools, NewPool(a, task[a]))
  <2> DEFINE p == Len(pools) + 1
  <2>1. NewPool(a, task[a]) \in Pool
    BY <1>t, <1>u, DeployShape
  <2>2. /\ pools' \in Seq(Pool) /\ DOMAIN pools' = DOMAIN pools \cup {p}
        /\ p \notin DOMAIN pools
        /\ \A q \in DOMAIN pools : pools'[q] = pools[q]
        /\ pools'[p].by = a /\ pools'[p].payers = {}
    BY <1>t, <1>3, <2>1, AppendShape DEF NewPool
  <2> HIDE DEF p
  <2>3. SettlementTypeOK' /\ FirstInv'
    BY <1>t, <1>u, <1>1, <2>2 DEF SettlementTypeOK, FirstInv, vars, local, Idle
  <2>4. PaysInv'
    BY <1>t, <1>u, <1>1, <2>2 DEF PaysInv, vars, local, Idle
  <2>5. \A m \in mail : m.kind = "coalition_ready" => m.pool \in DOMAIN pools
    BY <1>t DEF SettlementTypeOK
  <2>6. \A b \in Agents : task'[b].at = "fund" => task[b].at = "fund" /\ task'[b] = task[b]
                                                  /\ task[b].pool \in DOMAIN pools
    BY <1>t, <1>1 DEF SettlementTypeOK, Idle
  <2>7. DealInv'
    <3>1. \A m \in mail' : m.kind = "coalition_ready" =>
                              m.from = pools'[m.pool].by /\ m.from # m.to
      BY <1>t, <1>u, <2>2, <2>5 DEF DealInv
    <3>2. ASSUME NEW x \in Agents \ Restarting, task'[x].at = "deploy"
          PROVE  address'[x] = NoPool /\ coordinator'[x] = x
      BY <3>2, <1>t, <1>u, <1>1 DEF DealInv, vars, local, Idle
    <3>3. ASSUME NEW x \in Agents \ Restarting, NEW q \in DOMAIN pools', pools'[q].by = x
          PROVE  /\ coordinator'[x] = x
                 /\ pools'[q].payers # {} => q = address'[x]
                 /\ \A m \in mail' : m.kind = "coalition_ready" /\ m.pool = q => q = address'[x]
                 /\ \A b \in Agents : task'[b].at = "fund" /\ task'[b].pool = q => q = address'[x]
      <4>1. CASE q = p
        BY <4>1, <3>3, <1>t, <1>u, <2>2, <2>5, <2>6 DEF DealInv, vars, local
      <4>2. CASE q # p
        BY <4>2, <3>3, <1>t, <1>u, <2>2, <2>6 DEF DealInv, vars, local
      <4> QED
        BY <4>1, <4>2
    <3> QED
      BY <3>1, <3>2, <3>3 DEF DealInv
  <2> QED
    BY <2>3, <2>4, <2>7 DEF SInv
<1> QED
  BY <1>2, <1>3 DEF DeployThrows

LEMMA UpdateShape ==
  ASSUME SettlementTypeOK, NEW p \in DOMAIN pools, NEW pool \in Pool,
         pools' = [pools EXCEPT ![p] = pool]
  PROVE  /\ pools' \in Seq(Pool) /\ DOMAIN pools' = DOMAIN pools
         /\ pools'[p] = pool
         /\ \A q \in DOMAIN pools \ {p} : pools'[q] = pools[q]
  BY DEF SettlementTypeOK

(* A step of the chain that brings no pool a new payer.                    *)
LEMMA SInvPoolStep ==
  ASSUME SInv, NEW p \in DOMAIN pools, PoolStep(p) PROVE SInv'
<1>t. SettlementTypeOK /\ FirstInv /\ PaysInv /\ DealInv
  BY DEF SInv
<1>u. UNCHANGED <<vars, first, mail, task, address, fundedByMe>>
  BY DEF PoolStep, KeeperCommits, Cancels, Lapse
<1>1. /\ pools' \in Seq(Pool) /\ DOMAIN pools' = DOMAIN pools
      /\ \A q \in DOMAIN pools : /\ pools'[q].by = pools[q].by
                                 /\ pools'[q].payers \subseteq pools[q].payers
  <2>1. pools[p] \in Pool
    BY <1>t DEF SettlementTypeOK
  <2>2. PICK pool \in Pool : /\ pools' = [pools EXCEPT ![p] = pool]
                             /\ pool.by = pools[p].by /\ pool.payers \subseteq pools[p].payers
    <3>1. CASE KeeperCommits(p)
      <4> DEFINE new == [pools[p] EXCEPT !.outcome = "settled"]
      <4>1. new \in Pool /\ new.by = pools[p].by /\ new.payers = pools[p].payers
        BY <2>1 DEF Pool
      <4>2. pools' = [pools EXCEPT ![p] = new]
        BY <3>1 DEF KeeperCommits, Settled
      <4> QED
        BY <4>1, <4>2
    <3>2. CASE Cancels(p)
      <4> DEFINE new == [pools[p] EXCEPT !.outcome = "cancelled", !.payers = {}]
      <4>1. new \in Pool /\ new.by = pools[p].by /\ new.payers = {}
        BY <2>1 DEF Pool
      <4>2. pools' = [pools EXCEPT ![p] = new]
        BY <3>2, <2>1, <1>t DEF Cancels, Pool, SettlementTypeOK
      <4> QED
        BY <4>1, <4>2
    <3>3. CASE Lapse(p)
      <4> DEFINE new == [pools[p] EXCEPT !.lapsed = TRUE]
      <4>1. new \in Pool /\ new.by = pools[p].by /\ new.payers = pools[p].payers
        BY <2>1 DEF Pool
      <4>2. pools' = [pools EXCEPT ![p] = new]
        BY <3>3 DEF Lapse
      <4> QED
        BY <4>1, <4>2
    <3> QED
      BY <3>1, <3>2, <3>3 DEF PoolStep
  <2> QED
    BY <1>t, <2>2, UpdateShape
<1>2. SettlementTypeOK' /\ FirstInv'
  BY <1>t, <1>u, <1>1 DEF SettlementTypeOK, FirstInv, vars, local
<1>3. PaysInv'
  BY <1>t, <1>u, <1>1 DEF PaysInv
<1>4. DealInv'
  <2>1. \A m \in mail : m.kind = "coalition_ready" => m.pool \in DOMAIN pools
    BY <1>t DEF SettlementTypeOK
  <2> QED
    BY <1>t, <1>u, <1>1, <2>1 DEF DealInv, vars, local
<1> QED
  BY <1>2, <1>3, <1>4 DEF SInv

(* A transaction or a call of agent a moves on, adding nobody but a to the *)
(* payers of the pool it concerns, and a only when it is about to pay.     *)
LEMMA SInvTaskStep ==
  ASSUME SInv, NEW a \in Agents, task[a].at \in {"fund", "receipt", "tool"},
         UNCHANGED <<vars, first, mail, address>>,
         task' \in [Agents -> Tasks], task'[a].at \in {"idle", "receipt", "tool"},
         task'[a].at # "idle" => task'[a].pool = task[a].pool,
         \A b \in Agents \ {a} : task'[b] = task[b],
         pools' \in Seq(Pool), DOMAIN pools' = DOMAIN pools,
         \A q \in DOMAIN pools :
           /\ pools'[q].by = pools[q].by
           /\ \/ pools'[q].payers = pools[q].payers
              \/ /\ pools'[q].payers = pools[q].payers \cup {a}
                 /\ q = task[a].pool /\ task[a].at = "fund" /\ task'[a].at = "receipt",
         task'[a].at = "receipt" => task[a].at = "fund" /\ fundedByMe' = fundedByMe,
         fundedByMe' \in {fundedByMe, fundedByMe \cup {a}},
         task[a].at = "receipt" => a \in fundedByMe' \cup Failing
  PROVE  SInv'
<1>t. SettlementTypeOK /\ FirstInv /\ PaysInv /\ DealInv
  BY DEF SInv
<1>p. task[a].pool \in DOMAIN pools
  BY <1>t, TaskShape
<1>1. SettlementTypeOK' /\ FirstInv'
  BY <1>t, <1>p DEF SettlementTypeOK, FirstInv, vars, local
<1>2. PaysInv'
  <2> SUFFICES ASSUME NEW b \in Agents \ (Failing \cup Restarting)
               PROVE  /\ task'[b].at \in {"fund", "receipt"} => b \notin fundedByMe'
                      /\ \A p \in DOMAIN pools' : b \in pools'[p].payers =>
                                                    b \in fundedByMe' \/ task'[b].at = "receipt"
                      /\ \A p, q \in DOMAIN pools' :
                           b \in pools'[p].payers /\ b \in pools'[q].payers => p = q
    BY DEF PaysInv
  <2>1. /\ task[b].at \in {"fund", "receipt"} => b \notin fundedByMe
        /\ \A p \in DOMAIN pools : b \in pools[p].payers =>
                                     b \in fundedByMe \/ task[b].at = "receipt"
        /\ \A p, q \in DOMAIN pools : b \in pools[p].payers /\ b \in pools[q].payers => p = q
    BY <1>t DEF PaysInv
  <2>2. CASE b # a
    BY <2>1, <2>2
  <2>3. CASE b = a
    BY <2>1, <2>3
  <2> QED
    BY <2>2, <2>3
<1>3. DealInv'
  <2>1. \A m \in mail : m.kind = "coalition_ready" => m.pool \in DOMAIN pools
    BY <1>t DEF SettlementTypeOK
  <2>2. \A m \in mail' : m.kind = "coalition_ready" =>
                            m.from = pools'[m.pool].by /\ m.from # m.to
    BY <1>t, <2>1 DEF DealInv
  <2>3. ASSUME NEW x \in Agents \ Restarting, task'[x].at = "deploy"
        PROVE  address'[x] = NoPool /\ coordinator'[x] = x
    BY <1>t, <2>3 DEF DealInv, vars, local
  <2>4. ASSUME NEW x \in Agents \ Restarting, NEW p \in DOMAIN pools', pools'[p].by = x
        PROVE  /\ coordinator'[x] = x
               /\ pools'[p].payers # {} => p = address'[x]
               /\ \A m \in mail' : m.kind = "coalition_ready" /\ m.pool = p => p = address'[x]
               /\ \A b \in Agents : task'[b].at = "fund" /\ task'[b].pool = p => p = address'[x]
    <3>1. /\ coordinator[x] = x
          /\ pools[p].payers # {} => p = address[x]
          /\ \A m \in mail : m.kind = "coalition_ready" /\ m.pool = p => p = address[x]
          /\ \A b \in Agents : task[b].at = "fund" /\ task[b].pool = p => p = address[x]
      BY <1>t, <2>4 DEF DealInv
    <3> QED
      BY <3>1, <2>4 DEF vars, local
  <2> QED
    BY <2>2, <2>3, <2>4 DEF DealInv
<1> QED
  BY <1>1, <1>2, <1>3 DEF SInv

LEMMA SInvSendFund == ASSUME SInv, NEW a \in Agents, SendFund(a) PROVE SInv'
<1> DEFINE p == task[a].pool
           paid == [pools[p] EXCEPT !.payers = @ \cup {a}]
<1>t. SettlementTypeOK
  BY DEF SInv
<1>u. /\ task[a].at = "fund" /\ task' = [task EXCEPT ![a].at = "receipt"]
      /\ pools' = IF Accepts(p, a) THEN [pools EXCEPT ![p].payers = @ \cup {a}] ELSE pools
      /\ UNCHANGED <<vars, first, mail, address, fundedByMe>>
  BY DEF SendFund
<1>1. /\ task[a] \in [at : {"fund", "receipt", "tool"}, pool : Nat]
      /\ p \in DOMAIN pools
  BY <1>t, <1>u, TaskShape
<1>2. /\ task'[a].at = "receipt" /\ task'[a].pool = p
      /\ \A b \in Agents \ {a} : task'[b] = task[b]
      /\ task' \in [Agents -> Tasks]
  BY <1>t, <1>u, <1>1 DEF SettlementTypeOK, Tasks
<1>3. paid \in Pool /\ paid.by = pools[p].by /\ paid.payers = pools[p].payers \cup {a}
  <2>1. pools[p] \in Pool
    BY <1>t, <1>1 DEF SettlementTypeOK
  <2> QED
    BY <2>1 DEF Pool
<1>4. pools' \in {pools, [pools EXCEPT ![p] = paid]}
  BY <1>u
<1>5. /\ pools' \in Seq(Pool) /\ DOMAIN pools' = DOMAIN pools
      /\ \A q \in DOMAIN pools :
           /\ pools'[q].by = pools[q].by
           /\ \/ pools'[q].payers = pools[q].payers
              \/ pools'[q].payers = pools[q].payers \cup {a} /\ q = p
  <2> HIDE DEF paid, p
  <2>1. CASE pools' = pools
    BY <2>1, <1>t DEF SettlementTypeOK
  <2>2. CASE pools' = [pools EXCEPT ![p] = paid]
    BY <2>2, <1>t, <1>1, <1>3, UpdateShape
  <2> QED
    BY <1>4, <2>1, <2>2
<1> HIDE DEF paid
<1> QED
  BY <1>u, <1>1, <1>2, <1>5, SInvTaskStep

LEMMA SInvFundReceipt == ASSUME SInv, NEW a \in Agents, FundReceipt(a) PROVE SInv'
<1>t. SettlementTypeOK
  BY DEF SInv
<1>u. /\ task[a].at = "receipt" /\ task' = [task EXCEPT ![a].at = "tool"]
      /\ fundedByMe' = fundedByMe \cup {a}
      /\ UNCHANGED <<vars, first, mail, address, pools>>
  BY DEF FundReceipt
<1>1. task[a] \in [at : {"fund", "receipt", "tool"}, pool : Nat]
  BY <1>t, <1>u, TaskShape
<1>2. /\ task'[a].at = "tool" /\ task'[a].pool = task[a].pool
      /\ \A b \in Agents \ {a} : task'[b] = task[b]
      /\ task' \in [Agents -> Tasks]
  BY <1>t, <1>u, <1>1 DEF SettlementTypeOK, Tasks
<1> QED
  BY <1>t, <1>u, <1>1, <1>2, SInvTaskStep DEF SettlementTypeOK

LEMMA SInvFundThrows == ASSUME SInv, NEW a \in Agents, FundThrows(a) PROVE SInv'
<1>t. SettlementTypeOK
  BY DEF SInv
<1>u. /\ task[a].at \in {"fund", "receipt"} /\ a \in Failing
      /\ task' = [task EXCEPT ![a] = Idle]
      /\ UNCHANGED <<vars, first, mail, address, fundedByMe, pools>>
  BY DEF FundThrows
<1>1. /\ task'[a].at = "idle" /\ task' \in [Agents -> Tasks]
      /\ \A b \in Agents \ {a} : task'[b] = task[b]
  BY <1>t, <1>u DEF SettlementTypeOK, Tasks, Idle
<1> QED
  BY <1>t, <1>u, <1>1, SInvTaskStep DEF SettlementTypeOK

LEMMA SInvCallTool == ASSUME SInv, NEW a \in Agents, CallTool(a) PROVE SInv'
<1> DEFINE p == task[a].pool
           done == [pools[p] EXCEPT !.outcome = "settled"]
<1>t. SettlementTypeOK
  BY DEF SInv
<1>u. /\ task[a].at = "tool" /\ task' = [task EXCEPT ![a] = Idle]
      /\ pools' = pools \/ pools' = Settled(p)
      /\ UNCHANGED <<vars, first, mail, address, fundedByMe>>
  BY DEF CallTool
<1>1. p \in DOMAIN pools
  BY <1>t, <1>u, TaskShape
<1>2. /\ task'[a].at = "idle" /\ task' \in [Agents -> Tasks]
      /\ \A b \in Agents \ {a} : task'[b] = task[b]
  BY <1>t, <1>u DEF SettlementTypeOK, Tasks, Idle
<1>3. done \in Pool /\ done.by = pools[p].by /\ done.payers = pools[p].payers
  <2>1. pools[p] \in Pool
    BY <1>t, <1>1 DEF SettlementTypeOK
  <2> QED
    BY <2>1 DEF Pool
<1>4. pools' \in {pools, [pools EXCEPT ![p] = done]}
  BY <1>u DEF Settled
<1>5. /\ pools' \in Seq(Pool) /\ DOMAIN pools' = DOMAIN pools
      /\ \A q \in DOMAIN pools : /\ pools'[q].by = pools[q].by
                                 /\ pools'[q].payers = pools[q].payers
  <2> HIDE DEF done, p
  <2>1. CASE pools' = pools
    BY <2>1, <1>t DEF SettlementTypeOK
  <2>2. CASE pools' = [pools EXCEPT ![p] = done]
    BY <2>2, <1>t, <1>1, <1>3, UpdateShape
  <2> QED
    BY <1>4, <2>1, <2>2
<1> HIDE DEF done
<1> QED
  BY <1>u, <1>1, <1>2, <1>5, SInvTaskStep
-----------------------------------------------------------------------------
LEMMA SInvReboot == ASSUME SInv, IInv, NEW a \in Restarting, Reboot(a) PROVE SInv'
<1>t. SettlementTypeOK /\ FirstInv /\ PaysInv /\ DealInv
  BY DEF SInv
<1>a. a \in Agents
  BY FaultAssumption
<1>u. /\ first' = [first EXCEPT ![a] = NoAgent]
      /\ task' = [task EXCEPT ![a] = Idle]
      /\ address' = [address EXCEPT ![a] = NoPool]
      /\ fundedByMe' = fundedByMe \ {a}
      /\ mail' = mail
      /\ members' = [members EXCEPT ![a] = {}]
      /\ coordinator' = [coordinator EXCEPT ![a] = NoAgent]
  BY DEF Reboot, Restart
<1>p. \/ pools' = pools
      \/ task[a].at = "deploy" /\ pools' = Append(pools, NewPool(a, task[a]))
  BY DEF Reboot
<1>1. /\ first' \in [Agents -> Agents \cup {NoAgent}] /\ task' \in [Agents -> Tasks]
      /\ address' \in [Agents -> {NoPool} \cup DOMAIN pools]
      /\ task'[a] = Idle /\ members'[a] = {}
      /\ \A b \in Agents \ {a} : /\ task'[b] = task[b] /\ address'[b] = address[b]
                                 /\ first'[b] = first[b] /\ members'[b] = members[b]
                                 /\ coordinator'[b] = coordinator[b]
  BY <1>t, <1>u, <1>a DEF SettlementTypeOK, IInv, TypeOK, Tasks, Idle
<1>2. CASE pools' = pools
  <2>1. SettlementTypeOK' /\ FirstInv'
    BY <1>t, <1>u, <1>1, <1>2 DEF SettlementTypeOK, FirstInv, Idle
  <2>2. PaysInv'
    BY <1>t, <1>u, <1>1, <1>2 DEF PaysInv
  <2>3. DealInv'
    BY <1>t, <1>u, <1>1, <1>2 DEF DealInv, Idle
  <2> QED
    BY <2>1, <2>2, <2>3 DEF SInv
<1>3. CASE task[a].at = "deploy" /\ pools' = Append(pools, NewPool(a, task[a]))
  <2> DEFINE p == Len(pools) + 1
  <2>1. NewPool(a, task[a]) \in Pool
    BY <1>t, <1>a, <1>3, DeployShape
  <2>2. /\ pools' \in Seq(Pool) /\ DOMAIN pools' = DOMAIN pools \cup {p}
        /\ p \notin DOMAIN pools
        /\ \A q \in DOMAIN pools : pools'[q] = pools[q]
        /\ pools'[p].by = a /\ pools'[p].payers = {}
    BY <1>t, <1>3, <2>1, AppendShape DEF NewPool
  <2> HIDE DEF p
  <2>3. SettlementTypeOK' /\ FirstInv'
    BY <1>t, <1>u, <1>1, <2>2 DEF SettlementTypeOK, FirstInv, Idle
  <2>4. PaysInv'
    BY <1>t, <1>u, <1>1, <2>2 DEF PaysInv
  <2>5. /\ \A m \in mail : m.kind = "coalition_ready" => m.pool \in DOMAIN pools
        /\ \A b \in Agents : task'[b].at = "fund" => task'[b] = task[b]
    BY <1>t, <1>1 DEF SettlementTypeOK, Idle
  <2>6. \A q \in DOMAIN pools' : pools'[q].by \in Agents \ Restarting => q \in DOMAIN pools
    BY <2>2
  <2>7. DealInv'
    BY <1>t, <1>u, <1>1, <2>2, <2>5, <2>6 DEF DealInv, Idle
  <2> QED
    BY <2>3, <2>4, <2>7 DEF SInv
<1> QED
  BY <1>p, <1>2, <1>3

LEMMA SInvStep ==
  ASSUME SInv, IInv, IInv', [SettlementNext]_svars PROVE SInv'
<1>t. SettlementTypeOK /\ FirstInv /\ PaysInv /\ DealInv
  BY DEF SInv
<1>1. ASSUME UNCHANGED settling, UNCHANGED <<members, coordinator>> PROVE SInv'
  BY <1>t, <1>1 DEF SInv, settling, SettlementTypeOK, FirstInv, PaysInv, DealInv
<1>2. ASSUME NEW a \in Matching, Submit(a), UNCHANGED settling PROVE SInv'
  BY <1>1, <1>2 DEF Submit
<1>3. ASSUME NEW a \in Expiring, Expire(a), UNCHANGED settling PROVE SInv'
  BY <1>1, <1>3 DEF Expire
<1>4. ASSUME NEW m \in mail, Deliver(m) PROVE SInv'
  BY <1>4, SInvSellerAnswers, SInvOnNegotiateResponse, SInvOnCoalitionReady DEF Deliver
<1>5. ASSUME NEW a \in Agents, AgentStep(a) PROVE SInv'
  BY <1>5, SInvDeployed, SInvDeployThrows, SInvSendFund, SInvFundReceipt, SInvFundThrows,
     SInvCallTool DEF AgentStep
<1>6. CASE UNCHANGED svars
  BY <1>1, <1>6 DEF svars, vars, local
<1> QED
  BY <1>2, <1>3, <1>4, <1>5, <1>6, SInvMeet, SInvPoolStep, SInvReboot DEF SettlementNext

(* What the agents know of the chain stays sound in every behaviour.       *)
THEOREM SettlementInductive == SettlementSpec => []SInv
<1>1. SettlementSpec => []IInv
  BY SettlementKeepsRendezvous, InductiveInvariant, PTL
<1>2. SInv /\ IInv /\ IInv' /\ [SettlementNext]_svars => SInv'
  BY SInvStep
<1> QED
  BY <1>1, <1>2, SInvInit, PTL DEF SettlementSpec

(* Every address an agent holds, funds or is sent is a deployed coalition. *)
THEOREM SettlementTypeCorrect == SettlementSpec => []SettlementTypeOK
<1>1. SInv => SettlementTypeOK
  BY DEF SInv
<1> QED
  BY <1>1, SettlementInductive, PTL

(* An agent that neither fails nor restarts has money in one coalition.    *)
THEOREM PaysOnceHolds == SettlementSpec => []PaysOnce
<1>1. SInv => PaysOnce
  BY DEF SInv, PaysInv, PaysOnce
<1> QED
  BY <1>1, SettlementInductive, PTL

(* Of all the coalitions a coordinator deploys one is ever paid, however   *)
(* its RPC calls fail.                                                     *)
THEOREM OneDealHolds == SettlementSpec => []OneDeal
<1>1. SInv => OneDeal
  <2> SUFFICES ASSUME SInv, NEW p \in DOMAIN pools, NEW q \in DOMAIN pools,
                      pools[p].by = pools[q].by, pools[p].by \notin Restarting,
                      pools[p].payers # {}, pools[q].payers # {}
               PROVE  p = q
    BY DEF OneDeal
  <2>1. pools[p] \in Pool
    BY DEF SInv, SettlementTypeOK
  <2>2. pools[p].by \in Agents
    BY <2>1 DEF Pool
  <2> QED
    BY <2>2 DEF SInv, DealInv
<1> QED
  BY <1>1, SettlementInductive, PTL
-----------------------------------------------------------------------------
(***************************************************************************)
(* What it means to have one commitment.                                   *)
(***************************************************************************)
(* tierBucket() rounds up to a multiple of the step, and by less than one  *)
(* (intent.ts:20).                                                         *)
LEMMA CeilingBounds ==
  ASSUME NEW max \in Nat
  PROVE  /\ Ceiling(max) = TIER_STEP * TierBucket(max) /\ Ceiling(max) \in Nat
         /\ max <= Ceiling(max) /\ Ceiling(max) < max + TIER_STEP
  BY DEF Ceiling, TierBucket, TIER_STEP

(* Whoever ends up in one cluster wanted nearly the same: one SKU, maxima  *)
(* less than a step apart and deadlines less than a bucket apart, both of  *)
(* one bucket (intent.ts:13-41).                                           *)
THEOREM MatchesAreClose ==
  ASSUME NEW i \in IntentType, NEW j \in IntentType, Commitment(i) = Commitment(j)
  PROVE  /\ CanonicalSku[i.sku] = CanonicalSku[j.sku]
         /\ i.max < j.max + TIER_STEP
         /\ i.deadline < j.deadline + DEADLINE_BUCKET_MS
<1>1. /\ i.max \in Nat /\ j.max \in Nat /\ i.deadline \in Nat /\ j.deadline \in Nat
  BY DEF IntentType
<1>2. /\ CanonicalSku[i.sku] = CanonicalSku[j.sku]
      /\ TierBucket(i.max) = TierBucket(j.max)
      /\ DeadlineBucket(i.deadline) = DeadlineBucket(j.deadline)
  BY DEF Commitment
<1>3. i.max < j.max + TIER_STEP
  BY <1>1, <1>2, CeilingBounds DEF TIER_STEP
<1>4. i.deadline < j.deadline + DEADLINE_BUCKET_MS
  BY <1>1, <1>2 DEF DeadlineBucket, DEADLINE_BUCKET_MS
<1> QED
  BY <1>2, <1>3, <1>4

-----------------------------------------------------------------------------
(* A commit changes what became of a pool, nothing else of it.             *)
LEMMA SettledKeeps ==
  ASSUME SettlementTypeOK, NEW p \in DOMAIN pools, pools' = Settled(p)
  PROVE  /\ DOMAIN pools' = DOMAIN pools
         /\ \A q \in DOMAIN pools : /\ pools'[q].by = pools[q].by
                                    /\ pools'[q].required = pools[q].required
                                    /\ pools'[q].qty = pools[q].qty
                                    /\ pools'[q].price = pools[q].price
                                    /\ pools'[q].payers = pools[q].payers
<1>1. pools[p] \in Pool
  BY DEF SettlementTypeOK
<1>2. pools' = [pools EXCEPT ![p] = [pools[p] EXCEPT !.outcome = "settled"]]
  BY DEF Settled
<1> QED
  BY <1>1, <1>2 DEF SettlementTypeOK, Pool
=============================================================================
