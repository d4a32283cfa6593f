----------------------------- MODULE TermsProofs -----------------------------
(***************************************************************************)
(* SoundPools for every cluster and every card: what was negotiated for    *)
(* the first member travels from the request to the answer, to the         *)
(* deployment and to the pool, over two messages and two awaits, and       *)
(* nobody pays an agent it did not show its intent to.                     *)
(* WithinBucket comes with it: a price that one committer accepts is       *)
(* within the bucket of all.                                               *)
(***************************************************************************)
EXTENDS SettlementProofs

(* A card whose prices fall as the numbers rise, as those of seller.ts do. *)
DescendingCard == \A sku \in DOMAIN TierCard : \A i, j \in DOMAIN TierCard[sku] :
  i <= j => TierCard[sku][j].unitPrice <= TierCard[sku][i].unitPrice

(* What a request asks for n buyers, in the name of one of C.              *)
Asks(C, n, sku, max, qty) ==
  /\ n >= K
  /\ \E a \in C : sku = Intent[a].sku /\ max = Intent[a].max /\ qty = Intent[a].qty

(* What n buyers are offered, on the terms of one of C: a price of the     *)
(* card, and the lowest that n clear if the card is descending.            *)
Offers(C, n, qty, price) ==
  /\ n >= K
  /\ \E a \in C :
       /\ price <= Intent[a].max /\ qty = Intent[a].qty
       /\ \E i \in Cleared(Intent[a].sku, n) :
            /\ price = TierCard[Intent[a].sku][i].unitPrice
            /\ DescendingCard => \A j \in Cleared(Intent[a].sku, n) :
                 TierCard[Intent[a].sku][j].unitPrice >= price

LEMMA MoreCommit ==
  ASSUME NEW C, NEW D, C \subseteq D, NEW n, NEW sku, NEW max, NEW qty, NEW price
  PROVE  /\ Asks(C, n, sku, max, qty) => Asks(D, n, sku, max, qty)
         /\ Offers(C, n, qty, price) => Offers(D, n, qty, price)
  BY DEF Asks, Offers

(* handleNegotiate() turns what was asked into an offer, or declines.      *)
LEMMA SellerKeepsTerms ==
  ASSUME NEW C \in SUBSET Agents, NEW n \in Nat, NEW sku, NEW max, NEW qty,
         Asks(C, n, sku, max, qty), PickTierPrice(sku, n) # Declined,
         ~ PickTierPrice(sku, n) > max
  PROVE  Offers(C, n, qty, PickTierPrice(sku, n))
<1> DEFINE price == PickTierPrice(sku, n)
<1>1. PICK a \in C : sku = Intent[a].sku /\ max = Intent[a].max /\ qty = Intent[a].qty
  BY DEF Asks
<1>2. price \in Nat /\ Intent[a].max \in Nat
  BY <1>1, PickTierPriceNat, IntentAssumption DEF IntentType
<1>3. Cleared(sku, n) # {}
  BY DEF PickTierPrice
<1>4. PICK i \in Cleared(sku, n) :
        /\ \A j \in Cleared(sku, n) : j <= i
        /\ price = TierCard[sku][i].unitPrice
        /\ sku \in DOMAIN TierCard /\ i \in DOMAIN TierCard[sku]
  BY <1>3, LastCleared
<1>5. ASSUME DescendingCard, NEW j \in Cleared(sku, n) PROVE TierCard[sku][j].unitPrice >= price
  <2>1. j \in DOMAIN TierCard[sku] /\ j <= i
    BY <1>4 DEF Cleared
  <2>2. TierCard[sku][j] \in Tier
    BY <1>4, <2>1, CardAssumption
  <2>3. price <= TierCard[sku][j].unitPrice
    BY <1>4, <1>5, <2>1 DEF DescendingCard
  <2> QED
    BY <1>2, <2>2, <2>3 DEF Tier
<1>6. price <= max
  BY <1>1, <1>2
<1>7. Offers(C, n, qty, price)
  <2> HIDE DEF price
  <2>1. /\ price = TierCard[Intent[a].sku][i].unitPrice
        /\ DescendingCard => \A j \in Cleared(Intent[a].sku, n) :
             TierCard[Intent[a].sku][j].unitPrice >= price
    BY <1>1, <1>4, <1>5
  <2>2. n >= K /\ price <= Intent[a].max /\ qty = Intent[a].qty /\ i \in Cleared(Intent[a].sku, n)
    BY <1>1, <1>6 DEF Asks
  <2> QED
    BY <2>1, <2>2 DEF Offers
<1> QED
  BY <1>7
-----------------------------------------------------------------------------
(***************************************************************************)
(* The inductive invariant: what each message, task and pool promises.     *)
(***************************************************************************)
FirstCommitted == \A a \in Agents : members[a] # {} => first[a] \in committers

MailTerms == \A m \in mail :
  /\ m.kind = "negotiate_request" => Asks(committers, m.n, m.sku, m.max, m.qty)
  /\ m.kind = "negotiate_response" /\ m.price # Declined =>
       Offers(committers, m.n, m.qty, m.price)

TaskTerms == \A a \in Agents : task[a].at = "deploy" =>
  /\ a \in committers
  /\ Offers(committers, task[a].n, task[a].qty, task[a].price)

PoolTerms == \A p \in DOMAIN pools :
  /\ pools[p].by \in committers
  /\ Offers(committers, pools[p].required, pools[p].qty, pools[p].price)

(* The deployer of pool p is a itself, or has seen the intent of a.        *)
ShownTo(a, p) == a # pools[p].by => <<a, pools[p].by>> \in disclosed

ShownInv ==
  /\ \A m \in mail : m.kind = "coalition_ready" => ShownTo(m.to, m.pool)
  /\ \A a \in Agents : task[a].at = "fund" => ShownTo(a, task[a].pool)
  /\ \A p \in DOMAIN pools : \A a \in pools[p].payers : ShownTo(a, p)

TermsInv == FirstCommitted /\ MailTerms /\ TaskTerms /\ PoolTerms /\ ShownInv

LEMMA TermsInit == SettlementInit => TermsInv
  BY DEF SettlementInit, Init, TermsInv, FirstCommitted, MailTerms, TaskTerms, PoolTerms,
         ShownInv, Idle

(* Who has committed, and who has shown what to whom, only grows.          *)
LEMMA HistoriesGrow ==
  ASSUME TypeOK, [Next]_vars
  PROVE  committers \subseteq committers' /\ disclosed \subseteq disclosed'
<1>1. ASSUME NEW m \in net, Receive(m)
      PROVE  committers \subseteq committers' /\ disclosed \subseteq disclosed'
  BY <1>1 DEF Receive, OnCommit, OnRevealRequest, OnRevealResponse, Disclose
<1>2. CASE \E a \in Agents : Submit(a)
  BY <1>2 DEF Submit
<1>3. CASE (\E a \in Expiring : Expire(a)) \/ (\E a \in Restarting : Restart(a))
  BY <1>3 DEF Expire, Restart
<1>4. CASE UNCHANGED vars
  BY <1>4 DEF vars
<1> QED
  BY <1>1, <1>2, <1>3, <1>4 DEF Next
-----------------------------------------------------------------------------
(***************************************************************************)
(* Steps that send, take up or deploy no new terms keep the terms there    *)
(* are; steps that make no new payer keep who was shown what.              *)
(***************************************************************************)
LEMMA TermsKept ==
  ASSUME MailTerms, TaskTerms, PoolTerms, committers \subseteq committers',
         \A m \in mail' : m \in mail \/ m.kind = "coalition_ready",
         \A a \in Agents : task'[a] = task[a] \/ task'[a].at # "deploy",
         DOMAIN pools' = DOMAIN pools,
         \A p \in DOMAIN pools : /\ pools'[p].by = pools[p].by
                                 /\ pools'[p].required = pools[p].required
                                 /\ pools'[p].qty = pools[p].qty
                                 /\ pools'[p].price = pools[p].price
  PROVE  MailTerms' /\ TaskTerms' /\ PoolTerms'
<1>1. MailTerms'
  BY MoreCommit DEF MailTerms
<1>2. TaskTerms'
  BY MoreCommit DEF TaskTerms
<1>3. PoolTerms'
  BY MoreCommit DEF PoolTerms
<1> QED
  BY <1>1, <1>2, <1>3

LEMMA ShownKept ==
  ASSUME SettlementTypeOK, ShownInv, disclosed \subseteq disclosed',
         \A m \in mail' : m \in mail \/ m.kind # "coalition_ready",
         \A a \in Agents : task'[a] = task[a] \/ task'[a].at # "fund",
         DOMAIN pools' = DOMAIN pools,
         \A p \in DOMAIN pools : /\ pools'[p].by = pools[p].by
                                 /\ pools'[p].payers \subseteq pools[p].payers
  PROVE  ShownInv'
<1>1. \A m \in mail' : m.kind = "coalition_ready" => ShownTo(m.to, m.pool)'
  BY DEF ShownInv, ShownTo, SettlementTypeOK
<1>2. \A a \in Agents : task'[a].at = "fund" => ShownTo(a, task[a].pool)' /\ task'[a] = task[a]
  BY DEF ShownInv, ShownTo, SettlementTypeOK
<1>3. \A p \in DOMAIN pools' : \A a \in pools'[p].payers : ShownTo(a, p)'
  BY DEF ShownInv, ShownTo
<1> QED
  BY <1>1, <1>2, <1>3 DEF ShownInv, ShownTo
-----------------------------------------------------------------------------
(* The first member of a cluster has committed.                            *)
LEMMA FirstMeet ==
  ASSUME SettlementTypeOK, IInv, FirstCommitted, NEW m \in net, Meet(m)
  PROVE  FirstCommitted'
<1> DEFINE a == m.to
<1>t. TypeOK /\ HistoryInv /\ first \in [Agents -> Agents \cup {NoAgent}]
  BY DEF IInv, SettlementTypeOK
<1>m. Receive(m)
  BY DEF Meet
<1>f. /\ a \in Agents /\ m.from \in Agents /\ FirstCommitted
      /\ \A b \in Agents \ {a} : members'[b] = members[b]
  BY <1>t, <1>m, MeetFrame
<1>g. committers \subseteq committers'
  BY <1>t, <1>m, MeetFrame
<1>1. first' = IF members[a] = {} /\ members'[a] # {}
               THEN [first EXCEPT ![a] = IF m.kind = "commit" THEN a ELSE m.from]
               ELSE first
  BY DEF Meet
<1>2. m.from \in committers'
  BY <1>t, <1>g DEF HistoryInv
<1>3. m.kind = "commit" /\ members'[a] # members[a] => a \in committers'
  <2>1. m.kind = "commit" /\ members'[a] # members[a] => a \in submitted
    BY <1>m, <1>f DEF Receive, OnCommit, OnRevealRequest, OnRevealResponse, StartsReveal
  <2> QED
    BY <2>1, <1>t, <1>g DEF HistoryInv
<1>4. ASSUME NEW b \in Agents, members'[b] # {} PROVE first'[b] \in committers'
  <2>1. CASE b = a /\ members[a] = {}
    BY <1>t, <1>1, <1>2, <1>3, <1>4, <2>1
  <2>2. CASE ~ (b = a /\ members[a] = {})
    BY <1>t, <1>f, <1>g, <1>1, <1>4, <2>2 DEF FirstCommitted
  <2> QED
    BY <2>1, <2>2
<1> QED
  BY <1>4 DEF FirstCommitted

(* The terms an agent asks for are those of a member of the cluster it was *)
(* elected in.                                                             *)
LEMMA TermsMeet ==
  ASSUME SInv, SInv', IInv, IInv', TermsInv, NEW m \in net, Meet(m)
  PROVE  TermsInv'
<1> DEFINE a == m.to
           request == Request(a, Cardinality(members'[a]), first'[a])
<1>t. /\ SettlementTypeOK /\ TypeOK /\ TypeOK' /\ MemberInv' /\ HistoryInv
      /\ first \in [Agents -> Agents \cup {NoAgent}]
      /\ FirstCommitted /\ MailTerms /\ TaskTerms /\ PoolTerms /\ ShownInv
  BY DEF SInv, IInv, TermsInv, SettlementTypeOK
<1>m. Receive(m) /\ UNCHANGED <<task, address, fundedByMe, pools>>
  BY DEF Meet
<1>f. /\ a \in Agents /\ m.from \in Agents
      /\ \A b \in Agents \ {a} : members'[b] = members[b]
  BY <1>t, <1>m, MeetFrame
<1>g. committers \subseteq committers' /\ disclosed \subseteq disclosed'
  BY <1>t, <1>m, HistoriesGrow DEF Next
<1>1. FirstCommitted'
  BY <1>t, FirstMeet
<1>2. CASE ~ Formed(a) /\ coordinator'[a] = a
  <2>1. Cardinality(members'[a]) >= K
    <3>1. PICK ms \in SUBSET members'[a] : Cardinality(ms) >= K
      <4>1. Formed(a)'
        BY <1>2, <1>f, AgentsAssumption DEF Formed
      <4> QED
        BY <1>f, <4>1 DEF IInv, ElectionInv, ElectedFrom
    <3>2. members'[a] \in SUBSET Agents /\ ms \in SUBSET Agents
      BY <1>t, <1>f DEF TypeOK
    <3>3. Cardinality(ms) <= Cardinality(members'[a])
      BY <3>2, SubsetCard, FS_Subset
    <3> QED
      BY <3>1, <3>2, <3>3, SubsetCard, ThresholdAssumption
  <2>2. first'[a] \in committers'
    <3>1. members'[a] # {}
      BY <1>2, <1>t, <1>m, ElectedHasMembers
    <3> QED
      BY <1>1, <1>f, <3>1 DEF FirstCommitted
  <2>3. /\ request.kind = "negotiate_request"
        /\ Asks(committers', request.n, request.sku, request.max, request.qty)
    BY <2>1, <2>2 DEF Request, Asks
  <2>4. mail' = mail \cup {request}
    BY <1>2 DEF Meet
  <2> HIDE DEF request
  <2>5. MailTerms' /\ TaskTerms' /\ PoolTerms'
    BY <1>t, <1>m, <1>g, <2>3, <2>4, MoreCommit DEF MailTerms, TaskTerms, PoolTerms
  <2>6. ShownInv'
    BY <1>t, <1>m, <1>g, <2>3, <2>4, ShownKept
  <2> QED
    BY <1>1, <2>5, <2>6 DEF TermsInv
<1>3. CASE ~ (~ Formed(a) /\ coordinator'[a] = a)
  <2>1. mail' = mail
    BY <1>3 DEF Meet
  <2>2. MailTerms' /\ TaskTerms' /\ PoolTerms'
    BY <1>t, <1>m, <1>g, <2>1, TermsKept
  <2>3. ShownInv'
    BY <1>t, <1>m, <1>g, <2>1, ShownKept
  <2> QED
    BY <1>1, <2>2, <2>3 DEF TermsInv
<1> QED
  BY <1>2, <1>3
-----------------------------------------------------------------------------
LEMMA TermsSellerAnswers ==
  ASSUME SInv, IInv, TermsInv, NEW m \in mail, SellerAnswers(m)
  PROVE  TermsInv'
<1> DEFINE tier == PickTierPrice(m.sku, m.n)
           price == IF tier > m.max THEN Declined ELSE tier
           answer == Response(m.from, m.n, m.qty, price)
<1>t. /\ SettlementTypeOK /\ committers \in SUBSET Agents
      /\ FirstCommitted /\ MailTerms /\ TaskTerms /\ PoolTerms /\ ShownInv
  BY DEF SInv, IInv, TypeOK, TermsInv
<1>1. /\ m.n \in Nat /\ Asks(committers, m.n, m.sku, m.max, m.qty)
  BY <1>t DEF SettlementTypeOK, Mail, SellerAnswers, MailTerms
<1>2. price # Declined => price = tier /\ tier # Declined /\ ~ tier > m.max
  OBVIOUS
<1> HIDE DEF price
<1>3. price # Declined => Offers(committers, m.n, m.qty, price)
  BY <1>t, <1>1, <1>2, SellerKeepsTerms
<1>4. /\ answer.kind = "negotiate_response"
      /\ answer.price # Declined => Offers(committers, answer.n, answer.qty, answer.price)
  BY <1>3 DEF Response
<1>5. /\ mail' \subseteq mail \cup {answer}
      /\ UNCHANGED <<members, committers, disclosed, first, task, pools>>
  BY DEF SellerAnswers, vars, local, price
<1> HIDE DEF answer
<1>6. MailTerms'
  BY <1>t, <1>4, <1>5 DEF MailTerms
<1>7. FirstCommitted' /\ TaskTerms' /\ PoolTerms'
  BY <1>t, <1>5 DEF FirstCommitted, TaskTerms, PoolTerms
<1>8. ShownInv'
  BY <1>t, <1>4, <1>5, ShownKept
<1> QED
  BY <1>6, <1>7, <1>8 DEF TermsInv

LEMMA TermsOnNegotiateResponse ==
  ASSUME SInv, IInv, TermsInv, NEW m \in mail, OnNegotiateResponse(m)
  PROVE  TermsInv'
<1> DEFINE a == m.to
           deploy == [at |-> "deploy", n |-> m.n, qty |-> m.qty, price |-> m.price]
<1>t. /\ SettlementTypeOK /\ task \in [Agents -> Tasks] /\ a \in Agents
      /\ FirstCommitted /\ MailTerms /\ TaskTerms /\ PoolTerms /\ ShownInv
  BY DEF SInv, SettlementTypeOK, Mail, OnNegotiateResponse, TermsInv
<1>1. /\ mail' = mail \ {m}
      /\ UNCHANGED <<members, committers, disclosed, first, pools>>
      /\ task' = IF Deploys(a, m) THEN [task EXCEPT ![a] = deploy] ELSE task
  BY DEF OnNegotiateResponse, vars, local
<1>2. Deploys(a, m) => Offers(committers, m.n, m.qty, m.price)
  BY <1>t DEF Deploys, OnNegotiateResponse, MailTerms
<1>3. /\ deploy.at = "deploy" /\ deploy.n = m.n /\ deploy.qty = m.qty /\ deploy.price = m.price
  OBVIOUS
<1> HIDE DEF deploy
<1>4. TaskTerms'
  <2>1. ASSUME Deploys(a, m) PROVE a \in committers
    <3>1. Formed(a) /\ coordinator[a] = a
      BY <1>t, <2>1, AgentsAssumption DEF Deploys, Formed
    <3>2. PICK ms \in SUBSET members[a] : ElectedFrom(a, ms)
      BY <1>t, <3>1 DEF IInv, ElectionInv
    <3>3. ms \in SUBSET Agents /\ ms \subseteq committers
      BY <1>t DEF IInv, TypeOK, MemberInv
    <3> QED
      BY <3>1, <3>2, <3>3, CompleteMembers DEF ElectedFrom
  <2> QED
    BY <1>t, <1>1, <1>2, <1>3, <2>1 DEF TaskTerms
<1>5. FirstCommitted' /\ MailTerms' /\ PoolTerms'
  BY <1>t, <1>1 DEF FirstCommitted, MailTerms, PoolTerms
<1>6. ShownInv'
  BY <1>t, <1>1, <1>3, ShownKept
<1> QED
  BY <1>4, <1>5, <1>6 DEF TermsInv

LEMMA TermsOnCoalitionReady ==
  ASSUME SInv, TermsInv, NEW m \in mail, OnCoalitionReady(m)
  PROVE  TermsInv'
<1> DEFINE a == m.to
<1>t. /\ SettlementTypeOK /\ task \in [Agents -> Tasks] /\ a \in Agents /\ m.pool \in Nat
      /\ FirstCommitted /\ MailTerms /\ TaskTerms /\ PoolTerms /\ ShownInv
  BY DEF SInv, SettlementTypeOK, Mail, OnCoalitionReady, TermsInv
<1>1. /\ m.kind = "coalition_ready" /\ mail' = mail \ {m}
      /\ UNCHANGED <<members, committers, disclosed, first, pools>>
      /\ task' = IF Believes(m) THEN [task EXCEPT ![a] = Funds(a, m.pool)] ELSE task
  BY DEF OnCoalitionReady, vars, local
<1>2. Funds(a, m.pool).at # "deploy" /\ (Funds(a, m.pool).at = "fund" => Funds(a, m.pool).pool = m.pool)
  BY <1>t, FundsShape DEF Idle
<1>3. MailTerms' /\ TaskTerms' /\ PoolTerms' /\ FirstCommitted'
  <2>1. \A b \in Agents : task'[b] = task[b] \/ task'[b].at # "deploy"
    BY <1>t, <1>1, <1>2
  <2>2. MailTerms' /\ TaskTerms' /\ PoolTerms'
    BY <1>t, <1>1, <2>1, TermsKept
  <2> QED
    BY <1>t, <1>1, <2>2 DEF FirstCommitted
<1>4. ShownTo(a, m.pool)
  BY <1>t, <1>1 DEF ShownInv
<1>5. \A b \in Agents : task'[b].at = "fund" => ShownTo(b, task'[b].pool)
  BY <1>t, <1>1, <1>2, <1>4 DEF ShownInv
<1>6. ShownInv'
  BY <1>t, <1>1, <1>5 DEF ShownInv, ShownTo
<1> QED
  BY <1>3, <1>6 DEF TermsInv
-----------------------------------------------------------------------------
(* createCoalition() takes the terms of the task; who is told of it has    *)
(* shown its intent to the deployer.                                       *)
LEMMA TermsAppended ==
  ASSUME SInv, MailTerms, TaskTerms, PoolTerms, NEW a \in Agents, task[a].at = "deploy",
         committers' = committers,
         pools' = Append(pools, NewPool(a, task[a])),
         \A m \in mail' : m \in mail \/ m.kind = "coalition_ready",
         \A b \in Agents : task'[b] = task[b] \/ task'[b].at # "deploy"
  PROVE  MailTerms' /\ TaskTerms' /\ PoolTerms'
<1> DEFINE pool == NewPool(a, task[a])
<1>1. SettlementTypeOK /\ pool \in Pool
  BY DeployShape DEF SInv
<1>2. /\ DOMAIN pools' = DOMAIN pools \cup {Len(pools) + 1}
      /\ \A p \in DOMAIN pools : pools'[p] = pools[p]
      /\ pools'[Len(pools) + 1] = pool
  BY <1>1, AppendShape
<1>3. pool.by \in committers /\ Offers(committers, pool.required, pool.qty, pool.price)
  BY DEF TaskTerms, NewPool
<1> HIDE DEF pool
<1>4. PoolTerms'
  BY <1>2, <1>3 DEF PoolTerms
<1>5. MailTerms' /\ TaskTerms'
  BY DEF MailTerms, TaskTerms
<1> QED
  BY <1>4, <1>5

LEMMA ShownAppended ==
  ASSUME SInv, ShownInv, NEW a \in Agents, task[a].at = "deploy",
         disclosed' = disclosed,
         pools' = Append(pools, NewPool(a, task[a])),
         \A m \in mail' : \/ m \in mail
                          \/ /\ m.pool = Len(pools) + 1
                             /\ m.to = a \/ <<m.to, a>> \in disclosed,
         \A b \in Agents : \/ task'[b] = task[b]
                           \/ task'[b].at # "fund"
                           \/ b = a /\ task'[b].pool = Len(pools) + 1
  PROVE  ShownInv'
<1> DEFINE pool == NewPool(a, task[a])
<1>1. SettlementTypeOK /\ pool \in Pool
  BY DeployShape DEF SInv
<1>2. /\ DOMAIN pools' = DOMAIN pools \cup {Len(pools) + 1}
      /\ \A p \in DOMAIN pools : pools'[p] = pools[p]
      /\ pools'[Len(pools) + 1] = pool
  BY <1>1, AppendShape
<1>3. pool.by = a /\ pool.payers = {}
  BY DEF NewPool
<1> HIDE DEF pool
<1>4. /\ \A m \in mail : m.kind = "coalition_ready" => m.pool \in DOMAIN pools
      /\ \A b \in Agents : task[b].at = "fund" => task[b].pool \in DOMAIN pools
  BY <1>1 DEF SettlementTypeOK
<1>5. \A m \in mail' : m.kind = "coalition_ready" => ShownTo(m.to, m.pool)'
  BY <1>2, <1>3, <1>4 DEF ShownInv, ShownTo
<1>6. \A b \in Agents : task'[b].at = "fund" =>
        (b # pools'[task'[b].pool].by => <<b, pools'[task'[b].pool].by>> \in disclosed')
  BY <1>2, <1>3, <1>4 DEF ShownInv, ShownTo
<1>7. \A p \in DOMAIN pools' : \A b \in pools'[p].payers : ShownTo(b, p)'
  BY <1>2, <1>3 DEF ShownInv, ShownTo
<1> QED
  BY <1>5, <1>6, <1>7 DEF ShownInv, ShownTo

LEMMA TermsDeploy ==
  ASSUME SInv, IInv, TermsInv, NEW a \in Agents, Deployed(a) \/ DeployThrows(a)
  PROVE  TermsInv'
<1>t. /\ SettlementTypeOK /\ task \in [Agents -> Tasks] /\ pools \in Seq(Pool) /\ MemberInv
      /\ FirstCommitted /\ MailTerms /\ TaskTerms /\ PoolTerms /\ ShownInv
  BY DEF SInv, IInv, SettlementTypeOK, TermsInv
<1>i. Idle.at = "idle"
  BY DEF Idle
<1>1. UNCHANGED <<members, committers, disclosed, first>> /\ task[a].at = "deploy"
  BY DEF Deployed, DeployThrows, vars, local
<1>2. FirstCommitted'
  BY <1>t, <1>1 DEF FirstCommitted
<1>3. CASE Deployed(a)
  <2> DEFINE p == Len(pools) + 1
  <2>1. p \in Nat
    BY <1>t
  <2>2. Funds(a, p).at # "deploy" /\ (Funds(a, p).at = "fund" => Funds(a, p).pool = p)
    BY <2>1, FundsShape DEF Idle
  <2>3. task' = [task EXCEPT ![a] = Funds(a, p)]
    BY <1>3 DEF Deployed
  <2>4. /\ pools' = Append(pools, NewPool(a, task[a]))
        /\ mail' = mail \cup {Ready(a, b, p) : b \in members[a] \ {a}}
    BY <1>3 DEF Deployed
  <2>5. \A m \in mail' : m \in mail \/ /\ m.kind = "coalition_ready" /\ m.pool = p
                                       /\ <<m.to, a>> \in disclosed
    BY <1>t, <2>4 DEF Ready, MemberInv
  <2> HIDE DEF p
  <2>6. MailTerms' /\ TaskTerms' /\ PoolTerms'
    BY <1>t, <1>1, <2>2, <2>3, <2>4, <2>5, TermsAppended
  <2>7. ShownInv'
    BY <1>t, <1>1, <2>2, <2>3, <2>4, <2>5, ShownAppended DEF p
  <2> QED
    BY <1>2, <2>6, <2>7 DEF TermsInv
<1>4. CASE DeployThrows(a)
  <2>1. /\ mail' = mail
        /\ \A b \in Agents : task'[b] = task[b] \/ task'[b].at = "idle"
        /\ pools' = pools \/ pools' = Append(pools, NewPool(a, task[a]))
    BY <1>t, <1>i, <1>4 DEF DeployThrows
  <2>2. CASE pools' = pools
    <3>1. MailTerms' /\ TaskTerms' /\ PoolTerms'
      BY <1>t, <1>1, <2>1, <2>2, TermsKept
    <3>2. ShownInv'
      BY <1>t, <1>1, <2>1, <2>2, ShownKept
    <3> QED
      BY <1>2, <3>1, <3>2 DEF TermsInv
  <2>3. CASE pools' = Append(pools, NewPool(a, task[a]))
    <3>1. MailTerms' /\ TaskTerms' /\ PoolTerms'
      BY <1>t, <1>1, <2>1, <2>3, TermsAppended
    <3>2. ShownInv'
      BY <1>t, <1>1, <2>1, <2>3, ShownAppended
    <3> QED
      BY <1>2, <3>1, <3>2 DEF TermsInv
  <2> QED
    BY <2>1, <2>2, <2>3
<1> QED
  BY <1>3, <1>4

(* A step that only pays, takes back or ends a pool.                       *)
LEMMA TermsQuiet ==
  ASSUME SettlementTypeOK, TermsInv,
         UNCHANGED <<members, committers, disclosed, first, mail>>,
         \A b \in Agents : task'[b] = task[b] \/ task'[b].at \notin {"deploy", "fund"},
         DOMAIN pools' = DOMAIN pools,
         \A p \in DOMAIN pools : /\ pools'[p].by = pools[p].by
                                 /\ pools'[p].required = pools[p].required
                                 /\ pools'[p].qty = pools[p].qty
                                 /\ pools'[p].price = pools[p].price
                                 /\ pools'[p].payers \subseteq pools[p].payers
  PROVE  TermsInv'
<1>1. MailTerms' /\ TaskTerms' /\ PoolTerms'
  BY TermsKept DEF TermsInv
<1>2. ShownInv'
  BY ShownKept DEF TermsInv
<1>3. FirstCommitted'
  BY DEF TermsInv, FirstCommitted
<1> QED
  BY <1>1, <1>2, <1>3 DEF TermsInv

(* Coalition.fund() is called by agents that showed their intent.          *)
LEMMA TermsSendFund ==
  ASSUME SInv, TermsInv, NEW a \in Agents, SendFund(a)
  PROVE  TermsInv'
<1> DEFINE p == task[a].pool
<1>t. /\ SettlementTypeOK /\ task \in [Agents -> Tasks] /\ pools \in Seq(Pool)
      /\ FirstCommitted /\ MailTerms /\ TaskTerms /\ PoolTerms /\ ShownInv
  BY DEF SInv, SettlementTypeOK, TermsInv
<1>1. /\ task[a] \in [at : {"fund", "receipt", "tool"}, pool : Nat] /\ p \in DOMAIN pools
      /\ task[a].at = "fund"
  BY <1>t, TaskShape DEF SendFund
<1>2. /\ UNCHANGED <<members, committers, disclosed, first, mail>>
      /\ task' = [task EXCEPT ![a].at = "receipt"]
      /\ pools' = IF Accepts(p, a) THEN [pools EXCEPT ![p].payers = @ \cup {a}] ELSE pools
  BY DEF SendFund, vars, local
<1>3. \A b \in Agents : task'[b] = task[b] \/ task'[b].at = "receipt"
  BY <1>t, <1>1, <1>2
<1>4. /\ DOMAIN pools' = DOMAIN pools
      /\ \A q \in DOMAIN pools : /\ pools'[q].by = pools[q].by
                                 /\ pools'[q].required = pools[q].required
                                 /\ pools'[q].qty = pools[q].qty
                                 /\ pools'[q].price = pools[q].price
                                 /\ pools'[q].payers \subseteq pools[q].payers \cup {a}
                                 /\ q # p => pools'[q].payers = pools[q].payers
  BY <1>t, <1>1, <1>2 DEF Pool
<1>5. MailTerms' /\ TaskTerms' /\ PoolTerms'
  BY <1>t, <1>2, <1>3, <1>4, TermsKept
<1>6. FirstCommitted'
  BY <1>t, <1>2 DEF FirstCommitted
<1>7. ShownInv'
  <2>1. ShownTo(a, p)
    BY <1>t, <1>1 DEF ShownInv
  <2>2. \A q \in DOMAIN pools' : \A b \in pools'[q].payers :
          b # pools'[q].by => <<b, pools'[q].by>> \in disclosed'
    BY <1>t, <1>1, <1>2, <1>4, <2>1 DEF ShownInv, ShownTo
  <2>3. \A m \in mail' : m.kind = "coalition_ready" => ShownTo(m.to, m.pool)'
    BY <1>t, <1>2, <1>4 DEF ShownInv, ShownTo, SettlementTypeOK
  <2>4. \A b \in Agents : task'[b].at = "fund" => task'[b] = task[b]
    BY <1>3
  <2>5. \A b \in Agents : task'[b].at = "fund" => ShownTo(b, task[b].pool)'
    BY <1>t, <1>2, <1>4, <2>4 DEF ShownInv, ShownTo, SettlementTypeOK
  <2> QED
    BY <2>2, <2>3, <2>4, <2>5 DEF ShownInv, ShownTo
<1> QED
  BY <1>5, <1>6, <1>7 DEF TermsInv

LEMMA TermsAgentStep ==
  ASSUME SInv, IInv, TermsInv, NEW a \in Agents, AgentStep(a)
  PROVE  TermsInv'
<1>t. SettlementTypeOK /\ task \in [Agents -> Tasks]
  BY DEF SInv, SettlementTypeOK
<1>i. Idle.at = "idle"
  BY DEF Idle
<1>1. CASE FundReceipt(a) \/ FundThrows(a) \/ CallTool(a)
  <2>1. UNCHANGED <<members, committers, disclosed, first, mail>>
    BY <1>1 DEF FundReceipt, FundThrows, CallTool, vars, local
  <2>2. task[a] \in [at : {"fund", "receipt", "tool"}, pool : Nat] /\ task[a].pool \in DOMAIN pools
    BY <1>t, <1>1, TaskShape DEF FundReceipt, FundThrows, CallTool
  <2>3. \A b \in Agents : task'[b] = task[b] \/ task'[b].at \notin {"deploy", "fund"}
    BY <1>t, <1>i, <1>1, <2>2 DEF FundReceipt, FundThrows, CallTool
  <2>4. pools' = pools \/ pools' = Settled(task[a].pool)
    BY <1>1 DEF FundReceipt, FundThrows, CallTool
  <2> QED
    BY <1>t, <2>1, <2>2, <2>3, <2>4, TermsQuiet, SettledKeeps
<1> QED
  BY <1>1, TermsDeploy, TermsSendFund DEF AgentStep

LEMMA TermsStep ==
  ASSUME SInv, SInv', IInv, IInv', TermsInv, [SettlementNext]_svars
  PROVE  TermsInv'
<1>t. SettlementTypeOK /\ TypeOK /\ task \in [Agents -> Tasks] /\ pools \in Seq(Pool)
  BY DEF SInv, IInv, SettlementTypeOK
<1>1. ASSUME NEW a \in Agents, Submit(a) \/ Expire(a), UNCHANGED settling PROVE TermsInv'
  <2>1. committers \subseteq committers' /\ disclosed \subseteq disclosed' /\ members' = members
    BY <1>1 DEF Submit, Expire
  <2>2. MailTerms' /\ TaskTerms' /\ PoolTerms'
    BY <1>1, <2>1, TermsKept DEF TermsInv, settling
  <2>3. ShownInv'
    BY <1>t, <1>1, <2>1, ShownKept DEF TermsInv, settling
  <2>4. FirstCommitted'
    BY <1>1, <2>1 DEF TermsInv, FirstCommitted, settling
  <2> QED
    BY <2>2, <2>3, <2>4 DEF TermsInv
<1>2. ASSUME NEW p \in DOMAIN pools, PoolStep(p) PROVE TermsInv'
  <2>1. UNCHANGED <<members, committers, disclosed, first, mail, task>>
    BY <1>2 DEF PoolStep, KeeperCommits, Cancels, Lapse, vars, local
  <2>2. /\ DOMAIN pools' = DOMAIN pools
        /\ \A q \in DOMAIN pools : /\ pools'[q].by = pools[q].by
                                   /\ pools'[q].required = pools[q].required
                                   /\ pools'[q].qty = pools[q].qty
                                   /\ pools'[q].price = pools[q].price
                                   /\ pools'[q].payers \subseteq pools[q].payers
    <3>1. pools[p] \in Pool
      BY <1>t
    <3>2. CASE KeeperCommits(p)
      BY <1>t, <3>2, SettledKeeps DEF KeeperCommits
    <3>3. CASE Cancels(p)
      BY <1>t, <3>1, <3>3 DEF Cancels, Pool
    <3>4. CASE Lapse(p)
      BY <1>t, <3>1, <3>4 DEF Lapse, Pool
    <3> QED
      BY <1>2, <3>2, <3>3, <3>4 DEF PoolStep
  <2> QED
    BY <1>t, <2>1, <2>2, TermsQuiet
<1>3. ASSUME NEW a \in Restarting, Reboot(a) PROVE TermsInv'
  <2>1. /\ UNCHANGED <<committers, disclosed, mail>> /\ a \in Agents
        /\ \A b \in Agents : task'[b] = task[b] \/ task'[b].at \notin {"deploy", "fund"}
        /\ \/ pools' = pools
           \/ task[a].at = "deploy" /\ pools' = Append(pools, NewPool(a, task[a]))
    BY <1>t, <1>3, FaultAssumption DEF Reboot, Restart, Idle
  <2>2. MailTerms' /\ TaskTerms' /\ PoolTerms'
    BY <2>1, TermsKept, TermsAppended DEF TermsInv
  <2>3. ShownInv'
    BY <1>t, <2>1, ShownKept, ShownAppended DEF TermsInv
  <2>4. \A b \in Agents : members'[b] # {} => members'[b] = members[b] /\ first'[b] = first[b]
    BY <1>t, <1>3, FaultAssumption DEF Reboot, Restart, TypeOK, SettlementTypeOK
  <2>5. FirstCommitted'
    BY <2>1, <2>4 DEF TermsInv, FirstCommitted
  <2> QED
    BY <2>2, <2>3, <2>5 DEF TermsInv
<1>4. CASE UNCHANGED svars
  BY <1>4, <1>t, TermsQuiet DEF svars, settling, vars, local
<1>5. ASSUME NEW m \in mail, Deliver(m) PROVE TermsInv'
  BY <1>5, TermsSellerAnswers, TermsOnNegotiateResponse, TermsOnCoalitionReady DEF Deliver
<1>6. Expiring \subseteq Agents
  BY FaultAssumption
<1> QED
  BY <1>1, <1>2, <1>3, <1>4, <1>5, <1>6, TermsMeet, TermsAgentStep DEF SettlementNext, Matching

LEMMA TermsHold == SettlementSpec => [](IInv /\ TermsInv)
<1>1. SettlementSpec => []IInv
  BY SettlementKeepsRendezvous, InductiveInvariant, PTL
<1>2. SInv /\ SInv' /\ IInv /\ IInv' /\ TermsInv /\ [SettlementNext]_svars => TermsInv'
  BY TermsStep
<1> QED
  BY <1>1, <1>2, TermsInit, SettlementInductive, PTL DEF SettlementSpec

(* Whatever is deployed asks for at least K buyers, on the terms of one    *)
(* who committed, at the lowest price so many clear, and whoever pays has  *)
(* shown its intent to the deployer: for any number of agents, any falling *)
(* card, and messages and failures in any order.                           *)
THEOREM SoundPoolsHolds == ASSUME DescendingCard PROVE SettlementSpec => []SoundPools
<1>1. TermsInv => SoundPools
  BY DEF TermsInv, PoolTerms, Offers, ShownInv, ShownTo, SoundPools
<1> QED
  BY <1>1, TermsHold, PTL
-----------------------------------------------------------------------------
(***************************************************************************)
(* What is paid.  The terms of a pool are within the maximum of one agent  *)
(* that committed, and whoever pays has committed too.                     *)
(***************************************************************************)
(* submit() puts an agent under the commitment of its own intent.          *)
LEMMA OnlyMatchingCommit == SettlementSpec => [](committers \subseteq Matching)
<1>1. SettlementInit => committers \subseteq Matching
  BY DEF SettlementInit, Init
<1>2. committers \subseteq Matching /\ [SettlementNext]_svars => (committers \subseteq Matching)'
  <2> SUFFICES ASSUME committers \subseteq Matching, SettlementNext
               PROVE  committers' \subseteq Matching
    BY DEF svars, vars, Matching
  <2>1. ASSUME NEW a \in Matching, Submit(a) PROVE committers' \subseteq Matching
    BY <2>1 DEF Submit
  <2>2. ASSUME NEW m \in net, Meet(m) PROVE committers' = committers
    BY <2>2 DEF Meet, Receive, OnCommit, OnRevealRequest, OnRevealResponse
  <2>3. ASSUME NEW m \in mail, Deliver(m) PROVE committers' = committers
    BY <2>3 DEF Deliver, SellerAnswers, OnNegotiateResponse, OnCoalitionReady, vars
  <2>4. ASSUME NEW a \in Agents, AgentStep(a) PROVE committers' = committers
    BY <2>4 DEF AgentStep, Deployed, DeployThrows, SendFund, FundReceipt, FundThrows, CallTool, vars
  <2>5. ASSUME NEW p \in DOMAIN pools, PoolStep(p) PROVE committers' = committers
    BY <2>5 DEF PoolStep, KeeperCommits, Cancels, Lapse, vars
  <2>6. ASSUME NEW a \in Agents, Expire(a) \/ Restart(a) PROVE committers' = committers
    BY <2>6 DEF Expire, Restart
  <2> QED
    BY <2>1, <2>2, <2>3, <2>4, <2>5, <2>6, FaultAssumption DEF SettlementNext, Reboot
<1> QED
  BY <1>1, <1>2, PTL DEF SettlementSpec

(* Nobody pays more than its own maximum rounded up to the next step, for  *)
(* any intents of any agents, any card, and messages and failures in any   *)
(* order.                                                                  *)
THEOREM WithinBucketHolds == SettlementSpec => []WithinBucket
<1>1. IInv /\ TermsInv /\ SInv /\ committers \subseteq Matching => WithinBucket
  <2> SUFFICES ASSUME IInv, TermsInv, SInv, committers \subseteq Matching,
                      NEW p \in DOMAIN pools, NEW a \in pools[p].payers
               PROVE  pools[p].price <= Ceiling(Intent[a].max)
    BY DEF WithinBucket
  <2>t. pools[p] \in Pool /\ PoolTerms /\ ShownInv /\ KAnonymity
    BY DEF SInv, SettlementTypeOK, TermsInv, IInv
  <2>1. a \in Matching
    <3>1. a \in committers
      BY <2>t DEF PoolTerms, ShownInv, ShownTo, KAnonymity
    <3> QED
      BY <3>1
  <2>2. PICK b \in Matching : pools[p].price <= Intent[b].max
    BY <2>t DEF PoolTerms, Offers
  <2>3. TierBucket(Intent[a].max) = TierBucket(Intent[b].max)
    BY <2>1, <2>2 DEF Matching, Commitment
  <2>4. Intent[a].max \in Nat /\ Intent[b].max \in Nat
    BY <2>1, <2>2, IntentAssumption DEF Matching, IntentType
  <2>5. /\ Ceiling(Intent[a].max) = TIER_STEP * TierBucket(Intent[a].max)
        /\ Ceiling(Intent[b].max) = TIER_STEP * TierBucket(Intent[b].max)
        /\ Intent[b].max <= Ceiling(Intent[b].max) /\ Ceiling(Intent[b].max) \in Nat
    BY <2>4, CeilingBounds
  <2>6. pools[p].price \in Nat
    BY <2>t DEF Pool
  <2> QED
    BY <2>2, <2>3, <2>4, <2>5, <2>6
<1> QED
  BY <1>1, TermsHold, OnlyMatchingCommit, SettlementInductive, PTL
=============================================================================
