----------------------------- MODULE Settlement -----------------------------
(***************************************************************************)
(* From a formed cluster to money in an escrow (agent/src/agent.ts from    *)
(* tryNegotiate() on, seller.ts, chain.ts): the agent that elected itself  *)
(* coordinator asks the seller for a price, deploys a coalition, tells its *)
(* members, and every member funds it and asks for the commit.             *)
(*                                                                         *)
(* Composed with Rendezvous: an agent's run loop handles one message at a  *)
(* time, so while a handler of this module awaits the chain the messages   *)
(* of Rendezvous wait too.  task says at which await the agent is.  A pool *)
(* is a deployed coalition as AtomicSettlement abstracts it, which         *)
(* Coalition implements.                                                   *)
(***************************************************************************)
EXTENDS Rendezvous, IntentMatching, Sequences

CONSTANTS
  Intent,       \* the intent of each agent
  Followed,     \* the commitment that this module follows, as Rendezvous does
  TierCard,     \* the seller's tiers for each SKU it offers, ascending
  DropOuts,     \* agents with AUTO_FUND=false
  Broke,        \* agents whose wallet does not hold a slice
  Failing,      \* agents whose RPC calls may throw
  Lapsing,      \* whether an offer may run out
  MaxPools      \* bound: deployed coalitions

Tier == [minBuyers : Nat, unitPrice : Nat \ {0}]

ASSUME IntentAssumption == Intent \in [Agents -> IntentType]
ASSUME CardAssumption == \A sku \in DOMAIN TierCard : TierCard[sku] \in Seq(Tier)
ASSUME PartAssumption == /\ DropOuts \subseteq Agents /\ Broke \subseteq Agents
                         /\ Failing \subseteq Agents /\ Lapsing \in BOOLEAN
                         /\ MaxPools \in Nat

VARIABLES
  first,        \* the first key of the Map ClusterState.members
  mail,         \* negotiate and coalition_ready messages under way
  task,         \* what the agent's current handler awaits
  address,      \* ClusterState.coalitionAddress; NoPool while undefined
  fundedByMe,   \* agents with ClusterState.fundedByMe
  pools         \* the chain: the deployed coalitions

settling == <<first, mail, task, address, fundedByMe, pools>>
svars == <<vars, settling>>

NoPool == 0
Declined == 0
Idle == [at |-> "idle"]

Request(a, n, sample) == [kind |-> "negotiate_request", from |-> a, n |-> n,
                          sku |-> Intent[sample].sku, max |-> Intent[sample].max,
                          qty |-> Intent[sample].qty]
Response(a, n, qty, price) == [kind |-> "negotiate_response", to |-> a, n |-> n,
                               qty |-> qty, price |-> price]
Ready(a, b, p) == [kind |-> "coalition_ready", from |-> a, to |-> b, pool |-> p]

NewPool(a, t) == [by |-> a, price |-> t.price, qty |-> t.qty, required |-> t.n,
                  payers |-> {}, outcome |-> "open", lapsed |-> FALSE]

Full(p) == Cardinality(pools[p].payers) = pools[p].required

(* Whose submit() is one of this commitment; what the others submit goes   *)
(* under theirs, and here they only see what is broadcast.                 *)
Matching == {a \in Agents : Commitment(Intent[a]) = Followed}

SettlementInit == /\ Init
                  /\ first = [a \in Agents |-> NoAgent]
                  /\ mail = {}
                  /\ task = [a \in Agents |-> Idle]
                  /\ address = [a \in Agents |-> NoPool]
                  /\ fundedByMe = {}
                  /\ pools = <<>>
-----------------------------------------------------------------------------
(* A message of Rendezvous.  An agent it makes coordinator sends the seller*)
(* the terms of the first member in its map (tryNegotiate()).              *)
Meet(m) ==
  LET a == m.to
      elected == ~ Formed(a) /\ coordinator'[a] = a
  IN  /\ task[a] = Idle
      /\ Receive(m)
      /\ first' = IF members[a] = {} /\ members'[a] # {}
                  THEN [first EXCEPT ![a] = IF m.kind = "commit" THEN a ELSE m.from]
                  ELSE first
      /\ mail' = mail \cup (IF elected THEN {Request(a, Cardinality(members'[a]), first'[a])}
                                       ELSE {})
      /\ UNCHANGED <<task, address, fundedByMe, pools>>

(* The tiers of a SKU that n buyers clear; none when it is not on the card.*)
Cleared(sku, n) == IF sku \in DOMAIN TierCard
                   THEN {i \in DOMAIN TierCard[sku] : n >= TierCard[sku][i].minBuyers}
                   ELSE {}

(* Variant: the first tier the count clears, not the last.                 *)
PickTierFirst(sku, n) == IF Cleared(sku, n) = {} THEN Declined
                         ELSE TierCard[sku][Smallest(Cleared(sku, n))].unitPrice

(* pickTierPrice(): the last tier whose minBuyers the count clears.  The   *)
(* SKU is looked up as the buyer spelled it.                               *)
PickTierPrice(sku, n) ==
  LET cleared == Cleared(sku, n)
      last == CHOOSE i \in cleared : \A j \in cleared : j <= i
  IN  IF cleared = {} THEN Declined ELSE TierCard[sku][last].unitPrice

(* handleNegotiate(): the seller keeps no state, so a repeated request is  *)
(* answered again.                                                         *)
SellerAnswers(m) ==
  LET tier == PickTierPrice(m.sku, m.n)
      price == IF tier > m.max THEN Declined ELSE tier
  IN  /\ m.kind = "negotiate_request"
      /\ mail' = (IF Duplicating THEN mail ELSE mail \ {m})
                 \cup {Response(m.from, m.n, m.qty, price)}
      /\ UNCHANGED <<vars, first, task, address, fundedByMe, pools>>

(* Variant: maybeDeployCoalition() without its coalitionAddress check.     *)
DeploysAgain(a, m) == coordinator[a] = a /\ m.price # Declined

Deploys(a, m) == coordinator[a] = a /\ m.price # Declined /\ address[a] = NoPool

(* onNegotiateResponse(): the coordinator sends createCoalition() with the *)
(* terms of the response.                                                  *)
OnNegotiateResponse(m) ==
  LET a == m.to
  IN  /\ m.kind = "negotiate_response"
      /\ task[a] = Idle
      /\ mail' = mail \ {m}
      /\ task' = IF Deploys(a, m)
                 THEN [task EXCEPT ![a] = [at |-> "deploy", n |-> m.n, qty |-> m.qty,
                                           price |-> m.price]]
                 ELSE task
      /\ UNCHANGED <<vars, first, address, fundedByMe, pools>>

(* Variant: maybeFundCoalition() without its fundedByMe check.             *)
FundsAgain(a, p) == IF a \in members[a] \ DropOuts
                    THEN [at |-> "fund", pool |-> p] ELSE Idle

(* What maybeFundCoalition() makes the agent do next.                      *)
Funds(a, p) == IF a \in members[a] \ (DropOuts \cup fundedByMe)
               THEN [at |-> "fund", pool |-> p] ELSE Idle

(* deployCoalition() returns the address: everyone in the cluster by now   *)
(* is told, and the coordinator funds its own slice.                       *)
Deployed(a) ==
  LET p == Len(pools) + 1
  IN  /\ task[a].at = "deploy"
      /\ Len(pools) < MaxPools
      /\ pools' = Append(pools, NewPool(a, task[a]))
      /\ address' = [address EXCEPT ![a] = p]
      /\ mail' = mail \cup {Ready(a, b, p) : b \in members[a] \ {a}}
      /\ task' = [task EXCEPT ![a] = Funds(a, p)]
      /\ UNCHANGED <<vars, first, fundedByMe>>

(* Variant: the address is worked out beforehand and kept whatever happens.*)
DeployThrowsKeeping(a) ==
  /\ task[a].at = "deploy" /\ a \in Failing
  /\ \/ pools' = pools
     \/ Len(pools) < MaxPools /\ pools' = Append(pools, NewPool(a, task[a]))
  /\ address' = [address EXCEPT ![a] = Len(pools) + 1]
  /\ task' = [task EXCEPT ![a] = Idle]
  /\ UNCHANGED <<vars, first, mail, fundedByMe>>

(* deployCoalition() throws, before or after the transaction was mined: a  *)
(* coalition nobody will be told of may be left on the chain.              *)
DeployThrows(a) ==
  /\ task[a].at = "deploy" /\ a \in Failing
  /\ \/ pools' = pools
     \/ Len(pools) < MaxPools /\ pools' = Append(pools, NewPool(a, task[a]))
  /\ task' = [task EXCEPT ![a] = Idle]
  /\ UNCHANGED <<vars, first, mail, address, fundedByMe>>

(* Variant: an announcement is believed only once the cluster is formed.   *)
BelievesFormed(m) == Formed(m.to) /\ m.from = coordinator[m.to]

(* A cluster is in the map once it has a member; the sender is only        *)
(* compared with a coordinator the agent already has.                      *)
Believes(m) == members[m.to] # {} /\ (Formed(m.to) => m.from = coordinator[m.to])

(* onCoalitionReady(): a later address replaces an earlier one.            *)
OnCoalitionReady(m) ==
  LET a == m.to
  IN  /\ m.kind = "coalition_ready"
      /\ task[a] = Idle
      /\ mail' = mail \ {m}
      /\ IF Believes(m)
         THEN /\ address' = [address EXCEPT ![a] = m.pool]
              /\ task' = [task EXCEPT ![a] = Funds(a, m.pool)]
         ELSE UNCHANGED <<address, task>>
      /\ UNCHANGED <<vars, first, fundedByMe, pools>>

(* Coalition.fund() takes the agent's slice, or reverts.                   *)
Accepts(p, a) == /\ pools[p].outcome = "open"
                 /\ ~ Full(p) /\ ~ pools[p].lapsed
                 /\ a \notin pools[p].payers \cup Broke

(* The fund transaction, sent with a gas limit of its own and so mined     *)
(* even when it reverts.                                                   *)
SendFund(a) ==
  LET p == task[a].pool
  IN  /\ task[a].at = "fund"
      /\ pools' = IF Accepts(p, a) THEN [pools EXCEPT ![p].payers = @ \cup {a}] ELSE pools
      /\ task' = [task EXCEPT ![a].at = "receipt"]
      /\ UNCHANGED <<vars, first, mail, address, fundedByMe>>

(* The receipt arrives; its status is not looked at.                       *)
FundReceipt(a) == /\ task[a].at = "receipt"
                  /\ fundedByMe' = fundedByMe \cup {a}
                  /\ task' = [task EXCEPT ![a].at = "tool"]
                  /\ UNCHANGED <<vars, first, mail, address, pools>>

FundThrows(a) == /\ task[a].at \in {"fund", "receipt"} /\ a \in Failing
                 /\ task' = [task EXCEPT ![a] = Idle]
                 /\ UNCHANGED <<vars, first, mail, address, fundedByMe, pools>>

Settled(p) == [pools EXCEPT ![p].outcome = "settled"]

(* The seller's commit_coalition tool is asked to commit; it may be down,  *)
(* or hold another key than the keeper's, or find the pool not full.       *)
CallTool(a) ==
  LET p == task[a].pool
  IN  /\ task[a].at = "tool"
      /\ \/ pools' = pools
         \/ pools[p].outcome = "open" /\ Full(p) /\ pools' = Settled(p)
      /\ task' = [task EXCEPT ![a] = Idle]
      /\ UNCHANGED <<vars, first, mail, address, fundedByMe>>

(* The keeper of the pool (module KeeperLoop).                             *)
KeeperCommits(p) == /\ pools[p].outcome = "open" /\ Full(p)
                    /\ pools' = Settled(p)
                    /\ UNCHANGED <<vars, first, mail, task, address, fundedByMe>>

(* Variant: lapsed pools are looked for among those that are full.         *)
CancelsFull(p) == /\ pools[p].outcome = "open" /\ pools[p].lapsed /\ Full(p)
                  /\ pools' = [pools EXCEPT ![p].outcome = "cancelled", ![p].payers = {}]
                  /\ UNCHANGED <<vars, first, mail, task, address, fundedByMe>>

(* Variant: a refund that does not ask whether the pool is committed.      *)
CancelsAnyway(p) == /\ pools[p].lapsed
                    /\ pools' = [pools EXCEPT ![p].outcome = "cancelled", ![p].payers = {}]
                    /\ UNCHANGED <<vars, first, mail, task, address, fundedByMe>>

(* refundAll() by the keeper or, after validUntil, by anyone.              *)
Cancels(p) == /\ pools[p].outcome = "open" /\ pools[p].lapsed
              /\ pools' = [pools EXCEPT ![p].outcome = "cancelled", ![p].payers = {}]
              /\ UNCHANGED <<vars, first, mail, task, address, fundedByMe>>

Lapse(p) == /\ Lapsing /\ ~ pools[p].lapsed
            /\ pools' = [pools EXCEPT ![p].lapsed = TRUE]
            /\ UNCHANGED <<vars, first, mail, task, address, fundedByMe>>

(* A restart forgets the handler's task and the cluster with all it holds; *)
(* a deployment it awaited may be mined all the same.                      *)
Reboot(a) == /\ Restart(a)
             /\ first' = [first EXCEPT ![a] = NoAgent]
             /\ task' = [task EXCEPT ![a] = Idle]
             /\ address' = [address EXCEPT ![a] = NoPool]
             /\ fundedByMe' = fundedByMe \ {a}
             /\ \/ pools' = pools
                \/ /\ task[a].at = "deploy" /\ Len(pools) < MaxPools
                   /\ pools' = Append(pools, NewPool(a, task[a]))
             /\ UNCHANGED mail

Deliver(m) == SellerAnswers(m) \/ OnNegotiateResponse(m) \/ OnCoalitionReady(m)

AgentStep(a) == \/ Deployed(a) \/ DeployThrows(a)
                \/ SendFund(a) \/ FundReceipt(a) \/ FundThrows(a) \/ CallTool(a)

PoolStep(p) == KeeperCommits(p) \/ Cancels(p) \/ Lapse(p)

(* An agent submits once: a bound, for Rendezvous lets it submit again.    *)
SettlementNext ==
  \/ (\E a \in Matching \ submitted : Submit(a)) /\ UNCHANGED settling
  \/ (\E a \in Expiring : Expire(a)) /\ UNCHANGED settling
  \/ \E m \in net : Meet(m)
  \/ \E m \in mail : Deliver(m)
  \/ \E a \in Agents : AgentStep(a)
  \/ \E p \in DOMAIN pools : PoolStep(p)
  \/ \E a \in Restarting : Reboot(a)

SettlementSpec == SettlementInit /\ [][SettlementNext]_svars

(* Time passes and every pool has a keeper; agents may stop for good at any*)
(* await, as a process does whose AXL node fails it (index.ts:136, 179).   *)
KeptSettlementSpec == /\ SettlementSpec
                      /\ \A p \in 1..MaxPools : WF_svars(p \in DOMAIN pools /\ PoolStep(p))

(* Every agent keeps polling and finishing its handlers, the seller answers*)
(* and the keeper watches every pool; nothing is lost.                     *)
SettlementFairness ==
  /\ \A m \in Messages : WF_svars(m \in net /\ Meet(m))
  /\ \A a \in Agents :
       /\ WF_svars(AgentStep(a))
       /\ WF_svars(\E m \in mail : SellerAnswers(m) /\ m.from = a)
       /\ WF_svars(\E m \in mail : OnNegotiateResponse(m) /\ m.to = a)
       /\ WF_svars(\E m \in mail : OnCoalitionReady(m) /\ m.to = a)
  /\ \A p \in 1..MaxPools : WF_svars(p \in DOMAIN pools /\ KeeperCommits(p))

FairSettlementSpec == SettlementSpec /\ SettlementFairness
-----------------------------------------------------------------------------
Mail == [kind : {"negotiate_request"}, from : Agents, n : Nat, sku : Skus, max : Nat, qty : Nat]
        \cup [kind : {"negotiate_response"}, to : Agents, n : Nat, qty : Nat, price : Nat]
        \cup [kind : {"coalition_ready"}, from : Agents, to : Agents, pool : Nat]
Tasks == [at : {"idle"}]
         \cup [at : {"deploy"}, n : Nat, qty : Nat, price : Nat]
         \cup [at : {"fund", "receipt", "tool"}, pool : Nat]
Pool == [by : Agents, price : Nat, qty : Nat, required : Nat, payers : SUBSET Agents,
         outcome : {"open", "settled", "cancelled"}, lapsed : BOOLEAN]

(* Types; and every address an agent holds, funds or is sent is that of a  *)
(* deployed coalition.                                                     *)
SettlementTypeOK ==
  /\ first \in [Agents -> Agents \cup {NoAgent}]
  /\ mail \subseteq Mail
  /\ task \in [Agents -> Tasks]
  /\ address \in [Agents -> {NoPool} \cup DOMAIN pools]
  /\ fundedByMe \subseteq Agents
  /\ pools \in Seq(Pool)
  /\ \A m \in mail : m.kind = "coalition_ready" => m.pool \in DOMAIN pools
  /\ \A a \in Agents : task[a].at \notin {"idle", "deploy"} => task[a].pool \in DOMAIN pools

(* No agent has money in two coalitions at once, although two coordinators *)
(* may both count on it, announcements of both reach it in any order, and  *)
(* fund() is preceded by several awaits (agent.ts:396-431).  An RPC error  *)
(* or a restart makes an agent forget that it paid.                        *)
PaysOnce == \A a \in Agents \ (Failing \cup Restarting) :
              \A p, q \in DOMAIN pools : a \in pools[p].payers \cap pools[q].payers => p = q

(* A coordinator gets one coalition paid, although the seller may answer   *)
(* it twice and a deployment whose receipt was lost is made again          *)
(* (agent.ts:340, 215).                                                    *)
OneDeal == \A p, q \in DOMAIN pools :
             pools[p].by = pools[q].by /\ pools[p].by \notin Restarting =>
               p = q \/ pools[p].payers = {} \/ pools[q].payers = {}

(* Whoever pays has committed and has shown its intent to the agent that   *)
(* deployed the coalition; the coalition asks for at least K buyers, on    *)
(* the terms of one of them, at the lowest price so many buyers clear      *)
(* (agent.ts:289-301, 346-376, seller.ts:21-29, 93-143).                   *)
SoundPools == \A p \in DOMAIN pools :
  LET pool == pools[p]
  IN  /\ \A a \in pool.payers \ {pool.by} : <<a, pool.by>> \in disclosed
      /\ pool.required >= K
      /\ \E a \in committers :
           /\ pool.price <= Intent[a].max /\ pool.qty = Intent[a].qty
           /\ \E i \in Cleared(Intent[a].sku, pool.required) :
                LET card == TierCard[Intent[a].sku]
                IN  /\ pool.price = card[i].unitPrice
                    /\ \A j \in Cleared(Intent[a].sku, pool.required) :
                         card[j].unitPrice >= pool.price

(* The seller's account is no agent's.                                     *)
Merchant == -1

Slice(p) == pools[p].price * pools[p].qty

(* What each account has gained through pool p.                            *)
Gain(p) == [x \in Agents \cup {Merchant} |->
  IF x = Merchant THEN IF pools[p].outcome = "settled" THEN Slice(p) * pools[p].required ELSE 0
                  ELSE IF x \in pools[p].payers THEN - Slice(p) ELSE 0]

EscrowOf(p) == INSTANCE AtomicSettlement WITH
  Parties <- Agents \cup {Merchant}, Payee <- Merchant,
  slice <- Slice(p), quorum <- pools[p].required,
  outcome <- pools[p].outcome, payers <- pools[p].payers, net <- Gain(p)

(* "No partial state" (Coalition.sol:9) among the agents: a pool is to     *)
(* them what AtomicSettlement says of Coalition.sol.  It starts with terms *)
(* that can be settled, which nobody changes, and whatever agents, keeper  *)
(* and seller do in whatever order pays it, settles it in full or cancels  *)
(* it, at any time as long as it is open (agent.ts:346-376, 396-451).      *)
PoolsAreAtomic == [][
  /\ \A p \in DOMAIN pools : [EscrowOf(p)!Next]_(EscrowOf(p)!vars)
  /\ \A p \in DOMAIN pools' \ DOMAIN pools : EscrowOf(p)!Init']_svars

(* "Settled (commit ready)" (agent.ts:114) and "fund: success"             *)
(* (agent.ts:430): an agent that says so has paid into its coalition, or   *)
(* had its money back from it.                                             *)
SettledMeansPaid == \A a \in fundedByMe : task[a].at = "tool" =>
  a \in pools[task[a].pool].payers \/ pools[task[a].pool].outcome = "cancelled"

(* The seller compares its price with the maximum of one member, and no    *)
(* other member looks at its own.  Still nobody pays more than its maximum *)
(* rounded up to the next step, because only agents whose maxima round up  *)
(* to the same one ever come into a cluster with it                        *)
(* (intent.ts:17-22, agent.ts:134-153, 290-301, seller.ts:109).            *)
WithinBucket == \A p \in DOMAIN pools : \A a \in pools[p].payers :
                  pools[p].price <= Ceiling(Intent[a].max)

Waiting(p) == p \in DOMAIN pools /\ pools[p].outcome = "open" /\ pools[p].payers # {}

(* Nobody's money waits for ever in a deal that others dropped out of:     *)
(* whichever agents stop, restart or lose a receipt, and whoever is not    *)
(* told of a coalition, what was paid into it is settled or goes back, as  *)
(* long as somebody keeps the pool (agent.ts:407, demo-dropout-replay.ps1).*)
MoneyReturns == \A p \in 1..MaxPools : Waiting(p) ~> ~ Waiting(p)

(* Agents that submit after the others have revealed are not revealed to   *)
(* (revealsInitiated, agent.ts:193); nor does the last one needed start a  *)
(* reveal itself.  Still, whenever K agents that know each other have      *)
(* submitted, in any order and beside whoever else does, all of them but   *)
(* one at most come into a cluster, and all into one cluster when nobody   *)
(* else has submitted.                                                     *)
EnoughMeet == \A S \in SUBSET Matching : (CanMeet(S) /\ S \subseteq submitted) ~> Meets(S)

(* Nobody has anything left to do: a request that is sent again would find *)
(* its sender with a coalition.                                            *)
AtRest == /\ \A m \in net : Seen(m)
          /\ \A m \in mail : m.kind = "negotiate_request" /\ address[m.from] # NoPool
          /\ \A a \in Agents : task[a] = Idle

(* K buyers like a are offered a price that a accepts.                     *)
Offered(a) == PickTierPrice(Intent[a].sku, K) \in 1..Intent[a].max

(* K agents that can meet and whom the seller can serve end up with a      *)
(* coalition of K that has the slice of each of them that pays, unless its *)
(* offer ran out first: the announcement of the coalition overtakes no     *)
(* reveal it depends on, no member is left out and nobody is asked to join *)
(* a second one, in whatever order messages, awaits and submissions cross  *)
(* (agent.ts:312-451, 385-389).                                            *)
SettledAtRest ==
  /\ AtRest
  /\ Cardinality(submitted) = K /\ CanMeet(submitted)
  /\ committers \cap Restarting = {} /\ submitted \cap (Expiring \cup Failing) = {}
  /\ \A a \in submitted : Offered(a)
  => \E p \in DOMAIN pools :
       /\ DOMAIN pools = {p} /\ pools[p].required = K
       /\ pools[p].lapsed \/ submitted \ (DropOuts \cup Broke) \subseteq pools[p].payers

(* When everyone has asked for the same thing and nothing fails, one       *)
(* coalition is funded by them all and committed, in whatever order the    *)
(* reveals and the announcement overtake each other                        *)
(* (agent.ts:312-451, 385-389).                                            *)
Settles == submitted = Agents ~>
  \E p \in DOMAIN pools : pools[p].outcome = "settled" /\ pools[p].payers = Agents
=============================================================================
