# A verification of Huddle in TLA+

Huddle lets buyer agents that want the same thing find each other without a
server, pool their payments in an escrow contract and buy at a volume price.
This directory holds TLA+ models of its core: how agents meet, how they get
from a cluster to a funded escrow, the escrow itself, and the keeper that ends
it. TLC checks the models on small instances; TLAPS proves the main safety
properties for every instance. Paths such as `agent.ts:264` are relative to
`src/agent/src`, `src/contracts/contracts` or `src/contracts/scripts`, whichever
holds the file.

Contents: [inventory](#inventory), [modules](#modules-and-the-code),
[runs](#what-the-runs-check), [proofs](#what-is-proved),
[findings](#where-the-code-and-its-documents-differ),
[abstractions and bounds](#abstractions-bounds-and-fairness),
[what is not modelled](#not-modelled), [plan](#plan).

## Inventory

| Part | Code | State it keeps | Operations |
|---|---|---|---|
| Coalition escrow | `Coalition.sol` | immutables of the deal, `state`, `buyers`, `funded`, `totalFunded` | `fund`, `commit`, `refundAll` |
| Factory | `CoalitionFactory.sol` | none | `createCoalition` |
| Keeper daemon | `scripts/keeper.ts` | what its loop read last | poll, `commit`, `refundAll`, die on an exception |
| Observer | `observer.ts` | per commitment, the peers seen | `observe`, `peersFor`, `gc` |
| Buyer agent, rendezvous | `agent.ts` up to `maybeFinalize()` | `myCommits`, `revealsInitiated`, `ClusterState.members/coordinator/formed` | `submit`, `onCommit`, `onRevealRequest`, `onRevealResponse`, election |
| Buyer agent, settlement | `agent.ts` from `tryNegotiate()`, `chain.ts` | `coalitionAddress`, `fundedByMe`, and the await its handler is at | negotiate, deploy, announce, fund, ask for the commit |
| Seller agent | `seller.ts` | none | `handleNegotiate` |
| Seller's commit tool | `keeper-mcp.ts` | none | `commit_coalition` |
| AXL client | `axl.ts` | none | `send`, `a2a`, `recv`, `callMcp` |
| Agent process | `index.ts` | none | the run loop; `/submit` and `/status` beside it |
| Intent matching | `intent.ts` | none | buckets, commitment hash |
| Operator's payment | `scripts/fund-buyer.ts` | none | read six values, `approve`, `fund` |
| Buyer profile | `BuyerProfile.sol` | token URIs, inference hashes | mint, two owner-only setters |
| Web UI | `page.tsx`, `api/keeper`, `api/spawn` | React state, `sessionStorage` | watch agents, fire the keeper |

How they interact. Agents exchange six kinds of message over the AXL mesh
(commit, reveal_request, reveal_response, negotiate_request, negotiate_response,
coalition_ready). Sending is an HTTP call that may fail, or be answered with an
error after it was delivered; `a2a` then falls back to `send`, so a message may
arrive twice. Nothing is acknowledged or sent again later. An agent handles one
message at a time (`runOnce()` awaits its handler), while `/submit` runs beside.
The coordinator and the members act on the chain through an RPC; the keeper, the
seller's tool and any account may act on the same coalition in between. An
operator may pay for a buyer with the buyer's own key, while its agent runs.

What is hard, and therefore what the properties are about (PROJECT.json lists
every hazard at its line):

* *Agreement without a leader.* Each agent elects from the members it happens to
  know when the threshold is first reached. Two coordinators may count on the
  same agent.
* *Disclosure.* A reveal carries the cleartext intent; it must go to committers
  only, and to nobody before K have committed, even as observations expire and
  agents restart.
* *Money and memory.* What an agent has paid is on the chain; what it remembers
  is one flag set after a receipt it does not inspect.
* *Deadlines.* The keeper reads the state, then the clock, then acts; so may
  everyone else.
* *Paying takes many awaits.* Allowance, balance and state are read long before
  `fund()` is sent, and the account's other client may act in between.
* *Dropping out.* An agent may stop at any await, and nothing restarts it.
* *All or nothing.* No sequence of calls may leave a buyer out of pocket for a
  deal that did not happen.

What makes each component correct:

* Escrow: it closes exactly when full (`FullQuorum`), nobody pays for a deal that
  did not happen (`AtomicOutcome`), money can always leave (`NeverStuck`), it
  implements the abstract settlement (`ImplementsSettlement`).
* Keeper: it leaves no pool unfinished (`NeverAbandons`), refunds none that may
  still fill (`NoEarlyRefund`), finishes all (`EndsEveryPool`).
* Paying clients: a payment is given up, or believed made, only when none is
  missing (`NoMissedPayment`); whoever drops out, the others end with the deal or
  their money (`MadeWhole`).
* Rendezvous: `KAnonymity`, `SoundClusters`, `AgreementAtK`, `AllMeet`; no two
  agents that could meet are left waiting (`MeetAtRest`); step by step it keeps to
  the abstract meeting (`ImplementsMeeting`).
* Settlement: `PaysOnce`, `OneDeal`, `SoundPools`, `Settles`; K agents that can meet
  do, however late they come (`EnoughMeet`), and do not come to rest without the
  coalition they pay into (`SettledAtRest`); its pools are the all-or-nothing escrow
  (`PoolsAreAtomic`), and none that has a keeper holds money for ever
  (`MoneyReturns`).
* Intent matching, with the seller's check of one maximum: `WithinBucket`.
* Dashboard: it asks for the commit of what it shows as settled (`ShowsTheEnd`),
  because no flag that keeps its watcher quiet outlives its reason
  (`QuietForAReason`).

## Modules and the code

```
 AtomicSettlement           what an escrow promises (abstract)
        ^ implemented by Coalition, and by every pool of Settlement
 Coalition  <- CoalitionProofs      Coalition.sol and its token
        ^ composed with
 KeeperLoop <- KeeperProofs         keeper.ts over one coalition
        ^ composed with
 Funding    <- FundingProofs        chain.ts, fund-buyer.ts paying into it

 KAnonymousMeeting          what the agents' rendezvous promises (abstract)
        ^ implemented by
 Rendezvous <- RendezvousProofs     agent.ts, observer.ts
        ^ composed with
 Settlement <- SettlementProofs     agent.ts, chain.ts, seller.ts over a chain of
        |      <- TermsProofs       pools that act as AtomicSettlement says
        |      <- RestProofs        (of Rendezvous as well)
        uses
 IntentMatching                     intent.ts

 PaymentStatus <- PaymentProofs     page.tsx, api/keeper over a Settlement
```

**AtomicSettlement.** Parties pay one slice each into an open pool; a full pool
may settle, and an open one may be cancelled, which makes everyone whole. No
deadline, no keeper, no token.

**KAnonymousMeeting.** Parties commit, show their intents, follow a leader and bid.
Nobody shows its intent before a quorum has committed; a leader is chosen once, as
the first of a quorum whose intents the chooser knows, and a leader bids for just
those it chose itself among. It has no clusters, observations or messages.

**Coalition.** One action per external function. A `nonReentrant` call is one
step; a call whose guard fails reverts and is no step. `Fund(s)` is `fund()` by
`s` with its three checks, the transfer, the push and the test for the last
required buyer; `Commit` and `RefundAll` likewise. The refund loop becomes
`Repaid`, the set of accounts it pays: `funded[b]` is cleared at the first
occurrence of `b`, so the loop pays each account once. The token is external:
balances, an allowance to the escrow, transfers that have nothing to do with the
deal, and a token that may refuse to serve an account (`TransferFailed`).
Constructor arguments are any member of `Deals`, since neither the factory nor
the constructor checks them. `net` is a history variable: what each account
gained through the escrow.

**KeeperLoop.** The loop of `keeper.ts` has an await before every read and every
transaction. `ReadState`, `ReadClock`, `Decide`, `SendCommit`, `SendRefund` and
`Reverts` are its steps, with `pc` for the await and `seenState`, `seenNow` for
what was read. The reads of `requiredBuyers` and `buyerCount` only feed the log.
Between any two steps others fund, refund on their own after the deadline,
commit through the seller's tool, or let time pass. Any exception ends the
process.

**Funding.** Extends KeeperLoop with the programs that pay: `Clients` are agents'
calls of `fundCoalitionForBuyer()` and runs of `fund-buyer.ts`, `Owner` the account
whose key each holds; two may hold the same one. `at[c]` is the await a client is
at. The script reads state, clock, `funded`, balance and allowance; the agent only
the slice and the allowance. `Approves` and `Funds` are their transactions; a
`fund()` that reverts is mined too, and `Confirms` does not look. The approval is
for the one coalition, so the allowance is that of `Coalition`. `Throws` is an
exception at any await of a client that may have one: the transaction it awaited
may or may not have been mined. `Retries` is the script run once more, or a second
announcement at an agent whose first attempt threw. Here buyers pay through clients
only; the keeper's process and `Bystanders` act as in KeeperLoop. A client may be
left where it is for ever: that is a buyer that drops out.

**Rendezvous.** The state of every agent for one commitment, and the messages
under way. One handler is one step: a handler runs to its end before the agent
takes the next message, and what it sends during its awaits it may as well send
at once, because the network keeps, delays, reorders and loses messages anyway.
The only thing that runs beside a handler is `submit()`, which adds to
`myCommits` and to the observation window; no handler reads either of them twice.
`Expire` is the 24-hour garbage collection, `Restart` the loss of the process.
`committers`, `disclosed` and `requests` are history variables.

**Settlement.** Extends Rendezvous. `Meet(m)` is a message of Rendezvous handled by an
agent that is not inside an await; when it makes the agent coordinator the
negotiate_request goes out. `task[a]` says which await the agent's handler is at:
`deploy` (createCoalition and its receipt), `fund` (approve, and the fund transaction
about to be mined), `receipt`, `tool` (the commit request). `pools` is the chain: each
pool has the price, quantity and required number the coordinator sent, its payers, and
an outcome. A pool's own steps are those of AtomicSettlement with the deadline kept as
a flag; Coalition implements that abstraction. `Reboot` is the restart of an agent at
any await; a deployment it awaited may be mined all the same, and then belongs to
nobody. `first[a]` is the first key of the `Map` of members: it decides whose terms
are sent to the seller.

**IntentMatching.** The operators of `intent.ts`. A commitment is the triple that the
code hashes: the canonical SKU, the price bucket rounded up and the deadline bucket
rounded down. Settlement takes any intents and follows one commitment (`Followed`):
the agents of `Matching` submit under it, the others only see what is broadcast.
`Ceiling`, which WithinBucket uses, is not part of the code: it is a maximum rounded
up to a multiple of the step, whatever the buckets are. The seller looks up a SKU as
it was spelled, the commitment does not, and the model keeps the difference.

**PaymentStatus.** Extends Settlement with the dashboard. `Poll` and `Watch` are
the two ends of a poll: what buyer 1's agent shows (`Shown`) is read, and later
handed to the effect that fires the keeper. `StartSimulation`, `SimulationAsks`
and `SimulationGivesUp` are the simulation, `Reset` the "New Round" button.
`Ask` and `RouteAnswers` are a request to the keeper route, which may register a
job, commit through the seller's tool, or fail; `FetchThrows` is a request that
throws. The flags have the names they have in the code.

| Definition | Code |
|---|---|
| `TierBucket`, `DeadlineBucket`, `Commitment` | `tierBucket()`, `deadlineBucket()`, `commitment()` |
| `Finalize` | `maybeFinalize()` and the start of `tryNegotiate()` |
| `StartsReveal`, `RevealTo`, `OnCommit` | `onCommit()`, `initiateReveals()` |
| `PickTierPrice`, `SellerAnswers` | `pickTierPrice()`, `handleNegotiate()` |
| `Deploys`, `OnNegotiateResponse`, `Deployed`, `DeployThrows` | `onNegotiateResponse()`, `maybeDeployCoalition()`, `deployCoalition()` |
| `Believes`, `OnCoalitionReady` | `onCoalitionReady()` |
| `Funds`, `SendFund`, `FundReceipt`, `FundThrows` | `maybeFundCoalition()`, `fundCoalitionForBuyer()` |
| `ReadsSlice`, `ReadsAllowance`, `Approves`, `Funds` of Funding | `fundCoalitionForBuyer()`, `fund-buyer.ts` |
| `CallTool`, `KeeperCommits`, `Cancels`, `Lapse` | `commit_coalition`, `keeper.ts`, `refundAll()`, `validUntil` |

The full list, with lines, is in PROJECT.json under "map". A definition that
begins with "Variant" in its comment is a plausible wrong version of the
definition after it; it is used in no specification and exists to show that the
property it breaks depends on the code.

**MC modules** (MCCoalition, MCKeeperLoop, MCFunding, MCRendezvous, MCSettlement,
MCPayment) only give the constants values.

## What the runs check

| Run | Instance | Properties | Distinct states |
|---|---|---|---|
| coalition | 4 accounts, 4 deals | TypeOK FullQuorum AtomicOutcome NeverStuck ImplementsSettlement | 542,000 |
| keeper | 4 accounts, 4 deals, late clock | KeeperTypeOK NeverAbandons NoEarlyRefund EndsEveryPool | 86,000 |
| keeper_stale | one deal for two | FullSetNeverRefunded, violated | stops |
| funding | 3 clients of 2 buyers, 3 deals | FundingTypeOK AtomicOutcome NoMissedPayment MadeWhole | 1,103,000 |
| rendezvous | 3 agents, K=2, all faults | TypeOK KAnonymity SoundClusters AgreementAtK MeetAtRest ImplementsMeeting | 727,000 |
| rendezvous_live | 3 agents, K=3 | KAnonymity MeetAtRest AllMeet | 89,000 |
| rendezvous_split | 3 agents, K=2 | Agreement, violated | stops |
| settlement | 4 agents, K=2, overlapping clusters | PaysOnce SoundPools WithinBucket MeetAtRest EnoughMeet | 110,000 |
| settlement_faults | 2 agents, all faults | SettlementTypeOK OneDeal PoolsAreAtomic MoneyReturns | 249,000 |
| settlement_unpaid | 2 agents, one poor | SettledMeansPaid, violated | stops |
| payment | 2 agents and the page | PaymentTypeOK SettledAtRest QuietForAReason Settles ShowsTheEnd | 167,000 |
| payment_early | 2 agents and the page | PaidMeansCommitted, violated | stops |

*coalition.* Every order of calls by two buyers, the keeper (who may buy too) and
the seller, with the token moving and refusing. Deals for one, two, three and
zero buyers, deadlines now and later. `ImplementsSettlement` is the refinement.

*keeper.* Deals for 0, 1 and 2 buyers, RPC errors, the tool committing, one buyer
refunding on its own, a host clock equal to or behind the chain's. A clock ahead
of the chain is left out: then an early refund is what the code does, since the
contract does not hold the keeper to the deadline.

*funding.* Buyer 1 has an agent, and an operator who runs the script with its key;
buyer 2 has an agent. Both clients of buyer 1 may throw and start over any number of
times, buyer 1 may refund on its own, and all read their clocks late or in time.
Deals for one and for two buyers, and one whose slice buyer 2 has not. Buyer 1 could
pay the smaller slice twice: AtomicOutcome says it does not, whatever it forgot about
its first attempt. MadeWhole starts from nothing: no client has to take a step, so it
covers every combination of buyers that drop out.

*rendezvous.* K=2 among 3 agents is the smallest instance where clusters may differ;
one agent may restart and its observations expire, and messages may come twice. Loss
needs no action: a message that is never delivered is lost. MeetAtRest looks at the
states in which everything that was sent has been taken in. It excuses agents that
restart or expire, so what is left of it in this run is agents 1 and 3, with 2
restarting beside them; settlement, and rendezvous_live with K=3, have all agents in
it. ImplementsMeeting compares every step with KAnonymousMeeting, and an agent that
elects a second time breaks it.

*rendezvous_live.* K=N=3: everyone is needed. It also covers agents that submit
after all others have revealed, up to the threshold.

*settlement.* Agents 1 and 2 reach only agent 3, so {1,3} and {2,3} may both form
and 3 be told of two coalitions. Quantities differ by agent, and agent 2 has
`AUTO_FUND=false`. The card has three tiers reached by 1, 2 and 3 agents. The maxima
are 1.90 (agent 1) and 1.95 (2 and 3), one bucket that ends at 2.00, and the price for
two is 1.93, between them. So it matters whose terms are asked for: the seller
declines on agent 1's maximum (`seller.ts:109`), and on agent 3's it offers a price
that agent 1 then pays although it is above its own. Agent 2 spells the SKU in upper
case: a cluster whose first member it is gets no offer. Agent 4's maximum of 1.50 is
the end of another bucket, so it submits nothing here and only sees commits; were
buckets rounded down it would share the others' and pay 1.93. MeetAtRest and
EnoughMeet are checked for every pair that know each other, beside the third agent and
whatever the settlement does at the same time; which pair, or whether all three, form
the cluster is left open, as it is in the code.

*settlement_faults.* The coordinator's RPC may throw before or after the
transaction was mined, the other agent restarts, requests are repeated, offers
lapse and are refunded. The agent that restarts is never the coordinator here, so a
coordinator that leaves a mined deployment behind as it restarts is covered by the
proofs alone, which hold for any `Restarting`. PoolsAreAtomic holds each of the two pools of the chain against
AtomicSettlement, step by step and from the step that deploys it. MoneyReturns needs fairness of the pools alone: agents,
seller and network may stop at any point, so a process ended by an exception of
`recv()` (`index.ts:137`) is among the behaviours.

*payment.* Settles: the announcement may overtake the reveals, and may arrive
before or after the member formed its cluster. ShowsTheEnd: polls are shown late,
a simulation starts or gives up at any time, two requests to the route may be
under way, new rounds clear the flags while one is, and any request may throw.
SettledAtRest and QuietForAReason are what the two come down to in a state: where
nothing is left to do both agents have paid into one coalition, and a watcher that
keeps quiet waits for an answer, has shown one, or lost one.
Messages are not repeated here: that doubles the work, and settlement_faults
checks what repetition could harm.

## What is proved

TLAPS checks CoalitionProofs, KeeperProofs, FundingProofs, RendezvousProofs,
SettlementProofs, TermsProofs, RestProofs and PaymentProofs to the last leaf. The
theorems hold for every value of the constants that satisfies the ASSUMEs of the
modules: any finite set of accounts, clients or agents, any deals, any threshold of
at least 1, any topology, any set of faulty agents, any tier card.

* **Coalition** (`TypeCorrect`, `FullQuorumHolds`, `AtomicOutcomeHolds`,
  `NeverStuckHolds`, `SettlementRefined`). All but the first assume
  `PricedDeals`: the slice is not zero. With a slice of zero `funded` stays 0 after
  `fund()`, one buyer may fund twice, and `FullQuorum` is false; agents refuse such
  a pool (`chain.ts:230`). The inductive invariant relates the four records the
  contract keeps of the same thing (`buyers`, `funded`, `totalFunded`, its
  balance) to each other and to `net`: no property is inductive without it, since
  `commit()` pays `totalFunded` while `refundAll()` pays the `funded` of `buyers`.
  `SettlementRefined` maps `fund()` to Pay, `commit()` to Settle, `refundAll()` to
  Cancel and all else to a stutter; `KeeperSettles` and `FundingSettles` carry that to
  the escrow with its keeper and with its clients.
* **Keeper.** `KeeperUsesEscrow`: whatever the keeper and the others do is a step of
  the escrow, so the escrow's theorems and its invariant carry over.
  `KeeperTypeCorrect`. `NeverAbandonsHolds` assumes `PricedDeals` and a token that
  refuses nobody (`Refusable = {}`): a transaction of the keeper can then revert only
  because somebody else has ended the pool. Its invariant says that a keeper about
  to commit saw a pool that is Funded or over. `NoEarlyRefundHolds` assumes a clock
  that is not ahead of the chain's (every member of `Skews` at most 0).
* **Paying clients.** `FundingUsesKeeper`: a client's steps are those of its account
  as the keeper meets them; hence `FundingIsAtomic`. `NoMissedPaymentHolds` needs no
  bound on the clients or on who shares a key, only that the token refuses nobody.
  Its invariant has two parts. `WalletInv`: while the pool is Forming an account's
  money is in its wallet or in the pool, so a `fund()` that reverts had nothing left
  to pay with. `ClientInv`: a client about to fund has the allowance, or its
  account's payment is over. The second is not inductive without the first.
* **Rendezvous** (`TypeCorrect`, `KAnonymityHolds`, `SoundClustersHold`,
  `AgreementAtKHolds`). What a handler does depends on the message, so the
  invariant gives every message under way a promise: its sender has committed, and
  a reveal was disclosed. `ElectionInv` says that a coordinator was the smallest of
  K or more of today's members; with no more than K committers all such sets are
  equal, hence agreement. `MemoryInv` covers the agents that never restart.
  `MeetingRefined` shows that Rendezvous implements KAnonymousMeeting under all
  faults: a handler that reveals is a Shows, one that elects a Follows, one that does
  both is both at once, and a restart Forgets.
* **Nobody is left waiting** (RestProofs, `MeetAtRestHolds`). Reveals go once, to the
  peers observed so far, and `submit()` starts none: whether two agents miss each
  other depends on who saw whom first. `MeetingInv` has what decides it: a commitment
  is seen or under way (`CommitInv`); who has started its reveals has K agents as
  members or about to be (`ReachInv`); of two agents that saw each other, at the
  threshold, one has started (`WaitInv`); membership is mutual or a response is under
  way (`MutualInv`). Without WaitInv, agents at the threshold could both wait. The
  last three hold only as long as nobody restarted: a fresh process has lost its members.
* **Settlement.** `SettlementKeepsRendezvous` shows that every behaviour of the
  composed system is one of Rendezvous, so its theorems carry over
  (`SettlementKAnonymity`). The invariant `SInv` adds that before its receipt the
  payment of an agent is its first (`PaysInv`), and that whatever was announced for a
  coordinator, or is about to be paid there, is the one address that coordinator holds
  (`DealInv`). From it: `SettlementTypeCorrect`, `PaysOnceHolds`, `OneDealHolds`.
  `CeilingBounds`, that a bucket ends where its maxima round up to, less than a step
  above them, gives `MatchesAreClose`: buyers with one commitment want one SKU, and
  their maxima and deadlines are less than a bucket apart. It is a fact about
  `intent.ts` alone. PaysOnce speaks of agents whose RPC does not fail and that do not
  restart: the others forget that they paid. OneDeal asks only that the coordinator
  does not restart.
* **Terms of a deal** (TermsProofs). `SoundPoolsHolds` assumes that a card's prices
  fall as its numbers rise, as those of `seller.ts` do: `pickTierPrice()` takes the
  last tier a number clears, and on another card that need not be the cheapest. The
  invariant `TermsInv` follows the terms along their whole way: a request asks in the
  name of one committed member, an offer answers a request, a deployment awaits an
  offer and a pool holds what was deployed; and `ShownInv`, that whoever acts on an
  announcement has shown its intent to the coordinator. `WithinBucketHolds` assumes
  nothing of the card: a pool's price is within the maximum of one agent that has
  committed, its payers have committed, and whoever has committed here has the one
  bucket (`OnlyMatchingCommit`), whose end `CeilingBounds` compares with each maximum.
* **The deal is made** (RestProofs, `SettledAtRestHolds`), without any assumption.
  `SettlingInv` is `PartInv`, which always holds, and what holds as long as the deal
  goes smoothly: K committers, none of which restarts or loses its RPC, served by the
  seller. Then a coordinator is deploying, has its coalition or has a negotiation under
  way (`NegotiatingInv`), everyone was told of the coalition, has paid or is about to
  (`ToldInv`), and who believes it paid has (`PaidInv`). It rests on `MeetingInv`: that
  no announcement is dropped for want of a cluster needs the coordinator's members to
  have it as a member. Whether a run is smooth is known only at its end; the invariant
  works because a run that is smooth now was so before.
* **One escrow for both layers** (RestProofs, `PoolsAreAtomicHolds`). Settlement
  keeps each coalition as one record, Coalition keeps four. Both are proved to follow
  AtomicSettlement: `SettlementRefined` of the contract, this theorem of every pool in
  Settlement, including that it starts with a slice that is not zero, which the
  former assumes. It takes the terms from `TermsInv`, in which only "the lowest price"
  depends on a card whose prices fall.
* **The page** (PaymentProofs). `PaymentUsesSettlement`: whatever the page does is to
  agents and chain a step of the settlement or none, since the route commits a full
  pool at the most. So `PaymentSettlesAtRest`, `PaymentPaysOnce` and
  `PaymentIsAtomic`. The step needs an invariant (`PageInv`): what the page asks for is
  deployed (`PaymentTypeOK`). `QuietForAReasonHolds` is proved for any number of
  overlapping polls, simulations, requests and rounds.

Only model-checked: the liveness properties (`EndsEveryPool`, `MadeWhole`, `AllMeet`,
`EnoughMeet`, `MoneyReturns`, `Settles`, `ShowsTheEnd`), since liveness under
fairness is outside what the prover does. What is proved instead is their safety
half, what the states look like in which nothing is left to happen: `MeetAtRest` for
AllMeet and EnoughMeet, `SettledAtRest` for Settles, `QuietForAReason` for
ShowsTheEnd, `NeverAbandons` and `NeverStuck` for EndsEveryPool, `NoMissedPayment` and
`AtomicOutcome` for MadeWhole. That such states are reached is TLC's part.

## Where the code and its documents differ

* **A full set may be refunded** (`keeper_stale`). The keeper reads the state and,
  three calls later, the clock. A pool read as Forming that fills in between is
  refunded if the deadline has passed when the clock is read.
* **Two coordinators** (`rendezvous_split`). With more agents than the threshold,
  reordering alone makes two agents elect differently, while HANDOFF.md says that
  all arrive at the same one.
* **"Settled" without a payment** (`settlement_unpaid`). `fund()` is sent with a
  fixed gas limit, so a call that reverts is still mined, and the status of its
  receipt is not read.
* **Shown as paid too early** (`payment_early`). The page takes any answer of the
  keeper route for a completed payment: a job registered with KeeperHub, or an
  error. The run shows "complete" while the pool waits for its second buyer.

One thing that looks like a disagreement is none. The seller sees one member's
maximum, and no other member compares the offer with its own, so a buyer may pay
more than its own maximum. `intent.ts:17-22` accepts that: buyers match by bucket.
What the code does promise is `WithinBucket`, and it is proved: nobody pays more than
its own maximum rounded up to the next 0.50. In the settlement run agent 1 does pay
1.93 with a maximum of 1.90.

## Abstractions, bounds and fairness

Data. Prices are numbers of cents, and dividing by 0.5 is exact in floating point;
SHA-256 is injective; peer ids are numbers in lexicographic order, because the
election sorts them. One commitment is followed: agents keep separate state for each,
and what they submit under another is none of it. Agents have distinct keys. A seller
and a chain are configured (without them the agents stop at the cluster).
`ClusterState.offer` is left out: it is only displayed. In Settlement a wallet is
either able to pay a slice or in `Broke`; `FUND_DELAY_MS` is the time a `fund` step
may wait. Its pools are cancelled after their deadline only: the contract lets the
keeper refund before, which `keeper.ts` does when its clock is ahead, the clock that
the keeper run leaves out too. Funding has the wallets, allowances and reads. The five
attempts at reading the slice (`chain.ts:212`) are one read that answers or throws.
The script reads four values at once; only the state decides anything before the
clock, and the other three are constants of the pool or logged.

Over-approximations. With `Duplicating`, commits may come twice as well, though
only `a2a` repeats. The commit tool may decline for any reason. `Expire` may
happen at any time to the agents in `Expiring`.

Bounds. `MaxTime`, `MaxBuyers`, `TransferSizes`, `Endowment` bound the escrow: the
deadlines are 0 and 1, so time 2 is past both, and endowments let two accounts pay
a slice twice over. `MaxRuns` and `MaxAsks` bound the simulations and requests of
the page under way. `MaxPools = 2` is what two coordinators, or one that deploys
twice, can reach. `Expiring`, `Restarting`, `Failing` name the agents to which a
fault may happen; the proofs need no bound on them. In Settlement an agent submits
once.

Fairness. `FairKeeperSpec`: the loop goes on while its process lives and blocks
are produced. `FairFundingSpec`: the same, and nothing of any client.
`KeptSettlementSpec`: every pool has a keeper and time passes; nothing of any agent
or message. `FairSpec`: every message is delivered and handled, which the run
loop (`index.ts:136`) does on its side and the network must on its own.
`SettlementFairness`, in `FairSettlementSpec` and `FairPaymentSpec`: in addition an agent finishes the
handler it is in, the seller answers, and every pool has a keeper, as `keeper.ts`
needs one process per coalition; the page keeps polling and the keeper route
answers. None of them assumes that an agent submits, or that a buyer pays:
`Settles` starts from agents that have all submitted.

Deadlock checking is off where the system may really stop: agents with nothing
to receive, a keeper that has left its loop.

## Not modelled

* Several commitments at work at once. An agent whose commitment is another one is in
  Settlement, where it sees commits and takes no part. `newNonce()`, which nothing
  reads.
* The rendering of `page.tsx`, the page after a request of it threw, and a reload
  of it, which keeps `keeperFired` and loses the request it stood for. The
  simulation's own `/submit` requests are Submit steps, in any order.
* `BuyerProfile.sol`: an ERC-721 with owner-guarded setters, each one assignment,
  that no other contract or program calls. `mintBuyerProfile0G()` in `chain.ts` does
  not either: it makes up its answer. A property of them would restate a `require`.
* `MockUSDC.sol` beyond what a token is to the escrow.
* `deploy.ts`, `keeperhub-register.ts` and the PowerShell scripts deploy, register a
  job with an outside service and start processes, once each, and keep nothing.
* `api/spawn` starts and kills agent processes through the Windows shell. What that
  means to the protocol is the `Restart` of Rendezvous.
* The HTTP of `axl.ts` and the tool server's protocol in `keeper-mcp.ts`: their effect
  on messages and pools is in Rendezvous, Settlement and KeeperLoop.
* Sender checks on envelopes (`agent.ts:167-175`) and the hash checks on reveals:
  all agents of the models are honest, for whom they always pass.

## Plan

Done, in this order because money and disclosure matter most: AtomicSettlement,
Coalition with proofs, KeeperLoop, Rendezvous with proofs, Settlement with
IntentMatching and proofs, PaymentStatus; then Funding with proofs, the keeper's
proofs, drop-outs (`MadeWhole`, `MoneyReturns`), late submitters (`EnoughMeet`) and
the proof of `SoundPools`.

Then proofs of what liveness rests on (`MeetAtRest`, `SettledAtRest`,
`QuietForAReason`), both refinements (`PoolsAreAtomic`, `ImplementsMeeting`) and the
page's.

Left:

1. *Several commitments at once* in Rendezvous, with deadlines on the two sides of a
   6-hour boundary (`intent.ts:24`).
2. *PaymentStatus with restarts*, where a poll shown late may carry the address of an
   abandoned deal, and with a reload of the page.
3. *Agents over the contract itself*: Settlement with a Coalition for each pool, which
   the two refinements make unnecessary for safety but which would show who is stuck
   when the token refuses an account.
