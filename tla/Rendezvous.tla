----------------------------- MODULE Rendezvous -----------------------------
(***************************************************************************)
(* How buyer agents with the same purchase in mind find each other         *)
(* (agent/src/agent.ts, observer.ts): each broadcasts a commitment, sees   *)
(* who else commits, and past a threshold of K exchanges cleartext intents *)
(* and elects the member with the smallest peer id as coordinator.  The    *)
(* module follows one commitment; agents keep their state per commitment.  *)
(*                                                                         *)
(* An agent handles one message at a time, so a handler is one step; only  *)
(* submit() runs beside it, and touches nothing a handler reads twice.     *)
(* What a handler sends during its awaits it may as well send at once: the *)
(* network delivers in any order and loses what it never delivers.         *)
(***************************************************************************)
EXTENDS Integers, FiniteSets

CONSTANTS
  Agents,       \* peer ids of the buyer agents, numbered in lexicographic order
  K,            \* the threshold (opts.k)
  Known,        \* whom each agent broadcasts to (KNOWN_PEERS or the topology)
  NoAgent,      \* no coordinator yet
  Duplicating,  \* whether the network may deliver a message again
  Expiring,     \* bound: agents whose observations may expire
  Restarting    \* bound: agents that may restart

ASSUME AgentsAssumption == Agents \subseteq Nat /\ IsFiniteSet(Agents) /\ NoAgent \notin Agents
ASSUME ThresholdAssumption == K \in Nat \ {0}
ASSUME KnownAssumption == Known \in [Agents -> SUBSET Agents]
ASSUME FaultAssumption == /\ Duplicating \in BOOLEAN
                          /\ Expiring \subseteq Agents /\ Restarting \subseteq Agents

VARIABLES
  submitted,    \* agents with this commitment in myCommits
  observed,     \* observer.window: the peers each agent saw commit
  initiated,    \* agents with this commitment in revealsInitiated
  members,      \* ClusterState.members of each agent
  coordinator,  \* ClusterState.coordinator; NoAgent while not formed
  net,          \* messages under way
  committers,   \* history: agents that ever submitted
  disclosed,    \* history: <<a, b>> when a sent its cleartext intent to b
  requests      \* history: <<a, ms>> when a negotiated for the members ms

local == <<submitted, observed, initiated, members, coordinator>>
vars == <<local, net, committers, disclosed, requests>>

Msg(kind, from, to) == [kind |-> kind, from |-> from, to |-> to]
Kinds == {"commit", "reveal_request", "reveal_response"}
Messages == [kind : Kinds, from : Agents, to : Agents]

(* Variant: the position of the coordinator in the sorted list, not its id.*)
SmallestIndex(S) == 0

Smallest(S) == CHOOSE a \in S : \A b \in S : a <= b
Formed(a) == coordinator[a] # NoAgent

(* The messages left once m is handled: axl falls back from a2a to send    *)
(* when the answer of an a2a that did arrive is lost, so m may come again. *)
Without(m) == IF Duplicating THEN net ELSE net \ {m}
-----------------------------------------------------------------------------
Init == /\ submitted = {}
        /\ observed = [a \in Agents |-> {}]
        /\ initiated = {}
        /\ members = [a \in Agents |-> {}]
        /\ coordinator = [a \in Agents |-> NoAgent]
        /\ net = {}
        /\ committers = {}
        /\ disclosed = {}
        /\ requests = {}

(* submit(): the agent counts itself, ignores whether that reaches K, and  *)
(* broadcasts the commitment once.                                         *)
Submit(a) == /\ submitted' = submitted \cup {a}
             /\ observed' = [observed EXCEPT ![a] = @ \cup {a}]
             /\ net' = net \cup {Msg("commit", a, b) : b \in Known[a] \ {a}}
             /\ committers' = committers \cup {a}
             /\ UNCHANGED <<initiated, members, coordinator, disclosed, requests>>

(* Variant: an agent does not count itself among the members it needs.     *)
CompleteWithout(ms) == Cardinality(ms) + 1 >= K

Complete(ms) == Cardinality(ms) >= K

(* Variant: an agent does not put itself up for election.                  *)
FinalizeAmongOthers(a, ms) ==
  /\ members' = [members EXCEPT ![a] = ms]
  /\ IF Formed(a) \/ ~ Complete(ms)
     THEN UNCHANGED <<coordinator, requests>>
     ELSE /\ coordinator' = [coordinator EXCEPT ![a] = Smallest(ms \ {a})]
          /\ UNCHANGED requests

(* Variant: maybeFinalize() that elects again with every new member.       *)
FinalizeAgain(a, ms) ==
  /\ members' = [members EXCEPT ![a] = ms]
  /\ IF ~ Complete(ms)
     THEN UNCHANGED <<coordinator, requests>>
     ELSE /\ coordinator' = [coordinator EXCEPT ![a] = Smallest(ms)]
          /\ requests' = requests \cup (IF Smallest(ms) = a THEN {<<a, ms>>} ELSE {})

(* maybeFinalize() once a's member set has become ms: the first time it    *)
(* reaches K, the smallest id in it is the coordinator, and an agent that  *)
(* elects itself sends the seller its negotiate_request (tryNegotiate()).  *)
Finalize(a, ms) ==
  /\ members' = [members EXCEPT ![a] = ms]
  /\ IF Formed(a) \/ ~ Complete(ms)
     THEN UNCHANGED <<coordinator, requests>>
     ELSE /\ coordinator' = [coordinator EXCEPT ![a] = Smallest(ms)]
          /\ requests' = requests \cup (IF Smallest(ms) = a THEN {<<a, ms>>} ELSE {})

(* a's intent goes out to every agent in peers.                            *)
Disclose(a, peers, kind, rest) ==
  /\ net' = rest \cup {Msg(kind, a, b) : b \in peers}
  /\ disclosed' = disclosed \cup ({a} \X peers)

(* Variant: the threshold compared before the new peer is added.           *)
StartsRevealOff(a, seen) == Cardinality(seen) + 1 >= K /\ a \in submitted \ initiated

StartsReveal(a, seen) == Cardinality(seen) >= K /\ a \in submitted \ initiated

(* Variant: the reveal goes wherever the commitment went.                  *)
BroadcastTo(a, seen) == Known[a] \ {a}

(* peersFor(c) without the agent itself.                                   *)
RevealTo(a, seen) == seen \ {a}

(* onCommit() with initiateReveals(): the Kth distinct peer of a commitment*)
(* the agent submitted itself starts the reveals, once.                    *)
OnCommit(m) ==
  LET a == m.to
      seen == observed[a] \cup {m.from}
  IN  /\ m.kind = "commit"
      /\ observed' = [observed EXCEPT ![a] = seen]
      /\ IF StartsReveal(a, seen)
         THEN /\ initiated' = initiated \cup {a}
              /\ Disclose(a, RevealTo(a, seen), "reveal_request", Without(m))
              /\ Finalize(a, members[a] \cup {a})
         ELSE /\ net' = Without(m)
              /\ UNCHANGED <<initiated, members, coordinator, disclosed, requests>>
      /\ UNCHANGED <<submitted, committers>>

(* Variant: only an agent that started its own reveals answers.            *)
AnswersAfterReveal(a) == a \in submitted \cap initiated

Answers(a) == a \in submitted

(* onRevealRequest(): the sender is a member; an agent with the same       *)
(* commitment joins too and answers, whatever it has observed itself.      *)
OnRevealRequest(m) ==
  LET a == m.to
  IN  /\ m.kind = "reveal_request"
      /\ IF Answers(a)
         THEN /\ Disclose(a, {m.from}, "reveal_response", Without(m))
              /\ Finalize(a, members[a] \cup {m.from, a})
         ELSE /\ net' = Without(m)
              /\ Finalize(a, members[a] \cup {m.from})
              /\ UNCHANGED disclosed
      /\ UNCHANGED <<submitted, observed, initiated, committers>>

OnRevealResponse(m) ==
  /\ m.kind = "reveal_response"
  /\ net' = Without(m)
  /\ Finalize(m.to, members[m.to] \cup {m.from})
  /\ UNCHANGED <<submitted, observed, initiated, committers, disclosed>>

Receive(m) == /\ m \in net
              /\ OnCommit(m) \/ OnRevealRequest(m) \/ OnRevealResponse(m)

(* gc(): the entry of a commitment silent for 24 h goes, with everyone in  *)
(* it.  The code drops it at its next look, which nothing can tell apart.  *)
Expire(a) == /\ observed' = [observed EXCEPT ![a] = {}]
             /\ UNCHANGED <<submitted, initiated, members, coordinator, net, committers, disclosed, requests>>

(* The process ends and is started again; nothing of it was stored.        *)
Restart(a) == /\ submitted' = submitted \ {a}
              /\ observed' = [observed EXCEPT ![a] = {}]
              /\ initiated' = initiated \ {a}
              /\ members' = [members EXCEPT ![a] = {}]
              /\ coordinator' = [coordinator EXCEPT ![a] = NoAgent]
              /\ UNCHANGED <<net, committers, disclosed, requests>>

Next == \/ \E a \in Agents : Submit(a)
        \/ \E m \in net : Receive(m)
        \/ \E a \in Expiring : Expire(a)
        \/ \E a \in Restarting : Restart(a)

Spec == Init /\ [][Next]_vars

(* The run loop keeps polling (index.ts:136-139) and the network delivers  *)
(* everything: no message waits forever.                                   *)
FairSpec == Spec /\ \A m \in Messages : WF_vars(Receive(m))
-----------------------------------------------------------------------------
TypeOK == /\ submitted \subseteq Agents /\ initiated \subseteq Agents
          /\ observed \in [Agents -> SUBSET Agents]
          /\ members \in [Agents -> SUBSET Agents]
          /\ coordinator \in [Agents -> Agents \cup {NoAgent}]
          /\ net \subseteq Messages
          /\ committers \subseteq Agents
          /\ disclosed \subseteq Agents \X Agents
          /\ requests \subseteq Agents \X SUBSET Agents

(* "Cleartext intents leak only inside [a] cluster of size >= k"           *)
(* (HUDDLE_ARCHITECTURE.md:160): no agent reveals its intent before K      *)
(* different agents have committed, and it reveals it to those alone,      *)
(* however messages are reordered, lost or repeated, observations expire   *)
(* and agents restart (agent.ts:187-251).                                  *)
KAnonymity == /\ disclosed # {} => Cardinality(committers) >= K
              /\ disclosed \subseteq committers \X committers

(* A cluster holds K agents that committed, each of which showed its       *)
(* intent to the agent that counts it, and an agent is in its own cluster, *)
(* unless a restart made it forget that it had submitted                   *)
(* (agent.ts:225-280).                                                     *)
SoundClusters == \A a \in Agents : Formed(a) =>
  /\ Cardinality(members[a]) >= K
  /\ members[a] \subseteq committers
  /\ \A b \in members[a] \ {a} : <<b, a>> \in disclosed
  /\ coordinator[a] \in members[a]
  /\ a \in members[a] \/ a \in Restarting

(* "Every agent independently arrives at the same coordinator"             *)
(* (HANDOFF.md:196), as long as no more agents commit than the threshold   *)
(* asks for: then there is one coordinator and one agent that negotiates.  *)
AgreementAtK == Cardinality(committers) <= K =>
  /\ \A a, b \in Agents : Formed(a) /\ Formed(b) => coordinator[a] = coordinator[b]
  /\ \A q, r \in requests : q = r

(* The same claim for any number of agents.                                *)
Agreement == \A a, b \in Agents : Formed(a) /\ Formed(b) => coordinator[a] = coordinator[b]

(* What rendezvous promises step by step, and not in what may be seen now  *)
(* only: nobody's coordinator changes under it, none is elected over fewer *)
(* than K, and every negotiation is for those the coordinator was elected  *)
(* by, however often messages come again and agents start anew             *)
(* (agent.ts:253-301, HUDDLE_ARCHITECTURE.md:160).                         *)
Meeting == INSTANCE KAnonymousMeeting WITH
  Parties <- Agents, Quorum <- K, Nobody <- NoAgent,
  committed <- committers, shown <- disclosed, leader <- coordinator, bids <- requests

ImplementsMeeting == Meeting!Spec

(* What m tells has been taken in.                                         *)
Seen(m) == IF m.kind = "commit" THEN m.from \in observed[m.to] ELSE m.from \in members[m.to]

(* K agents or more, two at the least, that all broadcast to each other.   *)
CanMeet(S) == /\ Cardinality(S) >= K /\ Cardinality(S) > 1
              /\ \A a \in S : S \subseteq Known[a] \cup {a}

(* At most one of them is left without a cluster; and none is, nor is there*)
(* a second coordinator, when they are just the K that submitted.          *)
Meets(S) == /\ \A a, b \in S : a = b \/ Formed(a) \/ Formed(b)
            /\ Cardinality(S) = K /\ submitted = S =>
                 \A a \in S : coordinator[a] = Smallest(S)

(* Reveals go once, to whoever has been observed by then (revealsInitiated,*)
(* agent.ts:193), and submit() starts none (agent.ts:138): still, in       *)
(* whatever order commitments, reveals and submissions cross, no two agents*)
(* that could meet are both left waiting for the other once nothing new is *)
(* under way.  An agent whose observations expire may be left out, and a   *)
(* restarted one may leave others out.                                     *)
MeetAtRest == (\A m \in net : Seen(m)) /\ committers \cap Restarting = {} =>
  \A S \in SUBSET (submitted \ Expiring) : CanMeet(S) => Meets(S)

(* With a network that delivers, agents that all submit all end up in one  *)
(* cluster under one coordinator, who negotiates for all of them, although *)
(* the last to submit never starts a reveal itself (agent.ts:138, 187-198).*)
AllMeet == submitted = Agents ~>
  /\ \A a \in Agents : coordinator[a] = Smallest(Agents)
  /\ requests = {<<Smallest(Agents), Agents>>}
=============================================================================
