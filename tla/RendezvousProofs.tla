-------------------------- MODULE RendezvousProofs --------------------------
(***************************************************************************)
(* Theorems about Rendezvous for every number of agents, every threshold,  *)
(* every topology, and any pattern of loss, repetition, expiry and restart.*)
(***************************************************************************)
EXTENDS Rendezvous, FiniteSetTheorems, WellFoundedInduction, TLAPS

LEMMA SmallestNumber ==
  ASSUME NEW S \in SUBSET Nat, S # {}
  PROVE  Smallest(S) \in S /\ \A x \in S : Smallest(S) <= x
<1> DEFINE Less == {ss \in Nat \X Nat : ss[1] < ss[2]}
<1>1. S \subseteq Nat
  OBVIOUS
<1>2. IsWellFoundedOn(Less, Nat)
  BY NatLessThanWellFounded DEF OpToRel
<1>3. PICK x \in S : \A y \in S : ~ (<<y, x>> \in Less)
  <2> HIDE DEF Less
  <2> QED
    BY <1>1, <1>2, WFMin
<1>4. ASSUME NEW y \in S PROVE x <= y
  <2>1. x \in Nat /\ y \in Nat
    BY <1>1
  <2>2. ~ (<<y, x>> \in Less)
    BY <1>3
  <2>3. y < x => <<y, x>> \in Less
    BY <2>1
  <2> QED
    BY <2>1, <2>2, <2>3
<1> QED
  BY <1>4 DEF Smallest

LEMMA SmallestMember ==
  ASSUME NEW S \in SUBSET Agents, S # {}
  PROVE  Smallest(S) \in S
  BY SmallestNumber, AgentsAssumption

LEMMA SubsetCard ==
  ASSUME NEW S \in SUBSET Agents
  PROVE  IsFiniteSet(S) /\ Cardinality(S) \in Nat
  BY AgentsAssumption, FS_Subset, FS_CardinalityType

LEMMA CompleteMembers ==
  ASSUME NEW S \in SUBSET Agents, Cardinality(S) >= K
  PROVE  S # {} /\ Smallest(S) \in S
<1>1. S # {}
  BY FS_EmptySet, ThresholdAssumption
<1> QED
  BY <1>1, SmallestMember
-----------------------------------------------------------------------------
(***************************************************************************)
(* The inductive invariant.  What an agent does depends on messages, so    *)
(* each kind of message carries its own promise about the histories:       *)
(* whoever sends has committed, and a reveal under way was disclosed.      *)
(***************************************************************************)
HistoryInv ==
  /\ submitted \subseteq committers
  /\ \A a \in Agents : observed[a] \subseteq committers
  /\ \A m \in net : m.from \in committers
  /\ \A m \in net : m.kind # "commit" => <<m.from, m.to>> \in disclosed

MemberInv == \A a \in Agents :
  /\ members[a] \subseteq committers
  /\ \A b \in members[a] \ {a} : <<b, a>> \in disclosed

(* The coordinator was elected from K or more of today's members.          *)
ElectedFrom(a, ms) == Cardinality(ms) >= K /\ coordinator[a] = Smallest(ms)

ElectionInv == \A a \in Agents : Formed(a) => \E ms \in SUBSET members[a] : ElectedFrom(a, ms)

RequestInv == \A r \in requests :
  r[2] \subseteq committers /\ Cardinality(r[2]) >= K /\ r[1] = Smallest(r[2])

(* An agent that never restarts remembers its commitment, and is in its    *)
(* own cluster as soon as it has one.                                      *)
MemoryInv == \A a \in Agents \ Restarting :
  /\ a \in committers => a \in submitted
  /\ members[a] # {} => a \in members[a]
  /\ \A m \in net : \/ m.kind = "reveal_request" /\ m.from = a
                    \/ m.kind = "reveal_response" /\ m.to = a
                    => a \in members[a]

IInv == TypeOK /\ HistoryInv /\ KAnonymity /\ MemberInv /\ ElectionInv /\ RequestInv /\ MemoryInv

LEMMA InvInit == Init => IInv
<1> SUFFICES ASSUME Init PROVE IInv
  OBVIOUS
<1>1. TypeOK
  BY DEF Init, TypeOK
<1>2. HistoryInv /\ KAnonymity /\ MemberInv
  BY DEF Init, HistoryInv, KAnonymity, MemberInv
<1>3. ElectionInv
  BY DEF Init, ElectionInv, Formed
<1>4. RequestInv /\ MemoryInv
  BY DEF Init, RequestInv, MemoryInv
<1> QED
  BY <1>1, <1>2, <1>3, <1>4 DEF IInv

(* What every call of maybeFinalize() leaves behind.                       *)
LEMMA FinalizeKeeps ==
  ASSUME TypeOK, ElectionInv, RequestInv, committers' = committers,
         NEW a \in Agents, NEW ms \in SUBSET Agents,
         members[a] \subseteq ms, ms \subseteq committers, Finalize(a, ms)
  PROVE  /\ members' \in [Agents -> SUBSET Agents]
         /\ coordinator' \in [Agents -> Agents \cup {NoAgent}]
         /\ requests' \subseteq Agents \X SUBSET Agents
         /\ members' = [members EXCEPT ![a] = ms]
         /\ ElectionInv' /\ RequestInv'
<1>1. members' = [members EXCEPT ![a] = ms] /\ members' \in [Agents -> SUBSET Agents]
  BY DEF Finalize, TypeOK
<1>2. CASE Formed(a) \/ ~ Complete(ms)
  <2>1. UNCHANGED <<coordinator, requests>>
    BY <1>2 DEF Finalize
  <2>2. ElectionInv'
    <3> SUFFICES ASSUME NEW b \in Agents, Formed(b)'
                 PROVE  \E es \in SUBSET members'[b] : ElectedFrom(b, es)'
      BY DEF ElectionInv
    <3>1. Formed(b)
      BY <2>1 DEF Formed
    <3>2. PICK es \in SUBSET members[b] : ElectedFrom(b, es)
      BY <3>1 DEF ElectionInv
    <3>3. members[b] \subseteq members'[b]
      BY <1>1 DEF TypeOK
    <3> QED
      BY <2>1, <3>2, <3>3 DEF ElectedFrom
  <2>3. RequestInv'
    BY <2>1 DEF RequestInv
  <2> QED
    BY <1>1, <2>1, <2>2, <2>3 DEF TypeOK
<1>3. CASE ~ (Formed(a) \/ ~ Complete(ms))
  <2>1. /\ Cardinality(ms) >= K
        /\ coordinator' = [coordinator EXCEPT ![a] = Smallest(ms)]
        /\ requests' = requests \cup (IF Smallest(ms) = a THEN {<<a, ms>>} ELSE {})
    BY <1>3, SubsetCard, ThresholdAssumption DEF Finalize, Complete
  <2>2. Smallest(ms) \in Agents
    BY <2>1, CompleteMembers
  <2>3. ElectionInv'
    <3> SUFFICES ASSUME NEW b \in Agents, Formed(b)'
                 PROVE  \E es \in SUBSET members'[b] : ElectedFrom(b, es)'
      BY DEF ElectionInv
    <3>1. CASE b = a
      <4>1. ElectedFrom(a, ms)'
        BY <2>1 DEF ElectedFrom, TypeOK
      <4> QED
        BY <3>1, <4>1, <1>1 DEF TypeOK
    <3>2. CASE b # a
      <4>1. members'[b] = members[b] /\ coordinator'[b] = coordinator[b]
        BY <3>2, <1>1, <2>1 DEF TypeOK
      <4>2. PICK es \in SUBSET members[b] : ElectedFrom(b, es)
        BY <4>1 DEF ElectionInv, Formed
      <4> QED
        BY <4>1, <4>2 DEF ElectedFrom
    <3> QED
      BY <3>1, <3>2
  <2>4. RequestInv'
    BY <2>1 DEF RequestInv
  <2>5. /\ coordinator' \in [Agents -> Agents \cup {NoAgent}]
        /\ requests' \subseteq Agents \X SUBSET Agents
    BY <2>1, <2>2 DEF TypeOK
  <2> QED
    BY <1>1, <2>3, <2>4, <2>5
<1> QED
  BY <1>2, <1>3
-----------------------------------------------------------------------------
LEMMA InvSubmit == ASSUME IInv, NEW a \in Agents, Submit(a) PROVE IInv'
<1>t. TypeOK /\ committers \subseteq committers' /\ committers' \subseteq Agents
  BY DEF IInv, TypeOK, Submit
<1>n. /\ net \subseteq net'
      /\ \A m \in net' \ net : m \in Messages /\ m.kind = "commit" /\ m.from = a
  BY KnownAssumption DEF Submit, Msg, Messages, Kinds
<1>1. TypeOK'
  BY <1>t, <1>n DEF TypeOK, Submit
<1>2. HistoryInv'
  <2>1. submitted' \subseteq committers' /\ \A b \in Agents : observed'[b] \subseteq committers'
    BY <1>t DEF IInv, HistoryInv, Submit, TypeOK
  <2>2. a \in committers' /\ disclosed' = disclosed
    BY DEF Submit
  <2> QED
    BY <1>t, <1>n, <2>1, <2>2 DEF IInv, HistoryInv
<1>3. KAnonymity'
  <2>1. Cardinality(committers) \in Nat /\ Cardinality(committers') \in Nat
    BY <1>t, SubsetCard
  <2>2. Cardinality(committers) <= Cardinality(committers')
    BY <1>t, SubsetCard, FS_Subset
  <2>3. Cardinality(committers) >= K => Cardinality(committers') >= K
    BY <2>1, <2>2, ThresholdAssumption
  <2> QED
    BY <1>t, <2>3 DEF IInv, KAnonymity, Submit
<1>4. MemberInv' /\ RequestInv'
  BY <1>t DEF IInv, MemberInv, RequestInv, Submit
<1>5. ElectionInv'
  BY DEF IInv, ElectionInv, ElectedFrom, Formed, Submit
<1>6. MemoryInv'
  <2>1. \A b \in Agents : b \in committers' => b \in committers \/ b = a
    BY DEF Submit
  <2>2. submitted' = submitted \cup {a} /\ members' = members
    BY DEF Submit
  <2> QED
    BY <1>n, <2>1, <2>2 DEF IInv, MemoryInv
<1> QED
  BY <1>1, <1>2, <1>3, <1>4, <1>5, <1>6 DEF IInv

LEMMA InvExpire == ASSUME IInv, NEW a \in Agents, Expire(a) PROVE IInv'
<1>1. TypeOK'
  BY DEF IInv, TypeOK, Expire
<1>2. HistoryInv'
  BY DEF IInv, HistoryInv, TypeOK, Expire
<1>3. KAnonymity' /\ MemberInv' /\ RequestInv' /\ MemoryInv'
  BY DEF IInv, KAnonymity, MemberInv, RequestInv, MemoryInv, Expire
<1>4. ElectionInv'
  BY DEF IInv, ElectionInv, ElectedFrom, Formed, Expire
<1> QED
  BY <1>1, <1>2, <1>3, <1>4 DEF IInv

LEMMA InvRestart == ASSUME IInv, NEW a \in Restarting, Restart(a) PROVE IInv'
<1>a. a \in Agents
  BY FaultAssumption
<1>1. TypeOK'
  BY <1>a DEF IInv, TypeOK, Restart
<1>2. HistoryInv'
  BY DEF IInv, HistoryInv, TypeOK, Restart
<1>3. KAnonymity' /\ RequestInv'
  BY DEF IInv, KAnonymity, RequestInv, Restart
<1>4. MemberInv'
  BY DEF IInv, MemberInv, TypeOK, Restart
<1>5. \A b \in Agents : b # a => members'[b] = members[b] /\ coordinator'[b] = coordinator[b]
  BY DEF IInv, TypeOK, Restart
<1>6. ElectionInv'
  <2> SUFFICES ASSUME NEW b \in Agents, Formed(b)'
               PROVE  \E es \in SUBSET members'[b] : ElectedFrom(b, es)'
    BY DEF ElectionInv
  <2>1. b # a
    BY DEF IInv, TypeOK, Restart, Formed
  <2>2. PICK es \in SUBSET members[b] : ElectedFrom(b, es)
    BY <1>5, <2>1 DEF IInv, ElectionInv, Formed
  <2> QED
    BY <1>5, <2>1, <2>2 DEF ElectedFrom
<1>7. MemoryInv'
  <2> SUFFICES ASSUME NEW b \in Agents \ Restarting PROVE b # a
    BY <1>5 DEF IInv, MemoryInv, Restart
  <2> QED
    OBVIOUS
<1> QED
  BY <1>1, <1>2, <1>3, <1>4, <1>6, <1>7 DEF IInv
-----------------------------------------------------------------------------
(* What a handler may rely on when m arrives.                              *)
LEMMA Arrival ==
  ASSUME IInv, NEW m \in net
  PROVE  /\ m \in Messages /\ m.from \in Agents /\ m.to \in Agents
         /\ m.from \in committers
         /\ Without(m) \subseteq net
         /\ m.kind # "commit" => /\ <<m.from, m.to>> \in disclosed
                                 /\ m.to \in committers
                                 /\ Cardinality(committers) >= K
<1>1. m \in Messages /\ m.from \in Agents /\ m.to \in Agents
  BY DEF IInv, TypeOK, Messages
<1>2. Without(m) \subseteq net
  BY DEF Without
<1> QED
  BY <1>1, <1>2 DEF IInv, HistoryInv, KAnonymity

(* A handler that discloses nothing.                                       *)
LEMMA InvQuiet ==
  ASSUME IInv, NEW m \in net, NEW a \in Agents, NEW ms \in SUBSET Agents,
         members[a] \subseteq ms, ms \subseteq committers,
         \A b \in ms \ {a} : <<b, a>> \in disclosed,
         a \in Restarting \/ a \in ms,
         Finalize(a, ms), net' = Without(m),
         UNCHANGED <<submitted, observed, initiated, committers, disclosed>>
  PROVE  IInv'
<1>f. /\ members' = [members EXCEPT ![a] = ms] /\ ElectionInv' /\ RequestInv'
      /\ members' \in [Agents -> SUBSET Agents]
      /\ coordinator' \in [Agents -> Agents \cup {NoAgent}]
      /\ requests' \subseteq Agents \X SUBSET Agents
  BY FinalizeKeeps DEF IInv
<1>n. net' \subseteq net
  BY Arrival
<1>1. TypeOK'
  BY <1>f, <1>n DEF IInv, TypeOK
<1>2. HistoryInv' /\ KAnonymity'
  BY <1>n DEF IInv, HistoryInv, KAnonymity
<1>3. MemberInv'
  BY <1>f DEF IInv, MemberInv, TypeOK
<1>4. MemoryInv'
  BY <1>f, <1>n DEF IInv, MemoryInv, TypeOK
<1> QED
  BY <1>1, <1>2, <1>3, <1>4, <1>f DEF IInv

(* A handler of agent a that discloses a's intent to peers, all of whom    *)
(* have committed, when at least K agents have.                            *)
LEMMA InvDisclose ==
  ASSUME IInv, NEW m \in net, NEW a \in Agents, NEW ms \in SUBSET Agents,
         NEW peers \in SUBSET committers, NEW kind \in {"reveal_request", "reveal_response"},
         a \in committers, a \in ms, members[a] \subseteq ms, ms \subseteq committers,
         \A b \in ms \ {a} : <<b, a>> \in disclosed,
         Cardinality(committers) >= K,
         kind = "reveal_response" => \A b \in peers \ Restarting : b = a \/ b \in members[b],
         Finalize(a, ms), Disclose(a, peers, kind, Without(m)),
         observed' \in [Agents -> SUBSET committers], initiated' \subseteq Agents,
         UNCHANGED <<submitted, committers>>
  PROVE  IInv'
<1>f. /\ members' = [members EXCEPT ![a] = ms] /\ ElectionInv' /\ RequestInv'
      /\ members' \in [Agents -> SUBSET Agents]
      /\ coordinator' \in [Agents -> Agents \cup {NoAgent}]
      /\ requests' \subseteq Agents \X SUBSET Agents
  BY FinalizeKeeps DEF IInv
<1>t. TypeOK /\ committers \subseteq Agents
  BY DEF IInv, TypeOK
<1>n. /\ net' \subseteq net \cup {Msg(kind, a, b) : b \in peers}
      /\ disclosed' = disclosed \cup ({a} \X peers)
  BY Arrival DEF Disclose
<1>m. \A x \in net' : x \in net \/ /\ x \in Messages /\ x.kind = kind /\ x.from = a
                                   /\ x.to \in peers
  BY <1>n, <1>t DEF Msg, Messages, Kinds
<1>1. TypeOK'
  <2>1. net' \subseteq Messages
    BY <1>m, <1>t DEF TypeOK
  <2>2. disclosed' \subseteq Agents \X Agents
    BY <1>n, <1>t DEF TypeOK
  <2>3. observed' \in [Agents -> SUBSET Agents]
    BY <1>t
  <2> QED
    BY <1>f, <1>t, <2>1, <2>2, <2>3 DEF TypeOK
<1>2. HistoryInv'
  <2>1. \A x \in net' : x.from \in committers
    BY <1>m DEF IInv, HistoryInv
  <2>2. \A x \in net' : x.kind # "commit" => <<x.from, x.to>> \in disclosed'
    BY <1>m, <1>n DEF IInv, HistoryInv
  <2>3. \A b \in Agents : observed'[b] \subseteq committers
    OBVIOUS
  <2> QED
    BY <2>1, <2>2, <2>3 DEF IInv, HistoryInv
<1>3. KAnonymity'
  BY <1>n DEF IInv, KAnonymity
<1>4. MemberInv'
  BY <1>f, <1>n, <1>t DEF IInv, MemberInv, TypeOK
<1>5. MemoryInv'
  <2> SUFFICES ASSUME NEW b \in Agents \ Restarting
               PROVE  /\ b \in committers => b \in submitted
                      /\ members'[b] # {} => b \in members'[b]
                      /\ \A x \in net' : \/ x.kind = "reveal_request" /\ x.from = b
                                         \/ x.kind = "reveal_response" /\ x.to = b
                                         => b \in members'[b]
    BY DEF MemoryInv
  <2>1. b \in committers => b \in submitted
    BY DEF IInv, MemoryInv
  <2>2. members'[b] = IF b = a THEN ms ELSE members[b]
    BY <1>f, <1>t DEF TypeOK
  <2>3. members'[b] # {} => b \in members'[b]
    BY <2>2 DEF IInv, MemoryInv
  <2>4. ASSUME NEW x \in net', \/ x.kind = "reveal_request" /\ x.from = b
                               \/ x.kind = "reveal_response" /\ x.to = b
        PROVE  b \in members'[b]
    <3>1. CASE x \in net
      BY <2>2, <2>4, <3>1 DEF IInv, MemoryInv
    <3>2. CASE x \notin net
      <4>1. x.kind = kind /\ x.from = a /\ x.to \in peers
        BY <1>m, <3>2
      <4> QED
        BY <2>2, <2>4, <4>1
    <3> QED
      BY <3>1, <3>2
  <2> QED
    BY <2>1, <2>3, <2>4
<1> QED
  BY <1>1, <1>2, <1>3, <1>4, <1>5, <1>f DEF IInv
LEMMA InvOnCommit == ASSUME IInv, NEW m \in net, OnCommit(m) PROVE IInv'
<1> DEFINE a == m.to
           seen == observed[a] \cup {m.from}
<1>a. /\ a \in Agents /\ m.from \in committers /\ Without(m) \subseteq net
      /\ TypeOK /\ committers \subseteq Agents
  BY Arrival DEF IInv, TypeOK
<1>s. seen \subseteq committers /\ observed' = [observed EXCEPT ![a] = seen]
  BY <1>a DEF OnCommit, IInv, HistoryInv
<1>o. observed' \in [Agents -> SUBSET committers]
  BY <1>a, <1>s DEF IInv, HistoryInv, TypeOK
<1>1. CASE StartsReveal(a, seen)
  <2>1. /\ a \in submitted /\ Cardinality(seen) >= K
        /\ initiated' = initiated \cup {a}
        /\ Disclose(a, RevealTo(a, seen), "reveal_request", Without(m))
        /\ Finalize(a, members[a] \cup {a})
        /\ UNCHANGED <<submitted, committers>>
    BY <1>1 DEF OnCommit, StartsReveal
  <2>2. Cardinality(committers) >= K
    <3>1. Cardinality(seen) <= Cardinality(committers)
      BY <1>a, <1>s, SubsetCard, FS_Subset
    <3>2. Cardinality(seen) \in Nat /\ Cardinality(committers) \in Nat
      BY <1>a, <1>s, SubsetCard
    <3> QED
      BY <2>1, <3>1, <3>2, ThresholdAssumption
  <2>3. RevealTo(a, seen) \in SUBSET committers
    BY <1>s DEF RevealTo
  <2>4. /\ a \in committers /\ members[a] \cup {a} \subseteq committers
        /\ members[a] \cup {a} \in SUBSET Agents
        /\ \A b \in (members[a] \cup {a}) \ {a} : <<b, a>> \in disclosed
    BY <1>a, <2>1 DEF IInv, HistoryInv, MemberInv
  <2>5. initiated' \subseteq Agents
    BY <1>a, <2>1 DEF TypeOK
  <2> QED
    BY <1>a, <1>o, <2>1, <2>2, <2>3, <2>4, <2>5, InvDisclose
<1>2. CASE ~ StartsReveal(a, seen)
  <2>1. /\ net' \subseteq net
        /\ UNCHANGED <<submitted, initiated, members, coordinator, committers, disclosed, requests>>
    BY <1>a, <1>2 DEF OnCommit
  <2>2. TypeOK'
    BY <1>a, <1>o, <2>1 DEF TypeOK
  <2>3. HistoryInv' /\ KAnonymity' /\ MemberInv' /\ RequestInv' /\ MemoryInv'
    BY <1>o, <2>1 DEF IInv, HistoryInv, KAnonymity, MemberInv, RequestInv, MemoryInv
  <2>4. ElectionInv'
    BY <2>1 DEF IInv, ElectionInv, ElectedFrom, Formed
  <2> QED
    BY <2>2, <2>3, <2>4 DEF IInv
<1> QED
  BY <1>1, <1>2

LEMMA InvOnRevealRequest == ASSUME IInv, NEW m \in net, OnRevealRequest(m) PROVE IInv'
<1> DEFINE a == m.to
<1>a. /\ m.kind = "reveal_request"
      /\ a \in Agents /\ m.from \in Agents /\ m.from \in committers /\ a \in committers
      /\ <<m.from, a>> \in disclosed /\ Cardinality(committers) >= K
      /\ UNCHANGED <<submitted, observed, initiated, committers>>
      /\ TypeOK
  BY Arrival DEF OnRevealRequest, IInv
<1>m. /\ members[a] \subseteq Agents /\ members[a] \subseteq committers
      /\ \A b \in members[a] \ {a} : <<b, a>> \in disclosed
  BY <1>a DEF IInv, TypeOK, MemberInv
<1>1. CASE Answers(a)
  <2>1. /\ Disclose(a, {m.from}, "reveal_response", Without(m))
        /\ Finalize(a, members[a] \cup {m.from, a})
    BY <1>1 DEF OnRevealRequest
  <2>2. \A b \in {m.from} \ Restarting : b = a \/ b \in members[b]
    BY <1>a DEF IInv, MemoryInv
  <2>3. observed' \in [Agents -> SUBSET committers] /\ initiated' \subseteq Agents
    BY <1>a DEF IInv, HistoryInv, TypeOK
  <2>4. /\ members[a] \cup {m.from, a} \in SUBSET Agents
        /\ members[a] \cup {m.from, a} \subseteq committers
        /\ \A b \in (members[a] \cup {m.from, a}) \ {a} : <<b, a>> \in disclosed
        /\ {m.from} \in SUBSET committers
    BY <1>a, <1>m
  <2> QED
    BY <1>a, <2>1, <2>2, <2>3, <2>4, InvDisclose
<1>2. CASE ~ Answers(a)
  <2>1. /\ net' = Without(m) /\ disclosed' = disclosed
        /\ Finalize(a, members[a] \cup {m.from})
    BY <1>2 DEF OnRevealRequest
  <2>2. a \in Restarting
    BY <1>a, <1>2 DEF IInv, MemoryInv, Answers
  <2>3. /\ members[a] \cup {m.from} \in SUBSET Agents
        /\ members[a] \cup {m.from} \subseteq committers
        /\ \A b \in (members[a] \cup {m.from}) \ {a} : <<b, a>> \in disclosed
    BY <1>a, <1>m
  <2> QED
    BY <1>a, <2>1, <2>2, <2>3, InvQuiet
<1> QED
  BY <1>1, <1>2

LEMMA InvOnRevealResponse == ASSUME IInv, NEW m \in net, OnRevealResponse(m) PROVE IInv'
<1> DEFINE a == m.to
<1>a. /\ m.kind = "reveal_response"
      /\ a \in Agents /\ m.from \in Agents /\ m.from \in committers
      /\ <<m.from, a>> \in disclosed
      /\ net' = Without(m) /\ Finalize(a, members[a] \cup {m.from})
      /\ UNCHANGED <<submitted, observed, initiated, committers, disclosed>>
  BY Arrival DEF OnRevealResponse
<1>1. a \in Restarting \/ a \in members[a]
  BY <1>a DEF IInv, MemoryInv
<1>2. /\ members[a] \cup {m.from} \in SUBSET Agents
      /\ members[a] \cup {m.from} \subseteq committers
      /\ \A b \in (members[a] \cup {m.from}) \ {a} : <<b, a>> \in disclosed
  BY <1>a DEF IInv, TypeOK, MemberInv
<1> QED
  BY <1>a, <1>1, <1>2, InvQuiet

LEMMA InvStep == ASSUME IInv, [Next]_vars PROVE IInv'
<1>1. ASSUME NEW m \in net, Receive(m) PROVE IInv'
  BY <1>1, InvOnCommit, InvOnRevealRequest, InvOnRevealResponse DEF Receive
<1>2. ASSUME NEW a \in Expiring, Expire(a) PROVE IInv'
  BY <1>2, FaultAssumption, InvExpire
<1>3. CASE UNCHANGED vars
  <2>1. TypeOK' /\ HistoryInv' /\ KAnonymity' /\ MemberInv'
    BY <1>3 DEF IInv, vars, local, TypeOK, HistoryInv, KAnonymity, MemberInv
  <2>2. ElectionInv'
    BY <1>3 DEF IInv, vars, local, ElectionInv, ElectedFrom, Formed
  <2>3. RequestInv' /\ MemoryInv'
    BY <1>3 DEF IInv, vars, local, RequestInv, MemoryInv
  <2> QED
    BY <2>1, <2>2, <2>3 DEF IInv
<1> QED
  BY <1>1, <1>2, <1>3, InvSubmit, InvRestart DEF Next

(* The histories, the clusters and the elections stay sound in every       *)
(* behaviour.                                                              *)
THEOREM InductiveInvariant == Spec => []IInv
  BY InvInit, InvStep, PTL DEF Spec

(* Every agent's state keeps its type.                                     *)
THEOREM TypeCorrect == Spec => []TypeOK
<1>1. IInv => TypeOK
  BY DEF IInv
<1> QED
  BY <1>1, InductiveInvariant, PTL

(* No intent is revealed before K agents have committed, nor to an agent   *)
(* that has not.                                                           *)
THEOREM KAnonymityHolds == Spec => []KAnonymity
<1>1. IInv => KAnonymity
  BY DEF IInv
<1> QED
  BY <1>1, InductiveInvariant, PTL

(* A cluster has K members who committed and showed their intents.         *)
THEOREM SoundClustersHold == Spec => []SoundClusters
<1>1. IInv => SoundClusters
  <2> SUFFICES ASSUME IInv, NEW a \in Agents, Formed(a)
               PROVE  /\ Cardinality(members[a]) >= K
                      /\ members[a] \subseteq committers
                      /\ \A b \in members[a] \ {a} : <<b, a>> \in disclosed
                      /\ coordinator[a] \in members[a]
                      /\ a \in members[a] \/ a \in Restarting
    BY DEF SoundClusters
  <2>1. PICK ms \in SUBSET members[a] : ElectedFrom(a, ms)
    BY DEF IInv, ElectionInv
  <2>2. members[a] \in SUBSET Agents /\ ms \in SUBSET Agents
    BY DEF IInv, TypeOK
  <2>3. ms # {} /\ coordinator[a] \in ms
    BY <2>1, <2>2, CompleteMembers DEF ElectedFrom
  <2>4. Cardinality(members[a]) >= K
    <3>1. Cardinality(ms) <= Cardinality(members[a])
      BY <2>2, SubsetCard, FS_Subset
    <3> QED
      BY <3>1, <2>1, <2>2, SubsetCard, ThresholdAssumption DEF ElectedFrom
  <2>5. a \in members[a] \/ a \in Restarting
    BY <2>3 DEF IInv, MemoryInv
  <2> QED
    BY <2>3, <2>4, <2>5 DEF IInv, MemberInv
<1> QED
  BY <1>1, InductiveInvariant, PTL

(* While no more than K agents have committed there is one coordinator.    *)
THEOREM AgreementAtKHolds == Spec => []AgreementAtK
<1>1. IInv => AgreementAtK
  <2> SUFFICES ASSUME IInv, Cardinality(committers) <= K
               PROVE  /\ \A a, b \in Agents : Formed(a) /\ Formed(b) =>
                                              coordinator[a] = coordinator[b]
                      /\ \A q, r \in requests : q = r
    BY DEF AgreementAtK
  <2>c. committers \in SUBSET Agents
    BY DEF IInv, TypeOK
  <2>1. ASSUME NEW ms \in SUBSET committers, Cardinality(ms) >= K
        PROVE  ms = committers
    <3>1. Cardinality(ms) \in Nat /\ Cardinality(committers) \in Nat
      BY <2>c, SubsetCard
    <3>2. Cardinality(ms) <= Cardinality(committers)
      BY <2>c, SubsetCard, FS_Subset
    <3>3. Cardinality(ms) = Cardinality(committers)
      BY <2>1, <3>1, <3>2, ThresholdAssumption
    <3> QED
      BY <2>c, <3>3, SubsetCard, FS_Subset
  <2>2. ASSUME NEW a \in Agents, Formed(a) PROVE coordinator[a] = Smallest(committers)
    <3>1. PICK ms \in SUBSET members[a] : ElectedFrom(a, ms)
      BY <2>2 DEF IInv, ElectionInv
    <3>2. ms \in SUBSET committers
      BY DEF IInv, MemberInv
    <3> QED
      BY <3>1, <3>2, <2>1 DEF ElectedFrom
  <2>3. ASSUME NEW r \in requests PROVE r = <<Smallest(committers), committers>>
    <3>1. r[2] = committers /\ r[1] = Smallest(committers)
      BY <2>1 DEF IInv, RequestInv
    <3>2. r \in Agents \X SUBSET Agents
      BY DEF IInv, TypeOK
    <3> QED
      BY <3>1, <3>2
  <2> QED
    BY <2>2, <2>3
<1> QED
  BY <1>1, InductiveInvariant, PTL
-----------------------------------------------------------------------------
(***************************************************************************)
(* Rendezvous implements KAnonymousMeeting.                                *)
(***************************************************************************)
LEMMA MeetingCounts == \A S : Meeting!Cardinality(S) = Cardinality(S)
  BY DEF Meeting!Cardinality, Cardinality

LEMMA SmallestIsFirst ==
  ASSUME NEW S \in SUBSET Agents, S # {}
  PROVE  /\ Meeting!IsFirst(Smallest(S), S)
         /\ \A a \in Agents : Meeting!IsFirst(a, S) <=> Smallest(S) = a
<1>1. S \subseteq Nat /\ Smallest(S) \in S /\ \A x \in S : Smallest(S) <= x
  BY SmallestNumber, AgentsAssumption
<1>2. Meeting!IsFirst(Smallest(S), S)
  BY <1>1 DEF Meeting!IsFirst
<1>3. ASSUME NEW a \in Agents, Meeting!IsFirst(a, S) PROVE Smallest(S) = a
  <2>1. a \in S /\ a <= Smallest(S) /\ Smallest(S) <= a
    BY <1>1, <1>3 DEF Meeting!IsFirst
  <2>2. a \in Nat /\ Smallest(S) \in Nat
    BY <1>1, <2>1
  <2> QED
    BY <2>1, <2>2
<1> QED
  BY <1>2, <1>3

(* maybeFinalize() follows nobody new, or the first of K or more whose     *)
(* intents the agent knows.                                                *)
LEMMA FinalizeFollows ==
  ASSUME IInv, NEW a \in Agents, NEW ms \in SUBSET committers,
         \A b \in ms \ {a} : <<b, a>> \in disclosed,
         Finalize(a, ms)
  PROVE  Meeting!Follows(a) \/ UNCHANGED <<coordinator, requests>>
<1>1. CASE Formed(a) \/ ~ Complete(ms)
  BY <1>1 DEF Finalize
<1>2. CASE ~ (Formed(a) \/ ~ Complete(ms))
  <2>1. /\ coordinator[a] = NoAgent /\ Cardinality(ms) >= K
        /\ coordinator' = [coordinator EXCEPT ![a] = Smallest(ms)]
        /\ requests' = requests \cup (IF Smallest(ms) = a THEN {<<a, ms>>} ELSE {})
    BY <1>2 DEF Finalize, Formed, Complete
  <2>2. ms \in SUBSET Agents /\ ms # {} /\ Smallest(ms) \in ms
    BY <2>1, CompleteMembers DEF IInv, TypeOK
  <2>3. ms \in SUBSET Meeting!KnownTo(a)
    BY DEF Meeting!KnownTo
  <2>4. /\ Meeting!IsFirst(Smallest(ms), ms)
        /\ Meeting!IsFirst(a, ms) <=> Smallest(ms) = a
    BY <2>2, SmallestIsFirst
  <2>5. requests' = requests \cup (IF Meeting!IsFirst(a, ms) THEN {<<a, ms>>} ELSE {})
    BY <2>1, <2>4
  <2> QED
    BY <2>1, <2>2, <2>3, <2>4, <2>5, MeetingCounts DEF Meeting!Follows
<1> QED
  BY <1>1, <1>2

(* A handler that discloses goes by the rules of the meeting.              *)
LEMMA DiscloseShows ==
  ASSUME NEW a \in committers, NEW peers \in SUBSET committers, NEW kind, NEW rest,
         Cardinality(committers) >= K, Disclose(a, peers, kind, rest)
  PROVE  Meeting!Shows(a)
  BY MeetingCounts DEF Disclose, Meeting!Shows

LEMMA ReceiveActs ==
  ASSUME IInv, NEW m \in net, Receive(m)
  PROVE  Meeting!Acts(m.to)
<1> DEFINE a == m.to
           seen == observed[a] \cup {m.from}
<1>a. /\ a \in Agents /\ m.from \in committers /\ committers \subseteq Agents
      /\ members[a] \subseteq committers
      /\ \A b \in members[a] \ {a} : <<b, a>> \in disclosed
      /\ submitted \subseteq committers /\ observed[a] \subseteq committers
  BY Arrival DEF IInv, TypeOK, HistoryInv, MemberInv
<1>1. CASE OnCommit(m) /\ ~ StartsReveal(a, seen)
  BY <1>1 DEF OnCommit, Meeting!Acts
<1>2. CASE OnCommit(m) /\ StartsReveal(a, seen)
  <2>1. /\ a \in submitted /\ Cardinality(seen) >= K /\ seen \subseteq committers
        /\ Disclose(a, RevealTo(a, seen), "reveal_request", Without(m))
        /\ Finalize(a, members[a] \cup {a}) /\ UNCHANGED committers
    BY <1>a, <1>2 DEF OnCommit, StartsReveal
  <2>2. Cardinality(committers) >= K
    <3> HIDE DEF seen
    <3>1. Cardinality(seen) <= Cardinality(committers)
      BY <1>a, <2>1, SubsetCard, FS_Subset
    <3>2. Cardinality(seen) \in Nat /\ Cardinality(committers) \in Nat
      BY <1>a, <2>1, SubsetCard
    <3> QED
      BY <2>1, <3>1, <3>2, ThresholdAssumption
  <2>3. Meeting!Shows(a)
    <3>1. RevealTo(a, seen) \in SUBSET committers
      BY <2>1 DEF RevealTo
    <3> QED
      BY <1>a, <2>1, <2>2, <3>1, DiscloseShows
  <2>4. Meeting!Follows(a) \/ UNCHANGED <<coordinator, requests>>
    <3>1. members[a] \cup {a} \in SUBSET committers
      BY <1>a, <2>1
    <3> QED
      BY <1>a, <2>1, <3>1, FinalizeFollows
  <2> QED
    BY <2>1, <2>3, <2>4 DEF Meeting!Acts
<1>3. CASE OnRevealRequest(m) \/ OnRevealResponse(m)
  <2>1. /\ <<m.from, a>> \in disclosed /\ a \in committers /\ Cardinality(committers) >= K
        /\ UNCHANGED committers
    BY <1>3, Arrival DEF OnRevealRequest, OnRevealResponse
  <2>2. Meeting!Shows(a) \/ UNCHANGED disclosed
    <3>1. CASE OnRevealRequest(m) /\ Answers(a)
      <4>1. Disclose(a, {m.from}, "reveal_response", Without(m))
        BY <3>1 DEF OnRevealRequest
      <4> QED
        BY <1>a, <2>1, <4>1, DiscloseShows
    <3>2. CASE ~ (OnRevealRequest(m) /\ Answers(a))
      BY <1>3, <3>2 DEF OnRevealRequest, OnRevealResponse
    <3> QED
      BY <3>1, <3>2
  <2>3. PICK ms \in {members[a] \cup {m.from}, members[a] \cup {m.from, a}} : Finalize(a, ms)
    BY <1>3 DEF OnRevealRequest, OnRevealResponse
  <2>4. ms \in SUBSET committers /\ \A b \in ms \ {a} : <<b, a>> \in disclosed
    BY <1>a, <2>1
  <2>5. Meeting!Follows(a) \/ UNCHANGED <<coordinator, requests>>
    BY <1>a, <2>3, <2>4, FinalizeFollows
  <2> QED
    BY <2>1, <2>2, <2>5 DEF Meeting!Acts
<1> QED
  BY <1>1, <1>2, <1>3 DEF Receive

(* Step by step rendezvous does what KAnonymousMeeting allows, for every   *)
(* number of agents, every threshold and topology, and any fault.          *)
THEOREM MeetingRefined == Spec => ImplementsMeeting
<1>1. Init => Meeting!Init
  BY DEF Init, Meeting!Init
<1>2. IInv /\ [Next]_vars => [Meeting!Next]_(Meeting!vars)
  <2> SUFFICES ASSUME IInv, [Next]_vars PROVE [Meeting!Next]_(Meeting!vars)
    OBVIOUS
  <2>1. ASSUME NEW a \in Agents, Submit(a) PROVE Meeting!Next
    BY <2>1 DEF Submit, Meeting!Commit, Meeting!Next
  <2>2. ASSUME NEW m \in net, Receive(m) PROVE Meeting!Next
    BY <2>2, Arrival, ReceiveActs DEF Meeting!Next
  <2>3. ASSUME NEW a \in Restarting, Restart(a) PROVE Meeting!Next
    BY <2>3, FaultAssumption DEF Restart, Meeting!Forgets, Meeting!Next
  <2>4. CASE (\E a \in Expiring : Expire(a)) \/ UNCHANGED vars
    BY <2>4 DEF Expire, vars, local, Meeting!vars
  <2> QED
    BY <2>1, <2>2, <2>3, <2>4 DEF Next
<1> QED
  BY <1>1, <1>2, InductiveInvariant, PTL DEF Spec, ImplementsMeeting, Meeting!Spec
=============================================================================
