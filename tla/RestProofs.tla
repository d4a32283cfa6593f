----------------------------- MODULE RestProofs -----------------------------
(***************************************************************************)
(* What has come about once every message has been taken in: the safety    *)
(* half of what Rendezvous and Settlement promise under fairness, proved   *)
(* for any number of agents and any topology; and that every pool of a     *)
(* settlement keeps to AtomicSettlement, as the contract does.             *)
(***************************************************************************)
EXTENDS TermsProofs

(***************************************************************************)
(* Rendezvous: the inductive invariant, beside IInv.  An agent that starts *)
(* its reveals has by then K agents that will be its members: whatever is  *)
(* under way between the two only has to arrive.                           *)
(***************************************************************************)
Reached(a) == {b \in Agents : \/ b = a \/ b \in members[a]
                              \/ Msg("reveal_request", a, b) \in net
                              \/ Msg("reveal_response", b, a) \in net}

CommitInv == \A a \in submitted :
  /\ a \notin Expiring => a \in observed[a]
  /\ \A b \in Known[a] \ ({a} \cup Expiring \cup Restarting) :
       Msg("commit", a, b) \in net \/ a \in observed[b]

ReachInv == /\ initiated \subseteq submitted
            /\ \A a \in initiated : a \in members[a] /\ Cardinality(Reached(a)) >= K

FormedInv == \A a \in Agents : Complete(members[a]) => Formed(a)

(* Of two agents that have seen each other commit the later has started.   *)
WaitInv == \A a, b \in submitted \ (initiated \cup Expiring) :
  ~ /\ a # b
    /\ Cardinality(observed[a]) >= K /\ Cardinality(observed[b]) >= K
    /\ a \in observed[b] /\ b \in observed[a]

(* A member has its member in turn, or is about to.                        *)
MutualInv ==
  /\ \A a \in Agents : \A b \in members[a] \ {a} :
       b \in members[b] /\ (a \in members[b] \/ Msg("reveal_response", a, b) \in net)
  /\ \A m \in net : m.kind = "reveal_response" =>
       m.from \in members[m.from] /\ m.to \in members[m.from]

NoneForgets == committers \cap Restarting = {}

MeetingInv == FormedInv /\ (NoneForgets => CommitInv /\ ReachInv /\ WaitInv /\ MutualInv)

LEMMA Remembered ==
  ASSUME IInv, NoneForgets
  PROVE  /\ submitted = committers
         /\ \A m \in net : m.from \in submitted /\ (m.kind # "commit" => m.to \in submitted)
         /\ \A m \in net : m.kind = "reveal_request" => m.from \in members[m.from]
<1>1. submitted = committers
  BY DEF IInv, HistoryInv, MemoryInv, TypeOK, NoneForgets
<1>2. \A m \in net : m.from \in Agents /\ m.to \in Agents
  BY DEF IInv, TypeOK, Messages
<1>3. \A m \in net : m.from \in committers /\ (m.kind # "commit" => m.to \in committers)
  BY DEF IInv, HistoryInv, KAnonymity
<1>4. \A m \in net : m.kind = "reveal_request" => m.from \in members[m.from]
  BY <1>2, <1>3 DEF IInv, MemoryInv, NoneForgets
<1> QED
  BY <1>1, <1>3, <1>4

(* Nobody has restarted before either.                                     *)
LEMMA NoneForgot ==
  ASSUME TypeOK, [Next]_vars, NoneForgets' PROVE NoneForgets
  BY HistoriesGrow DEF NoneForgets

LEMMA MoreReached ==
  ASSUME NEW a \in Agents, Cardinality(Reached(a)) >= K, Reached(a) \subseteq Reached(a)'
  PROVE  Cardinality(Reached(a)') >= K
<1> DEFINE R == Reached(a)
           R2 == Reached(a)'
<1>1. R \in SUBSET Agents /\ R2 \in SUBSET Agents
  BY DEF Reached
<1>2. R \subseteq R2 /\ Cardinality(R) >= K
  OBVIOUS
<1> HIDE DEF R, R2
<1>3. Cardinality(R) <= Cardinality(R2) /\ Cardinality(R) \in Nat /\ Cardinality(R2) \in Nat
  BY <1>1, <1>2, SubsetCard, FS_Subset
<1>4. Cardinality(R2) >= K
  BY <1>2, <1>3, ThresholdAssumption
<1> QED
  BY <1>4 DEF R2

(* maybeFinalize() misses no cluster that has become complete.             *)
LEMMA FinalizeForms ==
  ASSUME TypeOK, FormedInv, NEW a \in Agents, NEW ms \in SUBSET Agents, Finalize(a, ms)
  PROVE  FormedInv'
<1>1. members' = [members EXCEPT ![a] = ms]
  BY DEF Finalize
<1>2. \A b \in Agents : members'[b] = IF b = a THEN ms ELSE members[b]
  BY <1>1 DEF TypeOK
<1>3. CASE Formed(a) \/ ~ Complete(ms)
  <2>1. coordinator' = coordinator
    BY <1>3 DEF Finalize
  <2> QED
    BY <1>2, <1>3, <2>1 DEF FormedInv, Complete, Formed
<1>4. CASE ~ (Formed(a) \/ ~ Complete(ms))
  <2>1. coordinator' = [coordinator EXCEPT ![a] = Smallest(ms)]
    BY <1>4 DEF Finalize
  <2>2. Smallest(ms) \in Agents
    BY <1>4, CompleteMembers DEF Complete
  <2>3. Smallest(ms) # NoAgent
    BY <2>2, AgentsAssumption
  <2>4. \A b \in Agents : coordinator'[b] = IF b = a THEN Smallest(ms) ELSE coordinator[b]
    BY <2>1 DEF TypeOK
  <2> QED
    BY <1>2, <2>3, <2>4 DEF FormedInv, Complete, Formed
<1> QED
  BY <1>3, <1>4
-----------------------------------------------------------------------------
LEMMA MeetingInit == Init => MeetingInv
<1> SUFFICES ASSUME Init PROVE MeetingInv
  OBVIOUS
<1>1. FormedInv
  BY FS_EmptySet, ThresholdAssumption DEF Init, FormedInv, Complete
<1>2. CommitInv /\ ReachInv /\ WaitInv /\ MutualInv
  BY DEF Init, CommitInv, ReachInv, WaitInv, MutualInv
<1> QED
  BY <1>1, <1>2 DEF MeetingInv

(* Nobody who submits now has been observed before.                        *)
LEMMA MeetingSubmit ==
  ASSUME IInv, MeetingInv, NEW a \in Agents, Submit(a) PROVE MeetingInv'
<1>t. TypeOK /\ UNCHANGED <<initiated, members, coordinator>> /\ net \subseteq net'
  BY DEF IInv, Submit
<1>1. FormedInv'
  BY <1>t DEF MeetingInv, FormedInv, Formed, Complete
<1>2. ASSUME NoneForgets' PROVE CommitInv' /\ ReachInv' /\ WaitInv' /\ MutualInv'
  <2>1. NoneForgets
    BY <1>2, <1>t, NoneForgot DEF Next
  <2>i. CommitInv /\ ReachInv /\ WaitInv /\ MutualInv /\ submitted = committers
    BY <2>1, Remembered DEF MeetingInv
  <2>o. /\ submitted' = submitted \cup {a}
        /\ \A b \in Agents : observed'[b] = observed[b] \cup (IF b = a THEN {a} ELSE {})
    BY <1>t DEF Submit, TypeOK
  <2>2. CommitInv'
    <3>1. \A b \in Known[a] \ {a} : Msg("commit", a, b) \in net'
      BY DEF Submit
    <3> QED
      BY <1>t, <2>i, <2>o, <3>1, KnownAssumption DEF CommitInv, TypeOK
  <2>3. ReachInv'
    <3> SUFFICES ASSUME NEW c \in initiated
                 PROVE  c \in members'[c] /\ Cardinality(Reached(c)') >= K
      BY <1>t, <2>i, <2>o DEF ReachInv
    <3>1. c \in Agents /\ c \in members[c] /\ Cardinality(Reached(c)) >= K
      BY <1>t, <2>i DEF ReachInv, TypeOK
    <3>2. Reached(c) \subseteq Reached(c)'
      BY <1>t DEF Reached
    <3> QED
      BY <1>t, <3>1, <3>2, MoreReached
  <2>4. WaitInv'
    <3> SUFFICES ASSUME NEW b \in submitted' \ (initiated' \cup Expiring),
                        NEW c \in submitted' \ (initiated' \cup Expiring),
                        b # c, b \in observed'[c], c \in observed'[b],
                        Cardinality(observed'[b]) >= K, Cardinality(observed'[c]) >= K
                 PROVE  FALSE
      BY DEF WaitInv
    <3>0. b \in Agents /\ c \in Agents
      BY <1>t, <2>o DEF TypeOK
    <3>1. b \in observed[c] /\ c \in observed[b]
      BY <2>o, <3>0
    <3>2. b \in submitted /\ c \in submitted
      BY <2>i, <3>0, <3>1 DEF IInv, HistoryInv
    <3>3. ASSUME NEW x \in {b, c} PROVE observed'[x] = observed[x]
      <4>1. x \in Agents /\ x \in observed[x]
        BY <2>i, <3>0, <3>2 DEF CommitInv
      <4> QED
        BY <2>o, <4>1
    <3> QED
      BY <1>t, <2>i, <3>1, <3>2, <3>3 DEF WaitInv
  <2>5. MutualInv'
    <3>1. \A m \in net' : m.kind = "reveal_response" => m \in net
      BY DEF Submit, Msg
    <3> QED
      BY <1>t, <2>i, <3>1 DEF MutualInv
  <2> QED
    BY <2>2, <2>3, <2>4, <2>5
<1> QED
  BY <1>1, <1>2 DEF MeetingInv

LEMMA MeetingExpire ==
  ASSUME IInv, MeetingInv, NEW a \in Expiring, Expire(a) PROVE MeetingInv'
<1>u. /\ TypeOK /\ UNCHANGED <<submitted, initiated, members, coordinator, net, committers>>
      /\ \A b \in Agents \ {a} : observed'[b] = observed[b]
  BY DEF IInv, Expire, TypeOK
<1>1. FormedInv'
  BY <1>u DEF MeetingInv, FormedInv, Formed, Complete
<1>2. ASSUME NoneForgets' PROVE CommitInv' /\ ReachInv' /\ WaitInv' /\ MutualInv'
  <2>i. CommitInv /\ ReachInv /\ WaitInv /\ MutualInv
    BY <1>2, <1>u DEF MeetingInv, NoneForgets
  <2>1. CommitInv'
    BY <1>u, <2>i, KnownAssumption DEF CommitInv, TypeOK
  <2>2. ReachInv' /\ MutualInv'
    BY <1>u, <2>i DEF ReachInv, Reached, MutualInv
  <2>3. WaitInv'
    BY <1>u, <2>i DEF WaitInv, TypeOK
  <2> QED
    BY <2>1, <2>2, <2>3
<1> QED
  BY <1>1, <1>2 DEF MeetingInv

(* An agent that restarts before it has committed has nothing to forget    *)
(* but what it observed.                                                   *)
LEMMA MeetingRestart ==
  ASSUME IInv, MeetingInv, NEW a \in Restarting, Restart(a) PROVE MeetingInv'
<1>u. /\ TypeOK /\ a \in Agents /\ UNCHANGED <<net, committers>>
      /\ submitted' = submitted \ {a} /\ initiated' = initiated \ {a}
      /\ members'[a] = {}
      /\ \A b \in Agents \ {a} : /\ observed'[b] = observed[b] /\ members'[b] = members[b]
                                 /\ coordinator'[b] = coordinator[b]
  BY FaultAssumption DEF IInv, Restart, TypeOK
<1>1. FormedInv'
  <2>1. ~ Complete({})
    BY FS_EmptySet, ThresholdAssumption DEF Complete
  <2> QED
    BY <1>u, <2>1 DEF MeetingInv, FormedInv, Formed, Complete
<1>2. ASSUME NoneForgets' PROVE CommitInv' /\ ReachInv' /\ WaitInv' /\ MutualInv'
  <2>1. NoneForgets /\ a \notin committers
    BY <1>2, <1>u DEF NoneForgets
  <2>i. /\ CommitInv /\ ReachInv /\ WaitInv /\ MutualInv
        /\ submitted = committers /\ submitted' = submitted /\ initiated' = initiated
    BY <1>u, <2>1, Remembered DEF MeetingInv, ReachInv
  <2>2. members' = members
    <3>1. ASSUME NEW b \in members[a] PROVE FALSE
      <4>1. b # a /\ <<b, a>> \in disclosed
        BY <1>u, <2>1 DEF IInv, MemberInv
      <4> QED
        BY <2>1, <4>1 DEF IInv, KAnonymity
    <3> QED
      BY <1>u, <3>1 DEF Restart, TypeOK
  <2>3. CommitInv'
    BY <1>u, <2>1, <2>i, KnownAssumption DEF CommitInv, TypeOK
  <2>4. ReachInv' /\ MutualInv'
    BY <1>u, <2>i, <2>2 DEF ReachInv, Reached, MutualInv
  <2>5. WaitInv'
    BY <1>u, <2>1, <2>i DEF WaitInv, TypeOK
  <2> QED
    BY <2>3, <2>4, <2>5
<1> QED
  BY <1>1, <1>2 DEF MeetingInv
-----------------------------------------------------------------------------
(* An agent that sees the Kth peer commit starts its reveals at once, and  *)
(* reaches with them everyone it has seen.                                 *)
LEMMA MeetingOnCommit ==
  ASSUME IInv, MeetingInv, NEW m \in net, OnCommit(m) PROVE MeetingInv'
<1> DEFINE a == m.to
           seen == observed[a] \cup {m.from}
           starts == StartsReveal(a, seen)
<1>u. /\ a \in Agents /\ m.from \in Agents /\ m.kind = "commit" /\ TypeOK
      /\ observed' = [observed EXCEPT ![a] = seen]
      /\ UNCHANGED <<submitted, committers>>
  BY Arrival DEF OnCommit, IInv
<1>o. \A b \in Agents : observed'[b] = IF b = a THEN seen ELSE observed[b]
  BY <1>u DEF TypeOK
<1>n. net \ {m} \subseteq net'
  BY DEF OnCommit, Disclose, Without
<1>f. CASE starts
  <2>1. /\ initiated' = initiated \cup {a} /\ a \in submitted \ initiated
        /\ Finalize(a, members[a] \cup {a}) /\ Cardinality(seen) >= K
        /\ net' = Without(m) \cup {Msg("reveal_request", a, b) : b \in seen \ {a}}
    BY <1>f DEF OnCommit, StartsReveal, Disclose, RevealTo
  <2>2. \A b \in Agents : members'[b] = members[b] \cup (IF b = a THEN {a} ELSE {})
    BY <1>u, <2>1 DEF Finalize, TypeOK
  <2>3. FormedInv'
    BY <1>u, <2>1, FinalizeForms DEF MeetingInv, TypeOK
  <2>4. ASSUME NoneForgets' PROVE CommitInv' /\ ReachInv' /\ WaitInv' /\ MutualInv'
    <3>i. CommitInv /\ ReachInv /\ WaitInv /\ MutualInv
      BY <1>u, <2>4 DEF MeetingInv, NoneForgets
    <3>1. CommitInv'
      BY <1>u, <1>o, <1>n, <3>i, KnownAssumption DEF CommitInv, TypeOK, Msg
    <3>2. ASSUME NEW c \in initiated', c # a
          PROVE  c \in members'[c] /\ Cardinality(Reached(c)') >= K
      <4>1. c \in Agents /\ c \in members[c] /\ Cardinality(Reached(c)) >= K
        BY <1>u, <2>1, <3>2, <3>i DEF ReachInv, TypeOK
      <4>2. Reached(c) \subseteq Reached(c)'
        BY <1>u, <1>n, <2>2, <4>1 DEF Reached, Msg
      <4> QED
        BY <2>2, <4>1, <4>2, MoreReached
    <3>3. a \in members'[a] /\ Cardinality(Reached(a)') >= K
      <4> DEFINE R == Reached(a)'
      <4>1. seen \subseteq R
        BY <1>u, <2>1 DEF Reached, TypeOK
      <4>2. R \in SUBSET Agents
        BY DEF Reached
      <4> HIDE DEF R
      <4>3. seen \in SUBSET Agents
        BY <1>u DEF TypeOK
      <4>4. Cardinality(seen) <= Cardinality(R) /\ Cardinality(seen) \in Nat /\ Cardinality(R) \in Nat
        BY <4>1, <4>2, <4>3, SubsetCard, FS_Subset
      <4>5. Cardinality(R) >= K
        BY <2>1, <4>4, ThresholdAssumption
      <4> QED
        BY <1>u, <2>2, <4>5 DEF R
    <3>4. ReachInv'
      BY <1>u, <2>1, <3>i, <3>2, <3>3 DEF ReachInv
    <3>5. WaitInv'
      BY <1>u, <1>o, <2>1, <3>i DEF WaitInv, TypeOK
    <3>6. MutualInv'
      <4>1. \A x \in net' : x.kind = "reveal_response" => x \in net /\ x.from \in Agents
        BY <1>u, <2>1 DEF Without, Msg, TypeOK, Messages
      <4>2. \A b \in Agents : members'[b] \ {b} = members[b] \ {b} /\ members[b] \subseteq members'[b]
        BY <2>2
      <4>3. \A b \in Agents : members[b] \subseteq Agents
        BY <1>u DEF TypeOK
      <4> QED
        BY <1>u, <1>n, <3>i, <4>1, <4>2, <4>3 DEF MutualInv, Msg
    <3> QED
      BY <3>1, <3>4, <3>5, <3>6
  <2> QED
    BY <2>3, <2>4 DEF MeetingInv
<1>g. CASE ~ starts
  <2>1. net' = Without(m) /\ UNCHANGED <<initiated, members, coordinator>>
    BY <1>g DEF OnCommit
  <2>2. FormedInv'
    BY <2>1 DEF MeetingInv, FormedInv, Formed, Complete
  <2>3. ASSUME NoneForgets' PROVE CommitInv' /\ ReachInv' /\ WaitInv' /\ MutualInv'
    <3>i. CommitInv /\ ReachInv /\ WaitInv /\ MutualInv
      BY <1>u, <2>3 DEF MeetingInv, NoneForgets
    <3>1. CommitInv'
      BY <1>u, <1>o, <1>n, <3>i, KnownAssumption DEF CommitInv, TypeOK, Msg
    <3>2. \A x \in net : x.kind # "commit" => x \in net'
      BY <1>u, <1>n
    <3>3. ReachInv'
      <4> SUFFICES ASSUME NEW c \in initiated
                   PROVE  c \in members'[c] /\ Cardinality(Reached(c)') >= K
        BY <1>u, <2>1, <3>i DEF ReachInv
      <4>1. c \in Agents /\ c \in members[c] /\ Cardinality(Reached(c)) >= K
        BY <1>u, <3>i DEF ReachInv, TypeOK
      <4>2. Reached(c) \subseteq Reached(c)'
        BY <2>1, <3>2 DEF Reached, Msg
      <4> QED
        BY <2>1, <4>1, <4>2, MoreReached
    <3>4. WaitInv'
      BY <1>u, <1>o, <1>g, <2>1, <3>i DEF WaitInv, TypeOK, StartsReveal
    <3>5. MutualInv'
      BY <2>1, <3>2, <3>i DEF MutualInv, Msg, Without
    <3> QED
      BY <3>1, <3>3, <3>4, <3>5
  <2> QED
    BY <2>2, <2>3 DEF MeetingInv
<1> QED
  BY <1>f, <1>g

(* Whoever is revealed to answers, so that each counts the other.          *)
LEMMA MeetingOnRevealRequest ==
  ASSUME IInv, MeetingInv, NEW m \in net, OnRevealRequest(m) PROVE MeetingInv'
<1> DEFINE a == m.to
           ms == members[a] \cup (IF Answers(a) THEN {m.from, a} ELSE {m.from})
<1>u. /\ a \in Agents /\ m.from \in Agents /\ m.kind = "reveal_request" /\ TypeOK
      /\ ms \in SUBSET Agents /\ Finalize(a, ms)
      /\ UNCHANGED <<submitted, observed, initiated, committers>>
  BY Arrival DEF OnRevealRequest, IInv, TypeOK
<1>1. FormedInv'
  BY <1>u, FinalizeForms DEF MeetingInv
<1>2. ASSUME NoneForgets' PROVE CommitInv' /\ ReachInv' /\ WaitInv' /\ MutualInv'
  <2>i. /\ NoneForgets /\ CommitInv /\ ReachInv /\ WaitInv /\ MutualInv
        /\ a \in submitted /\ m.from \in members[m.from]
    BY <1>u, <1>2, Remembered DEF MeetingInv, NoneForgets
  <2>1. net' = Without(m) \cup {Msg("reveal_response", a, m.from)}
    BY <2>i DEF OnRevealRequest, Answers, Disclose
  <2>m. \A b \in Agents : members'[b] = members[b] \cup (IF b = a THEN {m.from, a} ELSE {})
    BY <1>u, <2>i DEF Finalize, TypeOK, Answers
  <2>n. \A x \in net : x \in net' \/ x = m
    BY <2>1 DEF Without
  <2>2. CommitInv'
    BY <1>u, <2>i, <2>n DEF CommitInv, Msg
  <2>3. ReachInv'
    <3> SUFFICES ASSUME NEW c \in initiated
                 PROVE  c \in members'[c] /\ Cardinality(Reached(c)') >= K
      BY <1>u, <2>i DEF ReachInv
    <3>1. c \in Agents /\ c \in members[c] /\ Cardinality(Reached(c)) >= K
      BY <1>u, <2>i DEF ReachInv, TypeOK
    <3>2. Reached(c) \subseteq Reached(c)'
      BY <1>u, <2>1, <2>m, <2>n, <3>1 DEF Reached, Msg
    <3> QED
      BY <2>m, <3>1, <3>2, MoreReached
  <2>4. WaitInv'
    BY <1>u, <2>i DEF WaitInv
  <2>5. MutualInv'
    <3>1. ASSUME NEW b \in Agents, NEW c \in members'[b] \ {b}
          PROVE  c \in members'[c] /\ (b \in members'[c] \/ Msg("reveal_response", b, c) \in net')
      <4>0. c \in Agents
        BY <1>u, <2>m, <3>1 DEF TypeOK
      <4>1. CASE c \in members[b]
        BY <1>u, <2>i, <2>m, <2>n, <3>1, <4>0, <4>1 DEF MutualInv, Msg
      <4>2. CASE c \notin members[b]
        <5>1. b = a /\ c = m.from
          BY <2>m, <3>1, <4>2
        <5> QED
          BY <2>i, <2>1, <2>m, <4>0, <5>1
      <4> QED
        BY <4>1, <4>2
    <3>2. ASSUME NEW x \in net', x.kind = "reveal_response"
          PROVE  x.from \in members'[x.from] /\ x.to \in members'[x.from]
      <4>1. CASE x = Msg("reveal_response", a, m.from)
        BY <1>u, <2>m, <4>1 DEF Msg
      <4>2. CASE x \in net
        <5>1. x.from \in Agents
          BY <1>u, <4>2 DEF TypeOK, Messages
        <5> QED
          BY <2>i, <2>m, <3>2, <4>2, <5>1 DEF MutualInv
      <4> QED
        BY <2>1, <4>1, <4>2 DEF Without
    <3> QED
      BY <3>1, <3>2 DEF MutualInv
  <2> QED
    BY <2>2, <2>3, <2>4, <2>5
<1> QED
  BY <1>1, <1>2 DEF MeetingInv

LEMMA MeetingOnRevealResponse ==
  ASSUME IInv, MeetingInv, NEW m \in net, OnRevealResponse(m) PROVE MeetingInv'
<1> DEFINE a == m.to
           ms == members[a] \cup {m.from}
<1>u. /\ a \in Agents /\ m.from \in Agents /\ m.kind = "reveal_response" /\ TypeOK
      /\ ms \in SUBSET Agents /\ Finalize(a, ms) /\ net' = Without(m)
      /\ UNCHANGED <<submitted, observed, initiated, committers>>
  BY Arrival DEF OnRevealResponse, IInv, TypeOK
<1>n. net' \subseteq net /\ \A x \in net : x \in net' \/ x = m
  BY <1>u DEF Without
<1>m. \A b \in Agents : members'[b] = members[b] \cup (IF b = a THEN {m.from} ELSE {})
  BY <1>u DEF Finalize, TypeOK
<1>1. FormedInv'
  BY <1>u, FinalizeForms DEF MeetingInv
<1>2. ASSUME NoneForgets' PROVE CommitInv' /\ ReachInv' /\ WaitInv' /\ MutualInv'
  <2>i. CommitInv /\ ReachInv /\ WaitInv /\ MutualInv
    BY <1>u, <1>2 DEF MeetingInv, NoneForgets
  <2>2. CommitInv'
    BY <1>u, <1>n, <2>i DEF CommitInv, Msg
  <2>3. ReachInv'
    <3> SUFFICES ASSUME NEW c \in initiated
                 PROVE  c \in members'[c] /\ Cardinality(Reached(c)') >= K
      BY <1>u, <2>i DEF ReachInv
    <3>1. c \in Agents /\ c \in members[c] /\ Cardinality(Reached(c)) >= K
      BY <1>u, <2>i DEF ReachInv, TypeOK
    <3>2. Reached(c) \subseteq Reached(c)'
      BY <1>u, <1>m, <1>n, <3>1 DEF Reached, Msg
    <3> QED
      BY <1>m, <3>1, <3>2, MoreReached
  <2>4. WaitInv'
    BY <1>u, <2>i DEF WaitInv
  <2>5. MutualInv'
    <3>f. m.from \in members[m.from] /\ a \in members[m.from]
      BY <1>u, <2>i DEF MutualInv
    <3>1. ASSUME NEW b \in Agents, NEW c \in members'[b] \ {b}
          PROVE  c \in members'[c] /\ (b \in members'[c] \/ Msg("reveal_response", b, c) \in net')
      <4>0. c \in Agents
        BY <1>u, <1>m, <3>1 DEF TypeOK
      <4>1. CASE c \in members[b]
        BY <1>u, <1>m, <1>n, <2>i, <3>1, <4>0, <4>1 DEF MutualInv, Msg
      <4>2. CASE c \notin members[b]
        <5>1. b = a /\ c = m.from
          BY <1>m, <3>1, <4>2
        <5> QED
          BY <1>m, <3>f, <4>0, <5>1
      <4> QED
        BY <4>1, <4>2
    <3>2. ASSUME NEW x \in net', x.kind = "reveal_response"
          PROVE  x.from \in members'[x.from] /\ x.to \in members'[x.from]
      <4>1. x \in net /\ x.from \in Agents
        BY <1>u, <1>n DEF TypeOK, Messages
      <4> QED
        BY <1>m, <2>i, <3>2, <4>1 DEF MutualInv
    <3> QED
      BY <3>1, <3>2 DEF MutualInv
  <2> QED
    BY <2>2, <2>3, <2>4, <2>5
<1> QED
  BY <1>1, <1>2 DEF MeetingInv

LEMMA MeetingStep == IInv /\ MeetingInv /\ [Next]_vars => MeetingInv'
<1> SUFFICES ASSUME IInv, MeetingInv, [Next]_vars PROVE MeetingInv'
  OBVIOUS
<1>1. ASSUME NEW m \in net, Receive(m) PROVE MeetingInv'
  BY <1>1, MeetingOnCommit, MeetingOnRevealRequest, MeetingOnRevealResponse DEF Receive
<1>2. CASE UNCHANGED vars
  <2>1. FormedInv' /\ CommitInv' = CommitInv /\ WaitInv' = WaitInv
    BY <1>2 DEF vars, local, MeetingInv, FormedInv, Formed, CommitInv, WaitInv
  <2>2. ReachInv' = ReachInv /\ MutualInv' = MutualInv /\ NoneForgets' = NoneForgets
    BY <1>2 DEF vars, local, ReachInv, Reached, MutualInv, NoneForgets
  <2> QED
    BY <2>1, <2>2 DEF MeetingInv
<1> QED
  BY <1>1, <1>2, MeetingSubmit, MeetingExpire, MeetingRestart DEF Next

LEMMA MeetingHolds == Spec => []MeetingInv
  BY InductiveInvariant, MeetingInit, MeetingStep, PTL DEF Spec

(* K of K members are all of them.                                         *)
LEMMA WholeCluster ==
  ASSUME IInv, NEW S \in SUBSET Agents, committers = S, Cardinality(S) = K,
         NEW a \in Agents, Formed(a)
  PROVE  members[a] = S /\ coordinator[a] = Smallest(S)
<1>1. PICK ms \in SUBSET members[a] : ElectedFrom(a, ms)
  BY DEF IInv, ElectionInv
<1>2. members[a] \subseteq S
  BY DEF IInv, MemberInv
<1>3. ms \subseteq S /\ Cardinality(ms) >= K
  BY <1>1, <1>2 DEF ElectedFrom
<1>4. Cardinality(ms) <= Cardinality(S) /\ Cardinality(ms) \in Nat /\ Cardinality(S) \in Nat
  BY <1>3, SubsetCard, FS_Subset
<1>5. ms = S
  BY <1>3, <1>4, SubsetCard, FS_Subset, ThresholdAssumption
<1> QED
  BY <1>1, <1>2, <1>5 DEF ElectedFrom

(* An agent that has started its reveals has its cluster once they and the *)
(* answers to them have been taken in.                                     *)
LEMMA InitiatedForms ==
  ASSUME IInv, MeetingInv, NoneForgets, \A m \in net : Seen(m), NEW a \in initiated
  PROVE  Formed(a)
<1>i. /\ FormedInv /\ MutualInv /\ a \in members[a] /\ Cardinality(Reached(a)) >= K
      /\ a \in Agents /\ members \in [Agents -> SUBSET Agents]
  BY DEF MeetingInv, ReachInv, IInv, TypeOK
<1>1. ASSUME NEW b \in Reached(a) PROVE b \in members[a]
  <2>1. \A c, d : Msg("reveal_response", c, d) \in net => c \in members[d]
    BY DEF Seen, Msg
  <2>2. CASE b # a /\ Msg("reveal_request", a, b) \in net
    <3>1. a \in members[b] /\ b \in Agents
      BY <2>2 DEF Seen, Msg, Reached
    <3> QED
      BY <1>i, <2>1, <2>2, <3>1 DEF MutualInv
  <2> QED
    BY <1>i, <2>1, <2>2 DEF Reached
<1> DEFINE R == Reached(a)
<1>2. R \subseteq members[a] /\ R \in SUBSET Agents /\ Cardinality(R) >= K
  BY <1>i, <1>1 DEF Reached
<1> HIDE DEF R
<1>3. /\ Cardinality(R) <= Cardinality(members[a])
      /\ Cardinality(R) \in Nat /\ Cardinality(members[a]) \in Nat
  BY <1>i, <1>2, SubsetCard, FS_Subset
<1> QED
  BY <1>i, <1>2, <1>3, ThresholdAssumption DEF FormedInv, Complete

(* No two agents that could meet are left waiting for each other, and K    *)
(* that are alone share one cluster and one coordinator: for every number  *)
(* of agents, every threshold and topology, in every order of messages.    *)
THEOREM MeetAtRestHolds == Spec => []MeetAtRest
<1>1. IInv /\ MeetingInv => MeetAtRest
  <2> SUFFICES ASSUME IInv, MeetingInv, \A m \in net : Seen(m), NoneForgets,
                      NEW S \in SUBSET (submitted \ Expiring), CanMeet(S)
               PROVE  Meets(S)
    BY DEF MeetAtRest, NoneForgets
  <2>i. /\ CommitInv /\ WaitInv /\ FormedInv /\ MutualInv
        /\ submitted = committers /\ S \in SUBSET Agents
        /\ members \in [Agents -> SUBSET Agents] /\ observed \in [Agents -> SUBSET Agents]
    BY Remembered DEF MeetingInv, IInv, TypeOK
  <2>k. Cardinality(S) >= K /\ Cardinality(S) > 1 /\ \A a \in S : S \subseteq Known[a] \cup {a}
    BY DEF CanMeet
  <2>1. ASSUME NEW a \in S, NEW b \in S PROVE b \in observed[a]
    <3>1. CASE a = b
      BY <2>i, <3>1 DEF CommitInv
    <3>2. CASE a # b
      <4>1. a \in Known[b] \ ({b} \cup Expiring \cup Restarting)
        BY <2>i, <2>k, <3>2 DEF NoneForgets
      <4>2. Msg("commit", b, a) \in net => b \in observed[a]
        BY DEF Seen, Msg
      <4> QED
        BY <2>i, <4>1, <4>2 DEF CommitInv
    <3> QED
      BY <3>1, <3>2
  <2>2. ASSUME NEW a \in S PROVE Cardinality(observed[a]) >= K
    <3>1. S \subseteq observed[a] /\ observed[a] \in SUBSET Agents
      BY <2>1, <2>i
    <3>2. /\ Cardinality(S) <= Cardinality(observed[a])
          /\ Cardinality(S) \in Nat /\ Cardinality(observed[a]) \in Nat
      BY <2>i, <3>1, SubsetCard, FS_Subset
    <3> QED
      BY <2>k, <3>2, ThresholdAssumption
  <2>3. ASSUME NEW a \in S, NEW b \in S, a # b PROVE Formed(a) \/ Formed(b)
    <3>1. a \in initiated \/ b \in initiated
      BY <2>i, <2>1, <2>2, <2>3 DEF WaitInv
    <3> QED
      BY <3>1, InitiatedForms
  <2>4. ASSUME Cardinality(S) = K, submitted = S, NEW a \in S PROVE coordinator[a] = Smallest(S)
    <3>1. CASE Formed(a)
      BY <2>i, <2>4, <3>1, WholeCluster
    <3>2. CASE ~ Formed(a)
      <4>1. ASSUME NEW b \in S, b # a PROVE b \in members[a] /\ a \in members[a]
        <5>1. members[b] = S
          BY <2>i, <2>3, <2>4, <3>2, <4>1, WholeCluster
        <5>2. Msg("reveal_response", b, a) \in net => b \in members[a]
          BY DEF Seen, Msg
        <5> QED
          BY <2>i, <4>1, <5>1, <5>2 DEF MutualInv
      <4>2. S # {a}
        <5>1. Cardinality({a}) = 1
          BY FS_Singleton
        <5> QED
          BY <2>k, <5>1
      <4>3. S \subseteq members[a] /\ members[a] \subseteq S
        BY <2>i, <2>4, <4>1, <4>2 DEF IInv, MemberInv
      <4>4. Complete(members[a])
        <5>1. members[a] = S
          BY <4>3
        <5> QED
          BY <2>k, <5>1 DEF Complete
      <4> QED
        BY <2>i, <3>2, <4>4 DEF FormedInv
    <3> QED
      BY <3>1, <3>2
  <2> QED
    BY <2>3, <2>4 DEF Meets
<1> QED
  BY <1>1, InductiveInvariant, MeetingHolds, PTL
-----------------------------------------------------------------------------
(***************************************************************************)
(* Settlement: what holds of the deal that K agents strike when nothing    *)
(* fails them.  First what needs no such condition: who takes part has     *)
(* committed, and a pool is settled when full and cancelled when lapsed.   *)
(***************************************************************************)
Asked(m) == \E a \in committers : m.sku = Intent[a].sku /\ m.max = Intent[a].max

PartInv ==
  /\ FirstCommitted
  /\ \A m \in mail : m.kind = "negotiate_request" => Asked(m)
  /\ \A a \in Agents : task[a].at # "idle" => a \in committers
  /\ \A p \in DOMAIN pools :
       /\ pools[p].by \in committers /\ pools[p].payers \subseteq committers
       /\ pools[p].outcome = "settled" => Full(p)
       /\ pools[p].outcome = "cancelled" => pools[p].lapsed

(* K agents at most, none of which fails, and whom the seller can serve.   *)
Smooth == /\ NoneForgets /\ committers \cap Failing = {}
          /\ Cardinality(committers) <= K
          /\ \A a \in committers : Offered(a)

(* The deal is for K, and the seller does not decline.                     *)
NumbersInv ==
  /\ \A m \in mail : /\ m.kind # "coalition_ready" => m.n = K
                     /\ m.kind = "negotiate_response" => m.price # Declined
  /\ \A a \in Agents : task[a].at = "deploy" => task[a].n = K
  /\ \A p \in DOMAIN pools : pools[p].required = K

DeployerInv == \A p \in DOMAIN pools : address[pools[p].by] = p

(* A coordinator has its coalition, or will.                               *)
NegotiatingInv == \A a \in Agents : coordinator[a] = a =>
  \/ task[a].at = "deploy"
  \/ address[a] # NoPool
  \/ \E m \in mail : \/ m.kind = "negotiate_request" /\ m.from = a
                     \/ m.kind = "negotiate_response" /\ m.to = a

PaidUp(a, p) == a \in Broke \cup pools[p].payers \/ pools[p].lapsed

(* Everyone is told of the coalition, and then pays.                       *)
ToldInv == \A p \in DOMAIN pools : \A a \in committers :
  \/ a \in DropOuts \/ PaidUp(a, p)
  \/ Ready(pools[p].by, a, p) \in mail
  \/ task[a].at = "fund" /\ task[a].pool = p

HasPaid(a) == pools # <<>> /\ \A p \in DOMAIN pools : PaidUp(a, p)

PaidInv == \A a \in Agents : a \in fundedByMe \/ task[a].at \in {"receipt", "tool"} => HasPaid(a)

DealInProgress == NumbersInv /\ DeployerInv /\ NegotiatingInv /\ ToldInv /\ PaidInv

SettlingInv == PartInv /\ (Smooth => DealInProgress)

LEMMA SettlingInit == SettlementInit => SettlingInv
<1> SUFFICES ASSUME SettlementInit PROVE SettlingInv
  OBVIOUS
<1>i. Idle.at = "idle"
  BY DEF Idle
<1>1. PartInv
  BY <1>i DEF SettlementInit, Init, PartInv, FirstCommitted
<1>2. NumbersInv /\ DeployerInv /\ ToldInv /\ PaidInv
  BY <1>i DEF SettlementInit, NumbersInv, DeployerInv, ToldInv, PaidInv
<1>3. NegotiatingInv
  BY AgentsAssumption DEF SettlementInit, Init, NegotiatingInv
<1> QED
  BY <1>1, <1>2, <1>3 DEF SettlingInv, DealInProgress

(* Whoever forms a cluster when no more than K have committed has them all,*)
(* and each of them has begun its own.                                     *)
LEMMA Alone ==
  ASSUME IInv, MeetingInv, NoneForgets, Cardinality(committers) <= K,
         NEW a \in Agents, Formed(a)
  PROVE  /\ Cardinality(committers) = K /\ members[a] = committers /\ a \in committers
         /\ coordinator[a] = Smallest(committers)
         /\ \A b \in committers : b \in members[b]
<1>i. /\ committers \in SUBSET Agents /\ MutualInv /\ members[a] \subseteq committers
      /\ a \in Agents
  BY DEF IInv, TypeOK, MemberInv, MeetingInv
<1>1. PICK ms \in SUBSET members[a] : ElectedFrom(a, ms)
  BY DEF IInv, ElectionInv
<1>2. ms \in SUBSET committers /\ Cardinality(ms) >= K
  BY <1>1, <1>i DEF ElectedFrom
<1>3. /\ Cardinality(ms) <= Cardinality(committers)
      /\ Cardinality(ms) \in Nat /\ Cardinality(committers) \in Nat
  BY <1>i, <1>2, SubsetCard, FS_Subset
<1>4. Cardinality(committers) = K
  BY <1>2, <1>3, ThresholdAssumption
<1>5. members[a] = committers /\ coordinator[a] = Smallest(committers)
  BY <1>i, <1>4, WholeCluster
<1>6. committers # {}
  BY <1>4, FS_EmptySet, ThresholdAssumption
<1>7. a \in committers
  <2>1. a \in Restarting \/ a \in members[a]
    BY <1>5, <1>6 DEF IInv, MemoryInv
  <2>2. PICK b \in committers : TRUE
    BY <1>6
  <2>3. b # a => a \in members[b] \/ Msg("reveal_response", a, b) \in net
    BY <1>i, <1>5, <2>2 DEF MutualInv
  <2>4. a \in members[b] => a \in committers
    BY <1>i, <2>2 DEF IInv, MemberInv
  <2>5. Msg("reveal_response", a, b) \in net => a \in committers
    BY DEF IInv, HistoryInv, Msg
  <2> QED
    BY <2>2, <2>3, <2>4, <2>5
<1>8. \A b \in committers : b \in members[b]
  <2>1. \A b \in committers \ {a} : b \in members[b]
    BY <1>i, <1>5 DEF MutualInv
  <2> QED
    BY <1>5, <1>7, <2>1
<1> QED
  BY <1>4, <1>5, <1>7, <1>8
-----------------------------------------------------------------------------
(* Everything that can happen to a deployed pool.                          *)
Settling(p) == pools[p].outcome = "open" /\ Full(p) /\ pools' = Settled(p)

Cancelling(p) == /\ pools[p].outcome = "open" /\ pools[p].lapsed
                 /\ pools' = [pools EXCEPT ![p].outcome = "cancelled", ![p].payers = {}]

Lapses(p) == pools' = [pools EXCEPT ![p].lapsed = TRUE]

Paying(p, a) == Accepts(p, a) /\ pools' = [pools EXCEPT ![p].payers = @ \cup {a}]

Moves(p) == Settling(p) \/ Cancelling(p) \/ Lapses(p) \/ \E a \in committers : Paying(p, a)

LEMMA MoveShape ==
  ASSUME SettlementTypeOK, PartInv, NEW p \in DOMAIN pools, Moves(p)
  PROVE  /\ DOMAIN pools' = DOMAIN pools /\ \A q \in DOMAIN pools \ {p} : pools'[q] = pools[q]
         /\ pools'[p].by = pools[p].by /\ pools'[p].required = pools[p].required
         /\ pools[p].lapsed => pools'[p].lapsed
         /\ pools[p].payers \subseteq pools'[p].payers \/ pools'[p].lapsed
         /\ pools'[p].payers \subseteq committers
         /\ pools'[p].outcome = "settled" =>
              Cardinality(pools'[p].payers) = pools'[p].required
         /\ pools'[p].outcome = "cancelled" => pools'[p].lapsed
<1>t. /\ pools \in [DOMAIN pools -> Pool] /\ pools[p] \in Pool
      /\ pools[p].payers \subseteq committers
      /\ pools[p].outcome = "settled" => Cardinality(pools[p].payers) = pools[p].required
      /\ pools[p].outcome = "cancelled" => pools[p].lapsed
  BY PoolShape DEF SettlementTypeOK, PartInv, Full
<1>1. CASE Settling(p)
  BY <1>t, <1>1 DEF Settling, Settled, Full, Pool
<1>2. CASE Cancelling(p)
  BY <1>t, <1>2 DEF Cancelling, Pool
<1>3. CASE Lapses(p)
  BY <1>t, <1>3 DEF Lapses, Pool
<1>4. ASSUME NEW a \in committers, Paying(p, a)
      PROVE  pools' = [pools EXCEPT ![p].payers = @ \cup {a}] /\ pools[p].outcome = "open"
  BY <1>4 DEF Paying, Accepts
<1>5. CASE \E a \in committers : Paying(p, a)
  BY <1>t, <1>4, <1>5 DEF Pool
<1> QED
  BY <1>1, <1>2, <1>3, <1>5 DEF Moves

LEMMA StepMoves ==
  ASSUME SettlementTypeOK, PartInv
  PROVE  /\ \A p \in DOMAIN pools : PoolStep(p) => Moves(p)
         /\ \A a \in Agents : SendFund(a) =>
              pools' = pools \/ (Paying(task[a].pool, a) /\ Moves(task[a].pool))
         /\ \A a \in Agents : CallTool(a) => pools' = pools \/ Moves(task[a].pool)
<1>1. ASSUME NEW p \in DOMAIN pools, PoolStep(p) PROVE Moves(p)
  BY <1>1 DEF PoolStep, KeeperCommits, Cancels, Lapse, Moves, Settling, Cancelling, Lapses
<1>2. ASSUME NEW a \in Agents, SendFund(a)
      PROVE  pools' = pools \/ (Paying(task[a].pool, a) /\ Moves(task[a].pool))
  <2>1. a \in committers
    BY <1>2 DEF SendFund, PartInv
  <2> QED
    BY <1>2, <2>1 DEF SendFund, Moves, Paying
<1>3. ASSUME NEW a \in Agents, CallTool(a) PROVE pools' = pools \/ Moves(task[a].pool)
  BY <1>3 DEF CallTool, Moves, Settling
<1> QED
  BY <1>1, <1>2, <1>3

(* Steps that bring in nobody and send no new request.                     *)
LEMMA PartKept ==
  ASSUME SettlementTypeOK, PartInv, committers \subseteq committers', FirstCommitted',
         \A m \in mail' : m.kind = "negotiate_request" => m \in mail,
         \A a \in Agents : task'[a].at # "idle" => task[a].at # "idle" \/ a \in committers',
         \/ pools' = pools
         \/ \E p \in DOMAIN pools : Moves(p)
         \/ \E a \in committers \cap Agents :
              task[a].at = "deploy" /\ pools' = Append(pools, NewPool(a, task[a]))
  PROVE  PartInv'
<1>1. \A m \in mail' : m.kind = "negotiate_request" => Asked(m)'
  BY DEF PartInv, Asked
<1>2. \A a \in Agents : task'[a].at # "idle" => a \in committers'
  BY DEF PartInv
<1>3. \A p \in DOMAIN pools :
        /\ pools[p].by \in committers /\ pools[p].payers \subseteq committers
        /\ pools[p].outcome = "settled" => Cardinality(pools[p].payers) = pools[p].required
        /\ pools[p].outcome = "cancelled" => pools[p].lapsed
  BY DEF PartInv, Full
<1>4. \A p \in DOMAIN pools' :
        /\ pools'[p].by \in committers' /\ pools'[p].payers \subseteq committers'
        /\ pools'[p].outcome = "settled" => Cardinality(pools'[p].payers) = pools'[p].required
        /\ pools'[p].outcome = "cancelled" => pools'[p].lapsed
  <2>1. CASE pools' = pools
    BY <1>3, <2>1
  <2>2. ASSUME NEW q \in DOMAIN pools, Moves(q)
        PROVE  \A p \in DOMAIN pools' :
                 /\ pools'[p].by \in committers' /\ pools'[p].payers \subseteq committers'
                 /\ pools'[p].outcome = "settled" => Cardinality(pools'[p].payers) = pools'[p].required
                 /\ pools'[p].outcome = "cancelled" => pools'[p].lapsed
    <3>1. DOMAIN pools' = DOMAIN pools /\ \A p \in DOMAIN pools \ {q} : pools'[p] = pools[p]
      BY <2>2, MoveShape
    <3>2. /\ pools'[q].by = pools[q].by /\ pools'[q].payers \subseteq committers
          /\ pools'[q].outcome = "settled" => Cardinality(pools'[q].payers) = pools'[q].required
          /\ pools'[q].outcome = "cancelled" => pools'[q].lapsed
      BY <2>2, MoveShape
    <3> QED
      BY <1>3, <3>1, <3>2
  <2>3. ASSUME NEW a \in committers, a \in Agents, task[a].at = "deploy",
               pools' = Append(pools, NewPool(a, task[a]))
        PROVE  \A p \in DOMAIN pools' :
                 /\ pools'[p].by \in committers' /\ pools'[p].payers \subseteq committers'
                 /\ pools'[p].outcome = "settled" => Cardinality(pools'[p].payers) = pools'[p].required
                 /\ pools'[p].outcome = "cancelled" => pools'[p].lapsed
    <3>1. NewPool(a, task[a]) \in Pool
      BY <2>3, DeployShape
    <3>2. /\ DOMAIN pools' = DOMAIN pools \cup {Len(pools) + 1}
          /\ \A p \in DOMAIN pools : pools'[p] = pools[p]
          /\ pools'[Len(pools) + 1] = NewPool(a, task[a])
      BY <2>3, <3>1, AppendShape
    <3> QED
      BY <1>3, <3>2 DEF NewPool
  <2> QED
    BY <2>1, <2>2, <2>3
<1> QED
  BY <1>1, <1>2, <1>4 DEF PartInv, Full

LEMMA PartMeet ==
  ASSUME SInv, IInv, IInv', PartInv, NEW m \in net, Meet(m) PROVE PartInv'
<1> DEFINE a == m.to
           elected == ~ Formed(a) /\ coordinator'[a] = a
           request == Request(a, Cardinality(members'[a]), first'[a])
<1>t. SettlementTypeOK /\ TypeOK /\ FirstCommitted
  BY DEF SInv, IInv, PartInv
<1>m. /\ Receive(m) /\ UNCHANGED <<task, address, fundedByMe, pools>>
      /\ mail' = mail \cup (IF elected THEN {request} ELSE {})
  BY DEF Meet
<1>1. FirstCommitted' /\ committers' = committers
  BY <1>t, <1>m, FirstMeet, MeetFrame
<1>2. ASSUME elected
      PROVE  \E b \in committers' : request.sku = Intent[b].sku /\ request.max = Intent[b].max
  <2>1. a \in Agents /\ members'[a] # {}
    BY <1>t, <1>m, <1>2, ElectedHasMembers
  <2>2. first'[a] \in committers'
    BY <1>1, <2>1 DEF FirstCommitted
  <2>3. request.sku = Intent[first'[a]].sku /\ request.max = Intent[first'[a]].max
    BY DEF Request
  <2> HIDE DEF request
  <2> QED
    BY <2>2, <2>3
<1> HIDE DEF request
<1>3. \A r \in mail' : r.kind = "negotiate_request" => Asked(r)'
  BY <1>m, <1>1, <1>2 DEF PartInv, Asked
<1> QED
  BY <1>m, <1>1, <1>3 DEF PartInv, Full

(* An agent is its own coordinator, or has itself for a member, only when  *)
(* it has committed.                                                       *)
LEMMA OwnMember ==
  ASSUME IInv, NEW a \in Agents, a \in members[a] \/ coordinator[a] = a
  PROVE  a \in committers
<1>1. members[a] \subseteq committers /\ members[a] \in SUBSET Agents
  BY DEF IInv, MemberInv, TypeOK
<1>2. CASE coordinator[a] = a
  <2>1. Formed(a)
    BY <1>2, AgentsAssumption DEF Formed
  <2>2. PICK ms \in SUBSET members[a] : ElectedFrom(a, ms)
    BY <2>1 DEF IInv, ElectionInv
  <2> QED
    BY <1>1, <1>2, <2>2, CompleteMembers DEF ElectedFrom
<1> QED
  BY <1>1, <1>2

LEMMA PartDeliver ==
  ASSUME SInv, IInv, PartInv, NEW m \in mail, Deliver(m) PROVE PartInv'
<1>t. SettlementTypeOK /\ FirstCommitted /\ task \in [Agents -> Tasks] /\ Idle.at = "idle"
  BY DEF SInv, PartInv, SettlementTypeOK, Idle
<1>1. UNCHANGED <<members, committers, first, pools>>
  BY DEF Deliver, SellerAnswers, OnNegotiateResponse, OnCoalitionReady, vars, local
<1>2. \A r \in mail' : r.kind = "negotiate_request" => r \in mail
  BY DEF Deliver, SellerAnswers, OnNegotiateResponse, OnCoalitionReady, Response
<1>3. FirstCommitted'
  BY <1>t, <1>1 DEF FirstCommitted
<1>4. ASSUME NEW a \in Agents, task'[a].at # "idle" PROVE task[a].at # "idle" \/ a \in committers'
  <2>1. CASE SellerAnswers(m)
    BY <1>4, <2>1 DEF SellerAnswers
  <2>2. CASE OnNegotiateResponse(m)
    <3>1. task'[a] = task[a] \/ (a = m.to /\ Deploys(m.to, m))
      BY <1>t, <2>2 DEF OnNegotiateResponse
    <3> QED
      BY <1>1, <1>4, <3>1, OwnMember DEF Deploys
  <2>3. CASE OnCoalitionReady(m)
    <3>1. task'[a] = task[a] \/ (a = m.to /\ task'[a] = Funds(m.to, m.pool))
      BY <1>t, <2>3 DEF OnCoalitionReady
    <3> QED
      BY <1>1, <1>4, <1>t, <3>1, OwnMember DEF Funds
  <2> QED
    BY <2>1, <2>2, <2>3 DEF Deliver
<1> QED
  BY <1>t, <1>1, <1>2, <1>3, <1>4, PartKept

LEMMA PartAgentStep ==
  ASSUME SInv, IInv, PartInv, NEW a \in Agents, AgentStep(a) PROVE PartInv'
<1>t. SettlementTypeOK /\ FirstCommitted /\ task \in [Agents -> Tasks] /\ Idle.at = "idle"
  BY DEF SInv, PartInv, SettlementTypeOK, Idle
<1>1. UNCHANGED <<members, committers, first>> /\ task[a].at # "idle"
  BY DEF AgentStep, Deployed, DeployThrows, SendFund, FundReceipt, FundThrows, CallTool, vars, local
<1>2. FirstCommitted' /\ a \in committers
  BY <1>t, <1>1 DEF FirstCommitted, PartInv
<1>3. \A m \in mail' : m.kind = "negotiate_request" => m \in mail
  BY DEF AgentStep, Deployed, DeployThrows, SendFund, FundReceipt, FundThrows, CallTool, Ready
<1>4. \A b \in Agents \ {a} : task'[b] = task[b]
  BY <1>t DEF AgentStep, Deployed, DeployThrows, SendFund, FundReceipt, FundThrows, CallTool
<1>5. \/ pools' = pools
      \/ \E p \in DOMAIN pools : Moves(p)
      \/ task[a].at = "deploy" /\ pools' = Append(pools, NewPool(a, task[a]))
  <2>1. CASE Deployed(a) \/ DeployThrows(a) \/ FundReceipt(a) \/ FundThrows(a)
    BY <2>1 DEF Deployed, DeployThrows, FundReceipt, FundThrows
  <2>2. CASE SendFund(a) \/ CallTool(a)
    <3>1. task[a].pool \in DOMAIN pools
      BY <1>t, <2>2, TaskShape DEF SendFund, CallTool
    <3> QED
      BY <1>t, <2>2, <3>1, StepMoves
  <2> QED
    BY <2>1, <2>2 DEF AgentStep
<1> QED
  BY <1>t, <1>1, <1>2, <1>3, <1>4, <1>5, PartKept

LEMMA PartStep ==
  ASSUME SInv, IInv, IInv', PartInv, [SettlementNext]_svars PROVE PartInv'
<1>t. SettlementTypeOK /\ TypeOK /\ FirstCommitted /\ Idle.at = "idle"
  BY DEF SInv, IInv, PartInv, Idle
<1>c. committers \subseteq committers'
  BY <1>t, StepIsRendezvous, HistoriesGrow
<1>1. ASSUME UNCHANGED settling, UNCHANGED members PROVE PartInv'
  <2>1. FirstCommitted'
    BY <1>t, <1>c, <1>1 DEF FirstCommitted, settling
  <2> QED
    BY <1>t, <1>c, <1>1, <2>1, PartKept DEF settling
<1>2. CASE (\E a \in Agents : Submit(a) \/ Expire(a)) /\ UNCHANGED settling
  BY <1>1, <1>2 DEF Submit, Expire
<1>3. CASE UNCHANGED svars
  BY <1>1, <1>3 DEF svars, vars, local
<1>4. ASSUME NEW p \in DOMAIN pools, PoolStep(p) PROVE PartInv'
  <2>1. UNCHANGED <<members, committers, first, mail, task>>
    BY <1>4 DEF PoolStep, KeeperCommits, Cancels, Lapse, vars, local
  <2>2. Moves(p)
    BY <1>t, <1>4, StepMoves
  <2>3. FirstCommitted'
    BY <1>t, <2>1 DEF FirstCommitted
  <2> QED
    BY <1>t, <2>1, <2>2, <2>3, PartKept
<1>5. ASSUME NEW a \in Restarting, Reboot(a) PROVE PartInv'
  <2>1. /\ UNCHANGED <<committers, mail>> /\ a \in Agents
        /\ \/ pools' = pools
           \/ task[a].at = "deploy" /\ pools' = Append(pools, NewPool(a, task[a]))
        /\ \A b \in Agents : task'[b] = task[b] \/ task'[b].at = "idle"
        /\ \A b \in Agents : members'[b] # {} => members'[b] = members[b] /\ first'[b] = first[b]
    BY <1>t, <1>5, FaultAssumption DEF Reboot, Restart, TypeOK, SettlementTypeOK
  <2>2. FirstCommitted'
    BY <1>t, <2>1 DEF FirstCommitted
  <2>3. task[a].at # "idle" => a \in committers \cap Agents
    BY <2>1 DEF PartInv
  <2> QED
    BY <1>t, <2>1, <2>2, <2>3, PartKept
<1>6. Expiring \subseteq Agents
  BY FaultAssumption
<1> QED
  BY <1>2, <1>3, <1>4, <1>5, <1>6, PartMeet, PartDeliver, PartAgentStep DEF SettlementNext, Matching
-----------------------------------------------------------------------------
LEMMA SmoothBefore ==
  ASSUME IInv, IInv', [Next]_vars, Smooth' PROVE Smooth
<1>1. committers \subseteq committers' /\ committers' \in SUBSET Agents
  BY HistoriesGrow DEF IInv, TypeOK
<1>2. /\ Cardinality(committers) <= Cardinality(committers')
      /\ Cardinality(committers) \in Nat /\ Cardinality(committers') \in Nat
  BY <1>1, SubsetCard, FS_Subset
<1>3. Cardinality(committers) <= K
  BY <1>2, ThresholdAssumption DEF Smooth
<1> QED
  BY <1>1, <1>3 DEF Smooth, NoneForgets, Offered

(* There is one pool at most, and everybody who committed waits for it.    *)
LEMMA TheDeal ==
  ASSUME SInv, IInv, MeetingInv, PartInv, Smooth, DeployerInv, NEW p \in DOMAIN pools
  PROVE  /\ pools[p].by = Smallest(committers) /\ pools[p].by \in committers
         /\ coordinator[pools[p].by] = pools[p].by
         /\ Cardinality(committers) = K /\ \A b \in committers : b \in members[b]
         /\ \A q \in DOMAIN pools : q = p
<1>1. ASSUME NEW q \in DOMAIN pools
      PROVE  /\ pools[q].by \in committers /\ pools[q].by = Smallest(committers)
             /\ coordinator[pools[q].by] = pools[q].by
             /\ Cardinality(committers) = K /\ \A b \in committers : b \in members[b]
  <2> DEFINE c == pools[q].by
  <2>1. c \in committers /\ c \in Agents \ Restarting
    BY DEF PartInv, Smooth, NoneForgets, IInv, TypeOK
  <2>2. coordinator[c] = c
    BY <2>1 DEF SInv, DealInv
  <2>3. Formed(c)
    BY <2>1, <2>2, AgentsAssumption DEF Formed
  <2> HIDE DEF c
  <2>4. /\ Cardinality(committers) = K /\ \A b \in committers : b \in members[b]
        /\ coordinator[c] = Smallest(committers)
    BY <2>1, <2>3, Alone DEF Smooth
  <2> QED
    BY <2>1, <2>2, <2>4 DEF c
<1>2. \A q \in DOMAIN pools : q = p
  BY <1>1 DEF DeployerInv
<1> QED
  BY <1>1, <1>2

(* A full pool has been paid by everybody.                                 *)
LEMMA FullPool ==
  ASSUME SInv, IInv, MeetingInv, PartInv, Smooth, DealInProgress, NEW p \in DOMAIN pools, Full(p)
  PROVE  pools[p].payers = committers
<1>1. /\ pools[p].payers \subseteq committers /\ Cardinality(pools[p].payers) = K
      /\ committers \in SUBSET Agents
  BY DEF PartInv, DealInProgress, NumbersInv, Full, IInv, TypeOK
<1>2. Cardinality(committers) = K
  BY TheDeal DEF DealInProgress
<1> QED
  BY <1>1, <1>2, SubsetCard, FS_Subset

(* Steps of the chain and of agents that do not deploy.                    *)
LEMMA DealMovesOn ==
  ASSUME DealInProgress, committers' = committers, UNCHANGED <<coordinator, address, mail>>,
         (pools = <<>>) = (pools' = <<>>), DOMAIN pools' = DOMAIN pools,
         \A p \in DOMAIN pools :
           /\ pools'[p].by = pools[p].by /\ pools'[p].required = pools[p].required
           /\ pools[p].lapsed => pools'[p].lapsed
           /\ pools[p].payers \subseteq pools'[p].payers \/ pools'[p].lapsed,
         \A a \in Agents :
           \/ task'[a] = task[a]
           \/ /\ task[a].at # "deploy" /\ task'[a].at # "deploy"
              /\ task[a].at = "fund" => HasPaid(a)',
         \A a \in Agents : a \in fundedByMe' \/ task'[a].at \in {"receipt", "tool"} =>
           \/ a \in fundedByMe \/ task[a].at \in {"receipt", "tool"}
           \/ HasPaid(a)',
         committers \subseteq Agents
  PROVE  DealInProgress'
<1>i. NumbersInv /\ DeployerInv /\ NegotiatingInv /\ ToldInv /\ PaidInv
  BY DEF DealInProgress
<1>1. NumbersInv'
  BY <1>i DEF NumbersInv
<1>2. DeployerInv'
  BY <1>i DEF DeployerInv
<1>3. NegotiatingInv'
  BY <1>i DEF NegotiatingInv
<1>4. \A a : \A p \in DOMAIN pools : PaidUp(a, p) => PaidUp(a, p)'
  BY DEF PaidUp
<1>5. ToldInv'
  <2> SUFFICES ASSUME NEW p \in DOMAIN pools, NEW a \in committers
               PROVE  \/ a \in DropOuts \/ PaidUp(a, p)'
                      \/ Ready(pools[p].by, a, p) \in mail
                      \/ task'[a].at = "fund" /\ task'[a].pool = p
    BY DEF ToldInv
  <2>1. CASE task'[a] = task[a]
    BY <1>i, <1>4, <2>1 DEF ToldInv
  <2>2. CASE task[a].at = "fund" /\ HasPaid(a)'
    BY <2>2 DEF HasPaid
  <2>3. CASE task[a].at # "fund"
    BY <1>i, <1>4, <2>3 DEF ToldInv
  <2> QED
    BY <2>1, <2>2, <2>3
<1>6. PaidInv'
  <2>1. \A a : HasPaid(a) => HasPaid(a)'
    BY <1>4 DEF HasPaid
  <2> QED
    BY <1>i, <2>1 DEF PaidInv
<1> QED
  BY <1>1, <1>2, <1>3, <1>5, <1>6 DEF DealInProgress

LEMMA DealPoolStep ==
  ASSUME SInv, IInv, PartInv, DealInProgress, NEW p \in DOMAIN pools, PoolStep(p)
  PROVE  DealInProgress'
<1>1. /\ SettlementTypeOK /\ committers \subseteq Agents
      /\ UNCHANGED <<committers, coordinator, address, mail, task, fundedByMe>>
  BY DEF SInv, IInv, TypeOK, PoolStep, KeeperCommits, Cancels, Lapse, vars, local
<1>2. Moves(p)
  BY <1>1, StepMoves
<1>3. /\ DOMAIN pools' = DOMAIN pools /\ p \in DOMAIN pools'
      /\ \A q \in DOMAIN pools :
           /\ pools'[q].by = pools[q].by /\ pools'[q].required = pools[q].required
           /\ pools[q].lapsed => pools'[q].lapsed
           /\ pools[q].payers \subseteq pools'[q].payers \/ pools'[q].lapsed
  BY <1>1, <1>2, MoveShape
<1>4. pools # <<>> /\ pools' # <<>>
  BY <1>3
<1> QED
  BY <1>1, <1>3, <1>4, DealMovesOn

(* An agent that sends its payment has paid then, or cannot.               *)
LEMMA SentPays ==
  ASSUME SInv, IInv, MeetingInv, PartInv, Smooth, DealInProgress,
         NEW a \in committers, NEW p \in DOMAIN pools,
         pools' = IF Accepts(p, a) THEN [pools EXCEPT ![p].payers = @ \cup {a}] ELSE pools
  PROVE  PaidUp(a, p)'
<1>t. /\ pools \in [DOMAIN pools -> Pool] /\ pools[p] \in Pool
      /\ pools[p].outcome = "settled" => Full(p)
      /\ pools[p].outcome = "cancelled" => pools[p].lapsed
  BY PoolShape DEF SInv, SettlementTypeOK, PartInv
<1>1. CASE Accepts(p, a)
  <2>1. a \in pools'[p].payers
    BY <1>t, <1>1 DEF Pool
  <2> QED
    BY <2>1 DEF PaidUp
<1>2. CASE ~ Accepts(p, a)
  <2>1. pools' = pools
    BY <1>2
  <2>2. \/ Full(p) \/ pools[p].lapsed \/ a \in pools[p].payers \cup Broke
    BY <1>t, <1>2 DEF Accepts, Pool
  <2>3. Full(p) => a \in pools[p].payers
    BY FullPool
  <2> QED
    BY <2>1, <2>2, <2>3 DEF PaidUp
<1> QED
  BY <1>1, <1>2

LEMMA DealTaskStep ==
  ASSUME SInv, IInv, MeetingInv, PartInv, Smooth, DealInProgress, NEW a \in Agents,
         SendFund(a) \/ FundReceipt(a) \/ CallTool(a)
  PROVE  DealInProgress'
<1>t. /\ SettlementTypeOK /\ committers \subseteq Agents /\ task \in [Agents -> Tasks]
      /\ PaidInv /\ DeployerInv
      /\ UNCHANGED <<committers, coordinator, address, mail>>
  BY DEF SInv, SettlementTypeOK, IInv, TypeOK, SendFund, FundReceipt, CallTool, vars, local,
         DealInProgress
<1>0. /\ task[a].at \in {"fund", "receipt", "tool"} /\ a \in committers
      /\ task[a].pool \in DOMAIN pools /\ task[a] \in [at : {"fund", "receipt", "tool"}, pool : Nat]
  BY <1>t, TaskShape DEF SendFund, FundReceipt, CallTool, PartInv
<1>p. PICK p \in DOMAIN pools : p = task[a].pool
  BY <1>0
<1>1. /\ task[a].at \in {"fund", "receipt", "tool"} /\ a \in committers
      /\ p \in DOMAIN pools /\ task[a] \in [at : {"fund", "receipt", "tool"}, pool : Nat]
  BY <1>0
<1>2. /\ \A b \in Agents \ {a} : task'[b] = task[b]
      /\ task'[a].at # "deploy"
      /\ task'[a].at = "receipt" => task[a].at = "fund"
      /\ task'[a].at = "tool" => task[a].at = "receipt"
      /\ task[a].at = "fund" => SendFund(a)
      /\ fundedByMe' = fundedByMe \/ (fundedByMe' = fundedByMe \cup {a} /\ task[a].at = "receipt")
  BY <1>t, <1>1 DEF SendFund, FundReceipt, CallTool, Idle
<1>3. pools' = pools \/ Moves(p)
  BY <1>t, <1>p, StepMoves DEF FundReceipt
<1>4. /\ DOMAIN pools' = DOMAIN pools
      /\ \A q \in DOMAIN pools :
           /\ pools'[q].by = pools[q].by /\ pools'[q].required = pools[q].required
           /\ pools[q].lapsed => pools'[q].lapsed
           /\ pools[q].payers \subseteq pools'[q].payers \/ pools'[q].lapsed
  BY <1>t, <1>1, <1>3, MoveShape
<1>5. pools # <<>> /\ pools' # <<>>
  BY <1>1, <1>4
<1>6. ASSUME SendFund(a) PROVE HasPaid(a)'
  <2>1. PaidUp(a, p)'
    BY <1>1, <1>p, <1>6, SentPays DEF SendFund
  <2>2. \A q \in DOMAIN pools : q = p
    BY <1>t, <1>1, TheDeal
  <2> QED
    BY <1>4, <1>5, <2>1, <2>2 DEF HasPaid
<1> QED
  BY <1>t, <1>1, <1>2, <1>4, <1>5, <1>6, DealMovesOn

(* The coordinator deploys once, and tells everyone.                       *)
LEMMA DealDeployed ==
  ASSUME SInv, IInv, MeetingInv, PartInv, Smooth, DealInProgress, NEW a \in Agents, Deployed(a)
  PROVE  DealInProgress'
<1> DEFINE p == Len(pools) + 1
<1>t. /\ SettlementTypeOK /\ committers \subseteq Agents /\ task \in [Agents -> Tasks]
      /\ address \in [Agents -> {NoPool} \cup DOMAIN pools]
      /\ NumbersInv /\ DeployerInv /\ NegotiatingInv /\ ToldInv /\ PaidInv
  BY DEF SInv, SettlementTypeOK, IInv, TypeOK, DealInProgress
<1>u. /\ task[a].at = "deploy"
      /\ pools' = Append(pools, NewPool(a, task[a]))
      /\ address' = [address EXCEPT ![a] = p]
      /\ mail' = mail \cup {Ready(a, b, p) : b \in members[a] \ {a}}
      /\ task' = [task EXCEPT ![a] = Funds(a, p)]
      /\ UNCHANGED <<vars, first, fundedByMe>>
  BY DEF Deployed
<1>1. a \in committers /\ a \notin Restarting
  BY <1>u DEF PartInv, Smooth, NoneForgets
<1>2. address[a] = NoPool /\ coordinator[a] = a
  BY <1>u, <1>1 DEF SInv, DealInv
<1>3. Formed(a)
  BY <1>2, AgentsAssumption DEF Formed
<1>4. members[a] = committers /\ coordinator[a] = Smallest(committers)
  BY <1>3, Alone DEF Smooth
<1>5. \A q \in DOMAIN pools : FALSE
  <2> SUFFICES ASSUME NEW q \in DOMAIN pools PROVE FALSE
    OBVIOUS
  <2>1. pools[q].by = a
    BY <1>t, <1>2, <1>4, TheDeal
  <2>2. address[a] = q
    BY <1>t, <2>1 DEF DeployerInv
  <2> QED
    BY <1>t, <1>2, <2>2, PoolShape
<1>6. pools = <<>>
  <2>1. Len(pools) \in Nat /\ DOMAIN pools = 1..Len(pools) /\ pools \in Seq(Pool)
    BY <1>t, PoolShape DEF SettlementTypeOK
  <2>2. 1 \notin 1..Len(pools)
    BY <1>5, <2>1
  <2>3. Len(pools) = 0
    BY <2>1, <2>2
  <2> QED
    BY <2>1, <2>3
<1>7. NewPool(a, task[a]) \in Pool
  BY <1>t, <1>u, DeployShape
<1>8. /\ p \in Nat /\ DOMAIN pools' = {p} /\ pools'[p] = NewPool(a, task[a]) /\ p # NoPool
  BY <1>t, <1>u, <1>5, <1>7, AppendShape DEF NoPool
<1>9. pools'[p].by = a /\ pools'[p].required = K /\ pools' # <<>>
  BY <1>t, <1>u, <1>8 DEF NewPool, NumbersInv
<1> HIDE DEF p
<1>10. /\ address'[a] = p /\ task'[a] = Funds(a, p)
       /\ \A b \in Agents \ {a} : address'[b] = address[b] /\ task'[b] = task[b]
  BY <1>t, <1>u
<1>11. /\ \A b : b \notin fundedByMe'
       /\ \A b \in Agents : task'[b].at \notin {"receipt", "tool"} /\ task'[b].at # "deploy"
  <2>1. \A b \in Agents : b \notin fundedByMe /\ task[b].at \notin {"receipt", "tool"}
    BY <1>t, <1>6 DEF PaidInv, HasPaid
  <2>2. \A b \in Agents : task[b].at = "deploy" => b = a
    <3> SUFFICES ASSUME NEW b \in Agents, task[b].at = "deploy" PROVE b = a
      OBVIOUS
    <3>1. b \in committers /\ coordinator[b] = b
      BY DEF PartInv, Smooth, NoneForgets, SInv, DealInv
    <3>2. Formed(b)
      BY <3>1, AgentsAssumption DEF Formed
    <3> QED
      BY <1>2, <1>4, <3>1, <3>2, Alone DEF Smooth
  <2>3. task'[a].at \notin {"receipt", "tool", "deploy"}
    BY <1>8, <1>10, FundsShape DEF Idle
  <2>4. fundedByMe \subseteq Agents
    BY <1>t DEF SettlementTypeOK
  <2> QED
    BY <1>u, <1>10, <2>1, <2>2, <2>3, <2>4
<1>12. NumbersInv'
  <2>1. \A m \in mail' : m \in mail \/ m.kind = "coalition_ready"
    BY <1>u DEF Ready
  <2> QED
    BY <1>t, <1>8, <1>9, <1>11, <2>1 DEF NumbersInv
<1>13. DeployerInv'
  BY <1>8, <1>9, <1>10 DEF DeployerInv
<1>14. NegotiatingInv'
  BY <1>t, <1>u, <1>8, <1>10 DEF NegotiatingInv, vars, local
<1>15. ToldInv'
  <2> SUFFICES ASSUME NEW b \in committers
               PROVE  \/ b \in DropOuts \/ Ready(a, b, p) \in mail'
                      \/ task'[b].at = "fund" /\ task'[b].pool = p
    BY <1>u, <1>8, <1>9 DEF ToldInv, vars
  <2>1. CASE b # a
    BY <1>u, <1>4, <2>1
  <2>2. CASE b = a
    <3>1. a \in members[a] \ fundedByMe
      BY <1>u, <1>1, <1>4, <1>11
    <3> QED
      BY <1>10, <2>2, <3>1 DEF Funds
  <2> QED
    BY <2>1, <2>2
<1>16. PaidInv'
  BY <1>11 DEF PaidInv
<1> QED
  BY <1>12, <1>13, <1>14, <1>15, <1>16 DEF DealInProgress

(* The seller can serve whoever asks, and answers for as many.             *)
LEMMA DealSellerAnswers ==
  ASSUME SInv, PartInv, Smooth, DealInProgress, NEW m \in mail, SellerAnswers(m)
  PROVE  DealInProgress'
<1> DEFINE tier == PickTierPrice(m.sku, m.n)
           price == IF tier > m.max THEN Declined ELSE tier
           answer == Response(m.from, m.n, m.qty, price)
<1>t. NumbersInv /\ DeployerInv /\ NegotiatingInv /\ ToldInv /\ PaidInv
  BY DEF DealInProgress
<1>u. /\ m.kind = "negotiate_request" /\ UNCHANGED <<vars, first, task, address, fundedByMe, pools>>
      /\ mail' = (IF Duplicating THEN mail ELSE mail \ {m}) \cup {answer}
  BY DEF SellerAnswers
<1>1. m.n = K
  BY <1>t, <1>u DEF NumbersInv
<1>2. price # Declined
  <2>1. PICK x \in committers : m.sku = Intent[x].sku /\ m.max = Intent[x].max
    BY <1>u DEF PartInv, Asked
  <2>2. tier \in 1..m.max
    BY <1>1, <2>1 DEF Smooth, Offered
  <2>3. m.max \in Nat
    BY <1>u DEF SInv, SettlementTypeOK, Mail
  <2> QED
    BY <2>2, <2>3 DEF Declined
<1>3. /\ answer.kind = "negotiate_response" /\ answer.to = m.from /\ answer.n = K
      /\ answer.price # Declined
  BY <1>1, <1>2 DEF Response
<1> HIDE DEF answer
<1>4. \A r \in mail : r \in mail' \/ r = m
  BY <1>u
<1>5. NumbersInv'
  BY <1>t, <1>u, <1>3 DEF NumbersInv
<1>6. DeployerInv' /\ PaidInv'
  BY <1>t, <1>u DEF DeployerInv, PaidInv, HasPaid, PaidUp
<1>7. NegotiatingInv'
  BY <1>t, <1>u, <1>3, <1>4 DEF NegotiatingInv, vars, local
<1>8. ToldInv'
  <2>1. \A p, b : Ready(pools[p].by, b, p) # m
    BY <1>u DEF Ready
  <2> QED
    BY <1>t, <1>u, <1>4, <2>1 DEF ToldInv, PaidUp, vars
<1> QED
  BY <1>5, <1>6, <1>7, <1>8 DEF DealInProgress

LEMMA DealOnNegotiateResponse ==
  ASSUME SInv, DealInProgress, NEW m \in mail, OnNegotiateResponse(m)
  PROVE  DealInProgress'
<1> DEFINE a == m.to
           deploy == [at |-> "deploy", n |-> m.n, qty |-> m.qty, price |-> m.price]
<1>t. /\ task \in [Agents -> Tasks] /\ a \in Agents
      /\ NumbersInv /\ DeployerInv /\ NegotiatingInv /\ ToldInv /\ PaidInv
  BY DEF SInv, SettlementTypeOK, Mail, OnNegotiateResponse, DealInProgress
<1>u. /\ m.kind = "negotiate_response" /\ task[a] = Idle /\ mail' = mail \ {m}
      /\ task' = IF Deploys(a, m) THEN [task EXCEPT ![a] = deploy] ELSE task
      /\ UNCHANGED <<vars, first, address, fundedByMe, pools>>
  BY DEF OnNegotiateResponse
<1>1. /\ \A b \in Agents \ {a} : task'[b] = task[b]
      /\ task'[a] = IF Deploys(a, m) THEN deploy ELSE Idle
  BY <1>t, <1>u
<1>2. m.n = K /\ m.price # Declined
  BY <1>t, <1>u DEF NumbersInv
<1>3. NumbersInv'
  BY <1>t, <1>u, <1>1, <1>2 DEF NumbersInv, Idle
<1>4. DeployerInv' /\ PaidInv'
  BY <1>t, <1>u, <1>1 DEF DeployerInv, PaidInv, HasPaid, PaidUp, Idle
<1>5. NegotiatingInv'
  <2> SUFFICES ASSUME NEW b \in Agents, coordinator[b] = b
               PROVE  \/ task'[b].at = "deploy" \/ address[b] # NoPool
                      \/ \E r \in mail' : \/ r.kind = "negotiate_request" /\ r.from = b
                                          \/ r.kind = "negotiate_response" /\ r.to = b
    BY <1>u DEF NegotiatingInv, vars, local
  <2>1. CASE b = a
    BY <1>1, <1>2, <2>1 DEF Deploys
  <2>2. CASE b # a
    BY <1>t, <1>u, <1>1, <2>2 DEF NegotiatingInv
  <2> QED
    BY <2>1, <2>2
<1>6. ToldInv'
  <2>1. \A p, b : Ready(pools[p].by, b, p) # m
    BY <1>u DEF Ready
  <2>2. task[a].at # "fund"
    BY <1>u DEF Idle
  <2>3. \A b \in committers : task[b].at = "fund" => task'[b] = task[b]
    BY <1>u, <2>2
  <2>4. committers' = committers /\ pools' = pools
    BY <1>u DEF vars
  <2> SUFFICES ASSUME NEW p \in DOMAIN pools, NEW b \in committers
               PROVE  \/ b \in DropOuts \/ PaidUp(b, p)
                      \/ Ready(pools[p].by, b, p) \in mail'
                      \/ task'[b].at = "fund" /\ task'[b].pool = p
    BY <2>4 DEF ToldInv, PaidUp
  <2>5. \/ b \in DropOuts \/ PaidUp(b, p)
        \/ Ready(pools[p].by, b, p) \in mail
        \/ task[b].at = "fund" /\ task[b].pool = p
    BY <1>t DEF ToldInv
  <2> QED
    BY <1>u, <2>1, <2>3, <2>5
<1> QED
  BY <1>3, <1>4, <1>5, <1>6 DEF DealInProgress

(* Whoever is told believes it, for it has a member, and no coordinator or *)
(* the one that tells it.                                                  *)
LEMMA DealOnCoalitionReady ==
  ASSUME SInv, IInv, MeetingInv, PartInv, Smooth, DealInProgress,
         NEW m \in mail, OnCoalitionReady(m)
  PROVE  DealInProgress'
<1> DEFINE a == m.to
           p == m.pool
<1>t. /\ SettlementTypeOK /\ task \in [Agents -> Tasks] /\ a \in Agents /\ p \in DOMAIN pools
      /\ address \in [Agents -> {NoPool} \cup DOMAIN pools] /\ p # NoPool /\ p \in Nat
      /\ NumbersInv /\ DeployerInv /\ NegotiatingInv /\ ToldInv /\ PaidInv
  BY PoolShape DEF SInv, SettlementTypeOK, Mail, OnCoalitionReady, DealInProgress
<1>u. /\ m.kind = "coalition_ready" /\ task[a] = Idle /\ mail' = mail \ {m}
      /\ UNCHANGED <<vars, first, fundedByMe, pools>>
      /\ IF Believes(m)
         THEN address' = [address EXCEPT ![a] = p] /\ task' = [task EXCEPT ![a] = Funds(a, p)]
         ELSE UNCHANGED <<address, task>>
  BY DEF OnCoalitionReady
<1>1. /\ m.from = pools[p].by /\ m.from # a
      /\ m.from = Smallest(committers) /\ \A b \in committers : b \in members[b]
      /\ \A q \in DOMAIN pools : q = p
  BY <1>t, <1>u, TheDeal DEF SInv, DealInv
<1>2. /\ \A b \in Agents \ {a} : task'[b] = task[b] /\ address'[b] = address[b]
      /\ Believes(m) => task'[a] = Funds(a, p) /\ address'[a] = p
      /\ ~ Believes(m) => task'[a] = task[a] /\ address'[a] = address[a]
  BY <1>t, <1>u
<1>3. task'[a].at \in {"idle", "fund"}
  BY <1>t, <1>u, <1>2, FundsShape DEF Idle
<1>4. NumbersInv'
  BY <1>t, <1>u, <1>2, <1>3 DEF NumbersInv
<1>5. DeployerInv' /\ PaidInv'
  <2>1. \A q \in DOMAIN pools : pools[q].by \in Agents \ {a}
    BY <1>t, <1>1, PoolShape DEF Pool
  <2> QED
    BY <1>t, <1>u, <1>2, <1>3, <2>1 DEF DeployerInv, PaidInv, HasPaid, PaidUp
<1>6. NegotiatingInv'
  <2> SUFFICES ASSUME NEW b \in Agents, coordinator[b] = b
               PROVE  \/ task'[b].at = "deploy" \/ address'[b] # NoPool
                      \/ \E r \in mail' : \/ r.kind = "negotiate_request" /\ r.from = b
                                          \/ r.kind = "negotiate_response" /\ r.to = b
    BY <1>u DEF NegotiatingInv, vars, local
  <2>1. CASE b = a /\ Believes(m)
    BY <1>t, <1>2, <2>1
  <2>2. CASE b # a \/ ~ Believes(m)
    BY <1>t, <1>u, <1>2, <2>2 DEF NegotiatingInv
  <2> QED
    BY <2>1, <2>2
<1>7. ToldInv'
  <2> SUFFICES ASSUME NEW b \in committers
               PROVE  \/ b \in DropOuts \/ PaidUp(b, p)
                      \/ Ready(m.from, b, p) \in mail'
                      \/ task'[b].at = "fund" /\ task'[b].pool = p
    BY <1>u, <1>1 DEF ToldInv, PaidUp, vars
  <2>1. CASE b # a
    <3>1. Ready(m.from, b, p) # m /\ b \in Agents
      BY <2>1 DEF Ready, IInv, TypeOK
    <3>2. \/ b \in DropOuts \/ PaidUp(b, p)
          \/ Ready(m.from, b, p) \in mail
          \/ task[b].at = "fund" /\ task[b].pool = p
      BY <1>t, <1>1 DEF ToldInv
    <3>3. task'[b] = task[b]
      BY <1>2, <2>1, <3>1
    <3> QED
      BY <1>u, <3>1, <3>2, <3>3
  <2>2. CASE b = a
    <3>1. a \in members[a]
      BY <1>1, <2>2
    <3>2. Believes(m)
      BY <1>1, <1>t, <3>1, Alone DEF Believes, Smooth
    <3>3. a \in fundedByMe => PaidUp(a, p)
      BY <1>t DEF PaidInv, HasPaid
    <3> QED
      BY <1>2, <2>2, <3>1, <3>2, <3>3 DEF Funds
  <2> QED
    BY <2>1, <2>2
<1> QED
  BY <1>4, <1>5, <1>6, <1>7 DEF DealInProgress

(* An agent that elects itself asks for all that committed.                *)
LEMMA DealMeet ==
  ASSUME SInv, IInv, IInv', Smooth', DealInProgress, NEW m \in net, Meet(m)
  PROVE  DealInProgress'
<1> DEFINE a == m.to
           elected == ~ Formed(a) /\ coordinator'[a] = a
           request == Request(a, Cardinality(members'[a]), first'[a])
<1>t. TypeOK /\ NumbersInv /\ DeployerInv /\ NegotiatingInv /\ ToldInv /\ PaidInv
  BY DEF IInv, DealInProgress
<1>u. /\ Receive(m) /\ UNCHANGED <<task, address, fundedByMe, pools>>
      /\ mail' = mail \cup (IF elected THEN {request} ELSE {})
  BY DEF Meet
<1>1. /\ a \in Agents /\ committers' = committers
      /\ \A b \in Agents \ {a} : coordinator'[b] = coordinator[b]
      /\ \A b \in Agents : Formed(b) => coordinator'[b] = coordinator[b]
  BY <1>t, <1>u, MeetFrame
<1>2. ASSUME elected PROVE Cardinality(members'[a]) = K
  <2>1. Formed(a)'
    BY <1>1, <1>2, AgentsAssumption DEF Formed
  <2>2. PICK ms \in SUBSET members'[a] : Cardinality(ms) >= K
    BY <1>1, <2>1 DEF IInv, ElectionInv, ElectedFrom
  <2>3. members'[a] \subseteq committers' /\ committers' \in SUBSET Agents
    BY <1>1 DEF IInv, TypeOK, MemberInv
  <2> DEFINE many == members'[a]
             all == committers'
  <2>4. Cardinality(all) <= K /\ ms \subseteq many /\ many \subseteq all /\ all \in SUBSET Agents
    BY <2>3 DEF Smooth
  <2> HIDE DEF many, all
  <2>5. /\ Cardinality(ms) <= Cardinality(many) /\ Cardinality(many) <= Cardinality(all)
        /\ Cardinality(ms) \in Nat /\ Cardinality(many) \in Nat /\ Cardinality(all) \in Nat
    BY <2>4, SubsetCard, FS_Subset
  <2>6. Cardinality(many) = K
    BY <2>2, <2>4, <2>5, ThresholdAssumption
  <2> QED
    BY <2>6 DEF many
<1>3. request.kind = "negotiate_request" /\ request.from = a /\ request.n = Cardinality(members'[a])
  BY DEF Request
<1> HIDE DEF request
<1>4. NumbersInv'
  BY <1>t, <1>u, <1>2, <1>3 DEF NumbersInv
<1>5. DeployerInv' /\ PaidInv'
  BY <1>t, <1>u DEF DeployerInv, PaidInv, HasPaid, PaidUp
<1>6. NegotiatingInv'
  <2> SUFFICES ASSUME NEW b \in Agents, coordinator'[b] = b
               PROVE  \/ task[b].at = "deploy" \/ address[b] # NoPool
                      \/ \E r \in mail' : \/ r.kind = "negotiate_request" /\ r.from = b
                                          \/ r.kind = "negotiate_response" /\ r.to = b
    BY <1>u DEF NegotiatingInv
  <2>1. CASE coordinator[b] = b
    BY <1>t, <1>u, <2>1 DEF NegotiatingInv
  <2>2. CASE coordinator[b] # b
    BY <1>u, <1>1, <1>3, <2>2
  <2> QED
    BY <2>1, <2>2
<1>7. ToldInv'
  BY <1>t, <1>u, <1>1 DEF ToldInv, PaidUp
<1> QED
  BY <1>4, <1>5, <1>6, <1>7 DEF DealInProgress

(* Once there is a pool nobody else may come in.                           *)
LEMMA DealSubmit ==
  ASSUME SInv, IInv, IInv', MeetingInv, PartInv, Smooth, Smooth', DealInProgress,
         NEW a \in Agents \ submitted, Submit(a), UNCHANGED settling
  PROVE  DealInProgress'
<1>t. NumbersInv /\ DeployerInv /\ NegotiatingInv /\ ToldInv /\ PaidInv
  BY DEF DealInProgress
<1>u. /\ committers' = committers \cup {a}
      /\ UNCHANGED <<coordinator, first, mail, task, address, fundedByMe, pools>>
  BY DEF Submit, settling
<1>1. \A p \in DOMAIN pools : FALSE
  <2> SUFFICES ASSUME NEW p \in DOMAIN pools PROVE FALSE
    OBVIOUS
  <2>1. Cardinality(committers) = K
    BY <1>t, TheDeal
  <2>2. a \notin committers
    BY Remembered DEF Smooth
  <2>3. Cardinality(committers') = K + 1
    BY <1>u, <2>1, <2>2, SubsetCard, FS_AddElement DEF IInv, TypeOK
  <2> QED
    BY <2>3, ThresholdAssumption DEF Smooth
<1>2. NumbersInv' /\ DeployerInv' /\ NegotiatingInv' /\ PaidInv'
  BY <1>t, <1>u DEF NumbersInv, DeployerInv, NegotiatingInv, PaidInv, HasPaid, PaidUp
<1>3. ToldInv'
  BY <1>u, <1>1 DEF ToldInv
<1> QED
  BY <1>2, <1>3 DEF DealInProgress

(* Only an agent that takes no part may restart.                           *)
LEMMA DealReboot ==
  ASSUME SInv, IInv, PartInv, Smooth, DealInProgress, NEW a \in Restarting, Reboot(a)
  PROVE  DealInProgress'
<1>t. /\ NumbersInv /\ DeployerInv /\ NegotiatingInv /\ ToldInv /\ PaidInv
      /\ SettlementTypeOK /\ TypeOK /\ a \in Agents /\ a \notin committers /\ committers \subseteq Agents
  BY FaultAssumption DEF DealInProgress, SInv, IInv, TypeOK, Smooth, NoneForgets
<1>p. pools' = pools
  BY <1>t DEF Reboot, PartInv
<1>u. /\ UNCHANGED <<committers, mail, pools>>
      /\ task'[a].at = "idle" /\ fundedByMe' = fundedByMe \ {a} /\ coordinator'[a] # a
      /\ \A b \in Agents \ {a} : /\ coordinator'[b] = coordinator[b]
                                 /\ task'[b] = task[b] /\ address'[b] = address[b]
  BY <1>t, <1>p, AgentsAssumption DEF Reboot, Restart, SettlementTypeOK, TypeOK, Idle
<1>1. NumbersInv'
  BY <1>t, <1>u DEF NumbersInv
<1>2. DeployerInv'
  BY <1>t, <1>u DEF DeployerInv, PartInv
<1>3. NegotiatingInv'
  BY <1>t, <1>u DEF NegotiatingInv
<1>4. ToldInv'
  BY <1>t, <1>u DEF ToldInv, PaidUp
<1>5. PaidInv'
  BY <1>t, <1>u DEF PaidInv, HasPaid, PaidUp
<1> QED
  BY <1>1, <1>2, <1>3, <1>4, <1>5 DEF DealInProgress

LEMMA DealStep ==
  ASSUME SInv, IInv, IInv', MeetingInv, PartInv, Smooth, Smooth', DealInProgress,
         [SettlementNext]_svars
  PROVE  DealInProgress'
<1>t. /\ NumbersInv /\ DeployerInv /\ NegotiatingInv /\ ToldInv /\ PaidInv
      /\ committers \cap Failing = {}
  BY DEF DealInProgress, Smooth
<1>1. ASSUME UNCHANGED <<committers, coordinator, settling>> PROVE DealInProgress'
  BY <1>t, <1>1 DEF DealInProgress, settling, NumbersInv, DeployerInv, NegotiatingInv, ToldInv,
                    PaidInv, HasPaid, PaidUp
<1>2. CASE UNCHANGED svars
  BY <1>1, <1>2 DEF svars, vars, local
<1>3. CASE \E a \in Expiring : Expire(a) /\ UNCHANGED settling
  BY <1>1, <1>3 DEF Expire
<1>4. ASSUME NEW a \in Agents, DeployThrows(a) \/ FundThrows(a) PROVE FALSE
  BY <1>t, <1>4 DEF DeployThrows, FundThrows, PartInv
<1>5. ASSUME NEW a \in Agents, AgentStep(a) PROVE DealInProgress'
  BY <1>4, <1>5, DealTaskStep, DealDeployed DEF AgentStep
<1>6. ASSUME NEW m \in mail, Deliver(m) PROVE DealInProgress'
  <2>1. CASE SellerAnswers(m)
    BY <2>1, DealSellerAnswers
  <2>2. CASE OnNegotiateResponse(m)
    BY <2>2, DealOnNegotiateResponse
  <2>3. CASE OnCoalitionReady(m)
    BY <2>3, DealOnCoalitionReady
  <2> QED
    BY <1>6, <2>1, <2>2, <2>3 DEF Deliver
<1>7. ASSUME NEW m \in net, Meet(m) PROVE DealInProgress'
  BY <1>7, DealMeet
<1>8. ASSUME NEW a \in Matching \ submitted, Submit(a), UNCHANGED settling PROVE DealInProgress'
  BY <1>8, DealSubmit DEF Matching
<1>9. ASSUME NEW p \in DOMAIN pools, PoolStep(p) PROVE DealInProgress'
  BY <1>9, DealPoolStep
<1>10. ASSUME NEW a \in Restarting, Reboot(a) PROVE DealInProgress'
  BY <1>10, DealReboot
<1> QED
  BY <1>2, <1>3, <1>5, <1>6, <1>7, <1>8, <1>9, <1>10 DEF SettlementNext

LEMMA SettlingStep ==
  SInv /\ IInv /\ IInv' /\ MeetingInv /\ SettlingInv /\ [SettlementNext]_svars => SettlingInv'
<1> SUFFICES ASSUME SInv, IInv, IInv', MeetingInv, SettlingInv, [SettlementNext]_svars
             PROVE  SettlingInv'
  OBVIOUS
<1>1. PartInv /\ (Smooth => DealInProgress)
  BY DEF SettlingInv
<1>2. PartInv'
  BY <1>1, PartStep
<1>3. ASSUME Smooth' PROVE DealInProgress'
  <2>1. Smooth
    BY <1>3, StepIsRendezvous, SmoothBefore
  <2> QED
    BY <1>1, <1>3, <2>1, DealStep
<1> QED
  BY <1>2, <1>3 DEF SettlingInv

(* K agents whom the seller can serve end up with one coalition, that is   *)
(* for K of them and has the slice of each that pays, or whose offer ran   *)
(* out: for every number of agents and every card, whoever else may fail.  *)
THEOREM SettledAtRestHolds == SettlementSpec => []SettledAtRest
<1>1. SettlementSpec => [](IInv /\ MeetingInv /\ MeetAtRest)
  BY SettlementKeepsRendezvous, InductiveInvariant, MeetingHolds, MeetAtRestHolds, PTL
<1>2. SettlementSpec => []SettlingInv
  BY <1>1, SettlingInit, SettlementInductive, SettlingStep, PTL DEF SettlementSpec
<1>3. SInv /\ IInv /\ MeetingInv /\ MeetAtRest /\ SettlingInv => SettledAtRest
  <2> SUFFICES ASSUME SInv, IInv, MeetingInv, MeetAtRest, SettlingInv, AtRest,
                      Cardinality(submitted) = K, CanMeet(submitted),
                      committers \cap Restarting = {},
                      submitted \cap (Expiring \cup Failing) = {},
                      \A a \in submitted : Offered(a)
               PROVE  \E p \in DOMAIN pools :
                        /\ DOMAIN pools = {p} /\ pools[p].required = K
                        /\ \/ pools[p].lapsed
                           \/ submitted \ (DropOuts \cup Broke) \subseteq pools[p].payers
    BY DEF SettledAtRest
  <2> DEFINE c == Smallest(committers)
  <2>1. submitted = committers /\ NoneForgets
    BY Remembered DEF NoneForgets
  <2>2. Smooth
    <3>1. Cardinality(committers) <= K
      BY <2>1, ThresholdAssumption
    <3> QED
      BY <2>1, <3>1 DEF Smooth
  <2>t. /\ PartInv /\ DealInProgress /\ committers \in SUBSET Agents
        /\ NumbersInv /\ DeployerInv /\ NegotiatingInv /\ ToldInv
        /\ address \in [Agents -> {NoPool} \cup DOMAIN pools]
    BY <2>2 DEF SettlingInv, DealInProgress, IInv, TypeOK, SInv, SettlementTypeOK
  <2>3. c \in committers
    BY <2>1, <2>t, ThresholdAssumption, CompleteMembers
  <2>4. coordinator[c] = c
    <3>1. Meets(committers)
      BY <2>1 DEF MeetAtRest, AtRest
    <3> QED
      BY <2>1, <2>3, <3>1 DEF Meets
  <2> HIDE DEF c
  <2>5. PICK p \in DOMAIN pools : p = address[c]
    <3>1. task[c].at # "deploy"
      BY <2>3, <2>t DEF AtRest, Idle
    <3>2. address[c] # NoPool
      BY <2>3, <2>4, <2>t, <3>1 DEF NegotiatingInv, AtRest
    <3> QED
      BY <2>3, <2>t, <3>2
  <2>6. DOMAIN pools = {p} /\ pools[p].required = K
    BY <2>2, <2>t, TheDeal DEF NumbersInv
  <2>7. ASSUME NEW a \in submitted PROVE a \in DropOuts \/ PaidUp(a, p)
    <3>1. task[a].at # "fund" /\ Ready(pools[p].by, a, p) \notin mail
      BY <2>1, <2>t DEF AtRest, Idle, Ready
    <3> QED
      BY <2>1, <2>t, <3>1 DEF ToldInv
  <2> QED
    BY <2>6, <2>7 DEF PaidUp
<1> QED
  BY <1>1, <1>2, <1>3, SettlementInductive, PTL
-----------------------------------------------------------------------------
(***************************************************************************)
(* A pool is to the agents what AtomicSettlement promises of the escrow.   *)
(***************************************************************************)
LEMMA PoolsMove ==
  ASSUME SettlementTypeOK, PartInv, [SettlementNext]_svars
  PROVE  \/ pools' = pools
         \/ \E p \in DOMAIN pools : Moves(p)
         \/ \E a \in Agents : task[a].at = "deploy" /\ pools' = Append(pools, NewPool(a, task[a]))
<1>1. ASSUME NEW a \in Agents, AgentStep(a)
      PROVE  \/ pools' = pools
             \/ \E p \in DOMAIN pools : Moves(p)
             \/ task[a].at = "deploy" /\ pools' = Append(pools, NewPool(a, task[a]))
  <2>1. CASE Deployed(a) \/ DeployThrows(a) \/ FundReceipt(a) \/ FundThrows(a)
    BY <2>1 DEF Deployed, DeployThrows, FundReceipt, FundThrows
  <2>2. CASE SendFund(a) \/ CallTool(a)
    <3>1. task[a].pool \in DOMAIN pools
      BY <2>2, TaskShape DEF SendFund, CallTool
    <3> QED
      BY <2>2, <3>1, StepMoves
  <2> QED
    BY <1>1, <2>1, <2>2 DEF AgentStep
<1>2. ASSUME NEW p \in DOMAIN pools, PoolStep(p) PROVE Moves(p)
  BY <1>2, StepMoves
<1>3. ASSUME NEW m, Deliver(m) \/ Meet(m) PROVE pools' = pools
  BY <1>3 DEF Meet, Deliver, SellerAnswers, OnNegotiateResponse, OnCoalitionReady
<1>4. ASSUME NEW a \in Restarting, Reboot(a)
      PROVE  \/ pools' = pools
             \/ a \in Agents /\ task[a].at = "deploy" /\ pools' = Append(pools, NewPool(a, task[a]))
  BY <1>4, FaultAssumption DEF Reboot
<1>5. UNCHANGED settling \/ UNCHANGED svars => pools' = pools
  BY DEF settling, svars
<1> QED
  BY <1>1, <1>2, <1>3, <1>4, <1>5 DEF SettlementNext

(* The terms of a pool make a deal: somebody pays something.               *)
LEMMA DealTerms ==
  ASSUME NEW n, NEW qty, NEW price, NEW C \in SUBSET Agents, Offers(C, n, qty, price)
  PROVE  n >= K /\ price \in Nat \ {0} /\ qty \in Nat \ {0} /\ price * qty \in Nat \ {0}
<1>1. PICK a \in C : /\ qty = Intent[a].qty
                     /\ \E i \in Cleared(Intent[a].sku, n) : price = TierCard[Intent[a].sku][i].unitPrice
  BY DEF Offers
<1>2. PICK i \in Cleared(Intent[a].sku, n) : price = TierCard[Intent[a].sku][i].unitPrice
  BY <1>1
<1>3. Intent[a].sku \in DOMAIN TierCard /\ i \in DOMAIN TierCard[Intent[a].sku]
  BY <1>2 DEF Cleared
<1>4. TierCard[Intent[a].sku][i] \in Tier
  BY <1>3, CardAssumption
<1>5. price \in Nat \ {0}
  BY <1>2, <1>4 DEF Tier
<1>6. qty \in Nat \ {0}
  BY <1>1, IntentAssumption DEF IntentType
<1>7. \A x, y \in Nat \ {0} : x * y \in Nat \ {0}
  OBVIOUS
<1> QED
  BY <1>5, <1>6, <1>7 DEF Offers

(* The instance counts as this module does.                                *)
LEMMA EscrowCounts ==
  ASSUME NEW p, NEW S PROVE EscrowOf(p)!Cardinality(S) = Cardinality(S)
  BY DEF EscrowOf!Cardinality, Cardinality

LEMMA EscrowMoves ==
  ASSUME SettlementTypeOK, TypeOK, PartInv, PoolTerms, NEW p \in DOMAIN pools, Moves(p)
  PROVE  [EscrowOf(p)!Next]_(EscrowOf(p)!vars)
<1> DEFINE pool == pools[p]
           Accts == Agents \cup {Merchant}
           part(x) == IF x \in pool.payers THEN - Slice(p) ELSE 0
<1>t. /\ pools \in [DOMAIN pools -> Pool] /\ pool \in Pool /\ committers \subseteq Agents
      /\ Merchant \notin Agents
  BY PoolShape, AgentsAssumption DEF SettlementTypeOK, TypeOK, Merchant
<1>u. pool.required >= K /\ Slice(p) \in Nat
  BY DealTerms, <1>t DEF PoolTerms, TypeOK, Slice
<1>1. CASE Lapses(p)
  <2>1. /\ pools'[p].price = pool.price /\ pools'[p].qty = pool.qty
        /\ pools'[p].required = pool.required
        /\ pools'[p].outcome = pool.outcome /\ pools'[p].payers = pool.payers
    BY <1>t, <1>1 DEF Lapses, Pool
  <2>2. UNCHANGED <<Slice(p), Gain(p)>>
    BY <2>1 DEF Slice, Gain
  <2> QED
    BY <2>1, <2>2 DEF EscrowOf!vars
<1>2. CASE Settling(p)
  <2>1. /\ pools'[p].price = pool.price /\ pools'[p].qty = pool.qty
        /\ pools'[p].required = pool.required
        /\ pools'[p].outcome = "settled" /\ pools'[p].payers = pool.payers
        /\ pool.outcome = "open" /\ Cardinality(pool.payers) = pool.required
    BY <1>t, <1>2 DEF Settling, Settled, Full, Pool
  <2>2. pool.payers # {}
    BY <1>u, <2>1, FS_EmptySet, ThresholdAssumption
  <2>3. UNCHANGED Slice(p)
    BY <2>1 DEF Slice
  <2>4. Gain(p)' = [Gain(p) EXCEPT ![Merchant] = @ + Slice(p) * pool.required]
    <3> DEFINE total == Slice(p) * pool.required
    <3>1. total \in Nat
      BY <1>t, <1>u DEF Pool
    <3>2. Gain(p) = [x \in Accts |-> IF x = Merchant THEN 0 ELSE part(x)]
      BY <2>1 DEF Gain
    <3>3. Gain(p)' = [x \in Accts |-> IF x = Merchant THEN total ELSE part(x)]
      BY <2>1, <2>3 DEF Gain
    <3> HIDE DEF total, part
    <3>4. Gain(p)' = [Gain(p) EXCEPT ![Merchant] = @ + total]
      BY <3>1, <3>2, <3>3
    <3> QED
      BY <3>4 DEF total
  <2>5. EscrowOf(p)!Settle
    BY <2>1, <2>2, <2>3, <2>4, EscrowCounts DEF EscrowOf!Settle
  <2> QED
    BY <2>5 DEF EscrowOf!Next
<1>3. CASE Cancelling(p)
  <2>1. /\ pools'[p].price = pool.price /\ pools'[p].qty = pool.qty
        /\ pools'[p].required = pool.required
        /\ pools'[p].outcome = "cancelled" /\ pools'[p].payers = {}
        /\ pool.outcome = "open"
    BY <1>t, <1>3 DEF Cancelling, Pool
  <2>2. UNCHANGED Slice(p) /\ Gain(p)' = [x \in Accts |-> 0]
    BY <2>1 DEF Slice, Gain
  <2>3. EscrowOf(p)!Cancel
    BY <2>1, <2>2 DEF EscrowOf!Cancel
  <2> QED
    BY <2>3 DEF EscrowOf!Next
<1>4. ASSUME NEW a \in committers, Paying(p, a) PROVE EscrowOf(p)!Next
  <2>1. /\ pool.outcome = "open" /\ a \notin pool.payers
        /\ Cardinality(pool.payers) # pool.required
        /\ pools' = [pools EXCEPT ![p].payers = @ \cup {a}]
    BY <1>4 DEF Paying, Accepts, Full
  <2>2. /\ pools'[p].price = pool.price /\ pools'[p].qty = pool.qty
        /\ pools'[p].required = pool.required
        /\ pools'[p].outcome = "open" /\ pools'[p].payers = pool.payers \cup {a}
    BY <1>t, <2>1 DEF Pool
  <2>3. UNCHANGED Slice(p) /\ a \in Agents /\ a # Merchant
    BY <1>t, <2>2 DEF Slice
  <2>4. Gain(p)' = [Gain(p) EXCEPT ![a] = @ - Slice(p)]
    <3>1. Gain(p) = [x \in Accts |-> IF x = Merchant THEN 0 ELSE part(x)]
      BY <2>1 DEF Gain
    <3>2. Gain(p)' = [x \in Accts |-> IF x = Merchant THEN 0
                                      ELSE IF x = a THEN - Slice(p) ELSE part(x)]
      BY <2>2, <2>3 DEF Gain
    <3>3. part(a) = 0
      BY <2>1
    <3> HIDE DEF part
    <3> QED
      BY <1>u, <2>3, <3>1, <3>2, <3>3
  <2>5. EscrowOf(p)!Pay(a)
    BY <2>1, <2>2, <2>3, <2>4, EscrowCounts DEF EscrowOf!Pay
  <2> QED
    BY <2>3, <2>5 DEF EscrowOf!Next
<1> QED
  BY <1>1, <1>2, <1>3, <1>4 DEF Moves

LEMMA EscrowKept ==
  ASSUME NEW p, pools'[p] = pools[p] PROVE UNCHANGED EscrowOf(p)!vars
<1>1. UNCHANGED <<Slice(p), Gain(p)>>
  BY DEF Slice, Gain
<1> QED
  BY <1>1 DEF EscrowOf!vars

LEMMA EscrowStarts ==
  ASSUME SettlementTypeOK, TypeOK', PoolTerms', NEW a \in Agents, task[a].at = "deploy",
         pools' = Append(pools, NewPool(a, task[a])), NEW p, p = Len(pools) + 1
  PROVE  DOMAIN pools' \ DOMAIN pools = {p} /\ EscrowOf(p)!Init'
<1> DEFINE pool == NewPool(a, task[a])
<1>1. pool \in Pool
  BY DeployShape
<1>2. /\ DOMAIN pools' = DOMAIN pools \cup {p} /\ p \notin DOMAIN pools /\ pools'[p] = pool
  BY <1>1, AppendShape
<1>3. pools'[p].outcome = "open" /\ pools'[p].payers = {} /\ pools'[p].required \in Nat
  BY <1>1, <1>2 DEF NewPool, Pool
<1>4. Slice(p)' \in Nat \ {0}
  <2>1. Offers(committers', pools'[p].required, pools'[p].qty, pools'[p].price)
    BY <1>2 DEF PoolTerms
  <2> QED
    BY <2>1, DealTerms DEF TypeOK, Slice
<1>5. Gain(p)' = [x \in Agents \cup {Merchant} |-> 0]
  BY <1>3 DEF Gain
<1> QED
  BY <1>2, <1>3, <1>4, <1>5 DEF EscrowOf!Init

(* Whatever the agents, the keeper and the seller do, every pool goes the  *)
(* way AtomicSettlement allows, for every card.                            *)
THEOREM PoolsAreAtomicHolds == SettlementSpec => PoolsAreAtomic
<1> DEFINE Atomic == /\ \A p \in DOMAIN pools : [EscrowOf(p)!Next]_(EscrowOf(p)!vars)
                     /\ \A p \in DOMAIN pools' \ DOMAIN pools : EscrowOf(p)!Init'
<1>1. SettlementSpec => [](IInv /\ MeetingInv)
  BY SettlementKeepsRendezvous, InductiveInvariant, MeetingHolds, PTL
<1>2. SettlementSpec => []SettlingInv
  BY <1>1, SettlingInit, SettlementInductive, SettlingStep, PTL DEF SettlementSpec
<1>3. SettlementSpec => []TermsInv
  BY <1>1, TermsInit, SettlementInductive, TermsStep, PTL DEF SettlementSpec
<1>4. /\ SInv /\ IInv /\ IInv' /\ SettlingInv /\ TermsInv /\ TermsInv' /\ [SettlementNext]_svars
      => [Atomic]_svars
  <2> SUFFICES ASSUME SInv, IInv, IInv', SettlingInv, TermsInv, TermsInv',
                      [SettlementNext]_svars
               PROVE  Atomic
    OBVIOUS
  <2>t. /\ SettlementTypeOK /\ TypeOK /\ TypeOK' /\ PartInv /\ PoolTerms /\ PoolTerms'
    BY DEF SInv, IInv, SettlingInv, TermsInv
  <2>1. CASE pools' = pools
    <3>1. \A p \in DOMAIN pools : UNCHANGED EscrowOf(p)!vars
      BY <2>1, EscrowKept
    <3> QED
      BY <2>1, <3>1
  <2>2. ASSUME NEW q \in DOMAIN pools, Moves(q) PROVE Atomic
    <3>1. DOMAIN pools' = DOMAIN pools /\ \A p \in DOMAIN pools \ {q} : pools'[p] = pools[p]
      BY <2>t, <2>2, MoveShape
    <3>2. \A p \in DOMAIN pools \ {q} : UNCHANGED EscrowOf(p)!vars
      BY <3>1, EscrowKept
    <3>3. [EscrowOf(q)!Next]_(EscrowOf(q)!vars)
      BY <2>t, <2>2, EscrowMoves
    <3> QED
      BY <3>1, <3>2, <3>3
  <2>3. ASSUME NEW a \in Agents, task[a].at = "deploy", pools' = Append(pools, NewPool(a, task[a]))
        PROVE  Atomic
    <3>1. \A p \in DOMAIN pools : pools'[p] = pools[p]
      BY <2>t, <2>3, DeployShape, AppendShape
    <3>2. \A p \in DOMAIN pools : UNCHANGED EscrowOf(p)!vars
      BY <3>1, EscrowKept
    <3>3. \A p \in DOMAIN pools' \ DOMAIN pools : EscrowOf(p)!Init'
      BY <2>t, <2>3, EscrowStarts
    <3> QED
      BY <3>2, <3>3
  <2> QED
    BY <2>t, <2>1, <2>2, <2>3, PoolsMove
<1> QED
  BY <1>1, <1>2, <1>3, <1>4, SettlementInductive, PTL DEF SettlementSpec, PoolsAreAtomic
=============================================================================
