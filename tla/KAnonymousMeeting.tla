------------------------- MODULE KAnonymousMeeting -------------------------
(***************************************************************************)
(* What the agents' rendezvous promises, with no word on how: no clusters, *)
(* observations, submissions or messages.  Nobody shows its intent before  *)
(* a quorum has committed, nor to anybody who has not; whoever follows a   *)
(* leader chose it once, as the first of a quorum that had all shown it    *)
(* their intents by then, and bids for just these if it chose itself.  It  *)
(* may forget, and then choose again.  Rendezvous is shown to implement    *)
(* this module.                                                            *)
(***************************************************************************)
EXTENDS Integers, FiniteSets

CONSTANTS Parties, Quorum, Nobody

VARIABLES committed,    \* who has ever committed
          shown,        \* <<a, b>> when a has shown its intent to b
          leader,       \* whom each party follows
          bids          \* <<a, S>> when a has bid for the parties in S

vars == <<committed, shown, leader, bids>>

Init == /\ committed = {} /\ shown = {} /\ bids = {}
        /\ leader = [a \in Parties |-> Nobody]

Commit(a) == committed' = committed \cup {a} /\ UNCHANGED <<shown, leader, bids>>

Shows(a) == /\ a \in committed /\ Cardinality(committed) >= Quorum
            /\ \E S \in SUBSET committed : shown' = shown \cup ({a} \X S)

(* The parties that a knows the intents of: its own, if it has one.        *)
KnownTo(a) == {b \in committed : b = a \/ <<b, a>> \in shown}

IsFirst(b, S) == b \in S /\ \A c \in S : b <= c

Follows(a) == \E S \in SUBSET KnownTo(a) :
  /\ leader[a] = Nobody /\ Cardinality(S) >= Quorum
  /\ \E b \in S : IsFirst(b, S) /\ leader' = [leader EXCEPT ![a] = b]
  /\ bids' = bids \cup (IF IsFirst(a, S) THEN {<<a, S>>} ELSE {})

(* It may do both at once.                                                 *)
Acts(a) == /\ Shows(a) \/ UNCHANGED shown
           /\ Follows(a) \/ UNCHANGED <<leader, bids>>
           /\ UNCHANGED committed

Forgets(a) == leader' = [leader EXCEPT ![a] = Nobody] /\ UNCHANGED <<committed, shown, bids>>

Next == \E a \in Parties : Commit(a) \/ Acts(a) \/ Forgets(a)

Spec == Init /\ [][Next]_vars
=============================================================================
