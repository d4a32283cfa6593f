-------------------------- MODULE AtomicSettlement --------------------------
(***************************************************************************)
(* What the escrow of contracts/contracts/Coalition.sol promises, with no  *)
(* word on how: a pool of equal payments ends in one of two ways, all of   *)
(* them go to the payee or every one of them goes back.  Nobody is ever    *)
(* out of pocket for a deal that did not happen, nobody pays twice, and    *)
(* the payee is paid the full price or nothing ("No partial state",        *)
(* Coalition.sol:9).  Coalition.tla is shown to implement this module.     *)
(***************************************************************************)
EXTENDS Integers, FiniteSets

CONSTANTS Parties,      \* everyone who can hold money
          Payee         \* who is paid when the deal settles

VARIABLES slice,        \* what each payer pays
          quorum,       \* how many payers the deal needs
          outcome,      \* "open", "settled" or "cancelled"
          payers,       \* who has paid and has not been paid back
          net           \* what each party gained (> 0) or lost (< 0)

vars == <<slice, quorum, outcome, payers, net>>

Init == /\ slice \in Nat \ {0}
        /\ quorum \in Nat
        /\ outcome = "open"
        /\ payers = {}
        /\ net = [p \in Parties |-> 0]

(* A party pays its one slice, while the pool still lacks payers.          *)
Pay(p) == /\ outcome = "open"
          /\ p \notin payers
          /\ Cardinality(payers) # quorum \/ quorum = 0
          /\ payers' = payers \cup {p}
          /\ net' = [net EXCEPT ![p] = @ - slice]
          /\ UNCHANGED <<slice, quorum, outcome>>

(* The full pool goes to the payee.                                        *)
Settle == /\ outcome = "open"
          /\ payers # {} /\ Cardinality(payers) = quorum
          /\ outcome' = "settled"
          /\ net' = [net EXCEPT ![Payee] = @ + slice * quorum]
          /\ UNCHANGED <<slice, quorum, payers>>

(* Everyone is made whole.                                                 *)
Cancel == /\ outcome = "open"
          /\ outcome' = "cancelled"
          /\ payers' = {}
          /\ net' = [p \in Parties |-> 0]
          /\ UNCHANGED <<slice, quorum>>

Next == (\E p \in Parties : Pay(p)) \/ Settle \/ Cancel

Spec == Init /\ [][Next]_vars
=============================================================================
