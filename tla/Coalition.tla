------------------------------ MODULE Coalition ------------------------------
(***************************************************************************)
(* The escrow contract contracts/contracts/Coalition.sol: buyers fund      *)
(* equal slices, the keeper commits the full pool to the seller or the     *)
(* pool is refunded.  One action per external function; every call of a    *)
(* nonReentrant function is one atomic step, and a call whose guard fails  *)
(* reverts, which is no step at all.  The pay token is an ERC-20 contract  *)
(* outside the escrow: approvals, transfers that have nothing to do with   *)
(* the deal, and its refusal to move money for an account are external.    *)
(***************************************************************************)
EXTENDS Integers, Sequences, FiniteSets, Functions

CONSTANTS
  Accounts,     \* externally owned accounts that call the escrow
  Seller,       \* immutable seller  (Coalition.sol:13)
  Keeper,       \* immutable keeper  (Coalition.sol:14)
  Escrow,       \* the address of the contract itself
  Deals,        \* the constructor arguments a deployment may choose
  Endowment,    \* pay tokens every account starts with
  TransferSizes, \* sizes of the unrelated token transfers
  Refusable,    \* accounts the token may refuse to serve
  MaxTime,      \* bound: the last block.timestamp
  MaxBuyers     \* bound: the length of buyers a behaviour may reach

Deal == [tierUnitPrice : Nat, unitQty : Nat, requiredBuyers : Nat, validUntil : Nat]

ASSUME PartiesAssumption == /\ IsFiniteSet(Accounts)
                            /\ Seller \in Accounts /\ Keeper \in Accounts
                            /\ Escrow \notin Accounts
ASSUME DealsAssumption == Deals \subseteq Deal
ASSUME MoneyAssumption == /\ Endowment \in [Accounts -> Nat]
                          /\ TransferSizes \subseteq Nat
                          /\ Refusable \subseteq Accounts
ASSUME BoundAssumption == MaxTime \in Nat /\ MaxBuyers \in Nat

Holders == Accounts \cup {Escrow}

VARIABLES
  deal,         \* the immutables of the deployed coalition
  state,        \* enum State
  buyers,       \* address[] buyers
  funded,       \* mapping funded
  totalFunded,  \* uint256 totalFunded
  balance,      \* pay token: balanceOf
  allowance,    \* pay token: allowance(account, escrow)
  refused,      \* accounts the token currently refuses to serve
  now,          \* block.timestamp
  net           \* history: what each account gained through the escrow

token == <<balance, allowance, refused>>
escrow == <<state, buyers, funded, totalFunded>>
vars == <<deal, escrow, token, now, net>>

Open == state \in {"Forming", "Funded"}
Amount == deal.tierUnitPrice * deal.unitQty
Contributors == {a \in Accounts : funded[a] > 0}
Expired == now > deal.validUntil

(* One ERC-20 movement of n tokens goes through.                           *)
Moves(from, to, n) == /\ from \notin refused /\ to \notin refused
                      /\ balance[from] >= n

(* The balances after it (from and to may be the same account).            *)
Moved(from, to, n) ==
  LET paid == [balance EXCEPT ![from] = @ - n]
  IN  [paid EXCEPT ![to] = @ + n]
-----------------------------------------------------------------------------
Init == /\ deal \in Deals
        /\ state = "Forming"
        /\ buyers = <<>>
        /\ funded = [a \in Accounts |-> 0]
        /\ totalFunded = 0
        /\ balance = [h \in Holders |-> IF h = Escrow THEN 0 ELSE Endowment[h]]
        /\ allowance = [a \in Accounts |-> 0]
        /\ refused = {}
        /\ now = 0
        /\ net = [a \in Accounts |-> 0]

(* Variant: fund() without the AlreadyFunded check of line 63.             *)
FundOKTwice(s) == /\ state = "Forming"
                  /\ now <= deal.validUntil
                  /\ allowance[s] >= Amount
                  /\ Moves(s, Escrow, Amount)

(* Variant: fund() that ignores what transferFrom() answers (line 66).     *)
FundOKUnchecked(s) == state = "Forming" /\ now <= deal.validUntil /\ funded[s] = 0

FundOK(s) == /\ state = "Forming"
             /\ now <= deal.validUntil
             /\ funded[s] = 0
             /\ allowance[s] >= Amount
             /\ Moves(s, Escrow, Amount)

(* Variant: the test of line 74 made before the push.                      *)
FillsLate(roster) == Len(roster) = deal.requiredBuyers + 1

(* buyers.length == requiredBuyers, after the push                         *)
Fills(roster) == Len(roster) = deal.requiredBuyers

(* fund(): the caller's slice moves in; the last required one closes the   *)
(* set.  Len(buyers) < MaxBuyers is a bound of the model.                  *)
Fund(s) == /\ FundOK(s)
           /\ Len(buyers) < MaxBuyers
           /\ balance' = Moved(s, Escrow, Amount)
           /\ allowance' = [allowance EXCEPT ![s] = @ - Amount]
           /\ funded' = [funded EXCEPT ![s] = Amount]
           /\ buyers' = Append(buyers, s)
           /\ totalFunded' = totalFunded + Amount
           /\ state' = IF Fills(buyers') THEN "Funded" ELSE state
           /\ net' = [net EXCEPT ![s] = @ - Amount]
           /\ UNCHANGED <<deal, refused, now>>

CommitOK(s) == /\ s = Keeper
               /\ state = "Funded"
               /\ Moves(Escrow, Seller, totalFunded)

(* commit(): the pool moves to the seller.                                 *)
Commit(s) == /\ CommitOK(s)
             /\ state' = "Committed"
             /\ balance' = Moved(Escrow, Seller, totalFunded)
             /\ net' = [net EXCEPT ![Seller] = @ + totalFunded]
             /\ UNCHANGED <<deal, buyers, funded, totalFunded, allowance, refused, now>>

(* The accounts the loop of refundAll() pays: funded[b] is cleared on the  *)
(* first occurrence of b in buyers, so each is paid once; a slice funded   *)
(* is Amount or nothing, so the loop sends Amount for each of them.        *)
Repaid == {b \in Range(buyers) : funded[b] > 0}

(* Variant: refundAll() without the state check of line 93.                *)
RefundOKAnyState(s) == /\ state # "Refunded"
                       /\ s = Keeper \/ Expired
                       /\ \A b \in Repaid : Moves(Escrow, b, Amount * Cardinality(Repaid))

(* Variant: refundAll() for the keeper only.                               *)
RefundOKKeeperOnly(s) == /\ Open /\ s = Keeper
                         /\ \A b \in Repaid : Moves(Escrow, b, Amount * Cardinality(Repaid))

RefundOK(s) == /\ Open
               /\ s = Keeper \/ Expired
               /\ \A b \in Repaid : Moves(Escrow, b, Amount * Cardinality(Repaid))

(* refundAll(): everyone in buyers gets funded[b] back, or the call        *)
(* reverts.  buyers and totalFunded are left as they are.                  *)
RefundAll(s) == /\ RefundOK(s)
                /\ state' = "Refunded"
                /\ funded' = [a \in Accounts |-> IF a \in Repaid THEN 0 ELSE funded[a]]
                /\ balance' = [h \in Holders |->
                     IF h = Escrow THEN balance[h] - Amount * Cardinality(Repaid)
                     ELSE IF h \in Repaid THEN balance[h] + funded[h] ELSE balance[h]]
                /\ net' = [a \in Accounts |-> IF a \in Repaid THEN net[a] + funded[a]
                                                             ELSE net[a]]
                /\ UNCHANGED <<deal, buyers, totalFunded, allowance, refused, now>>
-----------------------------------------------------------------------------
(* The pay token and the chain around the escrow.                          *)

(* A buyer approves one slice (agent/src/chain.ts, fundCoalitionForBuyer), *)
(* which the token allows whatever has become of the pool.                 *)
Approve(s) == /\ allowance' = [allowance EXCEPT ![s] = Amount]
              /\ UNCHANGED <<deal, escrow, balance, refused, now, net>>

(* Tokens move for reasons of their own, to the escrow too.                *)
Transfer(s, to, n) == /\ Moves(s, to, n)
                      /\ balance' = Moved(s, to, n)
                      /\ UNCHANGED <<deal, escrow, allowance, refused, now, net>>

(* The token starts or stops refusing an account (TransferFailed).         *)
Refuse(a) == /\ refused' = refused \cup {a}
             /\ UNCHANGED <<deal, escrow, balance, allowance, now, net>>

Readmit(a) == /\ refused' = refused \ {a}
              /\ UNCHANGED <<deal, escrow, balance, allowance, now, net>>

Tick == /\ now < MaxTime
        /\ now' = now + 1
        /\ UNCHANGED <<deal, escrow, token, net>>

Calls(s) == Fund(s) \/ Commit(s) \/ RefundAll(s)

TokenStep(s) == \/ Approve(s)
                \/ \E to \in Holders, n \in TransferSizes : Transfer(s, to, n)

Refusals == \E a \in Refusable : Refuse(a) \/ Readmit(a)

Environment == (\E s \in Accounts : TokenStep(s)) \/ Refusals \/ Tick

Next == (\E s \in Accounts : Calls(s)) \/ Environment

Spec == Init /\ [][Next]_vars
-----------------------------------------------------------------------------
(* Types, and the sign of every amount: no balance, allowance or total is  *)
(* ever driven below zero.                                                 *)
TypeOK == /\ deal \in Deals
          /\ state \in {"Forming", "Funded", "Committed", "Refunded"}
          /\ buyers \in Seq(Accounts)
          /\ funded \in [Accounts -> Nat]
          /\ totalFunded \in Nat
          /\ balance \in [Holders -> Nat]
          /\ allowance \in [Accounts -> Nat]
          /\ refused \subseteq Accounts
          /\ now \in Nat
          /\ net \in [Accounts -> Int]

(* The set closes exactly when it is full: a pool that is Funded, and a    *)
(* pool that was Committed, has requiredBuyers different buyers, each with *)
(* a whole slice in it, and a pool still Forming is not full               *)
(* (Coalition.sol:63, 74-76).                                              *)
FullQuorum ==
  /\ state \in {"Funded", "Committed"} =>
       /\ Len(buyers) = deal.requiredBuyers
       /\ Cardinality(Contributors) = deal.requiredBuyers
       /\ \A a \in Contributors : funded[a] = Amount
  /\ state = "Forming" => buyers = <<>> \/ Len(buyers) # deal.requiredBuyers

(* "No partial state" (Coalition.sol:9): while the pool is open an account *)
(* is down by exactly what the contract says it funded; after refundAll    *)
(* nobody has gained or lost anything; after commit every buyer has paid   *)
(* one slice and the seller has received requiredBuyers of them.           *)
AtomicOutcome ==
  /\ Open => \A a \in Accounts : net[a] = - funded[a]
  /\ state = "Refunded" => \A a \in Accounts : net[a] = 0
  /\ state = "Committed" => \A a \in Accounts :
       net[a] = (IF a = Seller THEN Amount * deal.requiredBuyers ELSE 0)
                - (IF a \in Range(buyers) THEN Amount ELSE 0)

(* Money is never locked in: whatever unrelated transfers happen around    *)
(* the escrow, a Funded pool can be committed by the keeper, and once      *)
(* validUntil has passed any account can refund an open pool, as long as   *)
(* the token serves the accounts to be paid (Coalition.sol:82-94).         *)
NeverStuck ==
  /\ state = "Funded" /\ Seller \notin refused => CommitOK(Keeper)
  /\ Open /\ Expired /\ refused \cap Repaid = {} => \A a \in Accounts : RefundOK(a)

Outcome == CASE Open -> "open"
             [] state = "Committed" -> "settled"
             [] state = "Refunded" -> "cancelled"

(* The escrow implements the all-or-nothing settlement of                  *)
(* AtomicSettlement: payers are the accounts with a slice in the pool.     *)
Settlement == INSTANCE AtomicSettlement WITH
  Parties <- Accounts, Payee <- Seller,
  slice <- Amount, quorum <- deal.requiredBuyers,
  outcome <- Outcome,
  payers <- Contributors, net <- net

ImplementsSettlement == Settlement!Spec
=============================================================================
