----------------------------- MODULE KeeperLoop -----------------------------
(***************************************************************************)
(* The keeper daemon contracts/scripts/keeper.ts watching one coalition.   *)
(* Its loop reads the state, then the clock, then decides, then sends a    *)
(* transaction and waits for it: four awaits between which buyers fund,    *)
(* time passes, the seller's commit_coalition tool (agent/src/             *)
(* keeper-mcp.ts, which signs with a keeper key of its own) commits, or an *)
(* account refunds after expiry.  An exception anywhere ends the process   *)
(* (main().catch exits), and nothing restarts it.                          *)
(***************************************************************************)
EXTENDS Coalition

CONSTANTS
  StopOnTerminal,   \* STOP_ON_TERMINAL: leave the loop when the pool is done
  RpcMayFail,       \* whether an RPC call may throw
  ToolCommits,      \* whether the seller's tool also calls commit()
  Rescuers,         \* accounts that call refundAll() on their own after expiry
  Skews             \* Date.now()/1000 minus block.timestamp

ASSUME KeeperAssumption == /\ StopOnTerminal \in BOOLEAN /\ RpcMayFail \in BOOLEAN
                           /\ ToolCommits \in BOOLEAN
                           /\ Rescuers \subseteq Accounts
                           /\ Skews \subseteq Int

VARIABLES
  pc,           \* where the keeper is: the await it is at, or how it ended
  seenState,    \* local: state
  seenNow       \* local: now

keeper == <<pc, seenState, seenNow>>
kvars == <<vars, keeper>>

Running == pc \notin {"stopped", "reverted", "crashed"}
Done == state \in {"Committed", "Refunded"}

KeeperInit == /\ Init
              /\ pc = "readState"
              /\ seenState = "Forming"
              /\ seenNow = 0

ReadState == /\ pc = "readState"
             /\ seenState' = state
             /\ pc' = "readClock"
             /\ UNCHANGED <<vars, seenNow>>

(* requiredBuyers and buyerCount are read for the log only, and validUntil *)
(* never changes.                                                          *)
ReadClock == /\ pc = "readClock"
             /\ \E d \in Skews : seenNow' = now + d
             /\ pc' = "decide"
             /\ UNCHANGED <<vars, seenState>>

(* Variant: the expiry test of line 52 lets the deadline itself through.   *)
DecideAtDeadline ==
  /\ pc = "decide"
  /\ pc' = CASE seenState = "Funded" -> "commit"
             [] seenState = "Forming" /\ seenNow >= deal.validUntil -> "refund"
             [] seenState \in {"Committed", "Refunded"} /\ StopOnTerminal -> "stopped"
             [] OTHER -> "readState"
  /\ UNCHANGED <<vars, seenState, seenNow>>

(* Variant: the terminal states of line 57 taken for those from 1 up.      *)
DecideTerminalFirst ==
  /\ pc = "decide"
  /\ pc' = CASE seenState # "Forming" /\ StopOnTerminal -> "stopped"
             [] seenState = "Forming" /\ seenNow > deal.validUntil -> "refund"
             [] OTHER -> "readState"
  /\ UNCHANGED <<vars, seenState, seenNow>>

(* Variant: a pool seen Forming is left alone, whatever the clock says.    *)
DecideNoRefund ==
  /\ pc = "decide"
  /\ pc' = CASE seenState = "Funded" -> "commit"
             [] seenState \in {"Committed", "Refunded"} /\ StopOnTerminal -> "stopped"
             [] OTHER -> "readState"
  /\ UNCHANGED <<vars, seenState, seenNow>>

(* The if-else chain over what was read; no match sleeps and starts over.  *)
Decide ==
  /\ pc = "decide"
  /\ pc' = CASE seenState = "Funded" -> "commit"
             [] seenState = "Forming" /\ seenNow > deal.validUntil -> "refund"
             [] seenState \in {"Committed", "Refunded"} /\ StopOnTerminal -> "stopped"
             [] OTHER -> "readState"
  /\ UNCHANGED <<vars, seenState, seenNow>>

AfterTransaction == IF StopOnTerminal THEN "stopped" ELSE "readState"

SendCommit == /\ pc = "commit"
              /\ Commit(Keeper)
              /\ pc' = AfterTransaction
              /\ UNCHANGED <<seenState, seenNow>>

SendRefund == /\ pc = "refund"
              /\ RefundAll(Keeper)
              /\ pc' = AfterTransaction
              /\ UNCHANGED <<seenState, seenNow>>

(* The transaction reverts, in the estimate or in the block: the await     *)
(* throws.                                                                 *)
Reverts == /\ \/ pc = "commit" /\ ~ CommitOK(Keeper)
              \/ pc = "refund" /\ ~ RefundOK(Keeper)
           /\ pc' = "reverted"
           /\ UNCHANGED <<vars, seenState, seenNow>>

RpcFails == /\ RpcMayFail /\ Running
            /\ pc' = "crashed"
            /\ UNCHANGED <<vars, seenState, seenNow>>

KeeperStep == ReadState \/ ReadClock \/ Decide \/ SendCommit \/ SendRefund \/ Reverts

(* Who may end the pool besides the keeper, the token's moods, and time.   *)
Bystanders == \/ ToolCommits /\ Commit(Keeper)
              \/ \E s \in Rescuers : Expired /\ RefundAll(s)
              \/ Refusals \/ Tick

Others == (\E s \in Accounts : Fund(s) \/ TokenStep(s)) \/ Bystanders

KeeperNext == KeeperStep \/ RpcFails \/ (Others /\ UNCHANGED keeper)

KeeperSpec == KeeperInit /\ [][KeeperNext]_kvars

(* The loop keeps running while its process lives (poll, read, act, sleep) *)
(* and the chain produces blocks.                                          *)
FairKeeperSpec == KeeperSpec /\ WF_kvars(KeeperStep) /\ WF_kvars(Tick /\ UNCHANGED keeper)
-----------------------------------------------------------------------------
KeeperTypeOK == /\ TypeOK
                /\ pc \in {"readState", "readClock", "decide", "commit", "refund",
                           "stopped", "reverted", "crashed"}
                /\ seenState \in {"Forming", "Funded", "Committed", "Refunded"}
                /\ seenNow \in Int

(* The keeper never leaves a pool behind: whoever else acts on the pool    *)
(* between its reads and its transaction, it stops, or dies of a reverted  *)
(* transaction, only when the pool is Committed or Refunded                *)
(* (keeper.ts:47-59, 82-85), as long as the token serves everyone.         *)
NeverAbandons == pc \in {"stopped", "reverted"} => Done

(* Nobody is refunded while the pool can still fill: the contract lets the *)
(* keeper refund at any time, and with a clock that is not ahead of the    *)
(* chain's this loop does it only after validUntil (keeper.ts:52).         *)
NoEarlyRefund == [][state # "Refunded" /\ state' = "Refunded" => Expired]_kvars

(* The keeper ends every pool: when the last buyer has funded, or when     *)
(* validUntil has passed, the pool is eventually Committed or Refunded,    *)
(* unless an RPC error ends the keeper first (keeper.ts:38-62).            *)
EndsEveryPool == <>(Done \/ pc = "crashed")

(* "If valid_until elapses without full funding, keeper calls refundAll()",*)
(* "When funded_count == N before valid_until, the keeper calls commit()"  *)
(* (HUDDLE_ARCHITECTURE.md:151-152): a full set is never refunded.         *)
FullSetNeverRefunded == state = "Refunded" => Len(buyers) # deal.requiredBuyers
=============================================================================
