---------------------------- MODULE PaymentStatus ----------------------------
(***************************************************************************)
(* The dashboard (web/src/app/page.tsx) over a settlement: it polls buyer  *)
(* 1, and both a watcher and its simulation ask the keeper route           *)
(* (web/src/app/api/keeper/route.ts) to commit what that buyer shows as    *)
(* settled.  The route registers a job with KeeperHub or falls back to the *)
(* seller's tool.  The /submit requests of the page are Submit steps, and a*)
(* registered job is the keeper of the pool (KeeperCommits).               *)
(***************************************************************************)
EXTENDS Settlement

CONSTANTS
  Buyer1,       \* the agent whose status the page follows
  FetchFails,   \* whether a request of the page may throw
  MaxRuns,      \* bound: simulations in their loop
  MaxAsks       \* bound: requests to the route under way

ASSUME PageAssumption == /\ Buyer1 \in Agents /\ FetchFails \in BOOLEAN
                         /\ MaxRuns \in Nat /\ MaxAsks \in Nat \ {0}

VARIABLES
  polls,            \* settled addresses read by polls and not yet shown
  simulating, keeperRunning, paymentComplete,   \* React state
  keeperFired,      \* in sessionStorage
  loops,            \* simulations that wait for a settled status
  asks,             \* requests to the keeper route
  failed            \* history: whether a request to the route threw

page == <<polls, simulating, keeperRunning, paymentComplete, keeperFired, loops, asks, failed>>
pvars == <<svars, page>>

PaymentInit == /\ SettlementInit
               /\ polls = {}
               /\ simulating = FALSE /\ keeperRunning = FALSE
               /\ paymentComplete = FALSE /\ keeperFired = FALSE
               /\ loops = 0
               /\ asks = {}
               /\ failed = FALSE

(* getUIStatus(): the address buyer 1 shows as "Settled (commit ready)".   *)
Shown == IF Buyer1 \in submitted \cap fundedByMe THEN address[Buyer1] ELSE NoPool

(* POST /api/keeper; the number tells requests under way apart.            *)
Ask(by, p) ==
  LET free == {i \in 1..MaxAsks : \A r \in asks : r.n # i}
  IN  /\ free # {}
      /\ asks' = asks \cup {[n |-> Smallest(free), by |-> by, pool |-> p]}
-----------------------------------------------------------------------------
(* A poll reads buyer 1 first, then three more agents; polls may overlap.  *)
(* One that reads anything else shows nothing the watcher acts on.         *)
Poll == /\ Shown # NoPool
        /\ polls' = polls \cup {Shown}
        /\ UNCHANGED <<svars, simulating, keeperRunning, paymentComplete, keeperFired, loops,
                       asks, failed>>

(* setAgentsState() and the effect of the keeper watcher.                  *)
Watch(p) ==
  /\ p \in polls
  /\ polls' = polls \ {p}
  /\ IF paymentComplete \/ keeperRunning \/ keeperFired
     THEN UNCHANGED <<keeperFired, keeperRunning, asks>>
     ELSE keeperFired' = TRUE /\ keeperRunning' = TRUE /\ Ask("watcher", p)
  /\ UNCHANGED <<svars, simulating, paymentComplete, loops, failed>>

(* Variant: the simulation marks the keeper as fired, as it will ask.      *)
StartSimulationFired ==
  /\ ~ simulating /\ ~ keeperRunning /\ loops < MaxRuns
  /\ simulating' = TRUE /\ keeperRunning' = FALSE
  /\ paymentComplete' = FALSE /\ keeperFired' = TRUE
  /\ loops' = loops + 1
  /\ UNCHANGED <<svars, polls, asks, failed>>

StartSimulation ==
  /\ ~ simulating /\ ~ keeperRunning /\ loops < MaxRuns
  /\ simulating' = TRUE /\ keeperRunning' = FALSE
  /\ paymentComplete' = FALSE /\ keeperFired' = FALSE
  /\ loops' = loops + 1
  /\ UNCHANGED <<svars, polls, asks, failed>>

(* Variant: a simulation that asks whatever status it reads.               *)
SimulationAsksAnyway ==
  /\ loops > 0
  /\ loops' = loops - 1
  /\ keeperRunning' = TRUE
  /\ Ask("simulation", Shown)
  /\ UNCHANGED <<svars, polls, simulating, paymentComplete, keeperFired, failed>>

(* The simulation reads a settled status and asks, whoever has asked.      *)
SimulationAsks ==
  /\ loops > 0 /\ Shown # NoPool
  /\ loops' = loops - 1
  /\ keeperRunning' = TRUE
  /\ Ask("simulation", Shown)
  /\ UNCHANGED <<svars, polls, simulating, paymentComplete, keeperFired, failed>>

(* Twenty reads without one, or a request to an agent that throws.         *)
SimulationGivesUp ==
  /\ loops > 0
  /\ loops' = loops - 1
  /\ simulating' = FALSE
  /\ UNCHANGED <<svars, polls, keeperRunning, paymentComplete, keeperFired, asks, failed>>

(* "New Round".                                                            *)
Reset == /\ paymentComplete
         /\ simulating' = FALSE /\ keeperRunning' = FALSE
         /\ paymentComplete' = FALSE /\ keeperFired' = FALSE
         /\ UNCHANGED <<svars, polls, loops, asks, failed>>

(* The route answers r with JSON, and the page does not look at "success". *)
Answered(r) == /\ asks' = asks \ {r}
               /\ keeperRunning' = FALSE
               /\ paymentComplete' = TRUE
               /\ simulating' = (simulating /\ r.by = "watcher")
               /\ UNCHANGED <<vars, first, mail, task, address, fundedByMe, polls, keeperFired,
                              loops, failed>>

(* KeeperHub takes the job long before the pool may be full; or else the   *)
(* seller's tool commits, fails and says so, or cannot be reached (503).   *)
RouteAnswers(r) == /\ \/ pools' = pools
                      \/ /\ pools[r.pool].outcome = "open" /\ Full(r.pool)
                         /\ pools' = Settled(r.pool)
                   /\ Answered(r)

(* The request throws; the simulation's catch leaves keeperRunning set.    *)
FetchThrows(r) ==
  /\ FetchFails
  /\ asks' = asks \ {r}
  /\ IF r.by = "watcher" THEN keeperRunning' = FALSE /\ UNCHANGED simulating
                         ELSE simulating' = FALSE /\ UNCHANGED keeperRunning
  /\ failed' = TRUE
  /\ UNCHANGED <<svars, polls, paymentComplete, keeperFired, loops>>

PageStep == \/ Poll \/ StartSimulation \/ SimulationAsks \/ SimulationGivesUp \/ Reset
            \/ \E p \in polls : Watch(p)
            \/ \E r \in asks : RouteAnswers(r) \/ FetchThrows(r)

PaymentNext == PageStep \/ (SettlementNext /\ UNCHANGED page)

PaymentSpec == PaymentInit /\ [][PaymentNext]_pvars

(* Besides what a settlement needs: the page keeps polling and showing what*)
(* it read, and the route answers.                                         *)
FairPaymentSpec ==
  /\ PaymentSpec
  /\ SettlementFairness
  /\ WF_pvars(Poll)
  /\ \A p \in 1..MaxPools : WF_pvars(Watch(p))
  /\ \A i \in 1..MaxAsks : WF_pvars(\E r \in asks : r.n = i /\ RouteAnswers(r))
-----------------------------------------------------------------------------
(* Types; and what the page has read or asks about is a deployed coalition.*)
PaymentTypeOK ==
  /\ polls \subseteq DOMAIN pools
  /\ {simulating, keeperRunning, paymentComplete, keeperFired, failed} \subseteq BOOLEAN
  /\ loops \in 0..MaxRuns
  /\ asks \subseteq [n : 1..MaxAsks, by : {"watcher", "simulation"}, pool : DOMAIN pools]

(* The watcher keeps quiet only while an answer is awaited or once it is   *)
(* shown, in whatever order polls, simulations, answers and new rounds set *)
(* and clear its three flags, unless a request threw                       *)
(* (page.tsx:219-294, 658-663).                                            *)
QuietForAReason ==
  paymentComplete \/ keeperRunning \/ keeperFired => paymentComplete \/ asks # {} \/ failed

(* What buyer 1 has settled the page ends up showing as complete, whether  *)
(* the watcher or a simulation asks first, whenever a simulation starts or *)
(* gives up and a new round begins, unless a request threw: none of the    *)
(* flags that keep the watcher quiet outlives its reason                   *)
(* (page.tsx:219-294, 658-663).                                            *)
ShowsTheEnd == Shown # NoPool ~> paymentComplete \/ failed

(* "when Payment is actually Complete" (page.tsx:211), "transferred funds  *)
(* to the Seller" (page.tsx:463): what is shown as complete is committed.  *)
PaidMeansCommitted == paymentComplete => \E p \in DOMAIN pools : pools[p].outcome = "settled"
=============================================================================
