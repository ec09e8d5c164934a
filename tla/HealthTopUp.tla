------------------------------- MODULE HealthTopUp -------------------------------
(***************************************************************************)
(* Position health: the engine's TOPUP_V1 (fce-matching-engine handlers.ts), *)
(* MirrorHealthAuth.sol, the assessment of fce-ai-agent health.ts, and the  *)
(* two scripts that use them, health-monitor.ts and health-canary.ts.  Each *)
(* read of the chain and each send is a step of its own; the canary does    *)
(* not wait for the transactions of its follower, which are mined in order  *)
(* and any time.                                                            *)
(***************************************************************************)
EXTENDS KineticPool, AlertFeed

CONSTANTS Follower,         \* the canary's follower, one of the users
          LiquidationAlert, \* LIQUIDATION_ALERT_BPS
          CanarySupply, CanaryBorrow, CanaryMaxTopUp, CanaryDefaultTopUp,
          CanaryDrop,       \* the price the canary sets
          PoolAmounts,      \* amounts of the other users' calls and of top-ups
          MaxCanaries,      \* bound: runs of the canary
          MaxCycles,        \* HEALTH_MONITOR_CYCLES
          FirstCounts,      \* bound: runs and cycles that are not left to do at first
          MaxSupply         \* bound: supply of another user

ASSUME HealthAssumption ==
    /\ Follower \in Users
    /\ {LiquidationAlert, CanarySupply, CanaryBorrow, CanaryMaxTopUp, CanaryDefaultTopUp,
        CanaryDrop, MaxCanaries, MaxCycles, MaxSupply} \subseteq Nat
    /\ PoolAmounts \subseteq Nat
    /\ FirstCounts \subseteq Nat \X (0..MaxCycles)
    /\ {"canary", "healthMonitor"} \subseteq Alerters

\* The canary's deposit carries its debt at the price it sets, whatever that price
\* rounds away: 10 and 6 tokens of 6 decimals, 0.7 of 1e18 and 11000 in the code.
ASSUME CanaryAssumption ==
    /\ CanaryBorrow <= CanarySupply /\ CanaryDrop <= PriceOne /\ 10000 <= DeployedThreshold
    /\ 10000 * (CanarySupply * CanaryDrop - PriceOne + 1)
          >= DeployedThreshold * CanaryBorrow * PriceOne

VARIABLES auth,      \* authorizations[follower][lead], for the one lead
          topUps,    \* what TOPUP_V1 answered: calldata for supply(amount)
          mempool,   \* the follower's transactions that are not mined
          prices,    \* the prices the canary has sent from the owner's account, not mined
          canary,    \* the step of the canary and what it has read
          canaries,  \* runs so far, for the bound
          monitorCycle,  \* cycles the health monitor has done
          deposited, \* history: the follower's last supply took effect
          unbacked   \* history: a borrow took effect after a supply that did not

healthVars == <<auth, topUps, mempool, prices, canary, canaries, monitorCycle, deposited, unbacked>>
topUpVars  == <<kineticVars, alertVars, healthVars>>

HealthTypeOK ==
    /\ KineticTypeOK
    /\ auth \in [Users -> [maxTopUp : Nat, enabled : BOOLEAN]]
    /\ topUps \subseteq [follower : Users, amount : Nat]
    /\ canary.step \in {"idle", "sends", "drop", "dropping", "ratio", "supply", "borrow",
                        "threshold", "assess", "authorized", "request", "answered", "mining",
                        "restore", "passed", "failed"}
    /\ monitorCycle \in 0..MaxCycles
    /\ {deposited, unbacked} \subseteq BOOLEAN

\* As 04-deploy-phase89.ts deploys MirrorHealthAuth and the pool.
HealthInit ==
    /\ KineticInit
    /\ AlertInit
    /\ auth = [u \in Users |-> [maxTopUp |-> 0, enabled |-> FALSE]]
    /\ topUps = {}
    /\ mempool = <<>>
    /\ prices = <<>>
    /\ canary = [step |-> "idle"]
    /\ \E first \in FirstCounts : canaries = first[1] /\ monitorCycle = first[2]
    /\ deposited = TRUE
    /\ unbacked = FALSE

-----------------------------------------------------------------------------
(* MirrorHealthAuth and TOPUP_V1. *)

\* preAuthorizeTopUp
PreAuthorize(u, maxTopUp, enabled) ==
    auth' = [auth EXCEPT ![u] = [maxTopUp |-> maxTopUp, enabled |-> enabled]]

\* The cap is per call: nothing counts what was topped up before.
IsAuthorized(u, amount) == auth[u].enabled /\ amount > 0 /\ amount <= auth[u].maxTopUp

\* The request is all the handler reads.
HandleTopUp(u, amount) ==
    /\ amount > 0
    /\ topUps' = topUps \cup {[follower |-> u, amount |-> amount]}

-----------------------------------------------------------------------------
(* health.ts *)

AtRisk(ratio) == ratio < LiquidationAlert

NeedsTopUp(ratio, threshold) == AtRisk(ratio) /\ ratio >= threshold

\* What brings supply to alertBps of the debt, at a price of one.
SuggestedTopUp(ratio, threshold, supplied, borrowed) ==
    LET target == (borrowed * LiquidationAlert) \div 10000
    IN  IF NeedsTopUp(ratio, threshold) /\ target > supplied THEN target - supplied ELSE 0

-----------------------------------------------------------------------------
(* health-monitor.ts: one cycle after the other, then it ends.  It reads the *)
(* threshold too, but alerts by the ratio alone.                            *)

MonitorCycle ==
    /\ monitorCycle < MaxCycles
    /\ Sent("healthMonitor")
    /\ monitorCycle' = monitorCycle + 1
    /\ IF AtRisk(CollateralRatioBps(Follower)) THEN SendAlert("healthMonitor", "liquidation_risk")
       ELSE UNCHANGED alertVars

-----------------------------------------------------------------------------
(* health-canary.ts *)

\* Mutant: the follower borrows more.
CanaryCallsLarger == <<[call |-> "supply", amount |-> CanarySupply],
                       [call |-> "borrow", amount |-> CanaryBorrow + 20],
                       [call |-> "authorize", amount |-> CanaryMaxTopUp]>>

CanaryCalls == <<[call |-> "supply", amount |-> CanarySupply],
                 [call |-> "borrow", amount |-> CanaryBorrow],
                 [call |-> "authorize", amount |-> CanaryMaxTopUp]>>

\* A new process, whatever the one before has left.  The follower is funded where it
\* has too little FXRP and approves; wallets and allowances are not modelled.
CanaryStarts ==
    /\ canary.step \in {"idle", "passed", "failed"}
    /\ canaries < MaxCanaries
    /\ AlerterStarts("canary")
    /\ canary' = [step |-> "sends", next |-> 1]
    /\ canaries' = canaries + 1
    /\ UNCHANGED <<kineticVars, auth, topUps, mempool, prices>>

\* supply, borrow and preAuthorizeTopUp are sent one after the other and not waited for.
CanarySends ==
    /\ canary.step = "sends"
    /\ mempool' = Append(mempool, CanaryCalls[canary.next])
    /\ canary' = IF canary.next = Len(CanaryCalls) THEN [step |-> "drop"]
                 ELSE [canary EXCEPT !.next = @ + 1]
    /\ UNCHANGED <<kineticVars, alertVars, auth, topUps, prices, canaries>>

\* setPrice is sent, and its receipt awaited.
CanaryDropsPrice ==
    /\ \/ /\ canary.step = "drop"
          /\ prices' = Append(prices, CanaryDrop)
          /\ canary' = [step |-> "dropping"]
       \/ /\ canary.step = "dropping"
          /\ prices = <<>>
          /\ canary' = [step |-> "ratio"]
          /\ UNCHANGED prices
    /\ UNCHANGED <<kineticVars, alertVars, auth, topUps, mempool, canaries>>

\* Four reads, each of the latest block.
CanaryReads ==
    /\ \/ /\ canary.step = "ratio"
          /\ canary' = [step |-> "supply", ratio |-> CollateralRatioBps(Follower)]
       \/ /\ canary.step = "supply"
          /\ canary' = [step |-> "borrow", ratio |-> canary.ratio,
                        supplied |-> supplyBalance[Follower]]
       \/ /\ canary.step = "borrow"
          /\ canary' = [step |-> "threshold", ratio |-> canary.ratio,
                        supplied |-> canary.supplied, borrowed |-> borrowBalance[Follower]]
       \/ /\ canary.step = "threshold"
          /\ canary' = [step |-> "assess", ratio |-> canary.ratio,
                        topUp |-> SuggestedTopUp(canary.ratio, liquidationThresholdBps,
                                                 canary.supplied, canary.borrowed)]
    /\ UNCHANGED <<kineticVars, alertVars, auth, topUps, mempool, prices, canaries>>

CanaryFails == canary' = [step |-> "failed"]

\* Without the status it expects the canary throws.
CanaryAssesses ==
    /\ canary.step = "assess"
    /\ IF AtRisk(canary.ratio)
       THEN /\ SendAlert("canary", "liquidation_risk")
            /\ canary' = [step |-> "authorized", ratio |-> canary.ratio,
                          topUp |-> IF canary.topUp > 0 THEN canary.topUp ELSE CanaryDefaultTopUp]
       ELSE CanaryFails /\ UNCHANGED alertVars
    /\ UNCHANGED <<kineticVars, auth, topUps, mempool, prices, canaries>>

CanaryChecksAuthorization ==
    /\ canary.step = "authorized"
    /\ Sent("canary")
    /\ IF IsAuthorized(Follower, canary.topUp)
       THEN canary' = [canary EXCEPT !.step = "request"]
       ELSE CanaryFails
    /\ UNCHANGED <<kineticVars, alertVars, auth, topUps, mempool, prices, canaries>>

\* It calls the handler in its own process and sends what it answered.
CanaryTopsUp ==
    /\ \/ /\ canary.step = "request"
          /\ HandleTopUp(Follower, canary.topUp)
          /\ canary' = [canary EXCEPT !.step = "answered"]
          /\ UNCHANGED mempool
       \/ /\ canary.step = "answered"
          /\ mempool' = Append(mempool, [call |-> "supply", amount |-> canary.topUp])
          /\ canary' = [step |-> "mining", ratio |-> canary.ratio]
          /\ UNCHANGED topUps
    /\ UNCHANGED <<kineticVars, alertVars, auth, prices, canaries>>

\* The receipt of the last of the follower's transactions is awaited, its status is not
\* looked at; then the ratio is read.
CanaryVerifies ==
    /\ canary.step = "mining"
    /\ mempool = <<>>
    /\ IF CollateralRatioBps(Follower) > canary.ratio
       THEN SendAlert("canary", "topup_executed") /\ canary' = [step |-> "restore"]
       ELSE CanaryFails /\ UNCHANGED alertVars
    /\ UNCHANGED <<kineticVars, auth, topUps, mempool, prices, canaries>>

\* A canary that failed never gets here: the price stays where it put it.  The canary
\* ends when setPrice is sent.
CanaryRestoresPrice ==
    /\ canary.step = "restore"
    /\ Sent("canary")
    /\ prices' = Append(prices, PriceOne)
    /\ canary' = [step |-> "passed"]
    /\ UNCHANGED <<kineticVars, alertVars, auth, topUps, mempool, canaries>>

\* A read or a send fails, or the wait for a receipt times out.
CanaryDies ==
    /\ canary.step \notin {"idle", "passed", "failed"}
    /\ Sent("canary")
    /\ CanaryFails
    /\ UNCHANGED <<kineticVars, alertVars, auth, topUps, mempool, prices, canaries>>

CanaryStep ==
    \/ CanarySends \/ CanaryDropsPrice \/ CanaryReads \/ CanaryAssesses
    \/ CanaryChecksAuthorization \/ CanaryTopsUp \/ CanaryVerifies \/ CanaryRestoresPrice

-----------------------------------------------------------------------------
(* The chain and the others on it. *)

\* What a transaction of the follower does.
Takes(tx) ==
    \/ /\ tx.call = "supply"
       /\ Supply(Follower, tx.amount)
       /\ deposited' = TRUE
       /\ UNCHANGED <<auth, unbacked>>
    \/ /\ tx.call = "borrow"
       /\ Borrow(Follower, tx.amount)
       /\ unbacked' = (unbacked \/ ~deposited)
       /\ UNCHANGED <<auth, deposited>>
    \/ /\ tx.call = "authorize"
       /\ PreAuthorize(Follower, tx.amount, TRUE)
       /\ UNCHANGED <<kineticVars, deposited, unbacked>>

\* It reverts, a supply when the follower's wallet or allowance does not carry it, a
\* borrow when the pool's check or its tokens do not; or its nonce went to another
\* transaction of the follower's account.
Fails(tx) ==
    /\ deposited' = (deposited /\ tx.call # "supply")
    /\ UNCHANGED <<kineticVars, auth, unbacked>>

\* Mutant: a transaction that would revert is never mined.
MineOnlySuccess ==
    /\ mempool # <<>>
    /\ mempool' = Tail(mempool)
    /\ Takes(Head(mempool))
    /\ UNCHANGED <<alertVars, topUps, prices, canary, canaries, monitorCycle>>

\* In the order they were sent.
Mine ==
    /\ mempool # <<>>
    /\ mempool' = Tail(mempool)
    /\ Takes(Head(mempool)) \/ Fails(Head(mempool))
    /\ UNCHANGED <<alertVars, topUps, prices, canary, canaries, monitorCycle>>

\* The price the owner's account has sent, unless its nonce went to another transaction
\* of that account, which deploys and relays, too.
MinePrice ==
    /\ prices # <<>>
    /\ prices' = Tail(prices)
    /\ SetKineticPrice(Head(prices)) \/ UNCHANGED kineticVars
    /\ UNCHANGED <<alertVars, auth, topUps, mempool, canary, canaries, monitorCycle,
                   deposited, unbacked>>

\* The calldata of a top-up credits whoever sends it.
ExecuteTopUp(topUp, u) == Supply(u, topUp.amount)

OtherCall(u, amount) ==
    \/ Supply(u, amount)
    \/ Borrow(u, amount)
    \/ Repay(u, amount)
    \/ \E topUp \in topUps : ExecuteTopUp(topUp, u)

Others ==
    \/ /\ \/ \E u \in Users \ {Follower}, a \in PoolAmounts :
                OtherCall(u, a) /\ supplyBalance'[u] <= MaxSupply
          \/ \E u \in Users, a \in PoolAmounts : Liquidate(u, a)
          \/ \E bps \in KineticThresholds : SetKineticThreshold(bps)
       /\ UNCHANGED healthVars
    \/ /\ \E u \in Users \ {Follower}, a \in PoolAmounts : HandleTopUp(u, a)
       /\ UNCHANGED <<kineticVars, auth, mempool, prices, canary, canaries, monitorCycle,
                      deposited, unbacked>>
    \/ /\ PreAuthorize(Follower, CanaryMaxTopUp, FALSE)
       /\ UNCHANGED <<kineticVars, topUps, mempool, prices, canary, canaries, monitorCycle,
                      deposited, unbacked>>

HealthNext ==
    \/ (CanaryStarts \/ CanaryStep \/ CanaryDies) /\ UNCHANGED <<monitorCycle, deposited, unbacked>>
    \/ /\ MonitorCycle
       /\ UNCHANGED <<kineticVars, auth, topUps, mempool, prices, canary, canaries, deposited, unbacked>>
    \/ Mine \/ MinePrice
    \/ Others /\ UNCHANGED alertVars
    \/ AlertNext /\ UNCHANGED <<kineticVars, healthVars>>

-----------------------------------------------------------------------------
(* Properties. *)

\* At the threshold the pool was deployed with, the follower is within no reach of a
\* liquidation unless it borrowed on a deposit that failed: though the owner may have
\* raised the threshold for a while, the price may drop before the borrow is mined, a
\* canary may die between any two of its sends and with the price down, and the next
\* one starts from there.
CanaryStaysSafe ==
    liquidationThresholdBps <= DeployedThreshold /\ ~unbacked => ~IsLiquidatable(Follower)

\* A canary that has started ends, passed or failed, whatever reverts or is lost.
CanaryEnds ==
    canary.step = "sends" ~> canary.step \in {"passed", "failed"}

\* A top-up is answered only to a follower who opted in to one of that size:
\* handlers.ts calls TOPUP_V1 a pre-authorized collateral top-up.
TopUpsAuthorized ==
    [][\A t \in topUps' \ topUps : IsAuthorized(t.follower, t.amount)]_topUpVars

=============================================================================
