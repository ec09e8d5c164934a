------------------------- MODULE MCSettlementScenarios -------------------------
(* The settlement path in two scenarios, each exploring a part of the steps. *)
EXTENDS MCInstructionSender

VARIABLE scenario

scenarioVars == <<vars, scenario>>

\* Two followers and somebody else's swaps of two tokens; nobody earns a fee.
SettlingBound ==
    /\ \A i \in DOMAIN pendingFills : pendingFills[i].profit = 0
    /\ \A i \in DOMAIN chain : WFLR \notin {chain[i].swap.tokenIn, chain[i].swap.tokenOut}
    /\ \A t \in Pooled : t = WFLR => pooled[t] = 0
    /\ feeHeld = 0

\* The tokens of the sender come from its own swaps.
Settling ==
    /\ Next
    /\ SettlingBound'
    /\ UNCHANGED accruedFees
    /\ chain' = chain => UNCHANGED pooled

\* One follower who withdraws nothing, three profits of which one is too small for a fee, and a
\* seed that pays one fee only.
EarningBound ==
    /\ \A a \in Accounts :
          /\ pendingWithdrawal[a] = 0
          /\ balance[a] = 0 \/ (a[1] = f1 /\ balance[a] = 1)
    /\ OwnSwaps = DOMAIN chain
    /\ \A i \in DOMAIN pendingFills : pendingFills[i].account[1] = f1

\* The tokens of the sender that no swap brought come before the first one.
Earning ==
    /\ Next
    /\ EarningBound'
    /\ chain # <<>> /\ chain' = chain => UNCHANGED pooled

ScenarioInit == Init /\ scenario \in {"settling", "earning"}

ScenarioNext ==
    /\ UNCHANGED scenario
    /\ \/ scenario = "settling" /\ Settling
       \/ scenario = "earning" /\ Earning

ScenarioSpec == ScenarioInit /\ [][ScenarioNext]_scenarioVars

=============================================================================
