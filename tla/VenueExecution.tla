----------------------------- MODULE VenueExecution -----------------------------
(***************************************************************************)
(* A match on each of the venues the engine can be deployed for.  The       *)
(* handler of MATCH_V1 reads the feeds one after the other, sizes the       *)
(* signal and answers with instructions; whoever holds them executes them   *)
(* later, in any order, or never, while prices, other traders and the       *)
(* owners go on.  EXECUTION_VENUE and the signal's venue decide between the *)
(* venues: a behaviour has one.                                             *)
(***************************************************************************)
EXTENDS SparkDexRouter, BlazeSwapPool, EnosysCDP, FirelightStrategy, MatchSizing

CONSTANTS Venues,      \* deployments to explore
          Signals,     \* decrypted payloads
          TradeSizes,  \* amounts other traders swap on the router
          PairTrades   \* ... and on the pair

\* A JSON number is truncated before it is used.
ASSUME VenueAssumption ==
    /\ Venues \subseteq {"mock-sparkdex", "blazeswap-v2", "enosys-cdp", "firelight-strategy"}
    /\ \A signal \in Signals :
          /\ signal.sizePct \in Int
          /\ \A i \in DOMAIN signal.followers : signal.followers[i].allocationBps \in Int
    /\ TradeSizes \cup PairTrades \subseteq Nat

VARIABLES venue,
          assembly,     \* the match being assembled, or Idle
          instructions  \* answered and not executed yet, by position in the answer

engineVars == <<assembly, instructions>>
cdpAndStrategyVars == <<cdpVars, strategyVars>>
vars == <<venue, engineVars, feedVars, routerVars, poolVars, cdpAndStrategyVars>>

Idle == [step |-> "idle"]

MockVenue == venue \in {"enosys-cdp", "firelight-strategy"}

TypeOK ==
    /\ venue \in Venues
    /\ assembly.step \in {"idle", "received", "fxrpRead"}
    /\ FeedTypeOK /\ RouterTypeOK /\ PoolTypeOK /\ CdpTypeOK /\ StrategyTypeOK

Init ==
    /\ venue \in Venues
    /\ assembly = Idle
    /\ instructions = <<>>
    /\ FeedInit /\ RouterInit /\ PoolInit /\ CdpInit /\ StrategyInit

-----------------------------------------------------------------------------
(* The matching engine. *)

\* The mock venues are answered at once, the swap venues after two feed reads.
\* Bound: the engine trades on the pair once the script has named it, and nobody
\* runs the script during a match.
ReceiveSignal(signal) ==
    /\ assembly = Idle /\ instructions = <<>>
    /\ venue = "blazeswap-v2" => configured /\ script = "idle"
    /\ IF MockVenue
       THEN instructions' = MockInstructions(signal) /\ UNCHANGED assembly
       ELSE /\ ValidSwapSignal(signal)
            /\ assembly' = [step |-> "received", signal |-> signal]
            /\ UNCHANGED instructions
    /\ UNCHANGED <<feedVars, routerVars, poolVars, cdpAndStrategyVars>>

ReadFxrpFeed ==
    /\ assembly.step = "received"
    /\ assembly' = [step |-> "fxrpRead", signal |-> assembly.signal, fxrp |-> price["FXRP"]]
    /\ UNCHANGED <<instructions, feedVars, routerVars, poolVars, cdpAndStrategyVars>>

ReadUsdt0FeedAndAnswer ==
    /\ assembly.step = "fxrpRead"
    /\ instructions' = SwapInstructions(assembly.signal, assembly.fxrp, price["USDT0"], now)
    /\ assembly' = Idle
    /\ UNCHANGED <<feedVars, routerVars, poolVars, cdpAndStrategyVars>>

\* Whoever should execute the rest never does.
DropInstructions ==
    /\ instructions # <<>>
    /\ instructions' = <<>>
    /\ UNCHANGED <<assembly, feedVars, routerVars, poolVars, cdpAndStrategyVars>>

Engine ==
    \/ \E signal \in Signals : ReceiveSignal(signal)
    \/ ReadFxrpFeed
    \/ ReadUsdt0FeedAndAnswer
    \/ DropInstructions

-----------------------------------------------------------------------------
(* Execution, and everybody else on the venue. *)

ExecuteOnRouter(i) ==
    LET order == instructions[i]
    IN  /\ ExactInputSingle(order.tokenIn, order.amountIn, order.minimum, order.deadline)
        /\ UNCHANGED <<feedVars, poolVars, cdpAndStrategyVars>>

ExecuteOnPair(i) ==
    LET order == instructions[i]
    IN  /\ now <= order.deadline
        /\ PairSwap(order.tokenIn, order.amountIn, order.minimum)
        /\ UNCHANGED <<scriptVars, funds, configured, feedVars, routerVars, cdpAndStrategyVars>>

\* The calldata names no owner: the position and the shares are the caller's.
ExecuteCdp(i, u) ==
    /\ OpenCdp(u, instructions[i].amountIn, instructions[i].amountIn \div 2)
    /\ UNCHANGED <<feedVars, routerVars, poolVars, strategyVars>>

ExecuteDeposit(i, u) ==
    /\ DepositAssets(u, instructions[i].amountIn)
    /\ UNCHANGED <<feedVars, routerVars, poolVars, cdpVars>>

Without(i) == Restrict(instructions, DOMAIN instructions \ {i})

Execute(i) ==
    /\ instructions' = Without(i)
    /\ UNCHANGED assembly
    /\ \/ venue = "mock-sparkdex" /\ ExecuteOnRouter(i)
       \/ venue = "blazeswap-v2" /\ ExecuteOnPair(i)
       \/ venue = "enosys-cdp" /\ \E u \in Users : ExecuteCdp(i, u)
       \/ venue = "firelight-strategy" /\ \E u \in Users : ExecuteDeposit(i, u)

OthersOnRouter ==
    \/ \E t \in FeedTokens, a \in TradeSizes :
          \/ ExactInputSingle(t, a, 0, now)
          \/ ExactOutputSingle(t, a, SwapCap, now)
    \/ \E s \in Snapshots : SetAnchorSnapshot(s, now)

OthersOnPair ==
    \E t \in FeedTokens, a \in PairTrades :
        /\ PairSwap(t, a, 0)
        /\ UNCHANGED <<scriptVars, funds, configured>>

Environment ==
    \/ /\ ~MockVenue
       /\ NextBlock
       /\ UNCHANGED <<poolVars, cdpAndStrategyVars>>
    \/ /\ venue = "mock-sparkdex"
       /\ OthersOnRouter
       /\ UNCHANGED <<feedVars, poolVars, cdpAndStrategyVars>>
    \/ /\ venue = "blazeswap-v2"
       /\ OthersOnPair \/ (SeedNext /\ assembly = Idle /\ instructions = <<>>)
       /\ UNCHANGED <<feedVars, routerVars, cdpAndStrategyVars>>
    \/ /\ venue = "enosys-cdp"
       /\ CdpNext
       /\ UNCHANGED <<feedVars, routerVars, poolVars, strategyVars>>
    \/ /\ venue = "firelight-strategy"
       /\ StrategyNext
       /\ UNCHANGED <<feedVars, routerVars, poolVars, cdpVars>>

Next ==
    /\ UNCHANGED venue
    /\ \/ Engine
       \/ \E i \in DOMAIN instructions : Execute(i)
       \/ UNCHANGED engineVars /\ Environment

Spec == Init /\ [][Next]_vars

-----------------------------------------------------------------------------
(* Properties. *)

\* Every venue's books hold through every sequence of calls: stable and debt fall
\* together, tokens held are the sum of positions, shares are backed by the assets
\* and the yield set last, and a pair the engine is told of has reserves.
VenueBooks ==
    /\ TypeOK
    /\ StableMatchesDebt /\ CollateralHeld
    /\ AssetsExplained /\ SharesAddUp
    /\ ConfiguredPairTrades

\* What the venue paid in this step.
Paid(order) ==
    IF venue = "mock-sparkdex" THEN swapEvent'.amountOut
    ELSE reserves[Other(order.tokenIn)] - reserves'[Other(order.tokenIn)]

\* However long an instruction waited and wherever the feeds went since, a swap
\* that executes it does so within the deadline and pays at least 99 percent, up
\* to rounding, of what the notional was worth at the prices the handler read.
SlippageBounded ==
    [][\A i \in DOMAIN instructions :
          LET order == instructions[i]
          IN  instructions' = Without(i)
                 /\ (swapEvent' \notin {swapEvent, NoSwap} \/ reserves' # reserves) =>
              /\ now <= order.deadline
              /\ (Paid(order) * 10000 + 19900) * order.priceOut
                    > 9900 * order.amountIn * order.priceIn]_vars

=============================================================================
