------------------------------ MODULE BlazeSwapPool ------------------------------
(***************************************************************************)
(* scripts/venues/seed-blazeswap-pool.ts: the script that creates and seeds *)
(* the BlazeSwap pair, tries one swap and only then names the pair in the   *)
(* configuration.  It awaits a receipt or a read at every step, may die at  *)
(* any of them, and is then run again from the start.  The pair is a        *)
(* Uniswap V2 pair.                                                         *)
(***************************************************************************)
EXTENDS PriceFeeds

CONSTANTS SeedTarget,  \* 10 000 USDT0
          SwapUnit,    \* one USDT0
          SeedFunds,   \* what the deployer may own of each token
          MaxRuns,     \* bound: runs of the script
          MaxPairSwaps \* bound: swaps on the pair

ASSUME SeedAssumption ==
    /\ {SeedTarget, SwapUnit, MaxRuns, MaxPairSwaps} \subseteq Nat
    /\ SeedFunds \subseteq [FeedTokens -> Nat]

VARIABLES script,      \* the step the running script has reached
          seedPrice,   \* fxrpUsd and usdtUsd as the script read them
          desired,     \* usdtDesired and fxrpUse
          seedRuns,    \* runs so far, for the bound
          funds,       \* the deployer's tokens
          pairCreated,
          reserves,    \* of the pair
          pairSwaps,   \* swaps so far, for the bound
          configured   \* cfg.blazeSwapPair names the pair

scriptVars == <<script, seedPrice, desired, seedRuns>>
pairVars   == <<pairCreated, reserves, pairSwaps>>
poolVars   == <<scriptVars, pairVars, funds, configured>>

ScriptSteps == {"idle", "pair", "fxrpPrice", "prices", "sized", "approved", "seeded",
                "funded", "swapped"}

Nothing == [t \in FeedTokens |-> 0]

PoolTypeOK ==
    /\ script \in ScriptSteps
    /\ seedPrice \in [FeedTokens -> Nat]
    /\ desired \in [FeedTokens -> Nat]
    /\ seedRuns \in Nat
    /\ funds \in [FeedTokens -> Nat]
    /\ pairCreated \in BOOLEAN
    /\ reserves \in [FeedTokens -> Nat]
    /\ pairSwaps \in Nat
    /\ configured \in BOOLEAN

PoolInit ==
    /\ script = "idle"
    /\ seedPrice = Nothing
    /\ desired = Nothing
    /\ seedRuns = 0
    /\ funds \in SeedFunds
    /\ pairCreated = FALSE
    /\ reserves = Nothing
    /\ pairSwaps = 0
    /\ configured = FALSE

At(step, next) == script = step /\ script' = next

\* The process ends and what it read is gone.
EndSeed ==
    /\ script' = "idle"
    /\ seedPrice' = Nothing
    /\ desired' = Nothing

Smaller(m, n) == IF m < n THEN m ELSE n

-----------------------------------------------------------------------------
(* The pair. *)

\* What the pair pays for amountIn: constant product after a fee of 0.3 percent.
PairQuote(tokenIn, amountIn) ==
    LET tokenOut == IF tokenIn = "FXRP" THEN "USDT0" ELSE "FXRP"
    IN  (amountIn * 997 * reserves[tokenOut]) \div (reserves[tokenIn] * 1000 + amountIn * 997)

PairSwap(tokenIn, amountIn, minimum) ==
    LET tokenOut == IF tokenIn = "FXRP" THEN "USDT0" ELSE "FXRP"
        out      == PairQuote(tokenIn, amountIn)
    IN  /\ pairSwaps < MaxPairSwaps
        /\ pairSwaps' = pairSwaps + 1
        /\ amountIn > 0
        /\ reserves["FXRP"] > 0 /\ reserves["USDT0"] > 0
        /\ out > 0 /\ out >= minimum
        /\ reserves' = [reserves EXCEPT ![tokenIn] = @ + amountIn, ![tokenOut] = @ - out]
        /\ UNCHANGED pairCreated

\* The router's addLiquidity: all of one token, and of the other what keeps the
\* ratio of a pair that has reserves, each at least 90 percent of what was desired.
Liquidity ==
    LET matching(t, other) == (desired[t] * reserves[other]) \div reserves[t]
        fxrp == matching("USDT0", "FXRP")
    IN  IF reserves = Nothing THEN desired
        ELSE IF fxrp <= desired["FXRP"] THEN [desired EXCEPT !["FXRP"] = fxrp]
        ELSE [desired EXCEPT !["USDT0"] = matching("FXRP", "USDT0")]

-----------------------------------------------------------------------------
(* The script. *)

\* createPair, when the factory knows none
StartSeed ==
    /\ At("idle", "pair")
    /\ seedRuns < MaxRuns
    /\ seedRuns' = seedRuns + 1
    /\ pairCreated' = TRUE
    /\ UNCHANGED <<seedPrice, desired, reserves, pairSwaps, funds, configured>>

ReadSeedPrice(step, next, t) ==
    /\ At(step, next)
    /\ seedPrice' = [seedPrice EXCEPT ![t] = price[t]]
    /\ UNCHANGED <<desired, seedRuns, pairVars, funds, configured>>

\* Mutant: the prices are swapped.
ScaledInverted(usdt0) == (usdt0 * seedPrice["FXRP"]) \div seedPrice["USDT0"]

\* fxrpDesired: the FXRP that is worth as much as the USDT0 at the prices read
Scaled(usdt0) == (usdt0 * seedPrice["USDT0"]) \div seedPrice["FXRP"]

SizeSeed ==
    LET usdt0 == IF funds["USDT0"] < SeedTarget THEN funds["USDT0"] \div 2 ELSE SeedTarget
        half  == funds["FXRP"] \div 2
        fxrp  == IF seedPrice["USDT0"] = 0 \/ seedPrice["FXRP"] = 0 THEN half
                 ELSE Smaller(Scaled(usdt0), half)
    IN  /\ usdt0 # 0 /\ fxrp # 0
        /\ At("prices", "sized")
        /\ desired' = [t \in FeedTokens |-> IF t = "FXRP" THEN fxrp ELSE usdt0]
        /\ UNCHANGED <<seedPrice, seedRuns, pairVars, funds, configured>>

\* Both approvals; an allowance is set to the amount, so a rerun renews it.
ApproveSeed ==
    /\ At("sized", "approved")
    /\ UNCHANGED <<seedPrice, desired, seedRuns, pairVars, funds, configured>>

AddLiquidity ==
    /\ At("approved", "seeded")
    /\ \A t \in FeedTokens : Liquidity[t] >= (desired[t] * 90) \div 100
    /\ \A t \in FeedTokens : Liquidity[t] <= funds[t] /\ Liquidity[t] > 0
    /\ reserves' = [t \in FeedTokens |-> reserves[t] + Liquidity[t]]
    /\ funds' = [t \in FeedTokens |-> funds[t] - Liquidity[t]]
    /\ UNCHANGED <<seedPrice, desired, seedRuns, pairCreated, pairSwaps, configured>>

SwapIn == IF funds["USDT0"] > SwapUnit THEN SwapUnit ELSE funds["USDT0"] \div 10

\* The balance left sizes the trial swap, and its allowance.
ApproveTrial ==
    /\ SwapIn # 0
    /\ At("seeded", "funded")
    /\ UNCHANGED <<seedPrice, desired, seedRuns, pairVars, funds, configured>>

TrialSwap ==
    /\ At("funded", "swapped")
    /\ PairSwap("USDT0", SwapIn, 1)
    /\ funds' = [funds EXCEPT !["USDT0"] = @ - SwapIn,
                              !["FXRP"] = @ + PairQuote("USDT0", SwapIn)]
    /\ UNCHANGED <<seedPrice, desired, seedRuns, configured>>

WriteConfig ==
    /\ script = "swapped" /\ EndSeed
    /\ configured' = TRUE
    /\ UNCHANGED <<seedRuns, pairVars, funds>>

\* A revert, a failed read, amounts of zero or the operator end the run where it is.
SeedDies ==
    /\ script # "idle" /\ EndSeed
    /\ UNCHANGED <<seedRuns, pairVars, funds, configured>>

SeedNext ==
    \/ StartSeed
    \/ ReadSeedPrice("pair", "fxrpPrice", "FXRP")
    \/ ReadSeedPrice("fxrpPrice", "prices", "USDT0")
    \/ SizeSeed \/ ApproveSeed \/ AddLiquidity
    \/ ApproveTrial \/ TrialSwap
    \/ WriteConfig
    \/ SeedDies

-----------------------------------------------------------------------------
(* Properties. *)

\* The configuration names the pair only once it has reserves of both tokens,
\* whichever runs died before, and wherever.
ConfiguredPairTrades == configured => pairCreated /\ \A t \in FeedTokens : reserves[t] > 0

\* The first liquidity is worth the same on both sides at the prices the script
\* read, if neither was zero, up to the rounding of one unit, unless the deployer lacks
\* FXRP for it: then there is less of it and FXRP starts out dearer on the pair than
\* on the feeds.
SeededAtFeedPrice ==
    [][reserves = Nothing /\ reserves' # Nothing /\ 0 \notin {seedPrice["FXRP"], seedPrice["USDT0"]} =>
          LET fxrp == reserves'["FXRP"] * seedPrice["FXRP"]
              usdt == reserves'["USDT0"] * seedPrice["USDT0"]
          IN  /\ fxrp <= usdt
              /\ fxrp + seedPrice["FXRP"] > usdt \/ reserves'["FXRP"] = funds["FXRP"] \div 2]_poolVars

=============================================================================
