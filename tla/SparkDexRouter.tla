------------------------------ MODULE SparkDexRouter ------------------------------
(***************************************************************************)
(* contracts/src/mocks/MockSparkDexRouter.sol and AnchorDivergenceGuard.sol *)
(* A swap is priced by the feeds of its own block.  A large one is refused  *)
(* when its input's price has left the anchor, a snapshot of both prices    *)
(* that the swaps themselves renew once it is ANCHOR_INTERVAL old.          *)
(***************************************************************************)
EXTENDS PriceFeeds

CONSTANTS AnchorInterval,    \* ANCHOR_INTERVAL, in ticks
          NotionalThreshold, \* notionalThresholdWei
          MaxDivergence,     \* maxDivergenceBps
          Snapshots          \* <<FXRP price, USDT0 price>> the owner may set

ASSUME RouterAssumption ==
    /\ AnchorInterval \in Nat \ {0}
    /\ {NotionalThreshold, MaxDivergence} \subseteq Nat
    /\ Snapshots \subseteq Nat \X Nat

VARIABLES anchor,      \* lastAnchorFxrpWei, lastAnchorUsdt0Wei
          anchorTs,    \* lastAnchorTimestamp
          swapEvent,   \* the Swap event of the last swap in this block
          largePrice   \* history: the input's price, when the anchor was last
                       \* touched by a large swap of that input, else 0

routerVars == <<anchor, anchorTs, swapEvent, largePrice>>

NoSwap == [tokenIn |-> "none"]

RouterTypeOK ==
    /\ anchor \in [FeedTokens -> Nat]
    /\ anchorTs \in Nat
    /\ swapEvent = NoSwap \/ swapEvent \in
          [tokenIn : FeedTokens, amountIn : Nat, amountOut : Nat, exactOut : BOOLEAN]
    /\ largePrice \in [FeedTokens -> Nat]

Unanchored == [t \in FeedTokens |-> 0]

\* As 03-deploy-venue.ts constructs it, with no anchor yet.
RouterInit ==
    /\ anchor = Unanchored
    /\ anchorTs = 0
    /\ swapEvent = NoSwap
    /\ largePrice = Unanchored

\* The feeds and the clock move between blocks.
NextBlock ==
    /\ FeedNext
    /\ swapEvent' = NoSwap
    /\ UNCHANGED <<anchor, anchorTs, largePrice>>

Other(t) == IF t = "FXRP" THEN "USDT0" ELSE "FXRP"

\* The pair of prices is as old as the older of the two.
OldestTs == IF priceTs["FXRP"] < priceTs["USDT0"] THEN priceTs["FXRP"] ELSE priceTs["USDT0"]

\* The first swap takes the spot prices for its anchor.
AnchorNow == IF anchorTs = 0 THEN price ELSE anchor
AnchorAge == IF anchorTs = 0 THEN OldestTs ELSE anchorTs

Distance(p, q) == IF p >= q THEN p - q ELSE q - p

Large(tokenIn, amount) == (amount * price[tokenIn]) \div PriceOne >= NotionalThreshold

\* Mutant: the difference is taken in whole prices.
CheckLoosely(tokenIn, amount, reference) ==
    Large(tokenIn, amount) => reference # 0 /\ Distance(price[tokenIn], reference) \div reference <= MaxDivergence

\* checkDivergence
CheckDivergence(tokenIn, amount, reference) ==
    Large(tokenIn, amount) =>
        /\ reference # 0
        /\ (Distance(price[tokenIn], reference) * 10000) \div reference <= MaxDivergence

\* _spotAndGuard: the guard sees the anchor the swap found, then the swap renews
\* it, guarded or not.
SpotAndGuard(tokenIn, amount) ==
    LET renew == OldestTs >= AnchorAge + AnchorInterval
    IN  /\ CheckDivergence(tokenIn, amount, AnchorNow[tokenIn])
        /\ anchor' = IF renew THEN price ELSE AnchorNow
        /\ anchorTs' = IF renew THEN OldestTs ELSE AnchorAge

\* amount is what the guard measures: for an exact output it is the output.
Swapped(tokenIn, amount, event) ==
    /\ SpotAndGuard(tokenIn, amount)
    /\ swapEvent' = event
    /\ largePrice' = [Unanchored EXCEPT ![tokenIn] = IF Large(tokenIn, amount)
                                                     THEN price[tokenIn] ELSE 0]

QuoteExactInput(tokenIn, amountIn) == (amountIn * price[tokenIn]) \div price[Other(tokenIn)]

\* Mutant: the input is priced by the anchor.
QuoteOutputByAnchor(tokenIn, amountOut) == (amountOut * AnchorNow[Other(tokenIn)]) \div price[tokenIn]

QuoteExactOutput(tokenIn, amountOut) == (amountOut * price[Other(tokenIn)]) \div price[tokenIn]

ExactInputSingle(tokenIn, amountIn, minimum, deadline) ==
    /\ now <= deadline
    /\ amountIn # 0
    /\ price[Other(tokenIn)] # 0
    /\ QuoteExactInput(tokenIn, amountIn) >= minimum
    /\ Swapped(tokenIn, amountIn,
               [tokenIn |-> tokenIn, amountIn |-> amountIn, exactOut |-> FALSE,
                amountOut |-> QuoteExactInput(tokenIn, amountIn)])

ExactOutputSingle(tokenIn, amountOut, maximum, deadline) ==
    LET amountIn == QuoteExactOutput(tokenIn, amountOut)
    IN  /\ now <= deadline
        /\ amountOut # 0
        /\ price[tokenIn] # 0
        /\ amountIn # 0 /\ amountIn <= maximum
        /\ Swapped(tokenIn, amountOut,
                   [tokenIn |-> tokenIn, amountIn |-> amountIn, exactOut |-> TRUE,
                    amountOut |-> amountOut])

\* setAnchorSnapshot, with the owner's clock
SetAnchorSnapshot(snapshot, ts) ==
    /\ anchor' = [t \in FeedTokens |-> IF t = "FXRP" THEN snapshot[1] ELSE snapshot[2]]
    /\ anchorTs' = ts
    /\ largePrice' = Unanchored
    /\ UNCHANGED swapEvent

\* Anybody swaps any amount; the owner sets any snapshot with a time.
RouterCall ==
    \/ \E t \in FeedTokens, amount, limit, deadline \in Nat :
          \/ ExactInputSingle(t, amount, limit, deadline)
          \/ ExactOutputSingle(t, amount, limit, deadline)
    \/ \E s \in Snapshots, ts \in Nat : SetAnchorSnapshot(s, ts)

RouterSpec ==
    /\ FeedInit /\ RouterInit
    /\ [][NextBlock \/ (RouterCall /\ UNCHANGED feedVars)]_<<feedVars, routerVars>>

-----------------------------------------------------------------------------
(* Properties. *)

\* No swap leaves an anchor behind that is a whole interval older than the feeds:
\* the price large swaps are measured by cannot go stale while anybody trades.
SwapsRenewAnchor ==
    [][swapEvent' \notin {swapEvent, NoSwap} => OldestTs < anchorTs' + AnchorInterval]_routerVars

\* Two large sales of one token, with no other swap and no snapshot of the owner
\* in between, happen at prices at most two tolerances apart, however often the
\* feeds move and the anchor is renewed meanwhile: the renewal comes after the
\* check, never before it.
LargeSwapsStayClose ==
    [][\A t \in FeedTokens :
          largePrice[t] # 0 /\ largePrice'[t] # 0 =>
              Distance(largePrice'[t], largePrice[t]) * 10000
                  < 2 * (MaxDivergence + 1) * AnchorNow[t]]_routerVars

\* A swap never pays out more than it takes at the prices of its block, except for
\* the rounding of an exact output, which costs less than one unit of the input.
ValueKept ==
    [][swapEvent' \notin {swapEvent, NoSwap} =>
          LET in  == swapEvent'.amountIn * price[swapEvent'.tokenIn]
              out == swapEvent'.amountOut * price[Other(swapEvent'.tokenIn)]
          IN  out < in + (IF swapEvent'.exactOut THEN price[swapEvent'.tokenIn] ELSE 1)]_routerVars

=============================================================================
