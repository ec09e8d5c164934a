------------------------------- MODULE MatchSizing -------------------------------
(***************************************************************************)
(* fce-matching-engine/typescript/src/app/handlers.ts: what MATCH_V1 makes  *)
(* of a decrypted signal.  Every follower gets a share of a capped notional *)
(* and one instruction; one share that cannot be priced fails them all.     *)
(***************************************************************************)
EXTENDS Integers

CONSTANTS SwapCap,  \* notionalCapWei: 10^24 whatever the token's decimals
          MockCap,  \* notionalCap of the mock venues, in 6 decimals
          Window    \* the 300 seconds of a deadline, in ticks

ASSUME SizingAssumption == {SwapCap, MockCap, Window} \subseteq Nat

\* BigInt division rounds towards zero.
Truncated(n, d) == IF n >= 0 THEN n \div d ELSE -((-n) \div d)

BaseNotional(cap, sizePct) == (cap * sizePct) \div 10000

Notional(base, bps) == Truncated(base * bps, 10000)

\* A signal without followers is for its recipient alone, with all of the base.
Targets(signal) ==
    IF signal.followers # <<>> THEN signal.followers
    ELSE <<[address |-> signal.recipient, allocationBps |-> 10000]>>

NoRecipient == "none"

\* Followers make the recipient unnecessary, and the other way round.
HasTargets(signal) == signal.followers # <<>> \/ signal.recipient # NoRecipient

ValidSwapSignal(signal) ==
    /\ signal.sizePct > 0
    /\ HasTargets(signal)
    /\ \A i \in DOMAIN signal.followers : signal.followers[i].allocationBps > 0

TokenIn(direction) == IF direction = "BUY" THEN "USDT0" ELSE "FXRP"

ExpectedOut(amountIn, priceIn, priceOut) == (amountIn * priceIn) \div priceOut

\* Mutant: the minimum is taken of the input.
MinimumOfInput(amountIn, priceIn, priceOut) == (amountIn * 9900) \div 10000

AmountOutMinimum(amountIn, priceIn, priceOut) ==
    (ExpectedOut(amountIn, priceIn, priceOut) * 9900) \div 10000

\* What each target gets, but for those whose share rounds to nothing.
Shares(signal, cap) ==
    LET base   == BaseNotional(cap, signal.sizePct)
        size(i) == Notional(base, Targets(signal)[i].allocationBps)
    IN  [i \in {i \in DOMAIN Targets(signal) : size(i) # 0} |->
            [recipient |-> Targets(signal)[i].address, amountIn |-> size(i)]]

\* The instructions of an answer, by the position of their target; an error, or a
\* throw, answers with none.
SwapInstructions(signal, fxrp, usdt0, clock) ==
    LET tokenIn  == TokenIn(signal.direction)
        priceIn  == IF tokenIn = "FXRP" THEN fxrp ELSE usdt0
        priceOut == IF tokenIn = "FXRP" THEN usdt0 ELSE fxrp
        shares   == Shares(signal, SwapCap)
        builds   == [i \in DOMAIN shares |->
            [recipient |-> shares[i].recipient, amountIn |-> shares[i].amountIn, tokenIn |-> tokenIn,
             priceIn |-> priceIn, priceOut |-> priceOut, deadline |-> clock + Window,
             minimum |-> AmountOutMinimum(shares[i].amountIn, priceIn, priceOut)]]
    IN  IF fxrp = 0 \/ usdt0 = 0 \/ (\E i \in DOMAIN builds : builds[i].minimum = 0)
        THEN <<>> ELSE builds

\* The mock venues take the allocations as they come: a negative one throws when
\* it is encoded as a uint256.
MockInstructions(signal) ==
    LET shares == Shares(signal, MockCap)
    IN  IF \/ signal.sizePct <= 0 \/ ~HasTargets(signal)
           \/ \E i \in DOMAIN shares : shares[i].amountIn < 0
        THEN <<>> ELSE shares

=============================================================================
