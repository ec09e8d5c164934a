---------------------------- MODULE MCVenueExecution ----------------------------
EXTENDS VenueExecution

CONSTANTS f1, f2

\* The owner's snapshots: one that leaves a price unset.
MCSnapshots == {<<0, 100>>}

\* Enough FXRP to match the USDT0, and too little.
MCSeedFunds == {[t \in FeedTokens |-> IF t = "FXRP" THEN fxrp ELSE 300] : fxrp \in {400, 120}}

Alone(direction, size) ==
    [direction |-> direction, sizePct |-> size, recipient |-> f1, followers |-> <<>>]

Fan(direction, size, shares) ==
    [direction |-> direction, sizePct |-> size, recipient |-> NoRecipient,
     followers |-> [i \in DOMAIN shares |->
                       [address |-> IF i % 2 = 0 THEN f1 ELSE f2, allocationBps |-> shares[i]]]]

\* Halves of an odd notional, a share that rounds to nothing, one that is
\* negative, and a signal with nobody to trade for.
MCSignals ==
    {Fan("SELL", 5000, <<5000, 5000>>), Fan("BUY", 5000, <<10000, 10>>),
     Fan("SELL", 5000, <<10000, -10000>>), [Alone("SELL", 5000) EXCEPT !.recipient = NoRecipient]}
=============================================================================
