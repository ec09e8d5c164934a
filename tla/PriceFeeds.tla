------------------------------- MODULE PriceFeeds -------------------------------
(***************************************************************************)
(* contracts/src/FtsoPriceReader.sol and mocks/MockPriceSource.sol: the two *)
(* block-latency feeds everybody prices by.  Each moves on its own, so two  *)
(* reads in different blocks may return prices that never stood together.  *)
(***************************************************************************)
EXTENDS VenueParties

CONSTANTS FxrpPrices, Usdt0Prices,  \* what the feeds may show
          MaxTime                   \* bound: ticks of the clock

FeedTokens == {"FXRP", "USDT0"}

ASSUME FeedAssumption ==
    /\ PriceOne \in FxrpPrices \cap Usdt0Prices
    /\ FxrpPrices \cup Usdt0Prices \subseteq Nat
    /\ MaxTime \in Nat

VARIABLES price,    \* valueWei of each feed
          priceTs,  \* timestamp of each feed
          now       \* block.timestamp and the handler's clock

feedVars == <<price, priceTs, now>>

FeedTypeOK ==
    /\ price \in [FeedTokens -> Nat]
    /\ priceTs \in [FeedTokens -> Nat]
    /\ now \in Nat

FeedInit ==
    /\ price = [t \in FeedTokens |-> PriceOne]
    /\ priceTs = [t \in FeedTokens |-> 1]
    /\ now = 1

\* A data provider round: the value may stay, the timestamp moves.
UpdateFeed(t, value) ==
    /\ price' = [price EXCEPT ![t] = value]
    /\ priceTs' = [priceTs EXCEPT ![t] = now]
    /\ UNCHANGED now

Tick ==
    /\ now < MaxTime
    /\ now' = now + 1
    /\ UNCHANGED <<price, priceTs>>

FeedNext ==
    \/ \E value \in FxrpPrices : UpdateFeed("FXRP", value)
    \/ \E value \in Usdt0Prices : UpdateFeed("USDT0", value)
    \/ Tick

=============================================================================
