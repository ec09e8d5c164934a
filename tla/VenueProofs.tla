------------------------------ MODULE VenueProofs ------------------------------
(***************************************************************************)
(* Proofs about the venues: the router and its price anchor, the pair and  *)
(* the script that seeds it, the contracts that lend and share, each by    *)
(* itself and for any amounts, and the execution of matches on them.       *)
(***************************************************************************)
EXTENDS VenueExecution, SumProofs

-----------------------------------------------------------------------------
(* SparkDexRouter. *)

\* Since the last large swap of t the anchor has been one that the swap was measured
\* by, or the swap's own prices: either way the tolerance holds between them.
NearAnchor(t) ==
    largePrice[t] # 0 =>
        /\ anchorTs # 0
        /\ Distance(largePrice[t], anchor[t]) * 10000 < (MaxDivergence + 1) * anchor[t]

\* Timestamps are never zero, so a zero anchorTs means that there is no anchor yet.
RouterInv ==
    /\ FeedTypeOK
    /\ now # 0 /\ \A t \in FeedTokens : priceTs[t] # 0
    /\ anchor \in [FeedTokens -> Nat]
    /\ anchorTs \in Nat
    /\ largePrice \in [FeedTokens -> Nat]
    /\ \A t \in FeedTokens : NearAnchor(t)

routerAllVars == <<feedVars, routerVars>>

RouterStep == NextBlock \/ (RouterCall /\ UNCHANGED feedVars)

LEMMA RouterInitInv == FeedInit /\ RouterInit => RouterInv
  BY PartiesAssumption DEF FeedInit, RouterInit, RouterInv, FeedTypeOK, Unanchored, NearAnchor

LEMMA RouterStutterInv == RouterInv /\ UNCHANGED routerAllVars => RouterInv'
  BY DEF RouterInv, FeedTypeOK, NearAnchor, routerAllVars, feedVars, routerVars

LEMMA UpdateFeedInv ==
  ASSUME NEW t \in FeedTokens, NEW value \in Nat, RouterInv, UpdateFeed(t, value),
         UNCHANGED <<anchor, anchorTs, largePrice>>
  PROVE  RouterInv'
  BY DEF RouterInv, FeedTypeOK, NearAnchor, UpdateFeed

LEMMA NextBlockInv == RouterInv /\ NextBlock => RouterInv'
  <1> SUFFICES ASSUME RouterInv, NextBlock PROVE RouterInv'
    OBVIOUS
  <1>1. /\ FxrpPrices \subseteq Nat /\ Usdt0Prices \subseteq Nat
        /\ "FXRP" \in FeedTokens /\ "USDT0" \in FeedTokens
    BY FeedAssumption DEF FeedTokens
  <1>2. FeedNext /\ UNCHANGED <<anchor, anchorTs, largePrice>>
    BY DEF NextBlock
  <1>3. CASE Tick
    BY <1>2, <1>3 DEF RouterInv, FeedTypeOK, NearAnchor, Tick
  <1>4. QED
    BY <1>1, <1>2, <1>3, UpdateFeedInv DEF FeedNext

-----------------------------------------------------------------------------
(* One swap. *)

\* The tolerance, with the code's division cleared.
LEMMA ToleranceCleared ==
  ASSUME NEW d \in Nat, NEW r \in Nat \ {0}, (d * 10000) \div r <= MaxDivergence
  PROVE  d * 10000 < (MaxDivergence + 1) * r
  <1> DEFINE q == (d * 10000) \div r
  <1>1. d * 10000 \in Nat
    OBVIOUS
  <1>2. q \in Nat /\ d * 10000 < r * q + r
    BY <1>1, DivBounds
  <1>3. q <= MaxDivergence
    OBVIOUS
  <1> HIDE DEF q
  <1>4. MaxDivergence \in Nat
    BY RouterAssumption
  <1>5. q * r <= MaxDivergence * r
    BY <1>2, <1>3, <1>4, ProductMono
  <1>6. /\ (MaxDivergence + 1) * r = MaxDivergence * r + r
        /\ q * r = r * q /\ q * r \in Nat /\ MaxDivergence * r \in Nat
    BY <1>2, <1>4
  <1>7. QED
    BY <1>1, <1>2, <1>5, <1>6

LEMMA SwapFacts ==
  ASSUME NEW t \in FeedTokens, NEW amount \in Nat, NEW event, RouterInv,
         Swapped(t, amount, event)
  PROVE  /\ OldestTs \in Nat \ {0} /\ AnchorAge \in Nat \ {0}
         /\ AnchorNow \in [FeedTokens -> Nat]
         /\ \/ anchor' = price /\ anchorTs' = OldestTs
            \/ anchor' = AnchorNow /\ anchorTs' = AnchorAge /\ OldestTs < AnchorAge + AnchorInterval
         /\ largePrice' \in [FeedTokens -> Nat]
         /\ \A u \in FeedTokens \ {t} : largePrice'[u] = 0
         /\ largePrice'[t] # 0 =>
               /\ largePrice'[t] = price[t]
               /\ Distance(price[t], AnchorNow[t]) * 10000 < (MaxDivergence + 1) * AnchorNow[t]
  <1>1. OldestTs \in Nat \ {0}
    BY DEF OldestTs, RouterInv, FeedTypeOK, FeedTokens
  <1>2. AnchorAge \in Nat \ {0} /\ AnchorNow \in [FeedTokens -> Nat]
    BY <1>1 DEF AnchorAge, AnchorNow, RouterInv, FeedTypeOK
  <1>3. \/ anchor' = price /\ anchorTs' = OldestTs
        \/ anchor' = AnchorNow /\ anchorTs' = AnchorAge /\ OldestTs < AnchorAge + AnchorInterval
    <2>1. OldestTs >= AnchorAge + AnchorInterval \/ OldestTs < AnchorAge + AnchorInterval
      BY <1>1, <1>2, RouterAssumption
    <2>2. QED
      BY <1>1, <1>2, <2>1, RouterAssumption DEF Swapped, SpotAndGuard
  <1>4. /\ price[t] \in Nat
        /\ largePrice' = [Unanchored EXCEPT ![t] = IF Large(t, amount) THEN price[t] ELSE 0]
        /\ CheckDivergence(t, amount, AnchorNow[t])
    BY DEF Swapped, SpotAndGuard, RouterInv, FeedTypeOK
  <1>5. /\ largePrice' \in [FeedTokens -> Nat]
        /\ \A u \in FeedTokens \ {t} : largePrice'[u] = 0
        /\ largePrice'[t] # 0 => largePrice'[t] = price[t] /\ Large(t, amount)
    BY <1>4 DEF Unanchored
  <1>6. ASSUME Large(t, amount)
        PROVE  Distance(price[t], AnchorNow[t]) * 10000 < (MaxDivergence + 1) * AnchorNow[t]
    <2> DEFINE r == AnchorNow[t]
               d == Distance(price[t], r)
    <2>1. r \in Nat \ {0} /\ (d * 10000) \div r <= MaxDivergence
      BY <1>2, <1>4, <1>6 DEF CheckDivergence
    <2>2. d \in Nat
      <3> HIDE DEF r
      <3> QED BY <1>4, <2>1 DEF Distance
    <2> HIDE DEF r, d
    <2>3. d * 10000 < (MaxDivergence + 1) * r
      BY <2>1, <2>2, ToleranceCleared
    <2>4. QED
      BY <2>3 DEF r, d
  <1>7. QED
    BY <1>1, <1>2, <1>3, <1>5, <1>6

\* After a large swap its price is near the anchor, the old one or the new.
LEMMA SwapInv ==
  ASSUME NEW t \in FeedTokens, NEW amount \in Nat, NEW event, RouterInv,
         Swapped(t, amount, event), UNCHANGED feedVars
  PROVE  RouterInv'
  <1>1. /\ FeedTypeOK' /\ now' # 0 /\ \A u \in FeedTokens : priceTs'[u] # 0
        /\ price \in [FeedTokens -> Nat]
    BY DEF RouterInv, FeedTypeOK, feedVars
  <1>2. anchor' \in [FeedTokens -> Nat] /\ anchorTs' \in Nat \ {0}
    BY <1>1, SwapFacts
  <1>3. NearAnchor(t)'
    <2>1. SUFFICES ASSUME largePrice'[t] # 0
                   PROVE  Distance(largePrice'[t], anchor'[t]) * 10000
                             < (MaxDivergence + 1) * anchor'[t]
      BY <1>2 DEF NearAnchor, Distance
    <2>2. largePrice'[t] = price[t] /\ price[t] \in Nat \ {0}
      BY <1>1, <2>1, SwapFacts
    <2>3. CASE anchor' = price
      <3>1. Distance(price[t], price[t]) = 0
        BY <2>2 DEF Distance
      <3>2. (MaxDivergence + 1) * price[t] > 0
        BY <2>2, RouterAssumption
      <3>3. QED
        BY <2>2, <2>3, <3>1, <3>2
    <2>4. CASE anchor' = AnchorNow
      BY <2>1, <2>2, <2>4, SwapFacts
    <2>5. QED
      BY <2>3, <2>4, SwapFacts
  <1>4. ASSUME NEW u \in FeedTokens \ {t} PROVE NearAnchor(u)'
    BY SwapFacts DEF NearAnchor
  <1>5. QED
    BY <1>1, <1>2, <1>3, <1>4, SwapFacts DEF RouterInv

LEMMA SnapshotInv ==
  ASSUME NEW s \in Snapshots, NEW ts \in Nat, RouterInv, SetAnchorSnapshot(s, ts),
         UNCHANGED feedVars
  PROVE  RouterInv'
  <1>1. s[1] \in Nat /\ s[2] \in Nat
    BY RouterAssumption
  <1>2. QED
    BY <1>1 DEF RouterInv, FeedTypeOK, NearAnchor, SetAnchorSnapshot, Unanchored, feedVars

\* A call is a swap of some amount that the guard measured, or a snapshot.
LEMMA CallCases ==
  ASSUME RouterCall
  PROVE  \/ \E t \in FeedTokens, amount \in Nat :
               \E limit, deadline \in Nat :
                  \/ ExactInputSingle(t, amount, limit, deadline)
                  \/ ExactOutputSingle(t, amount, limit, deadline)
         \/ \E s \in Snapshots, ts \in Nat : SetAnchorSnapshot(s, ts)
  BY Zenon DEF RouterCall

LEMMA RouterNextInv == RouterInv /\ [RouterStep]_routerAllVars => RouterInv'
  <1> SUFFICES ASSUME RouterInv, RouterCall, UNCHANGED feedVars PROVE RouterInv'
    BY NextBlockInv, RouterStutterInv DEF RouterStep
  <1>1. ASSUME NEW t \in FeedTokens, NEW amount \in Nat, NEW limit \in Nat, NEW deadline \in Nat,
               \/ ExactInputSingle(t, amount, limit, deadline)
               \/ ExactOutputSingle(t, amount, limit, deadline)
        PROVE  RouterInv'
    <2>1. \E event : Swapped(t, amount, event)
      BY <1>1, Zenon DEF ExactInputSingle, ExactOutputSingle
    <2>2. QED
      BY <2>1, SwapInv
  <1>2. ASSUME NEW s \in Snapshots, NEW ts \in Nat, SetAnchorSnapshot(s, ts)
        PROVE  RouterInv'
    BY <1>2, SnapshotInv
  <1>3. QED
    BY <1>1, <1>2, CallCases

-----------------------------------------------------------------------------
(* The theorems. *)

LEMMA RouterInvariant == RouterSpec => []RouterInv
  BY RouterInitInv, RouterNextInv, PTL DEF RouterSpec, routerAllVars, RouterStep

\* The swaps among the steps, with the event that they emit.
LEMMA StepCases ==
  ASSUME [RouterStep]_routerAllVars
  PROVE  \/ UNCHANGED routerVars
         \/ swapEvent' = NoSwap /\ UNCHANGED <<anchor, anchorTs, largePrice>>
         \/ swapEvent' = swapEvent /\ largePrice' = Unanchored
         \/ \E t \in FeedTokens, amount \in Nat :
               \E limit, deadline \in Nat :
                  \/ ExactInputSingle(t, amount, limit, deadline)
                  \/ ExactOutputSingle(t, amount, limit, deadline)
  <1>1. CASE NextBlock
    BY <1>1 DEF NextBlock
  <1>2. CASE RouterCall
    <2>1. ASSUME NEW s \in Snapshots, NEW ts \in Nat, SetAnchorSnapshot(s, ts)
          PROVE  swapEvent' = swapEvent /\ largePrice' = Unanchored
      BY <2>1 DEF SetAnchorSnapshot
    <2>2. QED
      BY <1>2, <2>1, CallCases
  <1>3. CASE UNCHANGED routerAllVars
    BY <1>3 DEF routerAllVars
  <1>4. QED
    BY <1>1, <1>2, <1>3 DEF RouterStep

LEMMA SwapOfCall ==
  ASSUME NEW t \in FeedTokens, NEW amount \in Nat, NEW limit \in Nat, NEW deadline \in Nat,
         \/ ExactInputSingle(t, amount, limit, deadline)
         \/ ExactOutputSingle(t, amount, limit, deadline)
  PROVE  \E event : Swapped(t, amount, event)
  BY Zenon DEF ExactInputSingle, ExactOutputSingle

\* SwapsRenewAnchor: no swap leaves an anchor that is an interval older than the
\* feeds, for any interval above zero, any amounts and any snapshots in between.
THEOREM AnchorStaysFresh == RouterSpec => SwapsRenewAnchor
  <1> DEFINE Fresh == swapEvent' \notin {swapEvent, NoSwap} => OldestTs < anchorTs' + AnchorInterval
  <1>1. RouterInv /\ [RouterStep]_routerAllVars => [Fresh]_routerVars
    <2> SUFFICES ASSUME RouterInv, [RouterStep]_routerAllVars,
                        swapEvent' \notin {swapEvent, NoSwap}
                 PROVE  OldestTs < anchorTs' + AnchorInterval
      OBVIOUS
    <2>1. PICK t \in FeedTokens, amount \in Nat :
             \E limit, deadline \in Nat :
                \/ ExactInputSingle(t, amount, limit, deadline)
                \/ ExactOutputSingle(t, amount, limit, deadline)
      BY StepCases DEF routerVars
    <2>2. PICK event : Swapped(t, amount, event)
      BY <2>1, SwapOfCall
    <2>3. /\ OldestTs \in Nat \ {0} /\ AnchorAge \in Nat \ {0}
          /\ \/ anchorTs' = OldestTs
             \/ anchorTs' = AnchorAge /\ OldestTs < AnchorAge + AnchorInterval
      BY <2>2, SwapFacts
    <2>4. QED
      BY <2>3, RouterAssumption
  <1>2. QED
    BY <1>1, RouterInvariant, PTL DEF RouterSpec, SwapsRenewAnchor, routerAllVars, RouterStep

\* LargeSwapsStayClose: two large sales of a token, with no other swap between
\* them, are at most two tolerances of the anchor apart, for any prices.
THEOREM LargeSwapsClose == RouterSpec => LargeSwapsStayClose
  <1> DEFINE Close == \A t \in FeedTokens :
                         largePrice[t] # 0 /\ largePrice'[t] # 0 =>
                             Distance(largePrice'[t], largePrice[t]) * 10000
                                 < 2 * (MaxDivergence + 1) * AnchorNow[t]
  <1>1. RouterInv /\ [RouterStep]_routerAllVars => [Close]_routerVars
    <2> SUFFICES ASSUME RouterInv, [RouterStep]_routerAllVars, ~UNCHANGED routerVars,
                        NEW t \in FeedTokens, largePrice[t] # 0, largePrice'[t] # 0
                 PROVE  Distance(largePrice'[t], largePrice[t]) * 10000
                            < 2 * (MaxDivergence + 1) * AnchorNow[t]
      OBVIOUS
    <2> DEFINE r == AnchorNow[t]
               m == (MaxDivergence + 1) * r
               p == largePrice'[t]
               q == largePrice[t]
    <2>1. /\ q \in Nat /\ r \in Nat /\ r = anchor[t]
          /\ Distance(q, r) * 10000 < m
      BY DEF RouterInv, NearAnchor, AnchorNow
    <2>2. m \in Nat /\ 2 * (MaxDivergence + 1) * r = 2 * m
      <3> HIDE DEF r
      <3> QED BY <2>1, RouterAssumption
    <2>3. p \in Nat /\ (p = q \/ Distance(p, r) * 10000 < m)
      <3>1. CASE largePrice' = largePrice
        BY <2>1, <3>1
      <3>2. CASE \E u \in FeedTokens, amount \in Nat :
                    \E limit, deadline \in Nat :
                       \/ ExactInputSingle(u, amount, limit, deadline)
                       \/ ExactOutputSingle(u, amount, limit, deadline)
        <4>1. PICK u \in FeedTokens, amount \in Nat : \E event : Swapped(u, amount, event)
          BY <3>2, SwapOfCall
        <4> PICK event : Swapped(u, amount, event)
          BY <4>1
        <4>2. u = t
          BY SwapFacts
        <4>3. /\ largePrice' \in [FeedTokens -> Nat]
              /\ p = price[t] /\ Distance(price[t], r) * 10000 < m
          BY <4>2, SwapFacts
        <4>4. QED
          BY <4>3
      <3>3. largePrice' # Unanchored
        BY DEF Unanchored
      <3>4. QED
        BY <3>1, <3>2, <3>3, StepCases
    <2>4. Distance(p, q) * 10000 < 2 * m
      <3> HIDE DEF p, q, r, m
      <3>1. p \in Nat /\ q \in Nat /\ r \in Nat
        BY <2>1, <2>3
      <3>2. /\ Distance(p, q) <= Distance(p, r) + Distance(q, r)
            /\ Distance(p, q) \in Nat /\ Distance(p, r) \in Nat /\ Distance(q, r) \in Nat
        BY <3>1 DEF Distance
      <3>3. CASE p = q
        <4>1. Distance(p, q) = 0
          BY <2>1, <3>3 DEF Distance
        <4>2. m > 0
          BY <2>1, <2>2, <3>2
        <4>3. QED
          BY <2>2, <4>1, <4>2
      <3>4. CASE Distance(p, r) * 10000 < m
        BY <2>1, <2>2, <3>2, <3>4
      <3>5. QED
        BY <2>3, <3>3, <3>4
    <2>5. QED
      BY <2>2, <2>4
  <1>2. QED
    BY <1>1, RouterInvariant, PTL DEF RouterSpec, LargeSwapsStayClose, routerAllVars, RouterStep

\* ValueKept: no swap pays out more than it takes at the prices of its block, but
\* for less than one unit of the input, for any prices and amounts.
THEOREM SwapsKeepValue == RouterSpec => ValueKept
  <1> DEFINE Payout ==
        swapEvent' \notin {swapEvent, NoSwap} =>
           LET in  == swapEvent'.amountIn * price[swapEvent'.tokenIn]
               out == swapEvent'.amountOut * price[Other(swapEvent'.tokenIn)]
           IN  out < in + (IF swapEvent'.exactOut THEN price[swapEvent'.tokenIn] ELSE 1)
  <1>1. RouterInv /\ [RouterStep]_routerAllVars => [Payout]_routerVars
    <2> SUFFICES ASSUME RouterInv, [RouterStep]_routerAllVars,
                        swapEvent' \notin {swapEvent, NoSwap}
                 PROVE  Payout
      OBVIOUS
    <2>1. PICK t \in FeedTokens, amount \in Nat, limit \in Nat, deadline \in Nat :
             \/ ExactInputSingle(t, amount, limit, deadline)
             \/ ExactOutputSingle(t, amount, limit, deadline)
      BY StepCases DEF routerVars
    <2> DEFINE pin == price[t]
               pout == price[Other(t)]
    <2>2. Other(t) \in FeedTokens
      BY DEF Other, FeedTokens
    <2>3. pin \in Nat /\ pout \in Nat
      BY <2>2 DEF RouterInv, FeedTypeOK
    <2>4. CASE ExactInputSingle(t, amount, limit, deadline)
      <3> DEFINE q == (amount * pin) \div pout
      <3>1. /\ swapEvent' = [tokenIn |-> t, amountIn |-> amount, exactOut |-> FALSE, amountOut |-> q]
            /\ pout # 0
        BY <2>4 DEF ExactInputSingle, Swapped, QuoteExactInput
      <3>2. q * pout < amount * pin + 1
        <4>1. amount * pin \in Nat
          BY <2>3
        <4>2. q \in Nat /\ pout * q <= amount * pin
          BY <2>3, <3>1, <4>1, DivBounds
        <4> HIDE DEF q, pin, pout
        <4>3. q * pout = pout * q
          BY <2>3, <4>2
        <4>4. QED
          BY <2>3, <4>1, <4>2, <4>3
      <3>3. /\ swapEvent'.amountIn = amount /\ swapEvent'.amountOut = q
            /\ swapEvent'.tokenIn = t /\ ~swapEvent'.exactOut
        BY <3>1
      <3>4. QED
        BY <3>2, <3>3
    <2>5. CASE ExactOutputSingle(t, amount, limit, deadline)
      <3> DEFINE q == (amount * pout) \div pin
      <3>1. /\ swapEvent' = [tokenIn |-> t, amountIn |-> q, exactOut |-> TRUE, amountOut |-> amount]
            /\ pin # 0
        BY <2>5 DEF ExactOutputSingle, Swapped, QuoteExactOutput
      <3>2. amount * pout < q * pin + pin
        <4>1. amount * pout \in Nat
          BY <2>3
        <4>2. q \in Nat /\ amount * pout < pin * q + pin
          BY <2>3, <3>1, <4>1, DivBounds
        <4> HIDE DEF q, pin, pout
        <4>3. q * pin = pin * q
          BY <2>3, <4>2
        <4>4. QED
          BY <2>3, <4>1, <4>2, <4>3
      <3>3. /\ swapEvent'.amountIn = q /\ swapEvent'.amountOut = amount
            /\ swapEvent'.tokenIn = t /\ swapEvent'.exactOut
        BY <3>1
      <3>4. QED
        BY <3>2, <3>3
    <2>6. QED
      BY <2>1, <2>4, <2>5
  <1>2. QED
    BY <1>1, RouterInvariant, PTL DEF RouterSpec, ValueKept, routerAllVars, RouterStep

(***************************************************************************)
(* EnosysCDP: the stablecoin of a user is the user's debt.                 *)
(***************************************************************************)

CdpInv ==
    /\ collateralOf \in [Users -> Nat]
    /\ debtOf \in [Users -> Nat]
    /\ stableBalance \in [Users -> Nat]
    /\ cdpPrice \in Nat /\ cdpThreshold \in Nat
    /\ StableMatchesDebt

\* One user's entry of a book changes.
LEMMA BookChange ==
  ASSUME NEW f \in [Users -> Nat], NEW u \in Users, NEW n \in Nat
  PROVE  /\ SumFunctionOnSet([f EXCEPT ![u] = n], Users) = SumFunctionOnSet(f, Users) - f[u] + n
         /\ SumFunctionOnSet([f EXCEPT ![u] = n], Users) \in Nat
         /\ SumFunctionOnSet(f, Users) \in Nat
  <1>1. PICK g : g = [f EXCEPT ![u] = n]
    OBVIOUS
  <1>2. /\ \A v \in Users : f[v] \in Nat /\ g[v] \in Nat
        /\ \A v \in Users \ {u} : g[v] = f[v]
        /\ g[u] = n
    BY <1>1
  <1>3. \A v \in Users : f[v] \in Int /\ g[v] \in Int
    BY <1>2
  <1>4. SumFunctionOnSet(g, Users) = SumFunctionOnSet(f, Users) - f[u] + g[u]
    BY ONLY <1>2, <1>3, PartiesAssumption, SumChange, u \in Users
  <1>5. SumFunctionOnSet(g, Users) \in Nat /\ SumFunctionOnSet(f, Users) \in Nat
    BY ONLY <1>2, PartiesAssumption, SumNat
  <1> QED
    BY <1>1, <1>2, <1>4, <1>5

LEMMA CdpInitInv == CdpInit => CdpInv
  BY PartiesAssumption DEF CdpInit, CdpInv, StableMatchesDebt

LEMMA CdpStutterInv == CdpInv /\ UNCHANGED cdpVars => CdpInv'
  BY DEF CdpInv, StableMatchesDebt, cdpVars, cdpSettings

LEMMA OpenCdpInv ==
  ASSUME NEW u \in Users, NEW a \in Nat, NEW b \in Nat, CdpInv, OpenCdp(u, a, b)
  PROVE  CdpInv'
  BY DEF CdpInv, StableMatchesDebt, OpenCdp, cdpSettings

LEMMA AdjustInv ==
  ASSUME NEW u \in Users, NEW a \in Nat, NEW b \in Nat, CdpInv, AdjustCollateral(u, a, b)
  PROVE  CdpInv'
  BY DEF CdpInv, StableMatchesDebt, AdjustCollateral, cdpSettings

LEMMA MintInv ==
  ASSUME NEW u \in Users, NEW a \in Nat, CdpInv, MintStable(u, a)
  PROVE  CdpInv'
  BY DEF CdpInv, StableMatchesDebt, MintStable, cdpSettings

LEMMA RepayInv ==
  ASSUME NEW u \in Users, NEW a \in Nat, CdpInv, RepayStable(u, a)
  PROVE  CdpInv'
  BY DEF CdpInv, StableMatchesDebt, RepayStable, cdpSettings

LEMMA CloseInv ==
  ASSUME NEW u \in Users, CdpInv, CloseCdp(u)
  PROVE  CdpInv'
  BY DEF CdpInv, StableMatchesDebt, CloseCdp, cdpSettings

LEMMA CdpOwnerInv ==
  ASSUME NEW n \in Nat, CdpInv, SetCdpPrice(n) \/ SetCdpThreshold(n)
  PROVE  CdpInv'
  BY DEF CdpInv, StableMatchesDebt, SetCdpPrice, SetCdpThreshold

LEMMA CdpNextInv == CdpInv /\ [CdpStep(Nat, Nat, Nat)]_cdpVars => CdpInv'
  <1> SUFFICES ASSUME CdpInv, [CdpStep(Nat, Nat, Nat)]_cdpVars PROVE CdpInv'
    OBVIOUS
  <1>1. ASSUME NEW u \in Users, CdpCall(u, Nat) PROVE CdpInv'
    BY <1>1, OpenCdpInv, AdjustInv, MintInv, RepayInv, CloseInv DEF CdpCall
  <1>2. QED
    BY <1>1, CdpOwnerInv, CdpStutterInv DEF CdpStep

\* The collateral on the books.
CdpBooks == cdpHeld \in Nat /\ CollateralHeld

LEMMA CdpInitBooks == CdpInit => CdpBooks
  <1> SUFFICES ASSUME CdpInit PROVE CdpBooks
    OBVIOUS
  <1>1. \A u \in Users : collateralOf[u] = 0
    BY DEF CdpInit
  <1>2. SumFunctionOnSet(collateralOf, Users) = 0
    BY <1>1, PartiesAssumption, SumZero
  <1> QED
    BY <1>2 DEF CdpInit, CdpBooks, CollateralHeld

LEMMA CollateralChange ==
  ASSUME CdpInv, CdpBooks, NEW u \in Users, NEW n \in Nat,
         collateralOf' = [collateralOf EXCEPT ![u] = n], cdpHeld' = cdpHeld - collateralOf[u] + n
  PROVE  CdpBooks'
  <1>1. PICK f \in [Users -> Nat] : f = collateralOf
    BY DEF CdpInv
  <1>2. /\ SumFunctionOnSet([f EXCEPT ![u] = n], Users) = SumFunctionOnSet(f, Users) - f[u] + n
        /\ SumFunctionOnSet([f EXCEPT ![u] = n], Users) \in Nat
    BY BookChange
  <1>3. cdpHeld' = SumFunctionOnSet(collateralOf', Users)
    BY <1>1, <1>2 DEF CdpBooks, CollateralHeld
  <1> QED
    BY <1>1, <1>2, <1>3 DEF CdpBooks, CollateralHeld

LEMMA CdpNextBooks == CdpInv /\ CdpBooks /\ [CdpStep(Nat, Nat, Nat)]_cdpVars => CdpBooks'
  <1> SUFFICES ASSUME CdpInv, CdpBooks, [CdpStep(Nat, Nat, Nat)]_cdpVars PROVE CdpBooks'
    OBVIOUS
  <1>1. CASE UNCHANGED <<collateralOf, cdpHeld>>
    BY <1>1 DEF CdpBooks, CollateralHeld
  <1>2. collateralOf \in [Users -> Nat] /\ cdpHeld \in Nat
    BY DEF CdpInv, CdpBooks
  <1>3. ASSUME NEW u \in Users, NEW a \in Nat, NEW b \in Nat, OpenCdp(u, a, b) PROVE CdpBooks'
    <2> DEFINE n == collateralOf[u] + a
    <2>1. /\ n \in Nat /\ collateralOf' = [collateralOf EXCEPT ![u] = n]
          /\ cdpHeld' = cdpHeld - collateralOf[u] + n
      BY <1>2, <1>3 DEF OpenCdp
    <2> HIDE DEF n
    <2> QED
      BY <2>1, CollateralChange
  <1>4. ASSUME NEW u \in Users, NEW a \in Nat, NEW b \in Nat, AdjustCollateral(u, a, b) PROVE CdpBooks'
    <2> DEFINE n == collateralOf[u] + a - b
    <2>1. /\ n \in Nat /\ collateralOf' = [collateralOf EXCEPT ![u] = n]
          /\ cdpHeld' = cdpHeld - collateralOf[u] + n
      BY <1>2, <1>4 DEF AdjustCollateral
    <2> HIDE DEF n
    <2> QED
      BY <2>1, CollateralChange
  <1>5. ASSUME NEW u \in Users, CloseCdp(u) PROVE CdpBooks'
    <2>1. /\ collateralOf' = [collateralOf EXCEPT ![u] = 0]
          /\ cdpHeld' = cdpHeld - collateralOf[u] + 0
      BY <1>2, <1>5 DEF CloseCdp
    <2> QED
      BY <2>1, CollateralChange
  <1>6. ASSUME NEW u \in Users, NEW n \in Nat,
               \/ MintStable(u, n) \/ RepayStable(u, n)
               \/ SetCdpPrice(n) \/ SetCdpThreshold(n)
        PROVE  CdpBooks'
    BY <1>1, <1>6 DEF MintStable, RepayStable, SetCdpPrice, SetCdpThreshold
  <1>7. CASE UNCHANGED cdpVars
    BY <1>1, <1>7 DEF cdpVars
  <1>8. ASSUME NEW u \in Users, CdpCall(u, Nat) PROVE CdpBooks'
    BY <1>3, <1>4, <1>5, <1>6, <1>8 DEF CdpCall
  <1>9. ASSUME NEW n \in Nat, SetCdpPrice(n) \/ SetCdpThreshold(n) PROVE CdpBooks'
    BY <1>1, <1>9 DEF SetCdpPrice, SetCdpThreshold
  <1> QED
    BY <1>7, <1>8, <1>9 DEF CdpStep

\* A debt can always be repaid with what was minted: the stablecoin of every user
\* is the user's debt, for any amounts, prices and thresholds.
THEOREM DebtIsRepayable == CdpSpec => []StableMatchesDebt
  <1>1. CdpSpec => []CdpInv
    BY CdpInitInv, CdpNextInv, PTL DEF CdpSpec
  <1>2. CdpInv => StableMatchesDebt
    BY DEF CdpInv
  <1>3. QED
    BY <1>1, <1>2, PTL

(***************************************************************************)
(* EnosysCDP: only the owner makes a position unsafe.                      *)
(***************************************************************************)

\* More collateral or less debt keeps a position covered.
LEMMA CoveredMono ==
  ASSUME NEW c \in Nat, NEW d \in Nat, NEW e \in Nat, NEW f \in Nat,
         c <= d, f <= e, cdpPrice \in Nat, cdpThreshold \in Nat, Covered(c, e)
  PROVE  Covered(d, f)
  <1>1. CASE f = 0
    BY <1>1 DEF Covered
  <1>2. CASE f # 0
    <2> DEFINE p == RatioAt(PriceOne, cdpPrice, c, e)
               q == RatioAt(PriceOne, cdpPrice, d, f)
    <2>1. f \in Nat \ {0} /\ e \in Nat \ {0}
      BY <1>2
    <2>2. p \in Nat /\ q \in Nat /\ p <= q
      BY <2>1, PartiesAssumption, RatioMono
    <2>3. p >= cdpThreshold
      BY <2>1 DEF Covered, RatioAt
    <2>4. q >= cdpThreshold
      <3> HIDE DEF p, q
      <3> QED BY <2>2, <2>3
    <2>5. QED
      BY <1>2, <2>4 DEF Covered, RatioAt
  <1>3. QED
    BY <1>1, <1>2

\* Every safe position stays safe.
CdpSafetyKept == \A u \in Users : SafeCdp(u) => SafeCdp(u)'

\* A call that raises no debt and takes no collateral, except where the new position
\* was checked, keeps every safe position safe.
LEMMA SafetyByPosition ==
  ASSUME CdpInv, CdpInv', UNCHANGED cdpSettings,
         NEW u \in Users,
         \A v \in Users \ {u} : UNCHANGED <<collateralOf[v], debtOf[v]>>,
         \/ Covered(collateralOf'[u], debtOf'[u])
         \/ collateralOf[u] <= collateralOf'[u] /\ debtOf'[u] <= debtOf[u]
  PROVE  CdpSafetyKept
  <1> SUFFICES ASSUME NEW v \in Users, SafeCdp(v) PROVE SafeCdp(v)'
    BY DEF CdpSafetyKept
  <1> DEFINE c == collateralOf'[v]
             d == debtOf'[v]
  <1>1. SafeCdp(v)' <=> Covered(c, d)
    BY DEF SafeCdp, Covered, cdpSettings
  <1>2. /\ collateralOf[v] \in Nat /\ debtOf[v] \in Nat
        /\ c \in Nat /\ d \in Nat
        /\ cdpPrice \in Nat /\ cdpThreshold \in Nat
    BY DEF CdpInv
  <1>3. Covered(collateralOf[v], debtOf[v])
    BY DEF SafeCdp
  <1>4. Covered(c, d) \/ (collateralOf[v] <= c /\ d <= debtOf[v])
    BY <1>2
  <1>5. Covered(c, d)
    <2> HIDE DEF c, d
    <2> QED BY <1>2, <1>3, <1>4, CoveredMono
  <1>6. QED
    BY <1>1, <1>5

LEMMA OpenSafety ==
  ASSUME NEW u \in Users, NEW a \in Nat, NEW b \in Nat, CdpInv, CdpInv', OpenCdp(u, a, b)
  PROVE  CdpSafetyKept
  <1>1. /\ collateralOf'[u] = collateralOf[u] + a /\ debtOf'[u] = debtOf[u] + b
        /\ \A v \in Users \ {u} : UNCHANGED <<collateralOf[v], debtOf[v]>>
        /\ UNCHANGED cdpSettings
    BY DEF OpenCdp, CdpInv
  <1>2. b > 0 => Covered(collateralOf'[u], debtOf'[u])
    BY <1>1 DEF OpenCdp
  <1>3. b = 0 => collateralOf[u] <= collateralOf'[u] /\ debtOf'[u] <= debtOf[u]
    BY <1>1 DEF CdpInv
  <1>4. QED
    BY <1>1, <1>2, <1>3, SafetyByPosition

LEMMA AdjustSafety ==
  ASSUME NEW u \in Users, NEW a \in Nat, NEW b \in Nat, CdpInv, CdpInv', AdjustCollateral(u, a, b)
  PROVE  CdpSafetyKept
  <1>1. /\ collateralOf'[u] = collateralOf[u] + a - b /\ debtOf' = debtOf
        /\ \A v \in Users \ {u} : UNCHANGED <<collateralOf[v], debtOf[v]>>
        /\ UNCHANGED cdpSettings
    BY DEF AdjustCollateral, CdpInv
  <1>2. b > 0 => Covered(collateralOf'[u], debtOf'[u])
    BY <1>1 DEF AdjustCollateral
  <1>3. b = 0 => collateralOf[u] <= collateralOf'[u] /\ debtOf'[u] <= debtOf[u]
    BY <1>1 DEF CdpInv
  <1>4. QED
    BY <1>1, <1>2, <1>3, SafetyByPosition

LEMMA MintSafety ==
  ASSUME NEW u \in Users, NEW a \in Nat, CdpInv, CdpInv', MintStable(u, a)
  PROVE  CdpSafetyKept
  <1>1. /\ Covered(collateralOf'[u], debtOf'[u])
        /\ \A v \in Users \ {u} : UNCHANGED <<collateralOf[v], debtOf[v]>>
        /\ UNCHANGED cdpSettings
    BY DEF MintStable, CdpInv, cdpSettings
  <1>2. QED
    BY <1>1, SafetyByPosition

LEMMA RepaySafety ==
  ASSUME NEW u \in Users, NEW a \in Nat, CdpInv, CdpInv', RepayStable(u, a)
  PROVE  CdpSafetyKept
  <1>1. /\ collateralOf[u] <= collateralOf'[u] /\ debtOf'[u] <= debtOf[u]
        /\ \A v \in Users \ {u} : UNCHANGED <<collateralOf[v], debtOf[v]>>
        /\ UNCHANGED cdpSettings
    BY DEF RepayStable, CdpInv, cdpSettings
  <1>2. QED
    BY <1>1, SafetyByPosition

\* A position is closed only without debt, and then it is safe whatever it holds.
LEMMA CloseSafety ==
  ASSUME NEW u \in Users, CdpInv, CdpInv', CloseCdp(u)
  PROVE  CdpSafetyKept
  <1>1. /\ Covered(collateralOf'[u], debtOf'[u])
        /\ \A v \in Users \ {u} : UNCHANGED <<collateralOf[v], debtOf[v]>>
        /\ UNCHANGED cdpSettings
    BY DEF CloseCdp, CdpInv, Covered, cdpSettings
  <1>2. QED
    BY <1>1, SafetyByPosition

\* UserCallsKeepCdpSafe: no call of a user makes anybody's position fall below the
\* threshold, for any amounts, prices and thresholds.
THEOREM UsersKeepCdpSafe == CdpSpec => UserCallsKeepCdpSafe
  <1> DEFINE Kept == UNCHANGED cdpSettings => \A u \in Users : SafeCdp(u) => SafeCdp(u)'
  <1>1. CdpInv /\ CdpInv' /\ [CdpStep(Nat, Nat, Nat)]_cdpVars => [Kept]_cdpVars
    <2> SUFFICES ASSUME CdpInv, CdpInv', CdpStep(Nat, Nat, Nat), UNCHANGED cdpSettings
                 PROVE  CdpSafetyKept
      BY DEF CdpSafetyKept
    <2>2. ASSUME NEW u \in Users, CdpCall(u, Nat) PROVE CdpSafetyKept
      BY <2>2, OpenSafety, AdjustSafety, MintSafety, RepaySafety, CloseSafety DEF CdpCall
    <2>3. ASSUME NEW n, SetCdpPrice(n) \/ SetCdpThreshold(n) PROVE CdpSafetyKept
      BY <2>3 DEF SetCdpPrice, SetCdpThreshold, CdpSafetyKept, SafeCdp, Covered, cdpSettings
    <2>4. QED
      BY <2>2, <2>3 DEF CdpStep
  <1>2. CdpSpec => []CdpInv
    BY CdpInitInv, CdpNextInv, PTL DEF CdpSpec
  <1>3. CdpSpec => [][Kept]_cdpVars
    BY <1>1, <1>2, PTL DEF CdpSpec
  <1>4. QED
    BY <1>3 DEF UserCallsKeepCdpSafe

(***************************************************************************)
(* FirelightStrategy.                                                      *)
(***************************************************************************)

\* Types, and the explanation of the assets that keeps the subtractions whole.
StrategyInv == StrategyTypeOK /\ AssetsExplained

LEMMA StrategyInitInv == StrategyInit => StrategyInv
  BY DEF StrategyInit, StrategyInv, StrategyTypeOK, AssetsExplained

LEMMA StrategyStutterInv == StrategyInv /\ UNCHANGED strategyVars => StrategyInv'
  BY DEF StrategyInv, StrategyTypeOK, AssetsExplained, strategyVars

LEMMA ProRataNat ==
  ASSUME NEW a \in Nat, totalShares \in Nat, totalAssets \in Nat
  PROVE  ProRata(a) \in Nat
  <1>1. a * totalShares \in Nat
    OBVIOUS
  <1>2. QED
    BY <1>1, DivBounds DEF ProRata

LEMMA DepositInv ==
  ASSUME NEW u \in Users, NEW a \in Nat, StrategyInv, DepositAssets(u, a)
  PROVE  StrategyInv'
  <1>1. ProRata(a) \in Nat
    BY ProRataNat DEF StrategyInv, StrategyTypeOK
  <1>2. QED
    BY <1>1 DEF StrategyInv, StrategyTypeOK, AssetsExplained, DepositAssets

LEMMA WithdrawInv ==
  ASSUME NEW u \in Users, NEW n \in Nat, StrategyInv, WithdrawShares(u, n)
  PROVE  StrategyInv'
  <1> DEFINE assets == IF totalShares = 0 THEN 0 ELSE (n * totalAssets) \div totalShares
  <1>1. n * totalAssets \in Nat
    BY DEF StrategyInv, StrategyTypeOK
  <1>2. assets \in Nat
    BY <1>1, DivBounds DEF StrategyInv, StrategyTypeOK
  <1>3. /\ n <= shareOf[u] /\ n <= totalShares
        /\ assets <= assetHeld /\ assets <= totalAssets
        /\ shareOf' = [shareOf EXCEPT ![u] = @ - n]
        /\ totalShares' = totalShares - n
        /\ totalAssets' = totalAssets - assets
        /\ assetHeld' = assetHeld - assets
        /\ yieldAmount' = yieldAmount
    BY DEF WithdrawShares
  <1> HIDE DEF assets
  <1>4. QED
    BY <1>2, <1>3 DEF StrategyInv, StrategyTypeOK, AssetsExplained

\* The branch that cuts the assets to zero is never taken: the yield is part of
\* them.
LEMMA YieldInv ==
  ASSUME NEW y \in Nat, StrategyInv, SetYieldAmount(y)
  PROVE  StrategyInv'
  BY DEF StrategyInv, StrategyTypeOK, AssetsExplained, SetYieldAmount

LEMMA StrategyNextInv == StrategyInv /\ [StrategyStep(Nat, Nat)]_strategyVars => StrategyInv'
  BY DepositInv, WithdrawInv, YieldInv, StrategyStutterInv DEF StrategyStep

LEMMA SharesInit == StrategyInit => SharesAddUp
  <1> SUFFICES ASSUME StrategyInit PROVE SharesAddUp
    OBVIOUS
  <1>1. \A u \in Users : shareOf[u] = 0
    BY DEF StrategyInit
  <1>2. SumFunctionOnSet(shareOf, Users) = 0
    BY <1>1, PartiesAssumption, SumZero
  <1> QED
    BY <1>2 DEF StrategyInit, SharesAddUp

LEMMA SharesChange ==
  ASSUME StrategyInv, SharesAddUp, NEW u \in Users, NEW n \in Nat,
         shareOf' = [shareOf EXCEPT ![u] = n], totalShares' = totalShares - shareOf[u] + n
  PROVE  SharesAddUp'
  <1>1. PICK f \in [Users -> Nat] : f = shareOf
    BY DEF StrategyInv, StrategyTypeOK
  <1>2. SumFunctionOnSet([f EXCEPT ![u] = n], Users) = SumFunctionOnSet(f, Users) - f[u] + n
    BY BookChange
  <1> QED
    BY <1>1, <1>2 DEF SharesAddUp

LEMMA SharesNext ==
  StrategyInv /\ SharesAddUp /\ [StrategyStep(Nat, Nat)]_strategyVars => SharesAddUp'
  <1> SUFFICES ASSUME StrategyInv, SharesAddUp, [StrategyStep(Nat, Nat)]_strategyVars
               PROVE  SharesAddUp'
    OBVIOUS
  <1>1. CASE UNCHANGED <<shareOf, totalShares>>
    BY <1>1 DEF SharesAddUp
  <1>2. shareOf \in [Users -> Nat] /\ totalShares \in Nat /\ totalAssets \in Nat
    BY DEF StrategyInv, StrategyTypeOK
  <1>3. ASSUME NEW u \in Users, NEW a \in Nat, DepositAssets(u, a) PROVE SharesAddUp'
    <2>1. PICK shares : /\ shares = (IF ProRata(a) = 0 THEN a ELSE ProRata(a))
                        /\ shareOf' = [shareOf EXCEPT ![u] = @ + shares]
                        /\ totalShares' = totalShares + shares
      BY <1>3 DEF DepositAssets
    <2>2. shares \in Nat
      BY <1>2, <2>1, ProRataNat
    <2> DEFINE n == shareOf[u] + shares
    <2>3. /\ n \in Nat /\ shareOf' = [shareOf EXCEPT ![u] = n]
          /\ totalShares' = totalShares - shareOf[u] + n
      BY <1>2, <2>1, <2>2
    <2> HIDE DEF n
    <2> QED
      BY <2>3, SharesChange
  <1>4. ASSUME NEW u \in Users, NEW k \in Nat, WithdrawShares(u, k) PROVE SharesAddUp'
    <2> DEFINE n == shareOf[u] - k
    <2>1. /\ n \in Nat /\ shareOf' = [shareOf EXCEPT ![u] = n]
          /\ totalShares' = totalShares - shareOf[u] + n
      BY <1>2, <1>4 DEF WithdrawShares
    <2> HIDE DEF n
    <2> QED
      BY <2>1, SharesChange
  <1>5. ASSUME NEW y \in Nat, SetYieldAmount(y) PROVE SharesAddUp'
    BY <1>1, <1>5 DEF SetYieldAmount
  <1>6. CASE UNCHANGED strategyVars
    BY <1>1, <1>6 DEF strategyVars
  <1> QED
    BY <1>3, <1>4, <1>5, <1>6 DEF StrategyStep

\* Types hold, and the assets of the pool are its tokens and the yield set last.
THEOREM PoolExplained == StrategySpec => [](StrategyTypeOK /\ AssetsExplained)
  <1>1. StrategySpec => []StrategyInv
    BY StrategyInitInv, StrategyNextInv, PTL DEF StrategySpec
  <1>2. QED
    BY <1>1, PTL DEF StrategyInv

\* The value of a share does not fall.
ValueOfShareKept == totalAssets' * totalShares >= totalAssets * totalShares'

\* Shares are rounded down: they take no more of the assets than was paid in.
LEMMA DepositValue ==
  ASSUME NEW u \in Users, NEW a \in Nat, StrategyInv, DepositAssets(u, a),
         totalShares # 0, ProRata(a) # 0
  PROVE  ValueOfShareKept
  <1>1. /\ totalShares \in Nat \ {0} /\ totalAssets \in Nat
        /\ totalShares' = totalShares + ProRata(a)
        /\ totalAssets' = totalAssets + a
    BY DEF StrategyInv, StrategyTypeOK, DepositAssets
  <1>2. ProRata(a) \in Nat
    BY <1>1, ProRataNat
  <1>3. totalAssets * ProRata(a) <= a * totalShares
    <2>1. CASE totalAssets = 0
      BY <1>1, <1>2, <2>1
    <2>2. CASE totalAssets # 0
      <3>1. a * totalShares \in Nat
        BY <1>1
      <3>2. QED
        BY <1>1, <2>2, <3>1, DivBounds DEF ProRata
    <2>3. QED
      BY <2>1, <2>2
  <1> DEFINE s == ProRata(a)
  <1>4. /\ (totalAssets + a) * totalShares = totalAssets * totalShares + a * totalShares
        /\ totalAssets * (totalShares + s) = totalAssets * totalShares + totalAssets * s
    <2> HIDE DEF s
    <2> QED BY <1>1, <1>2 DEF s
  <1>5. /\ totalAssets * totalShares \in Nat /\ a * totalShares \in Nat
        /\ totalAssets * s \in Nat
    BY <1>1, <1>2
  <1>6. QED
    BY <1>1, <1>3, <1>4, <1>5 DEF ValueOfShareKept

\* What is paid out is rounded down.
LEMMA WithdrawValue ==
  ASSUME NEW u \in Users, NEW n \in Nat, StrategyInv, WithdrawShares(u, n), totalShares # 0
  PROVE  ValueOfShareKept
  <1> DEFINE p == (n * totalAssets) \div totalShares
  <1>1. /\ totalShares \in Nat \ {0} /\ totalAssets \in Nat
        /\ totalShares' = totalShares - n
        /\ totalAssets' = totalAssets - p
    BY DEF StrategyInv, StrategyTypeOK, WithdrawShares
  <1>2. n * totalAssets \in Nat
    BY <1>1
  <1>3. p \in Nat /\ totalShares * p <= n * totalAssets
    BY <1>1, <1>2, DivBounds
  <1> HIDE DEF p
  <1>4. /\ (totalAssets - p) * totalShares = totalAssets * totalShares - totalShares * p
        /\ totalAssets * (totalShares - n) = totalAssets * totalShares - n * totalAssets
    BY <1>1, <1>3
  <1>5. /\ totalAssets * totalShares \in Nat /\ totalShares * p \in Nat
    BY <1>1, <1>3
  <1>6. QED
    BY <1>1, <1>2, <1>3, <1>4, <1>5 DEF ValueOfShareKept

LEMMA YieldValue ==
  ASSUME NEW y \in Nat, StrategyInv, SetYieldAmount(y), yieldAmount' >= yieldAmount
  PROVE  ValueOfShareKept
  <1>1. /\ totalShares \in Nat /\ totalAssets \in Nat /\ totalAssets' \in Nat
        /\ totalShares' = totalShares /\ totalAssets' >= totalAssets
    BY DEF StrategyInv, StrategyTypeOK, AssetsExplained, SetYieldAmount
  <1>2. totalAssets * totalShares <= totalAssets' * totalShares
    BY <1>1, ProductMono
  <1>3. QED
    BY <1>1, <1>2 DEF ValueOfShareKept

\* ShareValueKept: only a lower yield, or a deposit too small for a share, lowers
\* the value of the others' shares, for any amounts and yields.
THEOREM SharesKeepValue == StrategySpec => ShareValueKept
  <1> DEFINE Kept ==
               (\/ yieldAmount' < yieldAmount
                \/ totalAssets' > totalAssets /\ ProRata(totalAssets' - totalAssets) = 0)
               \/ totalShares = 0 \/ totalShares' = 0
               \/ totalAssets' * totalShares >= totalAssets * totalShares'
  <1>1. StrategyInv /\ [StrategyStep(Nat, Nat)]_strategyVars => [Kept]_strategyVars
    <2> SUFFICES ASSUME StrategyInv, StrategyStep(Nat, Nat), totalShares # 0 PROVE Kept
      OBVIOUS
    <2>1. ASSUME NEW u \in Users, NEW a \in Nat, DepositAssets(u, a)
          PROVE  Kept
      <3>1. a \in Nat /\ a > 0 /\ totalAssets \in Nat /\ totalAssets' = totalAssets + a
        BY <2>1 DEF DepositAssets, StrategyInv, StrategyTypeOK
      <3>2. totalAssets' > totalAssets /\ totalAssets' - totalAssets = a
        BY <3>1
      <3>3. CASE ProRata(a) = 0
        BY <3>2, <3>3
      <3>4. CASE ProRata(a) # 0
        BY <2>1, <3>1, <3>4, DepositValue DEF ValueOfShareKept
      <3>5. QED
        BY <3>3, <3>4
    <2>2. ASSUME NEW u \in Users, NEW n \in Nat, WithdrawShares(u, n)
          PROVE  Kept
      BY <2>2, WithdrawValue DEF ValueOfShareKept
    <2>3. ASSUME NEW y \in Nat, SetYieldAmount(y)
          PROVE  Kept
      <3>1. y \in Nat /\ yieldAmount' = y /\ yieldAmount \in Nat
        BY <2>3 DEF SetYieldAmount, StrategyInv, StrategyTypeOK
      <3>2. yieldAmount' < yieldAmount \/ yieldAmount' >= yieldAmount
        BY <3>1
      <3>3. QED
        BY <2>3, <3>1, <3>2, YieldValue DEF ValueOfShareKept
    <2>4. QED
      BY <2>1, <2>2, <2>3 DEF StrategyStep
  <1>2. StrategySpec => []StrategyInv
    BY StrategyInitInv, StrategyNextInv, PTL DEF StrategySpec
  <1>3. StrategySpec => [][Kept]_strategyVars
    BY <1>1, <1>2, PTL DEF StrategySpec
  <1>4. QED
    BY <1>3 DEF ShareValueKept

\* The event of a swap.
EventTyped ==
    swapEvent = NoSwap \/ swapEvent \in
        [tokenIn : FeedTokens, amountIn : Nat, amountOut : Nat, exactOut : BOOLEAN]

LEMMA QuotesNat ==
  ASSUME RouterInv, NEW t \in FeedTokens, NEW amount \in Nat
  PROVE  /\ Other(t) \in FeedTokens /\ price[t] \in Nat /\ price[Other(t)] \in Nat
         /\ price[Other(t)] # 0 => QuoteExactInput(t, amount) \in Nat
         /\ price[t] # 0 => QuoteExactOutput(t, amount) \in Nat
  <1>1. Other(t) \in FeedTokens /\ price[t] \in Nat /\ price[Other(t)] \in Nat
    BY DEF Other, FeedTokens, RouterInv, FeedTypeOK
  <1>2. PICK p \in Nat, q \in Nat : p = price[t] /\ q = price[Other(t)]
    BY <1>1
  <1>3. amount * p \in Nat /\ amount * q \in Nat
    OBVIOUS
  <1>4. (q # 0 => (amount * p) \div q \in Nat) /\ (p # 0 => (amount * q) \div p \in Nat)
    BY <1>3, DivBounds
  <1> QED
    BY <1>1, <1>2, <1>4 DEF QuoteExactInput, QuoteExactOutput

LEMMA EventNextTyped == RouterInv /\ EventTyped /\ [RouterStep]_routerAllVars => EventTyped'
  <1> SUFFICES ASSUME RouterInv, EventTyped, [RouterStep]_routerAllVars PROVE EventTyped'
    OBVIOUS
  <1>1. CASE swapEvent' \in {swapEvent, NoSwap}
    BY <1>1 DEF EventTyped
  <1>2. ASSUME NEW t \in FeedTokens, NEW amount \in Nat, NEW limit \in Nat, NEW deadline \in Nat,
               ExactInputSingle(t, amount, limit, deadline)
        PROVE  EventTyped'
    <2>1. PICK out : out = QuoteExactInput(t, amount)
      OBVIOUS
    <2>2. /\ out \in Nat
          /\ swapEvent' = [tokenIn |-> t, amountIn |-> amount, exactOut |-> FALSE, amountOut |-> out]
      BY <1>2, <2>1, QuotesNat DEF ExactInputSingle, Swapped
    <2> QED
      BY <2>2 DEF EventTyped
  <1>3. ASSUME NEW t \in FeedTokens, NEW amount \in Nat, NEW limit \in Nat, NEW deadline \in Nat,
               ExactOutputSingle(t, amount, limit, deadline)
        PROVE  EventTyped'
    <2>1. PICK in : in = QuoteExactOutput(t, amount)
      OBVIOUS
    <2>2. /\ in \in Nat
          /\ swapEvent' = [tokenIn |-> t, amountIn |-> in, exactOut |-> TRUE, amountOut |-> amount]
      BY <1>3, <2>1, QuotesNat DEF ExactOutputSingle, Swapped
    <2> QED
      BY <2>2 DEF EventTyped
  <1>4. swapEvent' \in {swapEvent, NoSwap} \/ ~UNCHANGED routerVars
    BY DEF routerVars
  <1> QED
    BY <1>1, <1>2, <1>3, <1>4, StepCases

(***************************************************************************)
(* BlazeSwapPool: the pair and the script that seeds it.                   *)
(***************************************************************************)

PairFunded == \A t \in FeedTokens : reserves[t] > 0

\* What the script wants to seed is balanced at the prices it read, or all the FXRP
\* that it may use.
SeedBalanced ==
    0 \notin {seedPrice["FXRP"], seedPrice["USDT0"]} =>
       /\ desired["FXRP"] * seedPrice["FXRP"] <= desired["USDT0"] * seedPrice["USDT0"]
       /\ \/ desired["FXRP"] * seedPrice["FXRP"] + seedPrice["FXRP"]
                > desired["USDT0"] * seedPrice["USDT0"]
          \/ desired["FXRP"] = funds["FXRP"] \div 2

SeedInv ==
    /\ PoolTypeOK
    /\ reserves = Nothing \/ PairFunded
    /\ script # "idle" => pairCreated
    /\ script \in {"seeded", "funded", "swapped"} => PairFunded
    /\ configured => pairCreated /\ PairFunded
    /\ script \in {"sized", "approved"} => SeedBalanced

\* The script goes on, or somebody swaps.
SeedStep ==
    \/ SeedNext
    \/ /\ \E t \in FeedTokens, a \in Nat, m \in Nat : PairSwap(t, a, m)
       /\ UNCHANGED <<scriptVars, funds, configured>>

LEMMA SeedInitInv == PoolInit => SeedInv
  <1> SUFFICES ASSUME PoolInit PROVE SeedInv
    OBVIOUS
  <1>1. funds \in [FeedTokens -> Nat]
    BY SeedAssumption DEF PoolInit
  <1>2. Nothing \in [FeedTokens -> Nat]
    BY DEF Nothing
  <1> QED
    BY <1>1, <1>2 DEF PoolInit, SeedInv, PoolTypeOK, ScriptSteps

LEMMA SeedStutterInv == SeedInv /\ UNCHANGED poolVars => SeedInv'
  <1> SUFFICES ASSUME SeedInv, UNCHANGED poolVars PROVE SeedInv'
    OBVIOUS
  <1>1. /\ UNCHANGED <<script, seedPrice, desired, seedRuns>>
        /\ UNCHANGED <<pairCreated, reserves, pairSwaps>> /\ UNCHANGED <<funds, configured>>
    BY DEF poolVars, scriptVars, pairVars
  <1> QED
    BY <1>1 DEF SeedInv, PoolTypeOK, PairFunded, SeedBalanced, Nothing

\* A constant product never pays out all of a reserve.
LEMMA QuoteBelow ==
  ASSUME NEW a \in Nat, NEW x \in Nat \ {0}, NEW y \in Nat \ {0}
  PROVE  (a * y) \div (x + a) \in Nat /\ (a * y) \div (x + a) < y
  <1> DEFINE q == (a * y) \div (x + a)
  <1>1. a * y \in Nat /\ x + a \in Nat \ {0}
    OBVIOUS
  <1>2. q \in Nat /\ (x + a) * q <= a * y
    BY <1>1, DivBounds
  <1> HIDE DEF q
  <1>3. SUFFICES ASSUME y <= q PROVE FALSE
    BY <1>2 DEF q
  <1>4. y * (x + a) <= q * (x + a)
    BY <1>1, <1>2, <1>3, ProductMono
  <1>5. y * (x + a) = x * y + a * y /\ q * (x + a) = (x + a) * q /\ x * y > 0
    BY <1>2
  <1> QED
    BY <1>1, <1>2, <1>4, <1>5

LEMMA PairSwapFacts ==
  ASSUME SeedInv, NEW t \in FeedTokens, NEW a \in Nat, NEW m, PairSwap(t, a, m)
  PROVE  /\ PairFunded /\ PairFunded'
         /\ reserves' \in [FeedTokens -> Nat] /\ pairSwaps' \in Nat
         /\ pairCreated' = pairCreated
         /\ PairQuote(t, a) \in Nat /\ PairQuote(t, a) >= m
         /\ reserves[Other(t)] - reserves'[Other(t)] = PairQuote(t, a)
  <1> DEFINE o == Other(t)
             q == PairQuote(t, a)
  <1>1. o \in FeedTokens /\ o # t /\ FeedTokens = {t, o} /\ o = (IF t = "FXRP" THEN "USDT0" ELSE "FXRP")
    BY DEF Other, FeedTokens
  <1>2. reserves \in [FeedTokens -> Nat] /\ pairSwaps \in Nat
    BY DEF SeedInv, PoolTypeOK
  <1>3. PairFunded /\ pairSwaps' = pairSwaps + 1 /\ pairCreated' = pairCreated
    BY DEF PairSwap, PairFunded, FeedTokens
  <1>4. PICK x \in Nat \ {0}, y \in Nat \ {0} : x = reserves[t] /\ y = reserves[o]
    BY <1>1, <1>2, <1>3 DEF PairFunded
  <1>5. q = ((a * 997) * y) \div (x * 1000 + a * 997)
    BY <1>1, <1>4 DEF PairQuote
  <1>6. q \in Nat /\ q < y
    <2>1. a * 997 \in Nat /\ x * 1000 \in Nat \ {0}
      OBVIOUS
    <2> QED
      BY <1>5, <2>1, QuoteBelow
  <1>7. reserves' = [reserves EXCEPT ![t] = reserves[t] + a, ![o] = reserves[o] - q] /\ q >= m
    BY <1>1 DEF PairSwap
  <1> HIDE DEF o, q
  <1>8. /\ reserves'[t] = x + a /\ reserves'[o] = y - q
        /\ x + a \in Nat \ {0} /\ y - q \in Nat \ {0}
        /\ reserves' \in [FeedTokens -> Nat]
    BY <1>1, <1>2, <1>4, <1>6, <1>7
  <1>9. PairFunded'
    BY <1>1, <1>8 DEF PairFunded
  <1>10. reserves[o] - reserves'[o] = q
    BY <1>4, <1>6, <1>8
  <1> QED
    BY <1>2, <1>3, <1>6, <1>7, <1>8, <1>9, <1>10 DEF o, q

LEMMA SwapKeepsSeedInv ==
  ASSUME SeedInv, NEW t \in FeedTokens, NEW a \in Nat, NEW m, PairSwap(t, a, m),
         UNCHANGED <<scriptVars, funds, configured>>
  PROVE  SeedInv'
  <1>1. UNCHANGED <<script, seedPrice, desired, seedRuns>> /\ funds' = funds /\ configured' = configured
    BY DEF scriptVars
  <1>2. /\ PairFunded' /\ reserves' \in [FeedTokens -> Nat] /\ pairSwaps' \in Nat
        /\ pairCreated' = pairCreated
    BY PairSwapFacts
  <1> QED
    BY <1>1, <1>2 DEF SeedInv, PoolTypeOK, SeedBalanced

LEMMA EndSeedInv ==
  ASSUME SeedInv, EndSeed, UNCHANGED <<seedRuns, pairVars, funds>>, configured' \in BOOLEAN,
         configured' => configured \/ script = "swapped"
  PROVE  SeedInv'
  <1>1. /\ script' = "idle" /\ seedPrice' = Nothing /\ desired' = Nothing
        /\ UNCHANGED <<seedRuns, pairCreated, reserves, pairSwaps, funds>>
    BY DEF EndSeed, pairVars
  <1>2. Nothing \in [FeedTokens -> Nat] /\ Nothing' = Nothing
    BY DEF Nothing
  <1> QED
    BY <1>1, <1>2 DEF SeedInv, PoolTypeOK, PairFunded, ScriptSteps

\* What the router takes, of what the script desires.
LEMMA LiquidityFacts ==
  ASSUME SeedInv
  PROVE  /\ Liquidity \in [FeedTokens -> Nat]
         /\ reserves = Nothing => Liquidity = desired
  <1>1. desired \in [FeedTokens -> Nat] /\ reserves \in [FeedTokens -> Nat]
    BY DEF SeedInv, PoolTypeOK
  <1>2. CASE reserves = Nothing
    BY <1>1, <1>2 DEF Liquidity
  <1>3. CASE reserves # Nothing
    <2>1. \A t \in FeedTokens : reserves[t] \in Nat \ {0} /\ desired[t] \in Nat
      BY <1>1, <1>3 DEF SeedInv, PairFunded
    <2>2. "FXRP" \in FeedTokens /\ "USDT0" \in FeedTokens
      BY DEF FeedTokens
    <2>3. ASSUME NEW t \in FeedTokens, NEW o \in FeedTokens
          PROVE  (desired[t] * reserves[o]) \div reserves[t] \in Nat
      <3>1. desired[t] * reserves[o] \in Nat
        BY <2>1
      <3> QED
        BY <2>1, <3>1, DivBounds
    <2>4. \E n \in Nat, t \in FeedTokens : Liquidity = desired \/ Liquidity = [desired EXCEPT ![t] = n]
      BY <1>3, <2>2, <2>3 DEF Liquidity
    <2> QED
      BY <1>1, <1>3, <2>4
  <1> QED
    BY <1>2, <1>3

LEMMA SizeSeedBalanced ==
  ASSUME SeedInv, SizeSeed
  PROVE  SeedInv'
  <1>1. /\ seedPrice \in [FeedTokens -> Nat] /\ funds \in [FeedTokens -> Nat]
        /\ "FXRP" \in FeedTokens /\ "USDT0" \in FeedTokens /\ SeedTarget \in Nat
    BY SeedAssumption DEF SeedInv, PoolTypeOK, FeedTokens
  <1>2. PICK p \in Nat, q \in Nat, b \in Nat, c \in Nat :
           p = seedPrice["FXRP"] /\ q = seedPrice["USDT0"] /\ b = funds["FXRP"] /\ c = funds["USDT0"]
    BY <1>1
  <1>3. PICK u, h, f :
           /\ u = (IF c < SeedTarget THEN c \div 2 ELSE SeedTarget) /\ h = b \div 2
           /\ f = (IF q = 0 \/ p = 0 THEN h ELSE Smaller((u * q) \div p, h))
           /\ desired' = [t \in FeedTokens |-> IF t = "FXRP" THEN f ELSE u]
    BY <1>2 DEF SizeSeed, Scaled
  <1>4. u \in Nat /\ h \in Nat
    BY <1>1, <1>2, <1>3
  <1>5. u * q \in Nat
    BY <1>4
  <1>6. /\ f \in Nat
        /\ p # 0 /\ q # 0 => f * p <= u * q /\ (f * p + p > u * q \/ f = h)
    <2>1. CASE q = 0 \/ p = 0
      BY <1>3, <1>4, <2>1
    <2>2. CASE q # 0 /\ p # 0
      <3> DEFINE d == (u * q) \div p
      <3>1. d \in Nat /\ p * d <= u * q /\ u * q < p * d + p
        BY <1>5, <2>2, DivBounds
      <3>2. f = Smaller(d, h)
        BY <1>3, <2>2
      <3> HIDE DEF d
      <3>3. CASE d < h
        <4>1. f = d /\ f * p = p * d
          BY <1>2, <3>1, <3>2, <3>3 DEF Smaller
        <4> QED
          BY <1>2, <1>5, <3>1, <4>1
      <3>4. CASE ~(d < h)
        <4>1. f = h /\ f <= d
          BY <1>4, <3>1, <3>2, <3>4 DEF Smaller
        <4>2. f * p <= d * p /\ d * p = p * d
          BY <1>2, <1>4, <3>1, <4>1, ProductMono
        <4> QED
          BY <1>2, <1>4, <1>5, <3>1, <4>1, <4>2
      <3> QED
        BY <3>3, <3>4
    <2> QED
      BY <2>1, <2>2
  <1>7. /\ script' = "sized" /\ desired'["FXRP"] = f /\ desired'["USDT0"] = u
        /\ desired' \in [FeedTokens -> Nat] /\ script = "prices"
        /\ UNCHANGED <<seedPrice, seedRuns, funds, configured>>
        /\ UNCHANGED <<pairCreated, reserves, pairSwaps>>
    BY <1>1, <1>3, <1>4, <1>6 DEF SizeSeed, At, pairVars
  <1>8. SeedBalanced'
    BY <1>2, <1>3, <1>6, <1>7 DEF SeedBalanced
  <1> QED
    BY <1>7, <1>8 DEF SeedInv, PoolTypeOK, PairFunded, ScriptSteps, Nothing

LEMMA AddLiquidityInv ==
  ASSUME SeedInv, AddLiquidity
  PROVE  SeedInv'
  <1>1. /\ reserves \in [FeedTokens -> Nat] /\ funds \in [FeedTokens -> Nat]
        /\ Liquidity \in [FeedTokens -> Nat]
    BY LiquidityFacts DEF SeedInv, PoolTypeOK
  <1>2. PICK l \in [FeedTokens -> Nat] : l = Liquidity
    BY <1>1
  <1>3. /\ \A t \in FeedTokens : l[t] <= funds[t] /\ l[t] > 0
        /\ reserves' = [t \in FeedTokens |-> reserves[t] + l[t]]
        /\ funds' = [t \in FeedTokens |-> funds[t] - l[t]]
        /\ script' = "seeded" /\ script = "approved"
        /\ UNCHANGED <<seedPrice, desired, seedRuns, pairCreated, pairSwaps, configured>>
    BY <1>2 DEF AddLiquidity, At
  <1>4. /\ reserves' \in [FeedTokens -> Nat] /\ PairFunded'
    BY <1>1, <1>3 DEF PairFunded
  <1>5. funds' \in [FeedTokens -> Nat]
    BY <1>1, <1>3
  <1> QED
    BY <1>3, <1>4, <1>5 DEF SeedInv, PoolTypeOK, ScriptSteps

LEMMA TrialSwapInv ==
  ASSUME SeedInv, TrialSwap
  PROVE  SeedInv'
  <1>1. /\ funds \in [FeedTokens -> Nat] /\ "FXRP" \in FeedTokens /\ "USDT0" \in FeedTokens
        /\ SwapUnit \in Nat
    BY SeedAssumption DEF SeedInv, PoolTypeOK, FeedTokens
  <1>2. PICK s : s = SwapIn
    OBVIOUS
  <1>3. PICK c \in Nat : c = funds["USDT0"]
    BY <1>1
  <1>4. s = (IF c > SwapUnit THEN SwapUnit ELSE c \div 10)
    BY <1>2, <1>3 DEF SwapIn
  <1>5. s \in Nat /\ s <= c
    BY <1>1, <1>4
  <1>6. PICK out : out = PairQuote("USDT0", s)
    OBVIOUS
  <1>7. /\ PairSwap("USDT0", s, 1) /\ script' = "swapped" /\ script = "funded"
        /\ funds' = [funds EXCEPT !["USDT0"] = @ - s, !["FXRP"] = @ + out]
        /\ UNCHANGED <<seedPrice, desired, seedRuns, configured>>
    BY <1>2, <1>6 DEF TrialSwap, At
  <1>8. /\ PairFunded' /\ reserves' \in [FeedTokens -> Nat] /\ pairSwaps' \in Nat
        /\ pairCreated' = pairCreated /\ out \in Nat
    BY <1>1, <1>5, <1>6, <1>7, PairSwapFacts
  <1>9. funds' \in [FeedTokens -> Nat]
    BY <1>1, <1>3, <1>5, <1>7, <1>8
  <1> QED
    BY <1>7, <1>8, <1>9 DEF SeedInv, PoolTypeOK, ScriptSteps

LEMMA SeedNextInv == SeedInv /\ FeedTypeOK /\ [SeedStep]_poolVars => SeedInv'
  <1> SUFFICES ASSUME SeedInv, FeedTypeOK, SeedStep PROVE SeedInv'
    BY SeedStutterInv
  <1>1. ASSUME NEW t \in FeedTokens, NEW step, NEW next,
               next \in {"fxrpPrice", "prices"}, step \in {"pair", "fxrpPrice"},
               ReadSeedPrice(step, next, t)
        PROVE  SeedInv'
    <2>1. /\ script' = next /\ script = step
          /\ seedPrice' = [seedPrice EXCEPT ![t] = price[t]]
          /\ UNCHANGED <<desired, seedRuns, funds, configured>>
          /\ UNCHANGED <<pairCreated, reserves, pairSwaps>>
      BY <1>1 DEF ReadSeedPrice, At, pairVars
    <2>2. price[t] \in Nat
      BY DEF FeedTypeOK
    <2>3. seedPrice' \in [FeedTokens -> Nat]
      BY <2>1, <2>2 DEF SeedInv, PoolTypeOK
    <2> QED
      BY <1>1, <2>1, <2>3 DEF SeedInv, PoolTypeOK, PairFunded, ScriptSteps, Nothing
  <1>2. CASE StartSeed
    BY <1>2 DEF StartSeed, At, SeedInv, PoolTypeOK, PairFunded, ScriptSteps, Nothing
  <1>3. CASE ApproveSeed
    BY <1>3 DEF ApproveSeed, At, pairVars, SeedInv, PoolTypeOK, PairFunded, SeedBalanced, ScriptSteps, Nothing
  <1>4. CASE ApproveTrial
    BY <1>4 DEF ApproveTrial, At, pairVars, SeedInv, PoolTypeOK, PairFunded, ScriptSteps, Nothing
  <1>5. CASE WriteConfig
    BY <1>5, EndSeedInv DEF WriteConfig
  <1>6. CASE SeedDies
    <2>1. configured' = configured /\ configured \in BOOLEAN
      BY <1>6 DEF SeedDies, SeedInv, PoolTypeOK
    <2> QED
      BY <1>6, <2>1, EndSeedInv DEF SeedDies
  <1>7. "FXRP" \in FeedTokens /\ "USDT0" \in FeedTokens
    BY DEF FeedTokens
  <1> QED
    BY <1>1, <1>2, <1>3, <1>4, <1>5, <1>6, <1>7, SizeSeedBalanced, AddLiquidityInv, TrialSwapInv,
       SwapKeepsSeedInv DEF SeedStep, SeedNext

\* A step that gives an empty pair reserves.
LEMMA FirstLiquidity ==
  ASSUME SeedInv, SeedStep, reserves = Nothing, reserves' # Nothing
  PROVE  AddLiquidity
  <1>1. ~PairFunded
    BY DEF PairFunded, Nothing, FeedTokens
  <1>2. ASSUME NEW t \in FeedTokens, NEW a \in Nat, NEW m, PairSwap(t, a, m) PROVE FALSE
    BY <1>1, <1>2, PairSwapFacts
  <1>3. ~TrialSwap
    BY <1>1 DEF TrialSwap, At, SeedInv
  <1> QED
    BY <1>2, <1>3 DEF SeedStep, SeedNext, StartSeed, ReadSeedPrice, SizeSeed, ApproveSeed,
                      ApproveTrial, WriteConfig, SeedDies, pairVars

LEMMA FirstLiquidityBalanced ==
  ASSUME SeedInv, SeedStep, reserves = Nothing, reserves' # Nothing,
         0 \notin {seedPrice["FXRP"], seedPrice["USDT0"]}
  PROVE  LET fxrp == reserves'["FXRP"] * seedPrice["FXRP"]
             usdt == reserves'["USDT0"] * seedPrice["USDT0"]
         IN  /\ fxrp <= usdt
             /\ fxrp + seedPrice["FXRP"] > usdt \/ reserves'["FXRP"] = funds["FXRP"] \div 2
  <1>1. AddLiquidity /\ Liquidity = desired /\ SeedBalanced
    BY FirstLiquidity, LiquidityFacts DEF AddLiquidity, At, SeedInv
  <1>2. desired \in [FeedTokens -> Nat] /\ "FXRP" \in FeedTokens /\ "USDT0" \in FeedTokens
    BY DEF SeedInv, PoolTypeOK, FeedTokens
  <1>3. reserves' = [t \in FeedTokens |-> 0 + desired[t]]
    BY <1>1 DEF AddLiquidity, Nothing
  <1>4. reserves'["FXRP"] = desired["FXRP"] /\ reserves'["USDT0"] = desired["USDT0"]
    BY <1>2, <1>3
  <1> QED
    BY <1>1, <1>4 DEF SeedBalanced

(***************************************************************************)
(* VenueExecution: matches on the venues.                                  *)
(***************************************************************************)

\* An order that a swap venue can be given, priced by what the handler read.
Priced(order) ==
    /\ order.tokenIn \in FeedTokens /\ order.deadline \in Nat
    /\ order.priceIn \in Nat /\ order.priceOut \in Nat \ {0}
    /\ order.minimum \in Nat
    /\ order.minimum = AmountOutMinimum(order.amountIn, order.priceIn, order.priceOut)

EngineInv ==
    /\ venue \in Venues
    /\ assembly.step \in {"idle", "received", "fxrpRead"}
    /\ assembly.step # "idle" =>
          /\ assembly.signal \in Signals /\ ValidSwapSignal(assembly.signal)
          /\ DOMAIN instructions = {}
    /\ assembly.step = "fxrpRead" => assembly.fxrp \in Nat
    /\ \A i \in DOMAIN instructions :
          /\ instructions[i].amountIn \in Nat
          /\ ~MockVenue => Priced(instructions[i])

VenueInv ==
    /\ EngineInv
    /\ RouterInv /\ EventTyped
    /\ SeedInv
    /\ CdpInv /\ CdpBooks
    /\ StrategyInv /\ SharesAddUp

-----------------------------------------------------------------------------
(* Sizing. *)

\* Allocations of followers are numbers, and the recipient has all of the base.
LEMMA ShareSizes ==
  ASSUME NEW signal \in Signals, NEW cap \in Nat, signal.sizePct > 0
  PROVE  \A i \in DOMAIN Shares(signal, cap) :
            /\ Shares(signal, cap)[i].amountIn \in Int
            /\ (\A j \in DOMAIN signal.followers : signal.followers[j].allocationBps > 0) =>
                  Shares(signal, cap)[i].amountIn \in Nat
  <1> DEFINE base == BaseNotional(cap, signal.sizePct)
             targets == Targets(signal)
             size(i) == Notional(base, targets[i].allocationBps)
  <1>1. /\ signal.sizePct \in Nat
        /\ \A i \in DOMAIN signal.followers : signal.followers[i].allocationBps \in Int
    BY VenueAssumption
  <1>2. base \in Nat
    <2>1. cap * signal.sizePct \in Nat
      BY <1>1
    <2> QED
      BY <2>1, DivBounds DEF BaseNotional
  <1>3. \/ targets = signal.followers
        \/ \A i \in DOMAIN targets : targets[i].allocationBps = 10000
    BY DEF Targets
  <1>4. \A i \in DOMAIN targets :
           /\ targets[i].allocationBps \in Int
           /\ (\A j \in DOMAIN signal.followers : signal.followers[j].allocationBps > 0) =>
                 targets[i].allocationBps > 0
    BY <1>1, <1>3
  <1>5. ASSUME NEW b \in Nat, NEW n \in Int
        PROVE  Notional(b, n) \in Int /\ (n > 0 => Notional(b, n) \in Nat)
    <2>1. PICK m \in Int : m = b * n
      OBVIOUS
    <2>2. n > 0 => m >= 0
      BY <2>1
    <2>3. Truncated(m, 10000) \in Int /\ (m >= 0 => Truncated(m, 10000) \in Nat)
      BY DEF Truncated
    <2> QED
      BY <2>1, <2>2, <2>3 DEF Notional
  <1>6. Shares(signal, cap) =
           [i \in {i \in DOMAIN targets : size(i) # 0} |->
               [recipient |-> targets[i].address, amountIn |-> size(i)]]
    BY DEF Shares
  <1> SUFFICES ASSUME NEW i \in DOMAIN Shares(signal, cap)
               PROVE  /\ Shares(signal, cap)[i].amountIn \in Int
                      /\ (\A j \in DOMAIN signal.followers : signal.followers[j].allocationBps > 0)
                            => Shares(signal, cap)[i].amountIn \in Nat
    OBVIOUS
  <1>7. i \in DOMAIN targets /\ Shares(signal, cap)[i].amountIn = size(i)
    BY <1>6
  <1>8. PICK n \in Int, b \in Nat : n = targets[i].allocationBps /\ b = base
    BY <1>2, <1>4, <1>7
  <1>9. Shares(signal, cap)[i].amountIn = Notional(b, n)
    BY <1>7, <1>8
  <1>10. (\A j \in DOMAIN signal.followers : signal.followers[j].allocationBps > 0) => n > 0
    BY <1>4, <1>7, <1>8
  <1>11. Notional(b, n) \in Int /\ (n > 0 => Notional(b, n) \in Nat)
    BY <1>5
  <1> QED
    BY ONLY <1>9, <1>10, <1>11

\* What SlippageBounded promises of an amount paid for a at the prices p and q.
CloseToPrice(paid, a, p, q) == (paid * 10000 + 19900) * q > 9900 * a * p

\* The minimum of an answer is a number and keeps that promise.
LEMMA MinimumNat ==
  ASSUME NEW a \in Nat, NEW p \in Nat, NEW q \in Nat \ {0}
  PROVE  /\ AmountOutMinimum(a, p, q) \in Nat
         /\ CloseToPrice(AmountOutMinimum(a, p, q), a, p, q)
  <1>1. PICK n \in Nat : n = a * p
    OBVIOUS
  <1>2. PICK e : e = n \div q
    OBVIOUS
  <1>3. e \in Nat /\ n < q * e + q
    BY <1>2, DivBounds
  <1>4. PICK m : m = (e * 9900) \div 10000
    OBVIOUS
  <1>5. m \in Nat /\ e * 9900 < 10000 * m + 10000
    BY <1>3, <1>4
  <1>6. ExpectedOut(a, p, q) = e /\ AmountOutMinimum(a, p, q) = m
    BY <1>1, <1>2, <1>4 DEF ExpectedOut, AmountOutMinimum
  <1>7. (m * 10000 + 19900) * q > 9900 * n
    <2>1. 9900 * e + 9901 <= m * 10000 + 19900
      BY <1>3, <1>5
    <2>2. (9900 * e + 9901) * q <= (m * 10000 + 19900) * q
      BY <1>3, <1>5, <2>1, ProductMono
    <2>3. (9900 * e + 9901) * q = 9900 * (q * e + q) + q
      BY <1>3
    <2>4. q * e + q \in Nat /\ (m * 10000 + 19900) * q \in Nat
      BY <1>3, <1>5
    <2> QED
      BY <1>3, <2>2, <2>3, <2>4
  <1>8. 9900 * a * p = 9900 * n
    BY <1>1
  <1> QED
    BY <1>3, <1>5, <1>6, <1>7, <1>8 DEF CloseToPrice

LEMMA SwapOrders ==
  ASSUME NEW signal \in Signals, ValidSwapSignal(signal),
         NEW fxrp \in Nat, NEW usdt0 \in Nat, NEW clock \in Nat
  PROVE  \A i \in DOMAIN SwapInstructions(signal, fxrp, usdt0, clock) :
            /\ SwapInstructions(signal, fxrp, usdt0, clock)[i].amountIn \in Nat
            /\ Priced(SwapInstructions(signal, fxrp, usdt0, clock)[i])
  <1>1. PICK shares : shares = Shares(signal, SwapCap)
    OBVIOUS
  <1>2. \A i \in DOMAIN shares : shares[i].amountIn \in Nat
    BY <1>1, ShareSizes, SizingAssumption DEF ValidSwapSignal
  <1>3. PICK t : t = TokenIn(signal.direction)
    OBVIOUS
  <1>4. t \in FeedTokens
    BY <1>3 DEF TokenIn, FeedTokens
  <1>5. PICK p \in Nat, q \in Nat :
           p = (IF t = "FXRP" THEN fxrp ELSE usdt0) /\ q = (IF t = "FXRP" THEN usdt0 ELSE fxrp)
    OBVIOUS
  <1> DEFINE builds == [i \in DOMAIN shares |->
                 [recipient |-> shares[i].recipient, amountIn |-> shares[i].amountIn, tokenIn |-> t,
                  priceIn |-> p, priceOut |-> q, deadline |-> clock + Window,
                  minimum |-> AmountOutMinimum(shares[i].amountIn, p, q)]]
             answer == SwapInstructions(signal, fxrp, usdt0, clock)
  <1>6. answer = <<>> \/ (answer = builds /\ q # 0)
    BY <1>1, <1>3, <1>5 DEF SwapInstructions
  <1>7. CASE answer = <<>>
    BY <1>7
  <1>8. CASE answer = builds /\ q # 0
    <2> SUFFICES ASSUME NEW i \in DOMAIN builds PROVE builds[i].amountIn \in Nat /\ Priced(builds[i])
      BY <1>8
    <2>1. PICK a \in Nat : a = shares[i].amountIn
      BY <1>2
    <2>2. AmountOutMinimum(a, p, q) \in Nat
      <3>1. q \in Nat \ {0}
        BY <1>8
      <3> QED
        BY ONLY a \in Nat, p \in Nat, <3>1, MinimumNat, Zenon
    <2>3. clock + Window \in Nat
      BY SizingAssumption
    <2> QED
      BY <1>4, <1>8, <2>1, <2>2, <2>3 DEF Priced
  <1> QED
    BY <1>6, <1>7, <1>8

LEMMA MockAmounts ==
  ASSUME NEW signal \in Signals
  PROVE  \A i \in DOMAIN MockInstructions(signal) : MockInstructions(signal)[i].amountIn \in Nat
  <1>1. PICK shares : shares = Shares(signal, MockCap)
    OBVIOUS
  <1>2. CASE MockInstructions(signal) = <<>>
    BY <1>2
  <1>3. CASE /\ MockInstructions(signal) = shares /\ ~(signal.sizePct <= 0)
             /\ \A i \in DOMAIN shares : ~(shares[i].amountIn < 0)
    <2>1. signal.sizePct > 0
      BY <1>3, VenueAssumption
    <2>2. \A i \in DOMAIN shares : shares[i].amountIn \in Int
      BY <1>1, <2>1, ShareSizes, SizingAssumption
    <2> QED
      BY <1>3, <2>2
  <1> QED
    BY <1>1, <1>2, <1>3 DEF MockInstructions

-----------------------------------------------------------------------------
(* The engine, and who executes what it answered. *)

LEMMA WithoutFacts ==
  ASSUME NEW i \in DOMAIN instructions
  PROVE  /\ DOMAIN Without(i) = DOMAIN instructions \ {i}
         /\ \A j \in DOMAIN Without(i) : Without(i)[j] = instructions[j]
  BY DEF Without, Restrict

LEMMA EngineNextInv ==
  ASSUME EngineInv, FeedTypeOK, venue' = venue,
         \/ Engine
         \/ \E i \in DOMAIN instructions : Execute(i)
         \/ UNCHANGED engineVars
  PROVE  EngineInv'
  <1>1. MockVenue' = MockVenue /\ venue' \in Venues
    BY DEF MockVenue, EngineInv
  <1>2. ASSUME NEW signal \in Signals, ReceiveSignal(signal) PROVE EngineInv'
    <2>1. CASE MockVenue
      <3>1. instructions' = MockInstructions(signal) /\ assembly' = assembly /\ assembly = Idle
        BY <1>2, <2>1 DEF ReceiveSignal
      <3>2. \A i \in DOMAIN instructions' : instructions'[i].amountIn \in Nat
        BY <3>1, MockAmounts
      <3> QED
        BY <1>1, <2>1, <3>1, <3>2 DEF EngineInv, Idle
    <2>2. CASE ~MockVenue
      <3>1. /\ ValidSwapSignal(signal) /\ instructions' = instructions /\ instructions = <<>>
            /\ assembly' = [step |-> "received", signal |-> signal]
        BY <1>2, <2>2 DEF ReceiveSignal
      <3> QED
        BY <1>1, <3>1 DEF EngineInv, ValidSwapSignal, HasTargets
    <2> QED
      BY <2>1, <2>2
  <1>3. CASE ReadFxrpFeed
    <2>1. /\ assembly.step = "received" /\ instructions' = instructions
          /\ assembly' = [step |-> "fxrpRead", signal |-> assembly.signal, fxrp |-> price["FXRP"]]
          /\ price["FXRP"] \in Nat
      BY <1>3 DEF ReadFxrpFeed, FeedTypeOK, FeedTokens
    <2>2. /\ assembly.signal \in Signals /\ ValidSwapSignal(assembly.signal)
          /\ DOMAIN instructions = {}
      BY <2>1 DEF EngineInv
    <2> QED
      BY <1>1, <2>1, <2>2 DEF EngineInv, ValidSwapSignal, HasTargets
  <1>4. CASE ReadUsdt0FeedAndAnswer
    <2>1. /\ assembly.step = "fxrpRead" /\ assembly' = Idle
          /\ instructions' = SwapInstructions(assembly.signal, assembly.fxrp, price["USDT0"], now)
          /\ price["USDT0"] \in Nat /\ now \in Nat
      BY <1>4 DEF ReadUsdt0FeedAndAnswer, FeedTypeOK, FeedTokens
    <2>2. /\ assembly.signal \in Signals /\ ValidSwapSignal(assembly.signal)
          /\ assembly.fxrp \in Nat
      BY <2>1 DEF EngineInv
    <2>3. \A i \in DOMAIN instructions' : instructions'[i].amountIn \in Nat /\ Priced(instructions'[i])
      BY <2>1, <2>2, SwapOrders
    <2> QED
      BY <1>1, <2>1, <2>3 DEF EngineInv, Idle, Priced
  <1>5. CASE DropInstructions
    <2>1. instructions' = <<>> /\ assembly' = assembly
      BY <1>5 DEF DropInstructions
    <2> QED
      BY <1>1, <2>1 DEF EngineInv
  <1>6. ASSUME NEW i \in DOMAIN instructions, Execute(i) PROVE EngineInv'
    <2>1. instructions' = Without(i) /\ assembly' = assembly
      BY <1>6 DEF Execute
    <2>2. /\ DOMAIN instructions' = DOMAIN instructions \ {i}
          /\ \A j \in DOMAIN instructions' : instructions'[j] = instructions[j]
      BY <2>1, WithoutFacts
    <2> QED
      BY <1>1, <2>1, <2>2 DEF EngineInv, Priced
  <1>7. CASE UNCHANGED engineVars
    BY <1>1, <1>7 DEF EngineInv, Priced, engineVars
  <1> QED
    BY <1>2, <1>3, <1>4, <1>5, <1>6, <1>7 DEF Engine

\* What a step does with each venue is a call of somebody with some amount.
LEMMA VenueSteps ==
  ASSUME VenueInv, Next
  PROVE  /\ [RouterStep]_routerAllVars /\ [SeedStep]_poolVars
         /\ [CdpStep(Nat, Nat, Nat)]_cdpVars /\ [StrategyStep(Nat, Nat)]_strategyVars
  <1> USE DEF cdpAndStrategyVars, routerAllVars
  <1>1. /\ CdpAmounts \subseteq Nat /\ CdpPrices \subseteq Nat /\ CdpThresholds \subseteq Nat
        /\ Assets \subseteq Nat /\ Yields \subseteq Nat
        /\ TradeSizes \subseteq Nat /\ PairTrades \subseteq Nat /\ SwapCap \in Nat
    BY CdpAssumption, StrategyAssumption, VenueAssumption, SizingAssumption
  <1>2. /\ now \in Nat
        /\ \A i \in DOMAIN instructions : instructions[i].amountIn \in Nat
    BY DEF VenueInv, EngineInv, RouterInv, FeedTypeOK
  <1>3. CASE Engine
    BY <1>3 DEF Engine, ReceiveSignal, ReadFxrpFeed, ReadUsdt0FeedAndAnswer, DropInstructions
  <1>4. ASSUME NEW i \in DOMAIN instructions, Execute(i)
        PROVE  /\ [RouterStep]_routerAllVars /\ [SeedStep]_poolVars
               /\ [CdpStep(Nat, Nat, Nat)]_cdpVars /\ [StrategyStep(Nat, Nat)]_strategyVars
    <2>1. PICK a \in Nat : a = instructions[i].amountIn
      BY <1>2
    <2>2. CASE venue = "mock-sparkdex" /\ ExecuteOnRouter(i)
      <3>1. ~MockVenue /\ Priced(instructions[i])
        BY <2>2 DEF MockVenue, VenueInv, EngineInv
      <3>2. RouterCall /\ UNCHANGED <<feedVars, poolVars, cdpAndStrategyVars>>
        BY <2>1, <2>2, <3>1 DEF ExecuteOnRouter, RouterCall, Priced
      <3> QED
        BY <3>2 DEF RouterStep
    <2>3. CASE venue = "blazeswap-v2" /\ ExecuteOnPair(i)
      <3>1. ~MockVenue /\ Priced(instructions[i])
        BY <2>3 DEF MockVenue, VenueInv, EngineInv
      <3>2. SeedStep /\ UNCHANGED <<feedVars, routerVars, cdpAndStrategyVars>>
        BY <2>1, <2>3, <3>1 DEF ExecuteOnPair, SeedStep, Priced
      <3> QED
        BY <3>2
    <2>4. CASE \E u \in Users : ExecuteCdp(i, u)
      <3>1. a \div 2 \in Nat
        BY <2>1
      <3>2. CdpStep(Nat, Nat, Nat) /\ UNCHANGED <<feedVars, routerVars, poolVars, strategyVars>>
        BY <2>1, <2>4, <3>1 DEF ExecuteCdp, CdpStep, CdpCall
      <3> QED
        BY <3>2
    <2>5. CASE \E u \in Users : ExecuteDeposit(i, u)
      <3>1. StrategyStep(Nat, Nat) /\ UNCHANGED <<feedVars, routerVars, poolVars, cdpVars>>
        BY <2>1, <2>5 DEF ExecuteDeposit, StrategyStep
      <3> QED
        BY <3>1
    <2> QED
      BY <1>4, <2>2, <2>3, <2>4, <2>5 DEF Execute
  <1>5. CASE Environment
    <2>1. CASE NextBlock /\ UNCHANGED <<poolVars, cdpAndStrategyVars>>
      BY <2>1 DEF RouterStep
    <2>2. CASE OthersOnRouter /\ UNCHANGED <<feedVars, poolVars, cdpAndStrategyVars>>
      <3>1. RouterCall
        <4>1. ASSUME NEW t \in FeedTokens, NEW a \in TradeSizes,
                     ExactInputSingle(t, a, 0, now) \/ ExactOutputSingle(t, a, SwapCap, now)
              PROVE  RouterCall
          BY <1>1, <1>2, <4>1 DEF RouterCall
        <4>2. ASSUME NEW s \in Snapshots, SetAnchorSnapshot(s, now) PROVE RouterCall
          BY <1>2, <4>2 DEF RouterCall
        <4> QED
          BY <2>2, <4>1, <4>2 DEF OthersOnRouter
      <3> QED
        BY <2>2, <3>1 DEF RouterStep
    <2>3. CASE (OthersOnPair \/ SeedNext) /\ UNCHANGED <<feedVars, routerVars, cdpAndStrategyVars>>
      <3>1. SeedStep
        BY <1>1, <2>3 DEF OthersOnPair, SeedStep
      <3> QED
        BY <2>3, <3>1
    <2>4. CASE CdpNext /\ UNCHANGED <<feedVars, routerVars, poolVars, strategyVars>>
      <3>1. CdpStep(Nat, Nat, Nat)
        BY <1>1, <2>4 DEF CdpNext, CdpStep, CdpCall
      <3> QED
        BY <2>4, <3>1
    <2>5. CASE StrategyNext /\ UNCHANGED <<feedVars, routerVars, poolVars, cdpVars>>
      <3>1. StrategyStep(Nat, Nat)
        BY <1>1, <2>5 DEF StrategyNext, StrategyStep
      <3> QED
        BY <2>5, <3>1
    <2> QED
      BY <1>5, <2>1, <2>2, <2>3, <2>4, <2>5 DEF Environment
  <1> QED
    BY <1>3, <1>4, <1>5 DEF Next

LEMMA VenueStutter ==
  ASSUME UNCHANGED vars
  PROVE  /\ UNCHANGED routerAllVars /\ UNCHANGED poolVars /\ UNCHANGED cdpVars
         /\ UNCHANGED strategyVars /\ UNCHANGED engineVars /\ venue' = venue
  BY DEF vars, routerAllVars, cdpAndStrategyVars

LEMMA VenueInitInv == Init => VenueInv
  <1> SUFFICES ASSUME Init PROVE VenueInv
    OBVIOUS
  <1>1. EngineInv
    BY DEF Init, EngineInv, Idle
  <1>2. EventTyped
    BY DEF Init, RouterInit, EventTyped
  <1> QED
    BY <1>1, <1>2, RouterInitInv, SeedInitInv, CdpInitInv, CdpInitBooks, StrategyInitInv, SharesInit
       DEF Init, VenueInv

LEMMA VenueNextInv == VenueInv /\ [Next]_vars => VenueInv'
  <1> SUFFICES ASSUME VenueInv, [Next]_vars PROVE VenueInv'
    OBVIOUS
  <1>1. /\ EngineInv /\ RouterInv /\ EventTyped /\ SeedInv /\ CdpInv /\ CdpBooks
        /\ StrategyInv /\ SharesAddUp /\ FeedTypeOK
    BY DEF VenueInv, RouterInv
  <1>2. /\ [RouterStep]_routerAllVars /\ [SeedStep]_poolVars
        /\ [CdpStep(Nat, Nat, Nat)]_cdpVars /\ [StrategyStep(Nat, Nat)]_strategyVars
    BY VenueSteps, VenueStutter
  <1>3. /\ venue' = venue
        /\ Engine \/ (\E i \in DOMAIN instructions : Execute(i)) \/ UNCHANGED engineVars
    BY VenueStutter DEF Next
  <1>4. EngineInv'
    BY <1>1, <1>3, EngineNextInv
  <1> QED
    BY <1>1, <1>2, <1>4, RouterNextInv, EventNextTyped, SeedNextInv, CdpNextInv, CdpNextBooks,
       StrategyNextInv, SharesNext DEF VenueInv

LEMMA VenueInductive == Spec => []VenueInv
  BY VenueInitInv, VenueNextInv, PTL DEF Spec

\* Each venue sees only what its own specification lets anybody do, whatever the
\* engine answered and whoever executes it.
THEOREM VenuesImplemented == Spec => RouterSpec /\ CdpSpec /\ StrategySpec
  <1>1. Init => FeedInit /\ RouterInit /\ CdpInit /\ StrategyInit
    BY DEF Init
  <1>2. VenueInv /\ [Next]_vars =>
           /\ [RouterStep]_routerAllVars
           /\ [CdpStep(Nat, Nat, Nat)]_cdpVars /\ [StrategyStep(Nat, Nat)]_strategyVars
    BY VenueSteps, VenueStutter
  <1> QED
    BY <1>1, <1>2, VenueInductive, PTL
       DEF Spec, RouterSpec, CdpSpec, StrategySpec, routerAllVars, RouterStep

\* The properties of each venue, of the venues that matches are executed on.
THEOREM VenuePropertiesHold ==
  Spec => /\ LargeSwapsStayClose /\ ValueKept /\ SwapsRenewAnchor
          /\ UserCallsKeepCdpSafe /\ ShareValueKept
  BY VenuesImplemented, LargeSwapsClose, SwapsKeepValue, AnchorStaysFresh, UsersKeepCdpSafe,
     SharesKeepValue, PTL

\* The books of every venue hold: stable and debt, tokens and positions, shares,
\* assets and yield, and a configured pair has reserves.
THEOREM VenuesKeepBooks == Spec => []VenueBooks
  <1>1. VenueInv => VenueBooks
    <2> SUFFICES ASSUME VenueInv PROVE VenueBooks
      OBVIOUS
    <2>1. TypeOK
      BY DEF VenueInv, EngineInv, RouterInv, EventTyped, RouterTypeOK, SeedInv, CdpInv, CdpBooks,
             CdpTypeOK, StrategyInv, TypeOK
    <2>2. StableMatchesDebt /\ CollateralHeld /\ AssetsExplained /\ SharesAddUp
      BY DEF VenueInv, CdpInv, CdpBooks, StrategyInv
    <2>3. ConfiguredPairTrades
      BY DEF VenueInv, SeedInv, ConfiguredPairTrades, PairFunded
    <2> QED
      BY <2>1, <2>2, <2>3 DEF VenueBooks
  <1> QED
    BY <1>1, VenueInductive, PTL

\* The first liquidity of the pair is balanced at the prices its script read.
THEOREM PairSeededBalanced == Spec => SeededAtFeedPrice
  <1> DEFINE Balanced ==
        reserves = Nothing /\ reserves' # Nothing /\ 0 \notin {seedPrice["FXRP"], seedPrice["USDT0"]} =>
          LET fxrp == reserves'["FXRP"] * seedPrice["FXRP"]
              usdt == reserves'["USDT0"] * seedPrice["USDT0"]
          IN  /\ fxrp <= usdt
              /\ fxrp + seedPrice["FXRP"] > usdt \/ reserves'["FXRP"] = funds["FXRP"] \div 2
  <1>1. VenueInv /\ [Next]_vars => [Balanced]_poolVars
    <2> SUFFICES ASSUME VenueInv, [Next]_vars, ~UNCHANGED poolVars PROVE Balanced
      OBVIOUS
    <2>1. SeedInv /\ SeedStep
      BY VenueSteps, VenueStutter DEF VenueInv
    <2> QED
      BY <2>1, FirstLiquidityBalanced
  <1> QED
    BY <1>1, VenueInductive, PTL DEF Spec, SeededAtFeedPrice

\* What a swap venue pays for an order is at least the order's minimum.
LEMMA OrderPaid ==
  ASSUME VenueInv, NEW i \in DOMAIN instructions, Execute(i),
         swapEvent' \notin {swapEvent, NoSwap} \/ reserves' # reserves
  PROVE  /\ Priced(instructions[i]) /\ now <= instructions[i].deadline
         /\ Paid(instructions[i]) \in Int /\ Paid(instructions[i]) >= instructions[i].minimum
  <1> DEFINE order == instructions[i]
  <1>1. order.amountIn \in Nat /\ (~MockVenue => Priced(order))
    BY DEF VenueInv, EngineInv
  <1>2. CASE venue = "mock-sparkdex" /\ ExecuteOnRouter(i)
    <2>1. Priced(order)
      BY <1>1, <1>2 DEF MockVenue
    <2>2. /\ now <= order.deadline /\ price[Other(order.tokenIn)] # 0
          /\ QuoteExactInput(order.tokenIn, order.amountIn) >= order.minimum
          /\ swapEvent'.amountOut = QuoteExactInput(order.tokenIn, order.amountIn)
      BY <1>2 DEF ExecuteOnRouter, ExactInputSingle, Swapped
    <2>3. QuoteExactInput(order.tokenIn, order.amountIn) \in Nat
      BY <1>1, <2>1, <2>2, QuotesNat DEF VenueInv, Priced
    <2> QED
      BY <1>2, <2>1, <2>2, <2>3 DEF Paid
  <1>3. CASE venue = "blazeswap-v2" /\ ExecuteOnPair(i)
    <2>1. Priced(order)
      BY <1>1, <1>3 DEF MockVenue
    <2>2. now <= order.deadline /\ PairSwap(order.tokenIn, order.amountIn, order.minimum)
      BY <1>3 DEF ExecuteOnPair
    <2>3. /\ PairQuote(order.tokenIn, order.amountIn) \in Nat
          /\ PairQuote(order.tokenIn, order.amountIn) >= order.minimum
          /\ reserves[Other(order.tokenIn)] - reserves'[Other(order.tokenIn)]
                = PairQuote(order.tokenIn, order.amountIn)
      BY <1>1, <2>1, <2>2, PairSwapFacts DEF VenueInv, Priced
    <2> QED
      BY <1>3, <2>1, <2>2, <2>3 DEF Paid
  <1>4. CASE \E u \in Users : ExecuteCdp(i, u) \/ ExecuteDeposit(i, u)
    <2>1. swapEvent' = swapEvent /\ reserves' = reserves
      BY <1>4 DEF ExecuteCdp, ExecuteDeposit, routerVars, poolVars, pairVars
    <2> QED
      BY <2>1
  <1> QED
    BY <1>2, <1>3, <1>4 DEF Execute

\* SlippageBounded: a swap that executes an answer does so within the deadline and pays
\* at least 99 percent of the notional at the prices read, however long it waited, for
\* any feeds, signals and amounts.
THEOREM SlippageIsBounded == Spec => SlippageBounded
  <1> DEFINE Executed(i) ==
        instructions' = Without(i)
          /\ (swapEvent' \notin {swapEvent, NoSwap} \/ reserves' # reserves)
             Bounded(order) ==
        /\ now <= order.deadline
        /\ (Paid(order) * 10000 + 19900) * order.priceOut > 9900 * order.amountIn * order.priceIn
             Kept == \A i \in DOMAIN instructions :
                        LET order == instructions[i]
                        IN  instructions' = Without(i)
                              /\ (swapEvent' \notin {swapEvent, NoSwap} \/ reserves' # reserves) =>
                            /\ now <= order.deadline
                            /\ (Paid(order) * 10000 + 19900) * order.priceOut
                                  > 9900 * order.amountIn * order.priceIn
  <1>1. VenueInv /\ [Next]_vars => [Kept]_vars
    <2> SUFFICES ASSUME VenueInv, Next, NEW i \in DOMAIN instructions, Executed(i)
                 PROVE  Bounded(instructions[i])
      OBVIOUS
    <2>1. /\ DOMAIN instructions' = DOMAIN instructions \ {i}
      BY WithoutFacts
    <2>2. ~Engine
      <3>1. instructions = <<>> => FALSE
        OBVIOUS
      <3>2. assembly.step \in {"received", "fxrpRead"} => FALSE
        BY DEF VenueInv, EngineInv
      <3>3. ~DropInstructions
        BY DEF DropInstructions, routerVars, poolVars, pairVars
      <3> QED
        BY <3>1, <3>2, <3>3 DEF Engine, ReceiveSignal, ReadFxrpFeed, ReadUsdt0FeedAndAnswer
    <2>3. ~UNCHANGED engineVars
      BY <2>1 DEF engineVars
    <2>4. PICK j \in DOMAIN instructions : Execute(j)
      BY <2>2, <2>3 DEF Next
    <2>5. i = j
      <3>1. DOMAIN instructions' = DOMAIN instructions \ {j}
        BY <2>4, WithoutFacts DEF Execute
      <3> QED
        BY <2>1, <3>1
    <2>6. /\ Priced(instructions[i]) /\ now <= instructions[i].deadline
          /\ Paid(instructions[i]) \in Int /\ Paid(instructions[i]) >= instructions[i].minimum
          /\ instructions[i].amountIn \in Nat
      BY <2>4, <2>5, OrderPaid DEF VenueInv, EngineInv
    <2>7. PICK a \in Nat, p \in Nat, q \in Nat \ {0}, m \in Nat, paid \in Int :
             /\ a = instructions[i].amountIn /\ p = instructions[i].priceIn
             /\ q = instructions[i].priceOut /\ m = instructions[i].minimum
             /\ paid = Paid(instructions[i]) /\ paid >= m /\ m = AmountOutMinimum(a, p, q)
      BY <2>6 DEF Priced
    <2>8. (paid * 10000 + 19900) * q > 9900 * a * p
      <3>1. (m * 10000 + 19900) * q > 9900 * a * p
        <4>1. CloseToPrice(AmountOutMinimum(a, p, q), a, p, q)
          BY ONLY a \in Nat, p \in Nat, q \in Nat \ {0}, MinimumNat, Zenon
        <4>2. m = AmountOutMinimum(a, p, q)
          BY <2>7
        <4> QED
          BY ONLY <4>1, <4>2 DEF CloseToPrice
      <3>2. (m * 10000 + 19900) * q <= (paid * 10000 + 19900) * q
        BY <2>7, ProductMono
      <3>3. 9900 * a * p \in Nat
        OBVIOUS
      <3> QED
        BY <3>1, <3>2, <3>3
    <2> QED
      BY <2>6, <2>7, <2>8
  <1> QED
    BY <1>1, VenueInductive, PTL DEF Spec, SlippageBounded

=============================================================================
