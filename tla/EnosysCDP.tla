-------------------------------- MODULE EnosysCDP --------------------------------
(***************************************************************************)
(* contracts/src/mocks/MockEnosysCDP.sol: collateral, and the stablecoin   *)
(* minted against it, which is a book entry of the contract.               *)
(***************************************************************************)
EXTENDS VenueParties, Functions

CONSTANTS CdpPrices, CdpThresholds,
          CdpAmounts,    \* amounts of a call
          MaxCollateral  \* bound: collateral of one user

ASSUME CdpAssumption ==
    /\ CdpPrices \subseteq Nat
    /\ CdpThresholds \subseteq Nat
    /\ CdpAmounts \subseteq Nat
    /\ MaxCollateral \in Nat

VARIABLES collateralOf, debtOf, stableBalance,
          cdpPrice,      \* priceWei
          cdpThreshold,  \* liquidationThresholdBps
          cdpHeld        \* collateral tokens of the contract

cdpSettings == <<cdpPrice, cdpThreshold>>
cdpVars     == <<collateralOf, debtOf, stableBalance, cdpSettings, cdpHeld>>

CdpTypeOK ==
    /\ collateralOf \in [Users -> Nat]
    /\ debtOf \in [Users -> Nat]
    /\ stableBalance \in [Users -> Nat]
    /\ cdpPrice \in Nat
    /\ cdpThreshold \in Nat
    /\ cdpHeld \in Nat

CdpInit ==
    /\ collateralOf = [u \in Users |-> 0]
    /\ debtOf = [u \in Users |-> 0]
    /\ stableBalance = [u \in Users |-> 0]
    /\ cdpPrice = PriceOne
    /\ cdpThreshold = 15000
    /\ cdpHeld = 0

\* _collateralRatioBps against the threshold; a position without debt is safe.
Covered(collateral, debt) ==
    IF debt = 0 THEN TRUE
    ELSE (((collateral * cdpPrice) \div PriceOne) * 10000) \div debt >= cdpThreshold

SafeCdp(u) == Covered(collateralOf[u], debtOf[u])

OpenCdp(u, collateral, mint) ==
    LET backing == collateralOf[u] + collateral
        debt    == debtOf[u] + mint
    IN  /\ collateral > 0 \/ mint > 0
        /\ backing <= MaxCollateral
        /\ mint > 0 => Covered(backing, debt)
        /\ collateralOf' = [collateralOf EXCEPT ![u] = backing]
        /\ debtOf' = [debtOf EXCEPT ![u] = debt]
        /\ stableBalance' = [stableBalance EXCEPT ![u] = @ + mint]
        /\ cdpHeld' = cdpHeld + collateral
        /\ UNCHANGED cdpSettings

\* Mutant: taking collateral out is not checked against the debt.
AdjustUnchecked(u, add, remove) ==
    LET backing == collateralOf[u] + add - remove
    IN  /\ remove <= collateralOf[u] + add
        /\ backing <= MaxCollateral
        /\ collateralOf' = [collateralOf EXCEPT ![u] = backing]
        /\ cdpHeld' = cdpHeld + add - remove
        /\ UNCHANGED <<debtOf, stableBalance, cdpSettings>>

AdjustCollateral(u, add, remove) ==
    LET backing == collateralOf[u] + add - remove
    IN  /\ remove <= collateralOf[u] + add
        /\ remove > 0 => Covered(backing, debtOf[u])
        /\ backing <= MaxCollateral
        /\ collateralOf' = [collateralOf EXCEPT ![u] = backing]
        /\ cdpHeld' = cdpHeld + add - remove
        /\ UNCHANGED <<debtOf, stableBalance, cdpSettings>>

MintStable(u, amount) ==
    /\ amount > 0
    /\ collateralOf[u] # 0
    /\ Covered(collateralOf[u], debtOf[u] + amount)
    /\ debtOf' = [debtOf EXCEPT ![u] = @ + amount]
    /\ stableBalance' = [stableBalance EXCEPT ![u] = @ + amount]
    /\ UNCHANGED <<collateralOf, cdpSettings, cdpHeld>>

RepayStable(u, amount) ==
    LET pay == IF amount > debtOf[u] THEN debtOf[u] ELSE amount
    IN  /\ amount > 0
        /\ stableBalance[u] >= pay
        /\ stableBalance' = [stableBalance EXCEPT ![u] = @ - pay]
        /\ debtOf' = [debtOf EXCEPT ![u] = @ - pay]
        /\ UNCHANGED <<collateralOf, cdpSettings, cdpHeld>>

CloseCdp(u) ==
    /\ debtOf[u] = 0
    /\ cdpHeld >= collateralOf[u]
    /\ collateralOf' = [collateralOf EXCEPT ![u] = 0]
    /\ cdpHeld' = cdpHeld - collateralOf[u]
    /\ UNCHANGED <<debtOf, stableBalance, cdpSettings>>

\* setPrice
SetCdpPrice(p) ==
    /\ cdpPrice' = p
    /\ UNCHANGED <<collateralOf, debtOf, stableBalance, cdpThreshold, cdpHeld>>

\* setLiquidationThresholdBps
SetCdpThreshold(bps) ==
    /\ cdpThreshold' = bps
    /\ UNCHANGED <<collateralOf, debtOf, stableBalance, cdpPrice, cdpHeld>>

CdpCall(u, amounts) ==
    \/ \E a, b \in amounts : OpenCdp(u, a, b) \/ AdjustCollateral(u, a, b)
    \/ \E a \in amounts : MintStable(u, a) \/ RepayStable(u, a)
    \/ CloseCdp(u)

CdpStep(amounts, prices, thresholds) ==
    \/ \E u \in Users : CdpCall(u, amounts)
    \/ \E p \in prices : SetCdpPrice(p)
    \/ \E bps \in thresholds : SetCdpThreshold(bps)

CdpNext == CdpStep(CdpAmounts, CdpPrices, CdpThresholds)

\* Anybody calls with any amount, and the owner sets anything.
CdpSpec == CdpInit /\ [][CdpStep(Nat, Nat, Nat)]_cdpVars

-----------------------------------------------------------------------------
(* Properties. *)

\* The stablecoin of a user is what the user owes, through every mix of minting,
\* repaying too much and closing: a debt can always be repaid.
StableMatchesDebt == \A u \in Users : stableBalance[u] = debtOf[u]

\* The contract holds exactly the collateral on its books.
CollateralHeld == cdpHeld = SumFunctionOnSet(collateralOf, Users)

\* A position falls below the threshold only when the owner moves the price or the
\* threshold, never by a call of its user.
UserCallsKeepCdpSafe ==
    [][UNCHANGED cdpSettings => \A u \in Users : SafeCdp(u) => SafeCdp(u)']_cdpVars

=============================================================================
