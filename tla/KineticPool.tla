------------------------------- MODULE KineticPool -------------------------------
(***************************************************************************)
(* contracts/src/mocks/MockKineticPool.sol: supplies and borrows of one     *)
(* asset.  The price weighs the collateral only, so a lower price makes     *)
(* positions liquidatable.                                                  *)
(***************************************************************************)
EXTENDS VenueParties, Functions

CONSTANTS KineticThresholds, \* values the owner sets
          DeployedThreshold,
          PoolSeed           \* tokens the pool was given to lend

ASSUME KineticAssumption ==
    /\ KineticThresholds \subseteq Nat
    /\ {PoolSeed, DeployedThreshold} \subseteq Nat

VARIABLES supplyBalance, borrowBalance, totalSupply, totalBorrow,
          kineticPrice,             \* priceWei
          liquidationThresholdBps,
          kineticHeld               \* tokens of the pool

kineticSettings == <<kineticPrice, liquidationThresholdBps>>
kineticVars == <<supplyBalance, borrowBalance, totalSupply, totalBorrow,
                 kineticSettings, kineticHeld>>

KineticTypeOK ==
    /\ supplyBalance \in [Users -> Nat]
    /\ borrowBalance \in [Users -> Nat]
    /\ {totalSupply, totalBorrow, kineticPrice, liquidationThresholdBps, kineticHeld} \subseteq Nat

KineticInit ==
    /\ supplyBalance = [u \in Users |-> 0]
    /\ borrowBalance = [u \in Users |-> 0]
    /\ totalSupply = 0
    /\ totalBorrow = 0
    /\ kineticPrice = PriceOne
    /\ liquidationThresholdBps = DeployedThreshold
    /\ kineticHeld = PoolSeed

\* _collateralRatioBps; the code's type(uint256).max stands for no debt.
NoDebt == 1000000
Ratio(supplied, borrowed) ==
    IF borrowed = 0 THEN NoDebt
    ELSE (((supplied * kineticPrice) \div PriceOne) * 10000) \div borrowed

CollateralRatioBps(u) == Ratio(supplyBalance[u], borrowBalance[u])

IsLiquidatable(u) == borrowBalance[u] # 0 /\ CollateralRatioBps(u) < liquidationThresholdBps

Supply(u, amount) ==
    /\ amount # 0
    /\ supplyBalance' = [supplyBalance EXCEPT ![u] = @ + amount]
    /\ totalSupply' = totalSupply + amount
    /\ kineticHeld' = kineticHeld + amount
    /\ UNCHANGED <<borrowBalance, totalBorrow, kineticSettings>>

\* Mutant: the ratio is checked before the new debt counts.
BorrowableBefore(u, amount) ==
    /\ amount # 0
    /\ Ratio(supplyBalance[u], borrowBalance[u]) >= liquidationThresholdBps
    /\ kineticHeld >= amount

Borrowable(u, amount) ==
    /\ amount # 0
    /\ Ratio(supplyBalance[u], borrowBalance[u] + amount) >= liquidationThresholdBps
    /\ kineticHeld >= amount

Borrow(u, amount) ==
    /\ Borrowable(u, amount)
    /\ borrowBalance' = [borrowBalance EXCEPT ![u] = @ + amount]
    /\ totalBorrow' = totalBorrow + amount
    /\ kineticHeld' = kineticHeld - amount
    /\ UNCHANGED <<supplyBalance, totalSupply, kineticSettings>>

Repay(u, amount) ==
    LET pay == IF amount > borrowBalance[u] THEN borrowBalance[u] ELSE amount
    IN  /\ amount # 0
        /\ borrowBalance' = [borrowBalance EXCEPT ![u] = @ - pay]
        /\ totalBorrow' = totalBorrow - pay
        /\ kineticHeld' = kineticHeld + pay
        /\ UNCHANGED <<supplyBalance, totalSupply, kineticSettings>>

\* Mutant: what is seized stays in the total.
LiquidateKeepingTotal(u, amount) ==
    LET pay   == IF amount > borrowBalance[u] THEN borrowBalance[u] ELSE amount
        seize == IF pay > supplyBalance[u] THEN supplyBalance[u] ELSE pay
    IN  /\ IsLiquidatable(u)
        /\ borrowBalance' = [borrowBalance EXCEPT ![u] = @ - pay]
        /\ totalBorrow' = totalBorrow - pay
        /\ supplyBalance' = [supplyBalance EXCEPT ![u] = @ - seize]
        /\ kineticHeld' = kineticHeld + pay - seize
        /\ UNCHANGED <<totalSupply, kineticSettings>>

\* Somebody pays for u and takes as much of u's collateral, as far as it goes.
Liquidate(u, amount) ==
    LET pay   == IF amount > borrowBalance[u] THEN borrowBalance[u] ELSE amount
        seize == IF pay > supplyBalance[u] THEN supplyBalance[u] ELSE pay
    IN  /\ IsLiquidatable(u)
        /\ borrowBalance' = [borrowBalance EXCEPT ![u] = @ - pay]
        /\ totalBorrow' = totalBorrow - pay
        /\ supplyBalance' = [supplyBalance EXCEPT ![u] = @ - seize]
        /\ totalSupply' = totalSupply - seize
        /\ kineticHeld' = kineticHeld + pay - seize
        /\ UNCHANGED kineticSettings

\* setPrice
SetKineticPrice(p) ==
    /\ kineticPrice' = p
    /\ UNCHANGED <<supplyBalance, borrowBalance, totalSupply, totalBorrow,
                   liquidationThresholdBps, kineticHeld>>

\* setLiquidationThresholdBps
SetKineticThreshold(bps) ==
    /\ liquidationThresholdBps' = bps
    /\ UNCHANGED <<supplyBalance, borrowBalance, totalSupply, totalBorrow,
                   kineticPrice, kineticHeld>>

\* Anybody calls the pool with any amount.
KineticCall(u) ==
    \E amount \in Nat :
        Supply(u, amount) \/ Borrow(u, amount) \/ Repay(u, amount) \/ Liquidate(u, amount)

KineticNext ==
    \/ \E u \in Users : KineticCall(u)
    \/ \E n \in Nat : SetKineticPrice(n) \/ SetKineticThreshold(n)

KineticSpec == KineticInit /\ [][KineticNext]_kineticVars

-----------------------------------------------------------------------------
(* Properties. *)

\* The totals are the sums of the positions, and what the pool holds is its seed
\* and the supplies less what is lent, through repayments that are too large and
\* liquidations of positions with less collateral than debt.
KineticBooksBalance ==
    /\ totalSupply = SumFunctionOnSet(supplyBalance, Users)
    /\ totalBorrow = SumFunctionOnSet(borrowBalance, Users)
    /\ kineticHeld + totalBorrow = PoolSeed + totalSupply

\* Only the owner, by the price or the threshold, makes a position liquidatable:
\* no call of its user does, and no liquidation of a part of it.
CallsKeepKineticHealthy ==
    [][UNCHANGED kineticSettings =>
          \A u \in Users : ~IsLiquidatable(u) => ~IsLiquidatable(u)']_kineticVars

=============================================================================
