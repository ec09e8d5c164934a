---------------------------- MODULE FirelightStrategy ----------------------------
(***************************************************************************)
(* contracts/src/mocks/MockFirelightStrategy.sol: shares of a pool whose   *)
(* yield is credited by the owner, without tokens behind it.               *)
(***************************************************************************)
EXTENDS VenueParties, Functions

CONSTANTS Assets,     \* amounts of a call
          Yields,     \* what the owner sets
          MaxAssets   \* bound: assets of the pool

ASSUME StrategyAssumption ==
    /\ Assets \subseteq Nat
    /\ Yields \subseteq Nat
    /\ MaxAssets \in Nat

VARIABLES shareOf,  \* balanceOf
          totalShares, totalAssets, yieldAmount,
          assetHeld \* tokens of the contract

strategyVars == <<shareOf, totalShares, totalAssets, yieldAmount, assetHeld>>

StrategyTypeOK ==
    /\ shareOf \in [Users -> Nat]
    /\ totalShares \in Nat
    /\ totalAssets \in Nat
    /\ yieldAmount \in Nat
    /\ assetHeld \in Nat

StrategyInit ==
    /\ shareOf = [u \in Users |-> 0]
    /\ totalShares = 0
    /\ totalAssets = 0
    /\ yieldAmount = 0
    /\ assetHeld = 0

SetYieldAmount(amount) ==
    /\ totalAssets + amount - yieldAmount <= MaxAssets
    /\ totalAssets' = IF amount >= yieldAmount THEN totalAssets + (amount - yieldAmount)
                      ELSE IF totalAssets > yieldAmount - amount
                           THEN totalAssets - (yieldAmount - amount) ELSE 0
    /\ yieldAmount' = amount
    /\ UNCHANGED <<shareOf, totalShares, assetHeld>>

\* Mutant: shares are rounded up.
SharesRoundedUp(assets) ==
    IF totalShares = 0 \/ totalAssets = 0 THEN assets
    ELSE ((assets * totalShares) + totalAssets - 1) \div totalAssets

\* A pool without shares or without assets starts at one to one.
ProRata(assets) ==
    IF totalShares = 0 \/ totalAssets = 0 THEN assets
    ELSE (assets * totalShares) \div totalAssets

DepositAssets(u, assets) ==
    LET shares == IF ProRata(assets) = 0 THEN assets ELSE ProRata(assets)
    IN  /\ assets > 0
        /\ totalAssets + assets <= MaxAssets
        /\ shareOf' = [shareOf EXCEPT ![u] = @ + shares]
        /\ totalShares' = totalShares + shares
        /\ totalAssets' = totalAssets + assets
        /\ assetHeld' = assetHeld + assets
        /\ UNCHANGED yieldAmount

\* Mutant: the shares are paid out and not burnt from the total.
WithdrawKeepingTotal(u, shares) ==
    LET assets == (shares * totalAssets) \div totalShares
    IN  /\ shares > 0
        /\ shares <= shareOf[u]
        /\ assets <= assetHeld
        /\ shareOf' = [shareOf EXCEPT ![u] = @ - shares]
        /\ totalAssets' = totalAssets - assets
        /\ assetHeld' = assetHeld - assets
        /\ UNCHANGED <<totalShares, yieldAmount>>

\* Reverts when the tokens that the yield stands for are not there, and where one
\* of the subtractions would go below zero.
WithdrawShares(u, shares) ==
    LET assets == IF totalShares = 0 THEN 0 ELSE (shares * totalAssets) \div totalShares
    IN  /\ shares > 0
        /\ shares <= shareOf[u] /\ shares <= totalShares
        /\ assets <= assetHeld /\ assets <= totalAssets
        /\ shareOf' = [shareOf EXCEPT ![u] = @ - shares]
        /\ totalShares' = totalShares - shares
        /\ totalAssets' = totalAssets - assets
        /\ assetHeld' = assetHeld - assets
        /\ UNCHANGED yieldAmount

StrategyStep(assets, yields) ==
    \/ \E u \in Users, a \in assets : DepositAssets(u, a) \/ WithdrawShares(u, a)
    \/ \E y \in yields : SetYieldAmount(y)

StrategyNext == StrategyStep(Assets, Yields)

\* Anybody calls with any amount, and the owner sets anything.
StrategySpec == StrategyInit /\ [][StrategyStep(Nat, Nat)]_strategyVars

-----------------------------------------------------------------------------
(* Properties. *)

\* What the shares are worth is what the contract holds and the yield set last:
\* no order of deposits, withdrawals and changes of the yield drives them apart,
\* and the branch of setYieldAmount that cuts the assets to zero never loses any.
AssetsExplained == totalAssets = assetHeld + yieldAmount

\* The shares of the users add up, so a withdrawal is never larger than the pool.
SharesAddUp == totalShares = SumFunctionOnSet(shareOf, Users)

\* A share never loses value to somebody else's deposit or withdrawal: only a
\* lower yield, and the deposit that is too small for a share and gets shares all
\* the same, may lower it.
ShareValueKept ==
    [][(\/ yieldAmount' < yieldAmount
        \/ totalAssets' > totalAssets /\ ProRata(totalAssets' - totalAssets) = 0)
       \/ totalShares = 0 \/ totalShares' = 0
       \/ totalAssets' * totalShares >= totalAssets * totalShares']_strategyVars

=============================================================================
