------------------------------ MODULE VenueParties ------------------------------
(***************************************************************************)
(* Who trades on the venues, and the scale of their prices.                *)
(***************************************************************************)
EXTENDS Integers, FiniteSets

CONSTANTS Users,    \* followers, and whoever else calls a venue
          PriceOne  \* a price of one dollar (1e18 in the code)

\* A user is an address of 20 bytes.
ASSUME PartiesAssumption == IsFiniteSet(Users) /\ PriceOne \in Nat \ {0}

=============================================================================
