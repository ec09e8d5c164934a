------------------------------ MODULE MCOnboarding ------------------------------
(* Onboarding on small instances. *)
EXTENDS Onboarding

CONSTANTS f1, f2, l1

\* A lead at the highest rate that asks for two units, one that asks for nothing,
\* and one above the cap, which cannot register.
MCTerms == {[feeRateBps |-> 2000, minAllocation |-> 2],
            [feeRateBps |-> 0, minAllocation |-> 0],
            [feeRateBps |-> 2001, minAllocation |-> 0]}

NoSettlements == {}

=============================================================================
