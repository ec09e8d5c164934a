---------------------------- MODULE MirrorAddresses ----------------------------
(* The addresses and amounts the contract modules share. *)
EXTENDS Integers, FiniteSets, Sequences

CONSTANTS Followers,  \* addresses that hold sub-accounts
          Leads,      \* addresses a sub-account is keyed by
          Zero,       \* address(0); it may be a member of either set
          Amounts     \* token amounts callers pass

ASSUME AmountsAssumption == Amounts \subseteq Nat

\* An address has 20 bytes.
ASSUME AddressAssumption == IsFiniteSet(Followers) /\ IsFiniteSet(Leads)

\* One vault sub-account per (follower, lead).
Accounts == Followers \X Leads

=============================================================================
