------------------------------- MODULE Onboarding -------------------------------
(***************************************************************************)
(* contracts/src/MirrorFsaOnboarder.sol composed with MirrorRegistry and   *)
(* MirrorVault: XRPL Personal Accounts onboard in one call, other          *)
(* followers register, follow and deposit by themselves, and everybody's   *)
(* FXRP is accounted for.  Nothing is matched here, so an account changes  *)
(* by deposits and withdrawals only.                                       *)
(***************************************************************************)
EXTENDS MirrorRegistry, MirrorVault, Functions

CONSTANT Funds  \* FXRP a follower starts with

ASSUME OnboardingAssumption == Funds \in Nat

VARIABLE wallet  \* fxrpToken.balanceOf(follower)

vars == <<registryVars, vaultVars, wallet>>

TypeOK ==
    /\ RegistryTypeOK
    /\ VaultTypeOK
    /\ wallet \in [Followers -> Nat]

\* The deploy scripts wire the onboarder last, in the registry and in the vault.
Init ==
    /\ RegistryInit
    /\ VaultInit
    /\ wallet = [f \in Followers |-> Funds]

-----------------------------------------------------------------------------
(* onboard *)

\* registerFollowerAs and followLeadAs, each only if it is still needed.
EnsureRegistered(f) ==
    /\ f \notin followers => registryRole
    /\ followers' = followers \cup {f}

EnsureFollowing(a, amount) ==
    \/ a \in following /\ UNCHANGED followVars
    \/ registryRole /\ Follow(a, amount, followers')

\* Mutants: the minimum is checked nowhere; the tokens stay where they are.
OnboardUnchecked(a, amount) ==
    /\ amount > 0 /\ a[1] # Zero /\ a[2] # Zero
    /\ IsLead(a[2]) /\ registryRole
    /\ a \notin following
    /\ followers' = followers \cup {a[1]}
    /\ following' = following \cup {a}
    /\ allocation' = [allocation EXCEPT ![a] = amount]
    /\ followerLeads' = [followerLeads EXCEPT ![a[1]] = Append(@, a[2])]
    /\ leadFollowers' = [leadFollowers EXCEPT ![a[2]] = Append(@, a[1])]
    /\ Len(followerLeads[a[1]]) < MaxListed /\ Len(leadFollowers[a[2]]) < MaxListed
    /\ wallet[a[1]] >= amount
    /\ wallet' = [wallet EXCEPT ![a[1]] = @ - amount]
    /\ DepositFor(a, amount)
    /\ UNCHANGED <<leadVars, registryRole>>
OnboardUnpaid(a, amount) ==
    /\ amount > 0 /\ a[1] # Zero /\ a[2] # Zero
    /\ IsLead(a[2]) /\ amount >= terms[a[2]].minAllocation
    /\ EnsureRegistered(a[1])
    /\ EnsureFollowing(a, amount)
    /\ DepositFor(a, amount)
    /\ UNCHANGED <<leadVars, registryRole, wallet>>

\* A revert of any of the calls reverts them all, a missing approval included.  What
\* the onboarder pulls, the vault pulls from it in the same call.
Onboard(a, amount) ==
    /\ amount > 0 /\ a[1] # Zero /\ a[2] # Zero
    /\ IsLead(a[2]) /\ amount >= terms[a[2]].minAllocation
    /\ EnsureRegistered(a[1])
    /\ EnsureFollowing(a, amount)
    /\ wallet[a[1]] >= amount
    /\ wallet' = [wallet EXCEPT ![a[1]] = @ - amount]
    /\ DepositFor(a, amount)
    /\ UNCHANGED <<leadVars, registryRole>>

-----------------------------------------------------------------------------
(* The vault's own calls, with the follower's tokens. *)

OwnDeposit(a, amount) ==
    /\ Deposit(a, amount)
    /\ wallet[a[1]] >= amount
    /\ wallet' = [wallet EXCEPT ![a[1]] = @ - amount]
    /\ UNCHANGED registryVars

Withdraw(a) ==
    /\ FinalizeWithdrawal(a)
    /\ wallet' = [wallet EXCEPT ![a[1]] = @ + pendingWithdrawal[a]]
    /\ UNCHANGED registryVars

LeadCall ==
    \/ \E l \in Leads, t \in Terms : RegisterLead(l, t)
    \/ \E l \in Leads, flag \in BOOLEAN : SetLeadVerified(l, flag)

RegistryCall ==
    \/ LeadCall
    \/ \E set \in BOOLEAN : SetRegistryRole(set)
    \/ \E f \in Followers : RegisterFollower(f)
    \/ \E a \in Accounts : UnfollowLead(a)
    \/ \E a \in Accounts, amount \in Amounts : FollowLead(a, amount)

Next ==
    \/ RegistryCall /\ UNCHANGED <<vaultVars, wallet>>
    \/ \E r \in VaultRoles : SetVaultRole(r) /\ UNCHANGED <<registryVars, wallet>>
    \/ \E a \in Accounts, amount \in Amounts :
          \/ Onboard(a, amount)
          \/ OwnDeposit(a, amount)
          \/ RequestWithdrawal(a, amount) /\ UNCHANGED <<registryVars, wallet>>
    \/ \E a \in Accounts : Withdraw(a)

Spec == Init /\ [][Next]_vars

-----------------------------------------------------------------------------
(* Properties. *)

\* A follower's FXRP in the vault, by sub-account.
Equity(f) == [l \in Leads |-> balance[<<f, l>>] + pendingWithdrawal[<<f, l>>]]

\* A follower's FXRP is in its wallet or in its own sub-accounts, to the last unit:
\* no onboarding, repeated, partly needed or mixed with deposits of its own and
\* withdrawals, credits without taking, takes without crediting or is paid by
\* somebody else, and nothing is left with the onboarder.
FollowerFundsKept ==
    \A f \in Followers : wallet[f] + SumFunctionOnSet(Equity(f), Leads) = Funds

=============================================================================
