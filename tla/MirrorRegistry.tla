----------------------------- MODULE MirrorRegistry -----------------------------
(***************************************************************************)
(* contracts/src/MirrorRegistry.sol: leads with their terms, followers,    *)
(* who follows whom, and the two lists of it that clients read.  The calls *)
(* the FSA onboarder makes are composed in Onboarding.tla.                 *)
(***************************************************************************)
EXTENDS MirrorAddresses

CONSTANTS Terms,     \* what leads register with
          NoTerms,
          MaxListed  \* bound: entries in one list

MAX_FEE_RATE == 2000

ASSUME RegistryAssumption ==
    /\ Terms \subseteq [feeRateBps : Nat, minAllocation : Nat]
    /\ NoTerms \notin [feeRateBps : Nat, minAllocation : Nat]
    /\ MaxListed \in Nat

VARIABLES terms,          \* leads: the terms, or NoTerms for a zero wallet
          verified,       \* leads whose verified flag is set
          followers,      \* registered followers
          allocation,     \* followAllocations[..].allocation
          following,      \* accounts whose followAllocations[..].active is set
          followerLeads,  \* _followerLeads
          leadFollowers,  \* _leadFollowers
          registryRole    \* fsaOnboarder is set to the onboarder

leadVars     == <<terms, verified>>
followVars   == <<allocation, following, followerLeads, leadFollowers>>
registryVars == <<leadVars, followers, followVars, registryRole>>

IsLead(l) == terms[l] # NoTerms

RegistryTypeOK ==
    /\ terms \in [Leads -> Terms \cup {NoTerms}]
    /\ verified \in SUBSET Leads
    /\ followers \in SUBSET Followers
    /\ allocation \in [Accounts -> Nat]
    /\ following \in SUBSET Accounts
    /\ followerLeads \in [Followers -> Seq(Leads)]
    /\ leadFollowers \in [Leads -> Seq(Followers)]
    /\ registryRole \in BOOLEAN

RegistryInit ==
    /\ terms = [l \in Leads |-> NoTerms]
    /\ verified = {}
    /\ followers = {}
    /\ allocation = [a \in Accounts |-> 0]
    /\ following = {}
    /\ followerLeads = [f \in Followers |-> <<>>]
    /\ leadFollowers = [l \in Leads |-> <<>>]
    /\ registryRole = FALSE

\* setFsaOnboarder
SetRegistryRole(set) ==
    /\ registryRole' = set
    /\ UNCHANGED <<leadVars, followers, followVars>>

\* Mutant: a lead may register again, with other terms.
RegisterLeadAgain(l, t) ==
    /\ l # Zero
    /\ t.feeRateBps <= MAX_FEE_RATE
    /\ terms' = [terms EXCEPT ![l] = t]
    /\ UNCHANGED <<verified, followers, followVars, registryRole>>

RegisterLead(l, t) ==
    /\ l # Zero              \* msg.sender
    /\ ~IsLead(l)
    /\ t.feeRateBps <= MAX_FEE_RATE
    /\ terms' = [terms EXCEPT ![l] = t]
    /\ UNCHANGED <<verified, followers, followVars, registryRole>>

SetLeadVerified(l, flag) ==
    /\ IsLead(l)
    /\ verified' = IF flag THEN verified \cup {l} ELSE verified \ {l}
    /\ UNCHANGED <<terms, followers, followVars, registryRole>>

RegisterFollower(f) ==
    /\ f # Zero              \* msg.sender
    /\ f \notin followers
    /\ followers' = followers \cup {f}
    /\ UNCHANGED <<leadVars, followVars, registryRole>>

\* _followLead, given the followers registered by then.
Follow(a, amount, registered) ==
    /\ a[1] \in registered
    /\ IsLead(a[2])
    /\ amount >= terms[a[2]].minAllocation
    /\ a \notin following
    /\ Len(followerLeads[a[1]]) < MaxListed /\ Len(leadFollowers[a[2]]) < MaxListed
    /\ allocation' = [allocation EXCEPT ![a] = amount]
    /\ following' = following \cup {a}
    /\ followerLeads' = [followerLeads EXCEPT ![a[1]] = Append(@, a[2])]
    /\ leadFollowers' = [leadFollowers EXCEPT ![a[2]] = Append(@, a[1])]

FollowLead(a, amount) ==
    /\ Follow(a, amount, followers)
    /\ UNCHANGED <<leadVars, followers, registryRole>>

\* Mutant: the unfollowed lead is taken off one of the two lists.
UnfollowDelisting(a) ==
    /\ a \in following
    /\ following' = following \ {a}
    /\ allocation' = [allocation EXCEPT ![a] = 0]
    /\ followerLeads' = [followerLeads EXCEPT ![a[1]] = SelectSeq(@, LAMBDA l : l # a[2])]
    /\ UNCHANGED <<leadVars, followers, leadFollowers, registryRole>>

\* Neither list forgets the pair.
UnfollowLead(a) ==
    /\ a \in following
    /\ following' = following \ {a}
    /\ allocation' = [allocation EXCEPT ![a] = 0]
    /\ UNCHANGED <<leadVars, followers, followerLeads, leadFollowers, registryRole>>

-----------------------------------------------------------------------------
(* Properties. *)

\* Whoever follows a lead is registered, the lead is too, and the allocation meets
\* the minimum the lead asks for, however the pair came to follow: by itself or
\* through the onboarder, which checks the minimum against its own argument.
FollowersEntitled ==
    /\ \A a \in following :
          /\ a[1] \in followers
          /\ IsLead(a[2])
          /\ allocation[a] >= terms[a[2]].minAllocation
    /\ \A a \in Accounts \ following : allocation[a] = 0

Occurrences(x, s) == {i \in 1..Len(s) : s[i] = x}

\* The list of a follower's leads and the list of a lead's followers record the
\* same follows, also the repeated ones of a pair that unfollowed in between, and
\* no pair that follows is missing from them.
ListingsAgree ==
    \A a \in Accounts :
        LET asLead     == Occurrences(a[2], followerLeads[a[1]])
            asFollower == Occurrences(a[1], leadFollowers[a[2]])
        IN  /\ Cardinality(asLead) = Cardinality(asFollower)
            /\ a \in following => asLead # {}

\* The terms a lead registered with, its fee rate among them, are never changed
\* under those who follow it.
TermsFixed ==
    [][\A a \in following : terms'[a[2]] = terms[a[2]]]_registryVars

=============================================================================
