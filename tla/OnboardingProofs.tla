---------------------------- MODULE OnboardingProofs ----------------------------
(***************************************************************************)
(* Proofs about Onboarding.tla: who follows a lead is entitled to, the     *)
(* lead's terms stay what they were, and the lists mirror each other.      *)
(*                                                                         *)
(* These follow from the registry's own state: every step of Next either   *)
(* leaves registryVars alone or is one of the registry's changes, which    *)
(* RegistryStep lists.  Then the books of wallets and accounts, and that   *)
(* the composition implements the vault.                                   *)
(***************************************************************************)
EXTENDS Onboarding, MirrorVaultProofs, SumProofs

Register(f) == followers' = followers \cup {f} /\ UNCHANGED <<leadVars, registryRole>>

RegistryStep ==
    \/ \E l \in Leads, t \in Terms : RegisterLead(l, t)
    \/ \E l \in Leads, flag \in BOOLEAN : SetLeadVerified(l, flag)
    \/ \E set \in BOOLEAN : SetRegistryRole(set)
    \/ \E f \in Followers : Register(f) /\ UNCHANGED followVars
    \/ \E a \in Accounts : UnfollowLead(a)
    \/ \E a \in Accounts, amount \in Amounts :
          \/ FollowLead(a, amount)
          \/ Register(a[1]) /\ Follow(a, amount, followers')
    \/ UNCHANGED registryVars

LEMMA AccountFields ==
    ASSUME NEW a \in Accounts
    PROVE  a[1] \in Followers /\ a[2] \in Leads /\ a = <<a[1], a[2]>>
  BY DEF Accounts

\* Every step of the composition is a registry step.
LEMMA StepsOfRegistry == [Next]_vars => RegistryStep
<1> SUFFICES ASSUME [Next]_vars PROVE RegistryStep
  OBVIOUS
<1>1. CASE RegistryCall
  <2>1. CASE \E f \in Followers : RegisterFollower(f)
    BY <2>1 DEF RegisterFollower, RegistryStep, Register
  <2>2. CASE LeadCall
    BY <2>2 DEF LeadCall, RegistryStep
  <2> QED
    BY <1>1, <2>1, <2>2 DEF RegistryCall, RegistryStep
<1>2. ASSUME NEW a \in Accounts, NEW amount \in Amounts, Onboard(a, amount)
      PROVE  RegistryStep
  <2>1. Register(a[1])
    BY <1>2 DEF Onboard, EnsureRegistered, Register
  <2>2. CASE UNCHANGED followVars
    <3>1. a[1] \in Followers
      BY AccountFields
    <3> QED
      BY <2>1, <2>2, <3>1 DEF RegistryStep
  <2>3. CASE Follow(a, amount, followers')
    BY <2>1, <2>3 DEF RegistryStep
  <2> QED
    BY <1>2, <2>2, <2>3 DEF Onboard, EnsureFollowing
<1>3. CASE UNCHANGED registryVars
  BY <1>3 DEF RegistryStep
<1>4. ASSUME NEW a \in Accounts, NEW amount \in Amounts, OwnDeposit(a, amount)
      PROVE  RegistryStep
  BY <1>3, <1>4 DEF OwnDeposit
<1>5. ASSUME NEW a \in Accounts, Withdraw(a)
      PROVE  RegistryStep
  BY <1>3, <1>5 DEF Withdraw
<1>6. CASE UNCHANGED vars
  BY <1>3, <1>6 DEF vars
<1> QED
  BY <1>1, <1>2, <1>3, <1>4, <1>5, <1>6 DEF Next

\* The registry's variables keep their types.
THEOREM RegistryTypesHold == Spec => []RegistryTypeOK
<1>1. Init => RegistryTypeOK
  <2> SUFFICES ASSUME RegistryInit PROVE RegistryTypeOK
    BY DEF Init
  <2>1. followerLeads \in [Followers -> Seq(Leads)]
    BY DEF RegistryInit
  <2>2. leadFollowers \in [Leads -> Seq(Followers)]
    BY DEF RegistryInit
  <2>3. allocation \in [Accounts -> Nat]
    BY DEF RegistryInit
  <2>4. terms \in [Leads -> Terms \cup {NoTerms}]
    BY DEF RegistryInit
  <2> QED
    BY <2>1, <2>2, <2>3, <2>4 DEF RegistryInit, RegistryTypeOK
<1>2. RegistryTypeOK /\ RegistryStep => RegistryTypeOK'
  <2> SUFFICES ASSUME RegistryTypeOK, RegistryStep PROVE RegistryTypeOK'
    OBVIOUS
  <2> USE DEF RegistryTypeOK, leadVars, followVars
  <2>1. ASSUME NEW l \in Leads, NEW t \in Terms, RegisterLead(l, t) PROVE RegistryTypeOK'
    BY <2>1 DEF RegisterLead
  <2>2. ASSUME NEW l \in Leads, NEW flag \in BOOLEAN, SetLeadVerified(l, flag)
        PROVE  RegistryTypeOK'
    BY <2>2 DEF SetLeadVerified
  <2>3. ASSUME NEW set \in BOOLEAN, SetRegistryRole(set) PROVE RegistryTypeOK'
    BY <2>3 DEF SetRegistryRole
  <2>4. ASSUME NEW f \in Followers, Register(f), UNCHANGED followVars
        PROVE  RegistryTypeOK'
    BY <2>4 DEF Register
  <2>5. ASSUME NEW a \in Accounts, UnfollowLead(a) PROVE RegistryTypeOK'
    BY <2>5 DEF UnfollowLead
  <2>6. ASSUME NEW a \in Accounts, NEW amount \in Amounts, NEW registered,
               Follow(a, amount, registered)
        PROVE  /\ allocation' \in [Accounts -> Nat]
               /\ following' \in SUBSET Accounts
               /\ followerLeads' \in [Followers -> Seq(Leads)]
               /\ leadFollowers' \in [Leads -> Seq(Followers)]
    <3>1. amount \in Nat
      BY AmountsAssumption
    <3>2. a[1] \in Followers /\ a[2] \in Leads
      BY AccountFields
    <3>3. allocation' \in [Accounts -> Nat] /\ following' \in SUBSET Accounts
      BY <2>6, <3>1 DEF Follow
    <3>4. followerLeads' \in [Followers -> Seq(Leads)]
      BY <2>6, <3>2 DEF Follow
    <3>5. leadFollowers' \in [Leads -> Seq(Followers)]
      BY <2>6, <3>2 DEF Follow
    <3> QED
      BY <3>3, <3>4, <3>5
  <2>7. ASSUME NEW a \in Accounts, NEW amount \in Amounts, FollowLead(a, amount)
        PROVE  RegistryTypeOK'
    <3>1. Follow(a, amount, followers)
      BY <2>7 DEF FollowLead
    <3> QED
      BY <2>6, <2>7, <3>1 DEF FollowLead
  <2>8. ASSUME NEW a \in Accounts, NEW amount \in Amounts,
               Register(a[1]), Follow(a, amount, followers')
        PROVE  RegistryTypeOK'
    <3>1. a[1] \in Followers
      BY AccountFields
    <3> QED
      BY <2>6, <2>8, <3>1 DEF Register
  <2>9. CASE UNCHANGED registryVars
    BY <2>9 DEF registryVars
  <2> QED
    BY <2>1, <2>2, <2>3, <2>4, <2>5, <2>7, <2>8, <2>9 DEF RegistryStep
<1> QED
  BY <1>1, <1>2, StepsOfRegistry, PTL DEF Spec

\* Whoever follows a lead is registered and meets the minimum of a registered lead.
THEOREM FollowersStayEntitled == Spec => []FollowersEntitled
<1>1. Init => FollowersEntitled
  BY DEF Init, RegistryInit, FollowersEntitled
<1>2. RegistryTypeOK /\ FollowersEntitled /\ RegistryStep => FollowersEntitled'
  <2> SUFFICES ASSUME RegistryTypeOK, FollowersEntitled, RegistryStep
               PROVE  FollowersEntitled'
    OBVIOUS
  <2> USE DEF RegistryTypeOK, FollowersEntitled, IsLead, leadVars, followVars
  <2>1. ASSUME NEW l \in Leads, NEW t \in Terms, RegisterLead(l, t)
        PROVE  FollowersEntitled'
    <3>1. \A a \in following : a[2] # l
      BY <2>1 DEF RegisterLead
    <3> QED
      BY <2>1, <3>1 DEF RegisterLead
  <2>2. ASSUME NEW l \in Leads, NEW flag \in BOOLEAN, SetLeadVerified(l, flag)
        PROVE  FollowersEntitled'
    BY <2>2 DEF SetLeadVerified
  <2>3. ASSUME NEW set \in BOOLEAN, SetRegistryRole(set) PROVE FollowersEntitled'
    BY <2>3 DEF SetRegistryRole
  <2>4. ASSUME NEW f \in Followers, Register(f), UNCHANGED followVars
        PROVE  FollowersEntitled'
    BY <2>4 DEF Register
  <2>5. ASSUME NEW a \in Accounts, UnfollowLead(a) PROVE FollowersEntitled'
    BY <2>5 DEF UnfollowLead
  <2>6. ASSUME NEW a \in Accounts, NEW amount \in Amounts,
               Follow(a, amount, followers'), followers \subseteq followers',
               UNCHANGED leadVars
        PROVE  FollowersEntitled'
    <3>1. /\ following' = following \cup {a}
          /\ allocation' = [allocation EXCEPT ![a] = amount]
          /\ a[1] \in followers' /\ IsLead(a[2]) /\ amount >= terms[a[2]].minAllocation
      BY <2>6 DEF Follow
    <3> QED
      BY <2>6, <3>1
  <2>7. ASSUME NEW a \in Accounts, NEW amount \in Amounts, FollowLead(a, amount)
        PROVE  FollowersEntitled'
    BY <2>6, <2>7 DEF FollowLead
  <2>8. ASSUME NEW a \in Accounts, NEW amount \in Amounts,
               Register(a[1]), Follow(a, amount, followers')
        PROVE  FollowersEntitled'
    BY <2>6, <2>8 DEF Register
  <2>9. CASE UNCHANGED registryVars
    BY <2>9 DEF registryVars
  <2> QED
    BY <2>1, <2>2, <2>3, <2>4, <2>5, <2>7, <2>8, <2>9 DEF RegistryStep
<1> QED
  BY <1>1, <1>2, StepsOfRegistry, RegistryTypesHold, PTL DEF Spec

\* No step changes the terms of a lead that somebody follows: registration is the
\* only one that writes them, and a followed lead is registered.
THEOREM TermsStayFixed == Spec => TermsFixed
<1> DEFINE A == \A a \in following : terms'[a[2]] = terms[a[2]]
<1>1. RegistryTypeOK /\ FollowersEntitled /\ RegistryStep => [A]_registryVars
  <2> SUFFICES ASSUME RegistryTypeOK, FollowersEntitled, RegistryStep
               PROVE  A \/ UNCHANGED registryVars
    OBVIOUS
  <2>1. ASSUME NEW l \in Leads, NEW t \in Terms, RegisterLead(l, t) PROVE A
    <3>1. \A a \in following : a[2] # l
      BY <2>1 DEF RegisterLead, FollowersEntitled
    <3> QED
      BY <2>1, <3>1 DEF RegisterLead, RegistryTypeOK
  <2>2. CASE terms' = terms
    BY <2>2
  <2> QED
    BY <2>1, <2>2 DEF RegistryStep, SetLeadVerified, SetRegistryRole, Register,
       UnfollowLead, FollowLead, registryVars, leadVars, followVars
<1> QED
  BY <1>1, StepsOfRegistry, RegistryTypesHold, FollowersStayEntitled, PTL
     DEF Spec, TermsFixed

-----------------------------------------------------------------------------
(* The two lists. *)

LEMMA OccurrencesFinite ==
    ASSUME NEW S, NEW s \in Seq(S), NEW x
    PROVE  IsFiniteSet(Occurrences(x, s)) /\ Cardinality(Occurrences(x, s)) \in Nat
<1>1. Len(s) \in Nat /\ Occurrences(x, s) \subseteq 1..Len(s)
  BY DEF Occurrences
<1>2. IsFiniteSet(1..Len(s))
  BY <1>1, FS_Interval
<1> QED
  BY <1>1, <1>2, FS_Subset, FS_CardinalityType

LEMMA OccurrencesAppend ==
    ASSUME NEW S, NEW s \in Seq(S), NEW x, NEW y \in S
    PROVE  Occurrences(x, Append(s, y)) =
              IF x = y THEN Occurrences(x, s) \cup {Len(s) + 1} ELSE Occurrences(x, s)
<1> DEFINE n == Len(s)
           t == Append(s, y)
<1>1. n \in Nat /\ Len(t) = n + 1 /\ t[n + 1] = y /\ \A i \in 1..n : t[i] = s[i]
  OBVIOUS
<1>2. \A i : i \in 1..(n + 1) <=> i \in 1..n \/ i = n + 1
  BY <1>1
<1> HIDE DEF n, t
<1>3. {i \in 1..(n + 1) : t[i] = x}
         = IF x = y THEN {i \in 1..n : s[i] = x} \cup {n + 1} ELSE {i \in 1..n : s[i] = x}
  BY <1>1, <1>2
<1> QED
  BY <1>1, <1>3 DEF Occurrences, n, t

\* An append adds one occurrence of what it appends, and none of anything else.
LEMMA AppendCounted ==
    ASSUME NEW S, NEW s \in Seq(S), NEW x, NEW y \in S
    PROVE  /\ x # y => Occurrences(x, Append(s, y)) = Occurrences(x, s)
           /\ x = y =>
                 /\ Cardinality(Occurrences(x, Append(s, y))) = Cardinality(Occurrences(x, s)) + 1
                 /\ Occurrences(x, Append(s, y)) # {}
<1>1. x # y => Occurrences(x, Append(s, y)) = Occurrences(x, s)
  BY OccurrencesAppend
<1>2. ASSUME x = y
      PROVE  Cardinality(Occurrences(x, Append(s, y))) = Cardinality(Occurrences(x, s)) + 1
  <2>1. Occurrences(x, Append(s, y)) = Occurrences(x, s) \cup {Len(s) + 1}
    BY <1>2, OccurrencesAppend
  <2>2. Len(s) + 1 \notin Occurrences(x, s)
    BY DEF Occurrences
  <2> QED
    BY <2>1, <2>2, OccurrencesFinite, FS_AddElement
<1>3. ASSUME x = y PROVE Occurrences(x, Append(s, y)) # {}
  BY <1>3, OccurrencesAppend
<1> QED
  BY <1>1, <1>2, <1>3

\* A follow adds one entry to each list, and the pair is then in both.
LEMMA FollowListings ==
    ASSUME RegistryTypeOK, ListingsAgree, NEW a \in Accounts, NEW amount, NEW registered,
           Follow(a, amount, registered)
    PROVE  ListingsAgree'
<1>1. a[1] \in Followers /\ a[2] \in Leads /\ a = <<a[1], a[2]>>
  BY AccountFields
<1>2. /\ followerLeads \in [Followers -> Seq(Leads)]
      /\ leadFollowers \in [Leads -> Seq(Followers)]
  BY DEF RegistryTypeOK
<1>3. /\ following' = following \cup {a}
      /\ followerLeads' = [followerLeads EXCEPT ![a[1]] = Append(@, a[2])]
      /\ leadFollowers' = [leadFollowers EXCEPT ![a[2]] = Append(@, a[1])]
  BY DEF Follow
<1> SUFFICES ASSUME NEW b \in Accounts
             PROVE  LET asLead     == Occurrences(b[2], followerLeads'[b[1]])
                        asFollower == Occurrences(b[1], leadFollowers'[b[2]])
                    IN  /\ Cardinality(asLead) = Cardinality(asFollower)
                        /\ b \in following' => asLead # {}
  BY DEF ListingsAgree, Occurrences
<1>4. b[1] \in Followers /\ b[2] \in Leads /\ b = <<b[1], b[2]>>
  BY AccountFields
<1>5. /\ followerLeads[b[1]] \in Seq(Leads) /\ leadFollowers[b[2]] \in Seq(Followers)
      /\ Cardinality(Occurrences(b[2], followerLeads[b[1]]))
            = Cardinality(Occurrences(b[1], leadFollowers[b[2]]))
      /\ b \in following => Occurrences(b[2], followerLeads[b[1]]) # {}
  BY <1>2, <1>4 DEF ListingsAgree
<1>6. CASE b = a
  <2>1. /\ followerLeads'[b[1]] = Append(followerLeads[b[1]], b[2])
        /\ leadFollowers'[b[2]] = Append(leadFollowers[b[2]], b[1])
    BY <1>1, <1>2, <1>3, <1>6
  <2>2. /\ Cardinality(Occurrences(b[2], followerLeads'[b[1]]))
              = Cardinality(Occurrences(b[2], followerLeads[b[1]])) + 1
        /\ Occurrences(b[2], followerLeads'[b[1]]) # {}
    BY <1>4, <1>5, <2>1, AppendCounted
  <2>3. Cardinality(Occurrences(b[1], leadFollowers'[b[2]]))
           = Cardinality(Occurrences(b[1], leadFollowers[b[2]])) + 1
    BY <1>4, <1>5, <2>1, AppendCounted
  <2> QED
    BY <1>5, <2>2, <2>3
<1>7. CASE b # a
  <2>1. b[1] # a[1] \/ b[2] # a[2]
    BY <1>1, <1>4, <1>7
  <2>2. Occurrences(b[2], followerLeads'[b[1]]) = Occurrences(b[2], followerLeads[b[1]])
    <3>1. CASE b[1] # a[1]
      BY <1>1, <1>2, <1>3, <1>4, <3>1
    <3>2. CASE b[1] = a[1]
      <4>1. b[2] # a[2] /\ followerLeads'[b[1]] = Append(followerLeads[b[1]], a[2])
        BY <1>1, <1>2, <1>3, <2>1, <3>2
      <4> QED
        BY <1>1, <1>5, <4>1, AppendCounted
    <3> QED
      BY <3>1, <3>2
  <2>3. Occurrences(b[1], leadFollowers'[b[2]]) = Occurrences(b[1], leadFollowers[b[2]])
    <3>1. CASE b[2] # a[2]
      BY <1>1, <1>2, <1>3, <1>4, <3>1
    <3>2. CASE b[2] = a[2]
      <4>1. b[1] # a[1] /\ leadFollowers'[b[2]] = Append(leadFollowers[b[2]], a[1])
        BY <1>1, <1>2, <1>3, <2>1, <3>2
      <4> QED
        BY <1>1, <1>5, <4>1, AppendCounted
    <3> QED
      BY <3>1, <3>2
  <2> QED
    BY <1>3, <1>5, <1>7, <2>2, <2>3
<1> QED
  BY <1>6, <1>7

\* The list of a follower's leads and the list of a lead's followers agree, and
\* every pair that follows is in them, for any history of follows and unfollows.
THEOREM ListsAgree == Spec => []ListingsAgree
<1>1. Init => ListingsAgree
  <2> SUFFICES ASSUME RegistryInit PROVE ListingsAgree
    BY DEF Init
  <2>1. ASSUME NEW a \in Accounts
        PROVE  /\ Occurrences(a[2], followerLeads[a[1]]) = {}
               /\ Occurrences(a[1], leadFollowers[a[2]]) = {}
    BY AccountFields DEF RegistryInit, Occurrences
  <2> QED
    BY <2>1 DEF RegistryInit, ListingsAgree
<1>2. RegistryTypeOK /\ ListingsAgree /\ RegistryStep => ListingsAgree'
  <2> SUFFICES ASSUME RegistryTypeOK, ListingsAgree, RegistryStep
               PROVE  ListingsAgree'
    OBVIOUS
  <2>1. ASSUME UNCHANGED <<followerLeads, leadFollowers>>, following' \subseteq following
        PROVE  ListingsAgree'
    BY <2>1 DEF ListingsAgree, Occurrences
  <2>2. ASSUME NEW a \in Accounts, UnfollowLead(a) PROVE ListingsAgree'
    BY <2>1, <2>2 DEF UnfollowLead
  <2>3. ASSUME NEW a \in Accounts, NEW amount \in Amounts, FollowLead(a, amount)
        PROVE  ListingsAgree'
    BY <2>3, FollowListings DEF FollowLead
  <2>3b. ASSUME NEW a \in Accounts, NEW amount \in Amounts,
                Register(a[1]), Follow(a, amount, followers')
        PROVE  ListingsAgree'
    BY <2>3b, FollowListings
  <2>4. CASE UNCHANGED followVars
    BY <2>1, <2>4 DEF followVars
  <2>5. CASE UNCHANGED registryVars
    BY <2>4, <2>5 DEF registryVars
  <2>6. ASSUME NEW l \in Leads, NEW t \in Terms, RegisterLead(l, t) PROVE ListingsAgree'
    BY <2>1, <2>6 DEF RegisterLead, followVars
  <2>7. ASSUME NEW l \in Leads, NEW flag \in BOOLEAN, SetLeadVerified(l, flag)
        PROVE  ListingsAgree'
    BY <2>1, <2>7 DEF SetLeadVerified, followVars
  <2>8. ASSUME NEW set \in BOOLEAN, SetRegistryRole(set) PROVE ListingsAgree'
    BY <2>1, <2>8 DEF SetRegistryRole, followVars
  <2>9. ASSUME NEW f \in Followers, Register(f), UNCHANGED followVars
        PROVE  ListingsAgree'
    BY <2>4, <2>9
  <2> QED
    BY <2>2, <2>3, <2>5, <2>6, <2>7, <2>8, <2>9, <2>3b DEF RegistryStep
<1> QED
  BY <1>1, <1>2, StepsOfRegistry, RegistryTypesHold, PTL DEF Spec

-----------------------------------------------------------------------------
(* Followers' funds. *)

\* What a step may do to an account's funds: move n FXRP from its follower's
\* wallet into the vault or back, or neither.
Moved(a, n) ==
    /\ wallet' = [wallet EXCEPT ![a[1]] = @ - n]
    /\ \A b \in Accounts :
          balance'[b] + pendingWithdrawal'[b]
              = balance[b] + pendingWithdrawal[b] + (IF b = a THEN n ELSE 0)

FundsInv ==
    /\ VaultInv
    /\ wallet \in [Followers -> Nat]

\* Onboardings, deposits and withdrawals move funds of one account; every other
\* step moves none.
LEMMA FundsSteps ==
    ASSUME FundsInv, [Next]_vars
    PROVE  /\ FundsInv'
           /\ \/ \E a \in Accounts, n \in Int : Moved(a, n)
              \/ wallet' = wallet
                 /\ \A b \in Accounts : balance'[b] + pendingWithdrawal'[b]
                                            = balance[b] + pendingWithdrawal[b]
<1>1. CASE UNCHANGED <<vaultVars, wallet>>
  BY <1>1, VaultStutterInv DEF FundsInv, vaultVars, subAccounts
<1>2. CASE \E r \in VaultRoles : SetVaultRole(r) /\ UNCHANGED <<registryVars, wallet>>
  <2>1. VaultInv'
    BY <1>2, OwnerInv DEF VaultOwnerCall, FundsInv
  <2> QED
    BY <1>2, <2>1 DEF FundsInv, SetVaultRole, subAccounts
<1>3. ASSUME NEW a \in Accounts, NEW n \in Amounts,
             Credit(a, n), wallet[a[1]] >= n, wallet' = [wallet EXCEPT ![a[1]] = @ - n]
      PROVE  FundsInv' /\ Moved(a, n) /\ n \in Int
  <2>1. n \in Nat /\ a[1] \in Followers
    BY AmountsAssumption, AccountFields
  <2>2. VaultInv'
    BY <1>3, <2>1, CreditInv DEF FundsInv
  <2>3. wallet' \in [Followers -> Nat]
    BY <1>3, <2>1 DEF FundsInv
  <2>4. \A b \in Accounts : balance'[b] + pendingWithdrawal'[b]
            = balance[b] + pendingWithdrawal[b] + (IF b = a THEN n ELSE 0)
    BY <1>3, <2>1 DEF Credit, FundsInv, VaultInv, VaultTypeOK
  <2> QED
    BY <1>3, <2>1, <2>2, <2>3, <2>4 DEF FundsInv, Moved
<1>4. ASSUME NEW a \in Accounts, NEW n \in Amounts, Onboard(a, n) \/ OwnDeposit(a, n)
      PROVE  FundsInv' /\ Moved(a, n) /\ n \in Int
  BY <1>3, <1>4 DEF Onboard, OwnDeposit, Deposit, DepositFor
<1>5. ASSUME NEW a \in Accounts, NEW n \in Amounts,
             RequestWithdrawal(a, n) /\ UNCHANGED <<registryVars, wallet>>
      PROVE  /\ FundsInv' /\ wallet' = wallet
             /\ \A b \in Accounts : balance'[b] + pendingWithdrawal'[b]
                                        = balance[b] + pendingWithdrawal[b]
  <2>1. n \in Nat /\ VaultInv'
    BY <1>5, AmountsAssumption, RequestInv DEF FundsInv
  <2> QED
    BY <1>5, <2>1 DEF RequestWithdrawal, FundsInv, VaultInv, VaultTypeOK
<1>6. ASSUME NEW a \in Accounts, Withdraw(a)
      PROVE  FundsInv' /\ \E n \in Int : Moved(a, n)
  <2> DEFINE n == -pendingWithdrawal[a]
  <2>1. a[1] \in Followers /\ pendingWithdrawal[a] \in Nat /\ n \in Int
    BY AccountFields DEF FundsInv, VaultInv, VaultTypeOK
  <2>2. VaultInv'
    BY <1>6, FinalizeInv DEF Withdraw, FundsInv
  <2>3. /\ wallet' \in [Followers -> Nat]
        /\ wallet[a[1]] + pendingWithdrawal[a] = wallet[a[1]] - n
    BY <1>6, <2>1 DEF Withdraw, FundsInv
  <2>4. wallet' = [wallet EXCEPT ![a[1]] = @ - n]
    BY <1>6, <2>3 DEF Withdraw
  <2>5. \A b \in Accounts : balance'[b] + pendingWithdrawal'[b]
            = balance[b] + pendingWithdrawal[b] + (IF b = a THEN n ELSE 0)
    BY <1>6, <2>1 DEF Withdraw, FinalizeWithdrawal, FundsInv, VaultInv, VaultTypeOK
  <2> HIDE DEF n
  <2> QED
    BY <2>1, <2>2, <2>3, <2>4, <2>5 DEF FundsInv, Moved
<1> QED
  BY <1>1, <1>2, <1>4, <1>5, <1>6 DEF Next, vars

\* A movement of one account's funds leaves its follower's total, and everybody
\* else's, as they were.
LEMMA FundsMoved ==
    ASSUME FundsInv, FundsInv', FollowerFundsKept, NEW a \in Accounts, NEW n \in Int, Moved(a, n),
           NEW f \in Followers
    PROVE  wallet'[f] + SumFunctionOnSet(Equity(f)', Leads) = Funds
<1> DEFINE e0 == Equity(f)
           e1 == Equity(f)'
<1>1. a[1] \in Followers /\ a[2] \in Leads /\ a = <<a[1], a[2]>> /\ IsFiniteSet(Leads)
  BY AccountFields, AddressAssumption
<1>2. \A l \in Leads : <<f, l>> \in Accounts
  BY DEF Accounts
<1>3. \A l \in Leads : /\ e0[l] \in Int /\ e1[l] \in Int
                       /\ e1[l] = e0[l] + (IF <<f, l>> = a THEN n ELSE 0)
  <2> SUFFICES ASSUME NEW l \in Leads
               PROVE  /\ e0[l] \in Int /\ e1[l] \in Int
                      /\ e1[l] = e0[l] + (IF <<f, l>> = a THEN n ELSE 0)
    OBVIOUS
  <2>1. PICK b \in Accounts : b = <<f, l>>
    BY <1>2
  <2>2. e0[l] = balance[b] + pendingWithdrawal[b] /\ e1[l] = balance'[b] + pendingWithdrawal'[b]
    BY <2>1 DEF Equity
  <2>3. /\ balance[b] \in Nat /\ pendingWithdrawal[b] \in Nat
        /\ balance'[b] \in Nat /\ pendingWithdrawal'[b] \in Nat
    BY DEF FundsInv, VaultInv, VaultTypeOK
  <2>4. e1[l] = e0[l] + (IF b = a THEN n ELSE 0)
    BY <2>2, Zenon DEF Moved
  <2> QED
    BY <2>1, <2>2, <2>3, <2>4
<1>4. /\ wallet[f] + SumFunctionOnSet(e0, Leads) = Funds
      /\ wallet[f] \in Int /\ wallet'[f] \in Int
      /\ wallet'[f] = IF f = a[1] THEN wallet[f] - n ELSE wallet[f]
  BY <1>1 DEF FollowerFundsKept, FundsInv, Moved
<1> HIDE DEF e0, e1
<1>5. SumFunctionOnSet(e0, Leads) \in Int
  BY <1>1, <1>3, SumInt
<1>6. CASE f = a[1]
  <2>1. \A l \in Leads \ {a[2]} : e1[l] = e0[l]
    BY <1>1, <1>3
  <2>2. e1[a[2]] = e0[a[2]] + n
    BY <1>1, <1>3, <1>6
  <2>3. SumFunctionOnSet(e1, Leads) = SumFunctionOnSet(e0, Leads) - e0[a[2]] + e1[a[2]]
    BY <1>1, <1>3, <2>1, SumChange
  <2>4. wallet'[f] + SumFunctionOnSet(e1, Leads) = wallet[f] + SumFunctionOnSet(e0, Leads)
    <3>1. e0[a[2]] \in Int /\ wallet'[f] = wallet[f] - n
      BY <1>1, <1>3, <1>4, <1>6
    <3> QED
      BY <1>4, <1>5, <2>2, <2>3, <3>1
  <2> QED
    BY <1>4, <2>4 DEF e1
<1>7. CASE f # a[1]
  <2>1. \A l \in Leads : e0[l] = e1[l]
    BY <1>1, <1>3, <1>7
  <2>2. SumFunctionOnSet(e0, Leads) = SumFunctionOnSet(e1, Leads)
    BY <1>1, <2>1, SumSame
  <2> QED
    BY <1>4, <1>7, <2>2 DEF e1
<1> QED
  BY <1>6, <1>7

LEMMA FundsKeptStep ==
    FundsInv /\ FollowerFundsKept /\ [Next]_vars => FundsInv' /\ FollowerFundsKept'
<1> SUFFICES ASSUME FundsInv, FollowerFundsKept, [Next]_vars
             PROVE  FundsInv' /\ FollowerFundsKept'
  OBVIOUS
<1>1. FundsInv'
  BY FundsSteps
<1>2. ASSUME NEW a \in Accounts, NEW n \in Int, Moved(a, n)
      PROVE  FollowerFundsKept'
  BY <1>1, <1>2, FundsMoved DEF FollowerFundsKept
<1>3. CASE wallet' = wallet
           /\ \A b \in Accounts : balance'[b] + pendingWithdrawal'[b]
                                      = balance[b] + pendingWithdrawal[b]
  <2>1. \A f \in Followers, l \in Leads : <<f, l>> \in Accounts
    BY DEF Accounts
  <2>2. ASSUME NEW f \in Followers
        PROVE  wallet'[f] + SumFunctionOnSet(Equity(f)', Leads) = Funds
    <3>1. Equity(f)' = Equity(f)
      BY <1>3, <2>1 DEF Equity
    <3> QED
      BY <1>3, <3>1 DEF FollowerFundsKept
  <2> QED
    BY <1>1, <2>2 DEF FollowerFundsKept
<1> QED
  BY <1>1, <1>2, <1>3, FundsSteps

LEMMA FundsKeptInit == Init => FundsInv /\ FollowerFundsKept
<1> SUFFICES ASSUME Init PROVE FundsInv /\ FollowerFundsKept
  OBVIOUS
<1>1. FundsInv
  BY VaultInitInv, OnboardingAssumption DEF Init, FundsInv
<1>2. ASSUME NEW f \in Followers
      PROVE  wallet[f] + SumFunctionOnSet(Equity(f), Leads) = Funds
  <2>1. \A l \in Leads : Equity(f)[l] = 0
    BY DEF Init, VaultInit, Equity, Accounts
  <2>2. SumFunctionOnSet(Equity(f), Leads) = 0
    BY <2>1, AddressAssumption, SumZero
  <2> QED
    BY <2>2, OnboardingAssumption DEF Init
<1> QED
  BY <1>1, <1>2 DEF FollowerFundsKept

\* A follower's FXRP is at all times in its wallet or in its own sub-accounts, for
\* any number of followers, leads and units: no onboarding credits without taking,
\* takes without crediting, or is paid by somebody else.
THEOREM FundsKept == Spec => []FollowerFundsKept
  BY FundsKeptInit, FundsKeptStep, PTL DEF Spec

-----------------------------------------------------------------------------
(* The vault in this composition. *)

LEMMA StepsOfVault == [Next]_vars => [VaultNext]_vaultVars
<1> SUFFICES ASSUME [Next]_vars PROVE [VaultNext]_vaultVars
  OBVIOUS
<1>1. ASSUME NEW a \in Accounts, NEW amount \in Amounts,
             \/ Deposit(a, amount)
             \/ DepositFor(a, amount)
             \/ RequestWithdrawal(a, amount)
      PROVE  VaultNext
  BY <1>1 DEF FollowerCall, VaultNext
<1>2. ASSUME NEW a \in Accounts, FinalizeWithdrawal(a) PROVE VaultNext
  BY <1>2 DEF InstructionCall, VaultNext
<1>3. ASSUME NEW r \in VaultRoles, SetVaultRole(r) PROVE VaultNext
  BY <1>3 DEF VaultOwnerCall, VaultNext
<1>4. CASE UNCHANGED vars
  BY <1>4 DEF vars
<1> QED
  BY <1>1, <1>2, <1>3, <1>4 DEF Next, Onboard, OwnDeposit, Withdraw

\* The onboarding composition implements the vault alone: its steps are the vault's
\* own calls or leave it as it was, so that what the vault promises any caller, the
\* charge for every outflow and the account of every loss, it promises here.
THEOREM VaultImplemented == Spec => VaultSpec
  BY StepsOfVault, PTL DEF Spec, VaultSpec, Init

=============================================================================
