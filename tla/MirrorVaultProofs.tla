--------------------------- MODULE MirrorVaultProofs ---------------------------
(***************************************************************************)
(* Proofs about MirrorVault.  There is one lemma per external call, for    *)
(* the typing and for the lock cover together, because the two are         *)
(* inductive only together where the code subtracts; InstructionSender's   *)
(* and Onboarding's proofs cite the same lemmas.  What holds of a step is  *)
(* proved for VaultCall, which is free of the bounds of VaultNext.         *)
(***************************************************************************)
EXTENDS MirrorVault, FiniteSetTheorems, TLAPS

\* The inductive invariant: types, and locks covered by balances.
VaultInv == VaultTypeOK /\ LockedCovered

LEMMA VaultInitInv == VaultInit => VaultInv
  <1> SUFFICES ASSUME VaultInit PROVE VaultInv
    OBVIOUS
  <1>1. VaultTypeOK
    <2>1. legacySettleBatchEnabled \in BOOLEAN /\ vaultRoles \in SUBSET VaultRoles
      BY Zenon DEF VaultInit
    <2>2. QED
      BY <2>1 DEF VaultInit, VaultTypeOK
  <1>2. LockedCovered
    BY DEF VaultInit, LockedCovered
  <1>3. QED
    BY <1>1, <1>2 DEF VaultInv

\* A step that leaves the vault alone keeps its invariant.
LEMMA VaultStutterInv == VaultInv /\ UNCHANGED vaultVars => VaultInv'
  BY DEF VaultInv, VaultTypeOK, LockedCovered, vaultVars, subAccounts, legacyVars

\* deposit and depositFor.
LEMMA CreditInv ==
  ASSUME NEW a \in Accounts, NEW n \in Nat, VaultInv, Credit(a, n)
  PROVE  VaultInv'
  BY DEF VaultInv, VaultTypeOK, LockedCovered, Credit, legacyVars

\* requestWithdrawal.
LEMMA RequestInv ==
  ASSUME NEW a \in Accounts, NEW n \in Nat, VaultInv, RequestWithdrawal(a, n)
  PROVE  VaultInv'
  BY DEF VaultInv, VaultTypeOK, LockedCovered, RequestWithdrawal, Available, legacyVars

LEMMA TransferInv ==
  ASSUME NEW a \in Accounts, NEW n \in Nat, VaultInv, TransferForExecution(a, n)
  PROVE  VaultInv'
  BY DEF VaultInv, VaultTypeOK, LockedCovered, TransferForExecution, Available, legacyVars

LEMMA SettleInv ==
  ASSUME NEW a \in Accounts, NEW d \in Int, VaultInv, SettleFromProof(a, d)
  PROVE  VaultInv'
  BY DEF VaultInv, VaultTypeOK, LockedCovered, SettleFromProof, legacyVars

LEMMA ReceiveInv ==
  ASSUME NEW n \in Nat, VaultInv, ReceiveExecutionProceeds(n)
  PROVE  VaultInv'
  BY DEF VaultInv, VaultTypeOK, LockedCovered, ReceiveExecutionProceeds, subAccounts,
         legacyVars

LEMMA FinalizeInv ==
  ASSUME NEW a \in Accounts, VaultInv, FinalizeWithdrawal(a)
  PROVE  VaultInv'
  BY DEF VaultInv, VaultTypeOK, LockedCovered, FinalizeWithdrawal, legacyVars

LEMMA OwnerInv == VaultInv /\ VaultOwnerCall => VaultInv'
  BY DEF VaultInv, VaultTypeOK, LockedCovered, VaultOwnerCall, SetVaultRole,
         SetLegacySettleBatchEnabled, subAccounts, legacyVars, VaultRoles

\* The fields of a batch item.
LEMMA ItemType ==
  ASSUME NEW s \in Settlements
  PROVE  /\ s.account \in Accounts /\ s.account[1] \in Followers
         /\ s.delta \in Int /\ s.nonce \in Nat
  BY VaultAssumption DEF Accounts

\* settleBatch: each item moves the balance and its history by the same amount,
\* so that a debit under the lock is booked as a legacy debit.
LEMMA BatchInv ==
  ASSUME NEW items \in Batches, VaultInv, SettleBatch(items)
  PROVE  VaultInv'
  <1>1. CASE \E s \in Settlements : items = <<s>>
    <2>1. PICK s \in Settlements : items = <<s>>
      BY <1>1
    <2>2. items[1] = s /\ Len(items) = 1 /\ Len(items) # 2
      BY <2>1
    <2>3. /\ SettleBatchOf(items)
          /\ UNCHANGED <<pendingWithdrawal, pendingLocked, legacySettleBatchEnabled,
                         vaultRoles, held>>
      BY <2>1 DEF SettleBatch
    <2>4. QED
      BY <2>2, <2>3, ItemType DEF VaultInv, VaultTypeOK, LockedCovered, SettleBatchOf, SettlementOk
  <1>2. CASE items \in Settlements \X Settlements
    <2>1. PICK s \in Settlements, t \in Settlements : items = <<s, t>>
      BY <1>2
    <2>2. items[1] = s /\ items[2] = t /\ Len(items) = 2 /\ Len(items) # 1
      BY <2>1
    <2>3. /\ SettleBatchOf(items)
          /\ UNCHANGED <<pendingWithdrawal, pendingLocked, legacySettleBatchEnabled,
                         vaultRoles, held>>
      BY <2>1 DEF SettleBatch
    <2>4. QED
      BY <2>2, <2>3, ItemType DEF VaultInv, VaultTypeOK, LockedCovered, SettleBatchOf, SettlementOk
  <1>3. CASE items = <<>>
    BY <1>3, VaultStutterInv DEF SettleBatch, vaultVars, subAccounts, legacyVars
  <1>4. QED
    BY <1>1, <1>2, <1>3 DEF Batches

LEMMA FollowerInv == VaultInv /\ FollowerCall => VaultInv'
  <1> SUFFICES ASSUME VaultInv,
                      NEW a \in Accounts, NEW amount \in Amounts,
                      \/ Deposit(a, amount)
                      \/ DepositFor(a, amount)
                      \/ RequestWithdrawal(a, amount)
               PROVE  VaultInv'
    BY DEF FollowerCall
  <1>1. amount \in Nat
    BY AmountsAssumption
  <1>2. CASE Deposit(a, amount) \/ DepositFor(a, amount)
    BY <1>1, <1>2, CreditInv DEF Deposit, DepositFor
  <1>3. CASE RequestWithdrawal(a, amount)
    BY <1>1, <1>3, RequestInv
  <1>4. QED
    BY <1>2, <1>3

LEMMA InstructionInv == VaultInv /\ InstructionCall => VaultInv'
  <1> SUFFICES ASSUME VaultInv, InstructionCall PROVE VaultInv'
    OBVIOUS
  <1>1. \A n \in Amounts : n \in Nat /\ n \in Int /\ -n \in Int
    BY AmountsAssumption
  <1>2. ASSUME NEW a \in Accounts, NEW n \in Amounts, TransferForExecution(a, n)
        PROVE  VaultInv'
    BY <1>1, <1>2, TransferInv
  <1>3. ASSUME NEW a \in Accounts, NEW n \in Amounts,
               SettleFromProof(a, -n) \/ SettleFromProof(a, n)
        PROVE  VaultInv'
    BY <1>1, <1>3, SettleInv
  <1>4. ASSUME NEW n \in Amounts, ReceiveExecutionProceeds(n)
        PROVE  VaultInv'
    BY <1>1, <1>4, ReceiveInv
  <1>5. QED
    BY <1>2, <1>3, <1>4, FinalizeInv, BatchInv DEF InstructionCall

\* Types hold, and every lock is covered by the recorded balance up to the
\* proof-free debits of its account, for any instruction sender.
THEOREM VaultLocksCovered == VaultSpec => [](VaultTypeOK /\ LockedCovered)
  <1>1. VaultInv /\ [VaultNext]_vaultVars => VaultInv'
    BY FollowerInv, OwnerInv, InstructionInv, VaultStutterInv DEF VaultNext
  <1>2. VaultSpec => []VaultInv
    BY VaultInitInv, <1>1, PTL DEF VaultSpec
  <1>3. VaultInv => VaultTypeOK /\ LockedCovered
    BY DEF VaultInv
  <1>4. QED
    BY <1>2, <1>3, PTL

-----------------------------------------------------------------------------
(* The calls without the bounds of VaultNext on what is sent and credited. *)

VaultCall ==
    \/ FollowerCall
    \/ VaultOwnerCall
    \/ \E a \in Accounts : \/ \E n \in Nat : TransferForExecution(a, n)
                          \/ \E d \in Int : SettleFromProof(a, d)
                          \/ FinalizeWithdrawal(a)
    \/ \E n \in Nat : ReceiveExecutionProceeds(n)
    \/ \E items \in Batches : SettleBatch(items)

LEMMA VaultCalls == VaultNext => VaultCall
  <1>1. \A n \in Amounts : n \in Nat /\ n \in Int /\ -n \in Int
    BY AmountsAssumption
  <1>2. CASE FollowerCall \/ VaultOwnerCall
    BY <1>2 DEF VaultCall
  <1>3. ASSUME NEW a \in Accounts, NEW n \in Amounts,
               \/ TransferForExecution(a, n)
               \/ SettleFromProof(a, -n)
               \/ SettleFromProof(a, n)
        PROVE  VaultCall
    BY <1>1, <1>3, Zenon DEF VaultCall
  <1>4. ASSUME NEW n \in Amounts, ReceiveExecutionProceeds(n) PROVE VaultCall
    BY <1>1, <1>4 DEF VaultCall
  <1>5. CASE \/ \E a \in Accounts : FinalizeWithdrawal(a)
             \/ \E items \in Batches : SettleBatch(items)
    BY <1>5 DEF VaultCall
  <1>6. CASE InstructionCall
    BY <1>3, <1>4, <1>5, <1>6, Zenon DEF InstructionCall
  <1>7. QED
    BY <1>2, <1>6 DEF VaultNext

-----------------------------------------------------------------------------
(* Replay protection of settleBatch. *)

\* Nonce sets with the number of items applied under them.
Counted(used, count) ==
    /\ used \in [Followers -> SUBSET Nat]
    /\ count \in [Followers -> Nat]
    /\ \A f \in Followers : IsFiniteSet(used[f]) /\ count[f] = Cardinality(used[f])

LEMMA CountedInv == VaultTypeOK => (NonceGuardsReplay <=> Counted(usedNonces, legacyApplied))
  BY DEF VaultTypeOK, NonceGuardsReplay, Counted

\* One item: a fresh nonce joins the set as the item is counted.
LEMMA FreshNonce ==
  ASSUME NEW used, NEW count, Counted(used, count),
         NEW g \in Followers, NEW n \in Nat, n \notin used[g]
  PROVE  Counted([used EXCEPT ![g] = @ \cup {n}], [count EXCEPT ![g] = @ + 1])
  <1>1. IsFiniteSet(used[g] \cup {n}) /\ Cardinality(used[g] \cup {n}) = count[g] + 1
    BY FS_AddElement DEF Counted
  <1>2. /\ [used EXCEPT ![g] = @ \cup {n}] \in [Followers -> SUBSET Nat]
        /\ [count EXCEPT ![g] = @ + 1] \in [Followers -> Nat]
    BY DEF Counted
  <1>3. ASSUME NEW f \in Followers
        PROVE  /\ IsFiniteSet([used EXCEPT ![g] = @ \cup {n}][f])
               /\ [count EXCEPT ![g] = @ + 1][f]
                     = Cardinality([used EXCEPT ![g] = @ \cup {n}][f])
    <2>1. CASE f = g
      BY <1>1, <2>1 DEF Counted
    <2>2. CASE f # g
      BY <2>2 DEF Counted
    <2> QED
      BY <2>1, <2>2
  <1> QED
    BY <1>2, <1>3 DEF Counted

LEMMA BatchNonce ==
  ASSUME NEW items \in Batches, Counted(usedNonces, legacyApplied), SettleBatch(items)
  PROVE  Counted(usedNonces', legacyApplied')
  <1>1. CASE \E s \in Settlements : items = <<s>>
    <2>1. PICK s \in Settlements : items = <<s>>
      BY <1>1
    <2>2. items[1] = s /\ Len(items) = 1 /\ Len(items) # 2
      BY <2>1
    <2>3. /\ s.nonce \notin usedNonces[s.account[1]]
          /\ usedNonces' = [usedNonces EXCEPT ![s.account[1]] = @ \cup {s.nonce}]
          /\ legacyApplied' = [legacyApplied EXCEPT ![s.account[1]] = @ + 1]
      <3>1. SettleBatchOf(items)
        BY <2>1 DEF SettleBatch
      <3> QED
        BY <2>2, <3>1, Zenon DEF SettleBatchOf, SettlementOk
    <2>4. QED
      BY <2>3, ItemType, FreshNonce
  <1>2. CASE items \in Settlements \X Settlements
    <2>1. PICK s \in Settlements, t \in Settlements : items = <<s, t>>
      BY <1>2
    <2>2. items[1] = s /\ items[2] = t /\ Len(items) = 2 /\ Len(items) # 1
      BY <2>1
    <2> DEFINE used1 == [usedNonces EXCEPT ![s.account[1]] = @ \cup {s.nonce}]
               count1 == [legacyApplied EXCEPT ![s.account[1]] = @ + 1]
    <2>3. /\ s.nonce \notin usedNonces[s.account[1]]
          /\ t.nonce \notin used1[t.account[1]]
          /\ usedNonces' = [used1 EXCEPT ![t.account[1]] = @ \cup {t.nonce}]
          /\ legacyApplied' = [count1 EXCEPT ![t.account[1]] = @ + 1]
      BY <2>2 DEF SettleBatch, SettleBatchOf, SettlementOk
    <2>4. Counted(used1, count1)
      BY <2>3, ItemType, FreshNonce
    <2> HIDE DEF used1, count1
    <2>5. QED
      BY <2>3, <2>4, ItemType, FreshNonce
  <1>3. CASE items = <<>>
    BY <1>3 DEF SettleBatch, legacyVars
  <1>4. QED
    BY <1>1, <1>2, <1>3 DEF Batches

\* Every other call leaves the nonces and the count alone.
LEMMA OtherCallsKeepNonces ==
  ASSUME [VaultCall]_vaultVars, \A items \in Batches : ~SettleBatch(items)
  PROVE  UNCHANGED <<usedNonces, legacyApplied>>
  BY DEF VaultCall, FollowerCall, VaultOwnerCall, Deposit, DepositFor,
         Credit, RequestWithdrawal, TransferForExecution, SettleFromProof,
         ReceiveExecutionProceeds, FinalizeWithdrawal, SetVaultRole,
         SetLegacySettleBatchEnabled, vaultVars, subAccounts, legacyVars

LEMMA NoncesInit == VaultInit => NonceGuardsReplay
  BY FS_EmptySet DEF VaultInit, NonceGuardsReplay

LEMMA StepNonces ==
  ASSUME VaultTypeOK, NonceGuardsReplay, [VaultCall]_vaultVars
  PROVE  NonceGuardsReplay'
  <1>1. CASE \E items \in Batches : SettleBatch(items)
    <2>1. Counted(usedNonces', legacyApplied')
      BY <1>1, CountedInv, BatchNonce
    <2>2. QED
      BY <2>1 DEF Counted, NonceGuardsReplay
  <1>2. CASE \A items \in Batches : ~SettleBatch(items)
    BY <1>2, OtherCallsKeepNonces DEF NonceGuardsReplay
  <1>3. QED
    BY <1>1, <1>2

\* settleBatch applies at most one item per (follower, nonce).
THEOREM VaultNoReplay == VaultSpec => []NonceGuardsReplay
  <1>1. VaultInit => NonceGuardsReplay
    BY NoncesInit
  <1>2. VaultTypeOK /\ NonceGuardsReplay /\ [VaultNext]_vaultVars => NonceGuardsReplay'
    BY StepNonces, VaultCalls
  <1>3. VaultSpec => []VaultTypeOK
    BY VaultLocksCovered, PTL
  <1>4. QED
    BY <1>1, <1>2, <1>3, PTL DEF VaultSpec

-----------------------------------------------------------------------------
(* Action properties. *)

\* FXRP leaves the vault only charged in full to one account.
LEMMA StepOutflow ==
  ASSUME VaultTypeOK, VaultCall, held' < held
  PROVE  \E a \in Accounts : Drawable(a)' = Drawable(a) - (held - held')
  <1>1. ASSUME NEW a \in Accounts, NEW n \in Nat, TransferForExecution(a, n)
        PROVE  Drawable(a)' = Drawable(a) - (held - held')
    BY <1>1 DEF TransferForExecution, Drawable, VaultTypeOK
  <1>2. ASSUME NEW a \in Accounts, FinalizeWithdrawal(a)
        PROVE  Drawable(a)' = Drawable(a) - (held - held')
    BY <1>2 DEF FinalizeWithdrawal, Drawable, VaultTypeOK
  <1>3. \A n \in Amounts : n \in Nat
    BY AmountsAssumption
  <1>4. \/ \E a \in Accounts, n \in Nat : TransferForExecution(a, n)
        \/ \E a \in Accounts : FinalizeWithdrawal(a)
    BY <1>3
    DEF VaultCall, FollowerCall, VaultOwnerCall, Deposit, DepositFor,
        Credit, RequestWithdrawal, SettleFromProof, ReceiveExecutionProceeds,
        SetVaultRole, SetLegacySettleBatchEnabled, SettleBatch, VaultTypeOK
  <1>5. QED
    BY <1>1, <1>2, <1>4

\* Whatever the instruction sender asks for, no FXRP leaves uncharged.
THEOREM VaultOutflowCharged == VaultSpec => OutflowCharged
  <1>1. VaultTypeOK /\ [VaultNext]_vaultVars =>
          [held' < held => \E a \in Accounts :
                              Drawable(a)' = Drawable(a) - (held - held')]_vaultVars
    BY StepOutflow, VaultCalls
  <1>2. VaultSpec => []VaultTypeOK
    BY VaultLocksCovered, PTL
  <1>3. QED
    BY <1>1, <1>2, PTL DEF VaultSpec, OutflowCharged

\* What a step does to the equity of one account, as LossExplained asks.
LossOk(a) ==
    LET loss == balance[a] + pendingWithdrawal[a]
                  - (balance'[a] + pendingWithdrawal'[a])
    IN  loss > 0 => \/ held - held' = loss
                    \/ pendingLocked[a] - pendingLocked'[a] = loss
                    \/ legacyDebited'[a] - legacyDebited[a] >= loss

LEMMA BatchLoss ==
  ASSUME VaultTypeOK, NEW items \in Batches, SettleBatch(items), NEW a \in Accounts
  PROVE  LossOk(a)
  <1>1. CASE \E s \in Settlements : items = <<s>>
    <2>1. PICK s \in Settlements : items = <<s>>
      BY <1>1
    <2>2. items[1] = s /\ Len(items) = 1 /\ Len(items) # 2
      BY <2>1
    <2>3. /\ SettleBatchOf(items)
          /\ UNCHANGED <<pendingWithdrawal, pendingLocked, legacySettleBatchEnabled,
                         vaultRoles, held>>
      BY <2>1 DEF SettleBatch
    <2>4. QED
      BY <2>2, <2>3, ItemType DEF VaultTypeOK, LossOk, SettleBatchOf, SettlementOk
  <1>2. CASE items \in Settlements \X Settlements
    <2>1. PICK s \in Settlements, t \in Settlements : items = <<s, t>>
      BY <1>2
    <2>2. items[1] = s /\ items[2] = t /\ Len(items) = 2 /\ Len(items) # 1
      BY <2>1
    <2>3. /\ SettleBatchOf(items)
          /\ UNCHANGED <<pendingWithdrawal, pendingLocked, legacySettleBatchEnabled,
                         vaultRoles, held>>
      BY <2>1 DEF SettleBatch
    <2>4. QED
      BY <2>2, <2>3, ItemType DEF VaultTypeOK, LossOk, SettleBatchOf, SettlementOk
  <1>3. CASE items = <<>>
    BY <1>3 DEF SettleBatch, VaultTypeOK, LossOk
  <1>4. QED
    BY <1>1, <1>2, <1>3 DEF Batches

LEMMA StepLoss ==
  ASSUME VaultTypeOK, VaultCall, NEW a \in Accounts
  PROVE  LossOk(a)
  <1>1. \A n \in Amounts : n \in Nat
    BY AmountsAssumption
  <1>2. CASE FollowerCall
    BY <1>1, <1>2 DEF FollowerCall, Deposit, DepositFor, Credit, RequestWithdrawal,
                      VaultTypeOK, LossOk
  <1>3. CASE VaultOwnerCall
    BY <1>3 DEF VaultOwnerCall, SetVaultRole, SetLegacySettleBatchEnabled, subAccounts,
                VaultTypeOK, LossOk
  <1>4. ASSUME NEW b \in Accounts,
               \/ \E n \in Nat : TransferForExecution(b, n)
               \/ \E d \in Int : SettleFromProof(b, d)
        PROVE  LossOk(a)
    BY <1>4 DEF TransferForExecution, SettleFromProof, VaultTypeOK, LossOk
  <1>5. ASSUME NEW n \in Nat, ReceiveExecutionProceeds(n)
        PROVE  LossOk(a)
    BY <1>5 DEF ReceiveExecutionProceeds, subAccounts, VaultTypeOK, LossOk
  <1>6. ASSUME NEW b \in Accounts, FinalizeWithdrawal(b)
        PROVE  LossOk(a)
    BY <1>6 DEF FinalizeWithdrawal, VaultTypeOK, LossOk
  <1>7. QED
    BY <1>2, <1>3, <1>4, <1>5, <1>6, BatchLoss DEF VaultCall

\* Equity falls only by what is paid, settled against the lock or debited by a
\* legacy batch.
THEOREM VaultLossExplained == VaultSpec => LossExplained
  <1>1. VaultTypeOK /\ [VaultNext]_vaultVars => [\A a \in Accounts : LossOk(a)]_vaultVars
    BY StepLoss, VaultCalls
  <1>2. VaultSpec => []VaultTypeOK
    BY VaultLocksCovered, PTL
  <1>3. QED
    BY <1>1, <1>2, PTL DEF VaultSpec, LossExplained, LossOk

=============================================================================
