------------------------------ MODULE MirrorVault ------------------------------
(***************************************************************************)
(* contracts/src/MirrorVault.sol: FXRP custody with one sub-account per    *)
(* (follower, lead) pair.  An action is one external call that commits;    *)
(* a call whose guard is false reverts and changes nothing.                *)
(*                                                                         *)
(* The vault alone promises something whatever contract is wired as its    *)
(* instructionSender, so Next below lets that caller pass any argument.    *)
(* InstructionSender.tla composes the same actions with the real caller.   *)
(***************************************************************************)
EXTENDS MirrorAddresses

CONSTANTS Settlements,  \* the items legacy batches are made of
          MaxFunds      \* bound: equity of one account, and proceeds the vault holds

ASSUME VaultAssumption ==
    /\ MaxFunds \in Nat
    /\ Settlements \subseteq [account : Accounts, delta : Int, nonce : Nat]

VARIABLES balance,            \* SubAccount.balance
          pendingWithdrawal,  \* SubAccount.pendingWithdrawal
          pendingLocked,      \* SubAccount.pendingLocked
          usedNonces,         \* follower -> nonces settleBatch has consumed
          legacySettleBatchEnabled,
          vaultRoles,         \* which of the two privileged callers are wired
          held,               \* fxrpToken.balanceOf(vault)
          legacyCredited,     \* history: total settleBatch credits of an account
          legacyDebited,      \* history: total settleBatch debits of an account
          legacyApplied       \* history: settleBatch items applied to a follower

subAccounts == <<balance, pendingWithdrawal, pendingLocked>>
legacyVars  == <<usedNonces, legacyCredited, legacyDebited, legacyApplied>>
vaultVars   == <<subAccounts, legacyVars, legacySettleBatchEnabled, vaultRoles, held>>

VaultRoles == {"instructionSender", "fsaOnboarder"}

VaultTypeOK ==
    /\ balance \in [Accounts -> Nat]
    /\ pendingWithdrawal \in [Accounts -> Nat]
    /\ pendingLocked \in [Accounts -> Nat]
    /\ usedNonces \in [Followers -> SUBSET Nat]
    /\ legacySettleBatchEnabled \in BOOLEAN
    /\ vaultRoles \in SUBSET VaultRoles
    /\ held \in Nat
    /\ legacyCredited \in [Accounts -> Nat]
    /\ legacyDebited \in [Accounts -> Nat]
    /\ legacyApplied \in [Followers -> Nat]

\* A vault as the deploy scripts leave it: both callers wired, no funds.
VaultInit ==
    /\ balance = [a \in Accounts |-> 0]
    /\ pendingWithdrawal = [a \in Accounts |-> 0]
    /\ pendingLocked = [a \in Accounts |-> 0]
    /\ usedNonces = [f \in Followers |-> {}]
    /\ legacySettleBatchEnabled = FALSE
    /\ vaultRoles = VaultRoles
    /\ held = 0
    /\ legacyCredited = [a \in Accounts |-> 0]
    /\ legacyDebited = [a \in Accounts |-> 0]
    /\ legacyApplied = [f \in Followers |-> 0]

-----------------------------------------------------------------------------
(* The owner's setters. *)

\* setInstructionSender and setFsaOnboarder: wire the role, or clear it.
SetVaultRole(r) ==
    /\ vaultRoles' = IF r \in vaultRoles THEN vaultRoles \ {r} ELSE vaultRoles \cup {r}
    /\ UNCHANGED <<subAccounts, legacyVars, legacySettleBatchEnabled, held>>

SetLegacySettleBatchEnabled(enabled) ==
    /\ legacySettleBatchEnabled' = enabled
    /\ UNCHANGED <<subAccounts, legacyVars, vaultRoles, held>>

-----------------------------------------------------------------------------
(* Followers. *)

Credit(a, amount) ==
    /\ amount > 0
    /\ balance[a] + pendingWithdrawal[a] + amount <= MaxFunds
    /\ balance' = [balance EXCEPT ![a] = @ + amount]
    /\ held' = held + amount
    /\ UNCHANGED <<pendingWithdrawal, pendingLocked, legacyVars,
                   legacySettleBatchEnabled, vaultRoles>>

\* The lead is not checked: a sub-account may be keyed by address(0).
Deposit(a, amount) ==
    /\ a[1] # Zero           \* msg.sender
    /\ Credit(a, amount)

DepositFor(a, amount) ==
    /\ "fsaOnboarder" \in vaultRoles
    /\ a[1] # Zero
    /\ Credit(a, amount)

\* Mutant: the lock is not subtracted.
AvailableIgnoringLock(a) == balance[a]

\* `available` is a checked subtraction: it also reverts when the lock
\* exceeds the balance, which the comparison covers because amount > 0.
Available(a) == balance[a] - pendingLocked[a]

RequestWithdrawal(a, amount) ==
    /\ a[1] # Zero
    /\ amount > 0
    /\ Available(a) >= amount
    /\ balance' = [balance EXCEPT ![a] = @ - amount]
    /\ pendingWithdrawal' = [pendingWithdrawal EXCEPT ![a] = @ + amount]
    /\ UNCHANGED <<pendingLocked, legacyVars, legacySettleBatchEnabled, vaultRoles, held>>

-----------------------------------------------------------------------------
(* The instruction sender. *)

TransferForExecution(a, amount) ==
    /\ "instructionSender" \in vaultRoles
    /\ amount > 0
    /\ Available(a) >= amount
    /\ held >= amount        \* safeTransfer
    /\ pendingLocked' = [pendingLocked EXCEPT ![a] = @ + amount]
    /\ held' = held - amount
    /\ UNCHANGED <<balance, pendingWithdrawal, legacyVars,
                   legacySettleBatchEnabled, vaultRoles>>

SettleFromProof(a, delta) ==
    /\ "instructionSender" \in vaultRoles
    /\ a[1] # Zero /\ a[2] # Zero
    /\ delta < 0 => pendingLocked[a] >= -delta /\ balance[a] >= -delta
    /\ balance' = [balance EXCEPT ![a] = @ + delta]
    /\ pendingLocked' = IF delta < 0 THEN [pendingLocked EXCEPT ![a] = @ + delta]
                                     ELSE pendingLocked
    /\ UNCHANGED <<pendingWithdrawal, legacyVars, legacySettleBatchEnabled,
                   vaultRoles, held>>

ReceiveExecutionProceeds(amount) ==
    /\ "instructionSender" \in vaultRoles
    /\ amount > 0
    /\ held' = held + amount
    /\ UNCHANGED <<subAccounts, legacyVars, legacySettleBatchEnabled, vaultRoles>>

\* Mutant: the pending amount is paid and not cleared.
FinalizeUncleared(a) ==
    /\ "instructionSender" \in vaultRoles
    /\ pendingWithdrawal[a] > 0
    /\ held >= pendingWithdrawal[a]
    /\ held' = held - pendingWithdrawal[a]
    /\ UNCHANGED <<subAccounts, legacyVars, legacySettleBatchEnabled, vaultRoles>>

FinalizeWithdrawal(a) ==
    /\ "instructionSender" \in vaultRoles
    /\ pendingWithdrawal[a] > 0
    /\ held >= pendingWithdrawal[a]   \* safeTransfer
    /\ pendingWithdrawal' = [pendingWithdrawal EXCEPT ![a] = 0]
    /\ held' = held - pendingWithdrawal[a]
    /\ UNCHANGED <<balance, pendingLocked, legacyVars, legacySettleBatchEnabled,
                   vaultRoles>>

\* settleBatch walks its items in order over the running balances and nonces
\* and reverts as a whole at the first item that fails.

\* Mutant: the nonce is unchecked.
SettlementReplayed(bal, used, s) ==
    /\ s.account[1] # Zero /\ s.account[2] # Zero
    /\ bal[s.account] + s.delta >= 0

SettlementOk(bal, used, s) ==
    /\ s.account[1] # Zero /\ s.account[2] # Zero
    /\ s.nonce \notin used[s.account[1]]
    /\ bal[s.account] + s.delta >= 0

SettleBatchOf(items) ==
    LET s1   == items[1]
        s2   == items[2]
        bal1 == [balance EXCEPT ![s1.account] = @ + s1.delta]
        use1 == [usedNonces EXCEPT ![s1.account[1]] = @ \cup {s1.nonce}]
        Gain(s) == IF s.delta > 0 THEN s.delta ELSE 0
        Loss(s) == IF s.delta < 0 THEN -s.delta ELSE 0
        cr1  == [legacyCredited EXCEPT ![s1.account] = @ + Gain(s1)]
        db1  == [legacyDebited EXCEPT ![s1.account] = @ + Loss(s1)]
        ap1  == [legacyApplied EXCEPT ![s1.account[1]] = @ + 1]
    IN  /\ SettlementOk(balance, usedNonces, s1)
        /\ \/ /\ Len(items) = 1
              /\ balance' = bal1
              /\ usedNonces' = use1
              /\ legacyCredited' = cr1
              /\ legacyDebited' = db1
              /\ legacyApplied' = ap1
           \/ /\ Len(items) = 2
              /\ SettlementOk(bal1, use1, s2)
              /\ balance' = [bal1 EXCEPT ![s2.account] = @ + s2.delta]
              /\ usedNonces' = [use1 EXCEPT ![s2.account[1]] = @ \cup {s2.nonce}]
              /\ legacyCredited' = [cr1 EXCEPT ![s2.account] = @ + Gain(s2)]
              /\ legacyDebited' = [db1 EXCEPT ![s2.account] = @ + Loss(s2)]
              /\ legacyApplied' = [ap1 EXCEPT ![s2.account[1]] = @ + 1]

SettleBatch(items) ==
    /\ "instructionSender" \in vaultRoles
    /\ legacySettleBatchEnabled
    /\ \/ items = <<>> /\ UNCHANGED <<balance, legacyVars>>
       \/ items # <<>> /\ SettleBatchOf(items)
    /\ UNCHANGED <<pendingWithdrawal, pendingLocked, legacySettleBatchEnabled,
                   vaultRoles, held>>

\* Bound: batches carry at most two items.
Batches == {<<>>} \cup {<<s>> : s \in Settlements} \cup (Settlements \X Settlements)

-----------------------------------------------------------------------------
FollowerCall ==
    \E a \in Accounts, amount \in Amounts :
        \/ Deposit(a, amount)
        \/ DepositFor(a, amount)
        \/ RequestWithdrawal(a, amount)

VaultOwnerCall ==
    \/ \E r \in VaultRoles : SetVaultRole(r)
    \/ \E enabled \in BOOLEAN : SetLegacySettleBatchEnabled(enabled)

InstructionCall ==
    \/ \E a \in Accounts, amount \in Amounts :
          \/ TransferForExecution(a, amount)
          \/ SettleFromProof(a, -amount)
          \/ /\ balance[a] + pendingWithdrawal[a] + amount <= MaxFunds
             /\ SettleFromProof(a, amount)
    \/ \E amount \in Amounts :
          held + amount <= MaxFunds /\ ReceiveExecutionProceeds(amount)
    \/ \E a \in Accounts : FinalizeWithdrawal(a)
    \/ \E items \in Batches : SettleBatch(items)

VaultNext == FollowerCall \/ VaultOwnerCall \/ InstructionCall

VaultSpec == VaultInit /\ [][VaultNext]_vaultVars

-----------------------------------------------------------------------------
(* Properties. *)

\* The amount an account has locked for unconfirmed swaps is covered by its
\* recorded balance, up to what proof-free legacy batches took from under the
\* lock: transferForExecution and requestWithdrawal both stop at
\* balance - pendingLocked, and settleFromProof lowers both sides together.
\* Where no legacy batch debited the account, a settlement of its locks can
\* never fail on InsufficientBalance and `available` never underflows.
LockedCovered ==
    \A a \in Accounts : pendingLocked[a] <= balance[a] + legacyDebited[a]

\* settleBatch applies at most one item per (follower, nonce), over all
\* batches and inside one batch, whichever leads the items name.
NonceGuardsReplay ==
    \A f \in Followers : /\ IsFiniteSet(usedNonces[f])
                         /\ legacyApplied[f] = Cardinality(usedNonces[f])

\* What an account could still draw: free balance plus requested withdrawals.
Drawable(a) == balance[a] + pendingWithdrawal[a] - pendingLocked[a]

\* FXRP leaves the vault only charged, in full, to one account: whatever
\* finalizeWithdrawal pays or transferForExecution sends out is no longer
\* drawable by that account.
OutflowCharged ==
    [][held' < held =>
          \E a \in Accounts : Drawable(a)' = Drawable(a) - (held - held')]_vaultVars

\* An account's equity (balance plus requested withdrawals) falls only because
\* the vault paid exactly that much out, because exactly that much of its lock
\* was settled, or because a legacy batch debited it.
LossExplained ==
    [][\A a \in Accounts :
          LET loss == balance[a] + pendingWithdrawal[a]
                        - (balance'[a] + pendingWithdrawal'[a])
          IN  loss > 0 => \/ held - held' = loss
                          \/ pendingLocked[a] - pendingLocked'[a] = loss
                          \/ legacyDebited'[a] - legacyDebited[a] >= loss]_vaultVars

=============================================================================
