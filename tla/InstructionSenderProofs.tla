------------------------ MODULE InstructionSenderProofs ------------------------
(***************************************************************************)
(* Proofs about InstructionSender.  First typing, the cover of the locks   *)
(* in the composed system, the pairing of settlements with transactions    *)
(* and what a step may never do to fills, fees and accruals.  Then what    *)
(* the books of the vault, the sender and the fee contract add up to:      *)
(* locks are what unsettled sales spent, the vault's FXRP is what accounts *)
(* can draw and the proceeds that wait, every unsettled fill finds an      *)
(* unused transaction, leads are paid per settled fill.  With them the     *)
(* step simulation of the follower's ledger.                               *)
(***************************************************************************)
EXTENDS InstructionSender, MirrorVaultProofs, SumProofs

-----------------------------------------------------------------------------
(* Fees. *)

\* The net fee is a natural number: the protocol's tenth never exceeds the whole.
LEMMA NetFeeNat ==
  ASSUME NEW rate \in Nat, NEW profit \in Nat
  PROVE  NetFee(rate, profit) \in Nat
  <1>1. profit * rate \in Nat
    OBVIOUS
  <1>2. GrossFee(rate, profit) \in Nat
    BY <1>1 DEF GrossFee, MAX_LEAD_FEE_BPS
  <1>3. ASSUME NEW g \in Nat PROVE g - ProtocolFee(g) \in Nat
    BY DEF ProtocolFee, PROTOCOL_FEE_BPS, BPS_DENOMINATOR
  <1>4. QED
    BY <1>2, <1>3 DEF NetFee

\* An accrual that commits names a registered lead and adds a natural number.
LEMMA AccrualNat ==
  ASSUME FeeTypeOK, NEW l \in Leads, NEW profit \in Nat, CanAccrue(l, profit)
  PROVE  NetFee(feeRateBps[l], profit) \in Nat
  BY NetFeeNat, FeeAssumption DEF FeeTypeOK, CanAccrue, Registered

\* An accrueFees batch only adds to accruals.
LEMMA BatchAccrual ==
  ASSUME FeeTypeOK, NEW accruals \in AccrualBatches, AccrueFees(accruals)
  PROVE  /\ FeeTypeOK'
         /\ usedProofs' = usedProofs
         /\ \A l \in Leads : accruedFees'[l] >= accruedFees[l]
  <1> USE DEF FeeTypeOK
  <1>1. \A x \in Accruals : x.lead \in Leads /\ x.profit \in Nat
    BY SenderAssumption
  <1>2. CASE \E x \in Accruals : accruals = <<x>>
    <2>1. PICK x \in Accruals : accruals = <<x>>
      BY <1>2
    <2>2. accruals[1] = x /\ Len(accruals) = 1 /\ 1 \in DOMAIN accruals
      BY <2>1
    <2>3. NetFee(feeRateBps[x.lead], x.profit) \in Nat
      BY <1>1, <2>2, AccrualNat DEF AccrueFees
    <2>4. QED
      BY <1>1, <2>2, <2>3 DEF AccrueFees
  <1>3. CASE accruals \in Accruals \X Accruals
    <2>1. PICK x \in Accruals, y \in Accruals : accruals = <<x, y>>
      BY <1>3
    <2>2. accruals[1] = x /\ accruals[2] = y /\ Len(accruals) = 2 /\ {1, 2} \subseteq DOMAIN accruals
      BY <2>1
    <2>3. /\ NetFee(feeRateBps[x.lead], x.profit) \in Nat
          /\ NetFee(feeRateBps[y.lead], y.profit) \in Nat
      BY <1>1, <2>2, AccrualNat DEF AccrueFees
    <2>4. QED
      BY <1>1, <2>2, <2>3 DEF AccrueFees
  <1>4. CASE accruals = <<>>
    <2>1. Len(accruals) = 0
      BY <1>4
    <2>2. QED
      BY <2>1 DEF AccrueFees
  <1>5. QED
    BY <1>2, <1>3, <1>4 DEF AccrualBatches

\* The fee half of a settlement consumes only the settlement's own proof and
\* leaves what is accrued as it was.
LEMMA SettlementFee ==
  ASSUME FeeTypeOK, NEW t \in Nat, NEW l \in Leads, NEW profit \in Nat,
         AccrueAndRelease(t, l, profit)
  PROVE  /\ FeeTypeOK'
         /\ usedProofs' \subseteq usedProofs \cup {t}
         /\ accruedFees' = accruedFees
  <1>1. NetFee(feeRateBps[l], profit) \in Nat
    BY AccrualNat DEF AccrueAndRelease
  <1> DEFINE net == NetFee(feeRateBps[l], profit)
  <1>2. CASE net = 0
    <2>1. UNCHANGED feeVars
      BY <1>2 DEF AccrueAndRelease
    <2>2. QED
      BY <2>1 DEF FeeTypeOK, feeVars
  <1>3. CASE net > 0
    <2>1. /\ feeHeld >= net
          /\ usedProofs' = usedProofs \cup {t}
          /\ feeHeld' = feeHeld - net
          /\ leadPaid' = [leadPaid EXCEPT ![l] = @ + net]
          /\ UNCHANGED <<feeRateBps, accruedFees, feeRoles>>
      BY <1>3 DEF AccrueAndRelease
    <2> HIDE DEF net
    <2>2. net \in Nat
      BY <1>1 DEF net
    <2>3. QED
      BY <2>1, <2>2 DEF FeeTypeOK
  <1>4. QED
    BY <1>1, <1>2, <1>3

-----------------------------------------------------------------------------
(* The whole system. *)

SenderInv == VaultInv /\ FeeTypeOK /\ SenderTypeOK

LEMMA InitInv == Init => SenderInv
  <1> SUFFICES ASSUME Init PROVE SenderInv
    OBVIOUS
  <1>1. VaultInv
    BY VaultInitInv DEF Init
  <1>2. FeeTypeOK
    <2>1. feeRoles \in SUBSET FeeRoles
      BY Zenon DEF Init, FeeInit
    <2>2. QED
      BY <2>1 DEF Init, FeeInit, FeeTypeOK
  <1>3. SenderTypeOK
    BY SenderAssumption DEF Init, SenderTypeOK, Pooled
  <1>4. QED
    BY <1>1, <1>2, <1>3 DEF SenderInv

\* The sender's own variables, and the fee contract's, left alone.
LEMMA SenderStutter == SenderTypeOK /\ UNCHANGED senderVars => SenderTypeOK'
  BY DEF SenderTypeOK, senderVars

LEMMA FeeStutter == FeeTypeOK /\ UNCHANGED feeVars => FeeTypeOK'
  BY DEF FeeTypeOK, feeVars

\* The swaps the runs enumerate are swaps.
LEMMA SwapInputType == SwapInputs \subseteq Swaps
  BY AmountsAssumption DEF SwapInputs, Swaps

\* Adding to, and taking a covered amount from, one pooled token.
LEMMA PoolGain ==
  ASSUME NEW p \in [Pooled -> Nat], NEW t \in Pooled, NEW n \in Nat
  PROVE  [p EXCEPT ![t] = @ + n] \in [Pooled -> Nat]
  OBVIOUS

LEMMA PoolLoss ==
  ASSUME NEW p \in [Pooled -> Nat], NEW t \in Pooled, NEW n \in Nat, p[t] >= n
  PROVE  [p EXCEPT ![t] = @ - n] \in [Pooled -> Nat]
  OBVIOUS

\* A match keeps the invariant: a sale adds to a lock its account covers, and
\* the tokens a swap takes from the sender are there.
LEMMA ExecuteInv ==
  ASSUME SenderInv, NEW a \in Accounts, NEW swap \in SwapInputs, NEW profit \in Profits,
         ExecuteMatch(a, swap, profit)
  PROVE  SenderInv'
  <1>1. /\ swap \in Swaps /\ swap.amountIn \in Nat /\ swap.amountOut \in Nat
        /\ swap.tokenIn \in Tokens /\ swap.tokenOut \in Tokens /\ profit \in Nat
    BY SwapInputType, FeeAssumption DEF Swaps
  <1>2. VaultInv'
    BY <1>1, TransferInv, ReceiveInv, VaultStutterInv DEF ExecuteMatch, SenderInv
  <1>3. FeeTypeOK'
    BY FeeStutter DEF ExecuteMatch, SenderInv
  <1>4. pooled' \in [Pooled -> Nat]
    <2>1. pooled \in [Pooled -> Nat]
      BY DEF SenderInv, SenderTypeOK
    <2>2. CASE swap.tokenIn = FXRP
      <3>1. swap.tokenOut \in Pooled
        BY <1>1, <2>2 DEF ExecuteMatch, Pooled
      <3>2. pooled' = [pooled EXCEPT ![swap.tokenOut] = @ + swap.amountOut]
        BY <2>2 DEF ExecuteMatch
      <3>3. QED
        BY <1>1, <2>1, <3>1, <3>2, PoolGain
    <2>3. CASE swap.tokenIn # FXRP
      <3>1. swap.tokenIn \in Pooled /\ pooled[swap.tokenIn] >= swap.amountIn
        BY <1>1, <2>3 DEF ExecuteMatch, Pooled
      <3> DEFINE left == [pooled EXCEPT ![swap.tokenIn] = @ - swap.amountIn]
      <3>2. left \in [Pooled -> Nat]
        BY <1>1, <2>1, <3>1, PoolLoss
      <3>3. CASE swap.tokenOut = FXRP
        <4>1. pooled' = left
          BY <2>3, <3>3 DEF ExecuteMatch
        <4>2. QED
          BY <3>2, <4>1
      <3>4. CASE swap.tokenOut # FXRP
        <4>1. swap.tokenOut \in Pooled
          BY <1>1, <3>4 DEF Pooled
        <4>2. pooled' = [left EXCEPT ![swap.tokenOut] = @ + swap.amountOut]
          BY <2>3, <3>4 DEF ExecuteMatch
        <4> HIDE DEF left
        <4>3. QED
          BY <1>1, <3>2, <4>1, <4>2, PoolGain
      <3>5. QED
        BY <3>3, <3>4
    <2>4. QED
      BY <2>2, <2>3
  <1>5. pendingFills' \in Seq(Fills)
    <2>1. [account |-> a, swap |-> swap, profit |-> profit, settled |-> FALSE] \in Fills
      BY <1>1 DEF Fills
    <2>2. QED
      BY <2>1 DEF ExecuteMatch, RecordFill, SenderInv, SenderTypeOK
  <1>6. chain' \in Seq(Txs)
    <2>1. swapRouter \in Routers
      BY DEF ExecuteMatch, SenderInv, SenderTypeOK
    <2>2. [to |-> "sender", emitter |-> swapRouter, swap |-> swap] \in Txs
      BY <1>1, <2>1 DEF Txs
    <2>3. QED
      BY <2>2 DEF ExecuteMatch, SenderInv, SenderTypeOK
  <1>7. SenderTypeOK'
    BY <1>4, <1>5, <1>6 DEF ExecuteMatch, SenderInv, SenderTypeOK
  <1>8. QED
    BY <1>2, <1>3, <1>7 DEF SenderInv

\* A settlement keeps the invariant.
LEMMA ApplyInv ==
  ASSUME SenderInv, NEW i \in DOMAIN pendingFills, NEW t \in DOMAIN chain,
         ApplyFdcSettlement(i, t)
  PROVE  SenderInv'
  <1> DEFINE fill == pendingFills[i]
  <1>1. /\ fill \in Fills /\ fill.account \in Accounts /\ fill.account[2] \in Leads
        /\ fill.profit \in Nat /\ fill.swap \in Swaps
    <2>1. fill \in Fills
      BY DEF SenderInv, SenderTypeOK
    <2>2. QED
      BY <2>1 DEF Fills, Accounts
  <1>2. Delta(fill.swap) \in Int
    BY <1>1 DEF Delta, Swaps
  <1>3. i \in Nat /\ t \in Nat
    BY DEF SenderInv, SenderTypeOK
  <1>4. VaultInv'
    BY <1>1, <1>2, SettleInv, VaultStutterInv DEF ApplyFdcSettlement, SenderInv
  <1>5. FeeTypeOK'
    BY <1>1, <1>3, SettlementFee, FeeStutter DEF ApplyFdcSettlement, SenderInv
  <1>6. pendingFills' \in Seq(Fills)
    <2>1. [fill EXCEPT !.settled = TRUE] \in Fills
      BY <1>1 DEF Fills
    <2>2. pendingFills' = [pendingFills EXCEPT ![i] = [fill EXCEPT !.settled = TRUE]]
      BY DEF ApplyFdcSettlement
    <2>3. QED
      BY <2>1, <2>2 DEF SenderInv, SenderTypeOK
  <1>7. SenderTypeOK'
    BY <1>3, <1>6 DEF ApplyFdcSettlement, ConsumeProof, SenderInv, SenderTypeOK
  <1>8. QED
    BY <1>4, <1>5, <1>7 DEF SenderInv

\* The calls under a batch nonce.
LEMMA NonceTypes ==
  ASSUME SenderTypeOK, NEW nonce \in Nat, ConsumeNonce(nonce)
  PROVE  SenderTypeOK'
  BY DEF ConsumeNonce, SenderTypeOK

LEMMA NonceInv ==
  ASSUME SenderInv, NEW nonce \in 0 .. MaxBatches,
         \/ \E items \in Batches : ForwardSettleBatch(items, nonce)
         \/ \E accruals \in AccrualBatches : ForwardAccrueFees(accruals, nonce)
         \/ \E a \in Accounts : ForwardFinalizeWithdrawal(a, nonce)
  PROVE  SenderInv'
  <1>1. SenderTypeOK'
    <2>1. nonce \in Nat
      BY SenderAssumption
    <2>2. ConsumeNonce(nonce)
      BY DEF ForwardSettleBatch, ForwardAccrueFees, ForwardFinalizeWithdrawal
    <2>3. QED
      BY <2>1, <2>2, NonceTypes DEF SenderInv
  <1>2. CASE \E items \in Batches : ForwardSettleBatch(items, nonce)
    BY <1>1, <1>2, BatchInv, FeeStutter DEF ForwardSettleBatch, SenderInv
  <1>3. CASE \E accruals \in AccrualBatches : ForwardAccrueFees(accruals, nonce)
    BY <1>1, <1>3, BatchAccrual, VaultStutterInv DEF ForwardAccrueFees, SenderInv
  <1>4. CASE \E a \in Accounts : ForwardFinalizeWithdrawal(a, nonce)
    BY <1>1, <1>4, FinalizeInv, FeeStutter DEF ForwardFinalizeWithdrawal, SenderInv
  <1>5. QED
    BY <1>2, <1>3, <1>4

LEMMA ExecutorInv == SenderInv /\ ExecutorCall => SenderInv'
  BY ExecuteInv, ApplyInv, NonceInv DEF ExecutorCall

\* The owner's setters.
LEMMA OwnerCallInv == SenderInv /\ OwnerCall => SenderInv'
  <1> SUFFICES ASSUME SenderInv, OwnerCall PROVE SenderInv'
    OBVIOUS
  <1>1. ASSUME NEW router \in Routers \cup {NoRouter}, SetSwapRouter(router)
        PROVE  SenderInv'
    <2>1. SenderTypeOK'
      BY <1>1 DEF SetSwapRouter, Configure, SenderInv, SenderTypeOK
    <2>2. QED
      BY <1>1, <2>1, VaultStutterInv, FeeStutter DEF SetSwapRouter, SenderInv
  <1>2. ASSUME NEW isSet \in BOOLEAN, SetFdcVerifier(isSet)
        PROVE  SenderInv'
    <2>1. SenderTypeOK'
      BY <1>2 DEF SetFdcVerifier, Configure, SenderInv, SenderTypeOK
    <2>2. QED
      BY <1>2, <2>1, VaultStutterInv, FeeStutter DEF SetFdcVerifier, SenderInv
  <1>3. CASE /\ VaultOwnerCall
             /\ Configure
             /\ UNCHANGED <<feeVars, swapRouter, fdcVerifierSet>>
    <2>1. SenderTypeOK'
      BY <1>3 DEF Configure, SenderInv, SenderTypeOK
    <2>2. QED
      BY <1>3, <2>1, OwnerInv, FeeStutter DEF SenderInv
  <1>4. ASSUME NEW r \in FeeRoles, SetFeeRole(r), Configure,
               UNCHANGED <<vaultVars, swapRouter, fdcVerifierSet>>
        PROVE  SenderInv'
    <2>1. SenderTypeOK'
      BY <1>4 DEF Configure, SenderInv, SenderTypeOK
    <2>2. FeeTypeOK'
      BY <1>4 DEF SetFeeRole, SenderInv, FeeTypeOK
    <2>3. QED
      BY <1>4, <2>1, <2>2, VaultStutterInv DEF SenderInv
  <1>5. QED
    BY <1>1, <1>2, <1>3, <1>4 DEF OwnerCall

\* Other senders' transfers and swaps, lead registrations, fee seeds.
LEMMA EnvironmentInv == SenderInv /\ EnvironmentStep => SenderInv'
  <1> SUFFICES ASSUME SenderInv, EnvironmentStep PROVE SenderInv'
    OBVIOUS
  <1>1. ASSUME NEW t \in Pooled, NEW amount \in Amounts, SeedPool(t, amount)
        PROVE  SenderInv'
    <2>1. amount \in Nat
      BY AmountsAssumption
    <2>2. SenderTypeOK'
      BY <1>1, <2>1 DEF SeedPool, SenderInv, SenderTypeOK
    <2>3. QED
      BY <1>1, <2>2, VaultStutterInv, FeeStutter DEF SeedPool, SenderInv
  <1>2. ASSUME NEW router \in Routers, NEW swap \in SwapInputs, ForeignSwap(router, swap)
        PROVE  SenderInv'
    <2>1. [to |-> "other", emitter |-> router, swap |-> swap] \in Txs
      BY SwapInputType DEF Txs
    <2>2. SenderTypeOK'
      BY <1>2, <2>1 DEF ForeignSwap, SenderInv, SenderTypeOK
    <2>3. QED
      BY <1>2, <2>2, VaultStutterInv, FeeStutter DEF ForeignSwap, SenderInv
  <1>3. ASSUME UNCHANGED <<vaultVars, senderVars>>, FeeTypeOK' PROVE SenderInv'
    BY <1>3, VaultStutterInv, SenderStutter DEF SenderInv
  <1>4. ASSUME NEW amount \in FeeSeeds, FundFees(amount) PROVE FeeTypeOK'
    BY <1>4, FeeAssumption DEF FundFees, SenderInv, FeeTypeOK
  <1>5. ASSUME NEW l \in Leads, NEW rate \in Rates, RegisterLead(l, rate)
        PROVE  FeeTypeOK'
    BY <1>5 DEF RegisterLead, SenderInv, FeeTypeOK
  <1>6. QED
    BY <1>1, <1>2, <1>3, <1>4, <1>5 DEF EnvironmentStep

LEMMA NextInv == SenderInv /\ [Next]_vars => SenderInv'
  <1> SUFFICES ASSUME SenderInv, [Next]_vars PROVE SenderInv'
    OBVIOUS
  <1>1. CASE FollowerCall /\ UNCHANGED <<feeVars, senderVars>>
    BY <1>1, FollowerInv, FeeStutter, SenderStutter DEF SenderInv
  <1>2. CASE UNCHANGED vars
    BY <1>2, VaultStutterInv, FeeStutter, SenderStutter DEF SenderInv, vars
  <1>3. QED
    BY <1>1, <1>2, ExecutorInv, OwnerCallInv, EnvironmentInv DEF Next

\* The composed system keeps its types, so no checked subtraction of the
\* contracts leaves the naturals, whatever the calls.
THEOREM TypesHold == Spec => []TypeOK
  <1>1. Spec => []SenderInv
    BY InitInv, NextInv, PTL DEF Spec
  <1>2. SenderInv => TypeOK
    BY DEF SenderInv, VaultInv, TypeOK
  <1>3. QED
    BY <1>1, <1>2, PTL

\* The vault's promise about locks survives its composition with the sender.
THEOREM LocksCovered == Spec => []LockedCovered
  <1>1. Spec => []SenderInv
    BY InitInv, NextInv, PTL DEF Spec
  <1>2. SenderInv => LockedCovered
    BY DEF SenderInv, VaultInv
  <1>3. QED
    BY <1>1, <1>2, PTL

-----------------------------------------------------------------------------
(* The vault's other promises in the composed system: whatever the sender, *)
(* its owner or the router's users do, the vault takes one of its calls.   *)

LEMMA ExecuteCallsVault ==
  ASSUME NEW a \in Accounts, NEW swap \in SwapInputs, NEW profit \in Profits,
         ExecuteMatch(a, swap, profit)
  PROVE  [VaultCall]_vaultVars
  <1>1. swap.amountIn \in Nat /\ swap.amountOut \in Nat
    BY SwapInputType DEF Swaps
  <1>2. \/ TransferForExecution(a, swap.amountIn)
        \/ ReceiveExecutionProceeds(swap.amountOut)
        \/ UNCHANGED vaultVars
    BY DEF ExecuteMatch
  <1>3. QED
    BY <1>1, <1>2 DEF VaultCall

LEMMA ApplyCallsVault ==
  ASSUME SenderTypeOK, NEW i \in DOMAIN pendingFills, NEW t \in DOMAIN chain,
         ApplyFdcSettlement(i, t)
  PROVE  [VaultCall]_vaultVars
  <1> DEFINE fill == pendingFills[i]
  <1>1. fill.account \in Accounts /\ fill.swap \in Swaps
    <2>1. fill \in Fills
      BY DEF SenderTypeOK
    <2>2. QED
      BY <2>1 DEF Fills
  <1>2. Delta(fill.swap) \in Int
    BY <1>1 DEF Delta, Swaps
  <1>3. SettleFromProof(fill.account, Delta(fill.swap)) \/ UNCHANGED vaultVars
    BY DEF ApplyFdcSettlement
  <1>4. ASSUME NEW a \in Accounts, NEW d \in Int, SettleFromProof(a, d)
        PROVE  VaultCall
    BY <1>4, Zenon DEF VaultCall
  <1> HIDE DEF fill
  <1>5. QED
    BY <1>1, <1>2, <1>3, <1>4

LEMMA SenderCallsVault == SenderTypeOK /\ [Next]_vars => [VaultCall]_vaultVars
  <1> SUFFICES ASSUME SenderTypeOK, [Next]_vars PROVE [VaultCall]_vaultVars
    OBVIOUS
  <1>1. CASE \/ FollowerCall
             \/ VaultOwnerCall
             \/ UNCHANGED vaultVars
    BY <1>1 DEF VaultCall
  <1>2. ASSUME NEW nonce \in 0 .. MaxBatches,
               \/ \E items \in Batches : ForwardSettleBatch(items, nonce)
               \/ \E accruals \in AccrualBatches : ForwardAccrueFees(accruals, nonce)
               \/ \E a \in Accounts : ForwardFinalizeWithdrawal(a, nonce)
        PROVE  [VaultCall]_vaultVars
    BY <1>2 DEF ForwardSettleBatch, ForwardAccrueFees, ForwardFinalizeWithdrawal, VaultCall
  <1>3. CASE ExecutorCall
    BY <1>2, <1>3, ExecuteCallsVault, ApplyCallsVault DEF ExecutorCall
  <1>4. CASE OwnerCall
    BY <1>1, <1>4 DEF OwnerCall, SetSwapRouter, SetFdcVerifier
  <1>5. CASE EnvironmentStep
    BY <1>1, <1>5 DEF EnvironmentStep, SeedPool, ForeignSwap
  <1>6. CASE UNCHANGED vars
    BY <1>1, <1>6 DEF vars
  <1>7. QED
    BY <1>1, <1>3, <1>4, <1>5, <1>6 DEF Next

\* A settlement nonce is used at most once per follower, whatever batches the
\* executor and the owner forward under whichever batch nonces.
THEOREM NoReplay == Spec => []NonceGuardsReplay
  <1>1. Init => NonceGuardsReplay
    BY NoncesInit DEF Init
  <1>2. TypeOK /\ NonceGuardsReplay /\ [Next]_vars => NonceGuardsReplay'
    BY SenderCallsVault, StepNonces DEF TypeOK
  <1>3. QED
    BY <1>1, <1>2, TypesHold, PTL DEF Spec

\* With the sender's own calls too, FXRP leaves the vault only charged in full to
\* one account.
THEOREM OutflowsCharged == Spec => OutflowCharged
  <1>1. TypeOK /\ [Next]_vars =>
          [held' < held => \E a \in Accounts :
                              Drawable(a)' = Drawable(a) - (held - held')]_vaultVars
    BY SenderCallsVault, StepOutflow DEF TypeOK
  <1>2. QED
    BY <1>1, TypesHold, PTL DEF Spec, OutflowCharged

\* A follower's equity falls only by what it is paid, by what a settlement takes
\* from its lock or by a proof-free batch.
THEOREM LossesExplained == Spec => LossExplained
  <1>1. TypeOK /\ [Next]_vars => [\A a \in Accounts : LossOk(a)]_vaultVars
    BY SenderCallsVault, StepLoss DEF TypeOK
  <1>2. QED
    BY <1>1, TypesHold, PTL DEF Spec, LossExplained, LossOk

-----------------------------------------------------------------------------
(* Fills, proofs and fees. *)

fillVars == <<pendingFills, chain, settlements, usedProofTxHashes>>

\* The fills and the transactions are touched by three actions only.
LEMMA FillSteps ==
  ASSUME [Next]_vars
  PROVE  \/ \E a \in Accounts, swap \in SwapInputs, profit \in Profits :
               ExecuteMatch(a, swap, profit)
         \/ \E i \in DOMAIN pendingFills, t \in DOMAIN chain : ApplyFdcSettlement(i, t)
         \/ \E router \in Routers, swap \in SwapInputs : ForeignSwap(router, swap)
         \/ UNCHANGED fillVars
  <1>1. CASE UNCHANGED vars
    BY <1>1 DEF vars, senderVars, fillVars
  <1>2. CASE FollowerCall /\ UNCHANGED <<feeVars, senderVars>>
    BY <1>2 DEF senderVars, fillVars
  <1>3. CASE ExecutorCall
    BY <1>3 DEF ExecutorCall, ForwardSettleBatch, ForwardAccrueFees,
                ForwardFinalizeWithdrawal, ConsumeNonce, fillVars
  <1>4. CASE OwnerCall
    BY <1>4 DEF OwnerCall, SetSwapRouter, SetFdcVerifier, Configure, fillVars
  <1>5. CASE EnvironmentStep
    BY <1>5 DEF EnvironmentStep, SeedPool, senderVars, fillVars
  <1>6. QED
    BY <1>1, <1>2, <1>3, <1>4, <1>5 DEF Next

\* A fill, once recorded, changes in nothing but its settled flag, which is
\* never cleared.
FrozenStep ==
  /\ Len(pendingFills') >= Len(pendingFills)
  /\ \A i \in DOMAIN pendingFills :
        pendingFills'[i] \in {pendingFills[i],
                              [pendingFills[i] EXCEPT !.settled = TRUE]}

LEMMA StepFrozen ==
  ASSUME SenderTypeOK, [Next]_vars
  PROVE  FrozenStep
  <1>1. pendingFills \in Seq(Fills)
    BY DEF SenderTypeOK
  <1>2. CASE pendingFills' = pendingFills
    BY <1>1, <1>2 DEF FrozenStep
  <1>3. ASSUME NEW a \in Accounts, NEW swap \in SwapInputs, NEW profit \in Profits,
               ExecuteMatch(a, swap, profit)
        PROVE  FrozenStep
    <2>1. PICK fill : pendingFills' = Append(pendingFills, fill)
      BY <1>3 DEF ExecuteMatch, RecordFill
    <2>2. QED
      BY <1>1, <2>1 DEF FrozenStep
  <1>4. ASSUME NEW i \in DOMAIN pendingFills, NEW t \in DOMAIN chain,
               ApplyFdcSettlement(i, t)
        PROVE  FrozenStep
    <2>1. pendingFills' = [pendingFills EXCEPT ![i] =
                              [pendingFills[i] EXCEPT !.settled = TRUE]]
      BY <1>4 DEF ApplyFdcSettlement
    <2> DEFINE new == [pendingFills[i] EXCEPT !.settled = TRUE]
    <2> HIDE DEF new
    <2>2. pendingFills' = [pendingFills EXCEPT ![i] = new]
      BY <2>1 DEF new
    <2>3. Len(pendingFills') = Len(pendingFills)
      BY <1>1, <2>2
    <2>4. \A k \in DOMAIN pendingFills :
            pendingFills'[k] = IF k = i THEN new ELSE pendingFills[k]
      BY <1>1, <2>2
    <2>5. QED
      BY <1>1, <2>3, <2>4 DEF FrozenStep, new
  <1>5. QED
    BY <1>2, <1>3, <1>4, FillSteps DEF ForeignSwap, fillVars

\* No sequence of calls rewrites a recorded fill or reopens a settled one.
THEOREM FillsStayFrozen == Spec => FillsFrozen
  <1>1. TypeOK /\ [Next]_vars => [FrozenStep]_vars
    BY StepFrozen DEF TypeOK
  <1>2. QED
    BY <1>1, TypesHold, PTL DEF Spec, FillsFrozen, FrozenStep

\* The pairing of fills and transactions as it is when nothing is recorded.
LEMMA PairingInit == Init => SettledByOwnSwap
  BY DEF Init, SettledByOwnSwap, SettledFills, OpenFills

\* Recording a fill and a transaction leaves the old pairs as they were.
LEMMA PairingExecute ==
  ASSUME SenderTypeOK, SettledByOwnSwap,
         NEW a \in Accounts, NEW swap \in SwapInputs, NEW profit \in Profits,
         ExecuteMatch(a, swap, profit)
  PROVE  SettledByOwnSwap'
  <1>1. pendingFills \in Seq(Fills) /\ chain \in Seq(Txs) /\ settlements \in SUBSET (Nat \X Nat)
    BY DEF SenderTypeOK
  <1>2. UNCHANGED <<settlements, usedProofTxHashes>>
    BY DEF ExecuteMatch
  <1>3. PICK fill : pendingFills' = Append(pendingFills, fill) /\ fill.settled = FALSE
    BY DEF ExecuteMatch, RecordFill
  <1>4. PICK tx : chain' = Append(chain, tx)
    BY DEF ExecuteMatch
  <1>5. /\ \A i \in DOMAIN pendingFills : i \in DOMAIN pendingFills' /\ pendingFills'[i] = pendingFills[i]
        /\ DOMAIN pendingFills' = DOMAIN pendingFills \cup {Len(pendingFills) + 1}
        /\ pendingFills'[Len(pendingFills) + 1] = fill
    BY <1>1, <1>3
  <1>6. \A t \in DOMAIN chain : t \in DOMAIN chain' /\ chain'[t] = chain[t]
    BY <1>1, <1>4
  <1>7. SettledFills' = SettledFills
    BY <1>3, <1>5 DEF SettledFills, OpenFills
  <1>8. \A p \in settlements : p[1] \in DOMAIN pendingFills
    BY DEF SettledByOwnSwap, SettledFills
  <1>9. QED
    BY <1>2, <1>5, <1>6, <1>7, <1>8 DEF SettledByOwnSwap

\* A settlement pairs a fill that is in no pair with a transaction that is in none.
LEMMA PairingApply ==
  ASSUME SenderTypeOK, SettledByOwnSwap,
         NEW i \in DOMAIN pendingFills, NEW t \in DOMAIN chain, ApplyFdcSettlement(i, t)
  PROVE  SettledByOwnSwap'
  <1>1. pendingFills \in Seq(Fills) /\ chain \in Seq(Txs) /\ settlements \in SUBSET (Nat \X Nat)
    BY DEF SenderTypeOK
  <1>2. /\ ~pendingFills[i].settled
        /\ t \notin usedProofTxHashes
        /\ usedProofTxHashes' = usedProofTxHashes \cup {t}
        /\ chain[t].to = "sender" /\ chain[t].swap = pendingFills[i].swap
        /\ settlements' = settlements \cup {<<i, t>>}
        /\ pendingFills' = [pendingFills EXCEPT ![i] = [pendingFills[i] EXCEPT !.settled = TRUE]]
        /\ chain' = chain
    BY DEF ApplyFdcSettlement, ConsumeProof, MatchSwapEvent
  <1>3. pendingFills[i] \in Fills
    BY <1>1
  <1>4. /\ DOMAIN pendingFills' = DOMAIN pendingFills
        /\ pendingFills'[i].settled = TRUE
        /\ \A k \in DOMAIN pendingFills : k # i => pendingFills'[k] = pendingFills[k]
        /\ pendingFills'[i].swap = pendingFills[i].swap
    BY <1>1, <1>2, <1>3 DEF Fills
  <1>5. SettledFills' = SettledFills \cup {i}
    BY <1>4 DEF SettledFills, OpenFills
  <1>6. i \notin SettledFills
    BY <1>2 DEF SettledFills, OpenFills
  <1>7. \A p \in settlements : p[1] # i /\ p[2] # t /\ p[1] \in DOMAIN pendingFills
    <2>1. \A p \in settlements : p[1] \in SettledFills /\ p[2] \in usedProofTxHashes
      BY DEF SettledByOwnSwap
    <2>2. SettledFills \subseteq DOMAIN pendingFills
      BY DEF SettledFills
    <2>3. QED
      BY <1>2, <1>6, <2>1, <2>2
  <1>8. SettledFills' = {p[1] : p \in settlements'} /\ usedProofTxHashes' = {p[2] : p \in settlements'}
    <2>1. settlements' = settlements \cup {<<i, t>>} /\ usedProofTxHashes' = usedProofTxHashes \cup {t}
      BY <1>2
    <2>2. SettledFills = {p[1] : p \in settlements} /\ usedProofTxHashes = {p[2] : p \in settlements}
      BY DEF SettledByOwnSwap
    <2> DEFINE new == <<i, t>>
    <2>3. new[1] = i /\ new[2] = t /\ new \in settlements'
      BY <2>1
    <2> HIDE DEF new
    <2>4. \A p : p \in settlements' <=> p \in settlements \/ p = new
      BY <2>1 DEF new
    <2>5. \A x : x \in SettledFills' <=> \E p \in settlements' : x = p[1]
      BY <1>5, <2>2, <2>3, <2>4
    <2>6. \A x : x \in usedProofTxHashes' <=> \E p \in settlements' : x = p[2]
      BY <2>1, <2>2, <2>3, <2>4
    <2>7. QED
      BY <2>5, <2>6
  <1>9. \A p, q \in settlements' : p[1] = q[1] \/ p[2] = q[2] => p = q
    BY <1>2, <1>7 DEF SettledByOwnSwap
  <1>10. \A p \in settlements' : /\ p[2] \in DOMAIN chain'
                                 /\ chain'[p[2]].to = "sender"
                                 /\ chain'[p[2]].swap = pendingFills'[p[1]].swap
    BY <1>2, <1>4, <1>7 DEF SettledByOwnSwap
  <1>11. QED
    BY <1>8, <1>9, <1>10 DEF SettledByOwnSwap

\* Other contracts' transactions join the chain and no pair.
LEMMA PairingForeign ==
  ASSUME SenderTypeOK, SettledByOwnSwap,
         NEW router \in Routers, NEW swap \in SwapInputs, ForeignSwap(router, swap)
  PROVE  SettledByOwnSwap'
  <1>1. PICK tx : chain' = Append(chain, tx)
    BY DEF ForeignSwap
  <1>2. \A t \in DOMAIN chain : t \in DOMAIN chain' /\ chain'[t] = chain[t]
    BY <1>1 DEF SenderTypeOK
  <1>3. UNCHANGED <<pendingFills, settlements, usedProofTxHashes>>
    BY DEF ForeignSwap
  <1>4. QED
    BY <1>2, <1>3 DEF SettledByOwnSwap, SettledFills, OpenFills

\* Whatever proofs arrive, in whatever order and however often: a fill is settled
\* at most once, by a swap of this contract's own, and no proof settles two fills.
THEOREM SettledOnce == Spec => []SettledByOwnSwap
  <1>1. SenderTypeOK /\ SettledByOwnSwap /\ [Next]_vars => SettledByOwnSwap'
    <2> SUFFICES ASSUME SenderTypeOK, SettledByOwnSwap, [Next]_vars
                 PROVE  SettledByOwnSwap'
      OBVIOUS
    <2>1. CASE UNCHANGED fillVars
      BY <2>1 DEF fillVars, SettledByOwnSwap, SettledFills, OpenFills
    <2>2. QED
      BY <2>1, FillSteps, PairingExecute, PairingApply, PairingForeign
  <1>2. TypeOK => SenderTypeOK
    BY DEF TypeOK
  <1>3. QED
    BY PairingInit, <1>1, <1>2, TypesHold, PTL DEF Spec


\* The fee contract's proofs and accruals change in two actions only.
LEMMA FeeSteps ==
  ASSUME [Next]_vars
  PROVE  \/ \E i \in DOMAIN pendingFills, t \in DOMAIN chain : ApplyFdcSettlement(i, t)
         \/ /\ usedProofTxHashes' = usedProofTxHashes
            /\ \/ UNCHANGED <<usedProofs, accruedFees>>
               \/ \E accruals \in AccrualBatches : AccrueFees(accruals)
  <1>1. CASE UNCHANGED vars
    BY <1>1 DEF vars, senderVars, feeVars
  <1>2. CASE FollowerCall /\ UNCHANGED <<feeVars, senderVars>>
    BY <1>2 DEF senderVars, feeVars
  <1>3. CASE ExecutorCall
    BY <1>3 DEF ExecutorCall, ExecuteMatch, ForwardSettleBatch, ForwardAccrueFees,
                ForwardFinalizeWithdrawal, ConsumeNonce, feeVars
  <1>4. CASE OwnerCall
    BY <1>4 DEF OwnerCall, SetSwapRouter, SetFdcVerifier, SetFeeRole, Configure, feeVars
  <1>5. CASE EnvironmentStep
    BY <1>5 DEF EnvironmentStep, SeedPool, ForeignSwap, RegisterLead, FundFees,
                senderVars, feeVars
  <1>6. QED
    BY <1>1, <1>2, <1>3, <1>4, <1>5 DEF Next

\* What a settlement does to the fee contract: nothing is released beyond what
\* it accrues, and only its own proof is consumed.
LEMMA SettlementFees ==
  ASSUME TypeOK, NEW i \in DOMAIN pendingFills, NEW t \in DOMAIN chain,
         ApplyFdcSettlement(i, t)
  PROVE  /\ usedProofTxHashes' = usedProofTxHashes \cup {t}
         /\ usedProofs' \subseteq usedProofs \cup {t}
         /\ accruedFees' = accruedFees
  <1>1. t \in Nat /\ FeeTypeOK
    BY DEF TypeOK, SenderTypeOK
  <1>2. pendingFills[i].account[2] \in Leads /\ pendingFills[i].profit \in Nat
    <2>1. pendingFills[i] \in Fills
      BY DEF TypeOK, SenderTypeOK
    <2>2. QED
      BY <2>1 DEF Fills, Accounts
  <1>3. usedProofTxHashes' = usedProofTxHashes \cup {t}
    BY DEF ApplyFdcSettlement, ConsumeProof
  <1>4. CASE UNCHANGED feeVars
    BY <1>3, <1>4 DEF feeVars
  <1>5. CASE AccrueAndRelease(t, pendingFills[i].account[2], pendingFills[i].profit)
    BY <1>1, <1>2, <1>3, <1>5, SettlementFee
  <1>6. QED
    BY <1>4, <1>5 DEF ApplyFdcSettlement

\* A proof that the sender accepts is never refused by releaseFee as already
\* used, so a settlement with a profit cannot be blocked by an earlier release.
THEOREM ReleaseProofsFresh == Spec => []FeeProofsSettled
  <1>1. Init => FeeProofsSettled
    BY DEF Init, FeeInit, FeeProofsSettled
  <1>2. TypeOK /\ FeeProofsSettled /\ [Next]_vars => FeeProofsSettled'
    <2> SUFFICES ASSUME TypeOK, FeeProofsSettled, [Next]_vars PROVE FeeProofsSettled'
      OBVIOUS
    <2>1. ASSUME NEW i \in DOMAIN pendingFills, NEW t \in DOMAIN chain,
                 ApplyFdcSettlement(i, t)
          PROVE  FeeProofsSettled'
      BY <2>1, SettlementFees DEF FeeProofsSettled
    <2>2. QED
      BY <2>1, FeeSteps, BatchAccrual DEF FeeProofsSettled, TypeOK
  <1>3. QED
    BY <1>1, <1>2, TypesHold, PTL DEF Spec

\* Accruals of accrueFees batches stay in the contract for good: no call lowers
\* what a lead has accrued.
THEOREM AccrualsOnlyGrow == Spec => AccrualsNeverReleased
  <1>1. TypeOK /\ [Next]_vars =>
          [\A l \in Leads : accruedFees'[l] >= accruedFees[l]]_vars
    <2> SUFFICES ASSUME TypeOK, [Next]_vars, NEW l \in Leads
                 PROVE  accruedFees'[l] >= accruedFees[l]
      OBVIOUS
    <2>1. accruedFees[l] \in Nat /\ FeeTypeOK
      BY DEF TypeOK, FeeTypeOK
    <2>2. CASE UNCHANGED accruedFees
      BY <2>1, <2>2
    <2>3. QED
      BY <2>1, <2>2, FeeSteps, SettlementFees, BatchAccrual
  <1>2. QED
    BY <1>1, TypesHold, PTL DEF Spec, AccrualsNeverReleased

-----------------------------------------------------------------------------
(* Withdrawals. *)

WithdrawalStep ==
    \A a \in Accounts :
        pendingWithdrawal'[a] < pendingWithdrawal[a] =>
            /\ held' = held - pendingWithdrawal[a]
            /\ batchNonce \in usedBatchNonces' \ usedBatchNonces

LEMMA StepWithdrawal == VaultTypeOK /\ [Next]_vars => WithdrawalStep
  <1> SUFFICES ASSUME VaultTypeOK, [Next]_vars PROVE WithdrawalStep
    OBVIOUS
  <1> USE DEF WithdrawalStep
  <1>1. \A a \in Accounts : pendingWithdrawal[a] \in Nat
    BY DEF VaultTypeOK
  <1>2. ASSUME UNCHANGED pendingWithdrawal PROVE WithdrawalStep
    BY <1>1, <1>2
  <1>3. CASE FollowerCall /\ UNCHANGED <<feeVars, senderVars>>
    <2>1. PICK a \in Accounts, n \in Amounts :
             Deposit(a, n) \/ DepositFor(a, n) \/ RequestWithdrawal(a, n)
      BY <1>3 DEF FollowerCall
    <2>2. CASE Credit(a, n)
      BY <1>2, <2>2 DEF Credit
    <2>3. CASE RequestWithdrawal(a, n)
      <3>1. n \in Nat /\ pendingWithdrawal' = [pendingWithdrawal EXCEPT ![a] = @ + n]
        BY <2>3, AmountsAssumption DEF RequestWithdrawal
      <3>2. \A x \in Accounts : pendingWithdrawal'[x] >= pendingWithdrawal[x]
        BY <1>1, <3>1 DEF VaultTypeOK
      <3>3. QED
        BY <1>1, <3>1, <3>2 DEF VaultTypeOK
    <2>4. QED
      BY <2>1, <2>2, <2>3 DEF Deposit, DepositFor
  <1>4. ASSUME NEW a \in Accounts, NEW nonce, ForwardFinalizeWithdrawal(a, nonce)
        PROVE  WithdrawalStep
    <2>1. /\ pendingWithdrawal' = [pendingWithdrawal EXCEPT ![a] = 0]
          /\ held' = held - pendingWithdrawal[a]
      BY <1>4 DEF ForwardFinalizeWithdrawal, FinalizeWithdrawal
    <2>2. batchNonce \in usedBatchNonces' \ usedBatchNonces
      BY <1>4 DEF ForwardFinalizeWithdrawal, ConsumeNonce
    <2>3. \A x \in Accounts : x # a => pendingWithdrawal'[x] = pendingWithdrawal[x]
      BY <2>1 DEF VaultTypeOK
    <2>4. QED
      BY <1>1, <2>1, <2>2, <2>3
  <1>5. CASE ExecutorCall
    <2>1. ASSUME NEW a \in Accounts, NEW swap \in SwapInputs, NEW profit \in Profits,
                 ExecuteMatch(a, swap, profit)
          PROVE  UNCHANGED pendingWithdrawal
      BY <2>1 DEF ExecuteMatch, TransferForExecution, ReceiveExecutionProceeds,
                  vaultVars, subAccounts
    <2>2. ASSUME NEW i \in DOMAIN pendingFills, NEW t \in DOMAIN chain,
                 ApplyFdcSettlement(i, t)
          PROVE  UNCHANGED pendingWithdrawal
      BY <2>2 DEF ApplyFdcSettlement, SettleFromProof, vaultVars, subAccounts
    <2>3. ASSUME NEW nonce, NEW items, ForwardSettleBatch(items, nonce)
          PROVE  UNCHANGED pendingWithdrawal
      BY <2>3 DEF ForwardSettleBatch, SettleBatch
    <2>4. ASSUME NEW nonce, NEW accruals, ForwardAccrueFees(accruals, nonce)
          PROVE  UNCHANGED pendingWithdrawal
      BY <2>4 DEF ForwardAccrueFees, vaultVars, subAccounts
    <2>5. QED
      BY <1>2, <1>4, <1>5, <2>1, <2>2, <2>3, <2>4 DEF ExecutorCall
  <1>6. CASE OwnerCall
    BY <1>2, <1>6 DEF OwnerCall, SetSwapRouter, SetFdcVerifier, VaultOwnerCall,
                      SetVaultRole, SetLegacySettleBatchEnabled, vaultVars, subAccounts
  <1>7. CASE EnvironmentStep
    BY <1>2, <1>7 DEF EnvironmentStep, SeedPool, ForeignSwap, vaultVars, subAccounts
  <1>8. CASE UNCHANGED vars
    BY <1>2, <1>8 DEF vars, vaultVars, subAccounts
  <1>9. QED
    BY <1>3, <1>5, <1>6, <1>7, <1>8 DEF Next

\* Requested funds leave only paid in full, under the nonce that was next.
THEOREM WithdrawalsUnderNonce == Spec => WithdrawalPaidUnderNonce
  <1>1. TypeOK /\ [Next]_vars => [WithdrawalStep]_vars
    BY StepWithdrawal DEF TypeOK
  <1>2. QED
    BY <1>1, TypesHold, PTL DEF Spec, WithdrawalPaidUnderNonce, WithdrawalStep

-----------------------------------------------------------------------------
(* The follower's ledger. *)


\* The ledger's accounts are the vault's.
LEMMA LedgerAccounts == Ledger!Accounts = Accounts
  BY DEF Accounts, Ledger!Accounts

LEMMA EquityType ==
  ASSUME VaultTypeOK
  PROVE  LedgerEquity \in [Accounts -> Nat]
  BY DEF VaultTypeOK, LedgerEquity

\* A call that changes what one account has in total, by d.
LEMMA EquityChange ==
  ASSUME VaultTypeOK, NEW a \in Accounts, NEW d \in Int,
         \A x \in Accounts :
            balance'[x] + pendingWithdrawal'[x] =
               balance[x] + pendingWithdrawal[x] + (IF x = a THEN d ELSE 0)
  PROVE  LedgerEquity' = [LedgerEquity EXCEPT ![a] = @ + d]
  <1>1. \A x \in Accounts :
           LedgerEquity[x] \in Int /\ LedgerEquity[x] = balance[x] + pendingWithdrawal[x]
    BY DEF VaultTypeOK, LedgerEquity
  <1>2. LedgerEquity' = [x \in Accounts |-> LedgerEquity[x] + (IF x = a THEN d ELSE 0)]
    BY <1>1 DEF LedgerEquity
  <1>3. LedgerEquity = [x \in Accounts |-> LedgerEquity[x]]
    BY DEF LedgerEquity
  <1> QED
    BY <1>1, <1>2, <1>3

LEMMA CreditPaysIn ==
  ASSUME VaultTypeOK, NEW a \in Accounts, NEW n \in Amounts, Credit(a, n),
         UNCHANGED pendingFills
  PROVE  Ledger!PayIn(a, n)
  <1>1. n \in Nat /\ n > 0
    BY AmountsAssumption DEF Credit
  <1>2. LedgerEquity' = [LedgerEquity EXCEPT ![a] = @ + n]
    <2>1. \A x \in Accounts :
             balance'[x] + pendingWithdrawal'[x] =
                balance[x] + pendingWithdrawal[x] + (IF x = a THEN n ELSE 0)
      BY <1>1 DEF Credit, VaultTypeOK
    <2> QED
      BY <1>1, <2>1, EquityChange
  <1>3. QED
    BY <1>1, <1>2 DEF Credit, legacyVars, Ledger!PayIn, LedgerMatches

LEMMA RequestKeepsLedger ==
  ASSUME VaultTypeOK, NEW a \in Accounts, NEW n \in Amounts, RequestWithdrawal(a, n),
         UNCHANGED pendingFills
  PROVE  UNCHANGED Ledger!ledgerVars
  <1>1. n \in Nat
    BY AmountsAssumption
  <1>2. LedgerEquity' = LedgerEquity
    BY <1>1 DEF RequestWithdrawal, VaultTypeOK, LedgerEquity
  <1>3. QED
    BY <1>2 DEF RequestWithdrawal, legacyVars, Ledger!ledgerVars, LedgerMatches

\* What is paid out was requested, and what was requested was not locked.
LEMMA FinalizePaysOut ==
  ASSUME VaultInv, NEW a \in Accounts, FinalizeWithdrawal(a), UNCHANGED pendingFills
  PROVE  \E n \in 1 .. LedgerEquity[a] : Ledger!PayOut(a, n)
  <1> DEFINE n == pendingWithdrawal[a]
  <1> USE DEF VaultInv, VaultTypeOK
  <1>1. LedgerEquity[a] = balance[a] + n /\ n \in Nat /\ n > 0 /\ balance[a] \in Nat
    BY DEF FinalizeWithdrawal, LedgerEquity
  <1>2. LedgerEquity' = [LedgerEquity EXCEPT ![a] = @ - n]
    <2>1. \A x \in Accounts :
             balance'[x] + pendingWithdrawal'[x] =
                balance[x] + pendingWithdrawal[x] + (IF x = a THEN -n ELSE 0)
      BY <1>1 DEF FinalizeWithdrawal
    <2> HIDE DEF VaultTypeOK, n
    <2>2. -n \in Int
      BY <1>1
    <2>3. LedgerEquity' = [LedgerEquity EXCEPT ![a] = @ + (-n)]
      BY <2>1, <2>2, EquityChange
    <2>4. LedgerEquity \in [Accounts -> Nat]
      BY EquityType
    <2> QED
      BY <1>1, <2>3, <2>4
  <1>3. n <= Ledger!Unreserved(a)
    BY <1>1 DEF LockedCovered, Ledger!Unreserved
  <1>4. Ledger!PayOut(a, n)
    BY <1>2, <1>3 DEF FinalizeWithdrawal, legacyVars, Ledger!PayOut, LedgerMatches
  <1>5. QED
    BY <1>1, <1>4

LEMMA AppendAsFunction ==
  ASSUME NEW S, NEW s \in Seq(S), NEW x \in S
  PROVE  Append(s, x) = [i \in 1 .. Len(s) + 1 |-> IF i = Len(s) + 1 THEN x ELSE s[i]]
  <1> DEFINE t == Append(s, x)
  <1>1. /\ t \in Seq(S) /\ Len(t) = Len(s) + 1 /\ Len(s) \in Nat
        /\ \A i \in 1 .. Len(s) : t[i] = s[i]
        /\ t[Len(s) + 1] = x
    OBVIOUS
  <1> HIDE DEF t
  <1>2. t = [i \in 1 .. Len(t) |-> t[i]]
    BY <1>1
  <1>3. \A i \in 1 .. Len(s) + 1 : t[i] = IF i = Len(s) + 1 THEN x ELSE s[i]
    BY <1>1
  <1> QED
    BY <1>1, <1>2, <1>3 DEF t

LEMMA AppendFill ==
  ASSUME SenderTypeOK, NEW fill \in Fills, pendingFills' = Append(pendingFills, fill)
  PROVE  LedgerMatches' = Append(LedgerMatches, LedgerMatch(fill))
  <1> DEFINE n == Len(pendingFills)
  <1>1. pendingFills \in Seq(Fills) /\ DOMAIN pendingFills = 1 .. n /\ n \in Nat
    BY DEF SenderTypeOK
  <1>2. pendingFills' = [i \in 1 .. n + 1 |-> IF i = n + 1 THEN fill ELSE pendingFills[i]]
    BY <1>1, AppendAsFunction
  <1>3. LedgerMatches = [i \in 1 .. n |-> LedgerMatch(pendingFills[i])]
    BY <1>1 DEF LedgerMatches
  <1>4. LedgerMatches' = [i \in 1 .. n + 1 |-> LedgerMatch(IF i = n + 1 THEN fill ELSE pendingFills[i])]
    BY <1>2 DEF LedgerMatches, LedgerMatch
  <1> DEFINE S == {LedgerMatch(f) : f \in Fills}
  <1>5. LedgerMatches \in Seq(S) /\ Len(LedgerMatches) = n /\ LedgerMatch(fill) \in S
    BY <1>1, <1>3
  <1>6. Append(LedgerMatches, LedgerMatch(fill)) =
           [i \in 1 .. n + 1 |-> IF i = n + 1 THEN LedgerMatch(fill) ELSE LedgerMatches[i]]
    BY <1>5, AppendAsFunction
  <1>7. \A i \in 1 .. n + 1 :
           LedgerMatch(IF i = n + 1 THEN fill ELSE pendingFills[i]) =
              IF i = n + 1 THEN LedgerMatch(fill) ELSE LedgerMatches[i]
    BY <1>1, <1>3
  <1> QED
    BY <1>4, <1>6, <1>7

\* A sale reserves what it spends; any other match reserves nothing.
LEMMA MatchExecutes ==
  ASSUME SenderInv, NEW a \in Accounts, NEW swap \in SwapInputs, NEW profit \in Profits,
         ExecuteMatch(a, swap, profit)
  PROVE  \E delta \in Ledger!Deltas : Ledger!Execute(a, delta)
  <1> DEFINE fill == [account |-> a, swap |-> swap, profit |-> profit, settled |-> FALSE]
             delta == Delta(swap)
  <1>1. /\ swap \in Swaps /\ swap.amountIn \in Amounts /\ swap.amountOut \in Amounts
        /\ swap.amountIn \in Nat /\ swap.amountOut \in Nat /\ profit \in Nat
    BY SwapInputType, FeeAssumption DEF Swaps, SwapInputs
  <1>2. delta \in Ledger!Deltas /\ delta \in Int
    BY <1>1 DEF Delta, Ledger!Deltas
  <1>3. fill \in Fills /\ pendingFills' = Append(pendingFills, fill)
    BY <1>1 DEF Fills, ExecuteMatch, RecordFill
  <1>4. LedgerMatches' = Append(LedgerMatches,
                                [account |-> a, delta |-> delta, committed |-> FALSE])
    <2>1. LedgerMatch(fill) = [account |-> a, delta |-> delta, committed |-> FALSE]
      BY DEF LedgerMatch
    <2> HIDE DEF fill
    <2>2. QED
      BY <1>3, <2>1, AppendFill DEF SenderInv
  <1>5. LedgerEquity' = LedgerEquity /\ UNCHANGED legacyDebited
    BY DEF ExecuteMatch, TransferForExecution, ReceiveExecutionProceeds, vaultVars,
           subAccounts, legacyVars, LedgerEquity
  <1>6. CASE swap.tokenIn = FXRP
    <2>1. delta = -swap.amountIn /\ swap.amountIn > 0
      BY <1>6 DEF Delta, ExecuteMatch
    <2>2. TransferForExecution(a, swap.amountIn)
      BY <1>6 DEF ExecuteMatch
    <2>3. -delta <= Ledger!Unreserved(a)
      <3>1. /\ balance[a] \in Nat /\ pendingWithdrawal[a] \in Nat
            /\ pendingLocked[a] \in Nat /\ legacyDebited[a] \in Nat
        BY DEF SenderInv, VaultInv, VaultTypeOK
      <3>2. QED
        BY <1>1, <2>1, <2>2, <3>1
        DEF TransferForExecution, Available, LedgerEquity, Ledger!Unreserved
    <2>4. pendingLocked' = [pendingLocked EXCEPT ![a] = @ - delta]
      <3>1. pendingLocked \in [Accounts -> Nat]
        BY DEF SenderInv, VaultInv, VaultTypeOK
      <3>2. pendingLocked' = [pendingLocked EXCEPT ![a] = @ + swap.amountIn]
        BY <2>2 DEF TransferForExecution
      <3>3. pendingLocked[a] + swap.amountIn = pendingLocked[a] - delta
        BY <1>1, <2>1, <3>1
      <3>4. QED
        BY <3>2, <3>3
    <2>5. delta < 0
      BY <1>1, <2>1
    <2> HIDE DEF delta
    <2>6. QED
      BY <1>2, <1>4, <1>5, <2>3, <2>4, <2>5 DEF Ledger!Execute
  <1>7. CASE swap.tokenIn # FXRP
    <2>1. delta >= 0
      BY <1>1, <1>7 DEF Delta
    <2>2. pendingLocked' = pendingLocked
      BY <1>7 DEF ExecuteMatch, ReceiveExecutionProceeds, vaultVars, subAccounts
    <2> HIDE DEF delta
    <2>3. QED
      BY <1>2, <1>4, <1>5, <2>1, <2>2 DEF Ledger!Execute
  <1>8. QED
    BY <1>6, <1>7

LEMMA CommittedRecord ==
  ASSUME NEW r \in [account : Accounts, delta : Int, committed : BOOLEAN]
  PROVE  [r EXCEPT !.committed = TRUE] =
            [account |-> r.account, delta |-> r.delta, committed |-> TRUE]
  <1> DEFINE R == [account : Accounts, delta : Int, committed : BOOLEAN]
             x == [r EXCEPT !.committed = TRUE]
             y == [account |-> r.account, delta |-> r.delta, committed |-> TRUE]
  <1>1. x \in R
    OBVIOUS
  <1>2. x.committed = TRUE /\ x.account = r.account /\ x.delta = r.delta
    OBVIOUS
  <1>3. y \in R /\ y.committed = TRUE /\ y.account = r.account /\ y.delta = r.delta
    OBVIOUS
  <1> HIDE DEF x, y
  <1>4. QED
    BY <1>1, <1>2, <1>3 DEF x, y

\* A settlement commits the match with the amounts it was executed with.
LEMMA SettlementCommits ==
  ASSUME SenderInv, NEW i \in DOMAIN pendingFills, NEW t \in DOMAIN chain,
         ApplyFdcSettlement(i, t)
  PROVE  i \in DOMAIN LedgerMatches /\ Ledger!Commit(i)
  <1> DEFINE fill == pendingFills[i]
             a == fill.account
             delta == Delta(fill.swap)
  <1>1. pendingFills \in Seq(Fills) /\ fill \in Fills /\ VaultTypeOK
    BY DEF SenderInv, SenderTypeOK, VaultInv
  <1>2. a \in Accounts /\ delta \in Int
    BY <1>1 DEF Fills, Swaps, Delta
  <1>3. /\ i \in DOMAIN LedgerMatches
        /\ LedgerMatches[i] = [account |-> a, delta |-> delta, committed |-> FALSE]
    BY <1>1 DEF LedgerMatches, LedgerMatch, ApplyFdcSettlement, Fills
  <1>4. LedgerMatches' = [LedgerMatches EXCEPT ![i].committed = TRUE]
    <2> DEFINE new == [fill EXCEPT !.settled = TRUE]
    <2>1. pendingFills' = [pendingFills EXCEPT ![i] = new]
      BY DEF ApplyFdcSettlement
    <2>2. LedgerMatch(new) = [LedgerMatch(fill) EXCEPT !.committed = TRUE]
      <3>1. new.account = fill.account /\ new.swap = fill.swap /\ new.settled = TRUE
        BY <1>1 DEF Fills
      <3>2. [LedgerMatch(fill) EXCEPT !.committed = TRUE] =
               [account |-> fill.account, delta |-> Delta(fill.swap), committed |-> TRUE]
        <4>1. LedgerMatch(fill) \in [account : Accounts, delta : Int, committed : BOOLEAN]
          BY <1>1, <1>2 DEF Fills, LedgerMatch
        <4>2. LedgerMatch(fill).account = fill.account /\ LedgerMatch(fill).delta = Delta(fill.swap)
          BY DEF LedgerMatch
        <4> QED
          BY <4>1, <4>2, CommittedRecord
      <3>3. LedgerMatch(new) =
               [account |-> new.account, delta |-> Delta(new.swap), committed |-> new.settled]
        BY DEF LedgerMatch
      <3> HIDE DEF new, fill
      <3>4. QED
        BY <3>1, <3>2, <3>3
    <2> HIDE DEF new
    <2>3. LedgerMatches' = [k \in DOMAIN pendingFills |->
                              IF k = i THEN LedgerMatch(new) ELSE LedgerMatches[k]]
      <3>1. DOMAIN pendingFills' = DOMAIN pendingFills
        BY <1>1, <2>1
      <3>2. \A k \in DOMAIN pendingFills :
               pendingFills'[k] = IF k = i THEN new ELSE pendingFills[k]
        BY <1>1, <2>1
      <3>3. \A k \in DOMAIN pendingFills : LedgerMatches[k] = LedgerMatch(pendingFills[k])
        BY DEF LedgerMatches
      <3>4. LedgerMatches' = [k \in DOMAIN pendingFills |-> LedgerMatch(pendingFills'[k])]
        BY <3>1 DEF LedgerMatches, LedgerMatch
      <3>5. QED
        BY <3>2, <3>3, <3>4
    <2>4. LedgerMatches[i] = LedgerMatch(fill)
      BY DEF LedgerMatches
    <2>5. DOMAIN LedgerMatches = DOMAIN pendingFills
      BY DEF LedgerMatches
    <2>6. LedgerMatches = [k \in DOMAIN pendingFills |-> LedgerMatches[k]]
      BY DEF LedgerMatches
    <2> HIDE DEF fill
    <2>7. QED
      BY <2>2, <2>3, <2>4, <2>5, <2>6
  <1>5. CASE delta # 0 /\ SettleFromProof(a, delta)
    <2> HIDE DEF delta, a
    <2>1. /\ delta < 0 => pendingLocked[a] + delta >= 0 /\ balance[a] + delta >= 0
          /\ balance' = [balance EXCEPT ![a] = @ + delta]
          /\ delta < 0 => pendingLocked' = [pendingLocked EXCEPT ![a] = @ + delta]
          /\ delta >= 0 => pendingLocked' = pendingLocked
          /\ UNCHANGED <<pendingWithdrawal, legacyDebited>>
      BY <1>1, <1>2, <1>5 DEF SettleFromProof, VaultTypeOK, legacyVars
    <2>2. LedgerEquity' = [LedgerEquity EXCEPT ![a] = @ + delta]
      <3>1. \A x \in Accounts :
               balance'[x] + pendingWithdrawal'[x] =
                  balance[x] + pendingWithdrawal[x] + (IF x = a THEN delta ELSE 0)
        <4>1. \A x \in Accounts : balance[x] \in Nat /\ pendingWithdrawal[x] \in Nat
          BY <1>1 DEF VaultTypeOK
        <4>2. \A x \in Accounts : balance'[x] = IF x = a THEN balance[x] + delta ELSE balance[x]
          BY <1>1, <1>2, <2>1 DEF VaultTypeOK
        <4>3. QED
          BY <1>2, <2>1, <4>1, <4>2
      <3>2. QED
        BY <1>1, <1>2, <3>1, EquityChange
    <2>3. LedgerEquity[a] + delta >= 0
      BY <1>1, <1>2, <2>1 DEF VaultTypeOK, LedgerEquity
    <2>4. QED
      BY <1>2, <1>3, <1>4, <2>1, <2>2, <2>3 DEF Ledger!Commit
  <1>6. CASE delta = 0 /\ UNCHANGED vaultVars
    <2> HIDE DEF delta, a
    <2>1. LedgerEquity' = LedgerEquity /\ UNCHANGED <<pendingLocked, legacyDebited>>
      BY <1>6 DEF vaultVars, subAccounts, legacyVars, LedgerEquity
    <2>2. LedgerEquity \in [Accounts -> Nat]
      BY <1>1, EquityType
    <2>3. LedgerEquity' = [LedgerEquity EXCEPT ![a] = @ + delta] /\ LedgerEquity[a] + delta >= 0
      BY <1>2, <1>6, <2>1, <2>2
    <2>4. delta >= 0
      BY <1>6
    <2>5. /\ delta < 0 => pendingLocked[a] + delta >= 0
          /\ delta < 0 => pendingLocked' = [pendingLocked EXCEPT ![a] = @ + delta]
          /\ delta >= 0 => pendingLocked' = pendingLocked
          /\ legacyDebited' = legacyDebited
      BY <1>2, <2>1, <2>4
    <2>6. QED
      BY <1>2, <1>3, <1>4, <2>3, <2>5 DEF Ledger!Commit
  <1>7. QED
    BY <1>3, <1>5, <1>6 DEF ApplyFdcSettlement

\* A proof-free batch takes from no account more than it records.
LEMMA BatchRecorded ==
  ASSUME VaultTypeOK, NEW items \in Batches, SettleBatch(items), NEW x \in Accounts
  PROVE  /\ legacyDebited'[x] >= legacyDebited[x]
         /\ balance'[x] + legacyDebited'[x] >= balance[x] + legacyDebited[x]
  <1>1. CASE \E s \in Settlements : items = <<s>>
    <2>1. PICK s \in Settlements : items = <<s>>
      BY <1>1
    <2>2. items[1] = s /\ Len(items) = 1 /\ Len(items) # 2
      BY <2>1
    <2>3. SettleBatchOf(items)
      BY <2>1 DEF SettleBatch
    <2>4. QED
      BY <2>2, <2>3, ItemType DEF VaultTypeOK, SettleBatchOf
  <1>2. CASE items \in Settlements \X Settlements
    <2>1. PICK s \in Settlements, t \in Settlements : items = <<s, t>>
      BY <1>2
    <2>2. items[1] = s /\ items[2] = t /\ Len(items) = 2 /\ Len(items) # 1
      BY <2>1
    <2>3. SettleBatchOf(items)
      BY <2>1 DEF SettleBatch
    <2>4. QED
      BY <2>2, <2>3, ItemType DEF VaultTypeOK, SettleBatchOf
  <1>3. CASE items = <<>>
    BY <1>3 DEF SettleBatch, VaultTypeOK, legacyVars
  <1>4. QED
    BY <1>1, <1>2, <1>3 DEF Batches

LEMMA BatchAdjusts ==
  ASSUME VaultInv, NEW items \in Batches, SettleBatch(items), UNCHANGED pendingFills
  PROVE  Ledger!Adjust
  <1>1. VaultTypeOK /\ VaultTypeOK'
    BY BatchInv DEF VaultInv
  <1>2. UNCHANGED <<pendingWithdrawal, pendingLocked>>
    BY DEF SettleBatch
  <1>3. ASSUME NEW x \in Accounts
        PROVE  LedgerEquity'[x] + legacyDebited'[x] >= LedgerEquity[x] + legacyDebited[x]
    <2>1. balance'[x] + legacyDebited'[x] >= balance[x] + legacyDebited[x]
      BY <1>1, BatchRecorded
    <2>2. /\ LedgerEquity[x] = balance[x] + pendingWithdrawal[x]
          /\ LedgerEquity'[x] = balance'[x] + pendingWithdrawal'[x]
      BY DEF LedgerEquity
    <2>3. QED
      BY <1>1, <1>2, <2>1, <2>2 DEF VaultTypeOK
  <1>4. LedgerMatches' = LedgerMatches
    BY DEF LedgerMatches
  <1>5. QED
    BY <1>1, <1>2, <1>3, <1>4, BatchRecorded, LedgerAccounts DEF Ledger!Adjust

LEMMA InitLedger == Init => Ledger!LedgerInit
  <1> SUFFICES ASSUME Init PROVE Ledger!LedgerInit
    OBVIOUS
  <1>1. LedgerEquity = [a \in Accounts |-> 0]
    BY DEF Init, VaultInit, LedgerEquity
  <1>2. LedgerMatches = <<>>
    <2>1. DOMAIN pendingFills = {}
      BY DEF Init
    <2>2. LedgerMatches = [i \in {} |-> LedgerMatch(pendingFills[i])]
      BY <2>1 DEF LedgerMatches
    <2>3. QED
      BY <2>2
  <1>3. QED
    BY <1>1, <1>2, LedgerAccounts DEF Init, VaultInit, Ledger!LedgerInit

\* Every call keeps the ledger: it takes a step of it or leaves it alone.
LEMMA StepLedger ==
  ASSUME SenderInv, [Next]_vars
  PROVE  [Ledger!LedgerNext]_(Ledger!ledgerVars)
  <1> DEFINE Kept == Ledger!LedgerNext \/ UNCHANGED Ledger!ledgerVars
  <1>1. VaultInv /\ VaultTypeOK /\ VaultTypeOK' /\ SenderTypeOK
    BY NextInv DEF SenderInv, VaultInv
  <1>2. ASSUME UNCHANGED <<vaultVars, pendingFills>> PROVE Kept
    BY <1>2 DEF vaultVars, subAccounts, legacyVars, LedgerEquity, LedgerMatches,
                Ledger!ledgerVars
  <1>3. CASE FollowerCall /\ UNCHANGED <<feeVars, senderVars>>
    <2>1. PICK a \in Accounts, n \in Amounts :
             Deposit(a, n) \/ DepositFor(a, n) \/ RequestWithdrawal(a, n)
      BY <1>3 DEF FollowerCall
    <2>2. UNCHANGED pendingFills
      BY <1>3 DEF senderVars
    <2>3. CASE Credit(a, n)
      <3>1. Ledger!PayIn(a, n)
        BY <1>1, <2>2, <2>3, CreditPaysIn
      <3>2. QED
        BY <3>1, LedgerAccounts DEF Ledger!LedgerNext
    <2>4. CASE RequestWithdrawal(a, n)
      BY <1>1, <2>2, <2>4, RequestKeepsLedger
    <2>5. QED
      BY <2>1, <2>3, <2>4 DEF Deposit, DepositFor
  <1>4. CASE ExecutorCall
    <2>1. ASSUME NEW a \in Accounts, NEW swap \in SwapInputs, NEW profit \in Profits,
                 ExecuteMatch(a, swap, profit)
          PROVE  Kept
      BY <2>1, MatchExecutes, LedgerAccounts DEF Ledger!LedgerNext
    <2>2. ASSUME NEW i \in DOMAIN pendingFills, NEW t \in DOMAIN chain,
                 ApplyFdcSettlement(i, t)
          PROVE  Kept
      BY <2>2, SettlementCommits DEF Ledger!LedgerNext
    <2>3. ASSUME NEW items \in Batches, NEW nonce, ForwardSettleBatch(items, nonce)
          PROVE  Kept
      <3>1. Ledger!Adjust
        BY <1>1, <2>3, BatchAdjusts DEF ForwardSettleBatch, ConsumeNonce
      <3>2. QED
        BY <3>1, LedgerAccounts DEF Ledger!LedgerNext
    <2>4. ASSUME NEW accruals, NEW nonce, ForwardAccrueFees(accruals, nonce)
          PROVE  Kept
      <3>1. UNCHANGED <<vaultVars, pendingFills>>
        BY <2>4 DEF ForwardAccrueFees, ConsumeNonce
      <3>2. QED
        BY <1>2, <3>1
    <2>5. ASSUME NEW a \in Accounts, NEW nonce, ForwardFinalizeWithdrawal(a, nonce)
          PROVE  Kept
      <3>1. \E n \in 1 .. LedgerEquity[a] : Ledger!PayOut(a, n)
        BY <1>1, <2>5, FinalizePaysOut DEF ForwardFinalizeWithdrawal, ConsumeNonce
      <3>2. QED
        BY <3>1, LedgerAccounts DEF Ledger!LedgerNext
    <2>6. QED
      BY <1>4, <2>1, <2>2, <2>3, <2>4, <2>5 DEF ExecutorCall
  <1>5. CASE OwnerCall
    <2>1. UNCHANGED <<subAccounts, legacyVars, pendingFills>>
      BY <1>5 DEF OwnerCall, SetSwapRouter, SetFdcVerifier, VaultOwnerCall, SetVaultRole,
                  SetLegacySettleBatchEnabled, Configure, vaultVars
    <2>2. QED
      BY <2>1 DEF subAccounts, legacyVars, LedgerEquity, LedgerMatches, Ledger!ledgerVars
  <1>6. CASE EnvironmentStep
    BY <1>2, <1>6 DEF EnvironmentStep, SeedPool, ForeignSwap, senderVars
  <1>7. CASE UNCHANGED vars
    BY <1>2, <1>7 DEF vars, senderVars
  <1>8. QED
    BY <1>3, <1>4, <1>5, <1>6, <1>7 DEF Next

\* The three contracts implement the follower's ledger for every set of followers,
\* leads, tokens and routers, and any number of fills, proofs and batches: funds
\* move only by payments, by matches committed once as executed, and by recorded
\* adjustments, and what an open sale has spent is never paid out.
THEOREM LedgerImplemented == Spec => LedgerKept
  <1>1. Spec => []SenderInv
    BY InitInv, NextInv, PTL DEF Spec
  <1>2. SenderInv /\ [Next]_vars => [Ledger!LedgerNext]_(Ledger!ledgerVars)
    BY StepLedger
  <1>3. QED
    BY InitLedger, <1>1, <1>2, PTL DEF Spec, LedgerKept, Ledger!LedgerSpec

-----------------------------------------------------------------------------
(* Fills and the sums over them. *)

\* The fields of a recorded fill.
LEMMA FillTypes ==
  ASSUME SenderTypeOK
  PROVE  /\ pendingFills \in Seq(Fills) /\ DOMAIN pendingFills = 1 .. Len(pendingFills)
         /\ Len(pendingFills) \in Nat
         /\ IsFiniteSet(DOMAIN pendingFills)
         /\ \A i \in DOMAIN pendingFills :
              /\ pendingFills[i] \in Fills
              /\ pendingFills[i].swap \in Swaps
              /\ pendingFills[i].account \in Accounts
              /\ pendingFills[i].profit \in Nat
              /\ pendingFills[i].swap.amountIn \in Nat
              /\ pendingFills[i].swap.amountOut \in Nat
  <1>1. pendingFills \in Seq(Fills)
    BY DEF SenderTypeOK
  <1>2. DOMAIN pendingFills = 1 .. Len(pendingFills) /\ Len(pendingFills) \in Nat
    BY <1>1
  <1>3. IsFiniteSet(1 .. Len(pendingFills))
    BY <1>2, FS_Interval
  <1>4. \A i \in DOMAIN pendingFills : pendingFills[i] \in Fills
    BY <1>1
  <1>5. \A fill \in Fills : /\ fill.swap \in Swaps /\ fill.account \in Accounts /\ fill.profit \in Nat
                            /\ fill.swap.amountIn \in Nat /\ fill.swap.amountOut \in Nat
    BY DEF Fills, Swaps
  <1> QED
    BY <1>1, <1>2, <1>3, <1>4, <1>5

\* A recorded fill is one more open fill; the others stay as they are.
LEMMA FillRecorded ==
  ASSUME SenderTypeOK, NEW fill, fill.settled = FALSE,
         pendingFills' = Append(pendingFills, fill)
  PROVE  LET n == Len(pendingFills) + 1
         IN  /\ n \notin DOMAIN pendingFills
             /\ DOMAIN pendingFills' = DOMAIN pendingFills \cup {n}
             /\ pendingFills'[n] = fill
             /\ \A i \in DOMAIN pendingFills : pendingFills'[i] = pendingFills[i]
             /\ OpenFills' = OpenFills \cup {n}
             /\ SettledFills' = SettledFills
  <1> DEFINE n == Len(pendingFills) + 1
  <1>1. /\ n \notin DOMAIN pendingFills
        /\ DOMAIN pendingFills' = DOMAIN pendingFills \cup {n}
        /\ pendingFills'[n] = fill
        /\ \A i \in DOMAIN pendingFills : pendingFills'[i] = pendingFills[i]
    BY FillTypes
  <1> HIDE DEF n
  <1>2. OpenFills' = OpenFills \cup {n}
    BY <1>1 DEF OpenFills
  <1>3. SettledFills' = SettledFills
    BY <1>1, <1>2 DEF SettledFills, OpenFills
  <1> QED
    BY <1>1, <1>2, <1>3 DEF n

\* A settled fill leaves the open ones; no fill changes in anything else.
LEMMA FillClosed ==
  ASSUME SenderTypeOK, NEW i \in DOMAIN pendingFills, ~pendingFills[i].settled,
         pendingFills' = [pendingFills EXCEPT ![i].settled = TRUE]
  PROVE  /\ DOMAIN pendingFills' = DOMAIN pendingFills
         /\ \A k \in DOMAIN pendingFills :
               /\ pendingFills'[k].account = pendingFills[k].account
               /\ pendingFills'[k].swap = pendingFills[k].swap
               /\ pendingFills'[k].profit = pendingFills[k].profit
         /\ i \in OpenFills /\ OpenFills' = OpenFills \ {i}
         /\ i \notin SettledFills /\ SettledFills' = SettledFills \cup {i}
  <1> DEFINE new == [pendingFills[i] EXCEPT !.settled = TRUE]
  <1>1. new.account = pendingFills[i].account /\ new.swap = pendingFills[i].swap
        /\ new.profit = pendingFills[i].profit /\ new.settled = TRUE
    BY FillTypes DEF Fills
  <1>2. pendingFills' = [pendingFills EXCEPT ![i] = new]
    OBVIOUS
  <1> HIDE DEF new
  <1>3. DOMAIN pendingFills' = DOMAIN pendingFills
    BY <1>2
  <1>4. \A k \in DOMAIN pendingFills : pendingFills'[k] = IF k = i THEN new ELSE pendingFills[k]
    BY <1>2, FillTypes
  <1>5. \A k \in DOMAIN pendingFills :
               /\ pendingFills'[k].account = pendingFills[k].account
               /\ pendingFills'[k].swap = pendingFills[k].swap
               /\ pendingFills'[k].profit = pendingFills[k].profit
    BY <1>1, <1>4
  <1>6. i \in OpenFills /\ OpenFills' = OpenFills \ {i}
    BY <1>1, <1>3, <1>4 DEF OpenFills
  <1>7. i \notin SettledFills /\ SettledFills' = SettledFills \cup {i}
    BY <1>3, <1>6 DEF SettledFills, OpenFills
  <1> QED
    BY <1>3, <1>5, <1>6, <1>7

\* The sets of fills that the sums range over are finite.
LEMMA OpenFinite ==
  ASSUME SenderTypeOK
  PROVE  /\ IsFiniteSet(OpenPurchases) /\ OpenPurchases \subseteq OpenFills
         /\ OpenFills \subseteq DOMAIN pendingFills
         /\ \A a : IsFiniteSet(OpenSales(a)) /\ OpenSales(a) \subseteq OpenFills
         /\ \A l : IsFiniteSet(SettledFor(l)) /\ SettledFor(l) \subseteq SettledFills
         /\ SettledFills \subseteq DOMAIN pendingFills
  BY FillTypes, FS_Subset DEF OpenFills, OpenPurchases, OpenSales, SettledFills, SettledFor

\* executeMatch lets through only swaps of an amount of one token for another.
FillsTrade ==
    \A i \in DOMAIN pendingFills :
        /\ pendingFills[i].swap.amountIn > 0
        /\ pendingFills[i].swap.tokenIn # pendingFills[i].swap.tokenOut

\* No fill, no exception.
LEMMA TradeInit == Init => FillsTrade
  BY DEF Init, FillsTrade

LEMMA TradeStep == SenderTypeOK /\ FillsTrade /\ [Next]_vars => FillsTrade'
  <1> SUFFICES ASSUME SenderTypeOK, FillsTrade, [Next]_vars PROVE FillsTrade'
    OBVIOUS
  <1>1. ASSUME NEW a \in Accounts, NEW swap \in SwapInputs, NEW profit \in Profits,
               ExecuteMatch(a, swap, profit)
        PROVE  FillsTrade'
    <2> DEFINE fill == [account |-> a, swap |-> swap, profit |-> profit, settled |-> FALSE]
    <2>1. pendingFills' = Append(pendingFills, fill) /\ fill.settled = FALSE /\ fill.swap = swap
      BY <1>1 DEF ExecuteMatch, RecordFill
    <2>2. swap.amountIn > 0 /\ swap.tokenIn # swap.tokenOut
      BY <1>1 DEF ExecuteMatch
    <2> HIDE DEF fill
    <2> QED BY <2>1, <2>2, FillRecorded DEF FillsTrade
  <1>2. ASSUME NEW i \in DOMAIN pendingFills, NEW t \in DOMAIN chain, ApplyFdcSettlement(i, t)
        PROVE  FillsTrade'
    BY <1>2, FillClosed DEF FillsTrade, ApplyFdcSettlement
  <1>3. CASE UNCHANGED pendingFills
    BY <1>3 DEF FillsTrade
  <1> QED BY <1>1, <1>2, <1>3, FillSteps DEF ForeignSwap, fillVars

-----------------------------------------------------------------------------
\* Locks and fills change together in two actions.
LEMMA LockSteps ==
  ASSUME [Next]_vars
  PROVE  \/ \E a \in Accounts, swap \in SwapInputs, profit \in Profits :
               ExecuteMatch(a, swap, profit)
         \/ \E i \in DOMAIN pendingFills, t \in DOMAIN chain : ApplyFdcSettlement(i, t)
         \/ UNCHANGED <<pendingLocked, pendingFills>>
  <1>1. CASE UNCHANGED vars
    BY <1>1 DEF vars, senderVars, vaultVars, subAccounts
  <1>2. CASE FollowerCall /\ UNCHANGED <<feeVars, senderVars>>
    BY <1>2 DEF FollowerCall, Deposit, DepositFor, Credit, RequestWithdrawal, senderVars
  <1>3. CASE ExecutorCall
    BY <1>3 DEF ExecutorCall, ForwardSettleBatch, ForwardAccrueFees,
                ForwardFinalizeWithdrawal, ConsumeNonce, SettleBatch, FinalizeWithdrawal,
                vaultVars, subAccounts
  <1>4. CASE OwnerCall
    BY <1>4 DEF OwnerCall, SetSwapRouter, SetFdcVerifier, Configure, VaultOwnerCall,
                SetVaultRole, SetLegacySettleBatchEnabled, vaultVars, subAccounts
  <1>5. CASE EnvironmentStep
    BY <1>5 DEF EnvironmentStep, SeedPool, ForeignSwap, senderVars, vaultVars, subAccounts
  <1>6. QED
    BY <1>1, <1>2, <1>3, <1>4, <1>5 DEF Next

\* A step that keeps the swaps of some fills keeps the sums of their amounts.
LEMMA AmountsAsRecorded ==
  ASSUME SenderTypeOK,
         DOMAIN pendingFills \subseteq DOMAIN pendingFills',
         NEW S \in SUBSET DOMAIN pendingFills,
         \A i \in S : pendingFills'[i].swap = pendingFills[i].swap
  PROVE  /\ SumFunctionOnSet(AmountsIn', S) = SumFunctionOnSet(AmountsIn, S)
         /\ SumFunctionOnSet(AmountsOut', S) = SumFunctionOnSet(AmountsOut, S)
         /\ \A i \in S : AmountsIn'[i] \in Nat /\ AmountsOut'[i] \in Nat
  <1>1. IsFiniteSet(S)
    BY FillTypes, FS_Subset
  <1>2. \A i \in S : AmountsIn'[i] = AmountsIn[i] /\ AmountsIn[i] \in Nat
    BY FillTypes DEF AmountsIn
  <1>3. \A i \in S : AmountsOut'[i] = AmountsOut[i] /\ AmountsOut[i] \in Nat
    BY FillTypes DEF AmountsOut
  <1> QED
    BY <1>1, <1>2, <1>3, SumSame

\* executeMatch locks what it records, for its own account only.
LEMMA LocksExecute ==
  ASSUME SenderInv, LocksMatchFills,
         NEW b \in Accounts, NEW swap \in SwapInputs, NEW profit \in Profits,
         ExecuteMatch(b, swap, profit), NEW a \in Accounts
  PROVE  pendingLocked'[a] = SumFunctionOnSet(AmountsIn', OpenSales(a)')
  <1> DEFINE fill == [account |-> b, swap |-> swap, profit |-> profit, settled |-> FALSE]
             n == Len(pendingFills) + 1
  <1>1. pendingFills' = Append(pendingFills, fill) /\ fill.settled = FALSE
        /\ fill.swap = swap /\ fill.account = b
    BY DEF ExecuteMatch, RecordFill
  <1>2. SenderTypeOK /\ VaultTypeOK /\ swap \in Swaps /\ swap.amountIn \in Nat
    BY SwapInputType DEF SenderInv, VaultInv, Swaps
  <1> HIDE DEF fill
  <1>3. /\ n \notin DOMAIN pendingFills
        /\ DOMAIN pendingFills' = DOMAIN pendingFills \cup {n}
        /\ pendingFills'[n] = fill
        /\ \A i \in DOMAIN pendingFills : pendingFills'[i] = pendingFills[i]
        /\ OpenFills' = OpenFills \cup {n}
    BY <1>1, <1>2, FillRecorded
  <1> HIDE DEF n
  <1> DEFINE S == OpenSales(a)
  <1>4. S \in SUBSET DOMAIN pendingFills /\ IsFiniteSet(S) /\ n \notin S
    BY <1>2, <1>3, OpenFinite
  <1>5. /\ SumFunctionOnSet(AmountsIn', S) = pendingLocked[a]
        /\ \A i \in S : AmountsIn'[i] \in Nat
    <2>1. SumFunctionOnSet(AmountsIn, S) = pendingLocked[a]
      BY DEF LocksMatchFills
    <2>2. \A i \in S : pendingFills'[i].swap = pendingFills[i].swap
      BY <1>3, <1>4
    <2> HIDE DEF S
    <2> QED BY <2>1, <2>2, <1>2, <1>3, <1>4, AmountsAsRecorded
  <1>6. AmountsIn'[n] = swap.amountIn
    BY <1>1, <1>3 DEF AmountsIn
  <1>7. CASE swap.tokenIn = FXRP /\ a = b
    <2>1. OpenSales(a)' = S \cup {n}
      BY <1>1, <1>3, <1>7, OpenFinite, <1>2 DEF OpenSales, IsSale
    <2>2. pendingLocked'[a] = pendingLocked[a] + swap.amountIn
      BY <1>2, <1>7 DEF ExecuteMatch, TransferForExecution, VaultTypeOK
    <2> HIDE DEF S
    <2>3. SumFunctionOnSet(AmountsIn', S \cup {n}) = SumFunctionOnSet(AmountsIn', S) + AmountsIn'[n]
      BY <1>2, <1>4, <1>5, <1>6, SumAdd
    <2> QED BY <1>5, <1>6, <2>1, <2>2, <2>3
  <1>8. CASE ~(swap.tokenIn = FXRP /\ a = b)
    <2>1. OpenSales(a)' = S
      BY <1>1, <1>3, <1>8, OpenFinite, <1>2 DEF OpenSales, IsSale
    <2>2. pendingLocked'[a] = pendingLocked[a]
      BY <1>2, <1>8 DEF ExecuteMatch, TransferForExecution, ReceiveExecutionProceeds,
                        VaultTypeOK, vaultVars, subAccounts
    <2> QED BY <1>5, <2>1, <2>2
  <1> QED BY <1>7, <1>8

\* A settlement releases what its own fill locked.
LEMMA LocksApply ==
  ASSUME SenderInv, FillsTrade, LocksMatchFills,
         NEW i \in DOMAIN pendingFills, NEW t \in DOMAIN chain,
         ApplyFdcSettlement(i, t), NEW a \in Accounts
  PROVE  pendingLocked'[a] = SumFunctionOnSet(AmountsIn', OpenSales(a)')
  <1> DEFINE fill == pendingFills[i]
             S == OpenSales(a)
  <1>1. SenderTypeOK /\ VaultTypeOK
    BY DEF SenderInv, VaultInv
  <1>2. /\ DOMAIN pendingFills' = DOMAIN pendingFills
        /\ \A k \in DOMAIN pendingFills :
               /\ pendingFills'[k].account = pendingFills[k].account
               /\ pendingFills'[k].swap = pendingFills[k].swap
        /\ i \in OpenFills /\ OpenFills' = OpenFills \ {i}
    BY <1>1, FillClosed DEF ApplyFdcSettlement
  <1>3. OpenSales(a)' = S \ {i}
    BY <1>1, <1>2, OpenFinite DEF OpenSales, IsSale
  <1>4. /\ fill.swap \in Swaps /\ fill.swap.amountIn \in Nat /\ fill.swap.amountOut \in Nat
        /\ fill.account \in Accounts
    BY <1>1, FillTypes
  <1>5. S \in SUBSET DOMAIN pendingFills /\ IsFiniteSet(S)
    BY <1>1, OpenFinite
  <1>6. /\ SumFunctionOnSet(AmountsIn', S \ {i}) = SumFunctionOnSet(AmountsIn, S \ {i})
        /\ SumFunctionOnSet(AmountsIn, S) = pendingLocked[a]
        /\ \A k \in S : AmountsIn[k] \in Nat
    <2>1. SumFunctionOnSet(AmountsIn, S) = pendingLocked[a]
      BY DEF LocksMatchFills
    <2>2. \A k \in S : AmountsIn[k] \in Nat
      BY <1>1, <1>5, FillTypes DEF AmountsIn
    <2> DEFINE T == S \ {i}
    <2>3. T \in SUBSET DOMAIN pendingFills
      BY <1>5
    <2>4. SumFunctionOnSet(AmountsIn', T) = SumFunctionOnSet(AmountsIn, T)
      <3> HIDE DEF T
      <3> QED BY <2>3, <1>1, <1>2, AmountsAsRecorded
    <2> QED BY <2>1, <2>2, <2>4
  <1>7. CASE i \in S
    <2>1. SumFunctionOnSet(AmountsIn, S) = AmountsIn[i] + SumFunctionOnSet(AmountsIn, S \ {i})
      <3> HIDE DEF S
      <3> QED BY <1>5, <1>6, <1>7, SumRemove
    <2>2. SumFunctionOnSet(AmountsIn, S \ {i}) \in Int
      <3>1. IsFiniteSet(S \ {i}) /\ \A k \in S \ {i} : AmountsIn[k] \in Int
        BY <1>5, <1>6, FS_Subset
      <3> HIDE DEF S
      <3> QED BY <3>1, SumInt
    <2>3. AmountsIn[i] = fill.swap.amountIn
      BY DEF AmountsIn
    <2>4. fill.swap.tokenIn = FXRP /\ fill.account = a
      BY <1>7 DEF OpenSales, IsSale
    <2>5. Delta(fill.swap) = -fill.swap.amountIn
      BY <2>4 DEF Delta
    <2>6. pendingLocked'[a] = pendingLocked[a] - fill.swap.amountIn
      <3>1. fill.swap.amountIn > 0
        BY DEF FillsTrade
      <3>2. SettleFromProof(a, -fill.swap.amountIn) /\ -fill.swap.amountIn < 0
        BY <1>4, <2>4, <2>5, <3>1 DEF ApplyFdcSettlement
      <3>3. pendingLocked'[a] = pendingLocked[a] + (-fill.swap.amountIn)
        BY <1>1, <3>2 DEF SettleFromProof, VaultTypeOK
      <3>4. pendingLocked[a] \in Nat
        BY <1>1 DEF VaultTypeOK
      <3> QED BY <3>3, <3>4, <1>4
    <2>7. SumFunctionOnSet(AmountsIn', OpenSales(a)') = SumFunctionOnSet(AmountsIn, S \ {i})
      BY <1>3, <1>6
    <2>8. pendingLocked[a] = fill.swap.amountIn + SumFunctionOnSet(AmountsIn, S \ {i})
      BY <1>6, <2>1, <2>3
    <2> HIDE DEF S, fill
    <2> QED BY <1>4, <2>2, <2>6, <2>7, <2>8
  <1>8. CASE i \notin S
    <2>1. OpenSales(a)' = S
      BY <1>3, <1>8
    <2>2. ~(fill.swap.tokenIn = FXRP /\ fill.account = a)
      BY <1>2, <1>8 DEF OpenSales, IsSale
    <2>3. pendingLocked'[a] = pendingLocked[a]
      <3>1. CASE fill.swap.tokenIn # FXRP
        <4>1. Delta(fill.swap) \in Nat
          BY <1>4, <3>1 DEF Delta
        <4> QED BY <4>1 DEF ApplyFdcSettlement, SettleFromProof, vaultVars, subAccounts
      <3>2. CASE fill.account # a
        BY <1>1, <1>4, <3>2 DEF ApplyFdcSettlement, SettleFromProof, vaultVars, subAccounts, VaultTypeOK
      <3> QED BY <2>2, <3>1, <3>2
    <2>4. S \ {i} = S
      BY <1>8
    <2> QED BY <1>6, <2>1, <2>3, <2>4
  <1> QED BY <1>7, <1>8

LEMMA LocksInit == Init => LocksMatchFills
  <1> SUFFICES ASSUME Init, NEW a \in Accounts
               PROVE  pendingLocked[a] = SumFunctionOnSet(AmountsIn, OpenSales(a))
    BY DEF LocksMatchFills
  <1>1. OpenSales(a) = {}
    BY DEF Init, OpenSales, OpenFills
  <1> QED BY <1>1, SumEmpty DEF Init, VaultInit

LEMMA LocksStep == SenderInv /\ FillsTrade /\ LocksMatchFills /\ [Next]_vars => LocksMatchFills'
  <1> SUFFICES ASSUME SenderInv, FillsTrade, LocksMatchFills, [Next]_vars, NEW a \in Accounts
               PROVE  pendingLocked'[a] = SumFunctionOnSet(AmountsIn', OpenSales(a)')
    BY DEF LocksMatchFills
  <1>1. CASE UNCHANGED <<pendingLocked, pendingFills>>
    BY <1>1 DEF LocksMatchFills, AmountsIn, OpenSales, OpenFills, IsSale
  <1> QED BY <1>1, LockSteps, LocksExecute, LocksApply

-----------------------------------------------------------------------------
(* Every open fill finds an unused transaction. *)

OpenOf(swap) == {i \in OpenFills : pendingFills[i].swap = swap}
UnusedOf(swap) == {t \in DOMAIN chain \ usedProofTxHashes :
                      chain[t].to = "sender" /\ chain[t].swap = swap}

\* As many unused transactions of this contract make a swap as open fills ask for it.
FillsMatched == \A swap \in Swaps : Cardinality(OpenOf(swap)) = Cardinality(UnusedOf(swap))

\* The two sets compared are finite.
LEMMA MatchedFinite ==
  ASSUME SenderTypeOK, NEW s
  PROVE  /\ IsFiniteSet(OpenOf(s)) /\ IsFiniteSet(UnusedOf(s))
         /\ OpenOf(s) \subseteq DOMAIN pendingFills
         /\ UnusedOf(s) \subseteq DOMAIN chain
  <1>1. IsFiniteSet(DOMAIN chain)
    <2>1. chain \in Seq(Txs)
      BY DEF SenderTypeOK
    <2>2. DOMAIN chain = 1 .. Len(chain) /\ Len(chain) \in Nat
      BY <2>1
    <2> QED BY <2>2, FS_Interval
  <1> QED BY <1>1, FillTypes, FS_Subset DEF OpenOf, UnusedOf, OpenFills

LEMMA MatchedInit == Init => FillsMatched
  <1> SUFFICES ASSUME Init, NEW s \in Swaps PROVE Cardinality(OpenOf(s)) = Cardinality(UnusedOf(s))
    BY DEF FillsMatched
  <1>1. OpenOf(s) = {} /\ UnusedOf(s) = {}
    BY DEF Init, OpenOf, UnusedOf, OpenFills
  <1> QED BY <1>1

\* executeMatch adds a fill and its transaction.
LEMMA MatchedExecute ==
  ASSUME SenderInv, SettledByOwnSwap, FillsMatched,
         NEW b \in Accounts, NEW swap \in SwapInputs, NEW profit \in Profits,
         ExecuteMatch(b, swap, profit), NEW s \in Swaps
  PROVE  Cardinality(OpenOf(s)') = Cardinality(UnusedOf(s)')
  <1> DEFINE fill == [account |-> b, swap |-> swap, profit |-> profit, settled |-> FALSE]
             tx == [to |-> "sender", emitter |-> swapRouter, swap |-> swap]
             n == Len(pendingFills) + 1
             m == Len(chain) + 1
  <1>1. pendingFills' = Append(pendingFills, fill) /\ fill.settled = FALSE /\ fill.swap = swap
    BY DEF ExecuteMatch, RecordFill
  <1>2. chain' = Append(chain, tx) /\ tx.to = "sender" /\ tx.swap = swap
        /\ usedProofTxHashes' = usedProofTxHashes
    BY DEF ExecuteMatch
  <1>3. SenderTypeOK /\ chain \in Seq(Txs)
    BY DEF SenderInv, SenderTypeOK
  <1> HIDE DEF fill, tx
  <1>4. /\ n \notin DOMAIN pendingFills
        /\ pendingFills'[n] = fill
        /\ \A i \in DOMAIN pendingFills : pendingFills'[i] = pendingFills[i]
        /\ OpenFills' = OpenFills \cup {n}
    BY <1>1, <1>3, FillRecorded
  <1>5. /\ m \notin DOMAIN chain /\ DOMAIN chain' = DOMAIN chain \cup {m}
        /\ chain'[m] = tx
        /\ \A t \in DOMAIN chain : chain'[t] = chain[t]
    BY <1>2, <1>3
  <1>6. m \notin usedProofTxHashes
    <2>1. usedProofTxHashes \subseteq DOMAIN chain
      BY DEF SettledByOwnSwap
    <2> QED BY <1>5, <2>1
  <1>7. Cardinality(OpenOf(s)) = Cardinality(UnusedOf(s))
    BY DEF FillsMatched
  <1> HIDE DEF n, m
  <1>8. n \notin OpenOf(s) /\ m \notin UnusedOf(s) /\ OpenFills \subseteq DOMAIN pendingFills
    BY <1>4, <1>5 DEF OpenOf, UnusedOf, OpenFills
  <1>9. CASE s = swap
    <2>1. OpenOf(s)' = OpenOf(s) \cup {n}
      BY <1>1, <1>4, <1>8, <1>9 DEF OpenOf
    <2>2. UnusedOf(s)' = UnusedOf(s) \cup {m}
      BY <1>2, <1>5, <1>6, <1>9 DEF UnusedOf
    <2>3. IsFiniteSet(OpenOf(s)) /\ IsFiniteSet(UnusedOf(s))
      BY <1>3, MatchedFinite
    <2>4. Cardinality(OpenOf(s) \cup {n}) = Cardinality(OpenOf(s)) + 1
      BY <1>8, <2>3, FS_AddElement
    <2>5. Cardinality(UnusedOf(s) \cup {m}) = Cardinality(UnusedOf(s)) + 1
      BY <1>8, <2>3, FS_AddElement
    <2> QED BY <1>7, <2>1, <2>2, <2>4, <2>5
  <1>10. CASE s # swap
    <2>1. OpenOf(s)' = OpenOf(s)
      BY <1>1, <1>4, <1>8, <1>10 DEF OpenOf
    <2>2. UnusedOf(s)' = UnusedOf(s)
      BY <1>2, <1>5, <1>6, <1>10 DEF UnusedOf
    <2> QED BY <1>7, <2>1, <2>2
  <1> QED BY <1>9, <1>10

\* A settlement takes one of each, whichever transaction it uses.
LEMMA MatchedApply ==
  ASSUME SenderInv, FillsMatched,
         NEW i \in DOMAIN pendingFills, NEW t \in DOMAIN chain,
         ApplyFdcSettlement(i, t), NEW s \in Swaps
  PROVE  Cardinality(OpenOf(s)') = Cardinality(UnusedOf(s)')
  <1>1. SenderTypeOK
    BY DEF SenderInv
  <1>2. /\ \A k \in DOMAIN pendingFills : pendingFills'[k].swap = pendingFills[k].swap
        /\ i \in OpenFills /\ OpenFills' = OpenFills \ {i}
    BY <1>1, FillClosed DEF ApplyFdcSettlement
  <1>3. /\ chain' = chain /\ t \notin usedProofTxHashes
        /\ usedProofTxHashes' = usedProofTxHashes \cup {t}
        /\ chain[t].to = "sender" /\ chain[t].swap = pendingFills[i].swap
    BY DEF ApplyFdcSettlement, ConsumeProof, MatchSwapEvent
  <1>4. Cardinality(OpenOf(s)) = Cardinality(UnusedOf(s))
    BY DEF FillsMatched
  <1>5. OpenFills \subseteq DOMAIN pendingFills
    BY DEF OpenFills
  <1>6. OpenOf(s)' = OpenOf(s) \ {i}
    BY <1>2, <1>5 DEF OpenOf
  <1>7. UnusedOf(s)' = UnusedOf(s) \ {t}
    BY <1>3 DEF UnusedOf
  <1>8. i \in OpenOf(s) <=> t \in UnusedOf(s)
    BY <1>2, <1>3 DEF OpenOf, UnusedOf
  <1>9. IsFiniteSet(OpenOf(s)) /\ IsFiniteSet(UnusedOf(s))
    BY <1>1, MatchedFinite
  <1>10. Cardinality(OpenOf(s) \ {i}) =
            IF i \in OpenOf(s) THEN Cardinality(OpenOf(s)) - 1 ELSE Cardinality(OpenOf(s))
    BY <1>9, FS_RemoveElement
  <1>11. Cardinality(UnusedOf(s) \ {t}) =
            IF t \in UnusedOf(s) THEN Cardinality(UnusedOf(s)) - 1 ELSE Cardinality(UnusedOf(s))
    BY <1>9, FS_RemoveElement
  <1> QED BY <1>4, <1>6, <1>7, <1>8, <1>10, <1>11

\* A swap of another contract is none of this contract's.
LEMMA MatchedForeign ==
  ASSUME SenderInv, SettledByOwnSwap, FillsMatched,
         NEW router \in Routers, NEW swap \in SwapInputs, ForeignSwap(router, swap),
         NEW s \in Swaps
  PROVE  Cardinality(OpenOf(s)') = Cardinality(UnusedOf(s)')
  <1> DEFINE tx == [to |-> "other", emitter |-> router, swap |-> swap]
             m == Len(chain) + 1
  <1>1. chain' = Append(chain, tx) /\ tx.to = "other"
        /\ UNCHANGED <<pendingFills, usedProofTxHashes>>
    BY DEF ForeignSwap
  <1>2. chain \in Seq(Txs)
    BY DEF SenderInv, SenderTypeOK
  <1> HIDE DEF tx
  <1>3. /\ DOMAIN chain' = DOMAIN chain \cup {m} /\ chain'[m] = tx
        /\ \A t \in DOMAIN chain : chain'[t] = chain[t] /\ t # m
    BY <1>1, <1>2
  <1> HIDE DEF m
  <1>4. UnusedOf(s)' = UnusedOf(s)
    BY <1>1, <1>3 DEF UnusedOf
  <1>5. OpenOf(s)' = OpenOf(s)
    BY <1>1 DEF OpenOf, OpenFills
  <1> QED BY <1>4, <1>5 DEF FillsMatched

LEMMA MatchedStep ==
  SenderInv /\ SettledByOwnSwap /\ FillsMatched /\ [Next]_vars => FillsMatched'
  <1> SUFFICES ASSUME SenderInv, SettledByOwnSwap, FillsMatched, [Next]_vars, NEW s \in Swaps
               PROVE  Cardinality(OpenOf(s)') = Cardinality(UnusedOf(s)')
    BY DEF FillsMatched
  <1>1. CASE UNCHANGED fillVars
    BY <1>1 DEF FillsMatched, fillVars, OpenOf, UnusedOf, OpenFills
  <1> QED BY <1>1, FillSteps, MatchedExecute, MatchedApply, MatchedForeign

LEMMA MatchedNotStarved == SenderInv /\ FillsMatched => NoFillStarved
  <1> SUFFICES ASSUME SenderInv, FillsMatched, NEW i \in OpenFills
               PROVE  \E t \in DOMAIN chain \ usedProofTxHashes :
                         chain[t].to = "sender" /\ chain[t].swap = pendingFills[i].swap
    BY DEF NoFillStarved
  <1> DEFINE s == pendingFills[i].swap
  <1>1. SenderTypeOK /\ s \in Swaps
    BY FillTypes DEF SenderInv, OpenFills
  <1>2. i \in OpenOf(s)
    BY DEF OpenOf
  <1>3. Cardinality(OpenOf(s)) # 0
    BY <1>1, <1>2, MatchedFinite, FS_EmptySet
  <1>4. UnusedOf(s) # {}
    BY <1>1, <1>3, FS_EmptySet DEF FillsMatched
  <1> QED BY <1>4 DEF UnusedOf

-----------------------------------------------------------------------------
(* Solvency. *)

\* Proceeds are a natural number.
LEMMA ProceedsNat == ASSUME SenderTypeOK PROVE UnsettledProceeds \in Nat
  <1>1. IsFiniteSet(OpenPurchases) /\ \A i \in OpenPurchases : AmountsOut[i] \in Nat
    BY OpenFinite, FillTypes DEF AmountsOut
  <1> QED BY <1>1, SumNat DEF UnsettledProceeds

\* A purchase adds what it bought to the proceeds that wait.
LEMMA ProceedsExecute ==
  ASSUME SenderTypeOK,
         NEW b \in Accounts, NEW swap \in SwapInputs, NEW profit \in Profits,
         ExecuteMatch(b, swap, profit)
  PROVE  UnsettledProceeds' =
            UnsettledProceeds + (IF swap.tokenOut = FXRP THEN swap.amountOut ELSE 0)
  <1> DEFINE fill == [account |-> b, swap |-> swap, profit |-> profit, settled |-> FALSE]
             n == Len(pendingFills) + 1
             S == OpenPurchases
  <1>1. pendingFills' = Append(pendingFills, fill) /\ fill.settled = FALSE
        /\ fill.swap = swap
    BY DEF ExecuteMatch, RecordFill
  <1>2. swap \in Swaps /\ swap.amountOut \in Nat
    BY SwapInputType DEF Swaps
  <1> HIDE DEF fill
  <1>3. /\ n \notin DOMAIN pendingFills
        /\ DOMAIN pendingFills' = DOMAIN pendingFills \cup {n}
        /\ pendingFills'[n] = fill
        /\ \A i \in DOMAIN pendingFills : pendingFills'[i] = pendingFills[i]
        /\ OpenFills' = OpenFills \cup {n}
    BY <1>1, FillRecorded
  <1> HIDE DEF n
  <1>4. S \in SUBSET DOMAIN pendingFills /\ IsFiniteSet(S) /\ n \notin S
    BY <1>3, OpenFinite
  <1>5. /\ SumFunctionOnSet(AmountsOut', S) = UnsettledProceeds
        /\ \A i \in S : AmountsOut'[i] \in Nat
    <2>1. SumFunctionOnSet(AmountsOut, S) = UnsettledProceeds
      BY DEF UnsettledProceeds
    <2>2. \A i \in S : pendingFills'[i].swap = pendingFills[i].swap
      BY <1>3, <1>4
    <2> HIDE DEF S
    <2> QED BY <2>1, <2>2, <1>3, <1>4, AmountsAsRecorded
  <1>6. AmountsOut'[n] = swap.amountOut
    BY <1>1, <1>3 DEF AmountsOut
  <1>7. UnsettledProceeds \in Nat
    BY ProceedsNat
  <1>8. CASE swap.tokenOut = FXRP
    <2>1. OpenPurchases' = S \cup {n}
      BY <1>1, <1>3, <1>8, OpenFinite DEF OpenPurchases, IsPurchase
    <2> HIDE DEF S
    <2>2. SumFunctionOnSet(AmountsOut', S \cup {n}) = SumFunctionOnSet(AmountsOut', S) + AmountsOut'[n]
      BY <1>2, <1>4, <1>5, <1>6, SumAdd
    <2>3. UnsettledProceeds' = SumFunctionOnSet(AmountsOut', S \cup {n})
      BY <2>1 DEF UnsettledProceeds
    <2> QED BY <1>5, <1>6, <1>8, <2>2, <2>3
  <1>9. CASE swap.tokenOut # FXRP
    <2>1. OpenPurchases' = S
      BY <1>1, <1>3, <1>9, OpenFinite DEF OpenPurchases, IsPurchase
    <2>2. UnsettledProceeds' = UnsettledProceeds
      BY <1>5, <2>1 DEF UnsettledProceeds
    <2> QED BY <1>7, <1>9, <2>2
  <1> QED BY <1>8, <1>9

\* Its settlement takes as much away.
LEMMA ProceedsApply ==
  ASSUME SenderTypeOK,
         NEW i \in DOMAIN pendingFills, NEW t \in DOMAIN chain, ApplyFdcSettlement(i, t)
  PROVE  /\ UnsettledProceeds' \in Nat
         /\ UnsettledProceeds =
               UnsettledProceeds' + (IF IsPurchase(i) THEN pendingFills[i].swap.amountOut ELSE 0)
  <1> DEFINE fill == pendingFills[i]
             S == OpenPurchases
             T == S \ {i}
  <1>1. /\ DOMAIN pendingFills' = DOMAIN pendingFills
        /\ \A k \in DOMAIN pendingFills : pendingFills'[k].swap = pendingFills[k].swap
        /\ i \in OpenFills /\ OpenFills' = OpenFills \ {i}
    BY FillClosed DEF ApplyFdcSettlement
  <1>2. OpenPurchases' = T
    BY <1>1, OpenFinite DEF OpenPurchases, IsPurchase
  <1>3. fill.swap.amountOut \in Nat
    BY FillTypes
  <1>4. /\ S \in SUBSET DOMAIN pendingFills /\ IsFiniteSet(S)
        /\ T \in SUBSET DOMAIN pendingFills /\ IsFiniteSet(T)
    BY OpenFinite, FS_Subset
  <1>5. \A k \in S : AmountsOut[k] \in Nat
    BY <1>4, FillTypes DEF AmountsOut
  <1>6. SumFunctionOnSet(AmountsOut', T) = SumFunctionOnSet(AmountsOut, T)
    <2> HIDE DEF T
    <2> QED BY <1>4, <1>1, AmountsAsRecorded
  <1>7. SumFunctionOnSet(AmountsOut, T) \in Nat
    <2>1. \A k \in T : AmountsOut[k] \in Nat
      BY <1>5
    <2> HIDE DEF T
    <2> QED BY <2>1, <1>4, SumNat
  <1>8. UnsettledProceeds' = SumFunctionOnSet(AmountsOut, T)
    BY <1>2, <1>6 DEF UnsettledProceeds
  <1>9. CASE IsPurchase(i)
    <2>1. i \in S
      BY <1>1, <1>9 DEF OpenPurchases
    <2>2. SumFunctionOnSet(AmountsOut, S) = AmountsOut[i] + SumFunctionOnSet(AmountsOut, S \ {i})
      <3> HIDE DEF S
      <3> QED BY <1>4, <1>5, <2>1, SumRemove
    <2>3. AmountsOut[i] = fill.swap.amountOut
      BY DEF AmountsOut
    <2>4. UnsettledProceeds = fill.swap.amountOut + SumFunctionOnSet(AmountsOut, T)
      BY <2>2, <2>3 DEF UnsettledProceeds
    <2> HIDE DEF T, S
    <2> QED BY <1>3, <1>7, <1>8, <1>9, <2>4
  <1>10. CASE ~IsPurchase(i)
    <2>1. T = S
      BY <1>10 DEF OpenPurchases
    <2>2. UnsettledProceeds = SumFunctionOnSet(AmountsOut, T)
      BY <2>1 DEF UnsettledProceeds
    <2> HIDE DEF T, S
    <2> QED BY <1>7, <1>8, <1>10, <2>2
  <1> QED BY <1>9, <1>10

LEMMA AccountsFinite == IsFiniteSet(Accounts)
  BY AddressAssumption, FS_Product DEF Accounts

\* The total of a ledger column.
LEMMA TotalInt ==
  ASSUME NEW f \in [Accounts -> Int]
  PROVE  Total(f) = SumFunctionOnSet(f, Accounts) /\ Total(f) \in Int
  BY AccountsFinite, SumInt DEF Total, SumFunction

Drawables == [a \in Accounts |-> Drawable(a)]

LEMMA DrawablesType == VaultTypeOK => Drawables \in [Accounts -> Int]
  BY DEF VaultTypeOK, Drawables, Drawable

\* The total moves by what one account moves by.
LEMMA TotalChange ==
  ASSUME NEW f \in [Accounts -> Int], NEW g \in [Accounts -> Int],
         NEW a \in Accounts, NEW d \in Int, \A x \in Accounts : g[x] = f[x] + (IF x = a THEN d ELSE 0)
  PROVE  Total(g) = Total(f) + d
  <1>1. \A x \in Accounts : f[x] \in Int /\ g[x] \in Int
    OBVIOUS
  <1>2. \A x \in Accounts \ {a} : g[x] = f[x]
    BY <1>1
  <1>3. g[a] = f[a] + d
    OBVIOUS
  <1>4. SumFunctionOnSet(g, Accounts) = SumFunctionOnSet(f, Accounts) - f[a] + g[a]
    BY <1>1, <1>2, AccountsFinite, SumChange
  <1>5. Total(f) = SumFunctionOnSet(f, Accounts) /\ Total(g) = SumFunctionOnSet(g, Accounts)
        /\ Total(f) \in Int
    BY TotalInt
  <1> QED BY <1>1, <1>3, <1>4, <1>5

\* One account's funds, the proceeds and the vault's tokens move together.
LEMMA SolvencyKept ==
  ASSUME VaultTypeOK, VaultTypeOK', SenderTypeOK, Solvency,
         NEW a \in Accounts, NEW d \in Int, NEW u \in Int,
         \A x \in Accounts : Drawable(x)' = Drawable(x) + (IF x = a THEN d ELSE 0),
         UnsettledProceeds' = UnsettledProceeds + u,
         held' = held + d + u,
         UNCHANGED <<legacyCredited, legacyDebited>>
  PROVE  Solvency'
  <1>1. Drawables \in [Accounts -> Int] /\ Drawables' \in [Accounts -> Int]
    BY DEF VaultTypeOK, Drawables, Drawable
  <1>2. \A x \in Accounts : Drawables'[x] = Drawables[x] + (IF x = a THEN d ELSE 0)
    BY DEF Drawables
  <1>3. Total(Drawables') = Total(Drawables) + d
    BY <1>1, <1>2, TotalChange
  <1>4. Total(Drawables) \in Int /\ Total(legacyCredited) \in Int /\ Total(legacyDebited) \in Int
    BY <1>1, TotalInt DEF VaultTypeOK
  <1>5. held + Total(legacyCredited) = Total(Drawables) + UnsettledProceeds + Total(legacyDebited)
    BY DEF Solvency, Drawables
  <1>6. UnsettledProceeds \in Nat /\ held \in Nat
    BY ProceedsNat DEF VaultTypeOK
  <1>7. held' + Total(legacyCredited) = Total(Drawables') + UnsettledProceeds' + Total(legacyDebited)
    BY <1>3, <1>4, <1>5, <1>6
  <1>8. Total(legacyCredited)' = Total(legacyCredited) /\ Total(legacyDebited)' = Total(legacyDebited)
    BY DEF Total
  <1>9. Total(Drawables)' = Total(Drawables')
    BY DEF Total
  <1> QED BY <1>7, <1>8, <1>9 DEF Solvency, Drawables

\* A step that touches neither vault nor fills keeps the balance sheet.
LEMMA SolvencyStutter ==
  ASSUME Solvency, UNCHANGED <<vaultVars, pendingFills>>
  PROVE  Solvency'
  <1>1. UnsettledProceeds' = UnsettledProceeds
    BY DEF UnsettledProceeds, AmountsOut, OpenPurchases, OpenFills, IsPurchase
  <1> QED
    BY <1>1 DEF Solvency, Total, Drawable, vaultVars, subAccounts, legacyVars

LEMMA ProceedsSame == UNCHANGED pendingFills => UnsettledProceeds' = UnsettledProceeds
  BY DEF UnsettledProceeds, AmountsOut, OpenPurchases, OpenFills, IsPurchase

\* deposit and depositFor: the account and the vault gain the same.
LEMMA SolvencyCredit ==
  ASSUME SenderInv, Solvency, NEW a \in Accounts, NEW n \in Amounts, Credit(a, n),
         UNCHANGED pendingFills
  PROVE  Solvency'
  <1>1. n \in Nat /\ SenderTypeOK /\ VaultTypeOK /\ VaultTypeOK'
    BY AmountsAssumption, CreditInv DEF SenderInv, VaultInv
  <1>2. UnsettledProceeds' = UnsettledProceeds + 0 /\ held' = held + n + 0
    BY <1>1, ProceedsSame, ProceedsNat DEF Credit, VaultTypeOK
  <1>3. \A x \in Accounts : Drawable(x)' = Drawable(x) + (IF x = a THEN n ELSE 0)
    BY <1>1 DEF Credit, VaultTypeOK, Drawable
  <1>4. UNCHANGED <<legacyCredited, legacyDebited>>
    BY DEF Credit, legacyVars
  <1> QED BY <1>1, <1>2, <1>3, <1>4, SolvencyKept

\* requestWithdrawal moves funds within the account.
LEMMA SolvencyRequest ==
  ASSUME SenderInv, Solvency, NEW a \in Accounts, NEW n \in Amounts, RequestWithdrawal(a, n),
         UNCHANGED pendingFills
  PROVE  Solvency'
  <1>1. n \in Nat /\ SenderTypeOK /\ VaultTypeOK /\ VaultTypeOK'
    BY AmountsAssumption, RequestInv DEF SenderInv, VaultInv
  <1>2. UnsettledProceeds' = UnsettledProceeds + 0 /\ held' = held + 0 + 0
    BY <1>1, ProceedsSame, ProceedsNat DEF RequestWithdrawal, VaultTypeOK
  <1>3. \A x \in Accounts : Drawable(x)' = Drawable(x) + (IF x = a THEN 0 ELSE 0)
    BY <1>1 DEF RequestWithdrawal, VaultTypeOK, Drawable
  <1>4. UNCHANGED <<legacyCredited, legacyDebited>>
    BY DEF RequestWithdrawal, legacyVars
  <1> QED BY <1>1, <1>2, <1>3, <1>4, SolvencyKept

\* finalizeWithdrawal: the account and the vault lose the same.
LEMMA SolvencyFinalize ==
  ASSUME SenderInv, Solvency, NEW a \in Accounts, FinalizeWithdrawal(a),
         UNCHANGED pendingFills
  PROVE  Solvency'
  <1> DEFINE d == -pendingWithdrawal[a]
  <1>1. SenderTypeOK /\ VaultTypeOK /\ VaultTypeOK' /\ d \in Int
    BY FinalizeInv DEF SenderInv, VaultInv, VaultTypeOK
  <1>2. UnsettledProceeds' = UnsettledProceeds + 0 /\ held' = held + d + 0
    BY <1>1, ProceedsSame, ProceedsNat DEF FinalizeWithdrawal, VaultTypeOK
  <1>3. \A x \in Accounts : Drawable(x)' = Drawable(x) + (IF x = a THEN d ELSE 0)
    BY <1>1 DEF FinalizeWithdrawal, VaultTypeOK, Drawable
  <1>4. UNCHANGED <<legacyCredited, legacyDebited>>
    BY DEF FinalizeWithdrawal, legacyVars
  <1> HIDE DEF d
  <1> QED BY <1>1, <1>2, <1>3, <1>4, SolvencyKept

\* executeMatch: a sale leaves with its lock, a purchase comes as proceeds.
LEMMA SolvencyExecute ==
  ASSUME SenderInv, Solvency,
         NEW a \in Accounts, NEW swap \in SwapInputs, NEW profit \in Profits,
         ExecuteMatch(a, swap, profit)
  PROVE  Solvency'
  <1>1. /\ SenderTypeOK /\ VaultTypeOK /\ VaultTypeOK'
        /\ swap.amountIn \in Nat /\ swap.amountOut \in Nat
    BY ExecuteInv, SwapInputType DEF SenderInv, VaultInv, Swaps
  <1>2. UnsettledProceeds' = UnsettledProceeds + (IF swap.tokenOut = FXRP THEN swap.amountOut ELSE 0)
    BY <1>1, ProceedsExecute
  <1>3. swap.tokenIn # swap.tokenOut
    BY DEF ExecuteMatch
  <1>4. CASE swap.tokenIn = FXRP
    <2> DEFINE d == -swap.amountIn
    <2>1. TransferForExecution(a, swap.amountIn)
      BY <1>4 DEF ExecuteMatch
    <2>2. d \in Int /\ held' = held + d + 0
      BY <1>1, <2>1 DEF TransferForExecution, VaultTypeOK
    <2>3. \A x \in Accounts : Drawable(x)' = Drawable(x) + (IF x = a THEN d ELSE 0)
      BY <1>1, <2>1 DEF TransferForExecution, VaultTypeOK, Drawable
    <2>4. UNCHANGED <<legacyCredited, legacyDebited>>
      BY <2>1 DEF TransferForExecution, legacyVars
    <2>5. UnsettledProceeds' = UnsettledProceeds + 0
      BY <1>2, <1>3, <1>4
    <2> HIDE DEF d
    <2> QED BY <1>1, <2>2, <2>3, <2>4, <2>5, SolvencyKept
  <1>5. CASE swap.tokenOut = FXRP
    <2>1. ReceiveExecutionProceeds(swap.amountOut)
      BY <1>3, <1>5 DEF ExecuteMatch
    <2>2. held' = held + 0 + swap.amountOut
      BY <1>1, <2>1 DEF ReceiveExecutionProceeds, VaultTypeOK
    <2>3. \A x \in Accounts : Drawable(x)' = Drawable(x) + (IF x = a THEN 0 ELSE 0)
      BY <1>1, <2>1 DEF ReceiveExecutionProceeds, subAccounts, VaultTypeOK, Drawable
    <2>4. UNCHANGED <<legacyCredited, legacyDebited>>
      BY <2>1 DEF ReceiveExecutionProceeds, legacyVars
    <2>5. UnsettledProceeds' = UnsettledProceeds + swap.amountOut
      BY <1>2, <1>5
    <2> QED BY <1>1, <2>2, <2>3, <2>4, <2>5, SolvencyKept
  <1>6. CASE FXRP \notin {swap.tokenIn, swap.tokenOut}
    <2>1. UNCHANGED vaultVars
      BY <1>6 DEF ExecuteMatch
    <2>2. held' = held + 0 + 0 /\ UNCHANGED <<legacyCredited, legacyDebited>>
      BY <1>1, <2>1 DEF vaultVars, legacyVars, VaultTypeOK
    <2>3. \A x \in Accounts : Drawable(x)' = Drawable(x) + (IF x = a THEN 0 ELSE 0)
      BY <1>1, <2>1 DEF vaultVars, subAccounts, VaultTypeOK, Drawable
    <2>4. UnsettledProceeds' = UnsettledProceeds + 0
      BY <1>2, <1>6
    <2> QED BY <1>1, <2>2, <2>3, <2>4, SolvencyKept
  <1> QED BY <1>4, <1>5, <1>6

\* applyFdcSettlement: a sale's lock and debit cancel, proceeds become a balance.
LEMMA SolvencyApply ==
  ASSUME SenderInv, FillsTrade, Solvency,
         NEW i \in DOMAIN pendingFills, NEW t \in DOMAIN chain, ApplyFdcSettlement(i, t)
  PROVE  Solvency'
  <1> DEFINE fill == pendingFills[i]
             a == fill.account
  <1>1. /\ SenderTypeOK /\ SenderTypeOK' /\ VaultTypeOK /\ VaultTypeOK'
    BY ApplyInv DEF SenderInv, VaultInv
  <1>2. /\ fill.swap.amountIn \in Nat /\ fill.swap.amountOut \in Nat /\ a \in Accounts
        /\ fill.swap.amountIn > 0 /\ fill.swap.tokenIn # fill.swap.tokenOut
    BY <1>1, FillTypes DEF FillsTrade
  <1>3. UnsettledProceeds = UnsettledProceeds' + (IF IsPurchase(i) THEN fill.swap.amountOut ELSE 0)
    BY <1>1, ProceedsApply
  <1>4. UnsettledProceeds' \in Nat
    BY <1>1, ProceedsApply
  <1>5. /\ held' = held /\ UNCHANGED <<legacyCredited, legacyDebited>> /\ held \in Nat
    BY <1>1 DEF ApplyFdcSettlement, SettleFromProof, vaultVars, legacyVars, VaultTypeOK
  <1>6. CASE fill.swap.tokenIn = FXRP
    <2>1. Delta(fill.swap) = -fill.swap.amountIn
      BY <1>6 DEF Delta
    <2>2. SettleFromProof(a, -fill.swap.amountIn) /\ -fill.swap.amountIn < 0
      BY <1>2, <2>1 DEF ApplyFdcSettlement
    <2>3. \A x \in Accounts : Drawable(x)' = Drawable(x) + (IF x = a THEN 0 ELSE 0)
      <3> HIDE DEF a, fill
      <3> QED BY <1>1, <1>2, <2>2 DEF SettleFromProof, VaultTypeOK, Drawable
    <2>4. UnsettledProceeds' = UnsettledProceeds + 0
      <3>1. UnsettledProceeds = UnsettledProceeds' + 0
        BY <1>2, <1>3, <1>6 DEF IsPurchase
      <3>2. UnsettledProceeds \in Nat
        BY <1>1, ProceedsNat
      <3>3. \A x, y \in Nat : x = y + 0 => y = x + 0
        OBVIOUS
      <3> QED BY <1>4, <3>1, <3>2, <3>3, Zenon
    <2>5. held' = held + 0 + 0
      BY <1>5
    <2> HIDE DEF a, fill
    <2> QED BY <1>1, <1>2, <1>5, <2>3, <2>4, <2>5, SolvencyKept
  <1>7. CASE fill.swap.tokenIn # FXRP /\ ~IsPurchase(i)
    <2>1. UNCHANGED vaultVars
      BY <1>7 DEF ApplyFdcSettlement, Delta, IsPurchase
    <2>2. \A x \in Accounts : Drawable(x)' = Drawable(x) + (IF x = a THEN 0 ELSE 0)
      BY <1>1, <2>1 DEF vaultVars, subAccounts, VaultTypeOK, Drawable
    <2>3. UnsettledProceeds' = UnsettledProceeds + 0
      <3>1. UnsettledProceeds = UnsettledProceeds' + 0
        BY <1>3, <1>7
      <3>2. UnsettledProceeds \in Nat
        BY <1>1, ProceedsNat
      <3>3. \A x, y \in Nat : x = y + 0 => y = x + 0
        OBVIOUS
      <3> QED BY <1>4, <3>1, <3>2, <3>3, Zenon
    <2>4. held' = held + 0 + 0
      BY <1>5
    <2> HIDE DEF a, fill
    <2> QED BY <1>1, <1>2, <1>5, <2>2, <2>3, <2>4, SolvencyKept
  <1>8. CASE fill.swap.tokenIn # FXRP /\ IsPurchase(i)
    <2> DEFINE d == fill.swap.amountOut
               u == -fill.swap.amountOut
    <2>1. Delta(fill.swap) = d
      BY <1>8 DEF Delta, IsPurchase
    <2>2. \A x \in Accounts : Drawable(x)' = Drawable(x) + (IF x = a THEN d ELSE 0)
      <3>1. CASE d # 0
        <4>1. SettleFromProof(a, d) /\ ~(d < 0)
          BY <1>2, <2>1, <3>1 DEF ApplyFdcSettlement
        <4> HIDE DEF a, d
        <4>2. d \in Nat
          BY <1>2 DEF d
        <4> QED BY <1>1, <1>2, <4>1, <4>2 DEF SettleFromProof, VaultTypeOK, Drawable
      <3>2. CASE d = 0
        <4>1. UNCHANGED vaultVars
          BY <2>1, <3>2 DEF ApplyFdcSettlement
        <4> HIDE DEF a, d
        <4> QED BY <1>1, <3>2, <4>1 DEF vaultVars, subAccounts, VaultTypeOK, Drawable
      <3> QED BY <3>1, <3>2
    <2>3. u \in Int /\ d \in Int /\ UnsettledProceeds' = UnsettledProceeds + u
      BY <1>2, <1>3, <1>4, <1>8
    <2>4. held' = held + d + u
      BY <1>2, <1>5
    <2> HIDE DEF a, fill, d, u
    <2> QED BY <1>1, <1>2, <1>5, <2>2, <2>3, <2>4, SolvencyKept
  <1> QED BY <1>6, <1>7, <1>8

\* Item by item, a batch moves a balance and its history by the same amount.
LEMMA BatchBooked ==
  ASSUME VaultTypeOK, NEW items \in Batches, SettleBatch(items), NEW x \in Accounts
  PROVE  balance'[x] + legacyDebited'[x] + legacyCredited[x] =
            balance[x] + legacyDebited[x] + legacyCredited'[x]
  <1>1. CASE \E s \in Settlements : items = <<s>>
    <2>1. PICK s \in Settlements : items = <<s>>
      BY <1>1
    <2>2. items[1] = s /\ Len(items) = 1 /\ Len(items) # 2
      BY <2>1
    <2>3. SettleBatchOf(items)
      BY <2>1 DEF SettleBatch
    <2>4. QED
      BY <2>2, <2>3, ItemType DEF VaultTypeOK, SettleBatchOf
  <1>2. CASE items \in Settlements \X Settlements
    <2>1. PICK s \in Settlements, t \in Settlements : items = <<s, t>>
      BY <1>2
    <2>2. items[1] = s /\ items[2] = t /\ Len(items) = 2 /\ Len(items) # 1
      BY <2>1
    <2>3. SettleBatchOf(items)
      BY <2>1 DEF SettleBatch
    <2>4. QED
      BY <2>2, <2>3, ItemType DEF VaultTypeOK, SettleBatchOf
  <1>3. CASE items = <<>>
    BY <1>3 DEF SettleBatch, VaultTypeOK, legacyVars
  <1>4. QED
    BY <1>1, <1>2, <1>3 DEF Batches

\* settleBatch: what moves without tokens is in the histories of both sides.
LEMMA SolvencyBatch ==
  ASSUME SenderInv, Solvency, NEW items \in Batches, SettleBatch(items), UNCHANGED pendingFills
  PROVE  Solvency'
  <1>1. VaultTypeOK /\ VaultTypeOK' /\ SenderTypeOK
    BY BatchInv DEF SenderInv, VaultInv
  <1>2. UNCHANGED <<pendingWithdrawal, pendingLocked, held>>
    BY DEF SettleBatch
  <1> DEFINE D0 == Drawables
             D1 == Drawables'
             d0 == legacyDebited
             d1 == legacyDebited'
             c0 == legacyCredited
             c1 == legacyCredited'
             l == [x \in Accounts |-> D1[x] + d1[x]]
             r == [x \in Accounts |-> D0[x] + d0[x]]
             L == [x \in Accounts |-> l[x] + c0[x]]
             R == [x \in Accounts |-> r[x] + c1[x]]
  <1>3. /\ D0 \in [Accounts -> Int] /\ D1 \in [Accounts -> Int]
        /\ d0 \in [Accounts -> Int] /\ d1 \in [Accounts -> Int]
        /\ c0 \in [Accounts -> Int] /\ c1 \in [Accounts -> Int]
    BY <1>1 DEF VaultTypeOK, Drawables, Drawable
  <1>4. ASSUME NEW x \in Accounts
        PROVE  D1[x] + d1[x] + c0[x] = D0[x] + d0[x] + c1[x]
    <2>1. balance'[x] + d1[x] + c0[x] = balance[x] + d0[x] + c1[x]
      BY <1>1, BatchBooked
    <2>2. /\ D0[x] = balance[x] + pendingWithdrawal[x] - pendingLocked[x]
          /\ D1[x] = balance'[x] + pendingWithdrawal[x] - pendingLocked[x]
      BY <1>2 DEF Drawables, Drawable
    <2>3. /\ balance[x] \in Int /\ balance'[x] \in Int
          /\ pendingWithdrawal[x] \in Int /\ pendingLocked[x] \in Int
      BY <1>1 DEF VaultTypeOK
    <2> HIDE DEF D0, D1, d0, d1, c0, c1
    <2> QED BY <1>3, <2>1, <2>2, <2>3
  <1> HIDE DEF D0, D1, d0, d1, c0, c1
  <1>5. l \in [Accounts -> Int] /\ r \in [Accounts -> Int] /\ L \in [Accounts -> Int]
        /\ \A x \in Accounts : l[x] = D1[x] + d1[x] /\ r[x] = D0[x] + d0[x]
                               /\ L[x] = l[x] + c0[x] /\ R[x] = r[x] + c1[x]
    BY <1>3
  <1>6. L = R
    BY <1>3, <1>4
  <1> HIDE DEF l, r, L, R
  <1>7. /\ Total(l) = Total(D1) + Total(d1)
        /\ Total(r) = Total(D0) + Total(d0)
        /\ Total(L) = Total(l) + Total(c0)
        /\ Total(L) = Total(r) + Total(c1)
    BY <1>3, <1>5, <1>6, AccountsFinite, TotalInt, SumPlus
  <1>8. /\ Total(D0) \in Int /\ Total(D1) \in Int /\ Total(d0) \in Int /\ Total(d1) \in Int
        /\ Total(c0) \in Int /\ Total(c1) \in Int
    BY <1>3, TotalInt
  <1>9. held + Total(c0) = Total(D0) + UnsettledProceeds + Total(d0)
    BY DEF Solvency, Drawables, D0, c0, d0
  <1>10. UnsettledProceeds \in Int /\ held \in Int
    BY <1>1, ProceedsNat DEF VaultTypeOK
  <1>11. held + Total(c1) = Total(D1) + UnsettledProceeds + Total(d1)
    <2>1. Total(D1) + Total(d1) + Total(c0) = Total(D0) + Total(d0) + Total(c1)
      BY <1>7
    <2>2. PICK s0 \in Int, s1 \in Int, e0 \in Int, e1 \in Int, k0 \in Int, k1 \in Int :
            /\ s0 = Total(D0) /\ s1 = Total(D1) /\ e0 = Total(d0) /\ e1 = Total(d1)
            /\ k0 = Total(c0) /\ k1 = Total(c1)
      BY <1>8, Zenon
    <2>3. s1 + e1 + k0 = s0 + e0 + k1 /\ held + k0 = s0 + UnsettledProceeds + e0
      BY <2>1, <2>2, <1>9
    <2>4. held + k1 = s1 + UnsettledProceeds + e1
      BY ONLY <2>2, <2>3, <1>10
    <2> QED BY <2>2, <2>4
  <1>12. held' = held /\ UnsettledProceeds' = UnsettledProceeds
    BY <1>2, ProceedsSame
  <1> QED BY <1>11, <1>12 DEF Solvency, Drawables, Total, D1, c1, d1

LEMMA SolvencyStep == SenderInv /\ FillsTrade /\ Solvency /\ [Next]_vars => Solvency'
  <1> SUFFICES ASSUME SenderInv, FillsTrade, Solvency, [Next]_vars PROVE Solvency'
    OBVIOUS
  <1>1. CASE UNCHANGED <<vaultVars, pendingFills>>
    BY <1>1, SolvencyStutter
  <1>2. CASE FollowerCall /\ UNCHANGED <<feeVars, senderVars>>
    BY <1>2, SolvencyCredit, SolvencyRequest
    DEF FollowerCall, Deposit, DepositFor, senderVars
  <1>3. CASE ExecutorCall
    <2>1. ASSUME NEW nonce, NEW items \in Batches, ForwardSettleBatch(items, nonce)
          PROVE  Solvency'
      BY <2>1, SolvencyBatch DEF ForwardSettleBatch, ConsumeNonce
    <2>2. ASSUME NEW nonce, NEW accruals \in AccrualBatches, ForwardAccrueFees(accruals, nonce)
          PROVE  Solvency'
      BY <2>2, SolvencyStutter DEF ForwardAccrueFees, ConsumeNonce
    <2>3. ASSUME NEW nonce, NEW a \in Accounts, ForwardFinalizeWithdrawal(a, nonce)
          PROVE  Solvency'
      BY <2>3, SolvencyFinalize DEF ForwardFinalizeWithdrawal, ConsumeNonce
    <2> QED BY <1>3, <2>1, <2>2, <2>3, SolvencyExecute, SolvencyApply DEF ExecutorCall
  <1>4. CASE OwnerCall
    <2>1. CASE VaultOwnerCall /\ Configure
      <3>1. UNCHANGED <<subAccounts, legacyVars, held, pendingFills>>
        BY <2>1 DEF VaultOwnerCall, SetVaultRole, SetLegacySettleBatchEnabled, Configure
      <3>2. UnsettledProceeds' = UnsettledProceeds
        BY <3>1, ProceedsSame
      <3> QED BY <3>1, <3>2 DEF Solvency, Total, Drawable, subAccounts, legacyVars
    <2>2. CASE ~VaultOwnerCall
      BY <1>1, <1>4, <2>2 DEF OwnerCall, SetSwapRouter, SetFdcVerifier, Configure
    <2> QED BY <1>1, <1>4, <2>1, <2>2 DEF OwnerCall, SetSwapRouter, SetFdcVerifier, Configure
  <1>5. CASE EnvironmentStep
    BY <1>1, <1>5 DEF EnvironmentStep, SeedPool, ForeignSwap, senderVars
  <1>6. CASE UNCHANGED vars
    BY <1>1, <1>6 DEF vars, senderVars
  <1> QED BY <1>2, <1>3, <1>4, <1>5, <1>6 DEF Next

LEMMA SolvencyInit == Init => Solvency
  <1> SUFFICES ASSUME Init PROVE Solvency
    OBVIOUS
  <1>1. UnsettledProceeds = 0
    <2>1. OpenPurchases = {}
      BY DEF Init, OpenPurchases, OpenFills
    <2> QED BY <2>1, SumEmpty DEF UnsettledProceeds
  <1>2. VaultTypeOK
    BY VaultInitInv DEF Init, VaultInv
  <1>3. \A f \in [Accounts -> Int] : (\A a \in Accounts : f[a] = 0) => Total(f) = 0
    <2> TAKE f \in [Accounts -> Int]
    <2> HAVE \A a \in Accounts : f[a] = 0
    <2> QED BY AccountsFinite, SumZero, TotalInt
  <1>4. \A a \in Accounts : Drawables[a] = 0 /\ legacyCredited[a] = 0 /\ legacyDebited[a] = 0
    BY DEF Init, VaultInit, Drawables, Drawable
  <1>5. Total(Drawables) = 0
    BY <1>2, <1>3, <1>4, DrawablesType
  <1>6. Total(legacyCredited) = 0 /\ Total(legacyDebited) = 0
    <2>1. legacyCredited \in [Accounts -> Int] /\ legacyDebited \in [Accounts -> Int]
      BY <1>2 DEF VaultTypeOK
    <2> QED BY <2>1, <1>3, <1>4
  <1>7. held = 0
    BY DEF Init, VaultInit
  <1> QED BY <1>1, <1>5, <1>6, <1>7 DEF Solvency, Drawables

\* Every lock is covered, so what is not requested is not negative in total.
LEMMA SolventPays == SenderInv /\ Solvency => WithdrawalsPayable
  <1> SUFFICES ASSUME SenderInv, Solvency, Total(legacyCredited) = 0
               PROVE  Total(pendingWithdrawal) + UnsettledProceeds <= held
    BY DEF WithdrawalsPayable
  <1>1. VaultTypeOK /\ LockedCovered /\ SenderTypeOK
    BY DEF SenderInv, VaultInv
  <1> DEFINE s == [x \in Accounts |-> Drawables[x] + legacyDebited[x]]
  <1>2. /\ Drawables \in [Accounts -> Int] /\ legacyDebited \in [Accounts -> Int]
        /\ pendingWithdrawal \in [Accounts -> Int]
    BY <1>1, DrawablesType DEF VaultTypeOK
  <1>3. s \in [Accounts -> Int] /\ \A x \in Accounts : s[x] = Drawables[x] + legacyDebited[x]
    BY <1>2
  <1>4. \A x \in Accounts : pendingWithdrawal[x] <= s[x]
    BY <1>1 DEF VaultTypeOK, LockedCovered, Drawables, Drawable
  <1> HIDE DEF s
  <1>5. Total(s) = Total(Drawables) + Total(legacyDebited)
    BY <1>2, <1>3, AccountsFinite, TotalInt, SumPlus
  <1>6. Total(pendingWithdrawal) <= Total(s)
    BY <1>2, <1>3, <1>4, AccountsFinite, TotalInt, SumAtMost
  <1>7. /\ Total(Drawables) \in Int /\ Total(legacyDebited) \in Int
        /\ Total(pendingWithdrawal) \in Int /\ Total(s) \in Int
    BY <1>2, <1>3, TotalInt
  <1>8. UnsettledProceeds \in Int /\ held \in Int
    BY <1>1, ProceedsNat DEF VaultTypeOK
  <1>9. held + 0 = Total(Drawables) + UnsettledProceeds + Total(legacyDebited)
    BY DEF Solvency, Drawables
  <1> QED BY <1>5, <1>6, <1>7, <1>8, <1>9

-----------------------------------------------------------------------------
(* A lead is paid once per settled fill. *)

\* A settlement accrues the fee of a profit, which only a registered lead can
\* have; a rate never changes again, so neither does the fee.
SettledLeadsRegistered ==
    \A i \in SettledFills :
        pendingFills[i].profit > 0 => Registered(pendingFills[i].account[2])

\* The fee of a settled fill is a natural number.
LEMMA SettledFeeNat ==
  SenderInv /\ SettledLeadsRegistered =>
      \A i \in SettledFills :
          FeeOf(i) \in Nat /\ Fees[i] = FeeOf(i) /\ pendingFills[i].account[2] \in Leads
  <1> SUFFICES ASSUME SenderInv, SettledLeadsRegistered, NEW i \in SettledFills
               PROVE  /\ FeeOf(i) \in Nat /\ Fees[i] = FeeOf(i)
                      /\ pendingFills[i].account[2] \in Leads
    OBVIOUS
  <1>1. /\ i \in DOMAIN pendingFills /\ pendingFills[i].profit \in Nat
        /\ pendingFills[i].account \in Accounts
    BY OpenFinite, FillTypes DEF SenderInv
  <1>2. pendingFills[i].account[2] \in Leads
    BY <1>1 DEF Accounts
  <1>3. CASE pendingFills[i].profit = 0
    BY <1>1, <1>2, <1>3 DEF FeeOf, Fees
  <1>4. CASE pendingFills[i].profit # 0
    <2>1. Registered(pendingFills[i].account[2])
      BY <1>1, <1>4 DEF SettledLeadsRegistered
    <2>2. feeRateBps[pendingFills[i].account[2]] \in Rates
      BY <1>2, <2>1 DEF Registered, FeeTypeOK, SenderInv
    <2> QED BY <1>1, <1>2, <1>4, <2>2, FeeAssumption, NetFeeNat DEF FeeOf, Fees
  <1> QED BY <1>3, <1>4

SettledFeesTyped ==
    SenderInv /\ SettledLeadsRegistered =>
        \A i \in SettledFills :
            FeeOf(i) \in Nat /\ Fees[i] = FeeOf(i) /\ pendingFills[i].account[2] \in Leads

\* The same of the next state.
LEMMA SettledFeeNext == SettledFeesTyped'
  <1>1. SettledFeesTyped
    BY SettledFeeNat DEF SettledFeesTyped
  <1> QED BY <1>1, PTL

\* Where settled fills and the rates of registered leads stay, so do the fees.
LEMMA FeesUnchanged ==
  ASSUME SenderInv, SettledLeadsRegistered,
         DOMAIN pendingFills \subseteq DOMAIN pendingFills',
         \A i \in SettledFills : /\ pendingFills'[i].account = pendingFills[i].account
                                 /\ pendingFills'[i].profit = pendingFills[i].profit,
         \A l \in Leads : Registered(l) => feeRateBps'[l] = feeRateBps[l],
         NEW S \in SUBSET SettledFills
  PROVE  SumFunctionOnSet(Fees', S) = SumFunctionOnSet(Fees, S)
  <1>1. \A i \in S : Fees'[i] = Fees[i]
    <2> SUFFICES ASSUME NEW i \in S PROVE Fees'[i] = Fees[i]
      OBVIOUS
    <2>1. i \in SettledFills /\ i \in DOMAIN pendingFills /\ i \in DOMAIN pendingFills'
      BY OpenFinite DEF SenderInv
    <2>2. /\ pendingFills'[i].account = pendingFills[i].account
          /\ pendingFills'[i].profit = pendingFills[i].profit
          /\ pendingFills[i].profit \in Nat
          /\ pendingFills[i].account[2] \in Leads
      BY <2>1, SettledFeeNat, FillTypes DEF SenderInv
    <2>3. CASE pendingFills[i].profit = 0
      BY <2>1, <2>2, <2>3 DEF Fees, FeeOf
    <2>4. CASE pendingFills[i].profit # 0
      <3>1. Registered(pendingFills[i].account[2])
        BY <2>1, <2>2, <2>4 DEF SettledLeadsRegistered
      <3>2. feeRateBps'[pendingFills[i].account[2]] = feeRateBps[pendingFills[i].account[2]]
        BY <2>2, <3>1
      <3> QED BY <2>1, <2>2, <3>2 DEF Fees, FeeOf
    <2> QED BY <2>3, <2>4
  <1>2. IsFiniteSet(S)
    BY OpenFinite, FillTypes, FS_Subset DEF SenderInv
  <1> QED BY <1>1, <1>2, SumSame

FeesBooked == SettledLeadsRegistered /\ FeesPaidOncePerFill

\* Every step but a settlement leaves the settled fills, what leads were paid and
\* the rates of the registered.
LEMMA FeeBookSteps ==
  ASSUME [Next]_vars
  PROVE  \/ \E i \in DOMAIN pendingFills, t \in DOMAIN chain : ApplyFdcSettlement(i, t)
         \/ /\ leadPaid' = leadPaid
            /\ \/ feeRateBps' = feeRateBps
               \/ \E l \in Leads, rate \in Rates : RegisterLead(l, rate)
  <1>1. CASE UNCHANGED vars
    BY <1>1 DEF vars, feeVars
  <1>2. CASE FollowerCall /\ UNCHANGED <<feeVars, senderVars>>
    BY <1>2 DEF feeVars
  <1>3. CASE ExecutorCall
    BY <1>3 DEF ExecutorCall, ExecuteMatch, ForwardSettleBatch, ForwardAccrueFees,
                ForwardFinalizeWithdrawal, AccrueFees, feeVars
  <1>4. CASE OwnerCall
    BY <1>4 DEF OwnerCall, SetSwapRouter, SetFdcVerifier, SetFeeRole, feeVars
  <1>5. CASE EnvironmentStep
    <2>1. CASE \E l \in Leads \ {Zero}, rate \in Rates : RegisterLead(l, rate)
      BY <2>1 DEF RegisterLead
    <2> QED BY <1>5, <2>1 DEF EnvironmentStep, SeedPool, ForeignSwap, FundFees, feeVars
  <1> QED BY <1>1, <1>2, <1>3, <1>4, <1>5 DEF Next

\* Steps that settle nothing keep the fees of the settled fills and what was paid.
LEMMA FeesKept ==
  ASSUME SenderInv, FeesBooked,
         DOMAIN pendingFills \subseteq DOMAIN pendingFills',
         \A i \in SettledFills : pendingFills'[i] = pendingFills[i],
         SettledFills' = SettledFills,
         \A l \in Leads : Registered(l) => feeRateBps'[l] = feeRateBps[l],
         leadPaid' = leadPaid
  PROVE  FeesBooked'
  <1>1. SettledLeadsRegistered'
    BY SettledFeeNat DEF FeesBooked, SettledLeadsRegistered, Registered
  <1>2. ASSUME NEW l \in Leads
        PROVE  leadPaid'[l] = SumFunctionOnSet(Fees', SettledFor(l)')
    <2> DEFINE S == SettledFor(l)
    <2>1. S \in SUBSET SettledFills /\ SettledFor(l)' = S
      BY OpenFinite DEF SenderInv, SettledFor
    <2>2. leadPaid[l] = SumFunctionOnSet(Fees, S)
      BY DEF FeesBooked, FeesPaidOncePerFill
    <2> HIDE DEF S
    <2>3. SumFunctionOnSet(Fees', S) = SumFunctionOnSet(Fees, S)
      BY <2>1, FeesUnchanged DEF FeesBooked
    <2> QED BY <2>1, <2>2, <2>3
  <1> QED BY <1>1, <1>2 DEF FeesBooked, FeesPaidOncePerFill

\* A settlement pays its fill's lead the fill's fee, and nobody else.
LEMMA FeePaid ==
  ASSUME SenderInv, NEW i \in DOMAIN pendingFills, NEW t \in DOMAIN chain,
         ApplyFdcSettlement(i, t)
  PROVE  /\ feeRateBps' = feeRateBps
         /\ pendingFills[i].profit > 0 => Registered(pendingFills[i].account[2])
         /\ \A l \in Leads :
              leadPaid'[l] = leadPaid[l] + (IF pendingFills[i].account[2] = l THEN FeeOf(i) ELSE 0)
  <1> DEFINE fill == pendingFills[i]
             lead == fill.account[2]
  <1>1. /\ fill.profit \in Nat /\ lead \in Leads /\ leadPaid \in [Leads -> Nat]
    BY FillTypes DEF SenderInv, FeeTypeOK, Accounts
  <1>2. CASE fill.profit = 0
    <2>1. UNCHANGED feeVars
      BY <1>2 DEF ApplyFdcSettlement
    <2>2. FeeOf(i) = 0
      BY <1>2 DEF FeeOf
    <2> QED BY <1>1, <1>2, <2>1, <2>2 DEF feeVars
  <1>3. CASE fill.profit # 0
    <2> DEFINE net == NetFee(feeRateBps[lead], fill.profit)
    <2>1. AccrueAndRelease(t, lead, fill.profit) /\ FeeOf(i) = net
      BY <1>3 DEF ApplyFdcSettlement, FeeOf
    <2>2. Registered(lead) /\ net \in Nat
      BY <1>1, <2>1, AccrualNat DEF AccrueAndRelease, CanAccrue, SenderInv
    <2>3. feeRateBps' = feeRateBps /\ leadPaid' = [leadPaid EXCEPT ![lead] = @ + net]
      <3>1. CASE net = 0
        <4>1. UNCHANGED feeVars
          BY <2>1, <3>1 DEF AccrueAndRelease
        <4>2. leadPaid[lead] + net = leadPaid[lead]
          BY <1>1, <3>1
        <4> HIDE DEF net, lead, fill
        <4> QED BY <1>1, <4>1, <4>2 DEF feeVars
      <3>2. CASE net # 0
        BY <2>1, <2>2, <3>2 DEF AccrueAndRelease
      <3> QED BY <3>1, <3>2
    <2> HIDE DEF net
    <2> QED BY <1>1, <2>1, <2>2, <2>3
  <1> QED BY <1>2, <1>3

\* A settlement adds one fill and its fee.
LEMMA FeesApply ==
  ASSUME SenderInv, FeesBooked, NEW i \in DOMAIN pendingFills, NEW t \in DOMAIN chain,
         ApplyFdcSettlement(i, t)
  PROVE  FeesBooked'
  <1>1. SenderTypeOK /\ SenderInv'
    BY ApplyInv DEF SenderInv
  <1>2. /\ DOMAIN pendingFills' = DOMAIN pendingFills
        /\ \A k \in DOMAIN pendingFills :
               /\ pendingFills'[k].account = pendingFills[k].account
               /\ pendingFills'[k].profit = pendingFills[k].profit
        /\ i \notin SettledFills /\ SettledFills' = SettledFills \cup {i}
    BY <1>1, FillClosed DEF ApplyFdcSettlement
  <1>3. /\ feeRateBps' = feeRateBps
        /\ pendingFills[i].profit > 0 => Registered(pendingFills[i].account[2])
        /\ \A l \in Leads :
             leadPaid'[l] = leadPaid[l] + (IF pendingFills[i].account[2] = l THEN FeeOf(i) ELSE 0)
    BY FeePaid
  <1>4. SettledLeadsRegistered'
    BY <1>1, <1>2, <1>3, OpenFinite DEF FeesBooked, SettledLeadsRegistered, Registered
  <1>5. ASSUME NEW l \in Leads
        PROVE  leadPaid'[l] = SumFunctionOnSet(Fees', SettledFor(l)')
    <2> DEFINE S == SettledFor(l)
    <2>1. S \in SUBSET SettledFills /\ IsFiniteSet(S) /\ i \notin S
      BY <1>1, <1>2, OpenFinite
    <2>2. leadPaid[l] = SumFunctionOnSet(Fees, S)
      BY DEF FeesBooked, FeesPaidOncePerFill
    <2>3. SettledFor(l)' = IF pendingFills[i].account[2] = l THEN S \cup {i} ELSE S
      BY <1>1, <1>2, OpenFinite DEF SettledFor
    <2> HIDE DEF S
    <2>4. SumFunctionOnSet(Fees', S) = leadPaid[l]
      BY <1>1, <1>2, <1>3, <2>1, <2>2, FeesUnchanged, OpenFinite DEF FeesBooked
    <2>5. CASE pendingFills[i].account[2] = l
      <3>1. Fees'[i] = FeeOf(i)
        BY <1>2, <1>3 DEF Fees, FeeOf
      <3>2. \A k \in S \cup {i} : Fees'[k] \in Nat
        <4>1. \A k \in SettledFills' : FeeOf(k)' \in Nat /\ Fees'[k] = FeeOf(k)'
          BY <1>1, <1>4, SettledFeeNext DEF SettledFeesTyped
        <4> QED BY <1>2, <2>1, <4>1
      <3>3. SumFunctionOnSet(Fees', S \cup {i}) = SumFunctionOnSet(Fees', S) + Fees'[i]
        <4>1. \A k \in S \cup {i} : Fees'[k] \in Int
          BY <3>2
        <4> QED BY <2>1, <4>1, SumAdd
      <3> QED BY <1>3, <2>3, <2>4, <2>5, <3>1, <3>3
    <2>6. CASE pendingFills[i].account[2] # l
      <3>1. leadPaid'[l] = leadPaid[l] + 0 /\ leadPaid[l] \in Nat
        BY <1>3, <2>6 DEF SenderInv, FeeTypeOK
      <3> QED BY <2>3, <2>4, <2>6, <3>1
    <2> QED BY <2>5, <2>6
  <1> QED BY <1>4, <1>5 DEF FeesBooked, FeesPaidOncePerFill

LEMMA FeesStep == SenderInv /\ FeesBooked /\ [Next]_vars => FeesBooked'
  <1> SUFFICES ASSUME SenderInv, FeesBooked, [Next]_vars PROVE FeesBooked'
    OBVIOUS
  <1>1. ASSUME NEW i \in DOMAIN pendingFills, NEW t \in DOMAIN chain, ApplyFdcSettlement(i, t)
        PROVE  FeesBooked'
    BY <1>1, FeesApply
  <1>2. CASE /\ leadPaid' = leadPaid
             /\ \/ feeRateBps' = feeRateBps
                \/ \E l \in Leads, rate \in Rates : RegisterLead(l, rate)
    <2>1. \A l \in Leads : Registered(l) => feeRateBps'[l] = feeRateBps[l]
      BY <1>2 DEF RegisterLead, Registered, SenderInv, FeeTypeOK
    <2>2. ASSUME NEW a \in Accounts, NEW swap \in SwapInputs, NEW profit \in Profits,
                 ExecuteMatch(a, swap, profit)
          PROVE  FeesBooked'
      <3> DEFINE fill == [account |-> a, swap |-> swap, profit |-> profit, settled |-> FALSE]
      <3>1. pendingFills' = Append(pendingFills, fill) /\ fill.settled = FALSE
        BY <2>2 DEF ExecuteMatch, RecordFill
      <3> HIDE DEF fill
      <3>2. /\ DOMAIN pendingFills \subseteq DOMAIN pendingFills'
            /\ \A k \in DOMAIN pendingFills : pendingFills'[k] = pendingFills[k]
            /\ SettledFills' = SettledFills /\ SettledFills \subseteq DOMAIN pendingFills
        BY <3>1, FillRecorded, OpenFinite DEF SenderInv
      <3> QED BY <1>2, <2>1, <3>2, FeesKept
    <2>3. CASE UNCHANGED pendingFills
      <3>1. SettledFills' = SettledFills
        BY <2>3 DEF SettledFills, OpenFills
      <3> QED BY <1>2, <2>1, <2>3, <3>1, FeesKept
    <2> QED BY <1>1, <2>2, <2>3, LockSteps
  <1> QED BY <1>1, <1>2, FeeBookSteps

LEMMA FeesInit == Init => FeesBooked
  <1> SUFFICES ASSUME Init PROVE FeesBooked
    OBVIOUS
  <1>1. SettledFills = {}
    BY DEF Init, SettledFills
  <1>2. \A l \in Leads : SettledFor(l) = {} /\ leadPaid[l] = 0
    BY <1>1 DEF Init, FeeInit, SettledFor
  <1> QED BY <1>1, <1>2, SumEmpty DEF FeesBooked, FeesPaidOncePerFill, SettledLeadsRegistered

-----------------------------------------------------------------------------
(* The theorems. *)

\* Every state of the composed system has its types, its locks covered, and only
\* fills that trade.
LEMMA SystemInv == Spec => [](SenderInv /\ FillsTrade)
  <1>1. SenderInv => SenderTypeOK
    BY DEF SenderInv
  <1> QED BY InitInv, NextInv, TradeInit, TradeStep, <1>1, PTL DEF Spec

\* An account's lock is at all times the sum of what its unsettled sales spent:
\* whichever proofs settle whichever fills, no lock is released twice or stays.
THEOREM LocksExact == Spec => []LocksMatchFills
  BY SystemInv, LocksInit, LocksStep, PTL DEF Spec

\* The vault's FXRP is at all times what the accounts can draw plus the proceeds
\* that wait for a proof, up to the batches that moved no token; so it pays every
\* requested withdrawal as long as no such batch credited anybody.
THEOREM VaultFundsCovered == Spec => []FundsCovered
  <1>1. SenderInv /\ Solvency => FundsCovered
    BY SolventPays DEF FundsCovered
  <1> QED BY SystemInv, SolvencyInit, SolvencyStep, <1>1, PTL DEF Spec

\* An unsettled fill always finds an unused transaction of this contract with
\* its tokens and amounts, in whichever order fills took the transactions.
THEOREM FillsFindProofs == Spec => []NoFillStarved
  BY SystemInv, SettledOnce, MatchedInit, MatchedStep, MatchedNotStarved, PTL DEF Spec

\* A lead has at all times been paid exactly the net fees of its settled fills.
THEOREM LeadsPaidPerFill == Spec => []FeesPaidOncePerFill
  <1>1. FeesBooked => FeesPaidOncePerFill
    BY DEF FeesBooked
  <1> QED BY SystemInv, FeesInit, FeesStep, <1>1, PTL DEF Spec

================================================================================
