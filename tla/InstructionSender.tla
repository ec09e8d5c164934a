--------------------------- MODULE InstructionSender ---------------------------
(***************************************************************************)
(* contracts/src/InstructionSender.sol with the vault and the fee contract *)
(* it drives: executing a match on the router, settling the fill once an   *)
(* FDC proof of its transaction is in, and the nonce-ordered batch calls.  *)
(*                                                                         *)
(* A transaction is atomic, so a call into the vault or the fee contract   *)
(* is a conjunct of the caller's action: where the callee reverts, the     *)
(* whole action is disabled.  What interleaves is transactions: followers, *)
(* the executor, the owner, other users of the router, and the proofs that *)
(* reach the chain in any order and at any later time.                     *)
(***************************************************************************)
EXTENDS MirrorVault, MirrorFee, Functions

CONSTANTS Tokens,      \* ERC20 tokens of the router's pools
          FXRP,        \* the token the vault holds
          Routers,     \* routers the owner may configure
          NoRouter,    \* address(0)
          Accruals,    \* items of accrueFees batches
          Foreign,     \* what other contracts swap
          MaxFills,    \* bound: executeMatch calls
          MaxForeign,  \* bound: swaps by contracts other than this one
          MaxBatches,  \* bound: batch nonces
          MaxPool,     \* bound: non-FXRP tokens somebody seeds the sender with
          MaxAdmin     \* bound: configuration changes by the owner

Pooled == Tokens \ {FXRP}

ASSUME SenderAssumption ==
    /\ FXRP \in Tokens
    /\ NoRouter \notin Routers
    /\ Accruals \subseteq [lead : Leads, profit : Nat]
    /\ {MaxFills, MaxForeign, MaxBatches, MaxPool, MaxAdmin} \subseteq Nat

VARIABLES swapRouter,
          fdcVerifierSet,     \* fdcVerifier # address(0)
          pendingFills,       \* the fills by id; nextFillId is the length
          usedProofTxHashes,
          batchNonce,
          usedBatchNonces,
          pooled,             \* non-FXRP tokens the sender holds
          chain,              \* the swap transactions FDC can attest, by hash
          settlements,        \* the FillSettled(fillId, txHash) log
          adminCalls          \* configuration changes so far, for the bound

senderVars == <<swapRouter, fdcVerifierSet, pendingFills, usedProofTxHashes,
                batchNonce, usedBatchNonces, pooled, chain, settlements, adminCalls>>
vars == <<vaultVars, feeVars, senderVars>>

Swaps == [tokenIn : Tokens, tokenOut : Tokens, amountIn : Nat, amountOut : Nat]

Fills == [account : Accounts, swap : Swaps, profit : Nat, settled : BOOLEAN]

\* A successful transaction that emitted one Swap event.  A failed one carries
\* no event, so it can match no fill and is left out.
Txs == [to : {"sender", "other"}, emitter : Routers, swap : Swaps]

SenderTypeOK ==
    /\ swapRouter \in Routers \cup {NoRouter}
    /\ fdcVerifierSet \in BOOLEAN
    /\ pendingFills \in Seq(Fills)
    /\ usedProofTxHashes \in SUBSET Nat
    /\ batchNonce \in Nat
    /\ usedBatchNonces \in SUBSET Nat
    /\ pooled \in [Pooled -> Nat]
    /\ chain \in Seq(Txs)
    /\ settlements \in SUBSET (Nat \X Nat)
    /\ adminCalls \in Nat

TypeOK == VaultTypeOK /\ FeeTypeOK /\ SenderTypeOK

\* The contracts as 03-deploy-venue.ts leaves them.
Init ==
    /\ VaultInit
    /\ FeeInit
    /\ swapRouter \in Routers
    /\ fdcVerifierSet = TRUE
    /\ pendingFills = <<>>
    /\ usedProofTxHashes = {}
    /\ batchNonce = 0
    /\ usedBatchNonces = {}
    /\ pooled = [t \in Pooled |-> 0]
    /\ chain = <<>>
    /\ settlements = {}
    /\ adminCalls = 0

-----------------------------------------------------------------------------
(* The environment. *)

\* Somebody sends the sender tokens its buys can draw on.
SeedPool(t, amount) ==
    /\ amount > 0 /\ pooled[t] + amount <= MaxPool
    /\ pooled' = [pooled EXCEPT ![t] = @ + amount]
    /\ UNCHANGED <<vaultVars, feeVars, swapRouter, fdcVerifierSet, pendingFills,
                   usedProofTxHashes, batchNonce, usedBatchNonces, chain,
                   settlements, adminCalls>>

\* A transaction to another contract swaps on a router: FDC attests it as well.
ForeignSwap(router, swap) ==
    /\ Cardinality({t \in DOMAIN chain : chain[t].to = "other"}) < MaxForeign
    /\ chain' = Append(chain, [to |-> "other", emitter |-> router, swap |-> swap])
    /\ UNCHANGED <<vaultVars, feeVars, swapRouter, fdcVerifierSet, pendingFills,
                   usedProofTxHashes, batchNonce, usedBatchNonces, pooled,
                   settlements, adminCalls>>

-----------------------------------------------------------------------------
(* The owner. *)

Configure ==
    /\ adminCalls < MaxAdmin
    /\ adminCalls' = adminCalls + 1
    /\ UNCHANGED <<pendingFills, usedProofTxHashes, batchNonce, usedBatchNonces,
                   pooled, chain, settlements>>

SetSwapRouter(router) ==
    /\ Configure
    /\ swapRouter' = router
    /\ UNCHANGED <<vaultVars, feeVars, fdcVerifierSet>>

SetFdcVerifier(isSet) ==
    /\ Configure
    /\ fdcVerifierSet' = isSet
    /\ UNCHANGED <<vaultVars, feeVars, swapRouter>>

OwnerCall ==
    \/ \E router \in Routers \cup {NoRouter} : SetSwapRouter(router)
    \/ \E isSet \in BOOLEAN : SetFdcVerifier(isSet)
    \/ /\ VaultOwnerCall
       /\ Configure
       /\ UNCHANGED <<feeVars, swapRouter, fdcVerifierSet>>
    \/ /\ \E r \in FeeRoles : SetFeeRole(r)
       /\ Configure
       /\ UNCHANGED <<vaultVars, swapRouter, fdcVerifierSet>>

-----------------------------------------------------------------------------
(* The authorized executor, or the owner in its place. *)

\* pendingFills[nextFillId++]
RecordFill(fill) == pendingFills' = Append(pendingFills, fill)

\* The swap itself is the router's: it takes amountIn, pays any amountOut above
\* the caller's minimum and trades only distinct tokens.  Of the three kinds,
\* a sale spends the follower's FXRP, a purchase spends tokens pooled in the
\* sender, whoever's sales brought them, and the rest touch no FXRP.
ExecuteMatch(a, swap, profit) ==
    /\ swapRouter # NoRouter
    /\ Len(pendingFills) < MaxFills
    /\ swap.amountIn > 0 /\ swap.tokenIn # swap.tokenOut
    /\ \/ /\ swap.tokenIn = FXRP
          /\ TransferForExecution(a, swap.amountIn)
          /\ pooled' = [pooled EXCEPT ![swap.tokenOut] = @ + swap.amountOut]
       \/ /\ swap.tokenOut = FXRP
          /\ pooled[swap.tokenIn] >= swap.amountIn
          /\ pooled' = [pooled EXCEPT ![swap.tokenIn] = @ - swap.amountIn]
          /\ ReceiveExecutionProceeds(swap.amountOut)
       \/ /\ FXRP \notin {swap.tokenIn, swap.tokenOut}
          /\ pooled[swap.tokenIn] >= swap.amountIn
          /\ pooled' = [pooled EXCEPT ![swap.tokenIn] = @ - swap.amountIn,
                                      ![swap.tokenOut] = @ + swap.amountOut]
          /\ UNCHANGED vaultVars
    /\ RecordFill([account |-> a, swap |-> swap, profit |-> profit, settled |-> FALSE])
    /\ chain' = Append(chain, [to |-> "sender", emitter |-> swapRouter, swap |-> swap])
    /\ UNCHANGED <<feeVars, swapRouter, fdcVerifierSet, usedProofTxHashes,
                   batchNonce, usedBatchNonces, settlements, adminCalls>>

\* Mutant: any swap on the router will do.
MatchAnySwap(t, fill) == chain[t].emitter = swapRouter

\* _matchSwapEvent: the event is looked up under the router configured now, not
\* under the one that executed the fill.
MatchSwapEvent(t, fill) ==
    /\ chain[t].emitter = swapRouter
    /\ chain[t].swap = fill.swap

\* Mutant: a sale is debited by what it brought.
DeltaOfProceeds(swap) == IF swap.tokenIn = FXRP THEN -swap.amountOut
                         ELSE IF swap.tokenOut = FXRP THEN swap.amountOut ELSE 0

\* What the settlement does to the fill's account.
Delta(swap) == IF swap.tokenIn = FXRP THEN -swap.amountIn
               ELSE IF swap.tokenOut = FXRP THEN swap.amountOut ELSE 0

\* Mutant: the hash is checked and not recorded.
ConsumeProofUnrecorded(t) == t \notin usedProofTxHashes /\ UNCHANGED usedProofTxHashes

ConsumeProof(t) ==
    /\ t \notin usedProofTxHashes
    /\ usedProofTxHashes' = usedProofTxHashes \cup {t}

\* fillId is settled with a proof of transaction t.
ApplyFdcSettlement(fillId, t) ==
    LET fill == pendingFills[fillId]
    IN  /\ fdcVerifierSet
        /\ ~fill.settled
        /\ ConsumeProof(t)
        /\ chain[t].to = "sender"
        /\ MatchSwapEvent(t, fill)
        /\ pendingFills' = [pendingFills EXCEPT ![fillId].settled = TRUE]
        /\ settlements' = settlements \cup {<<fillId, t>>}
        /\ \/ Delta(fill.swap) # 0 /\ SettleFromProof(fill.account, Delta(fill.swap))
           \/ Delta(fill.swap) = 0 /\ UNCHANGED vaultVars
        /\ \/ fill.profit > 0 /\ AccrueAndRelease(t, fill.account[2], fill.profit)
           \/ fill.profit = 0 /\ UNCHANGED feeVars
        /\ UNCHANGED <<swapRouter, fdcVerifierSet, batchNonce, usedBatchNonces,
                       pooled, chain, adminCalls>>

\* _validateAndConsumeNonce
ConsumeNonce(nonce) ==
    /\ batchNonce < MaxBatches
    /\ nonce = batchNonce
    /\ nonce \notin usedBatchNonces
    /\ usedBatchNonces' = usedBatchNonces \cup {nonce}
    /\ batchNonce' = batchNonce + 1
    /\ UNCHANGED <<swapRouter, fdcVerifierSet, pendingFills, usedProofTxHashes,
                   pooled, chain, settlements, adminCalls>>

ForwardSettleBatch(items, nonce) ==
    ConsumeNonce(nonce) /\ SettleBatch(items) /\ UNCHANGED feeVars

ForwardAccrueFees(accruals, nonce) ==
    ConsumeNonce(nonce) /\ AccrueFees(accruals) /\ UNCHANGED vaultVars

\* Mutant: the withdrawal does not consume its nonce.
FinalizeWithoutNonce(a, nonce) ==
    /\ nonce = batchNonce
    /\ FinalizeWithdrawal(a)
    /\ UNCHANGED <<feeVars, senderVars>>

ForwardFinalizeWithdrawal(a, nonce) ==
    ConsumeNonce(nonce) /\ FinalizeWithdrawal(a) /\ UNCHANGED feeVars

AccrualBatches == {<<>>} \cup {<<x>> : x \in Accruals} \cup (Accruals \X Accruals)

SwapInputs == [tokenIn : Tokens, tokenOut : Tokens,
               amountIn : Amounts, amountOut : Amounts]

ExecutorCall ==
    \/ \E a \in Accounts, swap \in SwapInputs, profit \in Profits :
          ExecuteMatch(a, swap, profit)
    \/ \E fillId \in DOMAIN pendingFills, t \in DOMAIN chain :
          ApplyFdcSettlement(fillId, t)
    \/ \E nonce \in 0 .. MaxBatches :
          \/ \E items \in Batches : ForwardSettleBatch(items, nonce)
          \/ \E accruals \in AccrualBatches : ForwardAccrueFees(accruals, nonce)
          \/ \E a \in Accounts : ForwardFinalizeWithdrawal(a, nonce)

EnvironmentStep ==
    \/ \E t \in Pooled, amount \in Amounts : SeedPool(t, amount)
    \/ \E router \in Routers, swap \in SwapInputs :
          swap \in Foreign /\ ForeignSwap(router, swap)
    \/ /\ \/ \E amount \in FeeSeeds : FundFees(amount)
          \/ \E l \in Leads \ {Zero}, rate \in Rates : RegisterLead(l, rate)
       /\ UNCHANGED <<vaultVars, senderVars>>

Next ==
    \/ FollowerCall /\ UNCHANGED <<feeVars, senderVars>>
    \/ ExecutorCall
    \/ OwnerCall
    \/ EnvironmentStep

Spec == Init /\ [][Next]_vars

-----------------------------------------------------------------------------
(* Properties. *)

OpenFills == {i \in DOMAIN pendingFills : ~pendingFills[i].settled}
SettledFills == DOMAIN pendingFills \ OpenFills

IsSale(i) == pendingFills[i].swap.tokenIn = FXRP
IsPurchase(i) == pendingFills[i].swap.tokenOut = FXRP

OpenSales(a) == {i \in OpenFills : IsSale(i) /\ pendingFills[i].account = a}
OpenPurchases == {i \in OpenFills : IsPurchase(i)}

AmountsIn == [i \in DOMAIN pendingFills |-> pendingFills[i].swap.amountIn]
AmountsOut == [i \in DOMAIN pendingFills |-> pendingFills[i].swap.amountOut]

Total(f) == SumFunction(f)

\* FXRP bought for fills whose proof is still out: in the vault, nobody's yet.
UnsettledProceeds == SumFunctionOnSet(AmountsOut, OpenPurchases)

\* The lock of an account is exactly what its unsettled sales took from it: no
\* settlement releases more or less than its own executeMatch locked, whichever
\* transaction's proof it used.
LocksMatchFills ==
    \A a \in Accounts : pendingLocked[a] = SumFunctionOnSet(AmountsIn, OpenSales(a))

\* The vault's FXRP equals what its accounts can draw plus the proceeds that
\* wait for a proof, corrected by the credits and debits of proof-free batches,
\* which move no token.
Solvency ==
    held + Total(legacyCredited) =
        Total([a \in Accounts |-> Drawable(a)]) + UnsettledProceeds + Total(legacyDebited)

\* As long as no proof-free batch credited anybody, the vault can pay every
\* requested withdrawal at once, whatever swaps are in flight.
WithdrawalsPayable ==
    Total(legacyCredited) = 0 => Total(pendingWithdrawal) + UnsettledProceeds <= held

\* What the vault holds covers what it owes, withdrawals first.
FundsCovered == Solvency /\ WithdrawalsPayable

\* Settlements pair fills with transactions one to one: a fill is settled at
\* most once, a proof settles at most one fill, and the transaction is this
\* contract's own swap of the fill's tokens and amounts.
SettledByOwnSwap ==
    /\ SettledFills = {p[1] : p \in settlements}
    /\ usedProofTxHashes = {p[2] : p \in settlements}
    /\ \A p, q \in settlements : p[1] = q[1] \/ p[2] = q[2] => p = q
    /\ \A p \in settlements : /\ p[2] \in DOMAIN chain
                              /\ chain[p[2]].to = "sender"
                              /\ chain[p[2]].swap = pendingFills[p[1]].swap

\* Proofs are not bound to fills, so a fill may be settled with the transaction
\* of an identical one; even so an unsettled fill always finds an unused
\* transaction of this contract with its tokens and amounts.
NoFillStarved ==
    \A i \in OpenFills :
        \E t \in DOMAIN chain \ usedProofTxHashes :
            chain[t].to = "sender" /\ chain[t].swap = pendingFills[i].swap

\* The share of a fill's profit that its settlement pays to its lead.
FeeOf(i) ==
    IF pendingFills[i].profit = 0 THEN 0
    ELSE NetFee(feeRateBps[pendingFills[i].account[2]], pendingFills[i].profit)

Fees == [i \in DOMAIN pendingFills |-> FeeOf(i)]

SettledFor(l) == {i \in SettledFills : pendingFills[i].account[2] = l}

\* A lead has been paid the net fee of each settled fill of its own, once, and
\* nothing else.
FeesPaidOncePerFill ==
    \A l \in Leads : leadPaid[l] = SumFunctionOnSet(Fees, SettledFor(l))

\* releaseFee never meets a proof it has seen: its used hashes are among those
\* applyFdcSettlement has consumed.
FeeProofsSettled == usedProofs \subseteq usedProofTxHashes

\* A settlement pays out exactly what it accrued itself, so accruals never fall:
\* what accrueFees batches have accrued is never released.
AccrualsNeverReleased ==
    [][\A l \in Leads : accruedFees'[l] >= accruedFees[l]]_vars

\* A fill is recorded once and then only turns from unsettled to settled.
FillsFrozen ==
    [][/\ Len(pendingFills') >= Len(pendingFills)
       /\ \A i \in DOMAIN pendingFills :
             pendingFills'[i] \in {pendingFills[i],
                                   [pendingFills[i] EXCEPT !.settled = TRUE]}]_vars

\* A requested withdrawal leaves the pending state only paid in full, under the
\* batch nonce that was next.
WithdrawalPaidUnderNonce ==
    [][\A a \in Accounts :
          pendingWithdrawal'[a] < pendingWithdrawal[a] =>
              /\ held' = held - pendingWithdrawal[a]
              /\ batchNonce \in usedBatchNonces' \ usedBatchNonces]_vars

\* The follower's ledger in the state of the contracts: a requested withdrawal is
\* still the follower's, and a fill is a match that its settlement commits.
LedgerEquity == [a \in Accounts |-> balance[a] + pendingWithdrawal[a]]
LedgerMatch(fill) == [account   |-> fill.account,
                      delta     |-> Delta(fill.swap),
                      committed |-> fill.settled]
LedgerMatches == [i \in DOMAIN pendingFills |-> LedgerMatch(pendingFills[i])]

Ledger == INSTANCE FollowerLedger WITH
    equity <- LedgerEquity, reserved <- pendingLocked,
    debited <- legacyDebited, matches <- LedgerMatches

\* Vault, sender and fee contract together keep the follower's ledger: no sequence
\* of deposits, requests, matches, proofs, batches and reconfigurations moves an
\* account's funds in any other way, or pays out what an open sale has spent.
LedgerKept == Ledger!LedgerSpec

\* The fee documentation: a lead's rate in basis points is its share of the
\* follower's profit, so that the 2000 the registry allows at most is 20%.
FeeWithinRate ==
    \A l \in Leads :
        LET profit == Total([i \in SettledFor(l) |-> pendingFills[i].profit])
        IN  leadPaid[l] * BPS_DENOMINATOR <= profit * feeRateBps[l] \/ leadPaid[l] = 0

=============================================================================
