------------------------- MODULE MCInstructionSender -------------------------
(* The settlement path on small instances. *)
EXTENDS InstructionSender

LOCAL INSTANCE FiniteSetsExt
LOCAL INSTANCE TLC

CONSTANTS f1, f2, l1, USDT0, WFLR, r1, r2

\* Proof-free batch items; the runs that leave them out use NoSettlements.
NoSettlements == {}
MCSettlements == [account : Accounts, delta : {-1, 1}, nonce : {1}]

MCAccruals == [lead : Leads, profit : Profits]
NoAccruals == {}

\* Foreign swaps: all that a router can do, or one sale that looks like a fill's.
MCForeign == {swap \in SwapInputs : swap.tokenIn # swap.tokenOut}
OneForeign == {[tokenIn |-> FXRP, tokenOut |-> USDT0, amountIn |-> 1, amountOut |-> 1]}

\* Nothing tells one router from another but which of them is set.
RouterSymmetry == Permutations(Routers)

OwnSwaps == {i \in DOMAIN chain : chain[i].to = "sender"}

\* What the sender was given of a token and did not get from a swap.
SeededWith(t) ==
    pooled[t]
      + MapThenSumSet(LAMBDA i : chain[i].swap.amountIn, {i \in OwnSwaps : chain[i].swap.tokenIn = t})
      - MapThenSumSet(LAMBDA i : chain[i].swap.amountOut, {i \in OwnSwaps : chain[i].swap.tokenOut = t})

\* Owner calls and batches are explored where nobody else has swapped or seeded.
OwnerOrOthers ==
    adminCalls > 0 \/ batchNonce > 0 =>
        OwnSwaps = DOMAIN chain /\ \A t \in Pooled : SeededWith(t) = 0

=============================================================================
