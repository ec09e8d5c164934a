------------------------------ MODULE RelayerNonces ------------------------------
(***************************************************************************)
(* The Flare account behind a relayer key, as the scripts see it through   *)
(* the RPC node: transactions by nonce, how many of them are mined, and    *)
(* the node's verdict on a transaction sent with a nonce read earlier.     *)
(***************************************************************************)
EXTENDS Naturals, Sequences

CONSTANTS Keys,     \* relayer accounts
          Txs,      \* transactions on these accounts
          BusyKeys, \* accounts that other processes send from, too
          Others,   \* what these send
          MaxTxs    \* bound: nonces used per account

ASSUME NoncesAssumption ==
    /\ BusyKeys \subseteq Keys
    /\ Others \subseteq Txs
    /\ MaxTxs \in Nat

VARIABLES sent,      \* per account, the transaction that holds each nonce
          mined,     \* per account, how many nonces are in blocks
          reverted,  \* <<account, nonce>> of transactions that reverted on chain
          replaced   \* transactions that lost their nonce, and to which

nonceVars == <<sent, mined, reverted, replaced>>

NoncesTypeOK ==
    /\ sent \in [Keys -> Seq(Txs)]
    /\ mined \in [Keys -> Nat]
    /\ \A k \in Keys : mined[k] <= Len(sent[k])
    /\ reverted \in SUBSET (Keys \X Nat)
    /\ replaced \in SUBSET [lost : Txs, to : Txs]

NoncesInit ==
    /\ sent = [k \in Keys |-> <<>>]
    /\ mined = [k \in Keys |-> 0]
    /\ reverted = {}
    /\ replaced = {}

\* getTransactionCount at the "pending" and the "latest" block.
PendingCount(k) == Len(sent[k])
LatestCount(k) == mined[k]

\* The transaction that holds a nonce.
Holder(k, nonce) == sent[k][nonce + 1]

\* A fresh nonce is taken, or a pending transaction is outbid: which of two
\* fees estimated at different times is the higher one is left open.
Accepted(k, nonce, tx) ==
    \/ /\ nonce = PendingCount(k)
       /\ nonce < MaxTxs
       /\ sent' = [sent EXCEPT ![k] = Append(@, tx)]
       /\ UNCHANGED <<mined, reverted, replaced>>
    \/ /\ LatestCount(k) <= nonce /\ nonce < PendingCount(k)
       /\ sent' = [sent EXCEPT ![k][nonce + 1] = tx]
       /\ replaced' = replaced \cup {[lost |-> Holder(k, nonce), to |-> tx]}
       /\ UNCHANGED <<mined, reverted>>

\* Underpriced against the pending transaction, or below the mined nonces.
Rejected(k, nonce) == nonce < PendingCount(k) /\ UNCHANGED nonceVars

\* A deploy script, the matching relay or an operator uses the same key.
OtherSends(k) ==
    /\ k \in BusyKeys
    /\ \E tx \in Others, nonce \in 0..PendingCount(k) : Accepted(k, nonce, tx)

\* The next nonce of the account gets into a block.
Mine(k, success) ==
    /\ LatestCount(k) < PendingCount(k)
    /\ mined' = [mined EXCEPT ![k] = @ + 1]
    /\ reverted' = IF success THEN reverted ELSE reverted \cup {<<k, mined[k]>>}
    /\ UNCHANGED <<sent, replaced>>

\* What waitForTransactionReceipt resolves with for a transaction sent under
\* this nonce: the receipt of whatever transaction took the nonce.
HasReceipt(k, nonce) == nonce < LatestCount(k)
Succeeded(k, nonce) == <<k, nonce>> \notin reverted

=============================================================================
