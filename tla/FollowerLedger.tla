----------------------------- MODULE FollowerLedger -----------------------------
(***************************************************************************)
(* What a follower is promised, whichever contracts keep the books.  The   *)
(* funds of an account move by payments in and out, by matches, each       *)
(* committed once with the amounts it was executed with, and by            *)
(* adjustments of the operator, whose debits are on record.  What an open  *)
(* sale has spent is reserved until the sale is committed, and nothing     *)
(* else is paid out of it.                                                 *)
(***************************************************************************)
EXTENDS MirrorAddresses

VARIABLES equity,    \* funds of an account, the reserved ones included
          reserved,  \* spent by sales that are not committed
          debited,   \* taken by adjustments so far
          matches    \* [account, delta, committed], in the order of execution

ledgerVars == <<equity, reserved, debited, matches>>

LedgerInit ==
    /\ equity = [a \in Accounts |-> 0]
    /\ reserved = [a \in Accounts |-> 0]
    /\ debited = [a \in Accounts |-> 0]
    /\ matches = <<>>

Unreserved(a) == equity[a] + debited[a] - reserved[a]

PayIn(a, n) ==
    /\ n > 0
    /\ equity' = [equity EXCEPT ![a] = @ + n]
    /\ UNCHANGED <<reserved, debited, matches>>

PayOut(a, n) ==
    /\ n <= Unreserved(a)
    /\ equity' = [equity EXCEPT ![a] = @ - n]
    /\ UNCHANGED <<reserved, debited, matches>>

Execute(a, delta) ==
    /\ matches' = Append(matches, [account |-> a, delta |-> delta, committed |-> FALSE])
    /\ \/ delta >= 0 /\ UNCHANGED reserved
       \/ /\ delta < 0
          /\ -delta <= Unreserved(a)
          /\ reserved' = [reserved EXCEPT ![a] = @ - delta]
    /\ UNCHANGED <<equity, debited>>

Commit(i) ==
    LET a     == matches[i].account
        delta == matches[i].delta
    IN  /\ ~matches[i].committed
        /\ matches' = [matches EXCEPT ![i].committed = TRUE]
        /\ equity[a] + delta >= 0
        /\ equity' = [equity EXCEPT ![a] = @ + delta]
        /\ \/ delta >= 0 /\ UNCHANGED reserved
           \/ /\ delta < 0
              /\ reserved[a] + delta >= 0
              /\ reserved' = [reserved EXCEPT ![a] = @ + delta]
        /\ UNCHANGED debited

\* Of any accounts at once; no loss goes unrecorded.
Adjust ==
    /\ \A a \in Accounts : debited'[a] >= debited[a]
    /\ \A a \in Accounts : equity'[a] + debited'[a] >= equity[a] + debited[a]
    /\ UNCHANGED <<reserved, matches>>

Deltas == {0} \cup Amounts \cup {-n : n \in Amounts}

LedgerNext ==
    \/ \E a \in Accounts, n \in Amounts : PayIn(a, n)
    \/ \E a \in Accounts : \E n \in 1 .. equity[a] : PayOut(a, n)
    \/ \E a \in Accounts, delta \in Deltas : Execute(a, delta)
    \/ \E i \in DOMAIN matches : Commit(i)
    \/ Adjust

LedgerSpec == LedgerInit /\ [][LedgerNext]_ledgerVars

=============================================================================
