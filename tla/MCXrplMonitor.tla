------------------------------ MODULE MCXrplMonitor ------------------------------
(* The XRPL monitor on small instances. *)
EXTENDS XrplMonitor

CONSTANTS p1, p2, r1, deployer, relayer

OtherTx == [kind |-> "other"]

MCTxs == [payment : Payments, kind : {"attest", "execute"}] \cup {OtherTx}
OtherTxs == {OtherTx}
OnceEach == [p \in Payments |-> 1]
TwiceEach == [p \in Payments |-> 2]
OnePayer == [p \in Payments |-> r1]

=============================================================================
