------------------------------- MODULE XrplMonitor -------------------------------
(***************************************************************************)
(* scripts/relayer/xrpl-monitor.ts with the FDC requests of fdc.ts and     *)
(* fdc-payment.ts: every XRPL payment to the operator is attested by FDC   *)
(* and then executed on the MasterAccountController.                       *)
(*                                                                         *)
(* One Node process: what runs between two awaits is one step, and the     *)
(* steps of different payments interleave.  An await may reject at any     *)
(* time (RPC error, timeout), and the process may crash and restart.       *)
(***************************************************************************)
EXTENDS RelayerNonces

CONSTANTS Payments,    \* XRPL transactions that pay the operator
          Addresses,
          Payer,       \* payment -> the XRPL address it comes from
          NoStatus,
          AttestKey, ExecuteKey,  \* the same key where only DEPLOYER_PRIVATE_KEY is set
          Durable,     \* the status directory survives a restart (not on Cloud Run)
          MaxAttempts, \* bound: submissions of one attestation (5 in the code)
          MaxCalls,    \* bound: payment -> stream events and POST /process calls
          MaxCrashes   \* bound: crashes

ASSUME MonitorAssumption ==
    /\ Payer \in [Payments -> Addresses]
    /\ {AttestKey, ExecuteKey} \subseteq Keys
    /\ Durable \in BOOLEAN
    /\ MaxAttempts \in Nat \ {0}
    /\ MaxCalls \in [Payments -> Nat]
    /\ MaxCrashes \in Nat

VARIABLES status,    \* getStatus: the last status persisted for an address
          run,       \* inflight: where the payment's run is, "idle" when it has none
          gate,      \* attestationGate: runs that wait for it, the head holds it
          executed,  \* payments executed by the MasterAccountController
          calls, crashes

monitorVars == <<status, run, gate, executed, calls, crashes>>
vars == <<nonceVars, monitorVars>>

\* The request for an attestation, and the transaction that carries its proof: both are
\* told apart by the payment.
Attest(p)  == [payment |-> p, kind |-> "attest"]
Execute(p) == [payment |-> p, kind |-> "execute"]

ASSUME TxsAssumption ==
    /\ \A p \in Payments : {Attest(p), Execute(p)} \subseteq Txs
    /\ \A tx \in Txs : tx.kind = "execute" => tx.payment \in Payments

\* Steps of requestAttestation, which the gate covers, and those after it.
GateSteps  == {"pending", "nonce", "send", "receipt"}
AfterSteps == {"proof", "simulate", "execNonce", "execSend", "execReceipt", "finish"}
Steps == {"idle", "prepare", "queued"} \cup GateSteps \cup AfterSteps

StepperState ==
    {"waiting_xrpl", "requesting_fdc", "minting_fxrp", "sub_account_active", "failed"}

Idle == [step |-> "idle", nonce |-> 0, attempt |-> 0]

TypeOK ==
    /\ NoncesTypeOK
    /\ status \in [Addresses -> [tx : Payments, state : StepperState] \cup {NoStatus}]
    /\ run \in [Payments -> [step : Steps, nonce : Nat, attempt : 0..(MaxAttempts - 1)]]
    /\ gate \in Seq(Payments)
    /\ executed \in SUBSET Payments
    /\ calls \in [Payments -> Nat]
    /\ crashes \in Nat

Init ==
    /\ NoncesInit
    /\ status = [a \in Addresses |-> NoStatus]
    /\ run = [p \in Payments |-> Idle]
    /\ gate = <<>>
    /\ executed = {}
    /\ calls = [p \in Payments |-> 0]
    /\ crashes = 0

At(p, step) == run[p].step = step
Goto(p, step) == run' = [run EXCEPT ![p].step = step]

\* persist: the address's status file and both map entries.
Persisted(p, state) == [status EXCEPT ![Payer[p]] = [tx |-> p, state |-> state]]

-----------------------------------------------------------------------------
(* Payments come in. *)

Cached(p, s) ==
    /\ s # NoStatus
    /\ s.tx = p
    /\ s.state \in {"minting_fxrp", "sub_account_active"}

\* processPayment up to its first await.  A run of the same transaction that is
\* in flight is shared, and a minting or active status is returned as it is.
ProcessPayment(p, st) ==
    IF At(p, "idle") /\ ~Cached(p, st[Payer[p]])
    THEN /\ status' = [st EXCEPT ![Payer[p]] = [tx |-> p, state |-> "requesting_fdc"]]
         /\ Goto(p, "prepare")
    ELSE status' = st /\ UNCHANGED run

Call(p) ==
    /\ calls[p] < MaxCalls[p]
    /\ calls' = [calls EXCEPT ![p] = @ + 1]
    /\ UNCHANGED <<nonceVars, gate, executed, crashes>>

\* The XRPL stream reports the payment, possibly again after a reconnect.
PaymentSeen(p) == Call(p) /\ ProcessPayment(p, Persisted(p, "waiting_xrpl"))

\* POST /process; the other routes of the status server change nothing.
PostProcess(p) == Call(p) /\ ProcessPayment(p, status)

-----------------------------------------------------------------------------
(* attestXrplPayment *)

Unmonitored == <<executed, calls, crashes>>

\* The verifier has an encoded request, in one of twelve rounds.
Prepared(p) ==
    /\ At(p, "prepare")
    /\ Goto(p, "queued")
    /\ gate' = Append(gate, p)
    /\ UNCHANGED <<nonceVars, status, Unmonitored>>

\* Mutant: requests do not wait for each other.
EnterGateAtOnce(p) ==
    /\ At(p, "queued")
    /\ Goto(p, "pending")
    /\ UNCHANGED <<nonceVars, status, gate, Unmonitored>>

EnterGate(p) ==
    /\ At(p, "queued") /\ p = Head(gate)
    /\ Goto(p, "pending")
    /\ UNCHANGED <<nonceVars, status, gate, Unmonitored>>

\* The fee, then waitForPendingNonce and the gas fees; after two minutes it rejects.
PendingCleared(p) ==
    /\ At(p, "pending")
    /\ PendingCount(AttestKey) <= LatestCount(AttestKey)
    /\ Goto(p, "nonce")
    /\ UNCHANGED <<nonceVars, status, gate, Unmonitored>>

ReadNonce(p, here, key, next) ==
    /\ At(p, here)
    /\ run' = [run EXCEPT ![p].step = next, ![p].nonce = PendingCount(key)]
    /\ UNCHANGED <<nonceVars, status, gate, Unmonitored>>

\* Mutant: the gate is chained on success only, so a failure leaves it held.
LeaveGateHeld(p) == UNCHANGED gate

\* The next in line comes to the head.
LeaveGate(p) == gate' = IF gate # <<>> /\ p = Head(gate) THEN Tail(gate) ELSE gate

\* Mutant: the catch clause does not persist the failure.
FailUnpersisted(p) == run' = [run EXCEPT ![p] = Idle] /\ UNCHANGED status

\* The catch clause of runProcessPayment, and the end of the inflight entry.
Fail(p) ==
    /\ status' = Persisted(p, "failed")
    /\ run' = [run EXCEPT ![p] = Idle]

\* Any await but the one on the gate may reject: attestXrplPayment throws where its
\* rounds run out, and so may every call under it and after it.
AwaitRejected(p) ==
    /\ run[p].step \notin {"idle", "queued"}
    /\ Fail(p)
    /\ LeaveGate(p)
    /\ UNCHANGED <<nonceVars, Unmonitored>>

\* Mutant: the bound on attempts is off by one.
SubmitOnceMore(p) ==
    /\ At(p, "send")
    /\ \/ /\ Accepted(AttestKey, run[p].nonce, Attest(p))
          /\ Goto(p, "receipt")
          /\ UNCHANGED <<status, gate>>
       \/ /\ Rejected(AttestKey, run[p].nonce)
          /\ run[p].attempt < MaxAttempts
          /\ run' = [run EXCEPT ![p].step = "pending", ![p].attempt = @ + 1]
          /\ UNCHANGED <<status, gate>>
       \/ /\ Rejected(AttestKey, run[p].nonce)
          /\ run[p].attempt = MaxAttempts
          /\ Fail(p) /\ LeaveGate(p)
    /\ UNCHANGED Unmonitored

SubmitAttestation(p) ==
    /\ At(p, "send")
    /\ \/ /\ Accepted(AttestKey, run[p].nonce, Attest(p))
          /\ Goto(p, "receipt")
          /\ UNCHANGED <<status, gate>>
       \/ /\ Rejected(AttestKey, run[p].nonce)
          /\ run[p].attempt + 1 < MaxAttempts
          /\ run' = [run EXCEPT ![p].step = "pending", ![p].attempt = @ + 1]
          /\ UNCHANGED <<status, gate>>
       \/ /\ Rejected(AttestKey, run[p].nonce)
          /\ run[p].attempt + 1 = MaxAttempts
          /\ Fail(p) /\ LeaveGate(p)
    /\ UNCHANGED Unmonitored

AttestationMined(p) ==
    /\ At(p, "receipt") /\ HasReceipt(AttestKey, run[p].nonce)
    /\ \/ Succeeded(AttestKey, run[p].nonce) /\ Goto(p, "proof") /\ UNCHANGED status
       \/ ~Succeeded(AttestKey, run[p].nonce) /\ Fail(p)
    /\ LeaveGate(p)
    /\ UNCHANGED <<nonceVars, Unmonitored>>

\* waitForDaProof asks for this request in the receipt's round, which has a proof
\* only if the request is in a block, sent by this run or by an earlier one.
ProofArrived(p) ==
    /\ At(p, "proof")
    /\ \E nonce \in 0..(LatestCount(AttestKey) - 1) :
          Holder(AttestKey, nonce) = Attest(p) /\ Succeeded(AttestKey, nonce)
    /\ status' = Persisted(p, "minting_fxrp")
    /\ Goto(p, "simulate")
    /\ UNCHANGED <<nonceVars, gate, Unmonitored>>

-----------------------------------------------------------------------------
(* executeInstructionOnMac *)

\* Mutant: any revert of the simulation counts as already executed.
SimulateAnyRevert(p) ==
    /\ At(p, "simulate")
    /\ \/ Goto(p, "finish")
       \/ p \notin executed /\ Goto(p, "execNonce")
    /\ UNCHANGED <<nonceVars, status, gate, Unmonitored>>

\* A payment that the controller has executed, by decodeMacRevert, counts as done; other reverts
\* are among the rejected awaits.
Simulate(p) ==
    /\ At(p, "simulate")
    /\ \/ p \in executed /\ Goto(p, "finish")
       \/ p \notin executed /\ Goto(p, "execNonce")
    /\ UNCHANGED <<nonceVars, status, gate, Unmonitored>>

SubmitExecution(p) ==
    /\ At(p, "execSend")
    /\ \/ /\ Accepted(ExecuteKey, run[p].nonce, Execute(p))
          /\ Goto(p, "execReceipt")
          /\ UNCHANGED status
       \/ Rejected(ExecuteKey, run[p].nonce) /\ Fail(p)
    /\ UNCHANGED <<gate, Unmonitored>>

\* Then the personal account is read, which may reject.
ExecutionMined(p) ==
    /\ At(p, "execReceipt") /\ HasReceipt(ExecuteKey, run[p].nonce)
    /\ \/ Succeeded(ExecuteKey, run[p].nonce) /\ Goto(p, "finish") /\ UNCHANGED status
       \/ ~Succeeded(ExecuteKey, run[p].nonce) /\ Fail(p)
    /\ UNCHANGED <<nonceVars, gate, Unmonitored>>

Finish(p) ==
    /\ At(p, "finish")
    /\ status' = Persisted(p, "sub_account_active")
    /\ run' = [run EXCEPT ![p] = Idle]
    /\ UNCHANGED <<nonceVars, gate, Unmonitored>>

-----------------------------------------------------------------------------
(* The chain, and crashes. *)

\* Any transaction may revert; a second execution of a payment must.
BlockMined(k) ==
    \E success \in BOOLEAN :
        /\ Mine(k, success)
        /\ LET tx == Holder(k, mined[k])
           IN  /\ success /\ tx.kind = "execute" => tx.payment \notin executed
               /\ executed' = IF success /\ tx.kind = "execute"
                              THEN executed \cup {tx.payment} ELSE executed
        /\ UNCHANGED <<status, run, gate, calls, crashes>>

\* What is in memory is gone; transactions already sent are not.
CrashAndRestart ==
    /\ crashes < MaxCrashes
    /\ crashes' = crashes + 1
    /\ run' = [p \in Payments |-> Idle]
    /\ gate' = <<>>
    /\ status' = IF Durable THEN status ELSE [a \in Addresses |-> NoStatus]
    /\ UNCHANGED <<nonceVars, executed, calls>>

RunStep(p) ==
    \/ Prepared(p) \/ EnterGate(p) \/ PendingCleared(p)
    \/ ReadNonce(p, "nonce", AttestKey, "send")
    \/ SubmitAttestation(p) \/ AttestationMined(p) \/ ProofArrived(p)
    \/ Simulate(p)
    \/ ReadNonce(p, "execNonce", ExecuteKey, "execSend")
    \/ SubmitExecution(p) \/ ExecutionMined(p) \/ Finish(p)
    \/ AwaitRejected(p)

Next ==
    \/ \E p \in Payments : PaymentSeen(p) \/ PostProcess(p) \/ RunStep(p)
    \/ \E k \in Keys : BlockMined(k) \/ (OtherSends(k) /\ UNCHANGED monitorVars)
    \/ CrashAndRestart

Spec == Init /\ [][Next]_vars

\* Every await of a run settles: the polling loops are bounded and viem gives up
\* on a receipt; nothing is assumed of payments, blocks or crashes.
FairSpec == Spec /\ \A p \in Payments : WF_vars(RunStep(p))

-----------------------------------------------------------------------------
(* Properties. *)

\* An address is shown as active only once the controller has executed the
\* payment it is shown for, whichever answers were late, lost or for another
\* transaction.
ActiveMeansExecuted ==
    \A a \in Addresses :
        status[a] # NoStatus /\ status[a].state = "sub_account_active"
            => status[a].tx \in executed

\* The same, where an execution that lost its nonce is left aside: no answer that is
\* late or for another run, no crash and no foreign transaction shows an address as
\* active before its time.
ActiveUnlessReplaced ==
    \A a \in Addresses :
        status[a] # NoStatus /\ status[a].state = "sub_account_active"
            => \/ status[a].tx \in executed
               \/ \E r \in replaced : r.lost = Execute(status[a].tx)

\* As long as the process has not crashed, a payment without a run in flight is
\* shown as active or failed, if its address still shows it: no interleaving of
\* stream events, posts and runs leaves an intermediate status behind.
IdleMeansTerminal ==
    crashes = 0 =>
        \A a \in Addresses :
            status[a] # NoStatus /\ At(status[a].tx, "idle")
                => status[a].state \in {"sub_account_active", "failed"}

\* No attestation request loses its nonce to a transaction of the monitor itself,
\* which the gate and the wait for pending transactions are there for; only another
\* process with the same key may take it.
AttestationsUnreplaced ==
    \A r \in replaced : r.lost.kind = "attest" => r.to.kind = "other"

\* One request at a time uses the attestation key, and it is the head of the gate.
GateHeldByHead ==
    \A p \in Payments : run[p].step \in GateSteps => gate # <<>> /\ p = Head(gate)

\* Every run ends, so a payment waits neither for a failed request before it in
\* the gate nor for an answer that never comes.
RunsEnd == \A p \in Payments : ~At(p, "idle") ~> At(p, "idle")

\* The comment at the end of the run: the stepper is not left on minting_fxrp.
\* A status that says so has a run behind it that will replace it.
MintingHasRun ==
    \A a \in Addresses :
        status[a] # NoStatus /\ status[a].state = "minting_fxrp"
            => ~At(status[a].tx, "idle")

=============================================================================
