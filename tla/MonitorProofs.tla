----------------------------- MODULE MonitorProofs -----------------------------
(***************************************************************************)
(* Proofs about XrplMonitor: types, one request at a time on the           *)
(* attestation key, and what the status of an address may say.             *)
(***************************************************************************)
EXTENDS XrplMonitor, TLAPS

Runs == [Payments -> [step : Steps, nonce : Nat, attempt : 0..(MaxAttempts - 1)]]

Waiting == {"queued"} \cup GateSteps

OnlyRun(p) == \A q \in Payments \ {p} : run'[q] = run[q]

\* The runs in the gate are those that wait for it or hold it, each once, and the
\* one that holds it is the head.
GateInv ==
    /\ \A i, j \in 1..Len(gate) : gate[i] = gate[j] => i = j
    /\ \A p \in Payments : run[p].step \in Waiting <=> \E i \in 1..Len(gate) : gate[i] = p
    /\ \A p \in Payments : run[p].step \in GateSteps => gate # <<>> /\ p = gate[1]

\* The execution of p lost its nonce to another transaction.
Lost(p) == \E r \in replaced : r.lost = Execute(p)

Done(p) == p \in executed \/ Lost(p)

\* A successful execution in a block has executed its payment; a run that waits for
\* a receipt waits under the nonce of its execution, or has lost it.
BlocksExecute ==
    \A k \in Keys : \A n \in 0..(mined[k] - 1) :
        Succeeded(k, n) /\ Holder(k, n).kind = "execute" => Holder(k, n).payment \in executed

HoldsNonce(p, n) == n < Len(sent[ExecuteKey]) /\ (Holder(ExecuteKey, n) = Execute(p) \/ Lost(p))

ReceiptOk(p) == run[p].step = "execReceipt" => HoldsNonce(p, run[p].nonce)

DoneInv ==
    /\ BlocksExecute
    /\ \A p \in Payments : ReceiptOk(p)
    /\ \A p \in Payments : run[p].step = "finish" => Done(p)
    /\ ActiveUnlessReplaced

IdleInv ==
    /\ \A a \in Addresses : status[a] # NoStatus => Payer[status[a].tx] = a
    /\ IdleMeansTerminal

Inv == TypeOK /\ GateInv /\ DoneInv /\ IdleInv

-----------------------------------------------------------------------------
(* Pieces of actions. *)

LEMMA GotoRun ==
  ASSUME TypeOK, NEW p \in Payments, NEW step \in Steps, Goto(p, step)
  PROVE  /\ run' \in Runs /\ OnlyRun(p)
         /\ run'[p].step = step /\ run'[p].nonce = run[p].nonce
  BY DEF TypeOK, Goto, Runs, OnlyRun

LEMMA IdleRun ==
  ASSUME TypeOK, NEW p \in Payments, run' = [run EXCEPT ![p] = Idle]
  PROVE  run' \in Runs /\ OnlyRun(p) /\ run'[p].step = "idle"
  <1>1. 0 \in 0..(MaxAttempts - 1)
    BY MonitorAssumption
  <1>2. Idle \in [step : Steps, nonce : Nat, attempt : 0..(MaxAttempts - 1)]
    BY <1>1 DEF Idle, Steps
  <1>3. QED
    BY <1>2 DEF TypeOK, Runs, OnlyRun, Idle

Status == [Addresses -> [tx : Payments, state : StepperState] \cup {NoStatus}]

LEMMA PersistedStatus ==
  ASSUME NEW p \in Payments, NEW s \in StepperState, status \in Status, status' = Persisted(p, s)
  PROVE  /\ status' \in Status
         /\ Payer[p] \in Addresses
         /\ status'[Payer[p]].tx = p /\ status'[Payer[p]].state = s
         /\ \A a \in Addresses \ {Payer[p]} : status'[a] = status[a]
  BY MonitorAssumption DEF Status, Persisted

\* What a transaction sent under a nonce does to the nonces: it holds its own, and
\* whatever held it before is among the replaced.
LEMMA AcceptedFacts ==
  ASSUME NoncesTypeOK, NEW k \in Keys, NEW nonce \in Nat, NEW tx \in Txs,
         Accepted(k, nonce, tx)
  PROVE  /\ NoncesTypeOK'
         /\ mined' = mined /\ reverted' = reverted /\ replaced \subseteq replaced'
         /\ nonce < Len(sent'[k]) /\ Holder(k, nonce)' = tx
         /\ \A j \in Keys : \A n \in 0..(Len(sent[j]) - 1) :
               /\ n < Len(sent'[j])
               /\ \/ Holder(j, n)' = Holder(j, n)
                  \/ n >= mined[j] /\ \E r \in replaced' : r.lost = Holder(j, n)
  <1> DEFINE s == sent[k]
  <1>1. /\ sent \in [Keys -> Seq(Txs)] /\ s \in Seq(Txs) /\ Len(s) \in Nat
        /\ mined \in [Keys -> Nat] /\ mined[k] <= Len(s)
    BY DEF NoncesTypeOK
  <1>2. CASE nonce = Len(s) /\ sent' = [sent EXCEPT ![k] = Append(@, tx)]
             /\ UNCHANGED <<mined, reverted, replaced>>
    <2>1. /\ sent'[k] = Append(s, tx) /\ \A j \in Keys \ {k} : sent'[j] = sent[j]
          /\ sent' \in [Keys -> Seq(Txs)]
      BY <1>1, <1>2
    <2>2. /\ Len(sent'[k]) = Len(s) + 1 /\ sent'[k][nonce + 1] = tx
          /\ \A n \in 0..(Len(s) - 1) : sent'[k][n + 1] = s[n + 1]
      BY <1>1, <1>2, <2>1
    <2>3. \A j \in Keys : \A n \in 0..(Len(sent[j]) - 1) :
             n < Len(sent'[j]) /\ sent'[j][n + 1] = sent[j][n + 1]
      <3>1. SUFFICES ASSUME NEW j \in Keys, NEW n \in 0..(Len(sent[j]) - 1)
                     PROVE  n < Len(sent'[j]) /\ sent'[j][n + 1] = sent[j][n + 1]
        OBVIOUS
      <3>2. CASE j = k
        BY <1>1, <2>2, <3>2
      <3>3. CASE j # k
        <4>1. Len(sent[j]) \in Nat
          BY <1>1
        <4>2. QED
          BY <2>1, <3>3, <4>1
      <3>4. QED
        BY <3>2, <3>3
    <2>4. NoncesTypeOK'
      BY <1>1, <1>2, <2>1, <2>2 DEF NoncesTypeOK
    <2>5. QED
      BY <1>1, <1>2, <2>2, <2>3, <2>4 DEF Holder
  <1>3. CASE /\ mined[k] <= nonce /\ nonce < Len(s)
             /\ sent' = [sent EXCEPT ![k][nonce + 1] = tx]
             /\ replaced' = replaced \cup {[lost |-> Holder(k, nonce), to |-> tx]}
             /\ UNCHANGED <<mined, reverted>>
    <2>1. nonce + 1 \in 1..Len(s) /\ Holder(k, nonce) \in Txs
      BY <1>1, <1>3 DEF Holder
    <2>2. /\ sent'[k] = [s EXCEPT ![nonce + 1] = tx] /\ \A j \in Keys \ {k} : sent'[j] = sent[j]
          /\ sent' \in [Keys -> Seq(Txs)]
      BY <1>1, <1>3, <2>1
    <2>3. /\ Len(sent'[k]) = Len(s) /\ sent'[k][nonce + 1] = tx
          /\ \A n \in 0..(Len(s) - 1) : n # nonce => sent'[k][n + 1] = s[n + 1]
      BY <1>1, <2>1, <2>2
    <2>4. NoncesTypeOK'
      BY <1>1, <1>3, <2>1, <2>2, <2>3 DEF NoncesTypeOK
    <2>5. \E r \in replaced' : r.lost = Holder(k, nonce)
      <3> DEFINE r == [lost |-> Holder(k, nonce), to |-> tx]
      <3>1. r \in replaced' /\ r.lost = Holder(k, nonce)
        BY <1>3
      <3> HIDE DEF r
      <3>2. QED
        BY <3>1
    <2>6. \A j \in Keys : \A n \in 0..(Len(sent[j]) - 1) :
             /\ n < Len(sent'[j])
             /\ j # k \/ n # nonce => sent'[j][n + 1] = sent[j][n + 1]
      BY <1>1, <2>2, <2>3
    <2>7. QED
      BY <1>1, <1>3, <2>3, <2>4, <2>5, <2>6 DEF Holder
  <1>4. QED
    BY <1>2, <1>3 DEF Accepted, PendingCount, LatestCount

-----------------------------------------------------------------------------
(* The gate. *)

\* A step of p that neither joins nor leaves the gate.
LEMMA GateKept ==
  ASSUME GateInv, NEW p \in Payments, UNCHANGED gate, OnlyRun(p),
         run'[p].step \in Waiting <=> run[p].step \in Waiting,
         run'[p].step \in GateSteps => gate # <<>> /\ p = gate[1]
  PROVE  GateInv'
  BY DEF GateInv, OnlyRun

\* Whoever is not in the gate, or holds it, leaves it behind in order.
LEMMA GateLeft ==
  ASSUME TypeOK, GateInv, NEW p \in Payments, LeaveGate(p), OnlyRun(p),
         run[p].step # "queued", run'[p].step \notin Waiting
  PROVE  GateInv' /\ gate' \in Seq(Payments)
  <1>1. gate \in Seq(Payments)
    BY DEF TypeOK
  <1>2. CASE gate # <<>> /\ p = Head(gate)
    <2> DEFINE n == Len(gate)
    <2>1. /\ n \in Nat \ {0} /\ gate[1] = p /\ gate' \in Seq(Payments)
          /\ Len(gate') = n - 1 /\ \A i \in 1..(n - 1) : gate'[i] = gate[i + 1]
      BY <1>1, <1>2 DEF LeaveGate
    <2> HIDE DEF n
    <2>2. \A i \in 1..(n - 1) : i + 1 \in 1..n /\ i + 1 # 1
      BY <2>1
    <2>3. \A i, j \in 1..n : gate[i] = gate[j] => i = j
      BY DEF GateInv, n
    <2>4. \A i, j \in 1..(n - 1) : gate'[i] = gate'[j] => i = j
      BY <2>1, <2>2, <2>3
    <2>5. ASSUME NEW q \in Payments
          PROVE  (\E i \in 1..(n - 1) : gate'[i] = q) <=> q # p /\ (\E i \in 1..n : gate[i] = q)
      <3>1. ASSUME NEW i \in 1..(n - 1), gate'[i] = q
            PROVE  q # p /\ \E j \in 1..n : gate[j] = q
        <4>1. 1 \in 1..n /\ i + 1 \in 1..n /\ i + 1 # 1 /\ gate[i + 1] = q
          BY <2>1, <2>2, <3>1
        <4>2. QED
          BY <2>1, <2>3, <4>1
      <3>2. ASSUME q # p, NEW j \in 1..n, gate[j] = q
            PROVE  \E i \in 1..(n - 1) : gate'[i] = q
        <4>1. j # 1
          BY <2>1, <3>2
        <4>2. j - 1 \in 1..(n - 1) /\ gate'[j - 1] = q
          BY <2>1, <3>2, <4>1
        <4>3. QED
          BY <4>2
      <3>3. QED
        BY <3>1, <3>2
    <2>6. \A q \in Payments : run'[q].step \in Waiting <=> \E i \in 1..(n - 1) : gate'[i] = q
      BY <2>5 DEF GateInv, OnlyRun, n
    <2>7. \A q \in Payments : run'[q].step \notin GateSteps
      BY <2>1 DEF GateInv, OnlyRun, Waiting
    <2>8. QED
      BY <2>1, <2>4, <2>6, <2>7 DEF GateInv
  <1>3. CASE ~(gate # <<>> /\ p = Head(gate))
    <2>1. run[p].step \notin Waiting
      BY <1>1, <1>3 DEF GateInv, Waiting
    <2>2. gate' = gate
      BY <1>3 DEF LeaveGate
    <2>3. run'[p].step \notin GateSteps
      BY DEF Waiting
    <2>4. QED
      BY <1>1, <2>1, <2>2, <2>3, GateKept
  <1>4. QED
    BY <1>2, <1>3

LEMMA GateJoined ==
  ASSUME TypeOK, GateInv, NEW p \in Payments, gate' = Append(gate, p), OnlyRun(p),
         run[p].step \notin Waiting, run'[p].step = "queued"
  PROVE  GateInv' /\ gate' \in Seq(Payments)
  <1> DEFINE n == Len(gate)
  <1>1. /\ gate \in Seq(Payments) /\ n \in Nat /\ gate' \in Seq(Payments)
        /\ Len(gate') = n + 1 /\ gate'[n + 1] = p
        /\ \A i \in 1..n : gate'[i] = gate[i]
    BY DEF TypeOK
  <1>2. n = 0 <=> gate = <<>>
    BY <1>1
  <1> HIDE DEF n
  <1>3. /\ \A i : i \in 1..(n + 1) <=> i \in 1..n \/ i = n + 1
        /\ gate' # <<>>
        /\ n # 0 => 1 \in 1..n
    BY <1>1
  <1>4. \A i \in 1..n : gate[i] # p
    BY DEF GateInv, n
  <1>5. \A i, j \in 1..(n + 1) : gate'[i] = gate'[j] => i = j
    <2>1. \A i, j \in 1..n : gate[i] = gate[j] => i = j
      BY DEF GateInv, n
    <2>2. QED
      BY <1>1, <1>3, <1>4, <2>1
  <1>6. \A q \in Payments : run'[q].step \in Waiting <=> \E i \in 1..(n + 1) : gate'[i] = q
    <2>1. \A q \in Payments : run[q].step \in Waiting <=> \E i \in 1..n : gate[i] = q
      BY DEF GateInv, n
    <2>2. "queued" \in Waiting
      BY DEF Waiting
    <2>3. QED
      BY <1>1, <1>3, <2>1, <2>2 DEF OnlyRun
  <1>7. \A q \in Payments : run'[q].step \in GateSteps => q = gate'[1]
    <2>1. run'[p].step \notin GateSteps
      BY DEF GateSteps
    <2>2. \A q \in Payments \ {p} : run'[q].step \in GateSteps => n # 0 /\ q = gate[1]
      BY <1>2 DEF GateInv, OnlyRun
    <2>3. QED
      BY <1>1, <1>3, <2>1, <2>2
  <1>8. QED
    BY <1>1, <1>3, <1>5, <1>6, <1>7 DEF GateInv

-----------------------------------------------------------------------------
(* What is done, and what is shown. *)

\* A step of p that sends nothing and changes at most the status of p's address.
LEMMA DoneKept ==
  ASSUME DoneInv, UNCHANGED <<nonceVars, executed>>, NEW p \in Payments, OnlyRun(p),
         run'[p].step = "execReceipt" => HoldsNonce(p, run'[p].nonce),
         run'[p].step = "finish" => Done(p),
         \A a \in Addresses :
            \/ status'[a] = status[a]
            \/ /\ status'[a].state = "sub_account_active" => Done(p)
               /\ status'[a].tx = p
  PROVE  DoneInv'
  <1>1. BlocksExecute'
    BY DEF DoneInv, BlocksExecute, Succeeded, Holder, nonceVars
  <1>2. ASSUME NEW q \in Payments
        PROVE  ReceiptOk(q)' /\ (run'[q].step = "finish" => Done(q)')
    BY DEF DoneInv, OnlyRun, ReceiptOk, HoldsNonce, Holder, Done, Lost, nonceVars
  <1>3. ActiveUnlessReplaced'
    BY DEF DoneInv, ActiveUnlessReplaced, Done, Lost, nonceVars
  <1>4. QED
    BY <1>1, <1>2, <1>3 DEF DoneInv

\* A transaction is sent, by a run or, where none moves, by another process.
LEMMA DoneSent ==
  ASSUME TypeOK, DoneInv, UNCHANGED <<status, executed>>,
         NEW k \in Keys, NEW nonce \in Nat, NEW tx \in Txs, Accepted(k, nonce, tx),
         \A p \in Payments :
            \/ run'[p] = run[p]
            \/ run'[p].step \notin {"execReceipt", "finish"}
            \/ /\ run'[p].step = "execReceipt" /\ run'[p].nonce = nonce
               /\ k = ExecuteKey /\ tx = Execute(p)
  PROVE  DoneInv'
  <1>1. /\ mined' = mined /\ reverted' = reverted /\ replaced \subseteq replaced'
        /\ nonce < Len(sent'[k]) /\ Holder(k, nonce)' = tx
        /\ \A j \in Keys : \A n \in 0..(Len(sent[j]) - 1) :
              /\ n < Len(sent'[j])
              /\ \/ Holder(j, n)' = Holder(j, n)
                 \/ n >= mined[j] /\ \E r \in replaced' : r.lost = Holder(j, n)
    BY AcceptedFacts DEF TypeOK
  <1>2. /\ sent \in [Keys -> Seq(Txs)] /\ mined \in [Keys -> Nat]
        /\ \A j \in Keys : mined[j] <= Len(sent[j])
        /\ ExecuteKey \in Keys
        /\ run \in Runs
    BY MonitorAssumption DEF TypeOK, NoncesTypeOK, Runs
  <1>3. \A q : Done(q) => Done(q)'
    BY <1>1 DEF Done, Lost
  <1>4. BlocksExecute'
    <2>1. SUFFICES ASSUME NEW j \in Keys, NEW n \in 0..(mined[j] - 1)
                   PROVE  Succeeded(j, n)' /\ Holder(j, n)'.kind = "execute"
                             => Holder(j, n)'.payment \in executed'
      BY <1>1 DEF BlocksExecute
    <2>2. mined[j] \in Nat /\ Len(sent[j]) \in Nat /\ mined[j] <= Len(sent[j])
      BY <1>2
    <2>3. n \in 0..(Len(sent[j]) - 1) /\ ~(n >= mined[j])
      BY <2>2
    <2>4. Holder(j, n)' = Holder(j, n)
      BY <1>1, <2>3
    <2>5. Succeeded(j, n) /\ Holder(j, n).kind = "execute" => Holder(j, n).payment \in executed
      BY DEF DoneInv, BlocksExecute
    <2>6. QED
      BY <1>1, <2>4, <2>5 DEF Succeeded
  <1>5. ASSUME NEW q \in Payments, NEW n \in Nat, HoldsNonce(q, n)
        PROVE  HoldsNonce(q, n)'
    <2>1. Len(sent[ExecuteKey]) \in Nat /\ n < Len(sent[ExecuteKey])
      BY <1>2, <1>5 DEF HoldsNonce
    <2>2. n \in 0..(Len(sent[ExecuteKey]) - 1)
      BY <2>1
    <2>3. /\ n < Len(sent'[ExecuteKey])
          /\ \/ Holder(ExecuteKey, n)' = Holder(ExecuteKey, n)
             \/ \E r \in replaced' : r.lost = Holder(ExecuteKey, n)
      BY <1>1, <1>2, <2>2
    <2>4. Lost(q) => Lost(q)'
      BY <1>1 DEF Lost
    <2>5. CASE Lost(q)
      BY <2>3, <2>4, <2>5 DEF HoldsNonce
    <2>6. CASE Holder(ExecuteKey, n) = Execute(q)
      BY <2>3, <2>6 DEF HoldsNonce, Lost, Execute
    <2>7. QED
      BY <1>5, <2>5, <2>6 DEF HoldsNonce
  <1>6. ASSUME NEW q \in Payments, run'[q] = run[q]
        PROVE  ReceiptOk(q)'
    <2>1. run[q].nonce \in Nat
      BY <1>2 DEF Runs
    <2>2. run[q].step = "execReceipt" => HoldsNonce(q, run[q].nonce)
      BY DEF DoneInv, ReceiptOk
    <2>3. QED
      BY <1>5, <1>6, <2>1, <2>2 DEF ReceiptOk, HoldsNonce, Holder, Lost
  <1>7. ASSUME NEW q \in Payments
        PROVE  ReceiptOk(q)'
    <2>1. CASE run'[q] = run[q]
      BY <1>6, <2>1
    <2>2. CASE run'[q].nonce = nonce /\ k = ExecuteKey /\ tx = Execute(q)
      BY <1>1, <2>2 DEF ReceiptOk, HoldsNonce, Holder, Execute
    <2>3. QED
      BY <2>1, <2>2 DEF ReceiptOk
  <1>8. \A q \in Payments : run'[q].step = "finish" => Done(q)'
    BY <1>3 DEF DoneInv
  <1>9. ActiveUnlessReplaced'
    BY <1>1 DEF DoneInv, ActiveUnlessReplaced, Execute
  <1>10. QED
    BY <1>4, <1>7, <1>8, <1>9 DEF DoneInv

\* The status moves on with a run, or ends with it.
LEMMA IdleKept ==
  ASSUME TypeOK, IdleInv, NEW p \in Payments, OnlyRun(p), crashes' = crashes,
         \/ status' = status /\ (run'[p].step = "idle" => run[p].step = "idle")
         \/ \E s \in StepperState :
               /\ status' = Persisted(p, s)
               /\ run'[p].step = "idle" => s \in {"sub_account_active", "failed"}
  PROVE  IdleInv'
  <1>1. CASE status' = status /\ (run'[p].step = "idle" => run[p].step = "idle")
    BY <1>1 DEF IdleInv, IdleMeansTerminal, At, OnlyRun, TypeOK
  <1>2. ASSUME NEW s \in StepperState, status' = Persisted(p, s),
               run'[p].step = "idle" => s \in {"sub_account_active", "failed"}
        PROVE  IdleInv'
    <2>1. /\ status'[Payer[p]].tx = p /\ status'[Payer[p]].state = s
          /\ \A a \in Addresses \ {Payer[p]} : status'[a] = status[a]
      BY <1>2, PersistedStatus DEF TypeOK, Status
    <2>2. \A a \in Addresses : status'[a] # NoStatus => Payer[status'[a].tx] = a
      BY <2>1 DEF IdleInv
    <2>3. ASSUME crashes = 0, NEW a \in Addresses, status'[a] # NoStatus,
                 run'[status'[a].tx].step = "idle"
          PROVE  status'[a].state \in {"sub_account_active", "failed"}
      <3>1. CASE a = Payer[p]
        BY <1>2, <2>1, <2>3, <3>1
      <3>2. CASE a # Payer[p]
        <4>1. status'[a] = status[a] /\ status[a].tx \in Payments \ {p}
          BY <2>1, <2>3, <3>2 DEF IdleInv, TypeOK
        <4>2. QED
          BY <2>3, <4>1 DEF IdleInv, IdleMeansTerminal, At, OnlyRun
      <3>3. QED
        BY <3>1, <3>2
    <2>4. QED
      BY <2>2, <2>3 DEF IdleInv, IdleMeansTerminal, At
  <1>3. QED
    BY <1>1, <1>2

-----------------------------------------------------------------------------
(* The kinds of steps. *)

LEMMA TypesNext ==
  ASSUME TypeOK, NoncesTypeOK', status' \in Status, run' \in Runs, gate' \in Seq(Payments),
         UNCHANGED Unmonitored
  PROVE  TypeOK'
  BY DEF TypeOK, Status, Runs, Unmonitored

LEMMA NoncesSame == NoncesTypeOK /\ UNCHANGED nonceVars => NoncesTypeOK'
  BY DEF NoncesTypeOK, nonceVars

\* A step within a run that nobody else sees.
LEMMA QuietStep ==
  ASSUME Inv, NEW p \in Payments, run' \in Runs, OnlyRun(p),
         UNCHANGED <<nonceVars, status, gate, Unmonitored>>,
         run'[p].step # "idle",
         run'[p].step \in Waiting <=> run[p].step \in Waiting,
         run'[p].step \in GateSteps => gate # <<>> /\ p = gate[1],
         run'[p].step # "execReceipt",
         run'[p].step = "finish" => Done(p)
  PROVE  Inv'
  <1>1. TypeOK'
    BY NoncesSame, TypesNext DEF Inv, TypeOK, Status
  <1>2. GateInv'
    BY GateKept DEF Inv
  <1>3. DoneInv'
    BY DoneKept DEF Inv, Unmonitored
  <1>4. IdleInv'
    BY IdleKept DEF Inv, Unmonitored
  <1>5. QED
    BY <1>1, <1>2, <1>3, <1>4 DEF Inv

\* A step that writes the status and leaves the gate, where p holds it.
LEMMA StatusStep ==
  ASSUME Inv, NEW p \in Payments, run' \in Runs, OnlyRun(p),
         UNCHANGED <<nonceVars, Unmonitored>>, LeaveGate(p),
         run[p].step # "queued", run'[p].step \notin Waiting \cup {"execReceipt", "finish"},
         \/ status' = status /\ run'[p].step # "idle"
         \/ \E s \in StepperState :
               /\ status' = Persisted(p, s)
               /\ s = "sub_account_active" => Done(p)
               /\ run'[p].step = "idle" => s \in {"sub_account_active", "failed"}
  PROVE  Inv'
  <1>1. status \in Status
    BY DEF Inv, TypeOK, Status
  <1>2. /\ status' \in Status
        /\ \A a \in Addresses :
              \/ status'[a] = status[a]
              \/ /\ status'[a].state = "sub_account_active" => Done(p)
                 /\ status'[a].tx = p
    BY <1>1, PersistedStatus
  <1>3. GateInv' /\ gate' \in Seq(Payments)
    BY GateLeft DEF Inv
  <1>4. TypeOK'
    BY <1>2, <1>3, NoncesSame, TypesNext DEF Inv, TypeOK
  <1>5. DoneInv'
    BY <1>2, DoneKept DEF Inv, Unmonitored
  <1>6. IdleInv'
    BY IdleKept DEF Inv, Unmonitored
  <1>7. QED
    BY <1>3, <1>4, <1>5, <1>6 DEF Inv

\* A run that is not in the gate leaves it alone.
LEMMA NotInGate ==
  ASSUME Inv, NEW p \in Payments, run[p].step \notin Waiting, UNCHANGED gate
  PROVE  LeaveGate(p)
  <1>1. gate \in Seq(Payments) /\ \A i \in 1..Len(gate) : gate[i] # p
    BY DEF Inv, TypeOK, GateInv
  <1>2. ~(gate # <<>> /\ p = Head(gate))
    BY <1>1
  <1>3. QED
    BY <1>2 DEF LeaveGate

LEMMA FailStep ==
  ASSUME Inv, NEW p \in Payments, Fail(p), LeaveGate(p), UNCHANGED <<nonceVars, Unmonitored>>,
         run[p].step # "queued"
  PROVE  Inv'
  <1>1. run' \in Runs /\ OnlyRun(p) /\ run'[p].step = "idle"
    BY IdleRun DEF Inv, Fail
  <1>2. "failed" \in StepperState /\ "failed" # "sub_account_active"
    BY DEF StepperState
  <1>3. "idle" \notin Waiting \cup {"execReceipt", "finish"}
    BY DEF Waiting, GateSteps
  <1>4. QED
    BY <1>1, <1>2, <1>3, StatusStep DEF Fail

\* A transaction of p's own is sent.
LEMMA SendStep ==
  ASSUME Inv, NEW p \in Payments, NEW k \in Keys, NEW tx \in Txs,
         Accepted(k, run[p].nonce, tx), UNCHANGED <<status, gate, Unmonitored>>,
         \/ /\ run[p].step \in GateSteps /\ Goto(p, "receipt")
         \/ /\ run[p].step \notin Waiting /\ Goto(p, "execReceipt")
            /\ k = ExecuteKey /\ tx = Execute(p)
  PROVE  Inv'
  <1>1. /\ run[p].nonce \in Nat /\ "receipt" \in Steps /\ "execReceipt" \in Steps
        /\ "receipt" \in GateSteps /\ "execReceipt" \notin Waiting
        /\ GateSteps \subseteq Waiting
    BY DEF Inv, TypeOK, Steps, GateSteps, AfterSteps, Waiting
  <1>2. /\ run' \in Runs /\ OnlyRun(p) /\ run'[p].nonce = run[p].nonce
        /\ \/ run[p].step \in GateSteps /\ run'[p].step = "receipt"
           \/ /\ run[p].step \notin Waiting /\ run'[p].step = "execReceipt"
              /\ k = ExecuteKey /\ tx = Execute(p)
    BY <1>1, GotoRun DEF Inv
  <1>3. NoncesTypeOK'
    BY <1>1, AcceptedFacts DEF Inv, TypeOK
  <1>4. TypeOK'
    BY <1>2, <1>3, TypesNext DEF Inv, TypeOK, Status
  <1>5. GateInv'
    <2>1. run[p].step \in GateSteps => gate # <<>> /\ p = gate[1]
      BY DEF Inv, GateInv
    <2>2. "execReceipt" \notin GateSteps
      BY DEF GateSteps
    <2>3. QED
      BY <1>1, <1>2, <2>1, <2>2, GateKept DEF Inv
  <1>6. DoneInv'
    <2>1. \A q \in Payments :
             \/ run'[q] = run[q]
             \/ run'[q].step \notin {"execReceipt", "finish"}
             \/ /\ run'[q].step = "execReceipt" /\ run'[q].nonce = run[p].nonce
                /\ k = ExecuteKey /\ tx = Execute(q)
      BY <1>2 DEF OnlyRun
    <2>2. QED
      BY <1>1, <2>1, DoneSent DEF Inv, Unmonitored
  <1>7. IdleInv'
    BY <1>2, IdleKept DEF Inv, Unmonitored
  <1>8. QED
    BY <1>4, <1>5, <1>6, <1>7 DEF Inv

-----------------------------------------------------------------------------
(* The actions. *)

\* A step is one of its own kind.
LEMMA StepNames ==
  /\ Steps = {"idle", "prepare", "queued", "pending", "nonce", "send", "receipt",
              "proof", "simulate", "execNonce", "execSend", "execReceipt", "finish"}
  /\ Waiting = {"queued", "pending", "nonce", "send", "receipt"}
  BY DEF Steps, GateSteps, AfterSteps, Waiting

LEMMA PreparedInv == ASSUME Inv, NEW p \in Payments, Prepared(p) PROVE Inv'
  <1>1. run' \in Runs /\ OnlyRun(p) /\ run'[p].step = "queued" /\ run[p].step = "prepare"
    BY GotoRun, StepNames DEF Inv, Prepared, At
  <1>2. run[p].step \notin Waiting
    BY <1>1, StepNames
  <1>3. GateInv' /\ gate' \in Seq(Payments)
    BY <1>1, <1>2, GateJoined DEF Inv, Prepared
  <1>4. TypeOK'
    BY <1>1, <1>3, NoncesSame, TypesNext DEF Inv, TypeOK, Status, Prepared
  <1>5. DoneInv'
    BY <1>1, DoneKept DEF Inv, Prepared, Unmonitored
  <1>6. IdleInv'
    BY <1>1, IdleKept DEF Inv, Prepared, Unmonitored
  <1>7. QED
    BY <1>3, <1>4, <1>5, <1>6 DEF Inv

LEMMA EnterGateInv == ASSUME Inv, NEW p \in Payments, EnterGate(p) PROVE Inv'
  <1>1. run' \in Runs /\ OnlyRun(p) /\ run'[p].step = "pending" /\ run[p].step = "queued"
    BY GotoRun, StepNames DEF Inv, EnterGate, At
  <1>2. gate # <<>> /\ p = gate[1]
    <2>1. \E i \in 1..Len(gate) : gate[i] = p
      BY <1>1, StepNames DEF Inv, GateInv
    <2>2. gate \in Seq(Payments) /\ gate # <<>>
      BY <2>1 DEF Inv, TypeOK
    <2>3. QED
      BY <2>2 DEF EnterGate
  <1>3. QED
    BY <1>1, <1>2, StepNames, QuietStep DEF EnterGate

\* Within the gate.
LEMMA HeldStepInv ==
  ASSUME Inv, NEW p \in Payments,
         \/ PendingCleared(p)
         \/ ReadNonce(p, "nonce", AttestKey, "send")
  PROVE  Inv'
  <1>1. /\ run' \in Runs /\ OnlyRun(p)
        /\ run[p].step \in {"pending", "nonce"} /\ run'[p].step \in {"nonce", "send"}
    <2>1. CASE PendingCleared(p)
      BY <2>1, GotoRun, StepNames DEF Inv, PendingCleared, At
    <2>2. CASE ReadNonce(p, "nonce", AttestKey, "send")
      <3>1. Len(sent[AttestKey]) \in Nat
        BY MonitorAssumption DEF Inv, TypeOK, NoncesTypeOK
      <3>2. run \in Runs /\ run[p].step = "nonce"
        BY <2>2 DEF Inv, TypeOK, ReadNonce, At, Runs
      <3>3. run' = [run EXCEPT ![p].step = "send", ![p].nonce = Len(sent[AttestKey])]
        BY <2>2 DEF ReadNonce, PendingCount
      <3>4. QED
        BY <3>1, <3>2, <3>3, StepNames DEF Runs, OnlyRun
    <2>3. QED
      BY <2>1, <2>2
  <1>2. gate # <<>> /\ p = gate[1]
    BY <1>1 DEF Inv, GateInv, GateSteps
  <1>3. UNCHANGED <<nonceVars, status, gate, Unmonitored>>
    BY DEF PendingCleared, ReadNonce
  <1>4. QED
    BY <1>1, <1>2, <1>3, StepNames, QuietStep

LEMMA SubmitAttestationInv ==
  ASSUME Inv, NEW p \in Payments, SubmitAttestation(p)
  PROVE  Inv'
  <1>1. run[p].step = "send" /\ run[p].step \in GateSteps
    BY DEF SubmitAttestation, At, GateSteps
  <1>2. UNCHANGED Unmonitored
    BY DEF SubmitAttestation
  <1>3. CASE Accepted(AttestKey, run[p].nonce, Attest(p)) /\ Goto(p, "receipt")
             /\ UNCHANGED <<status, gate>>
    <2>1. AttestKey \in Keys /\ Attest(p) \in Txs
      BY MonitorAssumption, TxsAssumption
    <2>2. QED
      BY <1>1, <1>2, <1>3, <2>1, SendStep
  <1>4. CASE /\ Rejected(AttestKey, run[p].nonce)
             /\ run[p].attempt + 1 < MaxAttempts
             /\ run' = [run EXCEPT ![p].step = "pending", ![p].attempt = @ + 1]
             /\ UNCHANGED <<status, gate>>
    <2>1. run[p].attempt \in 0..(MaxAttempts - 1) /\ MaxAttempts \in Nat
      BY MonitorAssumption DEF Inv, TypeOK
    <2>2. run[p].attempt + 1 \in 0..(MaxAttempts - 1)
      BY <1>4, <2>1
    <2>3. run' \in Runs /\ OnlyRun(p) /\ run'[p].step = "pending"
      BY <1>4, <2>2, StepNames DEF Inv, TypeOK, Runs, OnlyRun
    <2>4. gate # <<>> /\ p = gate[1]
      BY <1>1 DEF Inv, GateInv
    <2>5. UNCHANGED <<nonceVars, status, gate, Unmonitored>>
      BY <1>2, <1>4 DEF Rejected
    <2>6. QED
      BY <1>1, <2>3, <2>4, <2>5, StepNames, QuietStep
  <1>5. CASE Rejected(AttestKey, run[p].nonce) /\ Fail(p) /\ LeaveGate(p)
    <2>1. UNCHANGED <<nonceVars, Unmonitored>>
      BY <1>2, <1>5 DEF Rejected
    <2>2. QED
      BY <1>1, <1>5, <2>1, FailStep
  <1>6. QED
    BY <1>3, <1>4, <1>5 DEF SubmitAttestation

LEMMA AttestationMinedInv ==
  ASSUME Inv, NEW p \in Payments, AttestationMined(p)
  PROVE  Inv'
  <1>1. /\ run[p].step = "receipt" /\ LeaveGate(p)
        /\ UNCHANGED <<nonceVars, Unmonitored>>
    BY DEF AttestationMined, At
  <1>2. CASE Goto(p, "proof") /\ UNCHANGED status
    <2>1. run' \in Runs /\ OnlyRun(p) /\ run'[p].step = "proof"
      BY <1>2, GotoRun, StepNames DEF Inv
    <2>2. QED
      BY <1>1, <1>2, <2>1, StepNames, StatusStep
  <1>3. CASE Fail(p)
    BY <1>1, <1>3, FailStep
  <1>4. QED
    BY <1>2, <1>3 DEF AttestationMined

LEMMA ProofArrivedInv ==
  ASSUME Inv, NEW p \in Payments, ProofArrived(p)
  PROVE  Inv'
  <1>1. /\ run[p].step = "proof" /\ Goto(p, "simulate")
        /\ status' = Persisted(p, "minting_fxrp")
        /\ UNCHANGED <<nonceVars, gate, Unmonitored>>
    BY DEF ProofArrived, At
  <1>2. run' \in Runs /\ OnlyRun(p) /\ run'[p].step = "simulate"
    BY <1>1, GotoRun, StepNames DEF Inv
  <1>3. LeaveGate(p)
    BY <1>1, StepNames, NotInGate
  <1>4. "minting_fxrp" \in StepperState
    BY DEF StepperState
  <1>5. QED
    BY <1>1, <1>2, <1>3, <1>4, StepNames, StatusStep

LEMMA SimulateInv ==
  ASSUME Inv, NEW p \in Payments, Simulate(p)
  PROVE  Inv'
  <1>1. /\ run' \in Runs /\ OnlyRun(p) /\ run[p].step = "simulate"
        /\ run'[p].step \in {"finish", "execNonce"}
        /\ run'[p].step = "finish" => Done(p)
    BY GotoRun, StepNames DEF Inv, Simulate, At, Done
  <1>2. UNCHANGED <<nonceVars, status, gate, Unmonitored>>
    BY DEF Simulate
  <1>3. "finish" \notin GateSteps /\ "execNonce" \notin GateSteps
    BY DEF GateSteps
  <1>4. QED
    BY <1>1, <1>2, <1>3, StepNames, QuietStep

LEMMA ReadExecNonceInv ==
  ASSUME Inv, NEW p \in Payments, ReadNonce(p, "execNonce", ExecuteKey, "execSend")
  PROVE  Inv'
  <1>1. Len(sent[ExecuteKey]) \in Nat
    BY MonitorAssumption DEF Inv, TypeOK, NoncesTypeOK
  <1>2. /\ run' \in Runs /\ OnlyRun(p)
        /\ run[p].step = "execNonce" /\ run'[p].step = "execSend"
    BY <1>1, StepNames DEF Inv, TypeOK, ReadNonce, PendingCount, At, Runs, OnlyRun
  <1>3. UNCHANGED <<nonceVars, status, gate, Unmonitored>>
    BY DEF ReadNonce
  <1>4. "execSend" \notin GateSteps
    BY DEF GateSteps
  <1>5. QED
    BY <1>2, <1>3, <1>4, StepNames, QuietStep

LEMMA SubmitExecutionInv ==
  ASSUME Inv, NEW p \in Payments, SubmitExecution(p)
  PROVE  Inv'
  <1>1. run[p].step = "execSend" /\ UNCHANGED <<gate, Unmonitored>>
    BY DEF SubmitExecution, At
  <1>2. run[p].step \notin Waiting /\ run[p].step # "queued"
    BY <1>1, StepNames
  <1>3. CASE Accepted(ExecuteKey, run[p].nonce, Execute(p)) /\ Goto(p, "execReceipt")
             /\ UNCHANGED status
    <2>1. ExecuteKey \in Keys /\ Execute(p) \in Txs
      BY MonitorAssumption, TxsAssumption
    <2>2. QED
      BY <1>1, <1>2, <1>3, <2>1, SendStep
  <1>4. CASE Rejected(ExecuteKey, run[p].nonce) /\ Fail(p)
    <2>1. LeaveGate(p) /\ UNCHANGED <<nonceVars, Unmonitored>>
      BY <1>1, <1>2, <1>4, NotInGate DEF Rejected
    <2>2. QED
      BY <1>2, <1>4, <2>1, FailStep
  <1>5. QED
    BY <1>3, <1>4 DEF SubmitExecution

\* The receipt under the nonce of the execution is the execution's own, or the
\* execution has lost the nonce.
LEMMA ExecutionMinedInv ==
  ASSUME Inv, NEW p \in Payments, ExecutionMined(p)
  PROVE  Inv'
  <1>1. run[p].step = "execReceipt" /\ UNCHANGED <<nonceVars, gate, Unmonitored>>
    BY DEF ExecutionMined, At
  <1>2. run[p].step \notin Waiting /\ run[p].step # "queued"
    BY <1>1, StepNames
  <1>3. CASE Succeeded(ExecuteKey, run[p].nonce) /\ Goto(p, "finish") /\ UNCHANGED status
    <2> DEFINE n == run[p].nonce
    <2>1. /\ n \in Nat /\ ExecuteKey \in Keys /\ mined[ExecuteKey] \in Nat
          /\ n < mined[ExecuteKey]
      BY MonitorAssumption DEF Inv, TypeOK, NoncesTypeOK, ExecutionMined, HasReceipt, LatestCount
    <2>2. n \in 0..(mined[ExecuteKey] - 1)
      BY <2>1
    <2>3. HoldsNonce(p, n)
      BY <1>1 DEF Inv, DoneInv, ReceiptOk
    <2>4. Succeeded(ExecuteKey, n) /\ Holder(ExecuteKey, n).kind = "execute"
             => Holder(ExecuteKey, n).payment \in executed
      BY <2>1, <2>2 DEF Inv, DoneInv, BlocksExecute
    <2>5. Done(p)
      BY <1>3, <2>3, <2>4 DEF HoldsNonce, Done, Execute
    <2>6. run' \in Runs /\ OnlyRun(p) /\ run'[p].step = "finish"
      BY <1>3, GotoRun, StepNames DEF Inv
    <2>7. "finish" \notin GateSteps
      BY DEF GateSteps
    <2>8. QED
      BY <1>1, <1>2, <1>3, <2>5, <2>6, <2>7, StepNames, QuietStep
  <1>4. CASE Fail(p)
    <2>1. LeaveGate(p)
      BY <1>1, <1>2, NotInGate
    <2>2. QED
      BY <1>1, <1>2, <1>4, <2>1, FailStep
  <1>5. QED
    BY <1>3, <1>4 DEF ExecutionMined

LEMMA FinishInv ==
  ASSUME Inv, NEW p \in Payments, Finish(p)
  PROVE  Inv'
  <1>1. /\ run[p].step = "finish" /\ run' = [run EXCEPT ![p] = Idle]
        /\ status' = Persisted(p, "sub_account_active")
        /\ UNCHANGED <<nonceVars, gate, Unmonitored>>
    BY DEF Finish, At
  <1>2. run' \in Runs /\ OnlyRun(p) /\ run'[p].step = "idle"
    BY <1>1, IdleRun DEF Inv
  <1>3. LeaveGate(p)
    BY <1>1, StepNames, NotInGate
  <1>4. Done(p) /\ "sub_account_active" \in StepperState
    BY <1>1 DEF Inv, DoneInv, StepperState
  <1>5. /\ run[p].step # "queued"
        /\ run'[p].step \notin Waiting \cup {"execReceipt", "finish"}
    BY <1>1, <1>2, StepNames
  <1>6. \E s \in StepperState :
           /\ status' = Persisted(p, s)
           /\ s = "sub_account_active" => Done(p)
           /\ run'[p].step = "idle" => s \in {"sub_account_active", "failed"}
    BY <1>1, <1>4
  <1>7. QED
    BY <1>1, <1>2, <1>3, <1>5, <1>6, StatusStep

LEMMA AwaitRejectedInv ==
  ASSUME Inv, NEW p \in Payments, AwaitRejected(p)
  PROVE  Inv'
  BY FailStep DEF AwaitRejected

LEMMA RunStepInv == ASSUME Inv, NEW p \in Payments, RunStep(p) PROVE Inv'
  BY PreparedInv, EnterGateInv, HeldStepInv, SubmitAttestationInv, AttestationMinedInv,
     ProofArrivedInv, SimulateInv, ReadExecNonceInv, SubmitExecutionInv,
     ExecutionMinedInv, FinishInv, AwaitRejectedInv
  DEF RunStep

\* A call starts a run, or finds one and at most shows the payment as waiting again.
LEMMA CallOutcome ==
  ASSUME Inv, NEW p \in Payments, PaymentSeen(p) \/ PostProcess(p)
  PROVE  /\ run' \in Runs /\ OnlyRun(p)
         /\ \/ run[p].step = "idle" /\ run'[p].step = "prepare"
            \/ run' = run
         /\ \/ status' = status /\ run' = run
            \/ \E s \in StepperState \ {"sub_account_active"} :
                  status' = Persisted(p, s) /\ run'[p].step # "idle"
  <1>1. run \in Runs /\ status \in Status /\ Payer[p] \in Addresses
    BY MonitorAssumption DEF Inv, TypeOK, Runs, Status
  <1>2. /\ "waiting_xrpl" \in StepperState \ {"sub_account_active"}
        /\ "requesting_fdc" \in StepperState \ {"sub_account_active"}
    BY DEF StepperState
  <1>3. ASSUME Goto(p, "prepare"), run[p].step = "idle"
        PROVE  run' \in Runs /\ OnlyRun(p) /\ run'[p].step = "prepare"
    BY <1>3, GotoRun, StepNames DEF Inv
  <1>4. CASE PostProcess(p)
    <2>1. ProcessPayment(p, status)
      BY <1>4 DEF PostProcess
    <2>2. CASE run[p].step = "idle" /\ Goto(p, "prepare")
               /\ status' = Persisted(p, "requesting_fdc")
      BY <1>2, <1>3, <2>2
    <2>3. CASE status' = status /\ run' = run
      BY <1>1, <2>3 DEF OnlyRun
    <2>4. QED
      BY <2>1, <2>2, <2>3 DEF ProcessPayment, At, Persisted
  <1>5. CASE PaymentSeen(p)
    <2> DEFINE st == Persisted(p, "waiting_xrpl")
    <2>1. ProcessPayment(p, st)
      BY <1>5 DEF PaymentSeen
    <2>2. /\ st[Payer[p]] = [tx |-> p, state |-> "waiting_xrpl"]
          /\ [st EXCEPT ![Payer[p]] = [tx |-> p, state |-> "requesting_fdc"]]
                = Persisted(p, "requesting_fdc")
      BY <1>1 DEF Persisted, Status
    <2>3. ~Cached(p, st[Payer[p]])
      BY <2>2 DEF Cached
    <2> HIDE DEF st
    <2>4. CASE run[p].step = "idle"
      <3>1. Goto(p, "prepare") /\ status' = Persisted(p, "requesting_fdc")
        BY <2>1, <2>2, <2>3, <2>4 DEF ProcessPayment, At
      <3>2. QED
        BY <1>2, <1>3, <2>4, <3>1
    <2>5. CASE run[p].step # "idle"
      <3>1. run' = run /\ status' = st
        BY <2>1, <2>5 DEF ProcessPayment, At
      <3>2. QED
        BY <1>1, <1>2, <2>5, <3>1 DEF OnlyRun, st
    <2>6. QED
      BY <2>4, <2>5
  <1>6. QED
    BY <1>4, <1>5

LEMMA CallInv == ASSUME Inv, NEW p \in Payments, PaymentSeen(p) \/ PostProcess(p) PROVE Inv'
  <1>1. /\ calls' \in [Payments -> Nat]
        /\ UNCHANGED <<nonceVars, gate, executed, crashes>>
    BY DEF PaymentSeen, PostProcess, Call, Inv, TypeOK
  <1>2. /\ status' \in Status
        /\ \A a \in Addresses :
              \/ status'[a] = status[a]
              \/ status'[a].state # "sub_account_active" /\ status'[a].tx = p
    <2>1. status \in Status /\ "sub_account_active" \in StepperState
      BY DEF Inv, TypeOK, Status, StepperState
    <2>2. CASE status' = status
      BY <2>1, <2>2
    <2>3. ASSUME NEW s \in StepperState \ {"sub_account_active"}, status' = Persisted(p, s)
          PROVE  /\ status' \in Status
                 /\ \A a \in Addresses :
                       \/ status'[a] = status[a]
                       \/ status'[a].state # "sub_account_active" /\ status'[a].tx = p
      BY <2>1, <2>3, PersistedStatus
    <2>4. QED
      BY <2>2, <2>3, CallOutcome
  <1>3. TypeOK'
    BY <1>1, <1>2, CallOutcome, NoncesSame DEF Inv, TypeOK, Status, Runs
  <1>4. GateInv'
    <2>1. "prepare" \notin Waiting /\ "idle" \notin Waiting /\ "prepare" \notin GateSteps
      BY StepNames DEF GateSteps
    <2>2. run[p].step \in GateSteps => gate # <<>> /\ p = gate[1]
      BY DEF Inv, GateInv
    <2>3. QED
      BY <1>1, <2>1, <2>2, CallOutcome, GateKept DEF Inv
  <1>5. DoneInv'
    <2>1. run'[p].step = "execReceipt" => HoldsNonce(p, run'[p].nonce)
      BY CallOutcome DEF Inv, DoneInv, ReceiptOk
    <2>2. run'[p].step = "finish" => Done(p)
      BY CallOutcome DEF Inv, DoneInv
    <2>3. QED
      BY <1>1, <1>2, <2>1, <2>2, CallOutcome, DoneKept DEF Inv
  <1>6. IdleInv'
    BY <1>1, CallOutcome, IdleKept DEF Inv
  <1>7. QED
    BY <1>3, <1>4, <1>5, <1>6 DEF Inv

\* A block with an execution executes its payment, or the execution reverted.
LEMMA BlockInv == ASSUME Inv, NEW k \in Keys, BlockMined(k) PROVE Inv'
  <1>1. PICK success \in BOOLEAN :
           /\ Mine(k, success)
           /\ success /\ Holder(k, mined[k]).kind = "execute"
                 => Holder(k, mined[k]).payment \notin executed
           /\ executed' = IF success /\ Holder(k, mined[k]).kind = "execute"
                          THEN executed \cup {Holder(k, mined[k]).payment} ELSE executed
           /\ UNCHANGED <<status, run, gate, calls, crashes>>
    BY DEF BlockMined
  <1>2. /\ sent' = sent /\ replaced' = replaced /\ mined[k] < Len(sent[k])
        /\ mined' = [mined EXCEPT ![k] = @ + 1]
        /\ reverted' = IF success THEN reverted ELSE reverted \cup {<<k, mined[k]>>}
        /\ sent \in [Keys -> Seq(Txs)] /\ mined \in [Keys -> Nat]
    BY <1>1 DEF Mine, LatestCount, PendingCount, Inv, TypeOK, NoncesTypeOK
  <1>3. executed \subseteq executed'
    BY <1>1
  <1>4. BlocksExecute'
    <2>1. SUFFICES ASSUME NEW j \in Keys, NEW n \in 0..(mined'[j] - 1),
                          Succeeded(j, n)', Holder(j, n)'.kind = "execute"
                   PROVE  Holder(j, n)'.payment \in executed'
      BY DEF BlocksExecute
    <2>2. Holder(j, n)' = Holder(j, n) /\ Succeeded(j, n)
      BY <1>2, <2>1 DEF Holder, Succeeded
    <2>3. CASE j = k /\ n = mined[k]
      <3>1. success
        BY <1>2, <2>1, <2>3 DEF Succeeded
      <3>2. QED
        BY <1>1, <2>1, <2>2, <2>3, <3>1
    <2>4. CASE ~(j = k /\ n = mined[k])
      <3>1. n \in 0..(mined[j] - 1)
        BY <1>2, <2>4
      <3>2. QED
        BY <1>3, <2>1, <2>2, <3>1 DEF Inv, DoneInv, BlocksExecute
    <2>5. QED
      BY <2>3, <2>4
  <1>5. DoneInv'
    <2>1. \A p \in Payments : ReceiptOk(p)'
      BY <1>1, <1>2 DEF Inv, DoneInv, ReceiptOk, HoldsNonce, Holder, Lost
    <2>2. \A p \in Payments : run'[p].step = "finish" => Done(p)'
      BY <1>1, <1>2, <1>3 DEF Inv, DoneInv, Done, Lost
    <2>3. ActiveUnlessReplaced'
      BY <1>1, <1>2, <1>3 DEF Inv, DoneInv, ActiveUnlessReplaced
    <2>4. QED
      BY <1>4, <2>1, <2>2, <2>3 DEF DoneInv
  <1>6. GateInv' /\ IdleInv'
    BY <1>1 DEF Inv, GateInv, IdleInv, IdleMeansTerminal, At
  <1>7. TypeOK'
    <2>1. NoncesTypeOK'
      BY <1>2 DEF Inv, TypeOK, NoncesTypeOK
    <2>2. success /\ Holder(k, mined[k]).kind = "execute"
             => Holder(k, mined[k]).payment \in Payments
      <3>1. Holder(k, mined[k]) \in Txs
        BY <1>2 DEF Holder
      <3>2. QED
        BY <3>1, TxsAssumption
    <2>3. executed' \in SUBSET Payments
      BY <1>1, <2>2 DEF Inv, TypeOK
    <2>4. QED
      BY <1>1, <2>1, <2>3 DEF Inv, TypeOK
  <1>8. QED
    BY <1>5, <1>6, <1>7 DEF Inv

LEMMA OthersInv == ASSUME Inv, NEW k \in Keys, OtherSends(k), UNCHANGED monitorVars PROVE Inv'
  <1>1. PICK tx \in Others, nonce \in 0..PendingCount(k) : Accepted(k, nonce, tx)
    BY DEF OtherSends
  <1>2. tx \in Txs /\ nonce \in Nat
    BY NoncesAssumption DEF Inv, TypeOK, NoncesTypeOK, PendingCount
  <1>3. TypeOK' /\ GateInv' /\ IdleInv'
    BY <1>1, <1>2, AcceptedFacts
       DEF Inv, TypeOK, GateInv, IdleInv, IdleMeansTerminal, At, monitorVars
  <1>4. DoneInv'
    BY <1>1, <1>2, DoneSent DEF Inv, monitorVars
  <1>5. QED
    BY <1>3, <1>4 DEF Inv

\* A crash empties the runs and the gate, and may empty the statuses.
LEMMA CrashInv == ASSUME Inv, CrashAndRestart PROVE Inv'
  <1>1. /\ run' = [p \in Payments |-> Idle] /\ gate' = <<>> /\ crashes' = crashes + 1
        /\ UNCHANGED <<nonceVars, executed, calls>>
        /\ crashes \in Nat
        /\ status' = status \/ status' = [a \in Addresses |-> NoStatus]
    BY DEF CrashAndRestart, Inv, TypeOK
  <1>2. 0 \in 0..(MaxAttempts - 1)
    BY MonitorAssumption
  <1>3. run' \in Runs /\ \A p \in Payments : run'[p].step = "idle"
    BY <1>1, <1>2, StepNames DEF Runs, Idle
  <1>4. TypeOK'
    BY <1>1, <1>3, NoncesSame DEF Inv, TypeOK, Runs
  <1>5. GateInv'
    BY <1>1, <1>3, StepNames DEF GateInv, GateSteps
  <1>6. DoneInv'
    <2>1. BlocksExecute'
      BY <1>1 DEF Inv, DoneInv, BlocksExecute, Holder, Succeeded, nonceVars
    <2>2. ActiveUnlessReplaced'
      BY <1>1 DEF Inv, DoneInv, ActiveUnlessReplaced, nonceVars
    <2>3. QED
      BY <1>3, <2>1, <2>2 DEF DoneInv, ReceiptOk
  <1>7. IdleInv'
    BY <1>1 DEF Inv, IdleInv, IdleMeansTerminal
  <1>8. QED
    BY <1>4, <1>5, <1>6, <1>7 DEF Inv

LEMMA InitInv == Init => Inv
  <1> SUFFICES ASSUME Init PROVE Inv
    OBVIOUS
  <1>1. 0 \in 0..(MaxAttempts - 1)
    BY MonitorAssumption
  <1>2. run \in Runs /\ \A p \in Payments : run[p].step = "idle"
    BY <1>1, StepNames DEF Init, Runs, Idle
  <1>3. TypeOK
    BY <1>2 DEF Init, TypeOK, NoncesInit, NoncesTypeOK, Runs
  <1>4. GateInv
    BY <1>2, StepNames DEF Init, GateInv, GateSteps
  <1>5. DoneInv
    BY <1>2 DEF Init, NoncesInit, DoneInv, ReceiptOk, BlocksExecute, ActiveUnlessReplaced
  <1>6. IdleInv
    BY DEF Init, IdleInv, IdleMeansTerminal
  <1>7. QED
    BY <1>3, <1>4, <1>5, <1>6 DEF Inv

LEMMA StutterInv == ASSUME Inv, UNCHANGED vars PROVE Inv'
  <1>1. UNCHANGED <<nonceVars, status, run, gate, executed, calls, crashes>>
    BY DEF vars, monitorVars
  <1>2. TypeOK'
    BY <1>1, NoncesSame DEF Inv, TypeOK
  <1>3. GateInv'
    BY <1>1 DEF Inv, GateInv
  <1>4. DoneInv'
    <2>1. BlocksExecute'
      BY <1>1 DEF Inv, DoneInv, BlocksExecute, Holder, Succeeded, nonceVars
    <2>2. \A p \in Payments : ReceiptOk(p)' /\ (run'[p].step = "finish" => Done(p)')
      BY <1>1 DEF Inv, DoneInv, ReceiptOk, HoldsNonce, Holder, Done, Lost, nonceVars
    <2>3. ActiveUnlessReplaced'
      BY <1>1 DEF Inv, DoneInv, ActiveUnlessReplaced, nonceVars
    <2>4. QED
      BY <2>1, <2>2, <2>3 DEF DoneInv
  <1>5. IdleInv'
    BY <1>1 DEF Inv, IdleInv, IdleMeansTerminal, At
  <1>6. QED
    BY <1>2, <1>3, <1>4, <1>5 DEF Inv

LEMMA NextInv == Inv /\ [Next]_vars => Inv'
  BY RunStepInv, CallInv, BlockInv, OthersInv, CrashInv, StutterInv DEF Next

-----------------------------------------------------------------------------
(* Attestations keep their nonces, where executions go out from another key. *)

\* What is pending on the attestation key comes from other processes.
PendingOthers ==
    \A n \in mined[AttestKey]..(Len(sent[AttestKey]) - 1) : Holder(AttestKey, n).kind = "other"

\* A run that is about to send an attestation has seen all earlier ones mined, and no
\* attestation is on any other key.
KeptInv ==
    /\ \A p \in Payments : run[p].step \in {"nonce", "send"} => PendingOthers
    /\ \A k \in Keys \ {AttestKey} : \A n \in 0..(Len(sent[k]) - 1) : Holder(k, n).kind # "attest"
    /\ AttestationsUnreplaced

\* The keys and what other processes send are not the monitor's.
Separate == AttestKey # ExecuteKey /\ \A tx \in Others : tx.kind = "other"

LEMMA KeptQuiet ==
  ASSUME KeptInv, UNCHANGED nonceVars,
         \A p \in Payments : run'[p].step \in {"nonce", "send"} => PendingOthers
  PROVE  KeptInv'
  BY DEF KeptInv, PendingOthers, Holder, AttestationsUnreplaced, nonceVars

\* A run that stays where it was, or moves to another step than these.
LEMMA KeptMove ==
  ASSUME KeptInv, UNCHANGED nonceVars, NEW p \in Payments, OnlyRun(p),
         run'[p].step \in {"nonce", "send"} => PendingOthers
  PROVE  KeptInv'
  <1>1. \A q \in Payments : run'[q].step \in {"nonce", "send"} => PendingOthers
    BY DEF KeptInv, OnlyRun
  <1>2. QED
    BY <1>1, KeptQuiet

\* A transaction that is sent takes a nonce from nobody, or from one that is pending.
LEMMA KeptSent ==
  ASSUME NoncesTypeOK, KeptInv, AttestKey \in Keys,
         NEW k \in Keys, NEW nonce \in Nat, NEW tx \in Txs, Accepted(k, nonce, tx),
         \/ tx.kind = "other"
         \/ tx.kind = "attest" /\ k = AttestKey /\ PendingOthers
         \/ tx.kind = "execute" /\ k # AttestKey
  PROVE  /\ \A j \in Keys \ {AttestKey} : \A n \in 0..(Len(sent'[j]) - 1) :
               Holder(j, n)'.kind # "attest"
         /\ AttestationsUnreplaced'
         /\ PendingOthers /\ tx.kind # "attest" => PendingOthers'
  <1>1. /\ sent \in [Keys -> Seq(Txs)] /\ mined \in [Keys -> Nat]
        /\ \A j \in Keys : Len(sent[j]) \in Nat /\ mined[j] <= Len(sent[j])
    BY DEF NoncesTypeOK
  <1>2. /\ mined' = mined
        /\ \A j \in Keys : Len(sent'[j]) \in Nat
        /\ \A j \in Keys : \A n \in 0..(Len(sent'[j]) - 1) :
              \/ n \in 0..(Len(sent[j]) - 1) /\ Holder(j, n)' = Holder(j, n)
              \/ j = k /\ Holder(j, n)' = tx
    <2>1. CASE /\ nonce = Len(sent[k])
               /\ sent' = [sent EXCEPT ![k] = Append(@, tx)]
               /\ mined' = mined
      <3>1. /\ sent'[k] = Append(sent[k], tx)
            /\ \A j \in Keys \ {k} : sent'[j] = sent[j]
            /\ Len(sent'[k]) = Len(sent[k]) + 1
            /\ sent'[k][Len(sent[k]) + 1] = tx
            /\ \A n \in 0..(Len(sent[k]) - 1) : sent'[k][n + 1] = sent[k][n + 1]
        BY <1>1, <2>1
      <3>2. ASSUME NEW j \in Keys, NEW n \in 0..(Len(sent'[j]) - 1)
            PROVE  /\ Len(sent'[j]) \in Nat
                   /\ \/ n \in 0..(Len(sent[j]) - 1) /\ Holder(j, n)' = Holder(j, n)
                      \/ j = k /\ Holder(j, n)' = tx
        <4>1. CASE j = k
          <5>1. n \in 0..(Len(sent[k]) - 1) \/ n = Len(sent[k])
            BY <1>1, <3>1, <4>1
          <5>2. CASE n \in 0..(Len(sent[k]) - 1)
            <6>1. Len(sent'[j]) \in Nat
              BY <1>1, <3>1, <4>1
            <6>2. sent'[j][n + 1] = sent[j][n + 1]
              BY <3>1, <4>1, <5>2
            <6>3. QED
              BY <4>1, <5>2, <6>1, <6>2 DEF Holder
          <5>3. CASE n = Len(sent[k])
            <6>1. Len(sent'[j]) \in Nat
              BY <1>1, <3>1, <4>1
            <6>2. sent'[j][n + 1] = tx
              BY <3>1, <4>1, <5>3
            <6>3. QED
              BY <4>1, <6>1, <6>2 DEF Holder
          <5>4. QED
            BY <5>1, <5>2, <5>3
        <4>2. CASE j # k
          BY <1>1, <3>1, <4>2 DEF Holder
        <4>3. QED
          BY <4>1, <4>2
      <3>3. \A j \in Keys : Len(sent'[j]) \in Nat
        BY <1>1, <3>1
      <3>4. QED
        BY <2>1, <3>2, <3>3
    <2>2. CASE /\ mined[k] <= nonce /\ nonce < Len(sent[k])
               /\ sent' = [sent EXCEPT ![k][nonce + 1] = tx]
               /\ mined' = mined
      <3>1. /\ \A j \in Keys \ {k} : sent'[j] = sent[j]
            /\ sent'[k] = [sent[k] EXCEPT ![nonce + 1] = tx]
            /\ nonce + 1 \in 1..Len(sent[k])
        BY <1>1, <2>2
      <3>2. /\ Len(sent'[k]) = Len(sent[k])
            /\ sent'[k][nonce + 1] = tx
            /\ \A n \in 0..(Len(sent[k]) - 1) : n # nonce => sent'[k][n + 1] = sent[k][n + 1]
        BY <1>1, <3>1
      <3>3. ASSUME NEW j \in Keys, NEW n \in 0..(Len(sent'[j]) - 1)
            PROVE  \/ n \in 0..(Len(sent[j]) - 1) /\ Holder(j, n)' = Holder(j, n)
                   \/ j = k /\ Holder(j, n)' = tx
        <4>1. CASE j = k
          BY <1>1, <3>2, <4>1 DEF Holder
        <4>2. CASE j # k
          BY <1>1, <3>1, <4>2 DEF Holder
        <4>3. QED
          BY <4>1, <4>2
      <3>4. \A j \in Keys : Len(sent'[j]) \in Nat
        BY <1>1, <3>1, <3>2
      <3>5. QED
        BY <2>2, <3>3, <3>4
    <2>3. QED
      BY <2>1, <2>2 DEF Accepted, PendingCount, LatestCount
  <1>3. ASSUME NEW j \in Keys \ {AttestKey}, NEW n \in 0..(Len(sent'[j]) - 1)
        PROVE  Holder(j, n)'.kind # "attest"
    BY <1>2 DEF KeptInv
  <1>4. AttestationsUnreplaced'
    <2>1. CASE replaced' = replaced
      BY <2>1 DEF KeptInv, AttestationsUnreplaced
    <2>2. CASE /\ mined[k] <= nonce /\ nonce < Len(sent[k])
               /\ replaced' = replaced \cup {[lost |-> Holder(k, nonce), to |-> tx]}
      <3>1. /\ nonce \in mined[k]..(Len(sent[k]) - 1)
            /\ nonce \in 0..(Len(sent[k]) - 1)
        BY <1>1, <2>2
      <3>2. tx.kind = "other" \/ Holder(k, nonce).kind # "attest"
        BY <3>1 DEF KeptInv, PendingOthers
      <3>3. QED
        BY <2>2, <3>2 DEF KeptInv, AttestationsUnreplaced
    <2>3. QED
      BY <2>1, <2>2 DEF Accepted, PendingCount, LatestCount
  <1>5. ASSUME PendingOthers, tx.kind # "attest",
               NEW n \in mined[AttestKey]..(Len(sent'[AttestKey]) - 1)
        PROVE  Holder(AttestKey, n)'.kind = "other"
    <2>1. n \in 0..(Len(sent'[AttestKey]) - 1) /\ n >= mined[AttestKey]
      BY <1>1, <1>2
    <2>2. CASE n \in 0..(Len(sent[AttestKey]) - 1) /\ Holder(AttestKey, n)' = Holder(AttestKey, n)
      BY <1>1, <1>5, <2>1, <2>2 DEF PendingOthers
    <2>3. CASE AttestKey = k /\ Holder(AttestKey, n)' = tx
      BY <1>5, <2>3
    <2>4. QED
      BY <1>2, <2>1, <2>2, <2>3
  <1>6. QED
    BY <1>2, <1>3, <1>4, <1>5 DEF PendingOthers

LEMMA SubmitAttestationKept ==
  ASSUME Inv, KeptInv, NEW p \in Payments, SubmitAttestation(p)
  PROVE  KeptInv'
  <1>1. run[p].step = "send" /\ OnlyRun(p)
    BY DEF SubmitAttestation, At, Fail, Goto, OnlyRun, Inv, TypeOK
  <1>2. CASE Accepted(AttestKey, run[p].nonce, Attest(p)) /\ Goto(p, "receipt")
    <2>1. /\ AttestKey \in Keys /\ Attest(p) \in Txs /\ run[p].nonce \in Nat
          /\ Attest(p).kind = "attest" /\ NoncesTypeOK
      BY MonitorAssumption, TxsAssumption DEF Inv, TypeOK, Attest
    <2>2. PendingOthers
      BY <1>1 DEF KeptInv
    <2>3. /\ \A j \in Keys \ {AttestKey} : \A n \in 0..(Len(sent'[j]) - 1) :
                Holder(j, n)'.kind # "attest"
          /\ AttestationsUnreplaced'
      BY <1>2, <2>1, <2>2, KeptSent
    <2>4. ASSUME NEW q \in Payments PROVE run'[q].step \notin {"nonce", "send"}
      <3>1. CASE q = p
        BY <1>2, <3>1, GotoRun, StepNames DEF Inv
      <3>2. CASE q # p
        BY <1>1, <3>2, StepNames DEF Inv, GateInv, GateSteps, OnlyRun
      <3>3. QED
        BY <3>1, <3>2
    <2>5. QED
      BY <2>3, <2>4 DEF KeptInv
  <1>3. CASE UNCHANGED nonceVars /\ run'[p].step \notin {"nonce", "send"}
    BY <1>1, <1>3, KeptMove
  <1>4. ASSUME Rejected(AttestKey, run[p].nonce),
               \/ run' = [run EXCEPT ![p].step = "pending", ![p].attempt = @ + 1]
               \/ Fail(p)
        PROVE  UNCHANGED nonceVars /\ run'[p].step \notin {"nonce", "send"}
    BY <1>4 DEF Rejected, Fail, Idle, Inv, TypeOK
  <1>5. QED
    BY <1>2, <1>3, <1>4 DEF SubmitAttestation

LEMMA SubmitExecutionKept ==
  ASSUME Separate, Inv, KeptInv, NEW p \in Payments, SubmitExecution(p)
  PROVE  KeptInv'
  <1>1. CASE Accepted(ExecuteKey, run[p].nonce, Execute(p)) /\ Goto(p, "execReceipt")
    <2>1. /\ ExecuteKey \in Keys /\ AttestKey \in Keys /\ ExecuteKey # AttestKey
          /\ Execute(p) \in Txs /\ run[p].nonce \in Nat
          /\ Execute(p).kind = "execute" /\ NoncesTypeOK
      BY MonitorAssumption, TxsAssumption DEF Separate, Inv, TypeOK, Execute
    <2>2. /\ \A j \in Keys \ {AttestKey} : \A n \in 0..(Len(sent'[j]) - 1) :
                Holder(j, n)'.kind # "attest"
          /\ AttestationsUnreplaced'
          /\ PendingOthers => PendingOthers'
      BY <1>1, <2>1, KeptSent
    <2>3. OnlyRun(p) /\ run'[p].step = "execReceipt"
      BY <1>1, GotoRun, StepNames DEF Inv
    <2>4. QED
      BY <2>2, <2>3 DEF KeptInv, OnlyRun
  <1>2. CASE Rejected(ExecuteKey, run[p].nonce) /\ Fail(p)
    <2>1. UNCHANGED nonceVars /\ OnlyRun(p) /\ run'[p].step = "idle"
      BY <1>2, IdleRun DEF Rejected, Fail, Inv
    <2>2. QED
      BY <2>1, KeptMove
  <1>3. QED
    BY <1>1, <1>2 DEF SubmitExecution

LEMMA RunStepKept ==
  ASSUME Separate, Inv, KeptInv, NEW p \in Payments, RunStep(p)
  PROVE  KeptInv'
  <1>1. CASE \/ Prepared(p) \/ EnterGate(p) \/ AttestationMined(p) \/ ProofArrived(p)
             \/ Simulate(p) \/ ExecutionMined(p) \/ Finish(p) \/ AwaitRejected(p)
    <2>1. UNCHANGED nonceVars
      BY <1>1 DEF Prepared, EnterGate, AttestationMined, ProofArrived, Simulate,
                  ExecutionMined, Finish, AwaitRejected
    <2>2. \/ \E step \in Steps \ {"nonce", "send"} : Goto(p, step)
          \/ run' = [run EXCEPT ![p] = Idle]
      BY <1>1, StepNames DEF Prepared, EnterGate, AttestationMined, ProofArrived, Simulate,
                  ExecutionMined, Finish, AwaitRejected, Fail
    <2>3. OnlyRun(p) /\ run'[p].step \notin {"nonce", "send"}
      BY <2>2, GotoRun, IdleRun DEF Inv
    <2>4. QED
      BY <2>1, <2>3, KeptMove
  <1>2. CASE PendingCleared(p)
    <2>1. UNCHANGED nonceVars /\ OnlyRun(p)
      BY <1>2, GotoRun, StepNames DEF PendingCleared, Inv
    <2>2. Len(sent[AttestKey]) <= mined[AttestKey] /\ mined[AttestKey] \in Nat
          /\ Len(sent[AttestKey]) \in Nat
      BY <1>2, MonitorAssumption
         DEF PendingCleared, PendingCount, LatestCount, Inv, TypeOK, NoncesTypeOK
    <2>3. PendingOthers
      BY <2>2 DEF PendingOthers
    <2>4. QED
      BY <2>1, <2>3, KeptMove
  <1>3. CASE ReadNonce(p, "nonce", AttestKey, "send")
    <2>1. UNCHANGED nonceVars /\ OnlyRun(p) /\ run[p].step = "nonce"
      BY <1>3 DEF ReadNonce, At, OnlyRun, Inv, TypeOK
    <2>2. PendingOthers
      BY <2>1 DEF KeptInv
    <2>3. QED
      BY <2>1, <2>2, KeptMove
  <1>4. CASE ReadNonce(p, "execNonce", ExecuteKey, "execSend")
    <2>1. UNCHANGED nonceVars /\ OnlyRun(p) /\ run'[p].step = "execSend"
      BY <1>4 DEF ReadNonce, OnlyRun, Inv, TypeOK
    <2>2. QED
      BY <2>1, KeptMove
  <1>5. QED
    BY <1>1, <1>2, <1>3, <1>4, SubmitAttestationKept, SubmitExecutionKept DEF RunStep

LEMMA CallKept ==
  ASSUME Inv, KeptInv, NEW p \in Payments, PaymentSeen(p) \/ PostProcess(p)
  PROVE  KeptInv'
  <1>1. UNCHANGED nonceVars
    BY DEF PaymentSeen, PostProcess, Call
  <1>2. OnlyRun(p) /\ (run'[p].step \in {"nonce", "send"} => run'[p].step = run[p].step)
    BY CallOutcome
  <1>3. run'[p].step \in {"nonce", "send"} => PendingOthers
    BY <1>2 DEF KeptInv
  <1>4. QED
    BY <1>1, <1>2, <1>3, KeptMove

LEMMA OthersKept ==
  ASSUME Separate, Inv, KeptInv, NEW k \in Keys, OtherSends(k), UNCHANGED monitorVars
  PROVE  KeptInv'
  <1>1. PICK tx \in Others, nonce \in 0..PendingCount(k) : Accepted(k, nonce, tx)
    BY DEF OtherSends
  <1>2. /\ tx \in Txs /\ nonce \in Nat /\ tx.kind = "other"
        /\ AttestKey \in Keys /\ NoncesTypeOK
    BY NoncesAssumption, MonitorAssumption
       DEF Separate, Inv, TypeOK, NoncesTypeOK, PendingCount
  <1>3. /\ \A j \in Keys \ {AttestKey} : \A n \in 0..(Len(sent'[j]) - 1) :
              Holder(j, n)'.kind # "attest"
        /\ AttestationsUnreplaced'
        /\ PendingOthers => PendingOthers'
    BY <1>1, <1>2, KeptSent
  <1>4. QED
    BY <1>3 DEF KeptInv, monitorVars

LEMMA BlockKept == ASSUME Inv, KeptInv, NEW k \in Keys, BlockMined(k) PROVE KeptInv'
  <1>1. /\ sent' = sent /\ replaced' = replaced /\ run' = run
        /\ mined' = [mined EXCEPT ![k] = @ + 1]
    BY DEF BlockMined, Mine
  <1>2. /\ AttestKey \in Keys /\ mined[AttestKey] \in Nat /\ Len(sent[AttestKey]) \in Nat
        /\ mined \in [Keys -> Nat]
    BY MonitorAssumption DEF Inv, TypeOK, NoncesTypeOK
  <1>3. mined'[AttestKey] \in Nat /\ mined'[AttestKey] >= mined[AttestKey]
    BY <1>1, <1>2
  <1>4. PendingOthers => PendingOthers'
    BY <1>1, <1>2, <1>3 DEF PendingOthers, Holder
  <1>5. QED
    BY <1>1, <1>4 DEF KeptInv, Holder, AttestationsUnreplaced

LEMMA NextKept ==
  ASSUME Separate, Inv, KeptInv, [Next]_vars
  PROVE  KeptInv'
  <1>1. CASE CrashAndRestart
    <2>1. UNCHANGED nonceVars /\ \A p \in Payments : run'[p].step = "idle"
      BY <1>1 DEF CrashAndRestart, Idle
    <2>2. QED
      BY <2>1, KeptQuiet
  <1>2. CASE UNCHANGED vars
    <2>1. UNCHANGED nonceVars /\ run' = run
      BY <1>2 DEF vars, monitorVars
    <2>2. QED
      BY <2>1, KeptQuiet DEF KeptInv
  <1>3. QED
    BY <1>1, <1>2, RunStepKept, CallKept, OthersKept, BlockKept DEF Next

-----------------------------------------------------------------------------
(* The theorems. *)

LEMMA Invariant == Spec => []Inv
  BY InitInv, NextInv, PTL DEF Spec

\* Types hold for any payments, keys and bounds.
THEOREM MonitorTypes == Spec => []TypeOK
  BY Invariant, PTL DEF Inv

\* One request at a time uses the attestation key, the head of the gate's, for any
\* number of payments, failures and crashes.
THEOREM OneRequestAtATime == Spec => []GateHeldByHead
  <1>1. Inv => GateHeldByHead
    BY DEF Inv, TypeOK, GateInv, GateHeldByHead
  <1>2. QED
    BY <1>1, Invariant, PTL

\* Without a crash, a payment without a run is shown as active or failed.
THEOREM NoStatusLeftBehind == Spec => []IdleMeansTerminal
  BY Invariant, PTL DEF Inv, IdleInv

\* An address is active only for an executed payment, or for one whose execution
\* lost its nonce to another transaction.
THEOREM ActiveOnlyWhenDone == Spec => []ActiveUnlessReplaced
  BY Invariant, PTL DEF Inv, DoneInv

\* Where executions go out from a key of their own, no attestation loses its nonce to
\* another transaction of the monitor, whatever fails, crashes or is sent by others.
THEOREM AttestationsKept == ASSUME Separate PROVE Spec => []AttestationsUnreplaced
  <1>1. Init => KeptInv
    BY MonitorAssumption, StepNames
       DEF Init, NoncesInit, KeptInv, AttestationsUnreplaced, Idle
  <1>2. Inv /\ KeptInv /\ [Next]_vars => KeptInv'
    BY NextKept
  <1>3. KeptInv => AttestationsUnreplaced
    BY DEF KeptInv
  <1>4. QED
    BY <1>1, <1>2, <1>3, Invariant, PTL DEF Spec

=============================================================================
