------------------------------ MODULE ServerProofs ------------------------------
(***************************************************************************)
(* Proofs about ExtensionServer.  What waits on the promise chain is the   *)
(* end of what has arrived; everything before it has settled, and only the *)
(* chain's head may run.  From that: one handler at a time, answers that   *)
(* count what arrived before them, and an outcome log in arrival order.    *)
(***************************************************************************)
EXTENDS ExtensionServer, FiniteSetTheorems, TLAPS

-----------------------------------------------------------------------------
(* The chain. *)

\* How many of the arrived requests have left the chain.
Done == Len(arrived) - Len(queue)

ServerTypes ==
    /\ process \in {"up", "closing", "dying", "down"}
    /\ phase \in [Requests -> Phases]
    /\ queue \in Seq(Requests)
    /\ counts \in [Counted -> Nat]
    /\ outcomes \in Seq(Requests)
    /\ answer \in [Requests -> [Counted -> Nat]]
    /\ stops \in Nat
    /\ arrived \in Seq(Requests)
    /\ matched \in Seq(Requests)
    /\ failed \in SUBSET Requests

ChainInv ==
    /\ Len(queue) <= Len(arrived)
    /\ \A i \in 1..Len(queue) : queue[i] = arrived[Done + i]
    /\ \A i, j \in 1..Len(arrived) : arrived[i] = arrived[j] => i = j
    /\ \A i \in 1..Len(arrived) : Kind[arrived[i]] # "immediate"
    /\ \A i \in 1..Done : phase[arrived[i]] \in {"answered", "lost"}
    /\ \A i \in 1..Len(queue) :
          phase[queue[i]] = "queued" \/ (i = 1 /\ phase[queue[i]] = "running")
    /\ \A r \in Requests :
          phase[r] \in {"queued", "running"} => \E i \in 1..Len(queue) : queue[i] = r

\* The kinds of steps on the chain.
Enters(r) ==
    /\ phase[r] = "new" /\ Kind[r] # "immediate"
    /\ phase' = [phase EXCEPT ![r] = "queued"]
    /\ queue' = Append(queue, r)
    /\ arrived' = Append(arrived, r)

Bypasses(r) ==
    /\ phase[r] = "new"
    /\ phase' = [phase EXCEPT ![r] = "answered"]
    /\ UNCHANGED <<queue, arrived>>

Begins(r) ==
    /\ phase[r] = "queued" /\ r = queue[1]
    /\ phase' = [phase EXCEPT ![r] = "running"]
    /\ UNCHANGED <<queue, arrived>>

Leaves(r, p) ==
    /\ phase[r] = "running" \/ (phase[r] = "queued" /\ r = queue[1])
    /\ phase' = [phase EXCEPT ![r] = p]
    /\ queue' = Tail(queue)
    /\ UNCHANGED arrived

\* Whoever runs or has its turn is the head, the next of the arrived requests.
LEMMA HeadLeaves ==
  ASSUME ServerTypes, ChainInv, NEW r \in Requests,
         phase[r] = "running" \/ (phase[r] = "queued" /\ r = queue[1])
  PROVE  /\ Len(queue) >= 1 /\ r = queue[1]
         /\ Done \in Nat /\ Done + 1 \in 1..Len(arrived) /\ arrived[Done + 1] = r
  <1>1. PICK i \in 1..Len(queue) : queue[i] = r
    BY DEF ChainInv
  <1>2. Len(queue) \in Nat /\ Len(arrived) \in Nat /\ Len(queue) >= 1 /\ 1 \in 1..Len(queue)
    BY <1>1 DEF ServerTypes
  <1>3. r = queue[1]
    BY <1>1 DEF ChainInv
  <1>4. Done \in Nat /\ Done + 1 \in 1..Len(arrived)
    BY <1>2 DEF Done, ChainInv
  <1> QED
    BY <1>2, <1>3, <1>4 DEF ChainInv

LEMMA EnterChain ==
  ASSUME ServerTypes, ServerTypes', ChainInv, NEW r \in Requests, Enters(r)
  PROVE  ChainInv' /\ Done' = Done
  <1>1. /\ Len(queue) \in Nat /\ Len(arrived) \in Nat
        /\ Len(queue') = Len(queue) + 1 /\ Len(arrived') = Len(arrived) + 1
        /\ \A i \in 1..Len(queue) : queue'[i] = queue[i]
        /\ \A i \in 1..Len(arrived) : arrived'[i] = arrived[i]
        /\ queue'[Len(queue) + 1] = r /\ arrived'[Len(arrived) + 1] = r
    BY DEF ServerTypes, Enters
  <1>2. Done' = Done /\ Done \in Nat /\ Done + Len(queue) = Len(arrived)
    BY <1>1 DEF Done, ChainInv
  <1>3. \A i \in 1..Len(queue) : queue[i] \in Requests
    BY DEF ServerTypes
  <1>4. \A i \in 1..Len(arrived) : arrived[i] \in Requests /\ phase[arrived[i]] # "new"
    <2> SUFFICES ASSUME NEW i \in 1..Len(arrived)
                 PROVE  arrived[i] \in Requests /\ phase[arrived[i]] # "new"
      OBVIOUS
    <2>1. arrived[i] \in Requests
      BY DEF ServerTypes
    <2>2. CASE i \in 1..Done
      BY <2>1, <2>2 DEF ChainInv
    <2>3. CASE i \notin 1..Done
      <3>1. i - Done \in 1..Len(queue) /\ Done + (i - Done) = i
        BY <1>1, <1>2, <2>3
      <3>2. queue[i - Done] = arrived[i]
        BY <3>1 DEF ChainInv
      <3>3. phase[queue[i - Done]] \in {"queued", "running"}
        BY <3>1 DEF ChainInv
      <3> QED
        BY <2>1, <3>2, <3>3
    <2> QED
      BY <2>2, <2>3
  <1>5. \A q \in Requests : q # r => phase'[q] = phase[q]
    BY DEF Enters, ServerTypes
  <1>6. phase'[r] = "queued" /\ phase[r] = "new"
    BY DEF Enters, ServerTypes
  <1>7. \A i \in 1..Len(arrived) : arrived[i] # r
    BY <1>4, <1>6
  <1>8. \A i \in 1..Len(queue') : queue'[i] = arrived'[Done' + i]
    <2> SUFFICES ASSUME NEW i \in 1..Len(queue') PROVE queue'[i] = arrived'[Done + i]
      BY <1>2
    <2>1. CASE i \in 1..Len(queue)
      <3>1. Done + i \in 1..Len(arrived)
        BY <1>1, <1>2, <2>1
      <3> QED
        BY <1>1, <2>1, <3>1 DEF ChainInv
    <2>2. CASE i \notin 1..Len(queue)
      <3>1. i = Len(queue) + 1 /\ Done + i = Len(arrived) + 1
        <4>1. PICK n \in Nat : n = Len(queue) /\ Len(queue') = n + 1
          BY <1>1
        <4>2. i = n + 1
          BY <2>2, <4>1
        <4> QED
          BY <1>2, <4>1, <4>2
      <3>2. queue'[Len(queue) + 1] = r /\ arrived'[Len(arrived) + 1] = r
        BY <1>1
      <3> QED
        BY <3>1, <3>2, Zenon
    <2> QED
      BY <2>1, <2>2
  <1>9. \A i, j \in 1..Len(arrived') : arrived'[i] = arrived'[j] => i = j
    <2> SUFFICES ASSUME NEW i \in 1..Len(arrived'), NEW j \in 1..Len(arrived'),
                        arrived'[i] = arrived'[j]
                 PROVE  i = j
      OBVIOUS
    <2>1. (i \in 1..Len(arrived) \/ i = Len(arrived) + 1) /\ (j \in 1..Len(arrived) \/ j = Len(arrived) + 1)
      BY <1>1
    <2> QED
      BY <2>1, <1>1, <1>7 DEF ChainInv
  <1>10. \A i \in 1..Len(arrived') : Kind[arrived'[i]] # "immediate"
    BY <1>1 DEF ChainInv, Enters
  <1>11. \A i \in 1..Done' : phase'[arrived'[i]] \in {"answered", "lost"}
    <2> SUFFICES ASSUME NEW i \in 1..Done PROVE phase'[arrived'[i]] \in {"answered", "lost"}
      BY <1>2
    <2>1. i \in 1..Len(arrived)
      BY <1>1, <1>2
    <2> QED
      BY <2>1, <1>1, <1>4, <1>5, <1>7 DEF ChainInv
  <1>12. \A i \in 1..Len(queue') :
            phase'[queue'[i]] = "queued" \/ (i = 1 /\ phase'[queue'[i]] = "running")
    <2> SUFFICES ASSUME NEW i \in 1..Len(queue')
                 PROVE  phase'[queue'[i]] = "queued" \/ (i = 1 /\ phase'[queue'[i]] = "running")
      OBVIOUS
    <2>1. CASE i \in 1..Len(queue)
      <3>1. queue[i] # r
        BY <2>1, <1>6 DEF ChainInv
      <3> QED
        BY <2>1, <3>1, <1>1, <1>3, <1>5 DEF ChainInv
    <2>2. CASE i \notin 1..Len(queue)
      BY <1>1, <1>6, <2>2
    <2> QED
      BY <2>1, <2>2
  <1>13. \A q \in Requests :
            phase'[q] \in {"queued", "running"} => \E i \in 1..Len(queue') : queue'[i] = q
    <2> SUFFICES ASSUME NEW q \in Requests, phase'[q] \in {"queued", "running"}
                 PROVE  \E i \in 1..Len(queue') : queue'[i] = q
      OBVIOUS
    <2>1. CASE q = r
      BY <1>1, <2>1
    <2>2. CASE q # r
      <3>1. PICK i \in 1..Len(queue) : queue[i] = q
        BY <2>2, <1>5 DEF ChainInv
      <3>2. i \in 1..Len(queue') /\ queue'[i] = q
        BY <3>1, <1>1
      <3> QED
        BY <3>2
    <2> QED
      BY <2>1, <2>2
  <1>14. Len(queue') <= Len(arrived')
    BY <1>1 DEF ChainInv
  <1> QED
    BY <1>2, <1>8, <1>9, <1>10, <1>11, <1>12, <1>13, <1>14 DEF ChainInv

LEMMA BypassChain ==
  ASSUME ServerTypes, ChainInv, NEW r \in Requests, Bypasses(r)
  PROVE  ChainInv' /\ Done' = Done
  <1>1. \A i \in 1..Len(queue) : queue[i] \in Requests /\ queue[i] # r
    <2>1. \A i \in 1..Len(queue) : queue[i] \in Requests
      BY DEF ServerTypes
    <2>2. \A i \in 1..Len(queue) : phase[queue[i]] # "new"
      BY DEF ChainInv
    <2> QED
      BY <2>1, <2>2 DEF Bypasses
  <1>2. Len(queue) \in Nat /\ Len(arrived) \in Nat
    BY DEF ServerTypes
  <1>3. \A i \in 1..Done : i \in 1..Len(arrived) /\ arrived[i] \in Requests /\ arrived[i] # r
    <2> SUFFICES ASSUME NEW i \in 1..Done
                 PROVE  i \in 1..Len(arrived) /\ arrived[i] \in Requests /\ arrived[i] # r
      OBVIOUS
    <2>1. i \in 1..Len(arrived)
      BY <1>2 DEF Done
    <2>2. phase[arrived[i]] # "new"
      BY DEF ChainInv
    <2> QED
      BY <2>1, <2>2 DEF ServerTypes, Bypasses
  <1>4. \A q \in Requests : q # r => phase'[q] = phase[q]
    BY DEF Bypasses, ServerTypes
  <1>5. phase'[r] = "answered"
    BY DEF Bypasses, ServerTypes
  <1>6. queue' = queue /\ arrived' = arrived /\ Done' = Done
    BY DEF Bypasses, Done
  <1>7. \A i \in 1..Done : phase'[arrived[i]] \in {"answered", "lost"}
    BY <1>3, <1>4 DEF ChainInv
  <1>8. \A i \in 1..Len(queue) :
           phase'[queue[i]] = "queued" \/ (i = 1 /\ phase'[queue[i]] = "running")
    BY <1>1, <1>4 DEF ChainInv
  <1>9. \A q \in Requests :
           phase'[q] \in {"queued", "running"} => \E i \in 1..Len(queue) : queue[i] = q
    BY <1>4, <1>5 DEF ChainInv
  <1> QED
    BY <1>6, <1>7, <1>8, <1>9 DEF ChainInv

LEMMA BeginChain ==
  ASSUME ServerTypes, ChainInv, NEW r \in Requests, Begins(r)
  PROVE  ChainInv' /\ Done' = Done
  <1>1. Len(queue) >= 1 /\ r = queue[1] /\ Done \in Nat /\ arrived[Done + 1] = r
           /\ Done + 1 \in 1..Len(arrived)
    BY HeadLeaves DEF Begins
  <1>2. Len(queue) \in Nat /\ Len(arrived) \in Nat
    BY DEF ServerTypes
  <1>3. \A q \in Requests : q # r => phase'[q] = phase[q]
    BY DEF Begins, ServerTypes
  <1>4. phase'[r] = "running"
    BY DEF Begins, ServerTypes
  <1>5. queue' = queue /\ arrived' = arrived /\ Done' = Done
    BY DEF Begins, Done
  <1>6. \A i \in 1..Done : phase'[arrived[i]] \in {"answered", "lost"}
    <2> SUFFICES ASSUME NEW i \in 1..Done PROVE phase'[arrived[i]] \in {"answered", "lost"}
      OBVIOUS
    <2>1. i \in 1..Len(arrived) /\ i # Done + 1
      BY <1>1, <1>2 DEF Done
    <2>2. arrived[i] \in Requests /\ arrived[i] # r
      BY <2>1, <1>1 DEF ServerTypes, ChainInv
    <2> QED
      BY <2>1, <2>2, <1>3 DEF ChainInv
  <1>7. \A i \in 1..Len(queue) :
           phase'[queue[i]] = "queued" \/ (i = 1 /\ phase'[queue[i]] = "running")
    <2> SUFFICES ASSUME NEW i \in 1..Len(queue), i # 1
                 PROVE  phase'[queue[i]] = "queued"
      BY <1>1, <1>4
    <2>1. Done + i \in 1..Len(arrived) /\ Done + i # Done + 1
      BY <1>1, <1>2 DEF Done
    <2>2. queue[i] \in Requests /\ queue[i] # r
      BY <2>1, <1>1 DEF ServerTypes, ChainInv
    <2> QED
      BY <2>2, <1>3 DEF ChainInv
  <1>8. \A q \in Requests :
           phase'[q] \in {"queued", "running"} => \E i \in 1..Len(queue) : queue[i] = q
    <2>1. 1 \in 1..Len(queue)
      BY <1>1, <1>2
    <2> QED
      BY <1>1, <1>3, <2>1 DEF ChainInv
  <1> QED
    BY <1>5, <1>6, <1>7, <1>8 DEF ChainInv

LEMMA LeaveTheChain ==
  ASSUME ServerTypes, ServerTypes', ChainInv, NEW r \in Requests,
         NEW p \in {"answered", "lost"}, Leaves(r, p)
  PROVE  ChainInv' /\ Done' = Done + 1
  <1>1. Len(queue) >= 1 /\ r = queue[1] /\ Done \in Nat /\ arrived[Done + 1] = r
           /\ Done + 1 \in 1..Len(arrived)
    BY HeadLeaves DEF Leaves
  <1>2. Len(queue) \in Nat /\ Len(arrived) \in Nat
    BY DEF ServerTypes
  <1>3. Len(queue') = Len(queue) - 1 /\ \A i \in 1..Len(queue') : queue'[i] = queue[i + 1]
    BY <1>1, <1>2 DEF ServerTypes, Leaves
  <1>4. \A q \in Requests : q # r => phase'[q] = phase[q]
    BY DEF Leaves, ServerTypes
  <1>5. phase'[r] = p
    BY DEF Leaves, ServerTypes
  <1>6. arrived' = arrived /\ Done' = Done + 1
    <2>1. arrived' = arrived
      BY DEF Leaves
    <2>2. Done' = Len(arrived) - (Len(queue) - 1)
      BY <2>1, <1>3 DEF Done
    <2> QED
      BY <2>1, <2>2, <1>2 DEF Done
  <1>7. \A i \in 1..Done' : phase'[arrived[i]] \in {"answered", "lost"}
    <2> SUFFICES ASSUME NEW i \in 1..(Done + 1) PROVE phase'[arrived[i]] \in {"answered", "lost"}
      BY <1>6
    <2>1. CASE i = Done + 1
      BY <2>1, <1>1, <1>5
    <2>2. CASE i # Done + 1
      <3>1. i \in 1..Len(arrived) /\ i \in 1..Done
        BY <1>1, <1>2, <2>2 DEF Done
      <3>2. arrived[i] \in Requests /\ arrived[i] # r
        BY <3>1, <2>2, <1>1 DEF ServerTypes, ChainInv
      <3> QED
        BY <3>1, <3>2, <1>4 DEF ChainInv
    <2> QED
      BY <2>1, <2>2
  <1>8. \A i \in 1..Len(queue') : /\ queue'[i] = arrived[Done' + i]
                                  /\ phase'[queue'[i]] = "queued"
    <2> SUFFICES ASSUME NEW i \in 1..Len(queue')
                 PROVE  queue'[i] = arrived[Done + 1 + i] /\ phase'[queue'[i]] = "queued"
      BY <1>6
    <2>1. /\ i + 1 \in 1..Len(queue) /\ i + 1 # 1 /\ Done + (i + 1) = Done + 1 + i
          /\ Done + (i + 1) \in 1..Len(arrived) /\ Done + (i + 1) # Done + 1
      <3>1. i + 1 \in 1..Len(queue) /\ i \in Nat /\ i >= 1
        BY <1>1, <1>2, <1>3
      <3>2. Done + Len(queue) = Len(arrived)
        BY <1>2 DEF Done
      <3>3. PICK d \in Nat, q \in Nat : d = Done /\ q = Len(queue) /\ d + q = Len(arrived)
        BY <3>2, <1>1, <1>2
      <3>4. i + 1 <= q
        BY <3>1, <3>3
      <3>5. /\ i + 1 # 1 /\ d + (i + 1) = d + 1 + i /\ d + (i + 1) # d + 1
            /\ d + (i + 1) \in 1..(d + q)
        BY <3>1, <3>4
      <3> QED
        BY <3>1, <3>3, <3>5, Zenon
    <2>2. queue'[i] = arrived[Done + 1 + i]
      BY <2>1, <1>3 DEF ChainInv
    <2>3. queue[i + 1] \in Requests /\ queue[i + 1] # r
      <3>1. queue[i + 1] \in Requests
        BY <2>1 DEF ServerTypes
      <3>2. queue[i + 1] = arrived[Done + (i + 1)]
        BY <2>1 DEF ChainInv
      <3> QED
        BY <3>1, <3>2, <2>1, <1>1 DEF ChainInv
    <2>4. phase[queue[i + 1]] = "queued"
      BY <2>1 DEF ChainInv
    <2> QED
      BY <2>2, <2>3, <2>4, <1>3, <1>4
  <1>9. \A q \in Requests :
           phase'[q] \in {"queued", "running"} => \E i \in 1..Len(queue') : queue'[i] = q
    <2> SUFFICES ASSUME NEW q \in Requests, phase'[q] \in {"queued", "running"}
                 PROVE  \E i \in 1..Len(queue') : queue'[i] = q
      OBVIOUS
    <2>1. q # r
      BY <1>5
    <2>2. PICK i \in 1..Len(queue) : queue[i] = q
      BY <2>1, <1>4 DEF ChainInv
    <2>3. i - 1 \in 1..Len(queue') /\ queue'[i - 1] = queue[(i - 1) + 1] /\ (i - 1) + 1 = i
      BY <2>1, <2>2, <1>1, <1>2, <1>3
    <2> QED
      BY <2>2, <2>3
  <1>10. Len(queue') <= Len(arrived)
    BY <1>2, <1>3 DEF ChainInv
  <1> QED
    BY <1>6, <1>7, <1>8, <1>9, <1>10 DEF ChainInv

-----------------------------------------------------------------------------
(* Answers. *)

\* What the j first arrivals put into a count.
Upto(j, c) == {i \in 1..j : Kind[arrived[i]] = c /\ arrived[i] \notin failed}

\* The counts a request is answered with.
Asked(r) == IF Kind[r] = "state" THEN Counted ELSE {Kind[r]} \cap Counted

AnswerInv ==
    /\ \A r \in failed : phase[r] = "answered"
    /\ \A r \in Requests : phase[r] = "running" => Kind[r] = "match"
    /\ \A c \in Counted : counts[c] = Cardinality(Upto(Done, c))
    /\ \A j \in 1..Done : phase[arrived[j]] = "answered" /\ arrived[j] \notin failed =>
          \A c \in Asked(arrived[j]) : answer[arrived[j]][c] = Cardinality(Upto(j, c))

LEMMA DoneNat ==
  ASSUME ServerTypes, ChainInv
  PROVE  /\ Done \in Nat /\ \A i \in 1..Done : i \in 1..Len(arrived) /\ arrived[i] \in Requests
  <1>1. Len(queue) \in Nat /\ Len(arrived) \in Nat
    BY DEF ServerTypes
  <1>2. Done \in Nat /\ Done <= Len(arrived)
    BY <1>1 DEF Done, ChainInv
  <1>3. \A i \in 1..Len(arrived) : arrived[i] \in Requests
    BY DEF ServerTypes
  <1> QED
    BY <1>1, <1>2, <1>3

LEMMA UptoKept ==
  ASSUME NEW j \in Nat, NEW c,
         \A i \in 1..j : /\ arrived'[i] = arrived[i]
                         /\ arrived[i] \in failed' <=> arrived[i] \in failed
  PROVE  Upto(j, c)' = Upto(j, c)
  BY DEF Upto

\* Steps that settle nothing.
LEMMA AnswersKept ==
  ASSUME ServerTypes, ChainInv, AnswerInv, Done' = Done,
         \A i \in 1..Done : arrived'[i] = arrived[i] /\ phase'[arrived[i]] = phase[arrived[i]],
         \A r \in failed : phase'[r] = phase[r],
         \A r \in Requests : phase'[r] = "running" => Kind[r] = "match",
         UNCHANGED <<counts, answer, failed>>
  PROVE  AnswerInv'
  <1>1. Done \in Nat
    BY DoneNat
  <1>2. \A j \in 0..Done, c \in Counted : Upto(j, c)' = Upto(j, c)
    <2> SUFFICES ASSUME NEW j \in 0..Done, NEW c \in Counted PROVE Upto(j, c)' = Upto(j, c)
      OBVIOUS
    <2>1. j \in Nat /\ \A i \in 1..j : i \in 1..Done
      BY <1>1
    <2> QED
      BY <2>1, UptoKept
  <1>3. \A c \in Counted : counts'[c] = Cardinality(Upto(Done, c)')
    BY <1>1, <1>2 DEF AnswerInv
  <1>4. \A j \in 1..Done : phase'[arrived'[j]] = "answered" /\ arrived'[j] \notin failed' =>
           \A c \in Asked(arrived'[j]) : answer'[arrived'[j]][c] = Cardinality(Upto(j, c)')
    <2> SUFFICES ASSUME NEW j \in 1..Done, phase'[arrived'[j]] = "answered",
                        arrived'[j] \notin failed', NEW c \in Asked(arrived'[j])
                 PROVE  answer'[arrived'[j]][c] = Cardinality(Upto(j, c)')
      OBVIOUS
    <2>1. c \in Counted /\ j \in 0..Done
      BY <1>1 DEF Asked
    <2> QED
      BY <2>1, <1>2 DEF AnswerInv
  <1>5. Upto(Done, "hello")' = Upto(Done, "hello") /\ Upto(Done, "goodbye")' = Upto(Done, "goodbye")
    BY <1>1, <1>2 DEF Counted
  <1>6. AnswerInv' <=>
           /\ \A r \in failed' : phase'[r] = "answered"
           /\ \A r \in Requests : phase'[r] = "running" => Kind[r] = "match"
           /\ \A c \in Counted : counts'[c] = Cardinality({i \in 1..Done' :
                  Kind[arrived'[i]] = c /\ arrived'[i] \notin failed'})
           /\ \A j \in 1..Done' : phase'[arrived'[j]] = "answered" /\ arrived'[j] \notin failed' =>
                 \A c \in Asked(arrived'[j]) : answer'[arrived'[j]][c] = Cardinality(Upto(j, c)')
    BY DEF AnswerInv, Upto, Asked
  <1>7. \A c \in Counted : counts'[c] = Cardinality({i \in 1..Done' :
            Kind[arrived'[i]] = c /\ arrived'[i] \notin failed'})
    BY <1>3 DEF Upto
  <1> QED
    BY <1>4, <1>6, <1>7 DEF AnswerInv

\* The head settles: it enters a count, or it is refused, or it counts for nothing.
LEMMA AnswerLeaves ==
  ASSUME ServerTypes, ServerTypes', ChainInv, AnswerInv, NEW r \in Requests,
         NEW p \in {"answered", "lost"}, Leaves(r, p), Done' = Done + 1,
         failed' = failed \/ (failed' = failed \cup {r} /\ p = "answered"),
         \A c \in Counted :
            counts'[c] = counts[c] + (IF Kind[r] = c /\ r \notin failed' THEN 1 ELSE 0),
         p = "answered" /\ r \notin failed' => \A c \in Asked(r) : answer'[r][c] = counts'[c],
         \A q \in Requests \ {r} : answer'[q] = answer[q]
  PROVE  AnswerInv'
  <1>1. Done \in Nat /\ Done + 1 \in 1..Len(arrived) /\ arrived[Done + 1] = r
    BY HeadLeaves DEF Leaves
  <1>2. \A q \in Requests : q # r => phase'[q] = phase[q]
    BY DEF Leaves, ServerTypes
  <1>3. phase'[r] = p /\ arrived' = arrived
    BY DEF Leaves, ServerTypes
  <1>4. r \notin failed
    BY DEF Leaves, AnswerInv
  <1>5. \A i \in 1..Done : i \in 1..Len(arrived) /\ arrived[i] \in Requests /\ arrived[i] # r
    <2> SUFFICES ASSUME NEW i \in 1..Done
                 PROVE  i \in 1..Len(arrived) /\ arrived[i] \in Requests /\ arrived[i] # r
      OBVIOUS
    <2>1. i \in 1..Len(arrived) /\ arrived[i] \in Requests /\ i # Done + 1
      BY <1>1, DoneNat
    <2> QED
      BY <2>1, <1>1 DEF ChainInv
  <1> PICK n \in Nat : n = Done
    BY <1>1
  <1>6. \A j \in 0..n, c \in Counted : Upto(j, c)' = Upto(j, c)
    <2> SUFFICES ASSUME NEW j \in 0..n, NEW c \in Counted PROVE Upto(j, c)' = Upto(j, c)
      OBVIOUS
    <2>1. j \in Nat /\ \A i \in 1..j : i \in 1..Done
      BY <1>1
    <2>2. \A i \in 1..j : arrived'[i] = arrived[i] /\ (arrived[i] \in failed' <=> arrived[i] \in failed)
      BY <2>1, <1>3, <1>5
    <2> QED
      BY <2>1, <2>2, UptoKept
  <1>7. \A c \in Counted : Cardinality(Upto(n + 1, c)') = counts'[c]
    <2> SUFFICES ASSUME NEW c \in Counted PROVE Cardinality(Upto(n + 1, c)') = counts'[c]
      OBVIOUS
    <2>1. Upto(n, c)' = Upto(n, c) /\ counts[c] = Cardinality(Upto(n, c))
      <3>1. n \in 0..n
        OBVIOUS
      <3> QED
        BY <3>1, <1>6 DEF AnswerInv
    <2>2. Upto(n, c) \subseteq 1..n
      BY DEF Upto
    <2>3. IsFiniteSet(Upto(n, c)) /\ Cardinality(Upto(n, c)) \in Nat
      <3> 1 \in Int /\ n \in Int
        OBVIOUS
      <3>1. IsFiniteSet(1..n)
        BY FS_Interval, Zenon
      <3>2. IsFiniteSet(Upto(n, c))
        BY <3>1, <2>2, FS_Subset
      <3> QED
        BY <3>2, FS_CardinalityType
    <2>4. Upto(n + 1, c)' = {i \in 1..(n + 1) : Kind[arrived[i]] = c /\ arrived[i] \notin failed'}
      BY <1>3 DEF Upto
    <2>5. Upto(n, c)' = {i \in 1..n : Kind[arrived[i]] = c /\ arrived[i] \notin failed'}
      BY <1>3 DEF Upto
    <2>6. 1..(n + 1) = 1..n \cup {n + 1} /\ n + 1 \notin 1..n /\ arrived[n + 1] = r
      BY <1>1
    <2>7. CASE Kind[r] = c /\ r \notin failed'
      <3>1. Upto(n + 1, c)' = Upto(n, c)' \cup {n + 1}
        BY <2>4, <2>5, <2>6, <2>7
      <3>2. n + 1 \notin Upto(n, c)
        BY <2>2, <2>6
      <3>3. Cardinality(Upto(n, c) \cup {n + 1}) = Cardinality(Upto(n, c)) + 1
        BY <2>3, <3>2, FS_AddElement
      <3> QED
        BY <3>1, <3>3, <2>1, <2>7
    <2>8. CASE ~(Kind[r] = c /\ r \notin failed')
      <3>1. Upto(n + 1, c)' = Upto(n, c)'
        BY <2>4, <2>5, <2>6, <2>8
      <3>2. counts'[c] = counts[c] + 0 /\ counts[c] \in Nat
        BY <2>1, <2>3, <2>8
      <3> QED
        BY <3>1, <3>2, <2>1
    <2> QED
      BY <2>7, <2>8
  <1>8. \A q \in failed' : phase'[q] = "answered"
    BY <1>2, <1>3, <1>4 DEF AnswerInv, ServerTypes
  <1>9. \A q \in Requests : phase'[q] = "running" => Kind[q] = "match"
    BY <1>2, <1>3 DEF AnswerInv
  <1>10. \A j \in 1..(n + 1) : phase'[arrived[j]] = "answered" /\ arrived[j] \notin failed' =>
            \A c \in Asked(arrived[j]) : answer'[arrived[j]][c] = Cardinality(Upto(j, c)')
    <2> SUFFICES ASSUME NEW j \in 1..(n + 1), phase'[arrived[j]] = "answered",
                        arrived[j] \notin failed', NEW c \in Asked(arrived[j])
                 PROVE  answer'[arrived[j]][c] = Cardinality(Upto(j, c)')
      OBVIOUS
    <2>1. c \in Counted
      BY DEF Asked
    <2>2. CASE j = n + 1
      BY <2>1, <2>2, <1>1, <1>3, <1>7
    <2>3. CASE j # n + 1
      <3>1. j \in 1..n /\ j \in 0..n
        BY <1>1, <2>3
      <3>2. arrived[j] \in Requests \ {r}
        BY <3>1, <1>5
      <3>3. phase[arrived[j]] = "answered" /\ arrived[j] \notin failed
        BY <3>2, <1>2
      <3>4. answer[arrived[j]][c] = Cardinality(Upto(j, c))
        BY <3>1, <3>3 DEF AnswerInv
      <3> QED
        BY <3>1, <3>2, <3>4, <2>1, <1>6
    <2> QED
      BY <2>2, <2>3
  <1>11. AnswerInv' <=>
           /\ \A q \in failed' : phase'[q] = "answered"
           /\ \A q \in Requests : phase'[q] = "running" => Kind[q] = "match"
           /\ \A c \in Counted : counts'[c] = Cardinality({i \in 1..Done' :
                  Kind[arrived'[i]] = c /\ arrived'[i] \notin failed'})
           /\ \A j \in 1..Done' : phase'[arrived'[j]] = "answered" /\ arrived'[j] \notin failed' =>
                 \A c \in Asked(arrived'[j]) : answer'[arrived'[j]][c] = Cardinality(Upto(j, c)')
    BY DEF AnswerInv, Upto, Asked
  <1>12. \A c \in Counted : counts'[c] = Cardinality({i \in 1..Done' :
            Kind[arrived'[i]] = c /\ arrived'[i] \notin failed'})
    <2> SUFFICES ASSUME NEW c \in Counted
                 PROVE  counts'[c] = Cardinality({i \in 1..(n + 1) :
                           Kind[arrived'[i]] = c /\ arrived'[i] \notin failed'})
      OBVIOUS
    <2> QED
      BY <1>7 DEF Upto
  <1> QED
    BY <1>3, <1>8, <1>9, <1>10, <1>11, <1>12

-----------------------------------------------------------------------------
(* The outcome log. *)

\* The log is the end of what was ever appended, and that was appended in order.
LogInv ==
    /\ Len(outcomes) <= MAX_ENTRIES /\ Len(outcomes) <= Len(matched)
    /\ Len(outcomes) < MAX_ENTRIES => Len(outcomes) = Len(matched)
    /\ \A i \in 1..Len(outcomes) : outcomes[i] = matched[Len(matched) - Len(outcomes) + i]
    /\ \A i \in 1..Len(matched) : \E x \in 1..Done : arrived[x] = matched[i]
    /\ \A i, j \in 1..Len(matched) : i < j =>
          \E x, y \in 1..Done : x < y /\ arrived[x] = matched[i] /\ arrived[y] = matched[j]

LEMMA LogKept ==
  ASSUME ServerTypes, ChainInv, LogInv, NEW n \in Nat, n = Done, Done' \in Nat, Done' >= n,
         \A i \in 1..n : arrived'[i] = arrived[i], UNCHANGED <<outcomes, matched>>
  PROVE  LogInv'
  <1>1. \A x \in 1..n : x \in 1..Done' /\ arrived'[x] = arrived[x]
    OBVIOUS
  <1>2. outcomes' = outcomes /\ matched' = matched
    OBVIOUS
  <1>3. /\ Len(outcomes') <= MAX_ENTRIES /\ Len(outcomes') <= Len(matched')
        /\ Len(outcomes') < MAX_ENTRIES => Len(outcomes') = Len(matched')
        /\ \A i \in 1..Len(outcomes') : outcomes'[i] = matched'[Len(matched') - Len(outcomes') + i]
    BY <1>2 DEF LogInv
  <1>4. \A i \in 1..Len(matched') : \E x \in 1..Done' : arrived'[x] = matched'[i]
    <2> SUFFICES ASSUME NEW i \in 1..Len(matched')
                 PROVE  \E x \in 1..Done' : arrived'[x] = matched'[i]
      OBVIOUS
    <2>1. i \in 1..Len(matched) /\ matched'[i] = matched[i]
      BY <1>2
    <2>2. PICK x \in 1..n : arrived[x] = matched[i]
      BY <2>1 DEF LogInv
    <2> QED
      BY <2>1, <2>2, <1>1
  <1>5. \A i, j \in 1..Len(matched') : i < j =>
           \E x, y \in 1..Done' : x < y /\ arrived'[x] = matched'[i] /\ arrived'[y] = matched'[j]
    <2> SUFFICES ASSUME NEW i \in 1..Len(matched'), NEW j \in 1..Len(matched'), i < j
                 PROVE  \E x, y \in 1..Done' :
                           x < y /\ arrived'[x] = matched'[i] /\ arrived'[y] = matched'[j]
      OBVIOUS
    <2>1. /\ i \in 1..Len(matched) /\ matched'[i] = matched[i]
          /\ j \in 1..Len(matched) /\ matched'[j] = matched[j]
      BY <1>2
    <2>2. PICK x \in 1..n, y \in 1..n : x < y /\ arrived[x] = matched[i] /\ arrived[y] = matched[j]
      BY <2>1 DEF LogInv
    <2> QED
      BY <2>1, <2>2, <1>1
  <1> QED
    BY <1>3, <1>4, <1>5, Zenon DEF LogInv

LEMMA AppendedOutcome ==
  ASSUME NEW log \in Seq(Requests), NEW r \in Requests, Len(log) <= MAX_ENTRIES
  PROVE  /\ AppendOutcome(log, r) \in Seq(Requests)
         /\ Len(log) < MAX_ENTRIES => AppendOutcome(log, r) = Append(log, r)
         /\ Len(log) = MAX_ENTRIES =>
               /\ Len(AppendOutcome(log, r)) = Len(log)
               /\ \A i \in 1..Len(log) : AppendOutcome(log, r)[i] = Append(log, r)[i + 1]
  <1> DEFINE longer == Append(log, r)
  <1>1. longer \in Seq(Requests) /\ Len(longer) = Len(log) + 1 /\ Len(log) \in Nat
    OBVIOUS
  <1>2. MAX_ENTRIES \in Nat /\ MAX_ENTRIES >= 1
    BY ServerAssumption
  <1>3. CASE Len(log) < MAX_ENTRIES
    BY <1>1, <1>2, <1>3 DEF AppendOutcome
  <1>4. CASE Len(log) = MAX_ENTRIES
    <2>1. AppendOutcome(log, r) = SubSeq(longer, 2, Len(log) + 1)
      BY <1>1, <1>2, <1>4 DEF AppendOutcome
    <2> HIDE DEF longer
    <2>2. \A i \in 2..(Len(log) + 1) : longer[i] \in Requests
      BY <1>1
    <2>3. /\ SubSeq(longer, 2, Len(log) + 1) \in Seq(Requests)
          /\ Len(SubSeq(longer, 2, Len(log) + 1)) = Len(log)
      BY <1>1, <1>2, <1>4, <2>2
    <2>4. \A i \in 1..Len(log) : SubSeq(longer, 2, Len(log) + 1)[i] = longer[i + 1]
      BY <1>1, <1>2, <1>4
    <2> USE DEF longer
    <2> QED
      BY <1>4, <2>1, <2>3, <2>4
  <1> QED
    BY <1>1, <1>2, <1>3, <1>4

\* The head has settled with instructions, and is appended.
LEMMA LogAppends ==
  ASSUME ServerTypes, ChainInv, LogInv, NEW r \in Requests, NEW n \in Nat, n = Done,
         Done' = n + 1, arrived' = arrived, arrived[n + 1] = r,
         outcomes' = AppendOutcome(outcomes, r), matched' = Append(matched, r)
  PROVE  LogInv'
  <1>1. /\ Len(outcomes) \in Nat /\ Len(matched) \in Nat
        /\ MAX_ENTRIES \in Nat /\ MAX_ENTRIES >= 1
        /\ Len(outcomes) <= MAX_ENTRIES /\ Len(outcomes) <= Len(matched)
    BY ServerAssumption DEF ServerTypes, LogInv
  <1>2. /\ Len(matched') = Len(matched) + 1 /\ matched'[Len(matched) + 1] = r
        /\ \A i \in 1..Len(matched) : matched'[i] = matched[i]
    BY DEF ServerTypes
  <1>3. \A i \in 1..Len(matched') : \E x \in 1..(n + 1) : arrived[x] = matched'[i]
    <2> SUFFICES ASSUME NEW i \in 1..Len(matched')
                 PROVE  \E x \in 1..(n + 1) : arrived[x] = matched'[i]
      OBVIOUS
    <2>1. CASE i \in 1..Len(matched)
      <3>1. PICK x \in 1..n : arrived[x] = matched[i]
        BY <2>1 DEF LogInv
      <3> QED
        BY <3>1, <2>1, <1>2
    <2>2. CASE i \notin 1..Len(matched)
      <3>1. i = Len(matched) + 1 /\ n + 1 \in 1..(n + 1)
        BY <2>2, <1>1, <1>2
      <3> QED
        BY <3>1, <1>2
    <2> QED
      BY <2>1, <2>2
  <1>4. \A i, j \in 1..Len(matched') : i < j =>
           \E x, y \in 1..(n + 1) : x < y /\ arrived[x] = matched'[i] /\ arrived[y] = matched'[j]
    <2> SUFFICES ASSUME NEW i \in 1..Len(matched'), NEW j \in 1..Len(matched'), i < j
                 PROVE  \E x, y \in 1..(n + 1) :
                           x < y /\ arrived[x] = matched'[i] /\ arrived[y] = matched'[j]
      OBVIOUS
    <2>1. i \in 1..Len(matched)
      BY <1>1, <1>2
    <2>2. CASE j \in 1..Len(matched)
      <3>1. PICK x \in 1..n, y \in 1..n : x < y /\ arrived[x] = matched[i] /\ arrived[y] = matched[j]
        BY <2>1, <2>2 DEF LogInv
      <3> QED
        BY <3>1, <2>1, <2>2, <1>2
    <2>3. CASE j \notin 1..Len(matched)
      <3>1. PICK x \in 1..n : arrived[x] = matched[i]
        BY <2>1 DEF LogInv
      <3>2. j = Len(matched) + 1 /\ n + 1 \in 1..(n + 1) /\ x < n + 1
        BY <2>3, <1>1, <1>2
      <3>3. x \in 1..(n + 1) /\ matched'[i] = matched[i] /\ matched'[j] = r
        BY <3>2, <2>1, <1>2
      <3> QED
        BY <3>1, <3>2, <3>3
    <2> QED
      BY <2>2, <2>3
  <1> DEFINE Ordered == /\ \A i \in 1..Len(matched) : \E x \in 1..Done : arrived[x] = matched[i]
                        /\ \A i, j \in 1..Len(matched) : i < j =>
                              \E x, y \in 1..Done : x < y /\ arrived[x] = matched[i] /\ arrived[y] = matched[j]
             Short == /\ Len(outcomes) <= MAX_ENTRIES /\ Len(outcomes) <= Len(matched)
                      /\ Len(outcomes) < MAX_ENTRIES => Len(outcomes) = Len(matched)
                      /\ \A i \in 1..Len(outcomes) :
                            outcomes[i] = matched[Len(matched) - Len(outcomes) + i]
  <1>7. Ordered'
    <2>1. \A i \in 1..Len(matched') : \E x \in 1..Done' : arrived'[x] = matched'[i]
      BY <1>3
    <2>2. \A i, j \in 1..Len(matched') : i < j =>
             \E x, y \in 1..Done' : x < y /\ arrived'[x] = matched'[i] /\ arrived'[y] = matched'[j]
      <3> SUFFICES ASSUME NEW i \in 1..Len(matched'), NEW j \in 1..Len(matched'), i < j
                   PROVE  \E x, y \in 1..Done' :
                             x < y /\ arrived'[x] = matched'[i] /\ arrived'[y] = matched'[j]
        OBVIOUS
      <3>1. PICK x \in 1..(n + 1), y \in 1..(n + 1) :
               x < y /\ arrived[x] = matched'[i] /\ arrived[y] = matched'[j]
        BY <1>4
      <3>2. x \in 1..Done' /\ y \in 1..Done'
        OBVIOUS
      <3> QED
        BY <3>1, <3>2
    <2> QED
      BY <2>1, <2>2
  <1>8. Short' /\ Ordered' => LogInv'
    BY DEF LogInv
  <1> HIDE DEF Ordered
  <1>5. CASE Len(outcomes) < MAX_ENTRIES
    <2>1. outcomes' = Append(outcomes, r) /\ Len(outcomes) = Len(matched)
      BY <1>5, <1>1, AppendedOutcome DEF ServerTypes, LogInv
    <2>2. Len(outcomes') = Len(outcomes) + 1 /\ outcomes'[Len(outcomes) + 1] = r
             /\ \A i \in 1..Len(outcomes) : outcomes'[i] = outcomes[i]
      BY <2>1 DEF ServerTypes
    <2>3. \A i \in 1..Len(outcomes) : outcomes[i] = matched[i]
      <3> SUFFICES ASSUME NEW i \in 1..Len(outcomes) PROVE outcomes[i] = matched[i]
        OBVIOUS
      <3>1. Len(matched) - Len(outcomes) + i = i
        BY <2>1, <1>1
      <3> QED
        BY <3>1 DEF LogInv
    <2>4. \A i \in 1..Len(outcomes') : outcomes'[i] = matched'[Len(matched') - Len(outcomes') + i]
      <3> SUFFICES ASSUME NEW i \in 1..Len(outcomes')
                   PROVE  outcomes'[i] = matched'[Len(matched') - Len(outcomes') + i]
        OBVIOUS
      <3>1. Len(matched') - Len(outcomes') + i = i
        BY <2>1, <2>2, <1>1, <1>2
      <3>2. outcomes'[i] = matched'[i]
        BY <2>1, <2>2, <2>3, <1>1, <1>2
      <3> QED
        BY <3>1, <3>2
    <2>5. Len(outcomes') <= MAX_ENTRIES /\ Len(outcomes') = Len(matched')
      BY <1>5, <2>1, <2>2, <1>1, <1>2
    <2>6. Short'
      BY <2>4, <2>5, <1>1, <1>2
    <2> QED
      BY <2>6, <1>7, <1>8
  <1>6. CASE Len(outcomes) = MAX_ENTRIES
    <2>1. Len(outcomes') = Len(outcomes)
             /\ \A i \in 1..Len(outcomes) : outcomes'[i] = Append(outcomes, r)[i + 1]
      BY <1>6, <1>1, AppendedOutcome DEF ServerTypes
    <2>2. Append(outcomes, r)[Len(outcomes) + 1] = r
             /\ \A i \in 1..Len(outcomes) : Append(outcomes, r)[i] = outcomes[i]
      BY DEF ServerTypes
    <2>3. \A i \in 1..Len(outcomes) : outcomes'[i] = matched'[Len(matched') - Len(outcomes') + i]
      <3> SUFFICES ASSUME NEW i \in 1..Len(outcomes)
                   PROVE  outcomes'[i] = matched'[Len(matched') - Len(outcomes') + i]
        OBVIOUS
      <3>1. Len(matched') - Len(outcomes') + i = Len(matched) - Len(outcomes) + (i + 1)
        BY <2>1, <1>1, <1>2
      <3>2. CASE i = Len(outcomes)
        <4>1. Len(matched) - Len(outcomes) + (i + 1) = Len(matched) + 1
          BY <3>2, <1>1
        <4> QED
          BY <4>1, <3>1, <3>2, <2>1, <2>2, <1>2
      <3>3. CASE i # Len(outcomes)
        <4>1. i + 1 \in 1..Len(outcomes)
          BY <3>3, <1>1
        <4>2. outcomes[i + 1] = matched[Len(matched) - Len(outcomes) + (i + 1)]
          BY <4>1 DEF LogInv
        <4>3. Len(matched) - Len(outcomes) + (i + 1) \in 1..Len(matched)
          BY <4>1, <1>1
        <4> QED
          BY <4>1, <4>2, <4>3, <3>1, <2>1, <2>2, <1>2
      <3> QED
        BY <3>2, <3>3
    <2>4. Len(outcomes') <= MAX_ENTRIES /\ ~(Len(outcomes') < MAX_ENTRIES)
             /\ Len(outcomes') <= Len(matched')
      BY <1>6, <2>1, <1>1, <1>2
    <2>5. Short'
      BY <2>1, <2>3, <2>4
    <2> QED
      BY <2>5, <1>7, <1>8
  <1> QED
    BY <1>1, <1>5, <1>6

-----------------------------------------------------------------------------
(* The steps. *)

ServerInv == ServerTypes /\ ChainInv /\ AnswerInv /\ LogInv

LEMMA ServerInit == Init => ServerInv
  <1> SUFFICES ASSUME Init PROVE ServerInv
    OBVIOUS
  <1>1. queue = <<>> /\ arrived = <<>> /\ outcomes = <<>> /\ matched = <<>> /\ failed = {}
    BY DEF Init
  <1>2. Len(queue) = 0 /\ Len(arrived) = 0 /\ Len(outcomes) = 0 /\ Len(matched) = 0
    BY <1>1
  <1>3. Done = 0
    BY <1>2 DEF Done
  <1>4. ServerTypes
    BY DEF Init, ServerTypes, NoCounts, Phases, Counted
  <1>5. \A r \in Requests : phase[r] = "new"
    BY DEF Init
  <1>6. ChainInv
    BY <1>2, <1>3, <1>5 DEF ChainInv
  <1>7. \A c \in Counted : counts[c] = Cardinality(Upto(Done, c))
    <2> SUFFICES ASSUME NEW c \in Counted PROVE counts[c] = Cardinality(Upto(Done, c))
      OBVIOUS
    <2>1. Upto(Done, c) = {}
      BY <1>3 DEF Upto
    <2>2. counts[c] = 0
      BY DEF Init, NoCounts
    <2> QED
      BY <2>1, <2>2, FS_EmptySet
  <1>8. AnswerInv
    BY <1>1, <1>3, <1>5, <1>7 DEF AnswerInv
  <1>9. LogInv
    BY <1>2, ServerAssumption DEF LogInv
  <1> QED
    BY <1>4, <1>6, <1>8, <1>9 DEF ServerInv

LEMMA AppendTyped ==
  ASSUME NEW s \in Seq(Requests), NEW r \in Requests
  PROVE  Append(s, r) \in Seq(Requests)
  OBVIOUS

LEMMA StepTypes ==
  ASSUME ServerInv, Next
  PROVE  ServerTypes'
  <1> USE DEF ServerTypes, Phases
  <1>1. ASSUME NEW r \in Requests, Arrive(r) PROVE ServerTypes'
    <2>1. phase' \in [Requests -> Phases]
      BY <1>1 DEF ServerInv, Arrive, Goto
    <2>2. queue' \in Seq(Requests) /\ arrived' \in Seq(Requests)
      <3>1. (queue' = queue \/ queue' = Append(queue, r))
               /\ (arrived' = arrived \/ arrived' = Append(arrived, r))
        BY <1>1 DEF Arrive
      <3>2. Append(queue, r) \in Seq(Requests) /\ Append(arrived, r) \in Seq(Requests)
        BY AppendTyped DEF ServerInv
      <3> QED
        BY <3>1, <3>2, Zenon DEF ServerInv
    <2> QED
      BY <1>1, <2>1, <2>2 DEF ServerInv, Arrive, memory
  <1>2. ASSUME NEW r \in Requests, Turn(r) \/ phase[r] = "running"
        PROVE  Tail(queue) \in Seq(Requests)
    <2>1. Len(queue) >= 1 /\ queue # <<>>
      BY <1>2, HeadLeaves DEF ServerInv, Turn
    <2> QED
      BY <2>1 DEF ServerInv
  <1>3. ASSUME NEW r \in Requests, RunSync(r) PROVE ServerTypes'
    <2>1. Tail(queue) \in Seq(Requests)
      BY <1>2, <1>3 DEF RunSync
    <2>2. /\ process' \in {"up", "closing", "dying", "down"}
          /\ phase' \in [Requests -> Phases] /\ queue' \in Seq(Requests)
          /\ outcomes' \in Seq(Requests) /\ stops' \in Nat
          /\ arrived' \in Seq(Requests) /\ matched' \in Seq(Requests)
      BY <1>3, <2>1 DEF ServerInv, RunSync, Goto, LeaveChain
    <2>3. counts' \in [Counted -> Nat]
      <3>1. counts \in [Counted -> Nat] /\ \A c \in Counted : counts[c] + 1 \in Nat
        BY DEF ServerInv
      <3>2. counts' = counts \/ counts' = [counts EXCEPT ![Kind[r]] = @ + 1]
        BY <1>3 DEF RunSync
      <3> QED
        BY <3>1, <3>2
    <2>4. answer' \in [Requests -> [Counted -> Nat]]
      BY <1>3, <2>3 DEF ServerInv, RunSync
    <2>5. failed' \in SUBSET Requests
      BY <1>3 DEF ServerInv, RunSync
    <2> QED
      BY <2>2, <2>3, <2>4, <2>5
  <1>4. ASSUME NEW r \in Requests, StartMatch(r) PROVE ServerTypes'
    BY <1>4 DEF ServerInv, StartMatch, Goto, memory, history
  <1>5. ASSUME NEW r \in Requests, FinishMatch(r) PROVE ServerTypes'
    <2>1. Tail(queue) \in Seq(Requests)
      BY <1>2, <1>5 DEF FinishMatch
    <2>2. AppendOutcome(outcomes, r) \in Seq(Requests)
      BY AppendedOutcome DEF ServerInv, LogInv
    <2>3. phase' \in [Requests -> Phases] /\ queue' \in Seq(Requests)
      BY <1>5, <2>1 DEF ServerInv, FinishMatch, Goto, LeaveChain
    <2>4. outcomes' \in Seq(Requests) /\ matched' \in Seq(Requests)
      <3>1. (outcomes' = outcomes \/ outcomes' = AppendOutcome(outcomes, r))
               /\ (matched' = matched \/ matched' = Append(matched, r))
        BY <1>5 DEF FinishMatch
      <3>2. Append(matched, r) \in Seq(Requests)
        BY AppendTyped DEF ServerInv
      <3> QED
        BY <2>2, <3>1, <3>2, Zenon DEF ServerInv
    <2> QED
      BY <1>5, <2>3, <2>4 DEF ServerInv, FinishMatch
  <1>6. ASSUME NEW r \in Requests, HandlerRejected(r) PROVE ServerTypes'
    <2>1. Tail(queue) \in Seq(Requests)
      BY <1>2, <1>6 DEF HandlerRejected
    <2> QED
      BY <1>6, <2>1 DEF ServerInv, HandlerRejected, Goto, LeaveChain, memory, history
  <1>7. ASSUME EndProcess, stops' \in Nat PROVE ServerTypes'
    BY <1>7 DEF ServerInv, EndProcess, NoCounts
  <1>8. CASE Die
    BY <1>7, <1>8 DEF ServerInv, Die
  <1>9. CASE Shutdown
    BY <1>9 DEF ServerInv, Shutdown, Signal, memory, history
  <1>10. CASE Exit
    BY <1>7, <1>10 DEF ServerInv, Exit
  <1>11. CASE Kill
    BY <1>7, <1>11 DEF ServerInv, Kill, Signal
  <1>12. CASE Restart
    BY <1>12 DEF ServerInv, Restart, memory, history
  <1> QED
    BY <1>1, <1>3, <1>4, <1>5, <1>6, <1>8, <1>9, <1>10, <1>11, <1>12 DEF Next, Handle

\* A process that ends takes its memory along.
LEMMA EndInv ==
  ASSUME ServerTypes, ServerTypes', EndProcess
  PROVE  ServerInv'
  <1>1. queue' = <<>> /\ arrived' = <<>> /\ outcomes' = <<>> /\ matched' = <<>> /\ failed' = {}
    BY DEF EndProcess
  <1>2. Len(queue') = 0 /\ Len(arrived') = 0 /\ Len(outcomes') = 0 /\ Len(matched') = 0
    BY <1>1
  <1>3. Done' = 0
    BY <1>2 DEF Done
  <1>5. \A r \in Requests : phase'[r] \notin {"queued", "running"}
    BY DEF EndProcess
  <1>6. ChainInv'
    BY <1>2, <1>3, <1>5 DEF ChainInv
  <1>7. \A c \in Counted : counts'[c] = Cardinality(Upto(Done, c)')
    <2> SUFFICES ASSUME NEW c \in Counted PROVE counts'[c] = Cardinality(Upto(Done, c)')
      OBVIOUS
    <2>1. Upto(Done, c)' = {}
      BY <1>3 DEF Upto
    <2>2. counts'[c] = 0
      BY DEF EndProcess, NoCounts
    <2> QED
      BY <2>1, <2>2, FS_EmptySet
  <1>8. AnswerInv'
    BY <1>1, <1>3, <1>5, <1>7 DEF AnswerInv
  <1>9. LogInv'
    BY <1>2, ServerAssumption DEF LogInv
  <1> QED
    BY <1>6, <1>8, <1>9 DEF ServerInv

\* Steps that leave the chain, the counts and the log alone.
LEMMA IdleInv ==
  ASSUME ServerInv, ServerTypes', UNCHANGED <<phase, queue, memory, answer, history>>
  PROVE  ServerInv'
  <1>1. UNCHANGED <<phase, queue, counts, outcomes, answer, arrived, matched, failed>>
    BY DEF memory, history
  <1>2. Done' = Done
    BY <1>1 DEF Done
  <1>3. ChainInv'
    BY <1>1, <1>2 DEF ServerInv, ChainInv
  <1>4. AnswerInv'
    BY <1>1, <1>2, AnswersKept DEF ServerInv, AnswerInv
  <1>5. LogInv'
    BY <1>1, <1>2 DEF ServerInv, LogInv
  <1> QED
    BY <1>3, <1>4, <1>5 DEF ServerInv

LEMMA RunSyncInv ==
  ASSUME ServerInv, ServerTypes', NEW r \in Requests, RunSync(r)
  PROVE  ServerInv'
  <1> USE DEF ServerInv
  <1>1. Leaves(r, "answered")
    BY DEF RunSync, Turn, Goto, LeaveChain, Leaves
  <1>2. ChainInv' /\ Done' = Done + 1
    BY <1>1, LeaveTheChain
  <1> PICK n \in Nat : n = Done
    BY DoneNat
  <1>3. LogInv'
    <2>1. Done' \in Nat /\ Done' >= n
      BY <1>2
    <2>2. arrived' = arrived /\ UNCHANGED <<outcomes, matched>>
      BY DEF RunSync
    <2> QED
      BY <2>1, <2>2, LogKept
  <1>4. r \notin failed
    BY <1>1 DEF Leaves, AnswerInv
  <1>5. failed' = failed \/ (failed' = failed \cup {r})
    BY DEF RunSync
  <1>6. \A c \in Counted :
           counts'[c] = counts[c] + (IF Kind[r] = c /\ r \notin failed' THEN 1 ELSE 0)
    <2> SUFFICES ASSUME NEW c \in Counted
                 PROVE  counts'[c] = counts[c] + (IF Kind[r] = c /\ r \notin failed' THEN 1 ELSE 0)
      OBVIOUS
    <2>1. counts[c] \in Nat
      BY DEF ServerTypes
    <2>2. CASE Kind[r] \in Counted /\ counts' = [counts EXCEPT ![Kind[r]] = @ + 1] /\ UNCHANGED failed
      <3>1. counts \in [Counted -> Nat]
        BY DEF ServerTypes
      <3>2. counts'[c] = IF Kind[r] = c THEN counts[c] + 1 ELSE counts[c]
        BY <2>2, <3>1
      <3> QED
        BY <2>1, <2>2, <3>2, <1>4
    <2>3. CASE Kind[r] \in Counted /\ failed' = failed \cup {r} /\ UNCHANGED counts
      BY <2>1, <2>3
    <2>4. CASE Kind[r] \notin Counted /\ UNCHANGED counts
      BY <2>1, <2>4
    <2> QED
      BY <2>2, <2>3, <2>4 DEF RunSync, Counted
  <1>7. r \notin failed' => \A c \in Asked(r) : answer'[r][c] = counts'[c]
    <2>1. CASE answer' = [answer EXCEPT ![r] = counts']
      BY <2>1 DEF ServerTypes
    <2>2. CASE Kind[r] = "state" /\ answer' = [answer EXCEPT ![r] = counts] /\ UNCHANGED counts
      BY <2>2 DEF ServerTypes
    <2>3. CASE failed' = failed \cup {r}
      BY <2>3
    <2>4. CASE Kind[r] = "topup"
      BY <2>4 DEF Asked, Counted
    <2> QED
      BY <2>1, <2>2, <2>3, <2>4 DEF RunSync
  <1>8. \A q \in Requests \ {r} : answer'[q] = answer[q]
    BY DEF RunSync, ServerTypes
  <1>9. AnswerInv'
    BY <1>1, <1>2, <1>5, <1>6, <1>7, <1>8, AnswerLeaves
  <1> QED
    BY <1>2, <1>3, <1>9

\* A match, or a top-up that rejects, enters no count.
LEMMA UncountedLeaves ==
  ASSUME ServerInv, ServerTypes', NEW r \in Requests, NEW p \in {"answered", "lost"},
         Leaves(r, p), Kind[r] \in {"match", "topup"}, UNCHANGED <<counts, answer, failed>>
  PROVE  ChainInv' /\ AnswerInv' /\ Done' = Done + 1
  <1> USE DEF ServerInv
  <1>1. ChainInv' /\ Done' = Done + 1
    BY LeaveTheChain
  <1>2. \A c \in Counted :
           counts'[c] = counts[c] + (IF Kind[r] = c /\ r \notin failed' THEN 1 ELSE 0)
    BY DEF Counted, ServerTypes
  <1>3. Asked(r) = {}
    BY DEF Asked, Counted
  <1>4. AnswerInv'
    BY <1>1, <1>2, <1>3, AnswerLeaves
  <1> QED
    BY <1>1, <1>4

LEMMA ServerStep ==
  ASSUME ServerInv, [Next]_vars
  PROVE  ServerInv'
  <1>1. CASE UNCHANGED vars
    BY <1>1 DEF vars, memory, history, ServerInv, ServerTypes, ChainInv, Done, AnswerInv, Upto, Asked, LogInv
  <1> SUFFICES ASSUME Next PROVE ServerInv'
    BY <1>1
  <1> PICK n \in Nat : n = Done
    BY DoneNat DEF ServerInv
  <1>2. ServerTypes'
    BY StepTypes
  <1>3. ASSUME NEW r \in Requests, Arrive(r) PROVE ServerInv'
    <2>1. /\ phase[r] = "new" /\ UNCHANGED <<counts, answer, failed, outcomes, matched>>
          /\ Enters(r) \/ Bypasses(r)
      BY <1>3 DEF Arrive, Goto, memory, Enters, Bypasses
    <2>2. ChainInv' /\ Done' = Done
      BY <2>1, <1>2, EnterChain, BypassChain DEF ServerInv
    <2>3. \A i \in 1..Done : /\ i \in 1..Len(arrived) /\ arrived[i] \in Requests
                             /\ arrived[i] # r
      BY <2>1, DoneNat DEF ServerInv, ChainInv
    <2>4. \A i \in 1..Len(arrived) : arrived'[i] = arrived[i]
      <3>1. arrived' = arrived \/ arrived' = Append(arrived, r)
        BY <2>1 DEF Enters, Bypasses
      <3>2. arrived \in Seq(Requests)
        BY DEF ServerInv, ServerTypes
      <3> QED
        BY <3>1, <3>2
    <2>5. \A q \in Requests : q # r => phase'[q] = phase[q]
      BY <2>1 DEF Enters, Bypasses, ServerInv, ServerTypes
    <2>6. phase'[r] # "running"
      BY <2>1 DEF Enters, Bypasses, ServerInv, ServerTypes
    <2>7. \A q \in failed : phase'[q] = phase[q]
      BY <2>1, <2>5 DEF ServerInv, ServerTypes, AnswerInv
    <2>8. \A q \in Requests : phase'[q] = "running" => Kind[q] = "match"
      BY <2>5, <2>6 DEF ServerInv, AnswerInv
    <2>9. AnswerInv'
      BY <2>1, <2>2, <2>3, <2>4, <2>5, <2>7, <2>8, AnswersKept DEF ServerInv
    <2>10. LogInv'
      BY <2>1, <2>2, <2>3, <2>4, LogKept DEF ServerInv
    <2> QED
      BY <1>2, <2>2, <2>9, <2>10 DEF ServerInv
  <1>4. ASSUME NEW r \in Requests, StartMatch(r) PROVE ServerInv'
    <2>1. Begins(r) /\ UNCHANGED <<counts, answer, failed, outcomes, matched, arrived>>
      BY <1>4 DEF StartMatch, Turn, Goto, memory, history, Begins
    <2>2. ChainInv' /\ Done' = Done
      BY <2>1, BeginChain DEF ServerInv
    <2>3. \A i \in 1..Done : arrived[i] \in Requests /\ arrived[i] # r
      BY <2>1, DoneNat DEF ServerInv, ChainInv, Begins
    <2>4. \A q \in Requests : q # r => phase'[q] = phase[q]
      BY <2>1 DEF Begins, ServerInv, ServerTypes
    <2>5. Kind[r] = "match"
      BY <1>4 DEF StartMatch
    <2>6. \A q \in failed : phase'[q] = phase[q]
      BY <2>1, <2>4 DEF ServerInv, ServerTypes, AnswerInv, Begins
    <2>7. \A q \in Requests : phase'[q] = "running" => Kind[q] = "match"
      BY <2>4, <2>5 DEF ServerInv, AnswerInv
    <2>8. AnswerInv'
      BY <2>1, <2>2, <2>3, <2>4, <2>6, <2>7, AnswersKept DEF ServerInv
    <2>9. LogInv'
      BY <2>1, <2>2, LogKept DEF ServerInv
    <2> QED
      BY <1>2, <2>2, <2>8, <2>9 DEF ServerInv
  <1>5. ASSUME NEW r \in Requests, FinishMatch(r) PROVE ServerInv'
    <2>1. Leaves(r, "answered") /\ UNCHANGED <<counts, answer, failed>>
      BY <1>5 DEF FinishMatch, Goto, LeaveChain, Leaves
    <2>2. Kind[r] = "match"
      BY <1>5 DEF FinishMatch, ServerInv, AnswerInv
    <2>3. ChainInv' /\ AnswerInv' /\ Done' = Done + 1
      BY <1>2, <2>1, <2>2, UncountedLeaves
    <2>4. arrived[n + 1] = r /\ arrived' = arrived
      BY <2>1, HeadLeaves DEF ServerInv, Leaves
    <2>5. CASE outcomes' = AppendOutcome(outcomes, r) /\ matched' = Append(matched, r)
      BY <2>3, <2>4, <2>5, <1>2, LogAppends DEF ServerInv
    <2>6. CASE UNCHANGED <<outcomes, matched>>
      <3>1. LogInv'
        BY <2>3, <2>4, <2>6, LogKept DEF ServerInv
      <3> QED
        BY <3>1, <2>3, <1>2 DEF ServerInv
    <2> QED
      BY <1>5, <2>5, <2>6 DEF FinishMatch
  <1>6. ASSUME NEW r \in Requests, HandlerRejected(r) PROVE ServerInv'
    <2>1. Leaves(r, "lost") /\ UNCHANGED <<counts, answer, failed, outcomes, matched>>
      BY <1>6 DEF HandlerRejected, Turn, Goto, LeaveChain, Leaves, memory, history
    <2>2. Kind[r] \in {"match", "topup"}
      BY <1>6, ServerAssumption DEF HandlerRejected
    <2>3. ChainInv' /\ AnswerInv' /\ Done' = Done + 1
      BY <1>2, <2>1, <2>2, UncountedLeaves
    <2>4. LogInv'
      BY <2>1, <2>3, LogKept DEF ServerInv, Leaves
    <2> QED
      BY <1>2, <2>3, <2>4 DEF ServerInv
  <1>7. CASE Die
    BY <1>2, <1>7, EndInv DEF ServerInv, Die
  <1>8. CASE Shutdown
    BY <1>2, <1>8, IdleInv DEF Shutdown
  <1>9. CASE Exit
    BY <1>2, <1>9, EndInv DEF ServerInv, Exit
  <1>10. CASE Kill
    BY <1>2, <1>10, EndInv DEF ServerInv, Kill
  <1>11. CASE Restart
    BY <1>2, <1>11, IdleInv DEF Restart
  <1> QED
    BY <1>2, <1>3, <1>4, <1>5, <1>6, <1>7, <1>8, <1>9, <1>10, <1>11, RunSyncInv DEF Next, Handle

LEMMA ServerInvariant == Spec => []ServerInv
  BY ServerInit, ServerStep, PTL DEF Spec

-----------------------------------------------------------------------------
(* What follows. *)

\* Every variable keeps its type, and what waits on the chain is exactly what is
\* neither answered nor lost (ExtensionServer's requests and their promise chain).
THEOREM ServerTypesHold == Spec => []TypeOK
  <1>1. ServerInv => TypeOK
    <2> SUFFICES ASSUME ServerInv PROVE TypeOK
      OBVIOUS
    <2>1. \A r \in Requests :
             phase[r] \in {"queued", "running"} <=> \E i \in 1..Len(queue) : queue[i] = r
      BY DEF ServerInv, ChainInv
    <2> QED
      BY <2>1 DEF ServerInv, ServerTypes, TypeOK
  <1> QED
    BY <1>1, ServerInvariant, PTL

\* At most one handler runs, and nothing overtakes it (serialize's promise chain).
THEOREM OneHandlerAtATime == Spec => []HandlersSerialized
  <1>1. ServerInv => HandlersSerialized
    <2> SUFFICES ASSUME ServerInv, NEW i \in 1..Len(arrived), NEW j \in 1..Len(arrived), i < j,
                        phase[arrived[j]] \in {"running", "answered"}
                 PROVE  phase[arrived[i]] \in {"answered", "lost"}
      BY DEF HandlersSerialized
    <2>1. Len(queue) \in Nat /\ Len(arrived) \in Nat /\ Done \in Nat /\ Done + Len(queue) = Len(arrived)
      BY DoneNat DEF ServerInv, ServerTypes, Done
    <2>2. j <= Done + 1
      <3> SUFFICES ASSUME j > Done + 1 PROVE FALSE
        BY <2>1
      <3>1. j - Done \in 1..Len(queue) /\ j - Done # 1 /\ Done + (j - Done) = j
        BY <2>1
      <3>2. phase[queue[j - Done]] = "queued" /\ queue[j - Done] = arrived[j]
        BY <3>1 DEF ServerInv, ChainInv
      <3> QED
        BY <3>2
    <2>3. i \in 1..Done
      BY <2>1, <2>2
    <2> QED
      BY <2>3 DEF ServerInv, ChainInv
  <1> QED
    BY <1>1, ServerInvariant, PTL

\* A greeting, a farewell or a state read is answered with the number of requests of
\* that kind that arrived up to it and were not refused (app/handlers.ts counters).
THEOREM AnswersCountArrivals == Spec => []AnswersInOrder
  <1>1. ServerInv => AnswersInOrder
    <2> SUFFICES ASSUME ServerInv, NEW j \in 1..Len(arrived),
                        phase[arrived[j]] = "answered", arrived[j] \notin failed,
                        NEW c \in Asked(arrived[j])
                 PROVE  answer[arrived[j]][c] = Cardinality(Upto(j, c))
      BY DEF AnswersInOrder, Asked, Upto
    <2>1. Len(queue) \in Nat /\ Len(arrived) \in Nat /\ Done \in Nat /\ Done + Len(queue) = Len(arrived)
      BY DoneNat DEF ServerInv, ServerTypes, Done
    <2>2. j \in 1..Done
      <3> SUFFICES ASSUME j > Done PROVE FALSE
        BY <2>1
      <3>1. j - Done \in 1..Len(queue) /\ Done + (j - Done) = j
        BY <2>1
      <3>2. phase[queue[j - Done]] \in {"queued", "running"} /\ queue[j - Done] = arrived[j]
        BY <3>1 DEF ServerInv, ChainInv
      <3> QED
        BY <3>2
    <2> QED
      BY <2>2 DEF ServerInv, AnswerInv
  <1> QED
    BY <1>1, ServerInvariant, PTL

\* The log holds the latest MAX_ENTRIES matches, in the order they arrived in
\* (app/outcomeLog.ts).
THEOREM LogHoldsLatest == Spec => []LogKeepsLatest
  <1>1. ServerInv => LogKeepsLatest
    <2> SUFFICES ASSUME ServerInv PROVE LogKeepsLatest
      OBVIOUS
    <2>1. /\ Len(outcomes) \in Nat /\ Len(matched) \in Nat /\ MAX_ENTRIES \in Nat
          /\ Len(outcomes) <= MAX_ENTRIES /\ Len(outcomes) <= Len(matched)
          /\ outcomes \in Seq(Requests) /\ matched \in Seq(Requests)
      BY ServerAssumption DEF ServerInv, ServerTypes, LogInv
    <2> DEFINE k == Len(matched) - Len(outcomes)
    <2>2. k \in 0..Len(matched)
      BY <2>1
    <2>3. outcomes = SubSeq(matched, k + 1, Len(matched))
      <3>1. /\ SubSeq(matched, k + 1, Len(matched)) \in Seq(Requests)
            /\ Len(SubSeq(matched, k + 1, Len(matched))) = Len(outcomes)
        BY <2>1
      <3>2. \A i \in 1..Len(outcomes) : SubSeq(matched, k + 1, Len(matched))[i] = matched[k + i]
        BY <2>1
      <3>3. \A i \in 1..Len(outcomes) : SubSeq(matched, k + 1, Len(matched))[i] = outcomes[i]
        BY <3>2 DEF ServerInv, LogInv
      <3> DEFINE tail == SubSeq(matched, k + 1, Len(matched))
      <3>4. tail \in Seq(Requests) /\ Len(tail) = Len(outcomes)
               /\ \A i \in 1..Len(outcomes) : tail[i] = outcomes[i]
        BY <3>1, <3>3
      <3> HIDE DEF tail
      <3>5. tail = outcomes
        BY <2>1, <3>4
      <3> QED
        BY <3>5 DEF tail
    <2>4. Len(outcomes) < MAX_ENTRIES => outcomes = matched
      <3> SUFFICES ASSUME Len(outcomes) < MAX_ENTRIES PROVE outcomes = matched
        OBVIOUS
      <3>1. Len(outcomes) = Len(matched) /\ k = 0
        BY <2>1 DEF ServerInv, LogInv
      <3>2. \A i \in 1..Len(matched) : outcomes[i] = matched[i]
        BY <3>1, <2>1 DEF ServerInv, LogInv
      <3> QED
        BY <2>1, <3>1, <3>2
    <2>5. ASSUME NEW i \in 1..Len(outcomes), NEW j \in 1..Len(outcomes), i < j
          PROVE  \E x, y \in 1..Len(arrived) :
                    x < y /\ arrived[x] = outcomes[i] /\ arrived[y] = outcomes[j]
      <3>1. k + i \in 1..Len(matched) /\ k + j \in 1..Len(matched) /\ k + i < k + j
        BY <2>1, <2>5
      <3>2. outcomes[i] = matched[k + i] /\ outcomes[j] = matched[k + j]
        BY DEF ServerInv, LogInv
      <3>3. PICK x \in 1..Done, y \in 1..Done :
               x < y /\ arrived[x] = matched[k + i] /\ arrived[y] = matched[k + j]
        BY <3>1 DEF ServerInv, LogInv
      <3>4. x \in 1..Len(arrived) /\ y \in 1..Len(arrived)
        BY DoneNat DEF ServerInv
      <3> QED
        BY <3>2, <3>3, <3>4
    <2> QED
      BY <2>1, <2>2, <2>3, <2>4, <2>5 DEF LogKeepsLatest
  <1> QED
    BY <1>1, ServerInvariant, PTL

=============================================================================
