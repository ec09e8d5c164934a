-------------------------------- MODULE AgentProofs --------------------------------
(***************************************************************************)
(* Proofs about what the AI agent works with: the leaderboard and those    *)
(* that publish scores to it, the lending pool and the canary that borrows *)
(* from it, scores and classification, the alert feed and the drift watch, *)
(* each by itself for any amounts, lists and number of runs, and then all  *)
(* of them under AgentSpec.                                                *)
(***************************************************************************)
EXTENDS AgentDuties, SumProofs

-----------------------------------------------------------------------------
(* MirrorLeaderboard. *)

Listed(l) == \E i \in DOMAIN rankedLeads : rankedLeads[i] = l

LeaderboardInv ==
    /\ LeaderboardTypeOK
    /\ \A i, j \in DOMAIN rankedLeads : rankedLeads[i] = rankedLeads[j] => i = j
    /\ \A l \in LeadAddresses : isRanked[l] <=> Listed(l)
    /\ \A l \in LeadAddresses : isRanked[l] <=> (\E e \in scoreEvents : e.lead = l)

LEMMA LeaderboardInitInv == LeaderboardInit => LeaderboardInv
  <1> SUFFICES ASSUME LeaderboardInit PROVE LeaderboardInv
    OBVIOUS
  <1>1. rankedLeads \in Seq(LeadAddresses) /\ DOMAIN rankedLeads = {}
    BY DEF LeaderboardInit
  <1>2. scores \in [LeadAddresses -> Records]
    BY DEF LeaderboardInit, Records
  <1>3. isRanked \in [LeadAddresses -> BOOLEAN]
    BY Zenon DEF LeaderboardInit
  <1>4. \A l \in LeadAddresses : ~isRanked[l]
    BY DEF LeaderboardInit
  <1>5. LeaderboardTypeOK
    BY <1>1, <1>2, <1>3 DEF LeaderboardInit, LeaderboardTypeOK
  <1>6. QED
    BY <1>1, <1>4, <1>5 DEF LeaderboardInit, LeaderboardInv, Listed

LEMMA LeaderboardStutterInv == LeaderboardInv /\ UNCHANGED leaderboardVars => LeaderboardInv'
  BY DEF LeaderboardInv, LeaderboardTypeOK, Listed, leaderboardVars

LEMMA SetSignerInv ==
  ASSUME NEW s \in Signers, LeaderboardInv, SetAiAgentSigner(s)
  PROVE  LeaderboardInv'
  BY DEF LeaderboardInv, LeaderboardTypeOK, Listed, SetAiAgentSigner

\* The types after a score.
LEMMA UpdateTypes ==
  ASSUME NEW c \in Signers, NEW l \in LeadAddresses \cup {NoAddress}, NEW score \in 0..255,
         NEW att \in Attestations, LeaderboardTypeOK, UpdateScore(c, l, score, att)
  PROVE  LeaderboardTypeOK' /\ l \in LeadAddresses
  <1>1. l \in LeadAddresses /\ score \in 0..100
    BY DEF UpdateScore, ScoreAccepted
  <1>2. [score |-> score, attestationId |-> att] \in Records
    BY <1>1 DEF Records
  <1>3. scores' \in [LeadAddresses -> Records]
    BY <1>1, <1>2 DEF UpdateScore, LeaderboardTypeOK
  <1>4. isRanked' \in [LeadAddresses -> BOOLEAN]
    BY <1>1, Zenon DEF UpdateScore, LeaderboardTypeOK
  <1>5. rankedLeads' \in Seq(LeadAddresses)
    BY <1>1 DEF UpdateScore, LeaderboardTypeOK
  <1>6. scoreEvents' \subseteq [lead : LeadAddresses, score : 0..100, attestationId : Attestations]
    <2>1. [lead |-> l, score |-> score, attestationId |-> att]
             \in [lead : LeadAddresses, score : 0..100, attestationId : Attestations]
      BY <1>1
    <2>2. QED
      BY <2>1, Zenon DEF UpdateScore, LeaderboardTypeOK
  <1>7. QED
    BY <1>1, <1>3, <1>4, <1>5, <1>6 DEF UpdateScore, LeaderboardTypeOK

\* A score: the lead is appended only when its flag was down, so that it was in
\* neither the list nor an event.
LEMMA UpdateInv ==
  ASSUME NEW c \in Signers, NEW l \in LeadAddresses \cup {NoAddress}, NEW score \in 0..255,
         NEW att \in Attestations, LeaderboardInv, UpdateScore(c, l, score, att)
  PROVE  LeaderboardInv'
  <1>1. LeaderboardTypeOK' /\ l \in LeadAddresses
    BY UpdateTypes DEF LeaderboardInv
  <1>2. \A k \in LeadAddresses : isRanked'[k] <=> (isRanked[k] \/ k = l)
    <2>1. isRanked' = [isRanked EXCEPT ![l] = TRUE] /\ isRanked \in [LeadAddresses -> BOOLEAN]
      BY DEF UpdateScore, LeaderboardInv, LeaderboardTypeOK
    <2>2. QED
      BY <1>1, <2>1, Zenon
  <1>3. \A k \in LeadAddresses :
           (\E e \in scoreEvents' : e.lead = k) <=> (\E e \in scoreEvents : e.lead = k) \/ k = l
    <2> DEFINE new == [lead |-> l, score |-> score, attestationId |-> att]
    <2>1. scoreEvents' = scoreEvents \cup {new} /\ new.lead = l
      BY DEF UpdateScore
    <2> HIDE DEF new
    <2>2. QED
      BY <2>1
  <1>4. CASE isRanked[l]
    <2>1. rankedLeads' = rankedLeads
      BY <1>4 DEF UpdateScore
    <2>2. QED
      BY <1>1, <1>2, <1>3, <1>4, <2>1 DEF LeaderboardInv, Listed
  <1>5. CASE ~isRanked[l]
    <2> DEFINE n == Len(rankedLeads)
    <2>1. /\ rankedLeads \in Seq(LeadAddresses) /\ n \in Nat
          /\ rankedLeads' = Append(rankedLeads, l)
      BY <1>5 DEF UpdateScore, LeaderboardInv, LeaderboardTypeOK
    <2>2. /\ DOMAIN rankedLeads = 1..n /\ DOMAIN rankedLeads' = 1..(n + 1)
          /\ \A i \in 1..n : rankedLeads'[i] = rankedLeads[i]
          /\ rankedLeads'[n + 1] = l
      BY <2>1
    <2> HIDE DEF n
    <2>3. \A i \in 1..n : rankedLeads[i] # l
      BY <1>1, <1>5, <2>2 DEF LeaderboardInv, Listed
    <2>4. \A i, j \in DOMAIN rankedLeads' : rankedLeads'[i] = rankedLeads'[j] => i = j
      <3>1. \A i \in 1..(n + 1) : i \in 1..n \/ i = n + 1
        BY <2>1
      <3>2. \A i, j \in 1..n : rankedLeads[i] = rankedLeads[j] => i = j
        BY <2>2 DEF LeaderboardInv
      <3>3. QED
        BY <2>2, <2>3, <3>1, <3>2
    <2>5. \A k \in LeadAddresses : Listed(k)' <=> Listed(k) \/ k = l
      <3>1. \A i \in 1..(n + 1) : i \in 1..n \/ i = n + 1
        BY <2>1
      <3>2. \A i \in 1..n : i \in 1..(n + 1)
        BY <2>1
      <3>3. n + 1 \in 1..(n + 1)
        BY <2>1
      <3>4. QED
        BY <2>2, <3>1, <3>2, <3>3 DEF Listed
    <2>6. QED
      BY <1>1, <1>2, <1>3, <2>4, <2>5 DEF LeaderboardInv
  <1>6. QED
    BY <1>4, <1>5

LEMMA LeaderboardNextInv == LeaderboardInv /\ [LeaderboardNext]_leaderboardVars => LeaderboardInv'
  BY SetSignerInv, UpdateInv, LeaderboardStutterInv DEF LeaderboardNext

\* Types hold, and the list of ranked leads has every lead with a score event
\* once, for any leads, signers and attestations.
THEOREM LeadsRankedOnce == LeaderboardSpec => [](LeaderboardTypeOK /\ RankedOnce)
  <1>1. LeaderboardSpec => []LeaderboardInv
    BY LeaderboardInitInv, LeaderboardNextInv, PTL DEF LeaderboardSpec
  <1>2. LeaderboardInv => LeaderboardTypeOK /\ RankedOnce
    BY DEF LeaderboardInv, RankedOnce, Listed
  <1>3. QED
    BY <1>1, <1>2, PTL

-----------------------------------------------------------------------------
(* KineticPool: only the owner makes a position liquidatable. *)

LoanInv ==
    /\ supplyBalance \in [Users -> Nat]
    /\ borrowBalance \in [Users -> Nat]
    /\ kineticPrice \in Nat /\ liquidationThresholdBps \in Nat

LEMMA RatioNat ==
  ASSUME NEW s \in Nat, NEW b \in Nat \ {0}, kineticPrice \in Nat
  PROVE  Ratio(s, b) = RatioAt(PriceOne, kineticPrice, s, b) /\ Ratio(s, b) \in Nat
  <1>1. Ratio(s, b) = RatioAt(PriceOne, kineticPrice, s, b)
    BY DEF Ratio, RatioAt
  <1>2. PriceOne \in Nat \ {0} /\ s <= s /\ b <= b
    BY PartiesAssumption
  <1>3. RatioAt(PriceOne, kineticPrice, s, b) \in Nat
    BY <1>2, RatioMono
  <1> QED
    BY <1>1, <1>3

LEMMA LoanInitInv == KineticInit => LoanInv
  BY PartiesAssumption, KineticAssumption DEF KineticInit, LoanInv

LEMMA LoanCallInv ==
  ASSUME NEW u \in Users, NEW n \in Nat, LoanInv,
         Supply(u, n) \/ Borrow(u, n) \/ Repay(u, n) \/ Liquidate(u, n)
  PROVE  LoanInv'
  <1>1. CASE Supply(u, n) \/ Borrow(u, n)
    BY <1>1 DEF LoanInv, Supply, Borrow, kineticSettings
  <1>2. CASE Repay(u, n)
    BY <1>2 DEF LoanInv, Repay, kineticSettings
  <1>3. CASE Liquidate(u, n)
    BY <1>3 DEF LoanInv, Liquidate, kineticSettings
  <1>4. QED
    BY <1>1, <1>2, <1>3

LEMMA LoanNextInv == LoanInv /\ [KineticNext]_kineticVars => LoanInv'
  <1> SUFFICES ASSUME LoanInv, [KineticNext]_kineticVars PROVE LoanInv'
    OBVIOUS
  <1>1. ASSUME NEW u \in Users, KineticCall(u) PROVE LoanInv'
    BY <1>1, LoanCallInv DEF KineticCall
  <1>2. ASSUME NEW n \in Nat, SetKineticPrice(n) \/ SetKineticThreshold(n) PROVE LoanInv'
    BY <1>2 DEF LoanInv, SetKineticPrice, SetKineticThreshold
  <1>3. CASE UNCHANGED kineticVars
    BY <1>3 DEF LoanInv, kineticVars, kineticSettings
  <1>4. QED
    BY <1>1, <1>2, <1>3 DEF KineticNext

\* Every position that is not liquidatable stays so.
HealthKept == \A u \in Users : ~IsLiquidatable(u) => ~IsLiquidatable(u)'

\* The ratio of a position after a call, at the settings before it.
LEMMA RatioAfter ==
  ASSUME NEW v \in Users, UNCHANGED kineticSettings
  PROVE  IsLiquidatable(v)' <=>
            /\ borrowBalance'[v] # 0
            /\ Ratio(supplyBalance'[v], borrowBalance'[v]) < liquidationThresholdBps
  BY DEF IsLiquidatable, CollateralRatioBps, Ratio, kineticSettings

\* A call on u's position that was liquidatable, or that leaves it without debt, at
\* the threshold, or with no less supplied and no more borrowed.
LEMMA HealthByPosition ==
  ASSUME LoanInv, LoanInv', UNCHANGED kineticSettings, NEW u \in Users,
         \A v \in Users \ {u} : UNCHANGED <<supplyBalance[v], borrowBalance[v]>>,
         \/ IsLiquidatable(u)
         \/ ~(Ratio(supplyBalance'[u], borrowBalance'[u]) < liquidationThresholdBps)
         \/ supplyBalance[u] <= supplyBalance'[u] /\ borrowBalance'[u] <= borrowBalance[u]
  PROVE  HealthKept
  <1> SUFFICES ASSUME NEW v \in Users, ~IsLiquidatable(v), borrowBalance'[v] # 0
               PROVE  ~(Ratio(supplyBalance'[v], borrowBalance'[v]) < liquidationThresholdBps)
    BY RatioAfter DEF HealthKept
  <1> DEFINE c == supplyBalance[v]
             d == supplyBalance'[v]
             e == borrowBalance[v]
             f == borrowBalance'[v]
             p == RatioAt(PriceOne, kineticPrice, c, e)
             q == RatioAt(PriceOne, kineticPrice, d, f)
  <1>1. /\ c \in Nat /\ d \in Nat /\ e \in Nat /\ f \in Nat \ {0}
        /\ kineticPrice \in Nat /\ liquidationThresholdBps \in Nat
    BY DEF LoanInv
  <1>2. (c <= d /\ f <= e) \/ ~(Ratio(d, f) < liquidationThresholdBps)
    BY <1>1
  <1>3. CASE c <= d /\ f <= e
    <2>1. e \in Nat \ {0}
      BY <1>1, <1>3
    <2>2. p \in Nat /\ q \in Nat /\ p <= q
      <3> HIDE DEF c, d, e, f
      <3> QED BY <1>1, <1>3, <2>1, PartiesAssumption, RatioMono
    <2>3. ~(p < liquidationThresholdBps)
      BY <2>1 DEF IsLiquidatable, CollateralRatioBps, Ratio, RatioAt
    <2>4. ~(q < liquidationThresholdBps)
      <3> HIDE DEF p, q
      <3> QED BY <1>1, <2>2, <2>3
    <2>5. QED
      BY <1>1, <2>4 DEF Ratio, RatioAt
  <1>4. QED
    BY <1>2, <1>3

LEMMA LoanCallHealth ==
  ASSUME NEW u \in Users, NEW n \in Nat, LoanInv, LoanInv',
         Supply(u, n) \/ Borrow(u, n) \/ Repay(u, n) \/ Liquidate(u, n)
  PROVE  HealthKept
  <1>1. /\ UNCHANGED kineticSettings
        /\ \A v \in Users \ {u} : UNCHANGED <<supplyBalance[v], borrowBalance[v]>>
    BY DEF LoanInv, Supply, Borrow, Repay, Liquidate
  <1>2. CASE Supply(u, n) \/ Repay(u, n)
    <2>1. supplyBalance[u] <= supplyBalance'[u] /\ borrowBalance'[u] <= borrowBalance[u]
      BY <1>2 DEF LoanInv, Supply, Repay
    <2>2. QED
      BY <1>1, <2>1, HealthByPosition
  <1>3. CASE Borrow(u, n)
    <2> DEFINE r == Ratio(supplyBalance'[u], borrowBalance'[u])
    <2>1. r >= liquidationThresholdBps /\ borrowBalance'[u] \in Nat \ {0}
      BY <1>3 DEF LoanInv, Borrow, Borrowable
    <2>2. r \in Nat
      <3>1. supplyBalance'[u] \in Nat /\ kineticPrice \in Nat
        BY DEF LoanInv
      <3>2. QED
        BY <2>1, <3>1, RatioNat
    <2>3. ~(r < liquidationThresholdBps)
      <3> HIDE DEF r
      <3> QED BY <2>1, <2>2 DEF LoanInv
    <2>4. QED
      BY <1>1, <2>3, HealthByPosition
  <1>4. CASE Liquidate(u, n)
    <2>1. IsLiquidatable(u)
      BY <1>4 DEF Liquidate
    <2>2. QED
      BY <1>1, <2>1, HealthByPosition
  <1>5. QED
    BY <1>2, <1>3, <1>4

\* CallsKeepKineticHealthy: no call makes a position liquidatable, its user's own,
\* another's, or a liquidation, for any amounts, prices and thresholds.
THEOREM CallsKeepLoansHealthy == KineticSpec => CallsKeepKineticHealthy
  <1> DEFINE Kept == UNCHANGED kineticSettings =>
                        \A u \in Users : ~IsLiquidatable(u) => ~IsLiquidatable(u)'
  <1>1. LoanInv /\ LoanInv' /\ [KineticNext]_kineticVars => [Kept]_kineticVars
    <2> SUFFICES ASSUME LoanInv, LoanInv', KineticNext, UNCHANGED kineticSettings
                 PROVE  HealthKept
      BY DEF HealthKept
    <2>1. ASSUME NEW u \in Users, KineticCall(u) PROVE HealthKept
      BY <2>1, LoanCallHealth DEF KineticCall
    <2>2. ASSUME NEW n \in Nat, SetKineticPrice(n) \/ SetKineticThreshold(n) PROVE HealthKept
      BY <2>2 DEF SetKineticPrice, SetKineticThreshold, HealthKept, IsLiquidatable,
                  CollateralRatioBps, Ratio, kineticSettings
    <2>3. QED
      BY <2>1, <2>2 DEF KineticNext
  <1>2. KineticSpec => []LoanInv
    BY LoanInitInv, LoanNextInv, PTL DEF KineticSpec
  <1>3. KineticSpec => [][Kept]_kineticVars
    BY <1>1, <1>2, PTL DEF KineticSpec
  <1>4. QED
    BY <1>3 DEF CallsKeepKineticHealthy

(* The books of the pool. *)

KineticInv == KineticTypeOK /\ KineticBooksBalance

LEMMA KineticInitInv == KineticInit => KineticInv
  <1> SUFFICES ASSUME KineticInit PROVE KineticInv
    OBVIOUS
  <1>1. \A u \in Users : supplyBalance[u] = 0 /\ borrowBalance[u] = 0
    BY DEF KineticInit
  <1>2. SumFunctionOnSet(supplyBalance, Users) = 0 /\ SumFunctionOnSet(borrowBalance, Users) = 0
    BY <1>1, PartiesAssumption, SumZero
  <1>3. KineticTypeOK
    BY PartiesAssumption, KineticAssumption DEF KineticInit, KineticTypeOK
  <1> QED
    BY <1>2, <1>3, KineticAssumption DEF KineticInit, KineticInv, KineticBooksBalance

LEMMA KineticStutterInv == KineticInv /\ UNCHANGED kineticVars => KineticInv'
  BY DEF KineticInv, KineticTypeOK, KineticBooksBalance, kineticVars, kineticSettings

LEMMA KineticOwnerInv ==
  ASSUME NEW n \in Nat, KineticInv, SetKineticPrice(n) \/ SetKineticThreshold(n)
  PROVE  KineticInv'
  BY DEF KineticInv, KineticTypeOK, KineticBooksBalance, SetKineticPrice, SetKineticThreshold

\* A call moves one position, and the totals and the pool by as much.
LEMMA PositionChange ==
  ASSUME KineticInv, NEW u \in Users, NEW s \in Nat, NEW b \in Nat,
         supplyBalance' = [supplyBalance EXCEPT ![u] = s],
         borrowBalance' = [borrowBalance EXCEPT ![u] = b],
         totalSupply' = totalSupply - supplyBalance[u] + s,
         totalBorrow' = totalBorrow - borrowBalance[u] + b,
         kineticHeld' = kineticHeld + (s - supplyBalance[u]) - (b - borrowBalance[u]),
         kineticHeld' \in Nat, UNCHANGED kineticSettings
  PROVE  KineticInv'
  <1>1. /\ supplyBalance \in [Users -> Nat] /\ borrowBalance \in [Users -> Nat]
        /\ supplyBalance \in [Users -> Int] /\ borrowBalance \in [Users -> Int]
        /\ totalSupply \in Nat /\ totalBorrow \in Nat /\ kineticHeld \in Nat /\ PoolSeed \in Nat
        /\ supplyBalance[u] \in Nat /\ borrowBalance[u] \in Nat
    BY KineticAssumption DEF KineticInv, KineticTypeOK
  <1>2. supplyBalance' \in [Users -> Nat] /\ borrowBalance' \in [Users -> Nat]
    BY <1>1
  <1>3. totalSupply' = SumFunctionOnSet(supplyBalance', Users)
    <2>1. /\ \A v \in Users : supplyBalance[v] \in Int /\ supplyBalance'[v] \in Int
          /\ \A v \in Users \ {u} : supplyBalance'[v] = supplyBalance[v]
          /\ supplyBalance'[u] = s
      BY <1>1
    <2> PICK f : f = supplyBalance
      OBVIOUS
    <2> PICK g : g = supplyBalance'
      OBVIOUS
    <2>2. SumFunctionOnSet(g, Users) = SumFunctionOnSet(f, Users) - f[u] + g[u]
      <3>1. /\ \A v \in Users : f[v] \in Int /\ g[v] \in Int
            /\ \A v \in Users \ {u} : g[v] = f[v]
        BY <2>1
      <3> QED
        BY ONLY <3>1, PartiesAssumption, SumChange, u \in Users
    <2> QED
      BY <2>1, <2>2 DEF KineticInv, KineticBooksBalance
  <1>4. totalBorrow' = SumFunctionOnSet(borrowBalance', Users)
    <2>1. /\ \A v \in Users : borrowBalance[v] \in Int /\ borrowBalance'[v] \in Int
          /\ \A v \in Users \ {u} : borrowBalance'[v] = borrowBalance[v]
          /\ borrowBalance'[u] = b
      BY <1>1
    <2> PICK f : f = borrowBalance
      OBVIOUS
    <2> PICK g : g = borrowBalance'
      OBVIOUS
    <2>2. SumFunctionOnSet(g, Users) = SumFunctionOnSet(f, Users) - f[u] + g[u]
      <3>1. /\ \A v \in Users : f[v] \in Int /\ g[v] \in Int
            /\ \A v \in Users \ {u} : g[v] = f[v]
        BY <2>1
      <3> QED
        BY ONLY <3>1, PartiesAssumption, SumChange, u \in Users
    <2> QED
      BY <2>1, <2>2 DEF KineticInv, KineticBooksBalance
  <1>5. totalSupply' \in Nat /\ totalBorrow' \in Nat
    <2>1. \A v \in Users : supplyBalance'[v] \in Nat /\ borrowBalance'[v] \in Nat
      BY <1>2
    <2>2. /\ SumFunctionOnSet(supplyBalance', Users) \in Nat
          /\ SumFunctionOnSet(borrowBalance', Users) \in Nat
      BY <2>1, PartiesAssumption, SumNat
    <2> QED
      BY <2>2, <1>3, <1>4
  <1>6. kineticHeld' + totalBorrow' = PoolSeed + totalSupply'
    <2>1. kineticHeld + totalBorrow = PoolSeed + totalSupply
      BY DEF KineticInv, KineticBooksBalance
    <2> QED
      BY <1>1, <2>1
  <1>7. kineticPrice' \in Nat /\ liquidationThresholdBps' \in Nat
    BY DEF KineticInv, KineticTypeOK, kineticSettings
  <1> QED
    BY <1>2, <1>3, <1>4, <1>5, <1>6, <1>7 DEF KineticInv, KineticTypeOK, KineticBooksBalance

LEMMA KineticCallInv ==
  ASSUME NEW u \in Users, NEW n \in Nat, KineticInv,
         Supply(u, n) \/ Borrow(u, n) \/ Repay(u, n) \/ Liquidate(u, n)
  PROVE  KineticInv'
  <1>1. /\ supplyBalance \in [Users -> Nat] /\ borrowBalance \in [Users -> Nat]
        /\ totalSupply \in Nat /\ totalBorrow \in Nat /\ kineticHeld \in Nat
        /\ supplyBalance[u] \in Nat /\ borrowBalance[u] \in Nat
        /\ supplyBalance = [supplyBalance EXCEPT ![u] = supplyBalance[u]]
        /\ borrowBalance = [borrowBalance EXCEPT ![u] = borrowBalance[u]]
    BY DEF KineticInv, KineticTypeOK
  <1>2. CASE Supply(u, n)
    <2> DEFINE s == supplyBalance[u] + n
               b == borrowBalance[u]
    <2>1. s \in Nat /\ b \in Nat
      BY <1>1
    <2>2. /\ supplyBalance' = [supplyBalance EXCEPT ![u] = s]
          /\ borrowBalance' = [borrowBalance EXCEPT ![u] = b]
          /\ totalSupply' = totalSupply - supplyBalance[u] + s
          /\ totalBorrow' = totalBorrow - borrowBalance[u] + b
          /\ kineticHeld' = kineticHeld + (s - supplyBalance[u]) - (b - borrowBalance[u])
          /\ kineticHeld' \in Nat /\ UNCHANGED kineticSettings
      BY <1>1, <1>2 DEF Supply
    <2> HIDE DEF s, b
    <2> QED
      BY <2>1, <2>2, PositionChange
  <1>3. CASE Borrow(u, n)
    <2> DEFINE s == supplyBalance[u]
               b == borrowBalance[u] + n
    <2>1. s \in Nat /\ b \in Nat
      BY <1>1
    <2>2. /\ supplyBalance' = [supplyBalance EXCEPT ![u] = s]
          /\ borrowBalance' = [borrowBalance EXCEPT ![u] = b]
          /\ totalSupply' = totalSupply - supplyBalance[u] + s
          /\ totalBorrow' = totalBorrow - borrowBalance[u] + b
          /\ kineticHeld' = kineticHeld + (s - supplyBalance[u]) - (b - borrowBalance[u])
          /\ kineticHeld' \in Nat /\ UNCHANGED kineticSettings
      BY <1>1, <1>3 DEF Borrow, Borrowable
    <2> HIDE DEF s, b
    <2> QED
      BY <2>1, <2>2, PositionChange
  <1> DEFINE pay   == IF n > borrowBalance[u] THEN borrowBalance[u] ELSE n
             seize == IF pay > supplyBalance[u] THEN supplyBalance[u] ELSE pay
  <1>4. /\ pay \in Nat /\ pay <= borrowBalance[u]
        /\ seize \in Nat /\ seize <= supplyBalance[u] /\ seize <= pay
    BY <1>1
  <1>5. CASE Repay(u, n)
    <2> DEFINE s == supplyBalance[u]
               b == borrowBalance[u] - pay
    <2>1. s \in Nat /\ b \in Nat
      BY <1>1, <1>4
    <2>2. /\ supplyBalance' = [supplyBalance EXCEPT ![u] = s]
          /\ borrowBalance' = [borrowBalance EXCEPT ![u] = b]
      BY <1>1, <1>5 DEF Repay
    <2>3. /\ totalSupply' = totalSupply /\ totalBorrow' = totalBorrow - pay
          /\ kineticHeld' = kineticHeld + pay /\ UNCHANGED kineticSettings
      BY <1>5 DEF Repay
    <2>4. /\ totalSupply' = totalSupply - supplyBalance[u] + s
          /\ totalBorrow' = totalBorrow - borrowBalance[u] + b
          /\ kineticHeld' = kineticHeld + (s - supplyBalance[u]) - (b - borrowBalance[u])
          /\ kineticHeld' \in Nat
      <3> HIDE DEF pay
      <3> QED BY <1>1, <1>4, <2>3
    <2> HIDE DEF s, b
    <2> QED
      BY <2>1, <2>2, <2>3, <2>4, PositionChange
  <1>6. CASE Liquidate(u, n)
    <2> DEFINE s == supplyBalance[u] - seize
               b == borrowBalance[u] - pay
    <2>1. s \in Nat /\ b \in Nat
      <3> HIDE DEF pay, seize
      <3> QED BY <1>1, <1>4
    <2>2. /\ supplyBalance' = [supplyBalance EXCEPT ![u] = s]
          /\ borrowBalance' = [borrowBalance EXCEPT ![u] = b]
      BY <1>1, <1>6 DEF Liquidate
    <2>3. /\ totalSupply' = totalSupply - seize /\ totalBorrow' = totalBorrow - pay
          /\ kineticHeld' = kineticHeld + pay - seize /\ UNCHANGED kineticSettings
      BY <1>6 DEF Liquidate
    <2>4. /\ totalSupply' = totalSupply - supplyBalance[u] + s
          /\ totalBorrow' = totalBorrow - borrowBalance[u] + b
          /\ kineticHeld' = kineticHeld + (s - supplyBalance[u]) - (b - borrowBalance[u])
          /\ kineticHeld' \in Nat
      <3> HIDE DEF pay, seize
      <3> QED BY <1>1, <1>4, <2>3
    <2> HIDE DEF s, b
    <2> QED
      BY <2>1, <2>2, <2>3, <2>4, PositionChange
  <1> QED
    BY <1>2, <1>3, <1>5, <1>6

LEMMA KineticNextInv == KineticInv /\ [KineticNext]_kineticVars => KineticInv'
  <1> SUFFICES ASSUME KineticInv, [KineticNext]_kineticVars PROVE KineticInv'
    OBVIOUS
  <1>1. ASSUME NEW u \in Users, KineticCall(u) PROVE KineticInv'
    BY <1>1, KineticCallInv DEF KineticCall
  <1>2. ASSUME NEW n \in Nat, SetKineticPrice(n) \/ SetKineticThreshold(n) PROVE KineticInv'
    BY <1>2, KineticOwnerInv
  <1> QED
    BY <1>1, <1>2, KineticStutterInv DEF KineticNext

\* Through calls of anybody with any amount the totals of the pool are the sums of its
\* positions and what it holds is its seed and the supplies less what it has lent.
THEOREM PoolBooksBalance == KineticSpec => [](KineticTypeOK /\ KineticBooksBalance)
  <1>1. KineticSpec => []KineticInv
    BY KineticInitInv, KineticNextInv, PTL DEF KineticSpec
  <1> QED
    BY <1>1, PTL DEF KineticInv

-----------------------------------------------------------------------------
(* AlertFeed. *)

AlertTypes == {"liquidation_risk", "topup_executed", "injected"}
                 \cup {WatchedLeads[i] : i \in 1..Len(WatchedLeads)}

Alert == [from : Alerters, n : Nat, type : AlertTypes]

\* How many alerts of a process its sink may have.
Undelivered(p) ==
    IF posting[p] # NoAlert /\ p \notin received THEN Len(told[p]) - 1 ELSE Len(told[p])

\* A list holds nothing that its sender has not delivered.
Behind(list) == \A i \in 1..Len(list) : list[i].n < Undelivered(list[i].from)

AlertFeedTypes ==
    /\ alerts \in [Processes -> Seq(Alert)]
    /\ latestFile \in Seq(Alert) /\ store \in Seq(Alert)
    /\ posting \in [Alerters -> Alert \cup {NoAlert}]
    /\ echoes \subseteq Alert
    /\ told \in [Alerters -> Seq(AlertTypes)]

\* What a process keeps are alerts of its own, and its fetch carries the last.
OwnList(p) ==
    /\ \A i \in 1..Len(alerts[p]) : alerts[p][i].from = p /\ alerts[p][i].n < Len(told[p])
    /\ InSendersOrder(alerts[p])

OwnPost(p) == posting[p] # NoAlert => posting[p].from = p /\ posting[p].n = Len(told[p]) - 1

OwnAlerts == \A p \in Alerters : OwnList(p) /\ OwnPost(p)

\* A recorder that does not post to itself has each alert once.
Unrepeated ==
    /\ echoes = {}
    /\ Behind(alerts["recorder"]) /\ InSendersOrder(alerts["recorder"])

AlertFeedInv ==
    /\ AlertFeedTypes /\ OwnAlerts
    /\ Behind(store)
    /\ sink # "echo" => Unrepeated
    /\ FeedsInOrder

LEMMA NoAlertIsNone == NoAlert \notin Alert
  <1> SUFFICES ASSUME NoAlert \in Alert PROVE FALSE
    OBVIOUS
  <1>1. DOMAIN NoAlert = {"from", "n", "type"}
    BY DEF Alert
  <1>2. DOMAIN NoAlert = {"from"}
    BY DEF NoAlert
  <1> QED
    BY <1>1, <1>2

LEMMA AlertOfList ==
  ASSUME NEW list \in Seq(Alert), NEW i \in 1..Len(list)
  PROVE  list[i] \in Alert /\ list[i].from \in Alerters /\ list[i].n \in Nat
  <1>1. list[i] \in Alert
    OBVIOUS
  <1> QED
    BY <1>1 DEF Alert

LEMMA LastOnesFacts ==
  ASSUME NEW list \in Seq(Alert)
  PROVE  /\ LastOnes(list) \in Seq(Alert) /\ Len(LastOnes(list)) <= KeptAlerts
         /\ \E k \in Nat : /\ Len(LastOnes(list)) + k = Len(list)
                           /\ \A i \in 1..Len(LastOnes(list)) : LastOnes(list)[i] = list[k + i]
  <1>1. PICK k \in Nat : /\ LastOnes(list) = SubSeq(list, k + 1, Len(list))
                        /\ k <= Len(list) /\ Len(list) <= KeptAlerts + k
    <2>1. Len(list) \in Nat /\ KeptAlerts \in Nat
      BY AlertAssumption
    <2>2. CASE Len(list) > KeptAlerts
      <3>1. Len(list) - KeptAlerts \in Nat
        BY <2>1, <2>2
      <3>2. LastOnes(list) = SubSeq(list, (Len(list) - KeptAlerts) + 1, Len(list))
        BY <2>2 DEF LastOnes
      <3>3. Len(list) - KeptAlerts <= Len(list) /\ Len(list) <= KeptAlerts + (Len(list) - KeptAlerts)
        BY <2>1, <2>2
      <3> QED
        BY <3>1, <3>2, <3>3, Zenon
    <2>3. CASE ~(Len(list) > KeptAlerts)
      <3>1. LastOnes(list) = SubSeq(list, 0 + 1, Len(list))
        BY <2>3 DEF LastOnes
      <3> QED
        BY <2>1, <2>3, <3>1
    <2> QED
      BY <2>2, <2>3
  <1> DEFINE last == SubSeq(list, k + 1, Len(list))
  <1>2. last \in Seq(Alert) /\ Len(last) = Len(list) - k
        /\ \A i \in 1..(Len(list) - k) : last[i] = list[k + i]
    BY <1>1
  <1>3. LastOnes(list) = last
    BY <1>1
  <1> HIDE DEF last
  <1>4. Len(list) \in Nat /\ KeptAlerts \in Nat
    BY AlertAssumption
  <1>5. Len(last) + k = Len(list) /\ Len(last) <= KeptAlerts
    BY <1>1, <1>2, <1>4
  <1>6. \A i \in 1..Len(last) : last[i] = list[k + i]
    BY <1>2
  <1> QED
    BY <1>2, <1>3, <1>5, <1>6

\* The end of a list in order is in order.
LEMMA LastOnesInOrder ==
  ASSUME NEW list \in Seq(Alert), InSendersOrder(list)
  PROVE  /\ LastOnes(list) \in Seq(Alert) /\ Len(LastOnes(list)) <= KeptAlerts
         /\ InSendersOrder(LastOnes(list))
         /\ Behind(list)' => Behind(LastOnes(list))'
  <1> PICK k \in Nat : /\ Len(LastOnes(list)) + k = Len(list)
                       /\ \A i \in 1..Len(LastOnes(list)) : LastOnes(list)[i] = list[k + i]
    BY LastOnesFacts
  <1> DEFINE last == LastOnes(list)
  <1>1. last \in Seq(Alert) /\ Len(last) <= KeptAlerts /\ Len(last) \in Nat /\ Len(list) \in Nat
    BY LastOnesFacts
  <1>2. \A i \in 1..Len(last) : last[i] = list[k + i] /\ k + i \in 1..Len(list)
    BY <1>1
  <1>3. Len(last) + k = Len(list)
    OBVIOUS
  <1> HIDE DEF last
  <1>4. InSendersOrder(last)
    <2>0. DOMAIN last = 1..Len(last) /\ DOMAIN list = 1..Len(list)
      BY <1>1
    <2> SUFFICES ASSUME NEW i \in 1..Len(last), NEW j \in 1..Len(last), i < j,
                        last[i].from = last[j].from
                 PROVE  last[i].n < last[j].n
      BY <2>0 DEF InSendersOrder
    <2>1. k + i \in 1..Len(list) /\ k + j \in 1..Len(list) /\ k + i < k + j
      BY <1>1, <1>2
    <2>2. last[i] = list[k + i] /\ last[j] = list[k + j]
      BY <1>2
    <2> QED
      BY <2>0, <2>1, <2>2 DEF InSendersOrder
  <1>5. ASSUME Behind(list)' PROVE Behind(last)'
    BY <1>2, <1>5 DEF Behind
  <1> QED
    BY <1>1, <1>4, <1>5 DEF last

\* An alert is newer than what the list has of its sender.
LEMMA AppendInOrder ==
  ASSUME NEW list \in Seq(Alert), InSendersOrder(list), NEW alert \in Alert,
         \A i \in 1..Len(list) : list[i].from = alert.from => list[i].n < alert.n
  PROVE  Append(list, alert) \in Seq(Alert) /\ InSendersOrder(Append(list, alert))
  <1> DEFINE longer == Append(list, alert)
  <1>1. /\ longer \in Seq(Alert) /\ Len(longer) = Len(list) + 1 /\ Len(list) \in Nat
        /\ DOMAIN longer = 1..(Len(list) + 1)
        /\ \A i \in 1..Len(list) : longer[i] = list[i]
        /\ longer[Len(list) + 1] = alert
    OBVIOUS
  <1> HIDE DEF longer
  <1>2. InSendersOrder(longer)
    <2> SUFFICES ASSUME NEW i \in 1..(Len(list) + 1), NEW j \in 1..(Len(list) + 1), i < j,
                        longer[i].from = longer[j].from
                 PROVE  longer[i].n < longer[j].n
      BY <1>1 DEF InSendersOrder
    <2>1. i \in 1..Len(list)
      BY <1>1
    <2>2. CASE j \in 1..Len(list)
      BY <1>1, <2>1, <2>2 DEF InSendersOrder
    <2>3. CASE j = Len(list) + 1
      BY <1>1, <2>1, <2>3
    <2> QED
      BY <1>1, <2>2, <2>3
  <1> QED
    BY <1>1, <1>2 DEF longer

\* A list with one more alert that is delivered.
LEMMA AppendBehind ==
  ASSUME NEW list \in Seq(Alert), NEW alert \in Alert, Behind(list)',
         alert.n < Undelivered(alert.from)'
  PROVE  \A longer : longer = Append(list, alert) => Behind(longer)'
  <1> SUFFICES ASSUME NEW longer, longer = Append(list, alert) PROVE Behind(longer)'
    OBVIOUS
  <1>1. /\ Len(longer) = Len(list) + 1 /\ Len(list) \in Nat
        /\ \A i \in 1..Len(list) : longer[i] = list[i]
        /\ longer[Len(list) + 1] = alert
    OBVIOUS
  <1> SUFFICES ASSUME NEW i \in 1..(Len(list) + 1)
               PROVE  longer[i].n < Undelivered(longer[i].from)'
    BY <1>1 DEF Behind
  <1>2. CASE i \in 1..Len(list)
    <2>1. longer[i] = list[i] /\ list[i].n < Undelivered(list[i].from)'
      BY <1>1, <1>2 DEF Behind
    <2> QED
      BY <2>1
  <1>3. CASE i = Len(list) + 1
    BY <1>1, <1>3
  <1> QED
    BY <1>1, <1>2, <1>3

\* What a process keeps, in its list and in the file.
LEMMA KeepFacts ==
  ASSUME NEW p \in Processes, NEW alert \in Alert, AlertFeedTypes, Keep(p, alert)
  PROVE  /\ alerts' \in [Processes -> Seq(Alert)] /\ latestFile' \in Seq(Alert)
         /\ alerts'[p] = LastOnes(Append(alerts[p], alert)) /\ latestFile' = alerts'[p]
         /\ Len(latestFile') <= KeptAlerts
         /\ \A q \in Processes : q # p => alerts'[q] = alerts[q]
  <1>1. alerts[p] \in Seq(Alert) /\ alerts \in [Processes -> Seq(Alert)]
    BY DEF AlertFeedTypes
  <1>2. PICK list \in Seq(Alert) : list = Append(alerts[p], alert)
    <2>1. PICK kept \in Seq(Alert) : kept = alerts[p]
      BY <1>1
    <2>2. Append(kept, alert) \in Seq(Alert)
      OBVIOUS
    <2> QED
      BY <2>1, <2>2
  <1>3. alerts' = [alerts EXCEPT ![p] = LastOnes(list)] /\ latestFile' = LastOnes(list)
    BY <1>2 DEF Keep
  <1>4. LastOnes(list) \in Seq(Alert) /\ Len(LastOnes(list)) <= KeptAlerts
    BY LastOnesFacts
  <1>5. PICK last \in Seq(Alert) : last = LastOnes(list) /\ Len(last) <= KeptAlerts
    BY <1>4
  <1>6. /\ alerts' \in [Processes -> Seq(Alert)] /\ alerts'[p] = last
        /\ \A q \in Processes : q # p => alerts'[q] = alerts[q]
    BY <1>1, <1>3, <1>5, Zenon
  <1> QED
    BY <1>2, <1>3, <1>5, <1>6, Zenon

\* A list falls behind no less while its senders deliver.
LEMMA BehindKept ==
  ASSUME AlertFeedTypes, AlertFeedTypes', NEW list \in Seq(Alert), Behind(list),
         \A q \in Alerters : Undelivered(q) <= Undelivered(q)'
  PROVE  Behind(list)'
  <1> SUFFICES ASSUME NEW i \in 1..Len(list) PROVE list[i].n < Undelivered(list[i].from)'
    BY DEF Behind
  <1>1. PICK q \in Alerters, n \in Nat : q = list[i].from /\ n = list[i].n
    BY AlertOfList
  <1>2. told[q] \in Seq(AlertTypes) /\ told'[q] \in Seq(AlertTypes)
    BY DEF AlertFeedTypes
  <1>3. Len(told[q]) \in Nat /\ Len(told'[q]) \in Nat
    BY <1>2
  <1>4. Undelivered(q) \in Int /\ Undelivered(q)' \in Int
    BY <1>3 DEF Undelivered
  <1>5. n < Undelivered(q) /\ Undelivered(q) <= Undelivered(q)'
    BY <1>1 DEF Behind
  <1>6. n < Undelivered(q)'
    BY <1>4, <1>5
  <1> QED
    BY <1>1, <1>6

LEMMA EmptyInOrder == <<>> \in Seq(Alert) /\ InSendersOrder(<<>>) /\ Len(<<>>) = 0
  BY DEF InSendersOrder

LEMMA RecorderApart == "recorder" \in Processes /\ \A p \in Alerters : p \in Processes /\ p # "recorder"
  BY AlertAssumption DEF Processes

LEMMA AlertInitInv == AlertInit => AlertFeedInv
  <1> SUFFICES ASSUME AlertInit PROVE AlertFeedInv
    OBVIOUS
  <1>0. <<>> \in Seq(AlertTypes)
    OBVIOUS
  <1>1. AlertFeedTypes
    BY <1>0, EmptyInOrder, Zenon DEF AlertInit, AlertFeedTypes
  <1>2. alerts["recorder"] = <<>> /\ \A p \in Alerters : alerts[p] = <<>> /\ posting[p] = NoAlert
    BY RecorderApart DEF AlertInit
  <1>3. OwnAlerts
    BY <1>2, EmptyInOrder DEF OwnAlerts, OwnList, OwnPost
  <1>4. store = <<>> /\ latestFile = <<>> /\ echoes = {}
    BY DEF AlertInit
  <1>5. Behind(store) /\ Behind(alerts["recorder"])
    BY <1>2, <1>4 DEF Behind
  <1>6. 0 <= KeptAlerts
    BY AlertAssumption
  <1> QED
    BY <1>1, <1>2, <1>3, <1>4, <1>5, <1>6, EmptyInOrder DEF AlertFeedInv, FeedsInOrder, Unrepeated

LEMMA AlertStutterInv == AlertFeedInv /\ UNCHANGED alertVars => AlertFeedInv'
  <1> SUFFICES ASSUME AlertFeedInv, UNCHANGED alertVars PROVE AlertFeedInv'
    OBVIOUS
  <1>1. /\ sink' = sink /\ alerts' = alerts /\ latestFile' = latestFile /\ posting' = posting
        /\ received' = received /\ echoes' = echoes /\ store' = store /\ told' = told
    BY DEF alertVars
  <1>2. AlertFeedTypes'
    BY <1>1 DEF AlertFeedInv, AlertFeedTypes
  <1>3. OwnAlerts'
    BY <1>1 DEF AlertFeedInv, OwnAlerts, OwnList, OwnPost
  <1>4. Behind(store)'
    BY <1>1 DEF AlertFeedInv, Behind, Undelivered
  <1>5. (sink # "echo" => Unrepeated)'
    BY <1>1 DEF AlertFeedInv, Unrepeated, Behind, Undelivered
  <1>6. FeedsInOrder'
    BY <1>1 DEF AlertFeedInv, FeedsInOrder
  <1> QED
    BY <1>2, <1>3, <1>4, <1>5, <1>6 DEF AlertFeedInv

LEMMA SendAlertInv ==
  ASSUME NEW p \in Alerters, NEW type \in AlertTypes, AlertFeedInv, SendAlert(p, type)
  PROVE  AlertFeedInv'
  <1> PICK old \in Seq(Alert) : old = alerts[p]
    BY RecorderApart DEF AlertFeedInv, AlertFeedTypes
  <1> PICK said \in Seq(AlertTypes) : said = told[p]
    BY DEF AlertFeedInv, AlertFeedTypes
  <1> DEFINE alert == [from |-> p, n |-> Len(said), type |-> type]
  <1>1. /\ alert \in Alert /\ alert.from = p /\ alert.n = Len(said) /\ Len(said) \in Nat
    BY DEF Alert
  <1>2. /\ Keep(p, alert) /\ posting[p] = NoAlert /\ UNCHANGED <<sink, received, echoes, store>>
        /\ posting' = [posting EXCEPT ![p] = IF sink = "unset" THEN NoAlert ELSE alert]
        /\ told' = [told EXCEPT ![p] = Append(said, type)]
    BY DEF SendAlert
  <1> HIDE DEF alert
  <1>3. /\ AlertFeedTypes /\ p \in Processes /\ "recorder" \in Processes /\ p # "recorder"
        /\ \A i \in 1..Len(old) : old[i].from = p /\ old[i].n < Len(said)
        /\ InSendersOrder(old)
    BY RecorderApart DEF AlertFeedInv, OwnAlerts, OwnList
  <1>4. PICK longer \in Seq(Alert) : /\ longer = Append(old, alert) /\ InSendersOrder(longer)
                                     /\ Len(longer) = Len(old) + 1 /\ Len(old) \in Nat
                                     /\ \A i \in 1..Len(old) : longer[i] = old[i]
                                     /\ longer[Len(old) + 1] = alert
    <2>1. Append(old, alert) \in Seq(Alert) /\ InSendersOrder(Append(old, alert))
      BY <1>1, <1>3, AppendInOrder
    <2>2. /\ Len(Append(old, alert)) = Len(old) + 1 /\ Len(old) \in Nat
          /\ \A i \in 1..Len(old) : Append(old, alert)[i] = old[i]
          /\ Append(old, alert)[Len(old) + 1] = alert
      BY <1>1
    <2> QED
      BY <2>1, <2>2, Zenon
  <1>5. /\ alerts' \in [Processes -> Seq(Alert)] /\ latestFile' \in Seq(Alert)
        /\ alerts'[p] = LastOnes(longer) /\ latestFile' = alerts'[p] /\ Len(latestFile') <= KeptAlerts
        /\ \A q \in Processes : q # p => alerts'[q] = alerts[q]
    BY <1>1, <1>2, <1>3, <1>4, KeepFacts
  <1>6. InSendersOrder(alerts'[p]) /\ InSendersOrder(latestFile')
    BY <1>4, <1>5, LastOnesInOrder
  <1>7. /\ posting \in [Alerters -> Alert \cup {NoAlert}] /\ told \in [Alerters -> Seq(AlertTypes)]
        /\ store \in Seq(Alert) /\ echoes \subseteq Alert
    BY <1>3 DEF AlertFeedTypes
  <1>8. /\ posting' \in [Alerters -> Alert \cup {NoAlert}]
        /\ posting'[p] = NoAlert \/ posting'[p] = alert
        /\ \A q \in Alerters : q # p => posting'[q] = posting[q]
    BY <1>1, <1>2, <1>7
  <1>9. PICK saying \in Seq(AlertTypes) : saying = Append(said, type) /\ Len(saying) = Len(said) + 1
    <2>1. Append(said, type) \in Seq(AlertTypes) /\ Len(Append(said, type)) = Len(said) + 1
      OBVIOUS
    <2> QED
      BY <2>1, Zenon
  <1>10. /\ told' \in [Alerters -> Seq(AlertTypes)] /\ told'[p] = saying
         /\ \A q \in Alerters : q # p => told'[q] = told[q]
    BY <1>2, <1>7, <1>9
  <1>11. AlertFeedTypes'
    BY <1>2, <1>5, <1>7, <1>8, <1>10 DEF AlertFeedTypes
  <1>12. OwnAlerts'
    <2> SUFFICES ASSUME NEW q \in Alerters PROVE OwnList(q)' /\ OwnPost(q)'
      BY DEF OwnAlerts
    <2>1. CASE q = p
      <3>1. \A i \in 1..Len(longer) : longer[i].from = p /\ longer[i].n < Len(saying)
        <4> SUFFICES ASSUME NEW i \in 1..Len(longer)
                     PROVE  longer[i].from = p /\ longer[i].n < Len(saying)
          OBVIOUS
        <4>1. CASE i \in 1..Len(old)
          <5>1. PICK n \in Nat : n = old[i].n
            BY <4>1, AlertOfList
          <5>2. longer[i] = old[i] /\ old[i].from = p /\ n < Len(said)
            BY <1>3, <1>4, <4>1, <5>1
          <5> QED
            BY <1>1, <1>9, <5>1, <5>2
        <4>2. CASE i = Len(old) + 1
          BY <1>1, <1>4, <1>9, <4>2
        <4> QED
          BY <1>4, <4>1, <4>2
      <3>2. PICK last \in Seq(Alert), k \in Nat :
                /\ last = LastOnes(longer) /\ Len(last) + k = Len(longer)
                /\ \A i \in 1..Len(last) : last[i] = longer[k + i]
        BY LastOnesFacts
      <3>3. \A i \in 1..Len(last) : last[i].from = p /\ last[i].n < Len(saying)
        <4> SUFFICES ASSUME NEW i \in 1..Len(last) PROVE last[i].from = p /\ last[i].n < Len(saying)
          OBVIOUS
        <4>1. k + i \in 1..Len(longer)
          BY <3>2
        <4> QED
          BY <3>1, <3>2, <4>1
      <3>4. alerts'[q] = last /\ told'[q] = saying /\ InSendersOrder(last)
        BY <1>5, <1>6, <1>10, <2>1, <3>2
      <3>5. alert.from = q /\ alert.n = Len(saying) - 1
        BY <1>1, <1>9, <2>1
      <3>6. posting'[q] = NoAlert \/ posting'[q] = alert
        BY <1>8, <2>1
      <3>7. OwnList(q)'
        BY <2>1, <3>3, <3>4 DEF OwnList
      <3> QED
        BY <3>4, <3>5, <3>6, <3>7 DEF OwnPost
    <2>2. CASE q # p
      <3>1. alerts'[q] = alerts[q] /\ posting'[q] = posting[q] /\ told'[q] = told[q]
        BY <1>5, <1>8, <1>10, <2>2, RecorderApart
      <3>2. OwnList(q) /\ OwnPost(q)
        BY DEF AlertFeedInv, OwnAlerts
      <3> QED
        BY <3>1, <3>2 DEF OwnList, OwnPost
    <2> QED
      BY <2>1, <2>2
  <1>13. \A q \in Alerters : Undelivered(q) <= Undelivered(q)'
    <2> SUFFICES ASSUME NEW q \in Alerters PROVE Undelivered(q) <= Undelivered(q)'
      OBVIOUS
    <2>1. CASE q = p
      <3>1. Undelivered(q) = Len(said)
        BY <1>2, <2>1 DEF Undelivered
      <3>2. Undelivered(q)' = Len(saying) \/ Undelivered(q)' = Len(saying) - 1
        BY <1>10, <2>1 DEF Undelivered
      <3> QED
        BY <1>1, <1>9, <3>1, <3>2
    <2>2. CASE q # p
      <3>1. posting'[q] = posting[q] /\ told'[q] = told[q] /\ received' = received
        BY <1>2, <1>8, <1>10, <2>2
      <3>2. Undelivered(q)' = Undelivered(q)
        BY <3>1 DEF Undelivered
      <3>3. told[q] \in Seq(AlertTypes)
        BY <1>7
      <3>4. Len(told[q]) \in Nat
        BY <3>3
      <3>5. Undelivered(q) \in Int
        BY <3>4 DEF Undelivered
      <3> QED
        BY <3>2, <3>5
    <2> QED
      BY <2>1, <2>2
  <1>14. ASSUME NEW list \in Seq(Alert), Behind(list) PROVE Behind(list)'
    BY <1>3, <1>11, <1>13, <1>14, BehindKept
  <1>15. PICK s \in Seq(Alert), r \in Seq(Alert) : s = store /\ r = alerts["recorder"]
    BY <1>3 DEF AlertFeedTypes
  <1>16. store' = s /\ alerts'["recorder"] = r
    BY <1>2, <1>3, <1>5, <1>15
  <1>17. Behind(store)'
    <2>1. Behind(s)'
      BY <1>14, <1>15 DEF AlertFeedInv
    <2> QED
      BY <1>16, <2>1 DEF Behind
  <1>18. (sink # "echo" => Unrepeated)'
    <2> SUFFICES ASSUME sink' # "echo" PROVE Unrepeated'
      OBVIOUS
    <2>1. echoes = {} /\ Behind(r) /\ InSendersOrder(r)
      BY <1>2, <1>15 DEF AlertFeedInv, Unrepeated
    <2>2. Behind(r)'
      BY <1>14, <2>1
    <2> QED
      BY <1>2, <1>16, <2>1, <2>2 DEF Unrepeated, Behind
  <1>19. FeedsInOrder'
    BY <1>2, <1>5, <1>6 DEF AlertFeedInv, FeedsInOrder
  <1> QED
    BY <1>11, <1>12, <1>17, <1>18, <1>19 DEF AlertFeedInv

\* What has been told grows by sending alone.
LEMMA ToldKept ==
  ASSUME AlertNext \/ \E p \in Alerters : AlerterStarts(p)
  PROVE  told' = told
  BY DEF AlertNext, Deliver, FetchSettles, Echo, ColdStart, AlerterStarts

LEMMA SendTells ==
  ASSUME AlertFeedTypes, NEW p \in Alerters, NEW type, SendAlert(p, type)
  PROVE  /\ told'[p] = Append(told[p], type)
         /\ \A q \in Alerters \ {p} : told'[q] = told[q]
  <1>1. told \in [Alerters -> Seq(AlertTypes)] /\ told' = [told EXCEPT ![p] = Append(told[p], type)]
    BY DEF AlertFeedTypes, SendAlert
  <1> QED
    BY <1>1

LEMMA OwnAlertsKept ==
  ASSUME OwnAlerts, told' = told, \A q \in Alerters : alerts'[q] = alerts[q],
         \A q \in Alerters : posting'[q] = posting[q] \/ posting'[q] = NoAlert
  PROVE  OwnAlerts'
  <1> SUFFICES ASSUME NEW q \in Alerters PROVE OwnList(q)' /\ OwnPost(q)'
    BY DEF OwnAlerts
  <1>1. OwnList(q) /\ OwnPost(q)
    BY DEF OwnAlerts
  <1>2. alerts'[q] = alerts[q] /\ told'[q] = told[q]
    OBVIOUS
  <1>3. posting'[q] = posting[q] \/ posting'[q] = NoAlert
    OBVIOUS
  <1> QED
    BY <1>1, <1>2, <1>3 DEF OwnList, OwnPost

\* While no alert is sent or delivered and no fetch settles.
LEMMA BehindSame ==
  ASSUME UNCHANGED <<posting, received, told>>
  PROVE  \A list : Behind(list) => Behind(list)'
  BY DEF Behind, Undelivered

LEMMA AlerterStartsInv ==
  ASSUME NEW p \in Alerters, AlertFeedInv, AlerterStarts(p)
  PROVE  AlertFeedInv'
  <1>1. /\ AlertFeedTypes /\ alerts \in [Processes -> Seq(Alert)] /\ p \in Processes
        /\ p # "recorder" /\ "recorder" \in Processes
    BY RecorderApart DEF AlertFeedInv, AlertFeedTypes
  <1>2. /\ alerts' = [alerts EXCEPT ![p] = <<>>]
        /\ UNCHANGED <<sink, latestFile, posting, received, echoes, store, told>>
    BY DEF AlerterStarts
  <1>3. /\ alerts' \in [Processes -> Seq(Alert)] /\ alerts'[p] = <<>>
        /\ \A q \in Processes : q # p => alerts'[q] = alerts[q]
    BY <1>1, <1>2, EmptyInOrder, Zenon
  <1>4. AlertFeedTypes'
    BY <1>1, <1>2, <1>3 DEF AlertFeedTypes
  <1>5. OwnAlerts'
    <2> SUFFICES ASSUME NEW q \in Alerters PROVE OwnList(q)' /\ OwnPost(q)'
      BY DEF OwnAlerts
    <2>1. OwnList(q) /\ OwnPost(q)
      BY DEF AlertFeedInv, OwnAlerts
    <2>2. alerts'[q] = <<>> \/ alerts'[q] = alerts[q]
      BY <1>3, RecorderApart
    <2> QED
      BY <1>2, <2>1, <2>2, EmptyInOrder DEF OwnList, OwnPost
  <1>6. alerts'["recorder"] = alerts["recorder"]
    BY <1>1, <1>3
  <1>7. Behind(store)'
    BY <1>2, BehindSame DEF AlertFeedInv, Behind
  <1>8. (sink # "echo" => Unrepeated)'
    BY <1>2, <1>6, BehindSame DEF AlertFeedInv, Unrepeated, Behind
  <1>9. FeedsInOrder'
    BY <1>2 DEF AlertFeedInv, FeedsInOrder
  <1> QED
    BY <1>4, <1>5, <1>7, <1>8, <1>9 DEF AlertFeedInv

LEMMA DeliverInv ==
  ASSUME NEW p \in Alerters, AlertFeedInv, Deliver(p)
  PROVE  AlertFeedInv'
  <1>1. /\ AlertFeedTypes /\ OwnAlerts /\ Behind(store) /\ InSendersOrder(store)
        /\ Len(store) <= KeptAlerts /\ Len(latestFile) <= KeptAlerts
    BY DEF AlertFeedInv, FeedsInOrder
  <1>2. /\ posting[p] # NoAlert /\ p \notin received
        /\ received' = received \cup {p} /\ posting' = posting /\ told' = told
    BY DEF Deliver
  <1>3. PICK alert \in Alert : alert = posting[p]
    BY <1>1, <1>2 DEF AlertFeedTypes
  <1>4. PICK s \in Seq(Alert), r \in Seq(Alert) : s = store /\ r = alerts["recorder"]
    BY <1>1, RecorderApart DEF AlertFeedTypes
  <1>5. PICK said \in Seq(AlertTypes) : said = told[p]
    BY <1>1 DEF AlertFeedTypes
  <1>6. /\ Len(said) \in Nat /\ alert.from = p /\ alert.n = Len(said) - 1
        /\ Undelivered(p) = Len(said) - 1 /\ Undelivered(p)' = Len(said)
    <2>1. Len(said) \in Nat
      OBVIOUS
    <2>2. OwnPost(p)
      BY <1>1 DEF OwnAlerts
    <2> QED
      BY <1>2, <1>3, <1>5, <2>1, <2>2 DEF OwnPost, Undelivered
  <1>7. \A q \in Alerters : Undelivered(q) <= Undelivered(q)'
    <2> SUFFICES ASSUME NEW q \in Alerters, q # p PROVE Undelivered(q) <= Undelivered(q)'
      BY <1>6
    <2>1. told[q] \in Seq(AlertTypes)
      BY <1>1 DEF AlertFeedTypes
    <2>2. Len(told[q]) \in Nat
      BY <2>1
    <2>3. Undelivered(q)' = Undelivered(q)
      BY <1>2 DEF Undelivered
    <2>4. Undelivered(q) \in Int
      BY <2>2 DEF Undelivered
    <2> QED
      BY <2>3, <2>4
  <1>8. ASSUME NEW list \in Seq(Alert), Behind(list), InSendersOrder(list), AlertFeedTypes'
        PROVE  \E last \in Seq(Alert) : /\ last = LastOnes(Append(list, alert))
                                        /\ InSendersOrder(last) /\ Behind(last)'
    <2>1. \A i \in 1..Len(list) : list[i].from = alert.from => list[i].n < alert.n
      BY <1>6, <1>8 DEF Behind
    <2>2. Append(list, alert) \in Seq(Alert) /\ InSendersOrder(Append(list, alert))
      BY <1>8, <2>1, AppendInOrder
    <2>3. Behind(list)'
      BY <1>1, <1>7, <1>8, BehindKept
    <2>4. alert.n < Undelivered(alert.from)'
      BY <1>6
    <2>5. PICK longer \in Seq(Alert) : longer = Append(list, alert) /\ InSendersOrder(longer) /\ Behind(longer)'
      BY <2>2, <2>3, <2>4, AppendBehind
    <2>6. PICK last : last = LastOnes(longer)
      OBVIOUS
    <2>7. /\ LastOnes(longer) \in Seq(Alert) /\ InSendersOrder(LastOnes(longer))
          /\ Behind(LastOnes(longer))'
      BY <2>5, LastOnesInOrder
    <2>8. last \in Seq(Alert) /\ InSendersOrder(last) /\ Behind(last)'
      BY <2>6, <2>7 DEF Behind
    <2> QED
      BY <2>5, <2>6, <2>8, Zenon
  <1>9. CASE RecorderKeeps(alert)
    <2>1. Keep("recorder", alert) /\ store' = store /\ sink' = sink
          /\ (echoes' = echoes \cup {alert} \/ echoes' = echoes) /\ (sink # "echo" => echoes' = echoes)
      BY <1>9 DEF RecorderKeeps
    <2>2. /\ alerts' \in [Processes -> Seq(Alert)] /\ latestFile' \in Seq(Alert)
          /\ alerts'["recorder"] = LastOnes(Append(r, alert)) /\ latestFile' = alerts'["recorder"]
          /\ Len(latestFile') <= KeptAlerts
          /\ \A q \in Processes : q # "recorder" => alerts'[q] = alerts[q]
      BY <1>1, <1>4, <2>1, KeepFacts, RecorderApart
    <2>3. AlertFeedTypes'
      BY <1>1, <1>2, <2>1, <2>2 DEF AlertFeedTypes
    <2>4. OwnAlerts'
      BY <1>1, <1>2, <2>2, OwnAlertsKept, RecorderApart
    <2>5. Behind(store)'
      <3>1. Behind(s)'
        BY <1>1, <1>4, <1>7, <2>3, BehindKept
      <3> QED
        BY <1>4, <2>1, <3>1 DEF Behind
    <2>6. ASSUME sink # "echo" PROVE Unrepeated' /\ InSendersOrder(latestFile')
      <3>1. Behind(r) /\ InSendersOrder(r) /\ echoes = {}
        BY <1>4, <2>6 DEF AlertFeedInv, Unrepeated
      <3>2. PICK last \in Seq(Alert) : /\ last = LastOnes(Append(r, alert))
                                       /\ InSendersOrder(last) /\ Behind(last)'
        BY <1>8, <2>3, <3>1
      <3>3. alerts'["recorder"] = last /\ latestFile' = last /\ echoes' = {}
        BY <2>1, <2>2, <2>6, <3>1, <3>2
      <3> QED
        BY <3>2, <3>3 DEF Unrepeated, Behind
    <2> QED
      BY <1>1, <2>1, <2>2, <2>3, <2>4, <2>5, <2>6 DEF AlertFeedInv, FeedsInOrder
  <1>10. CASE StoreKeeps(alert)
    <2>1. /\ UNCHANGED <<sink, alerts, latestFile, echoes>> /\ store' = LastOnes(Append(s, alert))
          /\ sink = "store"
      BY <1>4, <1>10 DEF StoreKeeps
    <2>2. Append(s, alert) \in Seq(Alert)
      OBVIOUS
    <2>3. store' \in Seq(Alert) /\ Len(store') <= KeptAlerts
      BY <2>1, <2>2, LastOnesFacts
    <2>4. AlertFeedTypes'
      BY <1>1, <1>2, <2>1, <2>3 DEF AlertFeedTypes
    <2>5. OwnAlerts'
      BY <1>1, <1>2, <2>1, OwnAlertsKept
    <2>6. PICK last \in Seq(Alert) : store' = last /\ InSendersOrder(last) /\ Behind(last)'
      BY <1>1, <1>4, <1>8, <2>1, <2>4
    <2>7. Unrepeated'
      <3>1. Behind(r) /\ InSendersOrder(r) /\ echoes = {}
        BY <1>4, <2>1 DEF AlertFeedInv, Unrepeated
      <3>2. Behind(r)'
        BY <1>1, <1>7, <2>4, <3>1, BehindKept
      <3> QED
        BY <1>4, <2>1, <3>1, <3>2 DEF Unrepeated, Behind
    <2>8. InSendersOrder(latestFile) /\ InSendersOrder(store') /\ Behind(store)'
      <3>1. InSendersOrder(latestFile)
        BY <2>1 DEF AlertFeedInv, FeedsInOrder
      <3> QED
        BY <2>6, <3>1 DEF Behind
    <2> QED
      BY <1>1, <2>1, <2>3, <2>4, <2>5, <2>7, <2>8 DEF AlertFeedInv, FeedsInOrder
  <1> QED
    BY <1>3, <1>9, <1>10 DEF Deliver

LEMMA FetchSettlesInv ==
  ASSUME NEW p \in Alerters, AlertFeedInv, FetchSettles(p)
  PROVE  AlertFeedInv'
  <1>1. AlertFeedTypes /\ OwnAlerts /\ Behind(store)
    BY DEF AlertFeedInv
  <1>2. /\ posting' = [posting EXCEPT ![p] = NoAlert] /\ received' = received \ {p}
        /\ UNCHANGED <<sink, alerts, latestFile, echoes, store, told>>
    BY DEF FetchSettles
  <1>3. /\ posting' \in [Alerters -> Alert \cup {NoAlert}] /\ posting'[p] = NoAlert
        /\ \A q \in Alerters : q # p => posting'[q] = posting[q]
    BY <1>1, <1>2 DEF AlertFeedTypes
  <1>4. AlertFeedTypes'
    BY <1>1, <1>2, <1>3 DEF AlertFeedTypes
  <1>5. OwnAlerts'
    BY <1>1, <1>2, <1>3, OwnAlertsKept
  <1>6. \A q \in Alerters : Undelivered(q) <= Undelivered(q)'
    <2> SUFFICES ASSUME NEW q \in Alerters PROVE Undelivered(q) <= Undelivered(q)'
      OBVIOUS
    <2>1. told[q] \in Seq(AlertTypes)
      BY <1>1 DEF AlertFeedTypes
    <2>2. Len(told[q]) \in Nat
      BY <2>1
    <2>3. Undelivered(q) = Len(told[q]) \/ Undelivered(q) = Len(told[q]) - 1
      BY DEF Undelivered
    <2>4. CASE q = p
      <3>1. Undelivered(q)' = Len(told[q])
        BY <1>2, <1>3, <2>4 DEF Undelivered
      <3> QED
        BY <2>2, <2>3, <3>1
    <2>5. CASE q # p
      <3>1. Undelivered(q)' = Undelivered(q)
        BY <1>2, <1>3, <2>5 DEF Undelivered
      <3> QED
        BY <2>2, <2>3, <3>1
    <2> QED
      BY <2>4, <2>5
  <1>7. PICK s \in Seq(Alert), r \in Seq(Alert) : s = store /\ r = alerts["recorder"]
    BY <1>1, RecorderApart DEF AlertFeedTypes
  <1>8. Behind(store)'
    <2>1. Behind(s)'
      BY <1>1, <1>4, <1>6, <1>7, BehindKept
    <2> QED
      BY <1>2, <1>7, <2>1 DEF Behind
  <1>9. (sink # "echo" => Unrepeated)'
    <2> SUFFICES ASSUME sink # "echo" PROVE Unrepeated'
      BY <1>2
    <2>1. Behind(r) /\ InSendersOrder(r) /\ echoes = {}
      BY <1>7 DEF AlertFeedInv, Unrepeated
    <2>2. Behind(r)'
      BY <1>1, <1>4, <1>6, <2>1, BehindKept
    <2> QED
      BY <1>2, <1>7, <2>1, <2>2 DEF Unrepeated, Behind
  <1>10. FeedsInOrder'
    BY <1>2 DEF AlertFeedInv, FeedsInOrder
  <1> QED
    BY <1>4, <1>5, <1>8, <1>9, <1>10 DEF AlertFeedInv

\* A recorder that does not post to itself has nothing to repeat.
LEMMA EchoInv == AlertFeedInv /\ Echo => AlertFeedInv'
  <1> SUFFICES ASSUME AlertFeedInv, Echo PROVE AlertFeedInv'
    OBVIOUS
  <1>1. AlertFeedTypes /\ OwnAlerts /\ Behind(store)
    BY DEF AlertFeedInv
  <1>2. PICK alert \in echoes : \/ RecorderKeeps(alert)
                                \/ /\ echoes' = echoes \ {alert}
                                   /\ UNCHANGED <<sink, alerts, latestFile, store>>
    BY DEF Echo
  <1>3. UNCHANGED <<posting, received, told>>
    BY DEF Echo
  <1>4. alert \in Alert /\ sink = "echo"
    BY <1>1, <1>2 DEF AlertFeedInv, AlertFeedTypes, Unrepeated
  <1>5. /\ AlertFeedTypes' /\ sink' = sink /\ store' = store
        /\ \A q \in Alerters : alerts'[q] = alerts[q]
        /\ Len(latestFile') <= KeptAlerts
    <2>1. CASE RecorderKeeps(alert)
      <3>1. Keep("recorder", alert) /\ echoes' = echoes \cup {alert} /\ UNCHANGED <<sink, store>>
        BY <1>4, <2>1 DEF RecorderKeeps
      <3>2. /\ alerts' \in [Processes -> Seq(Alert)] /\ latestFile' \in Seq(Alert)
            /\ Len(latestFile') <= KeptAlerts
            /\ \A q \in Processes : q # "recorder" => alerts'[q] = alerts[q]
        BY <1>1, <1>4, <3>1, KeepFacts, RecorderApart
      <3>3. AlertFeedTypes'
        BY <1>1, <1>3, <1>4, <3>1, <3>2 DEF AlertFeedTypes
      <3> QED
        BY <3>1, <3>2, <3>3, RecorderApart
    <2>2. CASE echoes' = echoes \ {alert} /\ UNCHANGED <<sink, alerts, latestFile, store>>
      <3>1. AlertFeedTypes'
        BY <1>1, <1>3, <2>2 DEF AlertFeedTypes
      <3>2. Len(latestFile) <= KeptAlerts
        BY DEF AlertFeedInv, FeedsInOrder
      <3> QED
        BY <2>2, <3>1, <3>2
    <2> QED
      BY <1>2, <2>1, <2>2
  <1>6. OwnAlerts'
    BY <1>1, <1>3, <1>5, OwnAlertsKept
  <1>7. Behind(store)'
    BY <1>1, <1>3, <1>5, BehindSame DEF Behind
  <1>8. FeedsInOrder'
    BY <1>4, <1>5 DEF AlertFeedInv, FeedsInOrder
  <1> QED
    BY <1>4, <1>5, <1>6, <1>7, <1>8 DEF AlertFeedInv

LEMMA ColdStartInv == AlertFeedInv /\ ColdStart => AlertFeedInv'
  <1> SUFFICES ASSUME AlertFeedInv, ColdStart PROVE AlertFeedInv'
    OBVIOUS
  <1>1. /\ AlertFeedTypes /\ OwnAlerts /\ Behind(store)
        /\ alerts \in [Processes -> Seq(Alert)]
    BY DEF AlertFeedInv, AlertFeedTypes
  <1>2. /\ UNCHANGED <<sink, latestFile, posting, received, told>>
        /\ \/ store' = <<>> /\ alerts' = alerts /\ echoes' = echoes
           \/ store' = store /\ alerts' = [alerts EXCEPT !["recorder"] = <<>>] /\ echoes' = {}
    BY DEF ColdStart
  <1>3. /\ alerts' \in [Processes -> Seq(Alert)]
        /\ \A q \in Alerters : alerts'[q] = alerts[q]
        /\ alerts'["recorder"] = <<>> \/ alerts'["recorder"] = alerts["recorder"]
    <2>1. CASE alerts' = alerts
      BY <1>1, <2>1
    <2>2. CASE alerts' = [alerts EXCEPT !["recorder"] = <<>>]
      BY <1>1, <2>2, EmptyInOrder, RecorderApart, Zenon
    <2> QED
      BY <1>2, <2>1, <2>2
  <1>4. store' = <<>> \/ store' = store
    BY <1>2
  <1>5. AlertFeedTypes'
    BY <1>1, <1>2, <1>3, <1>4, EmptyInOrder DEF AlertFeedTypes
  <1>6. OwnAlerts'
    BY <1>1, <1>2, <1>3, OwnAlertsKept
  <1>7. \A list : Behind(list) => Behind(list)'
    BY <1>2, BehindSame
  <1>8. Behind(<<>>)
    BY EmptyInOrder DEF Behind
  <1>9. Behind(store)'
    BY <1>1, <1>4, <1>7, <1>8 DEF Behind
  <1>10. (sink # "echo" => Unrepeated)'
    <2> SUFFICES ASSUME sink # "echo" PROVE Unrepeated'
      BY <1>2
    <2>1. echoes' = {} /\ Behind(alerts["recorder"]) /\ InSendersOrder(alerts["recorder"])
      BY <1>2 DEF AlertFeedInv, Unrepeated
    <2>2. PICK r : r = alerts'["recorder"] /\ Behind(r) /\ InSendersOrder(r)
      BY <1>3, <1>8, <2>1, EmptyInOrder, Zenon
    <2>3. Behind(r)'
      BY <1>7, <2>2
    <2> QED
      BY <2>1, <2>2, <2>3 DEF Unrepeated, Behind
  <1>11. FeedsInOrder'
    <2>1. 0 <= KeptAlerts
      BY AlertAssumption
    <2> QED
      BY <1>2, <1>4, <2>1, EmptyInOrder DEF AlertFeedInv, FeedsInOrder
  <1> QED
    BY <1>5, <1>6, <1>9, <1>10, <1>11 DEF AlertFeedInv

\* A delivery, a fetch that settles, an echo, and a sink that forgets.
LEMMA AlertNextInv == AlertFeedInv /\ AlertNext => AlertFeedInv'
  BY DeliverInv, FetchSettlesInv, EchoInv, ColdStartInv DEF AlertNext

-----------------------------------------------------------------------------
(* HealthTopUp. *)

Transaction == [call : {"supply", "borrow", "authorize"}, amount : Nat]

CanarySteps == {"idle", "sends", "drop", "dropping", "ratio", "supply", "borrow", "threshold",
                "assess", "authorized", "request", "answered", "mining", "restore", "passed",
                "failed"}

\* What the canary has read, at each step that uses it.
Readings ==
    /\ canary.step = "sends" => /\ canary.next \in {1, 2, 3}
                                /\ {"step", "next"} \subseteq DOMAIN canary
    /\ canary.step \in {"borrow", "threshold"} => canary.supplied \in Nat
    /\ canary.step = "threshold" => canary.borrowed \in Nat
    /\ canary.step \in {"assess", "authorized", "request", "answered"} => canary.topUp \in Nat
    /\ canary.step \in {"authorized", "request"} => {"step", "topUp"} \subseteq DOMAIN canary

HealthTypes ==
    /\ auth \in [Users -> [maxTopUp : Nat, enabled : BOOLEAN]]
    /\ topUps \in SUBSET [follower : Users, amount : Nat]
    /\ mempool \in Seq(Transaction)
    /\ prices \in Seq({PriceOne, CanaryDrop})
    /\ canary.step \in CanarySteps
    /\ Readings
    /\ monitorCycle \in 0..MaxCycles
    /\ {deposited, unbacked} \subseteq BOOLEAN

LEMMA HealthInitTypes == HealthInit => HealthTypes
  <1> SUFFICES ASSUME HealthInit PROVE HealthTypes
    OBVIOUS
  <1>1. canary.step = "idle"
    BY DEF HealthInit
  <1>2. auth \in [Users -> [maxTopUp : Nat, enabled : BOOLEAN]]
    <2>1. [maxTopUp |-> 0, enabled |-> FALSE] \in [maxTopUp : Nat, enabled : BOOLEAN]
      OBVIOUS
    <2> QED
      BY <2>1, Zenon DEF HealthInit
  <1>3. mempool \in Seq(Transaction) /\ topUps \in SUBSET [follower : Users, amount : Nat]
    BY DEF HealthInit
  <1>4. monitorCycle \in 0..MaxCycles
    <2>1. PICK first \in Nat \X (0..MaxCycles) : monitorCycle = first[2]
      BY HealthAssumption DEF HealthInit
    <2>2. first[2] \in 0..MaxCycles
      OBVIOUS
    <2> QED
      BY <2>1, <2>2
  <1>5. prices \in Seq({PriceOne, CanaryDrop}) /\ {deposited, unbacked} \subseteq BOOLEAN
    <2>1. prices = <<>>
      BY DEF HealthInit
    <2>2. deposited \in BOOLEAN /\ unbacked \in BOOLEAN
      BY Zenon DEF HealthInit
    <2> QED
      BY <2>1, <2>2
  <1> QED
    BY <1>1, <1>2, <1>3, <1>4, <1>5 DEF HealthTypes, Readings, CanarySteps

LEMMA TopUpNat ==
  ASSUME NEW ratio, NEW threshold, NEW supplied \in Nat, NEW borrowed \in Nat
  PROVE  SuggestedTopUp(ratio, threshold, supplied, borrowed) \in Nat
  <1>1. borrowed * LiquidationAlert \in Nat
    BY HealthAssumption
  <1>2. PICK target \in Nat : target = (borrowed * LiquidationAlert) \div 10000
    BY <1>1, DivBounds
  <1>3. target > supplied => target - supplied \in Nat
    OBVIOUS
  <1> QED
    BY <1>2, <1>3 DEF SuggestedTopUp

\* The canary's own step.
LEMMA CanaryReadings ==
  ASSUME HealthTypes, KineticTypeOK, CanaryStarts \/ CanaryStep \/ CanaryDies
  PROVE  canary'.step \in CanarySteps /\ Readings'
  <1>1. supplyBalance[Follower] \in Nat /\ borrowBalance[Follower] \in Nat
    BY HealthAssumption DEF KineticTypeOK
  <1>2. CASE CanaryDropsPrice \/ CanaryVerifies \/ CanaryRestoresPrice \/ CanaryDies
    <2>1. canary'.step \in {"dropping", "ratio", "restore", "passed", "failed"}
      BY <1>2 DEF CanaryDropsPrice, CanaryVerifies, CanaryRestoresPrice, CanaryDies, CanaryFails
    <2> QED
      BY <2>1 DEF Readings, CanarySteps
  <1>6. CASE CanaryStarts
    BY <1>6 DEF CanaryStarts, Readings, CanarySteps
  <1>7. CASE CanarySends
    <2>1. canary.next \in {1, 2, 3} /\ {"step", "next"} \subseteq DOMAIN canary
      BY <1>7 DEF CanarySends, HealthTypes, Readings
    <2>2. Len(CanaryCalls) = 3
      BY DEF CanaryCalls
    <2>3. CASE canary.next = 3
      <3>1. canary' = [step |-> "drop"]
        BY <1>7, <2>2, <2>3 DEF CanarySends
      <3> QED
        BY <3>1 DEF Readings, CanarySteps
    <2>4. CASE canary.next # 3
      <3>1. canary' = [canary EXCEPT !.next = @ + 1]
        BY <1>7, <2>2, <2>4 DEF CanarySends
      <3>2. /\ canary'.step = "sends" /\ canary'.next = canary.next + 1
            /\ DOMAIN canary' = DOMAIN canary
        BY <1>7, <2>1, <3>1 DEF CanarySends
      <3>3. canary'.next \in {1, 2, 3}
        BY <2>1, <2>4, <3>2
      <3> QED
        BY <2>1, <3>2, <3>3 DEF Readings, CanarySteps
    <2> QED
      BY <2>3, <2>4
  <1>8. CASE CanaryTopsUp
    <2>1. CASE canary.step = "request"
      <3>1. /\ canary' = [canary EXCEPT !.step = "answered"]
            /\ canary.topUp \in Nat /\ {"step", "topUp"} \subseteq DOMAIN canary
        BY <1>8, <2>1 DEF CanaryTopsUp, HealthTypes, Readings
      <3>2. canary'.step = "answered" /\ canary'.topUp = canary.topUp
        BY <3>1
      <3> QED
        BY <3>1, <3>2 DEF Readings, CanarySteps
    <2>2. CASE canary.step = "answered"
      <3>1. canary'.step = "mining"
        BY <1>8, <2>2 DEF CanaryTopsUp
      <3> QED
        BY <3>1 DEF Readings, CanarySteps
    <2> QED
      BY <1>8, <2>1, <2>2 DEF CanaryTopsUp
  <1>3. CASE CanaryReads
    <2>1. CASE canary.step \in {"ratio", "supply", "borrow"}
      BY <1>1, <1>3, <2>1 DEF CanaryReads, Readings, HealthTypes, CanarySteps
    <2>2. CASE canary.step = "threshold"
      <3>1. canary.supplied \in Nat /\ canary.borrowed \in Nat
        BY <2>2 DEF HealthTypes, Readings
      <3>2. PICK n \in Nat : n = SuggestedTopUp(canary.ratio, liquidationThresholdBps,
                                               canary.supplied, canary.borrowed)
        BY <3>1, TopUpNat
      <3>3. canary' = [step |-> "assess", ratio |-> canary.ratio, topUp |-> n]
        BY <1>3, <2>2, <3>2 DEF CanaryReads
      <3> QED
        BY <3>3 DEF Readings, CanarySteps
    <2> QED
      BY <1>3, <2>1, <2>2 DEF CanaryReads
  <1>4. CASE CanaryAssesses
    <2>1. CASE canary' = [step |-> "failed"]
      BY <2>1 DEF Readings, CanarySteps
    <2>2. CASE canary' = [step |-> "authorized", ratio |-> canary.ratio,
                          topUp |-> IF canary.topUp > 0 THEN canary.topUp ELSE CanaryDefaultTopUp]
      <3>1. canary.topUp \in Nat /\ CanaryDefaultTopUp \in Nat
        BY <1>4, HealthAssumption DEF CanaryAssesses, HealthTypes, Readings
      <3>2. PICK n \in Nat : n = IF canary.topUp > 0 THEN canary.topUp ELSE CanaryDefaultTopUp
        BY <3>1
      <3>3. canary' = [step |-> "authorized", ratio |-> canary.ratio, topUp |-> n]
        BY <2>2, <3>2
      <3> QED
        BY <3>3 DEF Readings, CanarySteps
    <2> QED
      BY <1>4, <2>1, <2>2 DEF CanaryAssesses, CanaryFails
  <1>5. CASE CanaryChecksAuthorization
    <2>1. CASE canary' = [step |-> "failed"]
      BY <2>1 DEF Readings, CanarySteps
    <2>2. CASE canary' = [canary EXCEPT !.step = "request"]
      <3>1. canary.topUp \in Nat /\ {"step", "topUp"} \subseteq DOMAIN canary
        BY <1>5 DEF CanaryChecksAuthorization, HealthTypes, Readings
      <3>2. /\ canary'.step = "request" /\ canary'.topUp = canary.topUp
            /\ DOMAIN canary' = DOMAIN canary
        BY <2>2, <3>1
      <3> QED
        BY <3>1, <3>2 DEF Readings, CanarySteps
    <2> QED
      BY <1>5, <2>1, <2>2 DEF CanaryChecksAuthorization, CanaryFails
  <1> QED
    BY <1>2, <1>3, <1>4, <1>5, <1>6, <1>7, <1>8 DEF CanaryStep

\* What every step does with the pool is a call of somebody or one of its owner.
LEMMA HealthKineticStep ==
  ASSUME HealthTypes, KineticTypeOK, HealthNext
  PROVE  [KineticNext]_kineticVars
  <1>1. /\ PoolAmounts \subseteq Nat /\ CanaryDrop \in Nat /\ Follower \in Users
        /\ PriceOne \in Nat /\ KineticThresholds \subseteq Nat
    BY HealthAssumption, PartiesAssumption, KineticAssumption
  <1>2. CASE CanaryStarts \/ CanaryStep \/ CanaryDies \/ UNCHANGED kineticVars
    <2>1. UNCHANGED kineticVars
      BY <1>2 DEF CanaryStarts, CanaryStep, CanarySends, CanaryDropsPrice, CanaryReads,
                  CanaryAssesses, CanaryChecksAuthorization, CanaryTopsUp, CanaryVerifies,
                  CanaryRestoresPrice, CanaryDies
    <2> QED
      BY <2>1
  <1>3. CASE MinePrice
    <2>1. prices \in Seq({PriceOne, CanaryDrop}) /\ prices # <<>>
      BY <1>3 DEF MinePrice, HealthTypes
    <2>2. Head(prices) \in {PriceOne, CanaryDrop}
      BY <2>1
    <2>3. Head(prices) \in Nat
      BY <1>1, <2>2
    <2> QED
      BY <1>3, <2>3 DEF MinePrice, KineticNext
  <1>4. CASE Mine
    <2>1. Head(mempool).amount \in Nat
      <3>1. Head(mempool) \in Transaction
        BY <1>4 DEF Mine, HealthTypes
      <3> QED
        BY <3>1 DEF Transaction
    <2>2. \/ \E n \in Nat : Supply(Follower, n) \/ Borrow(Follower, n)
          \/ UNCHANGED kineticVars
      BY <1>4, <2>1 DEF Mine, Takes, Fails
    <2> QED
      BY <1>1, <2>2 DEF KineticNext, KineticCall
  <1>5. ASSUME NEW u \in Users, NEW a \in PoolAmounts, OtherCall(u, a) \/ Liquidate(u, a)
        PROVE  KineticNext
    <2>1. \A topUp \in topUps : topUp.amount \in Nat
      BY DEF HealthTypes
    <2>2. \E n \in Nat : Supply(u, n) \/ Borrow(u, n) \/ Repay(u, n) \/ Liquidate(u, n)
      BY <1>1, <1>5, <2>1 DEF OtherCall, ExecuteTopUp
    <2> QED
      BY <2>2 DEF KineticNext, KineticCall
  <1>6. CASE Others
    <2>1. CASE \E bps \in KineticThresholds : SetKineticThreshold(bps)
      BY <1>1, <2>1 DEF KineticNext
    <2> QED
      BY <1>2, <1>5, <1>6, <2>1 DEF Others
  <1> QED
    BY <1>2, <1>3, <1>4, <1>6 DEF HealthNext

LEMMA HealthStutterTypes == HealthTypes /\ UNCHANGED healthVars => HealthTypes'
  BY DEF HealthTypes, Readings, healthVars

LEMMA PreAuthorizeTypes ==
  ASSUME HealthTypes, NEW u \in Users, NEW n \in Nat, NEW b \in BOOLEAN, PreAuthorize(u, n, b)
  PROVE  auth' \in [Users -> [maxTopUp : Nat, enabled : BOOLEAN]]
  <1>1. [maxTopUp |-> n, enabled |-> b] \in [maxTopUp : Nat, enabled : BOOLEAN]
    OBVIOUS
  <1>2. auth \in [Users -> [maxTopUp : Nat, enabled : BOOLEAN]]
    BY DEF HealthTypes
  <1> QED
    BY <1>1, <1>2, Zenon DEF PreAuthorize

LEMMA HealthNextTypes ==
  ASSUME HealthTypes, KineticTypeOK, HealthNext
  PROVE  HealthTypes'
  <1>1. /\ PoolAmounts \subseteq Nat /\ Follower \in Users
        /\ {CanarySupply, CanaryBorrow, CanaryMaxTopUp, MaxCycles} \subseteq Nat
    BY HealthAssumption
  <1>2. /\ mempool \in Seq(Transaction) /\ topUps \in SUBSET [follower : Users, amount : Nat]
        /\ monitorCycle \in 0..MaxCycles
        /\ auth \in [Users -> [maxTopUp : Nat, enabled : BOOLEAN]]
    BY DEF HealthTypes
  <1>0. prices \in Seq({PriceOne, CanaryDrop}) /\ {deposited, unbacked} \subseteq BOOLEAN
    BY DEF HealthTypes
  <1>3. CASE (CanaryStarts \/ CanaryStep \/ CanaryDies) /\ UNCHANGED <<monitorCycle, deposited, unbacked>>
    <2>1. auth' = auth
      BY <1>3 DEF CanaryStarts, CanaryStep, CanaryDies, CanarySends, CanaryDropsPrice, CanaryReads,
                  CanaryAssesses, CanaryChecksAuthorization, CanaryTopsUp, CanaryVerifies,
                  CanaryRestoresPrice
    <2>2. mempool' \in Seq(Transaction) /\ topUps' \in SUBSET [follower : Users, amount : Nat]
      <3>1. CASE CanarySends
        <4>1. canary.next \in {1, 2, 3}
          BY <3>1 DEF CanarySends, HealthTypes, Readings
        <4>2. PICK tx \in Transaction : tx = CanaryCalls[canary.next]
          BY <1>1, <4>1 DEF CanaryCalls, Transaction
        <4> QED
          BY <1>2, <3>1, <4>2 DEF CanarySends
      <3>2. CASE CanaryTopsUp
        <4>1. canary.topUp \in Nat
          BY <3>2 DEF CanaryTopsUp, HealthTypes, Readings
        <4>2. [call |-> "supply", amount |-> canary.topUp] \in Transaction
          BY <4>1 DEF Transaction
        <4>3. [follower |-> Follower, amount |-> canary.topUp] \in [follower : Users, amount : Nat]
          BY <1>1, <4>1
        <4>4. mempool' \in Seq(Transaction)
          BY <1>2, <3>2, <4>2 DEF CanaryTopsUp
        <4> QED
          BY <1>2, <3>2, <4>3, <4>4 DEF CanaryTopsUp, HandleTopUp
      <3>3. CASE CanaryStarts \/ CanaryDropsPrice \/ CanaryReads \/ CanaryAssesses
                  \/ CanaryChecksAuthorization \/ CanaryVerifies \/ CanaryRestoresPrice \/ CanaryDies
        <4>1. UNCHANGED <<mempool, topUps>>
          BY <3>3 DEF CanaryStarts, CanaryDies, CanaryDropsPrice, CanaryReads, CanaryAssesses,
                      CanaryChecksAuthorization, CanaryVerifies, CanaryRestoresPrice
        <4> QED
          BY <1>2, <4>1
      <3> QED
        BY <1>3, <3>1, <3>2, <3>3 DEF CanaryStep
    <2>3. Readings' /\ canary'.step \in CanarySteps
      BY <1>3, CanaryReadings
    <2>4. prices' \in Seq({PriceOne, CanaryDrop})
      <3>1. CASE CanaryDropsPrice \/ CanaryRestoresPrice
        <4>1. prices' = prices \/ \E n \in {PriceOne, CanaryDrop} : prices' = Append(prices, n)
          BY <3>1 DEF CanaryDropsPrice, CanaryRestoresPrice
        <4> QED
          BY <1>0, <4>1
      <3>2. CASE CanaryStarts \/ CanarySends \/ CanaryReads \/ CanaryAssesses
                  \/ CanaryChecksAuthorization \/ CanaryTopsUp \/ CanaryVerifies \/ CanaryDies
        <4>1. prices' = prices
          BY <3>2 DEF CanaryStarts, CanarySends, CanaryReads, CanaryAssesses,
                      CanaryChecksAuthorization, CanaryTopsUp, CanaryVerifies, CanaryDies
        <4> QED
          BY <1>0, <4>1
      <3> QED
        BY <1>3, <3>1, <3>2 DEF CanaryStep
    <2> QED
      BY <1>0, <1>2, <1>3, <2>1, <2>2, <2>3, <2>4 DEF HealthTypes
  <1>4. CASE MonitorCycle /\ UNCHANGED <<kineticVars, auth, topUps, mempool, prices, canary, canaries,
                                         deposited, unbacked>>
    <2>1. monitorCycle' \in 0..MaxCycles
      BY <1>1, <1>2, <1>4 DEF MonitorCycle
    <2> QED
      BY <1>4, <2>1 DEF HealthTypes, Readings
  <1>5. CASE Mine
    <2>1. Head(mempool) \in Transaction /\ mempool' \in Seq(Transaction)
      BY <1>2, <1>5 DEF Mine
    <2>2. Head(mempool).amount \in Nat
      BY <2>1 DEF Transaction
    <2>3. PreAuthorize(Follower, Head(mempool).amount, TRUE) \/ auth' = auth
      BY <1>5 DEF Mine, Takes, Fails
    <2>4. auth' \in [Users -> [maxTopUp : Nat, enabled : BOOLEAN]]
      BY <1>1, <1>2, <2>2, <2>3, PreAuthorizeTypes
    <2>5. {deposited', unbacked'} \subseteq BOOLEAN
      <3>1. CASE Takes(Head(mempool))
        BY <1>0, <3>1 DEF Takes
      <3>2. CASE Fails(Head(mempool))
        BY <1>0, <3>2 DEF Fails
      <3> QED
        BY <1>5, <3>1, <3>2 DEF Mine
    <2>6. UNCHANGED <<topUps, prices, canary, monitorCycle>>
      BY <1>5 DEF Mine
    <2> QED
      BY <2>1, <2>4, <2>5, <2>6 DEF HealthTypes, Readings
  <1>7. CASE MinePrice
    <2>1. prices' \in Seq({PriceOne, CanaryDrop})
      BY <1>0, <1>7 DEF MinePrice
    <2> QED
      BY <1>7, <2>1 DEF MinePrice, HealthTypes, Readings
  <1>6. CASE Others
    <2>1. CASE /\ \E u \in Users \ {Follower}, a \in PoolAmounts : HandleTopUp(u, a)
               /\ UNCHANGED <<auth, mempool, prices, canary, monitorCycle, deposited, unbacked>>
      <3>1. PICK u \in Users, a \in PoolAmounts : HandleTopUp(u, a)
        BY <2>1
      <3>2. [follower |-> u, amount |-> a] \in [follower : Users, amount : Nat]
        BY <1>1
      <3>3. topUps' \in SUBSET [follower : Users, amount : Nat]
        BY <1>2, <3>1, <3>2 DEF HandleTopUp
      <3> QED
        BY <2>1, <3>3 DEF HealthTypes, Readings
    <2>2. CASE UNCHANGED healthVars
      BY <2>2, HealthStutterTypes
    <2>3. CASE PreAuthorize(Follower, CanaryMaxTopUp, FALSE)
                 /\ UNCHANGED <<topUps, mempool, prices, canary, monitorCycle, deposited, unbacked>>
      <3>1. auth' \in [Users -> [maxTopUp : Nat, enabled : BOOLEAN]]
        BY <1>1, <2>3, PreAuthorizeTypes
      <3> QED
        BY <2>3, <3>1 DEF HealthTypes, Readings
    <2> QED
      BY <1>6, <2>1, <2>2, <2>3 DEF Others
  <1> QED
    BY <1>3, <1>4, <1>5, <1>6, <1>7, HealthStutterTypes DEF HealthNext

\* The debt d and the supply s of n deposits of the canary.
Pledged(s, d, n) == d <= n * CanaryBorrow /\ d + n * (CanarySupply - CanaryBorrow) <= s

\* The canary has sent its deposit, and its borrow comes next.
DepositSent == canary.step = "sends" /\ canary.next = 2

\* What is about to be borrowed on a deposit that took effect.
BorrowDue ==
    IF deposited /\ (\/ mempool # <<>> /\ mempool[1].call = "borrow"
                     \/ mempool = <<>> /\ DepositSent)
    THEN CanaryBorrow ELSE 0

\* A borrow is the canary's, and its deposit comes right before it.
BorrowsFollowSupply ==
    \A i \in 1..Len(mempool) :
        mempool[i].call = "borrow" =>
           /\ mempool[i].amount = CanaryBorrow
           /\ i = 1 \/ mempool[i - 1] = [call |-> "supply", amount |-> CanarySupply]

DepositIsLast ==
    DepositSent /\ mempool # <<>> =>
        mempool[Len(mempool)] = [call |-> "supply", amount |-> CanarySupply]

Backed == \E n \in Nat : Pledged(supplyBalance[Follower], borrowBalance[Follower] + BorrowDue, n)

PledgeInv ==
    /\ kineticPrice \in {PriceOne, CanaryDrop}
    /\ BorrowsFollowSupply /\ DepositIsLast
    /\ ~unbacked => Backed

LEMMA PledgeKept ==
  ASSUME NEW s \in Nat, NEW d \in Nat, NEW n \in Nat, Pledged(s, d, n),
         NEW t \in Nat, NEW e \in Nat, e <= d, s + e <= t + d
  PROVE  Pledged(t, e, n)
  <1>1. CanaryBorrow \in Nat /\ CanarySupply \in Nat
    BY HealthAssumption
  <1>2. PICK x \in Int, y \in Int : x = n * CanaryBorrow /\ y = n * (CanarySupply - CanaryBorrow)
    BY <1>1
  <1>3. e <= x /\ e + y <= t
    BY <1>2 DEF Pledged
  <1> QED
    BY <1>2, <1>3 DEF Pledged

LEMMA PledgeMore ==
  ASSUME NEW s \in Nat, NEW d \in Nat, NEW n \in Nat, Pledged(s, d, n)
  PROVE  Pledged(s + CanarySupply, d + CanaryBorrow, n + 1)
  <1>1. CanaryBorrow \in Nat /\ CanarySupply \in Nat
    BY HealthAssumption
  <1>2. /\ (n + 1) * CanaryBorrow = n * CanaryBorrow + CanaryBorrow
        /\ (n + 1) * (CanarySupply - CanaryBorrow)
              = n * (CanarySupply - CanaryBorrow) + CanarySupply - CanaryBorrow
    BY <1>1
  <1>3. PICK x \in Int, y \in Int : x = n * CanaryBorrow /\ y = n * (CanarySupply - CanaryBorrow)
    BY <1>1
  <1>4. d + CanaryBorrow <= x + CanaryBorrow
        /\ d + CanaryBorrow + (y + CanarySupply - CanaryBorrow) <= s + CanarySupply
    BY <1>1, <1>3 DEF Pledged
  <1> QED
    BY <1>2, <1>3, <1>4 DEF Pledged

\* What a debt that is backed makes of the follower, at the deployed threshold.
LEMMA PledgedIsSafe ==
  ASSUME HealthTypes, KineticTypeOK, PledgeInv
  PROVE  CanaryStaysSafe
  <1> SUFFICES ASSUME liquidationThresholdBps <= DeployedThreshold, ~unbacked,
                      borrowBalance[Follower] # 0
               PROVE  ~(CollateralRatioBps(Follower) < liquidationThresholdBps)
    BY DEF CanaryStaysSafe, IsLiquidatable
  <1>1. /\ CanaryBorrow \in Nat /\ CanarySupply \in Nat /\ CanaryDrop \in Nat
        /\ PriceOne \in Nat \ {0} /\ DeployedThreshold \in Nat /\ Follower \in Users
    BY HealthAssumption, PartiesAssumption, KineticAssumption
  <1>2. PICK s \in Nat, b \in Nat \ {0}, p \in Nat, bps \in Nat :
           /\ s = supplyBalance[Follower] /\ b = borrowBalance[Follower]
           /\ p = kineticPrice /\ bps = liquidationThresholdBps
    BY <1>1 DEF KineticTypeOK
  <1>3. PICK n \in Nat : Pledged(s, b, n)
    <2>1. PICK n \in Nat : Pledged(supplyBalance[Follower], borrowBalance[Follower] + BorrowDue, n)
      BY DEF PledgeInv, Backed
    <2>2. PICK due \in Nat : due = BorrowDue
      BY <1>1 DEF BorrowDue
    <2>3. Pledged(s, b + due, n) /\ b + due \in Nat /\ b <= b + due
      BY <1>2, <2>1, <2>2
    <2>4. Pledged(s, b, n)
      BY <2>3, PledgeKept
    <2> QED
      BY <2>4
  <1>4. RatioAt(PriceOne, CanaryDrop, s, b) >= DeployedThreshold
    <2>1. DepositsCarry(PriceOne, DeployedThreshold, CanarySupply, CanaryBorrow, CanaryDrop, s, b, n)
      BY <1>3, CanaryAssumption DEF DepositsCarry, Pledged
    <2> QED
      BY <1>1, <2>1, RatioOfDeposits
  <1>5. CanaryDrop <= p
    BY <1>1, <1>2, CanaryAssumption DEF PledgeInv
  <1>6. RatioAt(PriceOne, CanaryDrop, s, b) <= RatioAt(PriceOne, p, s, b)
    BY <1>1, <1>5, RatioMonoPrice
  <1>7. /\ CollateralRatioBps(Follower) = RatioAt(PriceOne, p, s, b)
        /\ RatioAt(PriceOne, p, s, b) \in Nat /\ RatioAt(PriceOne, CanaryDrop, s, b) \in Nat
    <2>1. CollateralRatioBps(Follower) = RatioAt(PriceOne, p, s, b)
      BY <1>2 DEF CollateralRatioBps, Ratio, RatioAt
    <2>2. s <= s /\ b <= b
      OBVIOUS
    <2> QED
      BY <1>1, <2>1, <2>2, RatioMono
  <1>8. PICK x \in Nat, y \in Nat : x = RatioAt(PriceOne, p, s, b)
                                    /\ y = RatioAt(PriceOne, CanaryDrop, s, b)
    BY <1>7
  <1>9. ~(x < bps)
    BY <1>1, <1>2, <1>4, <1>6, <1>8
  <1> QED
    BY <1>2, <1>7, <1>8, <1>9

LEMMA PledgeInitInv == HealthInit => PledgeInv
  <1> SUFFICES ASSUME HealthInit PROVE PledgeInv
    OBVIOUS
  <1>1. /\ kineticPrice = PriceOne /\ mempool = <<>> /\ canary = [step |-> "idle"]
        /\ supplyBalance[Follower] = 0 /\ borrowBalance[Follower] = 0
    BY HealthAssumption DEF HealthInit, KineticInit
  <1>2. BorrowsFollowSupply /\ DepositIsLast /\ BorrowDue = 0
    BY <1>1 DEF BorrowsFollowSupply, DepositIsLast, BorrowDue, DepositSent
  <1>3. Pledged(0, 0 + 0, 0)
    BY HealthAssumption DEF Pledged
  <1> QED
    BY <1>1, <1>2, <1>3 DEF PledgeInv, Backed

LEMMA DueNat == BorrowDue \in Nat
  BY HealthAssumption DEF BorrowDue

\* A step that leaves the follower's position, or lowers what it owes and is about to
\* borrow by at least as much as what it has supplied.
LEMMA PledgeStep ==
  ASSUME KineticTypeOK, PledgeInv, KineticTypeOK', unbacked => unbacked',
         kineticPrice' \in {PriceOne, CanaryDrop}, BorrowsFollowSupply', DepositIsLast',
         NEW d \in Nat, NEW e \in Nat, d = borrowBalance[Follower] + BorrowDue,
         e = (borrowBalance[Follower] + BorrowDue)', e <= d,
         supplyBalance[Follower] + e <= supplyBalance'[Follower] + d
  PROVE  PledgeInv'
  <1>1. PICK s \in Nat, t \in Nat : s = supplyBalance[Follower] /\ t = supplyBalance'[Follower]
    BY HealthAssumption DEF KineticTypeOK
  <1>2. ASSUME ~unbacked PROVE Backed'
    <2>1. PICK n \in Nat : Pledged(s, d, n)
      BY <1>1, <1>2 DEF PledgeInv, Backed
    <2>2. Pledged(t, e, n)
      BY <1>1, <2>1, PledgeKept
    <2> QED
      BY <1>1, <2>2 DEF Backed
  <1> QED
    BY <1>2 DEF PledgeInv

\* A step that leaves the follower's position and what is due.
LEMMA PledgeSame ==
  ASSUME KineticTypeOK, PledgeInv, KineticTypeOK', unbacked => unbacked',
         kineticPrice' \in {PriceOne, CanaryDrop}, BorrowsFollowSupply', DepositIsLast',
         BorrowDue' = BorrowDue \/ BorrowDue' = 0,
         supplyBalance'[Follower] = supplyBalance[Follower],
         borrowBalance'[Follower] = borrowBalance[Follower]
  PROVE  PledgeInv'
  <1>1. PICK s \in Nat, b \in Nat, due \in Nat :
           s = supplyBalance[Follower] /\ b = borrowBalance[Follower] /\ due = BorrowDue
    BY HealthAssumption, DueNat DEF KineticTypeOK
  <1>2. PICK d \in Nat, e \in Nat : /\ d = b + due /\ e = b + BorrowDue'
                                    /\ e <= d /\ s + e <= s + d
    BY <1>1
  <1> QED
    BY <1>1, <1>2, PledgeStep

\* The same mempool has the same due, or none when the canary gives up.
LEMMA DueSame ==
  ASSUME BorrowsFollowSupply, DepositIsLast, UNCHANGED <<mempool, deposited>>,
         DepositSent' => DepositSent
  PROVE  /\ BorrowsFollowSupply' /\ DepositIsLast'
         /\ BorrowDue' = BorrowDue \/ BorrowDue' = 0
  BY DEF BorrowsFollowSupply, DepositIsLast, BorrowDue

\* A transaction is sent: a borrow right after its deposit, and nothing else there.
LEMMA DueSent ==
  ASSUME BorrowsFollowSupply, DepositIsLast, mempool \in Seq(Transaction),
         NEW tx \in Transaction, mempool' = Append(mempool, tx), deposited' = deposited,
         tx.call = "borrow" => tx.amount = CanaryBorrow /\ DepositSent,
         tx.call # "borrow" => ~DepositSent,
         DepositSent' => tx = [call |-> "supply", amount |-> CanarySupply]
  PROVE  BorrowsFollowSupply' /\ DepositIsLast' /\ BorrowDue' = BorrowDue
  <1>1. /\ Len(mempool') = Len(mempool) + 1 /\ Len(mempool) \in Nat /\ mempool' # <<>>
        /\ \A i \in 1..Len(mempool) : mempool'[i] = mempool[i]
        /\ mempool'[Len(mempool) + 1] = tx
        /\ mempool # <<>> => 1 \in 1..Len(mempool)
        /\ mempool = <<>> => Len(mempool) = 0
        /\ mempool # <<>> => Len(mempool) # 0
    OBVIOUS
  <1>2. DepositIsLast'
    BY <1>1 DEF DepositIsLast
  <1>3. BorrowsFollowSupply'
    <2> SUFFICES ASSUME NEW i \in 1..Len(mempool'), mempool'[i].call = "borrow"
                 PROVE  /\ mempool'[i].amount = CanaryBorrow
                        /\ i = 1 \/ mempool'[i - 1] = [call |-> "supply", amount |-> CanarySupply]
      BY DEF BorrowsFollowSupply
    <2>1. CASE i \in 1..Len(mempool)
      <3>1. i # 1 => i - 1 \in 1..Len(mempool)
        BY <1>1, <2>1
      <3> QED
        BY <1>1, <2>1, <3>1 DEF BorrowsFollowSupply
    <2>2. CASE i = Len(mempool) + 1
      <3>1. tx.amount = CanaryBorrow /\ DepositSent /\ mempool'[i] = tx
        BY <1>1, <2>2
      <3>2. CASE mempool = <<>>
        BY <1>1, <2>2, <3>1, <3>2
      <3>3. CASE mempool # <<>>
        <4>1. mempool[Len(mempool)] = [call |-> "supply", amount |-> CanarySupply]
          BY <3>1, <3>3 DEF DepositIsLast
        <4>2. i - 1 = Len(mempool) /\ Len(mempool) \in 1..Len(mempool)
          BY <1>1, <2>2, <3>3
        <4> QED
          BY <1>1, <3>1, <4>1, <4>2
      <3> QED
        BY <3>2, <3>3
    <2> QED
      BY <1>1, <2>1, <2>2
  <1>4. BorrowDue' = BorrowDue
    <2>1. CASE mempool = <<>>
      <3>1. mempool'[1] = tx
        BY <1>1, <2>1
      <3> QED
        BY <1>1, <2>1, <3>1 DEF BorrowDue
    <2>2. CASE mempool # <<>>
      BY <1>1, <2>2 DEF BorrowDue
    <2> QED
      BY <2>1, <2>2
  <1> QED
    BY <1>2, <1>3, <1>4

\* A transaction is mined: what is due then is due on the deposit it was.
LEMMA DueMined ==
  ASSUME BorrowsFollowSupply, DepositIsLast, mempool \in Seq(Transaction), mempool # <<>>,
         mempool' = Tail(mempool), canary' = canary
  PROVE  /\ BorrowsFollowSupply' /\ DepositIsLast'
         /\ \/ BorrowDue' = 0
            \/ /\ BorrowDue' = CanaryBorrow /\ deposited'
               /\ Head(mempool) = [call |-> "supply", amount |-> CanarySupply]
  <1>1. /\ Len(mempool') = Len(mempool) - 1 /\ Len(mempool) \in Nat \ {0}
        /\ \A i \in 1..Len(mempool') : mempool'[i] = mempool[i + 1] /\ i + 1 \in 1..Len(mempool)
        /\ mempool' # <<>> => Len(mempool') # 0
        /\ mempool' = <<>> => Len(mempool) = 1
        /\ Head(mempool) = mempool[1]
    OBVIOUS
  <1>2. ASSUME NEW i \in 1..Len(mempool'), mempool'[i].call = "borrow"
        PROVE  /\ mempool'[i].amount = CanaryBorrow
               /\ mempool[i] = [call |-> "supply", amount |-> CanarySupply]
    <2>1. PICK j \in 1..Len(mempool) : j = i + 1 /\ mempool'[i] = mempool[j]
      BY <1>1
    <2>2. j # 1 /\ j - 1 = i
      BY <2>1
    <2> QED
      BY <1>2, <2>1, <2>2 DEF BorrowsFollowSupply
  <1>3. BorrowsFollowSupply'
    <2> SUFFICES ASSUME NEW i \in 1..Len(mempool'), mempool'[i].call = "borrow"
                 PROVE  /\ mempool'[i].amount = CanaryBorrow
                        /\ i = 1 \/ mempool'[i - 1] = [call |-> "supply", amount |-> CanarySupply]
      BY DEF BorrowsFollowSupply
    <2>1. CASE i # 1
      <3>1. PICK j \in 1..Len(mempool') : j = i - 1
        BY <1>1, <2>1
      <3>2. mempool'[j] = mempool[j + 1] /\ j + 1 = i
        BY <1>1, <3>1
      <3> QED
        BY <1>2, <3>1, <3>2
    <2> QED
      BY <1>2, <2>1
  <1>4. DepositIsLast'
    <2> SUFFICES ASSUME DepositSent, mempool' # <<>>
                 PROVE  mempool'[Len(mempool')] = [call |-> "supply", amount |-> CanarySupply]
      BY DEF DepositIsLast, DepositSent
    <2>1. Len(mempool') \in Nat \ {0} /\ Len(mempool') + 1 = Len(mempool)
      BY <1>1
    <2>2. Len(mempool') \in 1..Len(mempool')
      BY <2>1
    <2>3. mempool'[Len(mempool')] = mempool[Len(mempool)]
      BY <1>1, <2>1, <2>2
    <2> QED
      BY <2>3 DEF DepositIsLast
  <1>5. ASSUME BorrowDue' # 0
        PROVE  /\ BorrowDue' = CanaryBorrow /\ deposited'
               /\ Head(mempool) = [call |-> "supply", amount |-> CanarySupply]
    <2>1. BorrowDue' = CanaryBorrow /\ deposited'
      BY <1>5 DEF BorrowDue
    <2>2. CASE mempool' # <<>> /\ mempool'[1].call = "borrow"
      <3>1. 1 \in 1..Len(mempool')
        BY <1>1, <2>2
      <3> QED
        BY <1>1, <1>2, <2>1, <2>2, <3>1
    <2>3. CASE mempool' = <<>> /\ DepositSent'
      BY <1>1, <2>1, <2>3 DEF DepositIsLast, DepositSent
    <2> QED
      BY <1>5, <2>2, <2>3 DEF BorrowDue
  <1> QED
    BY <1>3, <1>4, <1>5

\* A transaction of the follower is mined, taking effect or not.
LEMMA MinePledge ==
  ASSUME HealthTypes, KineticTypeOK, PledgeInv, KineticTypeOK', Mine
  PROVE  PledgeInv'
  <1>1. /\ mempool \in Seq(Transaction) /\ mempool # <<>> /\ mempool' = Tail(mempool)
        /\ canary' = canary /\ {deposited, unbacked} \subseteq BOOLEAN
        /\ CanaryBorrow \in Nat /\ CanarySupply \in Nat /\ Follower \in Users
    BY HealthAssumption DEF HealthTypes, Mine
  <1>2. PICK first \in Transaction : first = mempool[1] /\ first = Head(mempool)
    BY <1>1
  <1>3. first.amount \in Nat /\ first.call \in {"supply", "borrow", "authorize"}
    BY DEF Transaction
  <1>4. Takes(first) \/ Fails(first)
    BY <1>2 DEF Mine
  <1>5. /\ BorrowsFollowSupply' /\ DepositIsLast'
        /\ \/ BorrowDue' = 0
           \/ /\ BorrowDue' = CanaryBorrow /\ deposited'
              /\ first.call = "supply" /\ first.amount = CanarySupply
    BY <1>1, <1>2, DueMined DEF PledgeInv
  <1>6. kineticPrice' \in {PriceOne, CanaryDrop} /\ (unbacked => unbacked')
    <2>1. CASE Takes(first)
      <3>1. UNCHANGED kineticPrice
        BY <2>1 DEF Takes, Supply, Borrow, kineticSettings, kineticVars
      <3>2. unbacked' = unbacked \/ unbacked' = (unbacked \/ ~deposited)
        BY <2>1 DEF Takes
      <3>3. kineticPrice' \in {PriceOne, CanaryDrop}
        BY <3>1 DEF PledgeInv
      <3>4. unbacked => unbacked'
        BY <1>1, <3>2
      <3> QED
        BY <3>3, <3>4
    <2>2. CASE Fails(first)
      BY <2>2 DEF PledgeInv, Fails, kineticSettings, kineticVars
    <2> QED
      BY <1>4, <2>1, <2>2
  <1>7. PICK s \in Nat, b \in Nat, t \in Nat, c \in Nat :
           /\ s = supplyBalance[Follower] /\ b = borrowBalance[Follower]
           /\ t = supplyBalance'[Follower] /\ c = borrowBalance'[Follower]
    BY <1>1 DEF KineticTypeOK
  <1>8. BorrowDue \in Nat /\ BorrowDue' \in Nat
    BY <1>1, <1>5, DueNat
  <1>9. PICK d \in Nat, e \in Nat : d = b + BorrowDue /\ e = c + BorrowDue'
    BY <1>7, <1>8
  <1>10. /\ d = borrowBalance[Follower] + BorrowDue
         /\ e = (borrowBalance[Follower] + BorrowDue)'
    BY <1>7, <1>9
  <1>11. CASE first.call = "supply" /\ Takes(first)
    <2>1. supplyBalance' = [supplyBalance EXCEPT ![Follower] = @ + first.amount]
          /\ borrowBalance' = borrowBalance /\ unbacked' = unbacked
      BY <1>11 DEF Takes, Supply
    <2>2. t = s + first.amount /\ c = b
      BY <1>1, <1>7, <2>1 DEF KineticTypeOK
    <2>3. BorrowDue = 0
      BY <1>1, <1>2, <1>11 DEF BorrowDue
    <2>4. CASE BorrowDue' = 0
      <3>1. e <= d /\ s + e <= t + d
        BY <1>3, <1>7, <1>9, <2>2, <2>3, <2>4
      <3> QED
        BY <1>5, <1>6, <1>7, <1>10, <3>1, PledgeStep
    <2>5. CASE BorrowDue' = CanaryBorrow /\ first.amount = CanarySupply
      <3>1. ASSUME ~unbacked' PROVE Backed'
        <4>1. PICK n \in Nat : Pledged(s, d, n)
          BY <1>7, <1>10, <2>1, <3>1 DEF PledgeInv, Backed
        <4>2. Pledged(s + CanarySupply, d + CanaryBorrow, n + 1) /\ n + 1 \in Nat
          BY <4>1, PledgeMore
        <4>3. t = s + CanarySupply /\ e = d + CanaryBorrow
          BY <1>1, <1>7, <1>9, <2>2, <2>3, <2>5
        <4>4. Pledged(t, e, n + 1)
          BY <4>2, <4>3
        <4> QED
          BY <1>7, <1>10, <4>2, <4>4 DEF Backed
      <3> QED
        BY <1>5, <1>6, <3>1 DEF PledgeInv
    <2> QED
      BY <1>5, <2>4, <2>5
  <1>12. CASE first.call = "borrow" /\ Takes(first)
    <2>1. first.amount = CanaryBorrow /\ BorrowDue' = 0
      <3>1. 1 \in 1..Len(mempool)
        BY <1>1
      <3> QED
        BY <1>2, <1>5, <1>12, <3>1 DEF PledgeInv, BorrowsFollowSupply
    <2>2. CASE deposited
      <3>1. BorrowDue = CanaryBorrow
        BY <1>1, <1>2, <1>12, <2>2 DEF BorrowDue
      <3>2. /\ supplyBalance' = supplyBalance
            /\ borrowBalance' = [borrowBalance EXCEPT ![Follower] = @ + CanaryBorrow]
        BY <1>12, <2>1 DEF Takes, Borrow
      <3>3. t = s /\ c = b + CanaryBorrow
        BY <1>1, <1>7, <3>2 DEF KineticTypeOK
      <3>4. e <= d /\ s + e <= t + d
        BY <1>1, <1>7, <1>9, <2>1, <3>1, <3>3
      <3> QED
        BY <1>5, <1>6, <1>7, <1>10, <3>4, PledgeStep
    <2>3. CASE ~deposited
      <3>1. unbacked'
        BY <1>12, <2>3 DEF Takes
      <3> QED
        BY <1>5, <1>6, <3>1 DEF PledgeInv
    <2> QED
      BY <2>2, <2>3
  <1>13. CASE first.call = "authorize" /\ Takes(first)
    <2>1. supplyBalance' = supplyBalance /\ borrowBalance' = borrowBalance
      BY <1>13 DEF Takes, kineticVars
    <2>2. BorrowDue' = 0
      BY <1>5, <1>13
    <2> QED
      BY <1>5, <1>6, <2>1, <2>2, PledgeSame
  <1>14. CASE Fails(first)
    <2>1. supplyBalance' = supplyBalance /\ borrowBalance' = borrowBalance
      BY <1>14 DEF Fails, kineticVars
    <2>2. BorrowDue' = 0
      BY <1>5, <1>14 DEF Fails
    <2> QED
      BY <1>5, <1>6, <2>1, <2>2, PledgeSame
  <1> QED
    BY <1>3, <1>4, <1>11, <1>12, <1>13, <1>14

LEMMA LiquidatePledge ==
  ASSUME KineticTypeOK, PledgeInv, KineticTypeOK', UNCHANGED <<mempool, canary, deposited, unbacked>>,
         NEW a \in Nat, Liquidate(Follower, a)
  PROVE  PledgeInv'
  <1>1. PICK s \in Nat, b \in Nat, t \in Nat, c \in Nat, due \in Nat :
           /\ s = supplyBalance[Follower] /\ b = borrowBalance[Follower]
           /\ t = supplyBalance'[Follower] /\ c = borrowBalance'[Follower] /\ due = BorrowDue
    BY HealthAssumption, DueNat DEF KineticTypeOK
  <1>2. ~unbacked => b <= s
    <2> SUFFICES ASSUME ~unbacked PROVE b <= s
      OBVIOUS
    <2>1. PICK n \in Nat : b + due + n * (CanarySupply - CanaryBorrow) <= s
      BY <1>1 DEF PledgeInv, Backed, Pledged
    <2>2. n * (CanarySupply - CanaryBorrow) \in Nat
      BY HealthAssumption, CanaryAssumption
    <2> QED
      BY <2>1, <2>2
  <1>3. PICK pay \in Nat : pay = (IF a > b THEN b ELSE a) /\ pay <= b
    OBVIOUS
  <1>4. /\ BorrowsFollowSupply' /\ DepositIsLast' /\ BorrowDue' \in {due, 0}
        /\ kineticPrice' \in {PriceOne, CanaryDrop}
    BY <1>1, DueSame DEF PledgeInv, Liquidate, kineticSettings, DepositSent
  <1>5. CASE unbacked
    BY <1>4, <1>5 DEF PledgeInv
  <1>6. CASE ~unbacked
    <2>1. (IF pay > s THEN s ELSE pay) = pay
      BY <1>2, <1>3, <1>6
    <2>2. /\ supplyBalance' = [supplyBalance EXCEPT ![Follower] = @ - pay]
          /\ borrowBalance' = [borrowBalance EXCEPT ![Follower] = @ - pay]
      BY <1>1, <1>3, <2>1 DEF Liquidate
    <2>3. t = s - pay /\ c = b - pay
      BY <1>1, <2>2, HealthAssumption DEF KineticTypeOK
    <2>4. PICK next \in Nat : next = BorrowDue' /\ next <= due
      BY <1>4
    <2>7. PICK d \in Nat, e \in Nat : d = b + due /\ e = c + next
      OBVIOUS
    <2>8. e <= d /\ s + e <= t + d
      <3>1. c + pay = b /\ t + pay = s /\ next <= due
        BY <2>3, <2>4
      <3> QED
        BY <2>7, <3>1
    <2>5. supplyBalance[Follower] + e <= supplyBalance'[Follower] + d
      BY <1>1, <2>8
    <2>6. d = borrowBalance[Follower] + BorrowDue /\ e = (borrowBalance[Follower] + BorrowDue)'
      BY <1>1, <2>4, <2>7
    <2> QED
      BY <1>4, <2>5, <2>6, <2>8, PledgeStep
  <1> QED
    BY <1>5, <1>6

\* Calls of the others leave the follower's position.
LEMMA OthersPledge ==
  ASSUME KineticTypeOK, PledgeInv, KineticTypeOK', Others
  PROVE  PledgeInv'
  <1>1. /\ UNCHANGED <<mempool, canary, deposited, unbacked>> /\ PoolAmounts \subseteq Nat
        /\ supplyBalance \in [Users -> Nat] /\ borrowBalance \in [Users -> Nat]
    BY HealthAssumption DEF Others, healthVars, KineticTypeOK
  <1>2. BorrowsFollowSupply' /\ DepositIsLast' /\ (BorrowDue' = BorrowDue \/ BorrowDue' = 0)
    BY <1>1, DueSame DEF PledgeInv, DepositSent
  <1>3. CASE \E a \in PoolAmounts : Liquidate(Follower, a)
    BY <1>1, <1>3, LiquidatePledge
  <1>4. ASSUME /\ kineticPrice' = kineticPrice
               /\ supplyBalance'[Follower] = supplyBalance[Follower]
               /\ borrowBalance'[Follower] = borrowBalance[Follower]
        PROVE  PledgeInv'
    <2>1. kineticPrice' \in {PriceOne, CanaryDrop}
      BY <1>4 DEF PledgeInv
    <2> QED
      BY <1>1, <1>2, <1>4, <2>1, PledgeSame
  <1>5. ASSUME NEW u \in Users \ {Follower}, NEW a \in PoolAmounts, OtherCall(u, a) \/ Liquidate(u, a)
        PROVE  PledgeInv'
    <2>1. /\ kineticPrice' = kineticPrice
          /\ supplyBalance' = supplyBalance
                \/ \E x : supplyBalance' = [supplyBalance EXCEPT ![u] = x]
          /\ borrowBalance' = borrowBalance
                \/ \E x : borrowBalance' = [borrowBalance EXCEPT ![u] = x]
      BY <1>5 DEF OtherCall, ExecuteTopUp, Supply, Borrow, Repay, Liquidate, kineticSettings
    <2>2. /\ supplyBalance'[Follower] = supplyBalance[Follower]
          /\ borrowBalance'[Follower] = borrowBalance[Follower]
      BY <1>1, <2>1, HealthAssumption
    <2> QED
      BY <1>4, <2>1, <2>2
  <1>6. CASE \E bps \in KineticThresholds : SetKineticThreshold(bps)
    BY <1>4, <1>6 DEF SetKineticThreshold
  <1>7. CASE UNCHANGED kineticVars
    BY <1>4, <1>7 DEF kineticVars, kineticSettings
  <1>8. CASE \E u \in Users, a \in PoolAmounts : Liquidate(u, a)
    BY <1>3, <1>5, <1>8
  <1>9. CASE /\ PreAuthorize(Follower, CanaryMaxTopUp, FALSE)
             /\ UNCHANGED <<kineticVars, topUps, mempool, prices, canary, canaries, monitorCycle,
                            deposited, unbacked>>
    BY <1>7, <1>9
  <1>10. CASE \E u \in Users \ {Follower}, a \in PoolAmounts : OtherCall(u, a)
    BY <1>5, <1>10
  <1> QED
    BY <1>6, <1>7, <1>8, <1>9, <1>10 DEF Others

\* A step that leaves the follower's transactions.
LEMMA PledgeApart ==
  ASSUME KineticTypeOK, PledgeInv, KineticTypeOK', UNCHANGED <<mempool, deposited, unbacked>>,
         DepositSent' => DepositSent, kineticPrice' \in {PriceOne, CanaryDrop},
         UNCHANGED <<supplyBalance, borrowBalance>>
  PROVE  PledgeInv'
  <1>1. BorrowsFollowSupply' /\ DepositIsLast' /\ (BorrowDue' = BorrowDue \/ BorrowDue' = 0)
    BY DueSame DEF PledgeInv
  <1> QED
    BY <1>1, PledgeSame

LEMMA SentPledge ==
  ASSUME KineticTypeOK, PledgeInv, KineticTypeOK', UNCHANGED <<kineticVars, unbacked>>,
         BorrowsFollowSupply' /\ DepositIsLast' /\ BorrowDue' = BorrowDue
  PROVE  PledgeInv'
  <1>1. /\ supplyBalance' = supplyBalance /\ borrowBalance' = borrowBalance
        /\ kineticPrice' \in {PriceOne, CanaryDrop}
    BY DEF PledgeInv, kineticVars, kineticSettings
  <1> QED
    BY <1>1, PledgeSame

\* The canary sends a transaction of its follower.
LEMMA CanarySendsPledge ==
  ASSUME HealthTypes, KineticTypeOK, PledgeInv, KineticTypeOK', CanarySends \/ CanaryTopsUp,
         UNCHANGED <<deposited, unbacked>>
  PROVE  PledgeInv'
  <1>1. /\ BorrowsFollowSupply /\ DepositIsLast /\ mempool \in Seq(Transaction)
        /\ {CanarySupply, CanaryBorrow, CanaryMaxTopUp} \subseteq Nat /\ UNCHANGED kineticVars
    BY HealthAssumption DEF PledgeInv, HealthTypes, CanarySends, CanaryTopsUp
  <1>2. CASE CanarySends
    <2>1. PICK n \in {1, 2, 3} : n = canary.next
      BY <1>2 DEF CanarySends, HealthTypes, Readings
    <2>2. /\ Len(CanaryCalls) = 3
          /\ CanaryCalls[1] = [call |-> "supply", amount |-> CanarySupply]
          /\ CanaryCalls[2] = [call |-> "borrow", amount |-> CanaryBorrow]
          /\ CanaryCalls[3] = [call |-> "authorize", amount |-> CanaryMaxTopUp]
      BY DEF CanaryCalls
    <2>3. PICK tx \in Transaction : tx = CanaryCalls[n]
      BY <1>1, <2>2 DEF Transaction
    <2>4. mempool' = Append(mempool, tx)
      BY <1>2, <2>1, <2>3 DEF CanarySends
    <2>5. DepositSent <=> n = 2
      BY <1>2, <2>1 DEF CanarySends, DepositSent
    <2>6. DepositSent' => n = 1
      <3>1. CASE n = 3
        BY <1>2, <2>1, <2>2, <3>1 DEF CanarySends, DepositSent
      <3>2. CASE n # 3
        <4>1. canary' = [canary EXCEPT !.next = @ + 1]
          BY <1>2, <2>1, <2>2, <3>2 DEF CanarySends
        <4>2. {"step", "next"} \subseteq DOMAIN canary
          BY <1>2 DEF CanarySends, HealthTypes, Readings
        <4>3. canary'.next = n + 1
          BY <2>1, <4>1, <4>2
        <4> QED
          BY <4>3 DEF DepositSent
      <3> QED
        BY <3>1, <3>2
    <2>7. BorrowsFollowSupply' /\ DepositIsLast' /\ BorrowDue' = BorrowDue
      BY <1>1, <2>2, <2>3, <2>4, <2>5, <2>6, DueSent
    <2> QED
      BY <1>1, <2>7, SentPledge
  <1>3. CASE CanaryTopsUp
    <2>1. ~DepositSent /\ ~DepositSent'
      <3>1. canary.step # "sends" /\ canary'.step # "sends"
        BY <1>3 DEF CanaryTopsUp, HealthTypes, Readings
      <3> QED
        BY <3>1 DEF DepositSent
    <2>2. CASE mempool' = mempool
      <3>1. BorrowDue' = BorrowDue
        BY <2>1, <2>2 DEF BorrowDue
      <3> QED
        BY <1>1, <2>1, <2>2, <3>1, DueSame, SentPledge
    <2>3. CASE mempool' # mempool
      <3>1. canary.topUp \in Nat
        BY <1>3 DEF CanaryTopsUp, HealthTypes, Readings
      <3>2. PICK tx \in Transaction : tx = [call |-> "supply", amount |-> canary.topUp]
        BY <3>1 DEF Transaction
      <3>3. mempool' = Append(mempool, tx) /\ tx.call = "supply"
        BY <1>3, <2>3, <3>2 DEF CanaryTopsUp
      <3>4. BorrowsFollowSupply' /\ DepositIsLast' /\ BorrowDue' = BorrowDue
        BY <1>1, <2>1, <3>3, DueSent
      <3> QED
        BY <1>1, <3>4, SentPledge
    <2> QED
      BY <2>2, <2>3
  <1> QED
    BY <1>2, <1>3

LEMMA PledgeNext ==
  ASSUME HealthTypes, KineticTypeOK, PledgeInv, KineticTypeOK', HealthNext
  PROVE  PledgeInv'
  <1>1. kineticPrice \in {PriceOne, CanaryDrop}
    BY DEF PledgeInv
  <1>2. ASSUME UNCHANGED <<kineticVars, mempool, deposited, unbacked>>, DepositSent' => DepositSent
        PROVE  PledgeInv'
    <2>1. UNCHANGED <<supplyBalance, borrowBalance, kineticPrice>>
      BY <1>2 DEF kineticVars, kineticSettings
    <2> QED
      BY <1>1, <1>2, <2>1, PledgeApart
  <1>3. CASE CanaryStarts /\ UNCHANGED <<deposited, unbacked>>
    BY <1>2, <1>3 DEF CanaryStarts, DepositSent
  <1>4. CASE (CanaryDropsPrice \/ CanaryReads \/ CanaryAssesses \/ CanaryChecksAuthorization
                 \/ CanaryVerifies \/ CanaryRestoresPrice \/ CanaryDies)
              /\ UNCHANGED <<deposited, unbacked>>
    <2>1. UNCHANGED <<kineticVars, mempool>>
      BY <1>4 DEF CanaryDropsPrice, CanaryReads, CanaryAssesses, CanaryChecksAuthorization,
                  CanaryVerifies, CanaryRestoresPrice, CanaryDies
    <2>2. canary'.step # "sends"
      <3>1. CASE CanaryDropsPrice \/ CanaryReads
        BY <3>1 DEF CanaryDropsPrice, CanaryReads
      <3>2. CASE CanaryAssesses \/ CanaryVerifies \/ CanaryRestoresPrice \/ CanaryDies
        BY <3>2 DEF CanaryAssesses, CanaryVerifies, CanaryRestoresPrice, CanaryDies, CanaryFails
      <3>3. CASE CanaryChecksAuthorization
        BY <3>3 DEF CanaryChecksAuthorization, CanaryFails, HealthTypes, Readings
      <3> QED
        BY <1>4, <3>1, <3>2, <3>3
    <2> QED
      BY <1>2, <1>4, <2>1, <2>2 DEF DepositSent
  <1>5. CASE MonitorCycle /\ UNCHANGED <<kineticVars, auth, topUps, mempool, prices, canary, canaries,
                                         deposited, unbacked>>
    BY <1>2, <1>5 DEF DepositSent
  <1>6. CASE AlertNext /\ UNCHANGED <<kineticVars, healthVars>>
    BY <1>2, <1>6 DEF healthVars, DepositSent
  <1>7. CASE MinePrice
    <2>1. /\ UNCHANGED <<supplyBalance, borrowBalance, mempool, canary, deposited, unbacked>>
          /\ kineticPrice' = kineticPrice \/ kineticPrice' = Head(prices)
      BY <1>7 DEF MinePrice, SetKineticPrice, kineticVars, kineticSettings
    <2>2. Head(prices) \in {PriceOne, CanaryDrop}
      BY <1>7 DEF MinePrice, HealthTypes
    <2> QED
      BY <1>1, <2>1, <2>2, PledgeApart DEF DepositSent
  <1> QED
    BY <1>3, <1>4, <1>5, <1>6, <1>7, MinePledge, OthersPledge, CanarySendsPledge
       DEF HealthNext, CanaryStep

-----------------------------------------------------------------------------
(* ScorePublishing. *)

ScoredLead == LeadAddresses \cup {NoAddress}

Calls == [step : {"send", "sent", "published", "threw"}, nonce : Nat, tx : ScoreTxs]

\* The transaction that holds a nonce of the publishers' account, and their number.
HeldBy(nonce) == scoreTxs[PublisherKey][nonce + 1]
Pending == Len(scoreTxs[PublisherKey])

\* What is mined and did not revert has been on the board.
MinedRecorded ==
    \A n \in Nat : n < scoresMined[PublisherKey] /\ <<PublisherKey, n>> \notin scoresReverted
                      => Event(HeldBy(n)) \in scoreEvents

\* A publisher's transaction is its own latest one; once sent it holds its nonce or
\* was outbid there, and once reported, what holds the nonce was recorded.
OwnCall(p, call, n) ==
    /\ call.step \in {"send", "sent", "published"} => call.tx.by = p /\ call.tx.n = n
    /\ call.step \in {"sent", "published"} =>
          call.nonce < Pending /\ (HeldBy(call.nonce) = call.tx \/ LostItsNonce(p, n))
    /\ call.step = "published" =>
          call.nonce < scoresMined[PublisherKey] /\ Event(HeldBy(call.nonce)) \in scoreEvents

CallsInv ==
    /\ Account!NoncesTypeOK /\ MinedRecorded
    /\ publishing \in [Publishers -> Calls \cup {[step |-> "none"], [step |-> "threw"]}]
    /\ publishes \in [Publishers -> Nat]
    /\ \A p \in Publishers : OwnCall(p, publishing[p], publishes[p])

\* What the canary of scores has done at each step.
CanaryCalled(lead, att) ==
    /\ publishing["canary"].step # "none"
    /\ publishing["canary"].step # "threw" =>
          publishing["canary"].tx.lead = lead /\ publishing["canary"].tx.attestationId = att

Done(lead, att, n) == Recorded(lead, att) \/ LostItsNonce("canary", n)

CanaryProgress ==
    /\ scoreCanary = "await1" => CanaryCalled(CanaryLead1, LiveId)
    /\ scoreCanary = "await2" => CanaryCalled(CanaryLead2, DerivedId)
    /\ scoreCanary = "publish2" => Done(CanaryLead1, LiveId, publishes["canary"])
    /\ scoreCanary \in {"await2", "ranked", "score1", "score2", "ok"} =>
          Done(CanaryLead1, LiveId, publishes["canary"] - 1)
    /\ scoreCanary \in {"ranked", "score1", "score2", "ok"} =>
          Done(CanaryLead2, DerivedId, publishes["canary"])

PublishingInv ==
    /\ LeaderboardInv /\ CallsInv /\ CanaryProgress
    /\ registered \in SUBSET {CanaryLead1, CanaryLead2}
    /\ scoreCanary \in {"idle", "lead1", "lead2", "publish1", "await1", "publish2", "await2",
                        "ranked", "score1", "score2", "ok", "failed"}
    /\ readId \in Attestations \cup {NoAddress}

LEMMA NoncesTypes ==
  Account!NoncesTypeOK <=> /\ scoreTxs \in [{PublisherKey} -> Seq(ScoreTxs)]
                           /\ scoresMined \in [{PublisherKey} -> Nat]
                           /\ scoresMined[PublisherKey] <= Pending
                           /\ scoresReverted \in SUBSET ({PublisherKey} \X Nat)
                           /\ scoresReplaced \in SUBSET [lost : ScoreTxs, to : ScoreTxs]
  BY DEF Account!NoncesTypeOK, Pending

LEMMA PublishingInitInv == PublishingInit => PublishingInv
  <1> SUFFICES ASSUME PublishingInit PROVE PublishingInv
    OBVIOUS
  <1>1. LeaderboardInv
    BY LeaderboardInitInv DEF PublishingInit
  <1>2. /\ publishing \in [Publishers -> Calls \cup {[step |-> "none"], [step |-> "threw"]}]
        /\ publishes \in [Publishers -> Nat]
    BY DEF PublishingInit
  <1>3. /\ scoreTxs = [k \in {PublisherKey} |-> <<>>] /\ scoresMined = [k \in {PublisherKey} |-> 0]
        /\ scoresReverted = {} /\ scoresReplaced = {}
    BY DEF PublishingInit, Account!NoncesInit
  <1>4. Account!NoncesTypeOK
    BY <1>3, NoncesTypes DEF Pending
  <1>5. MinedRecorded
    BY <1>3 DEF MinedRecorded
  <1>6. \A p \in Publishers : OwnCall(p, publishing[p], publishes[p])
    BY DEF PublishingInit, OwnCall
  <1>7. scoreCanary = "idle" /\ registered = {CanaryLead1} /\ readId = NoAddress
    BY DEF PublishingInit
  <1>8. CanaryProgress
    BY <1>7 DEF CanaryProgress
  <1> QED
    BY <1>1, <1>2, <1>4, <1>5, <1>6, <1>7, <1>8 DEF PublishingInv, CallsInv

LEMMA OwnCallKept ==
  ASSUME NEW p, NEW call, NEW n, OwnCall(p, call, n),
         UNCHANGED <<scoreTxs, scoresMined, scoresReplaced>>, scoreEvents \subseteq scoreEvents'
  PROVE  OwnCall(p, call, n)'
  BY DEF OwnCall, HeldBy, Pending, LostItsNonce

\* Scores others send take nothing back.
LEMMA CallsKept ==
  ASSUME CallsInv, UNCHANGED <<publishing, publishes, accountVars>>, scoreEvents \subseteq scoreEvents'
  PROVE  CallsInv'
  <1>1. UNCHANGED <<scoreTxs, scoresMined, scoresReverted, scoresReplaced>>
    BY DEF accountVars
  <1>2. Account!NoncesTypeOK' /\ MinedRecorded'
    BY <1>1, NoncesTypes DEF CallsInv, MinedRecorded, HeldBy, Account!NoncesTypeOK
  <1>3. ASSUME NEW p \in Publishers PROVE OwnCall(p, publishing[p], publishes[p])'
    <2>1. PICK own, n : own = publishing[p] /\ n = publishes[p] /\ OwnCall(p, own, n)
      BY DEF CallsInv
    <2> QED
      BY <1>1, <2>1, OwnCallKept
  <1> QED
    BY <1>2, <1>3 DEF CallsInv

LEMMA ProgressKept ==
  ASSUME CanaryProgress, scoreEvents \subseteq scoreEvents', scoresReplaced \subseteq scoresReplaced',
         UNCHANGED scoreCanary, publishes'["canary"] = publishes["canary"],
         publishing'["canary"].step # "none" \/ publishing["canary"].step = "none",
         publishing'["canary"].step = "threw"
            \/ /\ publishing["canary"].step # "threw"
               /\ publishing'["canary"].tx = publishing["canary"].tx
  PROVE  CanaryProgress'
  <1>1. \A lead, att : Recorded(lead, att) => Recorded(lead, att)'
    BY DEF Recorded
  <1>2. \A p, n : LostItsNonce(p, n) => LostItsNonce(p, n)'
    BY DEF LostItsNonce
  <1>3. \A lead, att, n : Done(lead, att, n) => Done(lead, att, n)'
    BY <1>1, <1>2 DEF Done
  <1>4. \A lead, att : CanaryCalled(lead, att) => CanaryCalled(lead, att)'
    BY DEF CanaryCalled
  <1> QED
    BY <1>3, <1>4 DEF CanaryProgress

\* publishScore is called: it reads the nonce, or throws.
LEMMA PublishScoreInv ==
  ASSUME CallsInv, NEW p \in Publishers, NEW lead \in ScoredLead, NEW score \in Nat,
         NEW att \in Attestations, PublishScore(p, lead, score, att), scoreEvents' = scoreEvents
  PROVE  /\ CallsInv' /\ publishes'[p] = publishes[p] + 1 /\ publishing'[p].step \in {"send", "threw"}
         /\ publishing'[p].step = "send" =>
               publishing'[p].tx.lead = lead /\ publishing'[p].tx.attestationId = att
         /\ \A q \in Publishers \ {p} : publishing'[q] = publishing[q] /\ publishes'[q] = publishes[q]
         /\ scoresReplaced' = scoresReplaced
  <1>1. UNCHANGED <<scoreTxs, scoresMined, scoresReverted, scoresReplaced>>
    BY DEF PublishScore, accountVars
  <1>2. /\ publishes' = [publishes EXCEPT ![p] = @ + 1] /\ publishes \in [Publishers -> Nat]
        /\ publishing \in [Publishers -> Calls \cup {[step |-> "none"], [step |-> "threw"]}]
    BY DEF PublishScore, CallsInv
  <1>3. PICK n \in Nat : n = publishes'[p] /\ n = publishes[p] + 1
    BY <1>2
  <1> DEFINE tx == [by |-> p, n |-> n, lead |-> lead, score |-> score, attestationId |-> att]
             call == IF score > 100 THEN [step |-> "threw"]
                     ELSE [step |-> "send", nonce |-> Pending, tx |-> tx]
  <1>4. publishing' = [publishing EXCEPT ![p] = call]
    BY <1>3 DEF PublishScore, Pending, Account!PendingCount
  <1>5. Pending \in Nat
    BY NoncesTypes DEF CallsInv, Pending
  <1>6. call \in Calls \cup {[step |-> "none"], [step |-> "threw"]}
    <2>1. CASE score > 100
      BY <2>1
    <2>2. CASE ~(score > 100)
      <3>1. score \in 0..100
        BY <2>2
      <3>2. tx \in ScoreTxs
        BY <3>1 DEF ScoreTxs, ScoredLead
      <3> QED
        BY <1>5, <2>2, <3>2 DEF Calls
    <2> QED
      BY <2>1, <2>2
  <1>7. /\ call.step \in {"send", "threw"}
        /\ call.step = "send" => /\ call.tx.by = p /\ call.tx.n = n
                                 /\ call.tx.lead = lead /\ call.tx.attestationId = att
    OBVIOUS
  <1> HIDE DEF call
  <1>12. PICK made \in Calls \cup {[step |-> "none"], [step |-> "threw"]} : made = call
    BY <1>6
  <1>8. /\ publishing' \in [Publishers -> Calls \cup {[step |-> "none"], [step |-> "threw"]}]
        /\ publishing'[p] = made
        /\ \A q \in Publishers \ {p} : publishing'[q] = publishing[q]
    BY <1>2, <1>4, <1>12
  <1>9. publishes' \in [Publishers -> Nat] /\ \A q \in Publishers \ {p} : publishes'[q] = publishes[q]
    BY <1>2
  <1>10. \A q \in Publishers : OwnCall(q, publishing[q], publishes[q])'
    <2>1. OwnCall(p, made, n)'
      BY <1>7, <1>12 DEF OwnCall
    <2>2. ASSUME NEW q \in Publishers \ {p} PROVE OwnCall(q, publishing[q], publishes[q])'
      <3>1. PICK own, m : own = publishing[q] /\ m = publishes[q] /\ OwnCall(q, own, m)
        BY DEF CallsInv
      <3>2. OwnCall(q, own, m)'
        BY <1>1, <3>1, OwnCallKept
      <3> QED
        BY <1>8, <1>9, <3>1, <3>2
    <2> QED
      BY <1>3, <1>8, <2>1, <2>2
  <1>11. Account!NoncesTypeOK' /\ MinedRecorded'
    BY <1>1 DEF CallsInv, MinedRecorded, HeldBy, Account!NoncesTypeOK
  <1> QED
    BY <1>1, <1>3, <1>7, <1>8, <1>9, <1>10, <1>11, <1>12 DEF CallsInv

\* What a step of a publisher that leaves the transaction makes of its call.
LEMMA CallMoves ==
  ASSUME CallsInv, NEW p \in Publishers, publishing[p].step \in {"send", "sent"},
         NEW x \in {"sent", "published", "threw"}, publishing' = [publishing EXCEPT ![p].step = x]
  PROVE  /\ publishing' \in [Publishers -> Calls \cup {[step |-> "none"], [step |-> "threw"]}]
         /\ publishing[p] \in Calls
         /\ publishing'[p].step = x /\ publishing'[p].nonce = publishing[p].nonce
         /\ publishing'[p].tx = publishing[p].tx
         /\ \A q \in Publishers \ {p} : publishing'[q] = publishing[q]
  <1>1. publishing \in [Publishers -> Calls \cup {[step |-> "none"], [step |-> "threw"]}]
    BY DEF CallsInv
  <1>2. PICK call \in Calls : call = publishing[p]
    BY <1>1
  <1> DEFINE next == [call EXCEPT !.step = x]
  <1>3. next \in Calls /\ next.step = x /\ next.nonce = call.nonce /\ next.tx = call.tx
    BY <1>2 DEF Calls
  <1>4. publishing' = [publishing EXCEPT ![p] = next]
    BY <1>2
  <1> HIDE DEF next
  <1>5. publishing'[p] = next /\ \A q \in Publishers \ {p} : publishing'[q] = publishing[q]
    BY <1>1, <1>4
  <1> QED
    BY <1>1, <1>2, <1>3, <1>4, <1>5

\* The node takes a transaction: a nonce that is mined keeps its own, and one that is
\* pending loses it to the new one.
LEMMA AcceptedFacts ==
  ASSUME Account!NoncesTypeOK, NEW nonce \in Nat, NEW tx \in ScoreTxs,
         Account!Accepted(PublisherKey, nonce, tx)
  PROVE  /\ Account!NoncesTypeOK' /\ UNCHANGED <<scoresMined, scoresReverted>>
         /\ scoresReplaced \subseteq scoresReplaced'
         /\ scoresMined[PublisherKey] <= nonce
         /\ nonce < Pending' /\ Pending <= Pending' /\ HeldBy(nonce)' = tx
         /\ \A m \in Nat : m < Pending /\ m # nonce => HeldBy(m)' = HeldBy(m)
         /\ nonce < Pending => [lost |-> HeldBy(nonce), to |-> tx] \in scoresReplaced'
  <1>1. PICK list \in Seq(ScoreTxs) : list = scoreTxs[PublisherKey] /\ Pending = Len(list)
    BY NoncesTypes DEF Pending
  <1>2. /\ scoreTxs \in [{PublisherKey} -> Seq(ScoreTxs)] /\ scoresMined[PublisherKey] \in Nat
        /\ scoresMined[PublisherKey] <= Len(list)
    BY <1>1, NoncesTypes
  <1>3. CASE nonce = Len(list) /\ scoreTxs' = [scoreTxs EXCEPT ![PublisherKey] = Append(@, tx)]
             /\ UNCHANGED <<scoresMined, scoresReverted, scoresReplaced>>
    <2>1. PICK new : new = Append(list, tx)
      OBVIOUS
    <2>5. new \in Seq(ScoreTxs)
      BY <2>1
    <2>2. /\ Len(new) = Len(list) + 1 /\ Len(list) \in Nat /\ new[Len(list) + 1] = tx
          /\ \A m \in Nat : m < Len(list) => new[m + 1] = list[m + 1]
      BY <2>1
    <2>3. scoreTxs' \in [{PublisherKey} -> Seq(ScoreTxs)] /\ scoreTxs'[PublisherKey] = new
      BY <1>1, <1>2, <1>3, <2>1, <2>5
    <2>4. Account!NoncesTypeOK'
      BY <1>1, <1>2, <1>3, <2>2, <2>3, <2>5, NoncesTypes DEF Account!NoncesTypeOK
    <2> QED
      BY <1>1, <1>2, <1>3, <2>2, <2>3, <2>4 DEF HeldBy, Pending
  <1>4. CASE /\ scoresMined[PublisherKey] <= nonce /\ nonce < Len(list)
             /\ scoreTxs' = [scoreTxs EXCEPT ![PublisherKey][nonce + 1] = tx]
             /\ scoresReplaced' = scoresReplaced \cup {[lost |-> list[nonce + 1], to |-> tx]}
             /\ UNCHANGED <<scoresMined, scoresReverted>>
    <2>1. PICK new : new = [list EXCEPT ![nonce + 1] = tx]
      OBVIOUS
    <2>2. nonce + 1 \in 1..Len(list) /\ list[nonce + 1] \in ScoreTxs
      BY <1>4
    <2>3. /\ new \in Seq(ScoreTxs) /\ Len(new) = Len(list) /\ Len(list) \in Nat
          /\ new[nonce + 1] = tx
          /\ \A m \in Nat : m < Len(list) /\ m # nonce => new[m + 1] = list[m + 1]
      BY <2>1, <2>2
    <2>4. scoreTxs' \in [{PublisherKey} -> Seq(ScoreTxs)] /\ scoreTxs'[PublisherKey] = new
      BY <1>1, <1>2, <1>4, <2>1, <2>3
    <2>5. scoresReplaced' \in SUBSET [lost : ScoreTxs, to : ScoreTxs]
      BY <1>4, <2>2, NoncesTypes
    <2>6. Account!NoncesTypeOK'
      BY <1>1, <1>2, <1>4, <2>3, <2>4, <2>5, NoncesTypes DEF Account!NoncesTypeOK
    <2> QED
      BY <1>1, <1>2, <1>4, <2>3, <2>4, <2>6 DEF HeldBy, Pending
  <1> QED
    BY <1>1, <1>3, <1>4 DEF Account!Accepted, Account!PendingCount, Account!LatestCount, Account!Holder

\* The node answers a send: whoever held the nonce is outbid, or the sender throws.
LEMMA SendScoreInv ==
  ASSUME CallsInv, NEW p \in Publishers, SendScore(p),
         UNCHANGED <<publishes, scoreEvents>>
  PROVE  /\ CallsInv' /\ scoresReplaced \subseteq scoresReplaced'
         /\ publishing[p].step = "send" /\ publishing'[p].step \in {"sent", "threw"}
         /\ publishing'[p].tx = publishing[p].tx
         /\ \A q \in Publishers \ {p} : publishing'[q] = publishing[q]
  <1>1. /\ publishing[p].step = "send" /\ publishing[p] \in Calls
        /\ OwnCall(p, publishing[p], publishes[p])
    BY CallsInv DEF SendScore, CallsInv
  <1>2. PICK call \in Calls : call = publishing[p] /\ call.nonce \in Nat /\ call.tx \in ScoreTxs
    BY <1>1 DEF Calls
  <1>3. CASE Account!Accepted(PublisherKey, call.nonce, call.tx)
             /\ publishing' = [publishing EXCEPT ![p].step = "sent"]
    <2>1. /\ publishing' \in [Publishers -> Calls \cup {[step |-> "none"], [step |-> "threw"]}]
          /\ publishing'[p].step = "sent" /\ publishing'[p].nonce = call.nonce
          /\ publishing'[p].tx = call.tx
          /\ \A q \in Publishers \ {p} : publishing'[q] = publishing[q]
      BY <1>1, <1>2, <1>3, CallMoves
    <2>2. Account!NoncesTypeOK
      BY DEF CallsInv
    <2>3. /\ Account!NoncesTypeOK' /\ UNCHANGED <<scoresMined, scoresReverted>>
          /\ scoresReplaced \subseteq scoresReplaced'
          /\ scoresMined[PublisherKey] <= call.nonce
          /\ call.nonce < Pending' /\ Pending <= Pending' /\ HeldBy(call.nonce)' = call.tx
          /\ \A m \in Nat : m < Pending /\ m # call.nonce => HeldBy(m)' = HeldBy(m)
          /\ call.nonce < Pending => [lost |-> HeldBy(call.nonce), to |-> call.tx] \in scoresReplaced'
      BY <1>2, <1>3, <2>2, AcceptedFacts
    <2>4. scoresMined[PublisherKey] \in Nat /\ scoresMined[PublisherKey] <= Pending
          /\ Pending \in Nat /\ Pending' \in Nat
      BY <2>2, <2>3, NoncesTypes DEF Pending
    <2>5. ASSUME NEW m \in Nat, m < scoresMined[PublisherKey]
          PROVE  m # call.nonce /\ HeldBy(m)' = HeldBy(m)
      BY <1>2, <2>3, <2>4, <2>5
    <2>6. MinedRecorded'
      BY <2>3, <2>5 DEF CallsInv, MinedRecorded
    <2>7. OwnCall(p, publishing[p], publishes[p])'
      BY <1>1, <1>2, <2>1, <2>3 DEF OwnCall
    <2>8. ASSUME NEW q \in Publishers \ {p} PROVE OwnCall(q, publishing[q], publishes[q])'
      <3>1. PICK own, n : own = publishing[q] /\ n = publishes[q]
        BY DEF CallsInv
      <3>2. OwnCall(q, own, n)
        BY <3>1 DEF CallsInv
      <3>3. own.step \in {"send", "sent", "published"} => own.nonce \in Nat
        BY <3>1 DEF CallsInv, Calls
      <3>4. LostItsNonce(q, n) => LostItsNonce(q, n)'
        BY <2>3 DEF LostItsNonce
      <3>5. ASSUME own.step \in {"sent", "published"}
            PROVE  own.nonce < Pending' /\ (HeldBy(own.nonce)' = own.tx \/ LostItsNonce(q, n)')
        <4>1. own.nonce \in Nat /\ own.nonce < Pending
              /\ (HeldBy(own.nonce) = own.tx \/ LostItsNonce(q, n))
          BY <3>2, <3>3, <3>5 DEF OwnCall
        <4>2. CASE own.nonce # call.nonce
          BY <2>3, <2>4, <3>4, <4>1, <4>2
        <4>3. CASE own.nonce = call.nonce /\ HeldBy(own.nonce) = own.tx
          <5>1. own.tx.by = q /\ own.tx.n = n
            BY <3>2, <3>5 DEF OwnCall
          <5>2. PICK r \in scoresReplaced' : r.lost = own.tx
            BY <2>3, <4>1, <4>3
          <5> QED
            BY <2>3, <2>4, <4>1, <5>1, <5>2 DEF LostItsNonce
        <4> QED
          BY <2>3, <2>4, <3>4, <4>1, <4>2, <4>3
      <3>6. ASSUME own.step = "published"
            PROVE  own.nonce < scoresMined'[PublisherKey] /\ Event(HeldBy(own.nonce)') \in scoreEvents'
        <4>1. own.nonce \in Nat /\ own.nonce < scoresMined[PublisherKey]
              /\ Event(HeldBy(own.nonce)) \in scoreEvents
          BY <3>2, <3>3, <3>6 DEF OwnCall
        <4> QED
          BY <2>3, <2>5, <4>1
      <3>7. publishing'[q] = own /\ publishes'[q] = n
        BY <2>1, <3>1
      <3>8. OwnCall(q, own, n)'
        BY <3>2, <3>5, <3>6 DEF OwnCall
      <3> QED
        BY <3>7, <3>8
    <2> QED
      BY <1>1, <1>2, <2>1, <2>3, <2>6, <2>7, <2>8 DEF CallsInv
  <1>4. CASE UNCHANGED accountVars /\ publishing' = [publishing EXCEPT ![p].step = "threw"]
    <2>1. /\ publishing' \in [Publishers -> Calls \cup {[step |-> "none"], [step |-> "threw"]}]
          /\ publishing'[p].step = "threw" /\ publishing'[p].tx = call.tx
          /\ \A q \in Publishers \ {p} : publishing'[q] = publishing[q]
      BY <1>1, <1>2, <1>4, CallMoves
    <2>2. UNCHANGED <<scoreTxs, scoresMined, scoresReverted, scoresReplaced>>
      BY <1>4 DEF accountVars
    <2>3. Account!NoncesTypeOK' /\ MinedRecorded'
      BY <2>2 DEF CallsInv, MinedRecorded, HeldBy, Account!NoncesTypeOK
    <2>4. ASSUME NEW q \in Publishers PROVE OwnCall(q, publishing[q], publishes[q])'
      <3>1. CASE q = p
        BY <2>1, <3>1 DEF OwnCall
      <3>2. CASE q # p
        <4>1. PICK own, n : own = publishing[q] /\ n = publishes[q] /\ OwnCall(q, own, n)
          BY DEF CallsInv
        <4>2. OwnCall(q, own, n)'
          BY <2>2, <4>1, OwnCallKept
        <4> QED
          BY <2>1, <3>2, <4>1, <4>2
      <3> QED
        BY <3>1, <3>2
    <2> QED
      BY <1>1, <1>2, <2>1, <2>2, <2>3, <2>4 DEF CallsInv
  <1> QED
    BY <1>2, <1>3, <1>4
       DEF SendScore, Account!Rejected, Account!nonceVars, accountVars

\* A receipt is answered, or a publisher gives up.
LEMMA AnswerInv ==
  ASSUME CallsInv, NEW p \in Publishers, AnswerOfReceipt(p) \/ PublishFails(p),
         UNCHANGED <<publishes, scoreEvents>>
  PROVE  /\ CallsInv' /\ scoresReplaced' = scoresReplaced
         /\ publishing[p].step \in {"send", "sent"} /\ publishing'[p].step \in {"published", "threw"}
         /\ publishing'[p].tx = publishing[p].tx
         /\ \A q \in Publishers \ {p} : publishing'[q] = publishing[q]
  <1>1. UNCHANGED <<scoreTxs, scoresMined, scoresReverted, scoresReplaced>>
    BY DEF AnswerOfReceipt, PublishFails, accountVars
  <1>2. PICK x \in {"published", "threw"} :
           /\ publishing' = [publishing EXCEPT ![p].step = x] /\ publishing[p].step \in {"send", "sent"}
           /\ x = "published" => /\ publishing[p].step = "sent"
                                 /\ Account!HasReceipt(PublisherKey, publishing[p].nonce)
                                 /\ Account!Succeeded(PublisherKey, publishing[p].nonce)
    BY DEF AnswerOfReceipt, PublishFails
  <1>3. /\ publishing' \in [Publishers -> Calls \cup {[step |-> "none"], [step |-> "threw"]}]
        /\ publishing[p] \in Calls
        /\ publishing'[p].step = x /\ publishing'[p].nonce = publishing[p].nonce
        /\ publishing'[p].tx = publishing[p].tx
        /\ \A q \in Publishers \ {p} : publishing'[q] = publishing[q]
    BY <1>2, CallMoves
  <1>4. PICK call \in Calls : call = publishing[p] /\ call.nonce \in Nat
    BY <1>3 DEF Calls
  <1>5. OwnCall(p, call, publishes[p])
    BY <1>4 DEF CallsInv
  <1>6. x = "published" =>
           call.nonce < scoresMined[PublisherKey] /\ Event(HeldBy(call.nonce)) \in scoreEvents
    BY <1>2, <1>4 DEF CallsInv, MinedRecorded, Account!HasReceipt, Account!Succeeded, Account!LatestCount
  <1>7. OwnCall(p, publishing[p], publishes[p])'
    BY <1>1, <1>2, <1>3, <1>4, <1>5, <1>6 DEF OwnCall, HeldBy, Pending, LostItsNonce
  <1>8. ASSUME NEW q \in Publishers \ {p} PROVE OwnCall(q, publishing[q], publishes[q])'
    <2>1. PICK own, n : own = publishing[q] /\ n = publishes[q] /\ OwnCall(q, own, n)
      BY DEF CallsInv
    <2>2. OwnCall(q, own, n)'
      BY <1>1, <2>1, OwnCallKept
    <2> QED
      BY <1>3, <2>1, <2>2
  <1>9. Account!NoncesTypeOK' /\ MinedRecorded'
    BY <1>1 DEF CallsInv, MinedRecorded, HeldBy, Account!NoncesTypeOK
  <1> QED
    BY <1>1, <1>2, <1>3, <1>7, <1>8, <1>9 DEF CallsInv

\* The next transaction of the account is mined, and the board takes it or not.
LEMMA MineScoreInv ==
  ASSUME CallsInv, MineScore
  PROVE  /\ CallsInv' /\ scoreEvents \subseteq scoreEvents' /\ scoresReplaced' = scoresReplaced
         /\ [LeaderboardNext]_leaderboardVars
  <1>1. /\ scoreTxs \in [{PublisherKey} -> Seq(ScoreTxs)] /\ scoresMined \in [{PublisherKey} -> Nat]
        /\ scoresReverted \in SUBSET ({PublisherKey} \X Nat)
        /\ scoresReplaced \in SUBSET [lost : ScoreTxs, to : ScoreTxs]
    BY NoncesTypes DEF CallsInv
  <1>2. PICK list \in Seq(ScoreTxs), m \in Nat :
           /\ list = scoreTxs[PublisherKey] /\ Pending = Len(list) /\ m = scoresMined[PublisherKey]
           /\ m < Len(list)
    BY <1>1 DEF Pending, MineScore, Account!LatestCount, Account!PendingCount
  <1>3. PICK tx \in ScoreTxs : tx = HeldBy(m) /\ tx = Account!Holder(PublisherKey, m)
    <2>1. m + 1 \in 1..Len(list)
      BY <1>2
    <2> QED
      BY <1>2, <2>1 DEF HeldBy, Account!Holder
  <1>4. /\ UNCHANGED <<publishing, publishes, scoreTxs, scoresReplaced>>
        /\ scoresMined' = [scoresMined EXCEPT ![PublisherKey] = @ + 1]
        /\ \/ /\ UpdateScore(PublisherKey, tx.lead, tx.score, tx.attestationId)
              /\ scoresReverted' = scoresReverted
           \/ /\ scoresReverted' = scoresReverted \cup {<<PublisherKey, m>>}
              /\ UNCHANGED leaderboardVars
    BY <1>2, <1>3 DEF MineScore, Account!Mine, Account!LatestCount
  <1>5. scoresMined' \in [{PublisherKey} -> Nat] /\ scoresMined'[PublisherKey] = m + 1
    BY <1>1, <1>2, <1>4
  <1>6. tx.lead \in ScoredLead /\ tx.score \in 0..255 /\ tx.attestationId \in Attestations
    BY DEF ScoreTxs, ScoredLead
  <1>7. scoreEvents \subseteq scoreEvents' /\ [LeaderboardNext]_leaderboardVars
    <2>1. CASE UpdateScore(PublisherKey, tx.lead, tx.score, tx.attestationId)
      <3>1. LeaderboardNext
        BY <1>6, <2>1, PublishingAssumption DEF LeaderboardNext, ScoredLead
      <3> QED
        BY <2>1, <3>1 DEF UpdateScore
    <2>2. CASE UNCHANGED leaderboardVars
      BY <2>2 DEF leaderboardVars
    <2> QED
      BY <1>4, <2>1, <2>2
  <1>8. MinedRecorded'
    <2> SUFFICES ASSUME NEW n \in Nat, n < m + 1, <<PublisherKey, n>> \notin scoresReverted'
                 PROVE  Event(HeldBy(n)) \in scoreEvents'
      BY <1>4, <1>5 DEF MinedRecorded, HeldBy
    <2>1. CASE n = m
      <3>1. UpdateScore(PublisherKey, tx.lead, tx.score, tx.attestationId)
        BY <1>4, <2>1
      <3> QED
        BY <1>3, <2>1, <3>1 DEF UpdateScore, Event
    <2>2. CASE n # m
      <3>1. n < m /\ <<PublisherKey, n>> \notin scoresReverted
        BY <1>4, <2>2
      <3> QED
        BY <1>2, <1>7, <3>1 DEF CallsInv, MinedRecorded
    <2> QED
      BY <2>1, <2>2
  <1>9. Account!NoncesTypeOK'
    <2>1. scoresReverted' \in SUBSET ({PublisherKey} \X Nat)
      BY <1>1, <1>4
    <2> QED
      BY <1>1, <1>2, <1>4, <1>5, <2>1, NoncesTypes DEF Account!NoncesTypeOK, Pending
  <1>10. ASSUME NEW p \in Publishers PROVE OwnCall(p, publishing[p], publishes[p])'
    <2>1. PICK own, n : own = publishing[p] /\ n = publishes[p] /\ OwnCall(p, own, n)
      BY DEF CallsInv
    <2>2. own.step = "published" => own.nonce \in Nat /\ own.nonce < m
      BY <1>2, <2>1 DEF CallsInv, Calls, OwnCall
    <2>3. own.step = "published" => own.nonce < scoresMined'[PublisherKey]
      BY <1>5, <2>2
    <2>4. OwnCall(p, own, n)'
      BY <1>4, <1>7, <2>1, <2>3 DEF OwnCall, HeldBy, Pending, LostItsNonce
    <2> QED
      BY <1>4, <2>1, <2>4
  <1> QED
    BY <1>4, <1>7, <1>8, <1>9, <1>10 DEF CallsInv

\* The canary's call is the one it waits for.
LEMMA CanaryCallInv ==
  ASSUME CallsInv, NEW lead \in LeadAddresses, NEW score \in CanaryScores, NEW att \in Attestations,
         PublishScore("canary", lead, score, att), scoreEvents' = scoreEvents
  PROVE  /\ CallsInv' /\ scoresReplaced' = scoresReplaced
         /\ publishes'["canary"] = publishes["canary"] + 1 /\ CanaryCalled(lead, att)'
  <1>1. lead \in ScoredLead /\ score \in Nat
    BY PublishingAssumption DEF ScoredLead
  <1>2. PICK p \in Publishers : p = "canary" /\ PublishScore(p, lead, score, att)
    BY DEF Publishers
  <1>3. /\ CallsInv' /\ scoresReplaced' = scoresReplaced /\ publishes'[p] = publishes[p] + 1
        /\ publishing'[p].step \in {"send", "threw"}
        /\ publishing'[p].step = "send" =>
              publishing'[p].tx.lead = lead /\ publishing'[p].tx.attestationId = att
    BY <1>1, <1>2, PublishScoreInv
  <1> QED
    BY <1>2, <1>3 DEF CanaryCalled

LEMMA PublishingNextInv ==
  PublishingInv /\ PublishingNext => PublishingInv' /\ [LeaderboardNext]_leaderboardVars
  <1> SUFFICES ASSUME PublishingInv, PublishingNext
               PROVE  PublishingInv' /\ [LeaderboardNext]_leaderboardVars
    OBVIOUS
  <1>1. /\ LeaderboardInv /\ CallsInv /\ CanaryProgress /\ "canary" \in Publishers /\ "cli" \in Publishers
        /\ registered \in SUBSET {CanaryLead1, CanaryLead2} /\ readId \in Attestations \cup {NoAddress}
        /\ publishes["canary"] \in Nat
    BY DEF PublishingInv, Publishers, CallsInv
  <1>2. /\ PublisherKey \in Signers /\ CanaryLead1 \in LeadAddresses /\ CanaryLead2 \in LeadAddresses
        /\ LiveId \in Attestations /\ DerivedId \in Attestations
        /\ PublishedScores \subseteq 0..255 /\ CanaryScores \subseteq 0..255
    BY PublishingAssumption
  <1>3. ASSUME CallsInv', CanaryProgress', [LeaderboardNext]_leaderboardVars,
               registered' \in SUBSET {CanaryLead1, CanaryLead2},
               scoreCanary' \in {"idle", "lead1", "lead2", "publish1", "await1", "publish2",
                                 "await2", "ranked", "score1", "score2", "ok", "failed"},
               readId' \in Attestations \cup {NoAddress}
        PROVE  PublishingInv' /\ [LeaderboardNext]_leaderboardVars
    <2>1. LeaderboardInv'
      BY <1>1, <1>3, LeaderboardNextInv
    <2> QED
      BY <1>3, <2>1 DEF PublishingInv
  <1>13. ASSUME UNCHANGED canaryVars, CallsInv', CanaryProgress', [LeaderboardNext]_leaderboardVars
         PROVE  PublishingInv' /\ [LeaderboardNext]_leaderboardVars
    BY <1>1, <1>3, <1>13 DEF PublishingInv, canaryVars
  <1>14. UNCHANGED <<leaderboardVars, publishing, publishes, accountVars>>
            => /\ CallsInv' /\ [LeaderboardNext]_leaderboardVars
               /\ UNCHANGED <<scoreEvents, scoresReplaced, publishing, publishes>>
    BY <1>1, CallsKept DEF leaderboardVars, accountVars
  <1>4. CASE Cli
    <2>1. UNCHANGED canaryVars /\ UNCHANGED leaderboardVars /\ scoreEvents' = scoreEvents
          /\ scoreCanary' = scoreCanary
      BY <1>4 DEF Cli, leaderboardVars, canaryVars
    <2>2. PICK l \in ScoredLead, s \in Nat, att \in Attestations : PublishScore("cli", l, s, att)
      BY <1>2, <1>4 DEF Cli, ScoredLead
    <2>3. /\ CallsInv' /\ scoresReplaced' = scoresReplaced
          /\ \A q \in Publishers \ {"cli"} : publishing'[q] = publishing[q] /\ publishes'[q] = publishes[q]
      BY <1>1, <2>1, <2>2, PublishScoreInv
    <2>4. publishing'["canary"] = publishing["canary"] /\ publishes'["canary"] = publishes["canary"]
      BY <1>1, <2>3
    <2>5. CanaryProgress'
      BY <1>1, <2>1, <2>3, <2>4, ProgressKept
    <2> QED
      BY <1>13, <2>1, <2>3, <2>5
  <1>5. CASE PublisherStep
    <2>1. UNCHANGED <<leaderboardVars, publishes, canaryVars>> /\ scoreEvents' = scoreEvents
          /\ scoreCanary' = scoreCanary
      BY <1>5 DEF PublisherStep, leaderboardVars, canaryVars
    <2>2. PICK p \in Publishers : SendScore(p) \/ AnswerOfReceipt(p) \/ PublishFails(p)
      BY <1>5 DEF PublisherStep
    <2>3. /\ CallsInv' /\ scoresReplaced \subseteq scoresReplaced'
          /\ publishing[p].step \in {"send", "sent"}
          /\ publishing'[p].step \in {"sent", "published", "threw"}
          /\ publishing'[p].tx = publishing[p].tx
          /\ \A q \in Publishers \ {p} : publishing'[q] = publishing[q]
      <3>1. CASE SendScore(p)
        BY <1>1, <2>1, <3>1, SendScoreInv
      <3>2. CASE AnswerOfReceipt(p) \/ PublishFails(p)
        BY <1>1, <2>1, <3>2, AnswerInv
      <3> QED
        BY <2>2, <3>1, <3>2
    <2>4. /\ publishing'["canary"].step # "none" \/ publishing["canary"].step = "none"
          /\ \/ publishing'["canary"].step = "threw"
             \/ /\ publishing["canary"].step # "threw"
                /\ publishing'["canary"].tx = publishing["canary"].tx
      <3>1. CASE p = "canary"
        BY <2>3, <3>1
      <3>2. CASE p # "canary"
        BY <1>1, <2>3, <3>2
      <3> QED
        BY <3>1, <3>2
    <2>5. CanaryProgress'
      BY <1>1, <2>1, <2>3, <2>4, ProgressKept
    <2> QED
      BY <1>13, <2>1, <2>3, <2>5
  <1>6. CASE MineScore
    <2>1. UNCHANGED <<publishing, publishes>> /\ UNCHANGED canaryVars /\ scoreCanary' = scoreCanary
      BY <1>6 DEF MineScore, canaryVars
    <2>2. /\ CallsInv' /\ scoreEvents \subseteq scoreEvents' /\ scoresReplaced' = scoresReplaced
          /\ [LeaderboardNext]_leaderboardVars
      BY <1>1, <1>6, MineScoreInv
    <2>3. CanaryProgress'
      BY <1>1, <2>1, <2>2, ProgressKept
    <2> QED
      BY <1>13, <2>1, <2>2, <2>3
  <1>7. CASE OtherSigner
    <2>1. UNCHANGED <<publishing, publishes, accountVars>> /\ UNCHANGED canaryVars
          /\ scoreCanary' = scoreCanary /\ scoresReplaced' = scoresReplaced
      BY <1>7 DEF OtherSigner, accountVars, canaryVars
    <2>2. [LeaderboardNext]_leaderboardVars
      BY <1>2, <1>7 DEF OtherSigner, LeaderboardNext
    <2>3. scoreEvents \subseteq scoreEvents'
      BY <1>7 DEF OtherSigner, SetAiAgentSigner, UpdateScore
    <2>4. CallsInv' /\ CanaryProgress'
      BY <1>1, <2>1, <2>3, CallsKept, ProgressKept
    <2> QED
      BY <1>13, <2>1, <2>2, <2>4
  <1>8. CASE ScoreCanaryStarts \/ EnsureLead \/ ScoreCanaryDies
    <2>1. /\ UNCHANGED <<leaderboardVars, publishing, publishes, accountVars>>
          /\ scoreCanary' \in {"lead1", "lead2", "publish1", "failed"}
          /\ registered' \in SUBSET {CanaryLead1, CanaryLead2}
          /\ readId' \in Attestations \cup {NoAddress}
      BY <1>1, <1>8 DEF ScoreCanaryStarts, EnsureLead, ScoreCanaryDies
    <2>2. CanaryProgress'
      BY <2>1 DEF CanaryProgress
    <2> QED
      BY <1>3, <1>14, <2>1, <2>2
  <1>9. CASE CanaryPublishes
    <2>1. /\ UNCHANGED <<leaderboardVars, registered, readId>> /\ scoreEvents' = scoreEvents
      BY <1>9 DEF CanaryPublishes, leaderboardVars
    <2>2. ASSUME NEW l \in LeadAddresses, NEW s \in CanaryScores, NEW att \in Attestations,
                 PublishScore("canary", l, s, att)
          PROVE  /\ CallsInv' /\ scoresReplaced' = scoresReplaced
                 /\ publishes'["canary"] = publishes["canary"] + 1 /\ CanaryCalled(l, att)'
      <3>1. CallsInv /\ scoreEvents' = scoreEvents
        BY <1>1, <2>1
      <3> QED
        BY <1>2, <2>2, <3>1, CanaryCallInv
    <2>3. CASE scoreCanary = "publish1"
      <3>1. /\ scoreCanary' = "await1"
            /\ \E s \in CanaryScores : PublishScore("canary", CanaryLead1, s, LiveId)
        BY <1>9, <2>3 DEF CanaryPublishes
      <3>2. CallsInv' /\ CanaryCalled(CanaryLead1, LiveId)'
        BY <1>2, <2>2, <3>1
      <3>3. CanaryProgress'
        BY <3>1, <3>2 DEF CanaryProgress
      <3> QED
        BY <1>1, <1>3, <2>1, <3>1, <3>2, <3>3
    <2>4. CASE scoreCanary = "publish2"
      <3>1. /\ scoreCanary' = "await2"
            /\ \E s \in CanaryScores : PublishScore("canary", CanaryLead2, s, DerivedId)
        BY <1>9, <2>4 DEF CanaryPublishes
      <3>2. /\ CallsInv' /\ CanaryCalled(CanaryLead2, DerivedId)' /\ scoresReplaced' = scoresReplaced
            /\ publishes'["canary"] = publishes["canary"] + 1
        BY <1>2, <2>2, <3>1
      <3>3. /\ Done(CanaryLead1, LiveId, publishes["canary"])
            /\ publishes'["canary"] - 1 = publishes["canary"]
        BY <1>1, <2>4, <3>2 DEF CanaryProgress
      <3>4. Done(CanaryLead1, LiveId, publishes["canary"] - 1)'
        BY <2>1, <3>2, <3>3 DEF Done, Recorded, LostItsNonce
      <3>5. CanaryProgress'
        BY <3>1, <3>2, <3>4 DEF CanaryProgress
      <3> QED
        BY <1>1, <1>3, <2>1, <3>1, <3>2, <3>5
    <2> QED
      BY <1>9, <2>3, <2>4 DEF CanaryPublishes
  <1>10. CASE CanaryHears
    <2>1. /\ UNCHANGED <<leaderboardVars, publishing, publishes, accountVars, registered, readId>>
          /\ scoreCanary \in {"await1", "await2"} /\ Ended("canary")
          /\ scoreCanary' = IF publishing["canary"].step = "threw" THEN "failed"
                            ELSE IF scoreCanary = "await1" THEN "publish2" ELSE "ranked"
      BY <1>10 DEF CanaryHears
    <2>2. CASE publishing["canary"].step = "threw"
      <3>1. scoreCanary' = "failed"
        BY <2>1, <2>2
      <3>2. CanaryProgress'
        BY <3>1 DEF CanaryProgress
      <3> QED
        BY <1>1, <1>3, <1>14, <2>1, <3>1, <3>2
    <2>3. CASE publishing["canary"].step # "threw"
      <3>1. PICK call, n : call = publishing["canary"] /\ n = publishes["canary"]
        OBVIOUS
      <3>2. OwnCall("canary", call, n)
        BY <1>1, <3>1 DEF CallsInv
      <3>3. \A l, att : CanaryCalled(l, att) => Done(l, att, n)
        <4> SUFFICES ASSUME NEW l, NEW att, CanaryCalled(l, att) PROVE Done(l, att, n)
          OBVIOUS
        <4>1. call.step = "published" /\ call.tx.lead = l /\ call.tx.attestationId = att
          BY <2>1, <2>3, <3>1 DEF CanaryCalled, Ended
        <4>2. PICK e \in scoreEvents : e = Event(HeldBy(call.nonce))
          BY <3>2, <4>1 DEF OwnCall
        <4>3. CASE HeldBy(call.nonce) = call.tx
          BY <4>1, <4>2, <4>3 DEF Done, Recorded, Event
        <4>4. CASE LostItsNonce("canary", n)
          BY <4>4 DEF Done
        <4> QED
          BY <3>2, <4>1, <4>3, <4>4 DEF OwnCall
      <3>4. \/ /\ scoreCanary' = "publish2" /\ Done(CanaryLead1, LiveId, n)
            \/ /\ scoreCanary' = "ranked" /\ Done(CanaryLead2, DerivedId, n)
               /\ Done(CanaryLead1, LiveId, n - 1)
        BY <1>1, <2>1, <2>3, <3>1, <3>3 DEF CanaryProgress
      <3>5. \A l, att, k : Done(l, att, k) => Done(l, att, k)'
        BY <1>14, <2>1 DEF Done, Recorded, LostItsNonce
      <3>6. publishes'["canary"] = n
        BY <2>1, <3>1
      <3>7. CanaryProgress'
        BY <3>4, <3>5, <3>6 DEF CanaryProgress
      <3> QED
        BY <1>1, <1>3, <1>14, <2>1, <3>4, <3>7
    <2> QED
      BY <2>2, <2>3
  <1>11. CASE CanaryReadsBoard
    <2>1. /\ UNCHANGED <<leaderboardVars, publishing, publishes, accountVars, registered>>
          /\ scoreCanary \in {"ranked", "score1", "score2"}
          /\ scoreCanary' \in {"failed", "score1", "score2", "ok"}
      BY <1>11 DEF CanaryReadsBoard
    <2>2. readId' \in Attestations \cup {NoAddress}
      <3>1. scores[CanaryLead1].attestationId \in Attestations \cup {NoAddress}
        BY <1>1, <1>2 DEF LeaderboardInv, LeaderboardTypeOK, Records
      <3> QED
        BY <1>1, <1>11, <3>1 DEF CanaryReadsBoard
    <2>3. \A l, att, k : Done(l, att, k) => Done(l, att, k)'
      BY <1>14, <2>1 DEF Done, Recorded, LostItsNonce
    <2>4. CanaryProgress'
      BY <1>1, <2>1, <2>3 DEF CanaryProgress
    <2> QED
      BY <1>1, <1>3, <1>14, <2>1, <2>2, <2>4
  <1> QED
    BY <1>4, <1>5, <1>6, <1>7, <1>8, <1>9, <1>10, <1>11 DEF PublishingNext

-----------------------------------------------------------------------------
(* StrategyScoring: maxima. *)

\* The maximum of a set is the element that no other exceeds.
LEMMA MaxIs ==
  ASSUME NEW S \in SUBSET Int, NEW x \in S, \A y \in S : y <= x
  PROVE  Max(S) = x
  <1>1. \A z \in S : (\A y \in S : z >= y) => z = x
    OBVIOUS
  <1>2. \A y \in S : x >= y
    OBVIOUS
  <1> QED
    BY <1>1, <1>2 DEF Max

\* A nonempty set of hundredths has a maximum.
LEMMA MaxOfHundredths ==
  ASSUME NEW S \in SUBSET (0..100), S # {}
  PROVE  Max(S) \in S
  <1> DEFINE T == {100 - k : k \in S}
  <1>1. T \in SUBSET Nat /\ T # {}
    <2>1. \A k \in S : k \in 0..100 /\ 100 - k \in Nat
      OBVIOUS
    <2>2. PICK k \in S : TRUE
      OBVIOUS
    <2>3. 100 - k \in T
      BY <2>2
    <2> QED
      BY <2>1, <2>3
  <1>2. PICK t \in T : \A u \in T : t <= u
    <2> HIDE DEF T
    <2> QED
      BY <1>1, LeastNumber
  <1>3. PICK k \in S : t = 100 - k
    BY <1>2
  <1>4. ASSUME NEW j \in S PROVE j <= k
    <2>1. 100 - k <= 100 - j
      BY <1>2, <1>3
    <2> QED
      BY <2>1
  <1>5. Max(S) = k
    BY <1>4, MaxIs
  <1> QED
    BY <1>5

\* The larger of two integers.
LEMMA MaxOfTwo ==
  ASSUME NEW a \in Int, NEW b \in Int
  PROVE  /\ Max({a, b}) \in {a, b}
         /\ a <= Max({a, b}) /\ b <= Max({a, b})
  <1>1. CASE a <= b
    <2>1. Max({a, b}) = b
      BY <1>1, MaxIs
    <2> QED
      BY <1>1, <2>1
  <1>2. CASE b <= a
    <2>1. Max({a, b}) = a
      BY <1>2, MaxIs
    <2> QED
      BY <1>2, <2>1
  <1> QED
    BY <1>1, <1>2

-----------------------------------------------------------------------------
(* Equity and drawdown. *)

LEMMA WholeNat == Whole \in Nat \ {0}
  <1>1. PnlUnit \in Nat \ {0} /\ PnlUnit <= 10000
    BY ScoringAssumption
  <1>2. PICK q \in Nat : q = 10000 \div PnlUnit /\ 10000 < PnlUnit * q + PnlUnit
    BY <1>1, DivBounds
  <1>3. q # 0
    BY <1>1, <1>2
  <1> QED
    BY <1>2, <1>3 DEF Whole

LEMMA ScaleNat ==
  ASSUME NEW n \in Nat
  PROVE  Scale(n) \in Nat \ {0}
  <1> DEFINE Positive == Nat \ {0}
             step == [x \in (1..n) \X Positive |-> x[2] * Whole]
             IsPower(f) == f = [i \in 0..n |-> IF i = 0 THEN 1 ELSE f[i - 1] * Whole]
             power == CHOOSE f : IsPower(f)
  <1>1. step \in [(1..n) \X Positive -> Positive]
    <2>1. ASSUME NEW x \in (1..n) \X Positive PROVE x[2] * Whole \in Positive
      <3>1. x[2] \in Nat \ {0}
        OBVIOUS
      <3>2. x[2] * Whole >= 1 * Whole
        BY <3>1, WholeNat, ProductMono
      <3> QED
        BY <3>1, <3>2, WholeNat
    <2> HIDE DEF Positive
    <2> QED
      BY <2>1
  <1>2. PICK f : Unrolls(f, Positive, n, 1, step)
    <2>1. 1 \in Positive
      OBVIOUS
    <2> HIDE DEF Positive, step
    <2> QED
      BY <1>1, <2>1, RecursionExists
  <1>3. IsPower(f)
    <2>1. ASSUME NEW i \in 0..n PROVE f[i] = IF i = 0 THEN 1 ELSE f[i - 1] * Whole
      <3>1. CASE i = 0
        BY <1>2, <3>1 DEF Unrolls
      <3>2. CASE i # 0
        <4>1. i \in 1..n /\ i - 1 \in 0..n
          BY <3>2
        <4>2. f[i - 1] \in Positive
          BY <1>2, <4>1 DEF Unrolls
        <4>3. <<i, f[i - 1]>> \in (1..n) \X Positive
          BY <4>1, <4>2
        <4>4. step[<<i, f[i - 1]>>] = f[i - 1] * Whole
          BY <4>3
        <4> QED
          BY <1>2, <3>2, <4>1, <4>4 DEF Unrolls
      <3> QED
        BY <3>1, <3>2
    <2> HIDE DEF Positive
    <2> QED
      BY <1>2, <2>1 DEF Unrolls
  <1>4. IsPower(power)
    BY <1>3
  <1>5. Scale(n) = power[n]
    BY DEF Scale
  <1>6. \A i \in 0..n : power[i] = IF i = 0 THEN 1 ELSE power[i - 1] * Whole
    BY <1>4
  <1>7. power[n] \in Nat \ {0}
    <2> DEFINE Good == {j \in 0..n : power[j] \in Nat \ {0}}
    <2> HIDE DEF power
    <2>1. 0 \in Good
      BY <1>6
    <2>2. ASSUME NEW i \in 1..n, i - 1 \in Good PROVE i \in Good
      <3>1. i \in 0..n /\ i # 0 /\ power[i - 1] \in Nat \ {0}
        BY <2>2
      <3>2. power[i] = power[i - 1] * Whole
        BY <1>6, <3>1
      <3>3. PICK p \in Nat \ {0} : p = power[i - 1]
        BY <3>1
      <3>4. p * Whole \in Nat \ {0}
        BY <3>3, WholeNat
      <3> QED
        BY <3>1, <3>2, <3>3, <3>4
    <2>3. \A i \in 0..n : i \in Good
      <3> HIDE DEF Good
      <3> QED
        BY <2>1, <2>2, UpTo
    <2> QED
      BY <2>3
  <1> QED
    BY <1>5, <1>7

IsEquity(f, returns) ==
    f = [i \in 0..Len(returns) |->
            IF i = 0 THEN Scale(Len(returns)) ELSE (f[i - 1] * (Whole + returns[i])) \div Whole]

\* Equity starts above zero and follows the returns.
LEMMA EquityFollows ==
  ASSUME NEW returns \in Seq(Int)
  PROVE  /\ IsEquity(Equity(returns), returns)
         /\ Equity(returns) \in [0..Len(returns) -> Int]
         /\ Equity(returns)[0] > 0
  <1> DEFINE n == Len(returns)
             first == Scale(n)
             step == [x \in (1..n) \X Int |-> (x[2] * (Whole + returns[x[1]])) \div Whole]
  <1>1. n \in Nat /\ \A i \in 1..n : returns[i] \in Int
    OBVIOUS
  <1>2. first \in Nat \ {0}
    <2> HIDE DEF n
    <2> QED
      BY <1>1, ScaleNat
  <1> HIDE DEF n, first
  <1>3. step \in [(1..n) \X Int -> Int]
    <2>1. ASSUME NEW x \in (1..n) \X Int
          PROVE  (x[2] * (Whole + returns[x[1]])) \div Whole \in Int
      <3>1. PICK e \in Int, r \in Int : e = x[2] /\ r = returns[x[1]]
        BY <1>1
      <3>2. PICK p \in Int : p = e * (Whole + r)
        BY WholeNat
      <3>3. p \div Whole \in Int
        BY WholeNat
      <3> QED
        BY <3>1, <3>2, <3>3
    <2> QED
      BY <2>1
  <1>4. PICK f : Unrolls(f, Int, n, first, step)
    <2>1. first \in Int
      BY <1>2
    <2> HIDE DEF step
    <2> QED
      BY <1>1, <1>3, <2>1, RecursionExists
  <1>5. IsEquity(f, returns)
    <2>1. f = [i \in 0..n |-> f[i]]
      BY <1>4 DEF Unrolls
    <2>2. ASSUME NEW i \in 0..n
          PROVE  f[i] = IF i = 0 THEN first ELSE (f[i - 1] * (Whole + returns[i])) \div Whole
      <3>1. CASE i = 0
        BY <1>4, <3>1 DEF Unrolls
      <3>2. CASE i # 0
        <4>1. i \in 1..n /\ i - 1 \in 0..n
          BY <1>1, <3>2
        <4>2. <<i, f[i - 1]>> \in (1..n) \X Int
          BY <1>4, <4>1 DEF Unrolls
        <4>3. step[<<i, f[i - 1]>>] = (f[i - 1] * (Whole + returns[i])) \div Whole
          BY <4>2
        <4>4. f[i] = step[<<i, f[i - 1]>>]
          BY <1>4, <4>1 DEF Unrolls
        <4> QED
          BY <3>2, <4>3, <4>4
      <3> QED
        BY <3>1, <3>2
    <2>3. f = [i \in 0..n |-> IF i = 0 THEN first ELSE (f[i - 1] * (Whole + returns[i])) \div Whole]
      BY <2>1, <2>2, Zenon
    <2> QED
      BY <2>3 DEF IsEquity, n, first
  <1>6. Equity(returns) = CHOOSE e : IsEquity(e, returns)
    BY DEF Equity, IsEquity
  <1>7. PICK e : e = Equity(returns) /\ IsEquity(e, returns)
    BY <1>5, <1>6
  <1>8. e = [i \in 0..n |-> IF i = 0 THEN first ELSE (e[i - 1] * (Whole + returns[i])) \div Whole]
    BY <1>7 DEF IsEquity, n, first
  <1>9. \A i \in 0..n : e[i] \in Int
    <2> DEFINE Good == {j \in 0..n : e[j] \in Int}
    <2>1. 0 \in Good
      BY <1>1, <1>2, <1>8
    <2>2. ASSUME NEW i \in 1..n, i - 1 \in Good PROVE i \in Good
      <3>1. PICK b \in Int, r \in Int : b = e[i - 1] /\ r = returns[i]
        BY <1>1, <2>2
      <3>2. e[i] = (b * (Whole + r)) \div Whole /\ i \in 0..n
        BY <1>1, <1>8, <3>1
      <3>3. PICK p \in Int : p = b * (Whole + r)
        BY WholeNat
      <3>4. p \div Whole \in Int
        BY WholeNat
      <3> QED
        BY <3>2, <3>3, <3>4
    <2>3. \A i \in 0..n : i \in Good
      <3> HIDE DEF Good
      <3> QED
        BY <1>1, <2>1, <2>2, UpTo
    <2> QED
      BY <2>3
  <1>10. e \in [0..n -> Int] /\ e[0] > 0
    <2>1. e = [i \in 0..n |-> e[i]] /\ e[0] = first
      BY <1>1, <1>8
    <2> QED
      BY <1>2, <1>9, <2>1
  <1> QED
    BY <1>7, <1>10 DEF n

\* Nobody who keeps something after each return ends below zero.
LEMMA EquityStaysPositive ==
  ASSUME NEW returns \in Seq(Int), Solvent(returns)
  PROVE  \A i \in 0..Len(returns) : Equity(returns)[i] \in Nat
  <1>0. PICK n \in Nat : n = Len(returns)
    OBVIOUS
  <1>1. PICK e : n = Len(returns) /\ e = Equity(returns)
    BY <1>0
  <1>2. /\ \A i \in 0..n : e[i] = IF i = 0 THEN Scale(n)
                                  ELSE (e[i - 1] * (Whole + returns[i])) \div Whole
        /\ e \in [0..n -> Int] /\ e[0] > 0
    BY <1>1, EquityFollows DEF IsEquity
  <1>3. \A i \in 1..n : Whole + returns[i] \in Nat
    BY <1>1, WholeNat DEF Solvent
  <1> DEFINE Good == {j \in 0..n : e[j] \in Nat}
  <1>4. 0 \in Good
    BY <1>2
  <1>5. ASSUME NEW i \in 1..n, i - 1 \in Good PROVE i \in Good
    <2>1. PICK b \in Nat, r \in Nat : b = e[i - 1] /\ r = Whole + returns[i]
      BY <1>3, <1>5
    <2>2. i \in 0..n /\ e[i] = (b * r) \div Whole
      <3>1. i \in 0..n /\ i # 0
        OBVIOUS
      <3>2. e[i] = (e[i - 1] * (Whole + returns[i])) \div Whole
        BY <1>2, <3>1, Zenon
      <3> QED
        BY <2>1, <3>1, <3>2, Zenon
    <2>3. PICK p \in Nat : p = b * r
      OBVIOUS
    <2>4. p \div Whole \in Nat
      BY WholeNat, DivBounds
    <2> QED
      BY <2>2, <2>3, <2>4
  <1>6. \A i \in 0..n : i \in Good
    <2> HIDE DEF Good
    <2> QED
      BY <1>4, <1>5, UpTo
  <1> QED
    BY <1>1, <1>6

\* The quotient of any integer.
LEMMA DivBoundsInt ==
  ASSUME NEW a \in Int, NEW d \in Nat \ {0}
  PROVE  /\ a \div d \in Int
         /\ d * (a \div d) <= a
         /\ a < d * (a \div d) + d
  OBVIOUS

LEMMA FallInt ==
  ASSUME NEW a \in Int, NEW b \in Int
  PROVE  Fall(a, b) \in Int
  <1>1. CASE a > 0
    <2>1. PICK p \in Int : p = 100 * (a - b)
      OBVIOUS
    <2>2. a \in Nat \ {0} /\ p \div a \in Int
      BY <1>1, DivBoundsInt
    <2> QED
      BY <1>1, <2>1, <2>2 DEF Fall
  <1>2. CASE ~(a > 0)
    BY <1>2 DEF Fall
  <1> QED
    BY <1>1, <1>2

\* From a higher point, above the one fallen to, the fall to the same one is no smaller.
LEMMA FallMono ==
  ASSUME NEW a \in Nat, NEW b \in Nat, NEW c \in Nat, a <= b, b > 0, c <= b
  PROVE  Fall(a, c) <= Fall(b, c)
  <1>1. PICK p \in Int, q \in Int : p = 100 * (a - c) /\ q = 100 * (b - c)
    OBVIOUS
  <1>2. b \in Nat \ {0} /\ Fall(b, c) = q \div b
    BY <1>1 DEF Fall
  <1>3. PICK y \in Int : y = q \div b /\ q < b * y + b
    BY <1>2, DivBoundsInt
  <1>4. CASE a > 0
    <2>1. a \in Nat \ {0} /\ Fall(a, c) = p \div a
      BY <1>1, <1>4 DEF Fall
    <2>2. PICK x \in Int : x = p \div a /\ a * x <= p
      BY <2>1, DivBoundsInt
    <2>3. SUFFICES ASSUME y + 1 <= x PROVE FALSE
      BY <1>2, <1>3, <2>1, <2>2
    <2>4. x <= 100
      <3>1. a * x <= 100 * a
        BY <1>1, <2>2
      <3>2. ASSUME x >= 101 PROVE FALSE
        <4>1. a * x >= a * 101
          BY <1>4, <3>2
        <4> QED
          BY <1>4, <3>1, <4>1
      <3> QED
        BY <3>2
    <2>5. PICK d \in Nat : b = a + d
      OBVIOUS
    <2>6. d * x <= d * 100
      BY <2>4
    <2>7. b * x = a * x + d * x
      BY <2>5
    <2>8. b * x <= q
      BY <1>1, <2>2, <2>5, <2>6, <2>7
    <2>9. b * y + b <= b * x
      <3>1. b * (y + 1) <= b * x
        BY <2>3
      <3> QED
        BY <3>1
    <2> QED
      BY <1>3, <2>8, <2>9
  <1>5. CASE a = 0
    <2>1. Fall(a, c) = 0
      BY <1>5 DEF Fall
    <2>2. q >= 0
      BY <1>1
    <2>3. ASSUME y <= -1 PROVE FALSE
      <3>1. b * y <= b * (-1)
        BY <2>3
      <3> QED
        BY <1>3, <2>2, <3>1
    <2> QED
      BY <1>2, <1>3, <2>1, <2>3
  <1> QED
    BY <1>4, <1>5

\* What the pass makes of the peak and the worst fall before, and of the equity now.
Passed(before, equity) ==
    LET peak == Max({before.peak, equity})
    IN  [peak |-> peak, fall |-> Max({before.fall, Fall(peak, equity)})]

PassState == [peak : Nat \ {0}, fall : Int]

IsPass(f, returns) ==
    f = [i \in 0..Len(returns) |->
            IF i = 0 THEN [peak |-> Equity(returns)[0], fall |-> 0]
            ELSE Passed(f[i - 1], Equity(returns)[i])]

LEMMA PassedState ==
  ASSUME NEW before \in PassState, NEW x \in Int
  PROVE  /\ Passed(before, x) \in PassState
         /\ Passed(before, x).peak \in {before.peak, x}
         /\ before.peak <= Passed(before, x).peak /\ x <= Passed(before, x).peak
         /\ Passed(before, x).fall \in {before.fall, Fall(Passed(before, x).peak, x)}
         /\ before.fall <= Passed(before, x).fall
         /\ Fall(Passed(before, x).peak, x) <= Passed(before, x).fall
  <1>1. before.peak \in Nat \ {0} /\ before.fall \in Int
    BY DEF PassState
  <1>2. PICK peak \in Int : /\ peak = Max({before.peak, x}) /\ peak \in {before.peak, x}
                            /\ before.peak <= peak /\ x <= peak
    <2>1. PICK u \in Int : u = before.peak
      BY <1>1
    <2>2. Max({u, x}) \in {u, x} /\ u <= Max({u, x}) /\ x <= Max({u, x})
      BY MaxOfTwo
    <2> QED
      BY <2>1, <2>2
  <1>3. PICK drop \in Int : drop = Fall(peak, x)
    BY FallInt
  <1>4. PICK fall \in Int : /\ fall = Max({before.fall, drop}) /\ fall \in {before.fall, drop}
                            /\ before.fall <= fall /\ drop <= fall
    <2>1. PICK u \in Int : u = before.fall
      BY <1>1
    <2>2. Max({u, drop}) \in {u, drop} /\ u <= Max({u, drop}) /\ drop <= Max({u, drop})
      BY MaxOfTwo
    <2> QED
      BY <2>1, <2>2
  <1>5. Passed(before, x) = [peak |-> peak, fall |-> fall]
    BY <1>2, <1>3, <1>4 DEF Passed
  <1> QED
    BY <1>1, <1>2, <1>3, <1>4, <1>5 DEF PassState

LEMMA PassFollows ==
  ASSUME NEW returns \in Seq(Int)
  PROVE  /\ IsPass(DrawdownPass(returns), returns)
         /\ DrawdownPass(returns) \in [0..Len(returns) -> PassState]
  <1>0. PICK n \in Nat : n = Len(returns)
    OBVIOUS
  <1>1. PICK e : /\ n = Len(returns) /\ e = Equity(returns)
                 /\ e \in [0..n -> Int] /\ e[0] > 0
    BY <1>0, EquityFollows
  <1> DEFINE first == [peak |-> e[0], fall |-> 0]
             step == [x \in (1..n) \X PassState |-> Passed(x[2], e[x[1]])]
  <1>2. first \in PassState
    BY <1>1 DEF PassState
  <1>3. step \in [(1..n) \X PassState -> PassState]
    <2>1. ASSUME NEW x \in (1..n) \X PassState PROVE Passed(x[2], e[x[1]]) \in PassState
      <3>1. x[2] \in PassState /\ e[x[1]] \in Int
        BY <1>1
      <3> QED
        BY <3>1, PassedState
    <2> QED
      BY <2>1
  <1> HIDE DEF first
  <1>4. PICK f : Unrolls(f, PassState, n, first, step)
    <2> HIDE DEF step
    <2> QED
      BY <1>2, <1>3, RecursionExists
  <1>5. IsPass(f, returns)
    <2>1. f = [i \in 0..n |-> f[i]]
      BY <1>4 DEF Unrolls
    <2>2. ASSUME NEW i \in 0..n PROVE f[i] = IF i = 0 THEN first ELSE Passed(f[i - 1], e[i])
      <3>1. CASE i = 0
        BY <1>4, <3>1 DEF Unrolls
      <3>2. CASE i # 0
        <4>1. i \in 1..n /\ i - 1 \in 0..n
          BY <3>2
        <4>2. <<i, f[i - 1]>> \in (1..n) \X PassState
          BY <1>4, <4>1 DEF Unrolls
        <4>3. step[<<i, f[i - 1]>>] = Passed(f[i - 1], e[i])
          BY <4>2
        <4>4. f[i] = step[<<i, f[i - 1]>>]
          BY <1>4, <4>1 DEF Unrolls
        <4> QED
          BY <3>2, <4>3, <4>4
      <3> QED
        BY <3>1, <3>2
    <2>3. f = [i \in 0..n |-> IF i = 0 THEN first ELSE Passed(f[i - 1], e[i])]
      BY <2>1, <2>2, Zenon
    <2> QED
      BY <1>1, <2>3 DEF IsPass, first
  <1>6. DrawdownPass(returns) = CHOOSE p : IsPass(p, returns)
    BY DEF DrawdownPass, IsPass, Passed
  <1>7. PICK p : p = DrawdownPass(returns) /\ IsPass(p, returns)
    BY <1>5, <1>6
  <1>8. p = [i \in 0..n |-> IF i = 0 THEN first ELSE Passed(p[i - 1], e[i])]
    BY <1>1, <1>7 DEF IsPass, first
  <1> DEFINE Good == {j \in 0..n : p[j] \in PassState}
  <1>9. 0 \in Good
    BY <1>2, <1>8
  <1>10. ASSUME NEW i \in 1..n, i - 1 \in Good PROVE i \in Good
    <2>1. i \in 0..n /\ i # 0 /\ e[i] \in Int /\ p[i - 1] \in PassState
      BY <1>1, <1>10
    <2>2. p[i] = Passed(p[i - 1], e[i])
      BY <1>8, <2>1
    <2> QED
      BY <2>1, <2>2, PassedState
  <1>11. \A i \in 0..n : i \in Good
    <2> HIDE DEF Good
    <2> QED
      BY <1>9, <1>10, UpTo
  <1>12. p \in [0..n -> PassState]
    <2>1. p = [i \in 0..n |-> p[i]]
      BY <1>8
    <2> QED
      BY <1>11, <2>1
  <1> QED
    BY <1>1, <1>7, <1>12

LEMMA MaxDrawdownInt ==
  ASSUME NEW returns \in Seq(Int)
  PROVE  MaxDrawdown(returns) \in Int
  <1>1. Len(returns) \in 0..Len(returns)
    OBVIOUS
  <1>2. DrawdownPass(returns)[Len(returns)] \in PassState
    BY <1>1, PassFollows
  <1> QED
    BY <1>2 DEF MaxDrawdown, PassState

\* After i returns the peak is the highest equity, and the fall the worst from one
\* equity to a later one, among those so far.
WorstSoFar(e, state, i) ==
    /\ \E j \in 0..i : state.peak = e[j]
    /\ \A j \in 0..i : e[j] <= state.peak
    /\ \E j, k \in 0..i : j <= k /\ state.fall = Fall(e[j], e[k])
    /\ \A j, k \in 0..i : j <= k => Fall(e[j], e[k]) <= state.fall

LEMMA PassFindsWorst ==
  ASSUME NEW returns \in Seq(Int), Solvent(returns), NEW i \in 0..Len(returns)
  PROVE  WorstSoFar(Equity(returns), DrawdownPass(returns)[i], i)
  <1>0. PICK n \in Nat : n = Len(returns)
    OBVIOUS
  <1>1. PICK e, p : n = Len(returns) /\ e = Equity(returns) /\ p = DrawdownPass(returns)
    BY <1>0
  <1>2. (\A j \in 0..n : e[j] \in Nat) /\ e[0] > 0
    BY <1>1, EquityFollows, EquityStaysPositive
  <1>3. /\ p[0] = [peak |-> e[0], fall |-> 0]
        /\ \A j \in 1..n : p[j] = Passed(p[j - 1], e[j])
        /\ \A j \in 0..n : p[j] \in PassState
    <2>1. /\ p = [j \in 0..n |-> IF j = 0 THEN [peak |-> e[0], fall |-> 0] ELSE Passed(p[j - 1], e[j])]
          /\ p \in [0..n -> PassState]
      BY <1>1, PassFollows DEF IsPass
    <2>2. 0 \in 0..n /\ \A j \in 1..n : j \in 0..n /\ j # 0
      OBVIOUS
    <2> QED
      BY <2>1, <2>2
  <1> DEFINE Good == {j \in 0..n : WorstSoFar(e, p[j], j)}
  <1>4. 0 \in Good
    <2>1. Fall(e[0], e[0]) = 0
      <3>1. e[0] - e[0] = 0 /\ 100 * 0 = 0 /\ e[0] \in Nat \ {0}
        BY <1>2
      <3>2. 0 \div e[0] = 0
        BY <3>1
      <3> QED
        BY <3>1, <3>2 DEF Fall
    <2>2. \A j \in 0..0 : j = 0
      OBVIOUS
    <2>3. p[0].peak = e[0] /\ p[0].fall = 0 /\ 0 \in 0..0 /\ 0 \in 0..n
      BY <1>3
    <2>4. WorstSoFar(e, p[0], 0)
      BY <1>2, <2>1, <2>2, <2>3 DEF WorstSoFar
    <2> QED
      BY <2>3, <2>4
  <1>5. ASSUME NEW m \in 1..n, m - 1 \in Good PROVE m \in Good
    <2>1. /\ m \in 0..n /\ m - 1 \in 0..n /\ e[m] \in Nat
          /\ \A j \in 0..m : j \in 0..(m - 1) \/ j = m
          /\ \A j \in 0..(m - 1) : j \in 0..m
      BY <1>2
    <2>2. PICK s, t : s = p[m - 1] /\ t = p[m]
      OBVIOUS
    <2>3. /\ s \in PassState /\ t \in PassState
          /\ t.peak \in {s.peak, e[m]} /\ s.peak <= t.peak /\ e[m] <= t.peak
          /\ t.fall \in {s.fall, Fall(t.peak, e[m])}
          /\ s.fall <= t.fall /\ Fall(t.peak, e[m]) <= t.fall
      <3>1. s \in PassState /\ t = Passed(s, e[m]) /\ e[m] \in Int
        BY <1>3, <2>1, <2>2
      <3> QED
        BY <3>1, PassedState
    <2>4. WorstSoFar(e, s, m - 1)
      BY <1>5, <2>2
    <2>5. s.peak \in Nat /\ s.fall \in Int /\ t.peak \in Nat \ {0} /\ t.fall \in Int
      BY <2>3 DEF PassState
    <2>6. \E j \in 0..m : t.peak = e[j]
      <3>1. \E j \in 0..(m - 1) : s.peak = e[j]
        BY <2>4 DEF WorstSoFar
      <3>2. m \in 0..m
        OBVIOUS
      <3> QED
        BY <2>1, <2>3, <3>1, <3>2
    <2>7. \A j \in 0..m : e[j] <= t.peak
      <3>1. ASSUME NEW j \in 0..(m - 1) PROVE e[j] <= t.peak
        <4>1. e[j] <= s.peak /\ e[j] \in Nat
          BY <1>2, <2>1, <2>4 DEF WorstSoFar
        <4> QED
          BY <2>3, <2>5, <4>1
      <3> QED
        BY <2>1, <2>3, <3>1
    <2>8. \E j, k \in 0..m : j <= k /\ t.fall = Fall(e[j], e[k])
      <3>1. CASE t.fall = s.fall
        <4>1. PICK j \in 0..(m - 1), k \in 0..(m - 1) : j <= k /\ s.fall = Fall(e[j], e[k])
          BY <2>4 DEF WorstSoFar
        <4> QED
          BY <2>1, <3>1, <4>1
      <3>2. CASE t.fall = Fall(t.peak, e[m])
        <4>1. PICK j \in 0..m : t.peak = e[j]
          BY <2>6
        <4>2. m \in 0..m /\ j <= m
          OBVIOUS
        <4> QED
          BY <3>2, <4>1, <4>2
      <3> QED
        BY <2>3, <3>1, <3>2
    <2>9. ASSUME NEW j \in 0..m, NEW k \in 0..m, j <= k PROVE Fall(e[j], e[k]) <= t.fall
      <3>1. j \in 0..n /\ k \in 0..n /\ e[j] \in Nat /\ e[k] \in Nat
        BY <1>2
      <3>2. Fall(e[j], e[k]) \in Int
        <4>1. e[j] \in Int /\ e[k] \in Int
          BY <3>1
        <4> QED
          BY <4>1, FallInt
      <3>3. CASE k \in 0..(m - 1)
        <4>1. j \in 0..(m - 1)
          BY <2>9, <3>3
        <4>2. Fall(e[j], e[k]) <= s.fall
          BY <2>4, <2>9, <3>3, <4>1 DEF WorstSoFar
        <4> QED
          BY <2>3, <2>5, <3>2, <4>2
      <3>4. CASE k = m
        <4>1. PICK a \in Nat, b \in Nat, c \in Nat :
                 /\ a = e[j] /\ b = t.peak /\ c = e[m] /\ a <= b /\ c <= b /\ b > 0
          BY <2>1, <2>3, <2>5, <2>7, <3>1
        <4>2. Fall(a, c) <= Fall(b, c)
          BY <4>1, FallMono
        <4>3. Fall(a, c) \in Int /\ Fall(b, c) \in Int
          <5>1. a \in Int /\ b \in Int /\ c \in Int
            OBVIOUS
          <5> QED
            BY <5>1, FallInt
        <4>4. Fall(b, c) <= t.fall
          BY <2>3, <4>1
        <4>5. Fall(a, c) <= t.fall
          BY <2>5, <4>2, <4>3, <4>4
        <4> QED
          BY <3>4, <4>1, <4>5
      <3> QED
        BY <2>1, <3>3, <3>4
    <2>10. WorstSoFar(e, t, m)
      BY <2>6, <2>7, <2>8, <2>9 DEF WorstSoFar
    <2> QED
      BY <2>1, <2>2, <2>10
  <1>6. \A j \in 0..n : j \in Good
    <2> HIDE DEF Good
    <2> QED
      BY <1>4, <1>5, UpTo
  <1> QED
    BY <1>1, <1>6

\* The drawdown maxDrawdown finds in one pass is, of a lead that never loses more than
\* there is, the worst fall from any equity to a later one: each pair counts.
THEOREM DrawdownIsMax ==
  ASSUME NEW returns \in Seq(Int), Solvent(returns)
  PROVE  LET equity == Equity(returns)
             falls  == {p \in (DOMAIN equity) \X (DOMAIN equity) : p[1] <= p[2]}
         IN  MaxDrawdown(returns) = Max({Fall(equity[p[1]], equity[p[2]]) : p \in falls})
  <1>0. PICK n \in Nat : n = Len(returns)
    OBVIOUS
  <1>1. PICK e, s : n = Len(returns) /\ e = Equity(returns) /\ s = DrawdownPass(returns)[n]
    BY <1>0
  <1>2. e \in [0..n -> Int] /\ MaxDrawdown(returns) = s.fall
    BY <1>1, EquityFollows DEF MaxDrawdown
  <1>3. WorstSoFar(e, s, n)
    <2>1. n \in 0..Len(returns)
      BY <1>1
    <2> QED
      BY <1>1, <2>1, PassFindsWorst
  <1> DEFINE falls == {p \in (0..n) \X (0..n) : p[1] <= p[2]}
             F == {Fall(e[p[1]], e[p[2]]) : p \in falls}
  <1>4. F \in SUBSET Int
    <2>1. ASSUME NEW p \in falls PROVE Fall(e[p[1]], e[p[2]]) \in Int
      <3>1. e[p[1]] \in Int /\ e[p[2]] \in Int
        BY <1>2
      <3> QED
        BY <3>1, FallInt
    <2> HIDE DEF falls
    <2> QED
      BY <2>1
  <1>5. s.fall \in F
    <2>1. PICK j \in 0..n, k \in 0..n : j <= k /\ s.fall = Fall(e[j], e[k])
      BY <1>3 DEF WorstSoFar
    <2>2. <<j, k>> \in falls /\ <<j, k>>[1] = j /\ <<j, k>>[2] = k
      BY <2>1
    <2> HIDE DEF falls
    <2> QED
      BY <2>1, <2>2
  <1>6. \A x \in F : x <= s.fall
    <2>1. ASSUME NEW p \in falls PROVE Fall(e[p[1]], e[p[2]]) <= s.fall
      BY <1>3 DEF WorstSoFar
    <2> HIDE DEF falls
    <2> QED
      BY <2>1
  <1>7. Max(F) = s.fall
    <2> HIDE DEF F
    <2> QED
      BY <1>4, <1>5, <1>6, MaxIs
  <1>8. DOMAIN e = 0..n
    BY <1>2
  <1> QED
    BY <1>1, <1>2, <1>7, <1>8

-----------------------------------------------------------------------------
(* Sorting. *)

LEMMA EventsDomain ==
  ASSUME NEW events \in Seq(OutcomeEvent)
  PROVE  DOMAIN events = 1..Len(events) /\ Len(events) \in Nat
  OBVIOUS

\* The fields of an event of a list.
LEMMA EventFields ==
  ASSUME NEW events \in Seq(OutcomeEvent), NEW i \in DOMAIN events
  PROVE  /\ i \in Nat /\ events[i] \in OutcomeEvent
         /\ events[i].timestamp \in Int /\ events[i].pnl \in Int
  <1>1. i \in Nat /\ events[i] \in OutcomeEvent
    OBVIOUS
  <1> QED
    BY <1>1 DEF OutcomeEvent

LEMMA EarlierIsTotal ==
  ASSUME NEW events \in Seq(OutcomeEvent), NEW i \in DOMAIN events, NEW j \in DOMAIN events
  PROVE  /\ ~ Earlier(events, i, i)
         /\ i # j => (Earlier(events, i, j) <=> ~ Earlier(events, j, i))
         /\ \A k \in DOMAIN events :
               Earlier(events, i, j) /\ Earlier(events, j, k) => Earlier(events, i, k)
  <1>1. \A k \in DOMAIN events : k \in Nat /\ events[k].timestamp \in Int
    BY EventFields
  <1> QED
    BY <1>1 DEF Earlier

\* The events earlier than event i.
EarlierThan(events, i) == {j \in DOMAIN events : Earlier(events, j, i)}

\* Each event has a place of its own, and each place an event.
LEMMA PlaceIsOwn ==
  ASSUME NEW events \in Seq(OutcomeEvent)
  PROVE  /\ \A i \in DOMAIN events : Place(events, i) \in DOMAIN events
         /\ \A i, j \in DOMAIN events :
               /\ Earlier(events, i, j) => Place(events, i) < Place(events, j)
               /\ Place(events, i) = Place(events, j) => i = j
         /\ \A k \in DOMAIN events : \E i \in DOMAIN events : Place(events, i) = k
  <1>0. PICK n \in Nat : n = Len(events)
    OBVIOUS
  <1>1. PICK D : n = Len(events) /\ D = DOMAIN events /\ D = 1..n
    BY <1>0
  <1>2. IsFiniteSet(D) /\ Cardinality(D) = n
    <2>1. IsFiniteSet(1..n) /\ Cardinality(1..n) = IF 1 > n THEN 0 ELSE n - 1 + 1
      BY FS_Interval
    <2> QED
      BY <1>1, <2>1
  <1>3. ASSUME NEW i \in D
        PROVE  /\ EarlierThan(events, i) \subseteq D \ {i}
               /\ IsFiniteSet(EarlierThan(events, i))
               /\ Cardinality(EarlierThan(events, i)) \in Nat
               /\ Place(events, i) = Cardinality(EarlierThan(events, i)) + 1
               /\ Place(events, i) \in D
    <2>1. EarlierThan(events, i) \in SUBSET (D \ {i})
      BY <1>1, EarlierIsTotal DEF EarlierThan
    <2>2. IsFiniteSet(D \ {i}) /\ Cardinality(D \ {i}) = n - 1
      BY <1>2, FS_RemoveElement
    <2>3. /\ IsFiniteSet(EarlierThan(events, i))
          /\ Cardinality(EarlierThan(events, i)) \in Nat
          /\ Cardinality(EarlierThan(events, i)) <= n - 1
      BY <2>1, <2>2, FS_Subset, FS_CardinalityType
    <2>4. Place(events, i) = Cardinality(EarlierThan(events, i)) + 1
      BY <1>1 DEF Place, EarlierThan
    <2> QED
      BY <1>1, <2>1, <2>3, <2>4
  <1>4. ASSUME NEW i \in D, NEW j \in D, Earlier(events, i, j)
        PROVE  Place(events, i) < Place(events, j)
    <2> DEFINE S == EarlierThan(events, i)
               T == EarlierThan(events, j)
    <2>1. S \in SUBSET T /\ i \in T /\ i \notin S
      BY <1>1, <1>4, EarlierIsTotal DEF EarlierThan
    <2>2. /\ IsFiniteSet(T) /\ Cardinality(T) \in Nat /\ Cardinality(S) \in Nat
          /\ Place(events, i) = Cardinality(S) + 1 /\ Place(events, j) = Cardinality(T) + 1
      BY <1>3
    <2> HIDE DEF S, T
    <2>3. Cardinality(S) <= Cardinality(T) /\ Cardinality(S) # Cardinality(T)
      BY <2>1, <2>2, FS_Subset
    <2> QED
      BY <2>2, <2>3
  <1>5. ASSUME NEW i \in D, NEW j \in D, Place(events, i) = Place(events, j) PROVE i = j
    <2>1. SUFFICES ASSUME i # j PROVE FALSE
      OBVIOUS
    <2>2. Earlier(events, i, j) \/ Earlier(events, j, i)
      BY <1>1, <2>1, EarlierIsTotal
    <2>3. Place(events, i) \in Int /\ Place(events, j) \in Int
      BY <1>1, <1>3
    <2> QED
      BY <1>4, <1>5, <2>2, <2>3
  <1>6. ASSUME NEW k \in D PROVE \E i \in D : Place(events, i) = k
    <2>1. SUFFICES ASSUME \A i \in D : Place(events, i) # k PROVE FALSE
      OBVIOUS
    <2> DEFINE f == [i \in D |-> Place(events, i)]
    <2>2. f \in [D -> D \ {k}]
      BY <1>3, <2>1
    <2>3. IsFiniteSet(D \ {k}) /\ Cardinality(D \ {k}) < Cardinality(D)
      <3>1. IsFiniteSet(D \ {k}) /\ Cardinality(D \ {k}) = Cardinality(D) - 1
        BY <1>2, FS_RemoveElement
      <3> QED
        BY <1>2, <3>1
    <2>4. PICK i \in D, j \in D : i # j /\ f[i] = f[j]
      <3> HIDE DEF f
      <3> QED
        BY <1>2, <2>2, <2>3, FS_PigeonHole
    <2> QED
      BY <1>5, <2>4
  <1> QED
    BY <1>1, <1>3, <1>4, <1>5, <1>6

\* Sorting puts each event in its place.
LEMMA SortedPlaces ==
  ASSUME NEW events \in Seq(OutcomeEvent)
  PROVE  /\ ByTimestamp(events) \in Seq(OutcomeEvent)
         /\ Len(ByTimestamp(events)) = Len(events)
         /\ \A k \in DOMAIN events : \E i \in DOMAIN events :
               Place(events, i) = k /\ ByTimestamp(events)[k] = events[i]
  <1>1. PICK n \in Nat : n = Len(events) /\ DOMAIN events = 1..n
    OBVIOUS
  <1> DEFINE at(k) == CHOOSE i \in DOMAIN events : Place(events, i) = k
             s == [k \in DOMAIN events |-> events[at(k)]]
  <1>2. ASSUME NEW k \in DOMAIN events
        PROVE  at(k) \in DOMAIN events /\ Place(events, at(k)) = k
    BY PlaceIsOwn
  <1>3. \A k \in DOMAIN events : events[at(k)] \in OutcomeEvent
    <2> HIDE DEF at
    <2> QED
      BY <1>2
  <1>4. s \in Seq(OutcomeEvent) /\ Len(s) = n
    <2>1. s \in [1..n -> OutcomeEvent]
      <3> HIDE DEF at
      <3> QED
        BY <1>1, <1>3
    <2> HIDE DEF s
    <2> QED
      BY <2>1
  <1>5. SubSeq(s, 1, n) = s
    <2> HIDE DEF s
    <2> QED
      BY <1>4
  <1>6. ByTimestamp(events) = s
    BY <1>1, <1>5 DEF ByTimestamp
  <1> QED
    BY <1>1, <1>2, <1>4, <1>6

\* classify.ts and scoring.ts sort before they compute: the same events in any order,
\* but for those of one time, are sorted into the same list.
THEOREM RearrangedSortAlike ==
  ASSUME NEW a \in Seq(OutcomeEvent), NEW b \in Seq(OutcomeEvent), Rearranged(a, b)
  PROVE  ByTimestamp(a) = ByTimestamp(b)
  <1>0. PICK n \in Nat : n = Len(b)
    OBVIOUS
  <1>1. PICK D : n = Len(a) /\ n = Len(b) /\ D = 1..n /\ D = DOMAIN a /\ D = DOMAIN b
    BY <1>0 DEF Rearranged
  <1>2. PICK p \in [D -> D] :
           \A i, j \in D : /\ a[i] = b[p[i]]
                           /\ a[i].timestamp = a[j].timestamp /\ i < j => p[i] < p[j]
    BY <1>1 DEF Rearranged
  <1>3. \A i \in D : i \in Nat /\ a[i].timestamp \in Int /\ b[p[i]].timestamp = a[i].timestamp
    BY <1>1, <1>2, EventFields
  <1>4. ASSUME NEW i \in D, NEW j \in D, Earlier(a, i, j) PROVE Earlier(b, p[i], p[j])
    BY <1>2, <1>3, <1>4 DEF Earlier
  <1>5. ASSUME NEW i \in D, NEW j \in D, Earlier(b, p[i], p[j]) PROVE Earlier(a, i, j)
    <2>1. SUFFICES ASSUME ~ Earlier(a, i, j) PROVE FALSE
      OBVIOUS
    <2>2. p[i] \in D /\ p[j] \in D
      OBVIOUS
    <2>3. CASE i = j
      BY <1>1, <1>5, <2>2, <2>3, EarlierIsTotal
    <2>4. CASE i # j
      <3>1. Earlier(b, p[j], p[i])
        BY <1>1, <1>4, <2>1, <2>4, EarlierIsTotal
      <3> QED
        BY <1>1, <1>5, <2>2, <3>1, EarlierIsTotal
    <2> QED
      BY <2>3, <2>4
  <1>6. ASSUME NEW i \in D, NEW j \in D, p[i] = p[j] PROVE i = j
    <2>1. SUFFICES ASSUME i # j PROVE FALSE
      OBVIOUS
    <2>2. Earlier(a, i, j) \/ Earlier(a, j, i)
      BY <1>1, <2>1, EarlierIsTotal
    <2>3. Earlier(b, p[i], p[i]) /\ p[i] \in D
      BY <1>4, <1>6, <2>2
    <2> QED
      BY <1>1, <2>3, EarlierIsTotal
  <1>7. ASSUME NEW k \in D PROVE \E i \in D : p[i] = k
    <2>1. p \in Injection(D, D)
      BY <1>6 DEF Injection, IsInjective
    <2>2. IsFiniteSet(D)
      BY <1>1, FS_Interval
    <2>3. p \in Surjection(D, D)
      BY <2>1, <2>2, FS_Injection
    <2> QED
      BY <2>3 DEF Surjection
  <1>8. ASSUME NEW i \in D PROVE Place(b, p[i]) = Place(a, i)
    <2> DEFINE S == EarlierThan(a, i)
               T == EarlierThan(b, p[i])
               f == [j \in S |-> p[j]]
    <2>1. p[i] \in D /\ S \in SUBSET D
      BY <1>1 DEF EarlierThan
    <2>2. f \in [S -> T]
      BY <1>1, <1>4, <2>1 DEF EarlierThan
    <2>3. \A j, k \in S : f[j] = f[k] => j = k
      BY <1>6, <2>1
    <2>4. \A k \in T : \E j \in S : f[j] = k
      BY <1>1, <1>5, <1>7 DEF EarlierThan
    <2>5. f \in Bijection(S, T)
      <3> HIDE DEF f, S, T
      <3> QED
        BY <2>2, <2>3, <2>4 DEF Bijection, Injection, Surjection, IsInjective
    <2>6. IsFiniteSet(S)
      <3>1. IsFiniteSet(D)
        BY <1>1, FS_Interval
      <3> HIDE DEF S
      <3> QED
        BY <2>1, <3>1, FS_Subset
    <2>7. Cardinality(S) = Cardinality(T)
      <3> HIDE DEF f, S, T
      <3> QED
        BY <2>5, <2>6, FS_Bijection DEF ExistsBijection
    <2> QED
      BY <2>7 DEF Place, EarlierThan
  <1>9. PICK s, t : s = ByTimestamp(a) /\ t = ByTimestamp(b)
    OBVIOUS
  <1>10. /\ s \in Seq(OutcomeEvent) /\ t \in Seq(OutcomeEvent) /\ Len(s) = n /\ Len(t) = n
         /\ \A k \in D : \E i \in D : Place(a, i) = k /\ s[k] = a[i]
         /\ \A k \in D : \E i \in D : Place(b, i) = k /\ t[k] = b[i]
    <2>1. /\ s \in Seq(OutcomeEvent) /\ Len(s) = Len(a)
          /\ \A k \in DOMAIN a : \E i \in DOMAIN a : Place(a, i) = k /\ s[k] = a[i]
      BY <1>9, SortedPlaces
    <2>2. /\ t \in Seq(OutcomeEvent) /\ Len(t) = Len(b)
          /\ \A k \in DOMAIN b : \E i \in DOMAIN b : Place(b, i) = k /\ t[k] = b[i]
      BY <1>9, SortedPlaces
    <2> QED
      BY <1>1, <2>1, <2>2, Zenon
  <1>11. ASSUME NEW k \in D PROVE s[k] = t[k]
    <2>1. PICK i \in D, j \in D : /\ Place(a, i) = k /\ s[k] = a[i]
                                  /\ Place(b, j) = k /\ t[k] = b[j]
      BY <1>10
    <2>2. p[i] \in D /\ Place(b, p[i]) = k
      BY <1>8, <2>1
    <2>3. p[i] = j
      <3>1. \A x, y \in DOMAIN b : Place(b, x) = Place(b, y) => x = y
        BY PlaceIsOwn
      <3>2. \A x, y \in D : Place(b, x) = Place(b, y) => x = y
        BY <1>1, <3>1, Zenon
      <3> QED
        BY <2>1, <2>2, <3>2, Zenon
    <2> QED
      BY <1>2, <2>1, <2>3
  <1> QED
    <2>1. s = [k \in D |-> s[k]] /\ t = [k \in D |-> t[k]]
      BY <1>1, <1>10
    <2>2. s = t
      BY <1>11, <2>1, Zenon
    <2> QED
      BY <1>9, <2>2

\* What the stable sort of classify.ts and scoring.ts returns is in the order of time.
THEOREM SortedByTime ==
  ASSUME NEW events \in Seq(OutcomeEvent), NEW k \in DOMAIN events, NEW l \in DOMAIN events, k < l
  PROVE  ByTimestamp(events)[k].timestamp <= ByTimestamp(events)[l].timestamp
  <1>1. PICK i \in DOMAIN events, j \in DOMAIN events :
           /\ Place(events, i) = k /\ ByTimestamp(events)[k] = events[i]
           /\ Place(events, j) = l /\ ByTimestamp(events)[l] = events[j]
    BY SortedPlaces
  <1>2. k \in Int /\ l \in Int /\ events[i].timestamp \in Int /\ events[j].timestamp \in Int
    BY EventFields
  <1>3. ~ Earlier(events, j, i)
    <2>1. Earlier(events, j, i) => Place(events, j) < Place(events, i)
      BY PlaceIsOwn
    <2> QED
      BY <1>1, <1>2, <2>1
  <1> QED
    BY <1>1, <1>2, <1>3 DEF Earlier

\* Events that come in the order of time stay in it.
LEMMA SortedStay ==
  ASSUME NEW events \in Seq(OutcomeEvent),
         \A i, j \in DOMAIN events : i < j => events[i].timestamp <= events[j].timestamp
  PROVE  ByTimestamp(events) = events
  <1>0. PICK n \in Nat : n = Len(events)
    OBVIOUS
  <1>1. DOMAIN events = 1..n
    BY <1>0
  <1>2. ASSUME NEW i \in DOMAIN events PROVE Place(events, i) = i
    <2>1. ASSUME NEW j \in DOMAIN events PROVE Earlier(events, j, i) <=> j < i
      <3>1. i \in Int /\ j \in Int /\ events[i].timestamp \in Int /\ events[j].timestamp \in Int
        <4>1. i \in Int /\ j \in Int
          BY <1>1
        <4>2. events[i].timestamp \in Int /\ events[j].timestamp \in Int
          BY EventFields
        <4> QED
          BY <4>1, <4>2
      <3>2. CASE j < i
        <4>1. events[j].timestamp <= events[i].timestamp
          BY <1>1, <3>2
        <4> QED
          BY <3>1, <3>2, <4>1 DEF Earlier
      <3>3. CASE ~ (j < i)
        <4>1. j = i \/ events[i].timestamp <= events[j].timestamp
          BY <1>1, <3>1, <3>3
        <4> QED
          BY <3>1, <3>3, <4>1 DEF Earlier
      <3> QED
        BY <3>2, <3>3
    <2>2. EarlierThan(events, i) = 1..(i - 1)
      <3>1. EarlierThan(events, i) = {j \in DOMAIN events : j < i}
        BY <1>1, <2>1 DEF EarlierThan
      <3> QED
        BY <1>1, <3>1
    <2>3. Cardinality(1..(i - 1)) = i - 1
      <3>1. PICK k \in Nat : k = i - 1
        BY <1>1
      <3>2. PICK one \in Int, to \in Int : one = 1 /\ to = k
        OBVIOUS
      <3>3. Cardinality(one..to) = IF one > to THEN 0 ELSE to - one + 1
        BY FS_Interval
      <3> QED
        BY <3>1, <3>2, <3>3
    <2>4. Place(events, i) = Cardinality(EarlierThan(events, i)) + 1
      BY DEF Place, EarlierThan
    <2> QED
      BY <1>1, <2>2, <2>3, <2>4
  <1>3. PICK s \in Seq(OutcomeEvent) : s = ByTimestamp(events)
    BY SortedPlaces
  <1>4. Len(s) = n /\ \A k \in DOMAIN events : s[k] = events[k]
    <2>1. ASSUME NEW k \in DOMAIN events PROVE s[k] = events[k]
      <3>1. PICK i \in DOMAIN events : Place(events, i) = k /\ s[k] = events[i]
        BY <1>3, SortedPlaces
      <3> QED
        BY <1>2, <3>1
    <2> QED
      BY <1>0, <1>3, <2>1, SortedPlaces
  <1>5. s = events
    BY <1>0, <1>1, <1>4
  <1> QED
    BY <1>3, <1>5

-----------------------------------------------------------------------------
(* The parts of a score. *)

LEMMA ClampedRange ==
  ASSUME NEW x \in Int
  PROVE  Clamped(x) \in 0..100
  BY DEF Clamped

LEMMA ClampedMono ==
  ASSUME NEW x \in Int, NEW y \in Int, x <= y
  PROVE  Clamped(x) <= Clamped(y)
  BY DEF Clamped

LEMMA OneMinusRootRange ==
  ASSUME NEW fraction
  PROVE  OneMinusRoot(fraction) \in 0..100
  <1> DEFINE fits == {k \in 0..100 : (100 - k) * (100 - k) * fraction.den >= 10000 * fraction.num}
  <1>1. CASE fits = {}
    BY <1>1 DEF OneMinusRoot
  <1>2. CASE fits # {}
    <2>1. Max(fits) \in fits
      <3>1. fits \in SUBSET (0..100)
        OBVIOUS
      <3> HIDE DEF fits
      <3> QED
        BY <1>2, <3>1, MaxOfHundredths
    <2>2. OneMinusRoot(fraction) = Max(fits)
      BY <1>2 DEF OneMinusRoot
    <2>3. fits \subseteq 0..100
      OBVIOUS
    <2> HIDE DEF fits
    <2> QED
      BY <2>1, <2>2, <2>3, Zenon
  <1> QED
    BY <1>1, <1>2

LEMMA ConsistencyRange ==
  ASSUME NEW times, Len(times) \in Nat
  PROVE  Consistency(times) \in 0..100
  <1>1. PICK n \in Nat : n = Len(times)
    OBVIOUS
  <1> DEFINE gap(i) == times[i] - times[i - 1]
             gaps == {i \in 2..n : gap(i) > 0}
             total == SumFunction([i \in gaps |-> gap(i)])
             fraction == [num |-> Cardinality(gaps) * SumFunction([i \in gaps |-> gap(i) * gap(i)])
                                    - total * total,
                          den |-> total * total]
  <1>2. Consistency(times) = CASE n = 0 -> 0
                               [] n \in {1, 2} -> 30
                               [] n >= 3 /\ gaps = {} -> 0
                               [] OTHER -> OneMinusRoot(fraction)
    BY <1>1 DEF Consistency
  <1>3. OneMinusRoot(fraction) \in 0..100
    BY OneMinusRootRange
  <1> HIDE DEF gaps, fraction
  <1> QED
    BY <1>2, <1>3

LEMMA SumFunctionInt ==
  ASSUME NEW f, IsFiniteSet(DOMAIN f), \A x \in DOMAIN f : f[x] \in Int
  PROVE  SumFunction(f) \in Int
  BY SumInt DEF SumFunction

LEMMA SharpeRange ==
  ASSUME NEW returns \in Seq(Int)
  PROVE  NormalizedSharpe(returns) \in 0..100
  <1>1. PICK n \in Nat : n = Len(returns) /\ DOMAIN returns = 1..n
    OBVIOUS
  <1>2. IsFiniteSet(1..n)
    BY FS_Interval
  <1>3. PICK total \in Int : total = SumFunction(returns)
    <2>1. SumFunction(returns) \in Int
      BY <1>1, <1>2, SumFunctionInt
    <2> QED
      BY <2>1
  <1>4. PICK squares \in Int : squares = SumFunction([i \in 1..n |-> returns[i] * returns[i]])
    <2> DEFINE f == [i \in 1..n |-> returns[i] * returns[i]]
    <2>1. DOMAIN f = 1..n /\ \A i \in 1..n : f[i] \in Int
      <3>1. ASSUME NEW i \in 1..n PROVE f[i] \in Int
        <4>1. PICK r \in Int : r = returns[i]
          BY <1>1
        <4> QED
          BY <4>1
      <3> QED
        BY <3>1
    <2>2. SumFunction(f) \in Int
      <3> HIDE DEF f
      <3> QED
        BY <1>2, <2>1, SumFunctionInt
    <2> QED
      BY <2>2
  <1>5. PICK spread \in Int : spread = n * squares - total * total
    OBVIOUS
  <1> DEFINE K == {k \in 0..100 : k * k * n * spread <= 912500 * total * total * (n - 1)}
  <1>6. NormalizedSharpe(returns) = IF n < 2 \/ total <= 0 THEN 0
                                    ELSE IF spread = 0 THEN 100 ELSE Max(K)
    BY <1>1, <1>3, <1>4, <1>5 DEF NormalizedSharpe
  <1>7. ASSUME n >= 2, total > 0 PROVE Max(K) \in 0..100
    <2>1. PICK u \in Nat, m \in Nat : u = 912500 * total /\ m = n - 1
      BY <1>7
    <2>2. PICK v \in Nat : v = u * total
      BY <1>7
    <2>3. PICK w \in Nat : w = v * m
      OBVIOUS
    <2>4. 912500 * total * total * (n - 1) = w
      BY <2>1, <2>2, <2>3
    <2>5. 0 * 0 * n * spread = 0
      OBVIOUS
    <2>6. 0 \in K /\ K \in SUBSET (0..100)
      BY <2>4, <2>5
    <2>7. Max(K) \in K
      <3> HIDE DEF K
      <3> QED
        BY <2>6, MaxOfHundredths
    <2> QED
      BY <2>7
  <1> HIDE DEF K
  <1> QED
    BY <1>6, <1>7

\* The later it is, the less of a history is recent.
LEMMA CompletenessFades ==
  ASSUME NEW events \in Seq(OutcomeEvent), NEW d \in Int, NEW e \in Int, d <= e
  PROVE  /\ DataCompleteness(events, d) \in 0..100 /\ DataCompleteness(events, e) \in 0..100
         /\ DataCompleteness(events, e) <= DataCompleteness(events, d)
  <1> DEFINE Recent(now) == {i \in DOMAIN events : events[i].timestamp >= now - ScoreWindow}
  <1>1. IsFiniteSet(DOMAIN events)
    <2>1. PICK n \in Nat : DOMAIN events = 1..n
      OBVIOUS
    <2> QED
      BY <2>1, FS_Interval
  <1>2. Recent(e) \in SUBSET Recent(d)
    <2>1. ScoreWindow \in Nat
      BY ScoringAssumption
    <2>2. \A i \in DOMAIN events : events[i].timestamp \in Int
      BY EventFields
    <2>3. ASSUME NEW i \in DOMAIN events, events[i].timestamp >= e - ScoreWindow
          PROVE  events[i].timestamp >= d - ScoreWindow
      BY <2>1, <2>2, <2>3
    <2> QED
      BY <2>3
  <1>3. Recent(d) \in SUBSET DOMAIN events
    OBVIOUS
  <1>4. PICK x \in Nat, y \in Nat : /\ x = Cardinality(Recent(d)) /\ y = Cardinality(Recent(e))
                                    /\ y <= x
    <2> HIDE DEF Recent
    <2>1. IsFiniteSet(Recent(d))
      BY <1>1, <1>3, FS_Subset
    <2>2. IsFiniteSet(Recent(e)) /\ Cardinality(Recent(e)) <= Cardinality(Recent(d))
      BY <1>2, <2>1, FS_Subset
    <2>3. Cardinality(Recent(d)) \in Nat /\ Cardinality(Recent(e)) \in Nat
      BY <2>1, <2>2, FS_CardinalityType
    <2> QED
      BY <2>2, <2>3
  <1>5. ScoreTarget \in Nat \ {0}
    BY ScoringAssumption
  <1>6. PICK u \in Nat, v \in Nat : u = 100 * x /\ v = 100 * y /\ v <= u
    <2>1. 100 * x \in Nat /\ 100 * y \in Nat /\ 100 * y <= 100 * x
      BY <1>4
    <2> QED
      BY ONLY <2>1
  <1>7. PICK p \in Nat, q \in Nat : p = u \div ScoreTarget /\ q = v \div ScoreTarget /\ q <= p
    <2>1. u \div ScoreTarget \in Nat /\ v \div ScoreTarget \in Nat
      BY <1>5, DivBounds
    <2>2. v \div ScoreTarget <= u \div ScoreTarget
      BY <1>5, <1>6, DivMono
    <2> QED
      BY <2>1, <2>2
  <1>8. DataCompleteness(events, d) = Clamped(p) /\ DataCompleteness(events, e) = Clamped(q)
    BY <1>4, <1>6, <1>7 DEF DataCompleteness
  <1>9. p \in Int /\ q \in Int
    OBVIOUS
  <1> QED
    BY <1>7, <1>8, <1>9, ClampedRange, ClampedMono

LEMMA ReturnsOfEvents ==
  ASSUME NEW events \in Seq(OutcomeEvent)
  PROVE  Returns(events) \in Seq(Int)
  <1>0. PICK n \in Nat : n = Len(events)
    OBVIOUS
  <1>1. PICK s : n = Len(events) /\ DOMAIN events = 1..n /\ s = ByTimestamp(events)
    BY <1>0
  <1>2. s \in Seq(OutcomeEvent) /\ Len(s) = n
    BY <1>1, SortedPlaces
  <1>3. \A i \in 1..n : s[i].pnl \in Int
    <2>1. DOMAIN s = 1..n
      BY <1>2
    <2> QED
      BY <1>2, <2>1, EventFields
  <1>4. Returns(events) = [i \in 1..n |-> s[i].pnl]
    BY <1>1 DEF Returns
  <1>5. Returns(events) \in [1..n -> Int]
    BY <1>3, <1>4
  <1> QED
    BY <1>5

\* What of a score does not depend on the day.
HistoryScore(returns, times) ==
    40 * NormalizedSharpe(returns) + 25 * Clamped(100 - MaxDrawdown(returns)) + 20 * Consistency(times)

LEMMA HistoryScoreNat ==
  ASSUME NEW returns \in Seq(Int), NEW times, Len(times) \in Nat
  PROVE  HistoryScore(returns, times) \in Nat
  <1>1. NormalizedSharpe(returns) \in 0..100 /\ Consistency(times) \in 0..100
    BY SharpeRange, ConsistencyRange
  <1>2. Clamped(100 - MaxDrawdown(returns)) \in 0..100
    <2>1. PICK x \in Int : x = 100 - MaxDrawdown(returns)
      BY MaxDrawdownInt
    <2> QED
      BY <2>1, ClampedRange
  <1>3. PICK x \in 0..100, y \in 0..100, z \in 0..100 :
           /\ x = NormalizedSharpe(returns) /\ y = Clamped(100 - MaxDrawdown(returns))
           /\ z = Consistency(times)
    BY <1>1, <1>2
  <1>4. 40 * x + 25 * y + 20 * z \in Nat
    OBVIOUS
  <1> QED
    BY <1>3, <1>4 DEF HistoryScore

\* scoreLead: a score is between 0 and 100, and lists that sort alike score alike on a
\* day and no higher on a later one.
THEOREM ScoresOfSortedAlike ==
  ASSUME NEW a \in Seq(OutcomeEvent), NEW b \in Seq(OutcomeEvent), NEW d \in Int, NEW e \in Int,
         ByTimestamp(a) = ByTimestamp(b), d <= e
  PROVE  ScoreLead(a, d) \in 0..100 /\ ScoreLead(b, e) \in 0..100 /\ ScoreLead(b, e) <= ScoreLead(a, d)
  <1>0. PICK s : /\ s = ByTimestamp(a) /\ s = ByTimestamp(b) /\ s \in Seq(OutcomeEvent)
                 /\ Len(s) = Len(a) /\ Len(s) = Len(b)
    BY SortedPlaces
  <1>1. PICK n \in Nat : n = Len(s) /\ DOMAIN a = 1..n /\ DOMAIN b = 1..n /\ DOMAIN s = 1..n
    <2>1. DOMAIN a = 1..Len(a) /\ DOMAIN b = 1..Len(b) /\ Len(s) \in Nat /\ DOMAIN s = 1..Len(s)
      BY <1>0, EventsDomain
    <2>2. DOMAIN a = 1..Len(s) /\ DOMAIN b = 1..Len(s)
      BY <1>0, <2>1, Zenon
    <2> QED
      BY <2>1, <2>2, Zenon
  <1>2. PICK returns \in Seq(Int) : returns = Returns(a) /\ returns = Returns(b)
    <2>1. Returns(a) = Returns(b)
      BY <1>0, <1>1 DEF Returns
    <2> QED
      BY <2>1, ReturnsOfEvents
  <1>3. PICK times : times = [i \in DOMAIN s |-> s[i].timestamp] /\ Len(times) \in Nat
    <2> DEFINE t == [i \in 1..n |-> s[i].timestamp]
    <2>1. \A i \in 1..n : s[i].timestamp \in Int
      BY <1>0, <1>1, EventFields
    <2>2. t \in [1..n -> Int]
      BY <2>1
    <2>3. Len(t) \in Nat
      <3> HIDE DEF t
      <3> QED
        BY <2>2
    <2> QED
      BY <1>1, <2>3
  <1>4. PICK h \in Nat : h = HistoryScore(returns, times)
    BY <1>3, HistoryScoreNat
  <1>5. PICK x \in Nat, y \in Nat : x = DataCompleteness(s, d) /\ y = DataCompleteness(s, e) /\ y <= x
    <2>1. /\ DataCompleteness(s, d) \in 0..100 /\ DataCompleteness(s, e) \in 0..100
          /\ DataCompleteness(s, e) <= DataCompleteness(s, d)
      BY <1>0, CompletenessFades
    <2>2. \A k \in 0..100 : k \in Nat
      OBVIOUS
    <2> QED
      BY ONLY <2>1, <2>2, Zenon
  <1>6. PICK u \in Nat, v \in Nat : u = h + 15 * x + 50 /\ v = h + 15 * y + 50 /\ v <= u
    <2>1. y <= x
      BY <1>5
    <2>2. h + 15 * x + 50 \in Nat /\ h + 15 * y + 50 \in Nat
      OBVIOUS
    <2>3. h + 15 * y + 50 <= h + 15 * x + 50
      BY ONLY <2>1
    <2> QED
      BY ONLY <2>2, <2>3, Zenon
  <1>7. PICK p \in Int, q \in Int : p = u \div 100 /\ q = v \div 100 /\ q <= p
    <2>1. u \div 100 \in Int /\ v \div 100 \in Int /\ v \div 100 <= u \div 100
      BY <1>6
    <2> QED
      BY ONLY <2>1
  <1>8. ScoreLead(a, d) = Clamped(p)
    BY <1>0, <1>2, <1>3, <1>4, <1>5, <1>6, <1>7 DEF ScoreLead, HistoryScore
  <1>9. ScoreLead(b, e) = Clamped(q)
    BY <1>0, <1>2, <1>3, <1>4, <1>5, <1>6, <1>7 DEF ScoreLead, HistoryScore
  <1> QED
    BY <1>7, <1>8, <1>9, ClampedRange, ClampedMono

LEMMA StrategiesOfSortedAlike ==
  ASSUME NEW a, NEW b, ByTimestamp(a) = ByTimestamp(b)
  PROVE  ClassifyLead(a) = ClassifyLead(b)
  BY DEF ClassifyLead

-----------------------------------------------------------------------------
(* synthetic.ts and detectDrift: the fixtures are told apart. *)

\* A list over days is a list.
LEMMA FixtureLists ==
  ASSUME NEW now \in Int
  PROVE  /\ SyntheticMomentumLead(now) \in [1..FixtureDays -> OutcomeEvent]
         /\ SyntheticMeanRevLead(now) \in [1..FixtureDays -> OutcomeEvent]
  <1>1. PICK n \in Nat : n = FixtureDays
    BY ScoringAssumption
  <1>2. \A i \in 1..n : now - (n - i) \in Int /\ 300 + ((i - 1) % 11) * 250 \in Nat
    OBVIOUS
  <1>3. SyntheticMomentumLead(now) \in [1..n -> OutcomeEvent]
    BY <1>1, <1>2 DEF SyntheticMomentumLead, OutcomeEvent
  <1>4. SyntheticMeanRevLead(now) \in [1..n -> OutcomeEvent]
    BY <1>1, <1>2 DEF SyntheticMeanRevLead, OutcomeEvent
  <1> QED
    BY <1>1, <1>3, <1>4

LEMMA FixturesSorted ==
  ASSUME NEW now \in Int
  PROVE  /\ ByTimestamp(SyntheticMomentumLead(now)) = SyntheticMomentumLead(now)
         /\ ByTimestamp(SyntheticMeanRevLead(now)) = SyntheticMeanRevLead(now)
  <1>1. PICK n \in Nat : n = FixtureDays
    BY ScoringAssumption
  <1>2. ASSUME NEW s \in [1..n -> OutcomeEvent], \A i \in 1..n : s[i].timestamp = now - (n - i)
        PROVE  ByTimestamp(s) = s
    <2>1. s \in Seq(OutcomeEvent) /\ DOMAIN s = 1..n
      OBVIOUS
    <2>2. \A i, j \in DOMAIN s : i < j => s[i].timestamp <= s[j].timestamp
      <3>1. ASSUME NEW i \in 1..n, NEW j \in 1..n, i < j PROVE now - (n - i) <= now - (n - j)
        BY <3>1
      <3> QED
        BY <1>2, <2>1, <3>1
    <2> QED
      BY <2>1, <2>2, SortedStay
  <1>3. /\ \A i \in 1..n : SyntheticMomentumLead(now)[i].timestamp = now - (n - i)
        /\ \A i \in 1..n : SyntheticMeanRevLead(now)[i].timestamp = now - (n - i)
    BY <1>1 DEF SyntheticMomentumLead, SyntheticMeanRevLead
  <1> QED
    BY <1>1, <1>2, <1>3, FixtureLists

\* Days that all buy: no autocorrelation to speak of, and momentum.
LEMMA MomentumKnown ==
  ASSUME NEW now \in Int
  PROVE  ClassifyLead(SyntheticMomentumLead(now)).strategy = "momentum"
  <1>1. PICK n \in Nat : n = FixtureDays /\ n >= 3
    BY ScoringAssumption, FixtureAssumption
  <1>2. PICK s : /\ s = SyntheticMomentumLead(now) /\ ByTimestamp(s) = s
                 /\ s \in [1..n -> OutcomeEvent]
    BY <1>1, FixturesSorted, FixtureLists
  <1>3. Len(s) = n
    BY <1>2
  <1>4. \A i \in 1..n : Sign(s[i]) = 1
    BY <1>1, <1>2 DEF SyntheticMomentumLead, Sign
  <1>5. SumFunction([i \in 1..n |-> Sign(s[i])]) = n
    <2> DEFINE f == [i \in 1..n |-> Sign(s[i])]
               g == [i \in 0..n |-> i]
    <2>1. DOMAIN f = 1..n /\ \A i \in 1..n : f[i] = 1
      BY <1>4
    <2>2. g[0] = 0 /\ g[n] = n /\ \A i \in 1..n : g[i - 1] \in Int /\ g[i] = g[i - 1] + f[i]
      <3>1. ASSUME NEW i \in 1..n PROVE g[i - 1] = i - 1 /\ g[i] = i /\ f[i] = 1
        BY <2>1
      <3> HIDE DEF f
      <3> QED
        BY <3>1
    <2> HIDE DEF f, g
    <2>3. ComesTo(f, g, 0, n)
      BY <2>1, <2>2 DEF ComesTo
    <2>4. SumFunction(f) = g[n]
      BY <2>3, SumFromOne
    <2> QED
      BY <2>2, <2>4 DEF f
  <1>6. DirectionAutocorr(s).den = 0
    <2>1. ASSUME NEW i \in 1..n PROVE (n * Sign(s[i]) - n) * (n * Sign(s[i]) - n) = 0
      BY <1>4
    <2> DEFINE f == [i \in 1..n |-> (n * Sign(s[i]) - n) * (n * Sign(s[i]) - n)]
    <2>2. SumFunction(f) = 0
      <3>1. IsFiniteSet(1..n)
        BY FS_Interval
      <3>2. DOMAIN f = 1..n /\ \A i \in 1..n : f[i] = 0
        BY <2>1
      <3> HIDE DEF f
      <3> QED
        BY <3>1, <3>2, SumZero DEF SumFunction
    <2> QED
      BY <1>1, <1>3, <1>5, <2>2 DEF DirectionAutocorr
  <1>7. Len(s) >= 3 /\ \A i \in 1..Len(s) : Sign(s[i]) = Sign(s[1])
    BY <1>1, <1>3, <1>4
  <1> QED
    BY <1>2, <1>6, <1>7 DEF ClassifyLead

\* The quotient of an autocorrelation whose sides have a factor in common.
LEMMA AlternatingQuotient ==
  ASSUME NEW n \in Nat, n >= 3, NEW d \in Nat \ {0}
  PROVE  LET num == 0 - (n - 1) * d
             den == n * d
         IN  /\ den > 0 /\ ~ (4 * num >= den) /\ 100 * num <= -15 * den
             /\ (-100 * num) \div den \in Int
             /\ (100 * (n - 1)) \div n <= (-100 * num) \div den
  <1>1. PICK m \in Nat : m = n - 1 /\ m >= 2
    OBVIOUS
  <1>2. PICK x \in Nat, y \in Nat : x = m * d /\ y = n * d
    OBVIOUS
  <1>3. y = x + d
    BY <1>1, <1>2
  <1>4. 2 * d <= x
    <2>1. 2 * d <= m * d
      BY <1>1, ProductMono
    <2> QED
      BY <1>2, <2>1
  <1>5. y > 0 /\ ~ (4 * (0 - x) >= y) /\ 100 * (0 - x) <= -15 * y
    BY <1>3, <1>4
  <1>6. PICK q \in Nat : q = (100 * m) \div n /\ n * q <= 100 * m
    <2>1. 100 * m \in Nat /\ n \in Nat \ {0}
      OBVIOUS
    <2> QED
      BY <2>1, DivBounds
  <1>7. y * q <= 100 * x
    <2>1. PICK a \in Nat, b \in Nat : a = n * q /\ b = 100 * m /\ a <= b
      BY <1>6
    <2>2. a * d <= b * d
      BY <2>1, ProductMono
    <2>3. a * d = y * q
      BY <1>2, <2>1
    <2>4. b * d = 100 * x
      BY <1>2, <2>1
    <2> QED
      BY <2>2, <2>3, <2>4
  <1>8. PICK z \in Nat : z = 100 * x /\ -100 * (0 - x) = z
    OBVIOUS
  <1>9. PICK p \in Nat : p = z \div y /\ z < y * p + y
    <2>1. y \in Nat \ {0}
      BY <1>5
    <2> QED
      BY <2>1, DivBounds
  <1>10. q <= p
    <2>1. SUFFICES ASSUME p + 1 <= q PROVE FALSE
      OBVIOUS
    <2>2. (p + 1) * y <= q * y
      BY <2>1, ProductMono
    <2>3. PICK u \in Nat, v \in Nat : u = y * p /\ v = y * q
      OBVIOUS
    <2>4. (p + 1) * y = u + y /\ q * y = v
      BY <2>3
    <2> QED
      BY <1>7, <1>8, <1>9, <2>2, <2>3, <2>4
  <1> QED
    BY <1>1, <1>2, <1>5, <1>6, <1>8, <1>9, <1>10

\* The autocorrelation of n directions that come to total.
Autocorr(s, n, total) ==
    LET off(i) == n * Sign(s[i]) - total
    IN  [num |-> SumFunction([i \in 2..n |-> off(i) * off(i - 1)]),
         den |-> SumFunction([i \in 1..n |-> off(i) * off(i)])]

\* Days that alternate: all but as much against the day before as can be.
LEMMA MeanReversionKnown ==
  ASSUME NEW now \in Int
  PROVE  /\ ClassifyLead(SyntheticMeanRevLead(now)).strategy = "mean-reversion"
         /\ ClassifyLead(SyntheticMeanRevLead(now)).confidence >= DriftThreshold
  <1>1. PICK n \in Nat : n = FixtureDays /\ n >= 3
    BY ScoringAssumption, FixtureAssumption
  <1>2. PICK s : /\ s = SyntheticMeanRevLead(now) /\ ByTimestamp(s) = s
                 /\ s \in [1..n -> OutcomeEvent]
    BY <1>1, FixturesSorted, FixtureLists
  <1>3. Len(s) = n
    BY <1>2
  <1> DEFINE sign(i) == IF i % 2 = 1 THEN 1 ELSE -1
  <1>4. \A i \in 1..n : Sign(s[i]) = sign(i)
    BY <1>1, <1>2 DEF SyntheticMeanRevLead, Sign
  <1>5. PICK t \in {0, 1} : t = n % 2
    OBVIOUS
  <1>6. SumFunction([i \in 1..n |-> Sign(s[i])]) = t
    <2> DEFINE f == [i \in 1..n |-> Sign(s[i])]
               g == [i \in 0..n |-> i % 2]
    <2>1. DOMAIN f = 1..n /\ \A i \in 1..n : f[i] = sign(i)
      BY <1>4
    <2>2. g[0] = 0 /\ g[n] = t /\ \A i \in 1..n : g[i - 1] \in Int /\ g[i] = g[i - 1] + f[i]
      <3>1. ASSUME NEW i \in 1..n
            PROVE  g[i - 1] = (i - 1) % 2 /\ g[i] = i % 2 /\ f[i] = sign(i)
        BY <2>1
      <3>2. ASSUME NEW i \in 1..n PROVE (i - 1) % 2 \in Int /\ i % 2 = ((i - 1) % 2) + sign(i)
        OBVIOUS
      <3>3. g[0] = 0 /\ g[n] = t
        BY <1>5
      <3> HIDE DEF f, g, sign
      <3> QED
        BY <3>1, <3>2, <3>3
    <2>3. \A i \in 1..n : f[i] \in Int
      BY <2>1
    <2> HIDE DEF f, g, sign
    <2>4. ComesTo(f, g, 0, n)
      BY <2>1, <2>2, <2>3 DEF ComesTo
    <2>5. SumFunction(f) = g[n]
      BY <2>4, SumFromOne
    <2> QED
      BY <2>2, <2>5 DEF f
  <1> DEFINE off(i) == n * Sign(s[i]) - t
  <1>7. PICK d \in Nat \ {0} : d = n * n - t
    <2>1. n * n >= 3 * n
      BY <1>1, ProductMono
    <2> QED
      BY <1>1, <2>1
  <1>8. \A i \in 2..n : off(i) * off(i - 1) = 0 - d
    <2>1. ASSUME NEW i \in 2..n PROVE off(i) * off(i - 1) = 0 - d
      <3>1. i \in 1..n /\ i - 1 \in 1..n
        OBVIOUS
      <3>2. (sign(i) = 1 /\ sign(i - 1) = -1) \/ (sign(i) = -1 /\ sign(i - 1) = 1)
        OBVIOUS
      <3>3. (n - t) * (0 - n - t) = t * t - n * n /\ (0 - n - t) * (n - t) = t * t - n * n
        OBVIOUS
      <3>4. t * t = t
        OBVIOUS
      <3>5. (off(i) = n - t /\ off(i - 1) = 0 - n - t) \/ (off(i) = 0 - n - t /\ off(i - 1) = n - t)
        BY <1>4, <3>1, <3>2
      <3> QED
        BY <1>7, <3>3, <3>4, <3>5
    <2> QED
      BY <2>1
  <1>9. SumFunction([i \in 2..n |-> off(i) * off(i - 1)]) = 0 - (n - 1) * d
    <2> DEFINE f == [i \in 2..n |-> off(i) * off(i - 1)]
               g == [i \in 0..(n - 1) |-> 0 - i * d]
    <2>1. PICK m \in Nat, one \in Nat : m = n - 1 /\ one = 1 /\ (one + 1)..(one + m) = 2..n
      BY <1>1
    <2>2. DOMAIN f = 2..n /\ \A i \in 2..n : f[i] = 0 - d
      BY <1>8
    <2>3. g[0] = 0 /\ \A i \in 1..m : g[i - 1] \in Int /\ g[i] = g[i - 1] + (0 - d)
      <3>1. \A i \in 0..m : g[i] = 0 - i * d
        BY <2>1
      <3>2. ASSUME NEW i \in 1..m
            PROVE  g[i - 1] = 0 - (i - 1) * d /\ g[i] = 0 - i * d
        <4>1. i \in 0..m /\ i - 1 \in 0..m
          OBVIOUS
        <4> HIDE DEF g
        <4> QED
          BY <3>1, <4>1
      <3>3. \A i \in 1..m : 0 - (i - 1) * d \in Int /\ 0 - i * d = (0 - (i - 1) * d) + (0 - d)
        OBVIOUS
      <3>4. g[0] = 0
        BY <3>1
      <3> HIDE DEF g
      <3> QED
        BY <3>2, <3>3, <3>4
    <2>4. g[m] = 0 - m * d
      BY <2>1
    <2> HIDE DEF f, g, off
    <2>5. \A i \in 1..m : one + i \in 2..n
      BY <2>1
    <2>6. ComesTo(f, g, one, m)
      <3>1. 0 - d \in Int
        OBVIOUS
      <3>2. \A i \in 2..n : f[i] \in Int
        BY <2>2, <3>1
      <3>3. \A i \in 1..m : f[one + i] = 0 - d
        BY <2>2, <2>5
      <3>4. \A i \in 1..m : g[i - 1] \in Int /\ g[i] = g[i - 1] + f[one + i]
        BY <2>3, <3>3
      <3> QED
        BY <2>1, <2>2, <2>3, <3>2, <3>4, Zenon DEF ComesTo
    <2>7. SumFunction(f) = g[m]
      BY <2>6, SumComesTo
    <2> QED
      BY <2>1, <2>4, <2>7 DEF f
  <1>10. SumFunction([i \in 1..n |-> off(i) * off(i)]) = n * d
    <2>1. PICK w \in Nat, e \in Nat : w = n * n + t /\ e = 2 * n * t
      OBVIOUS
    <2> DEFINE f == [i \in 1..n |-> off(i) * off(i)]
               g == [i \in 0..n |-> i * w - (i % 2) * e]
    <2>2. DOMAIN f = 1..n /\ \A i \in 1..n : f[i] = w - sign(i) * e
      <3>1. ASSUME NEW i \in 1..n PROVE off(i) * off(i) = w - sign(i) * e
        <4>1. PICK g1 \in {1, -1}, v \in Int :
                 g1 = sign(i) /\ v = off(i) /\ v = n * g1 - t
          BY <1>4
        <4>2. (n - 0) * (n - 0) = n * n /\ (0 - n - 0) * (0 - n - 0) = n * n
          OBVIOUS
        <4>3. (n - 1) * (n - 1) = n * n + 1 - 2 * n /\ (0 - n - 1) * (0 - n - 1) = n * n + 1 + 2 * n
          OBVIOUS
        <4>4. v * v = w - g1 * e
          <5>1. CASE t = 0
            BY <2>1, <4>1, <4>2, <5>1
          <5>2. CASE t = 1 /\ g1 = 1
            <6>1. v = n - 1 /\ w = n * n + 1 /\ e = 2 * n
              BY <2>1, <4>1, <5>2
            <6> QED
              BY <4>3, <5>2, <6>1
          <5>3. CASE t = 1 /\ g1 = -1
            <6>1. v = 0 - n - 1 /\ w = n * n + 1 /\ e = 2 * n
              BY <2>1, <4>1, <5>3
            <6> QED
              BY <4>3, <5>3, <6>1
          <5> QED
            BY <5>1, <5>2, <5>3
        <4> QED
          BY <4>1, <4>4
      <3> QED
        BY <3>1
    <2>3. g[0] = 0 /\ g[n] = n * w - t * e
      BY <1>5
    <2>4. \A i \in 1..n : g[i - 1] \in Int /\ g[i] = g[i - 1] + (w - sign(i) * e)
      <3>1. \A i \in 0..n : g[i] = i * w - (i % 2) * e
        OBVIOUS
      <3>2. ASSUME NEW i \in 1..n
            PROVE  /\ g[i - 1] = (i - 1) * w - ((i - 1) % 2) * e
                   /\ g[i] = i * w - (i % 2) * e
        <4>1. i \in 0..n /\ i - 1 \in 0..n
          OBVIOUS
        <4> HIDE DEF g
        <4> QED
          BY <3>1, <4>1
      <3>3. ASSUME NEW i \in 1..n
            PROVE  /\ (i - 1) * w - ((i - 1) % 2) * e \in Int
                   /\ i * w - (i % 2) * e
                        = ((i - 1) * w - ((i - 1) % 2) * e) + (w - sign(i) * e)
        <4>1. (i % 2 = 1 /\ (i - 1) % 2 = 0) \/ (i % 2 = 0 /\ (i - 1) % 2 = 1)
          OBVIOUS
        <4>2. i * w = (i - 1) * w + w
          OBVIOUS
        <4> QED
          BY <4>1, <4>2
      <3> HIDE DEF g, sign
      <3> QED
        BY <3>2, <3>3
    <2>5. \A i \in 1..n : f[i] \in Int
      <3>1. \A i \in 1..n : w - sign(i) * e \in Int
        OBVIOUS
      <3> HIDE DEF f, sign
      <3> QED
        BY <2>2, <3>1
    <2>6. n * w - t * e = n * d
      <3>1. CASE t = 0
        BY <1>7, <2>1, <3>1
      <3>2. CASE t = 1
        BY <1>7, <2>1, <3>2
      <3> QED
        BY <3>1, <3>2
    <2> HIDE DEF f, g, off, sign
    <2>7. ComesTo(f, g, 0, n)
      BY <2>2, <2>3, <2>4, <2>5 DEF ComesTo
    <2>8. SumFunction(f) = g[n]
      BY <2>7, SumFromOne
    <2> QED
      BY <2>3, <2>6, <2>8 DEF f
  <1>11. /\ DirectionAutocorr(s).num = 0 - (n - 1) * d
         /\ DirectionAutocorr(s).den = n * d
    <2>1. DirectionAutocorr(s) = Autocorr(s, Len(s), SumFunction([i \in 1..Len(s) |-> Sign(s[i])]))
      <3>1. ~ (Len(s) < 3)
        BY <1>1, <1>3
      <3> QED
        BY <3>1, Zenon DEF DirectionAutocorr, Autocorr
    <2>2. SumFunction([i \in 1..Len(s) |-> Sign(s[i])]) = t
      BY <1>3, <1>6, Zenon
    <2>3. DirectionAutocorr(s) = Autocorr(s, n, t)
      BY <1>3, <2>1, <2>2, Zenon
    <2>4. Autocorr(s, n, t).num = 0 - (n - 1) * d /\ Autocorr(s, n, t).den = n * d
      BY <1>9, <1>10 DEF Autocorr
    <2> QED
      BY <2>3, <2>4
  <1>12. PICK num \in Int, den \in Int, conf \in Int :
            /\ num = DirectionAutocorr(s).num /\ den = DirectionAutocorr(s).den
            /\ den > 0 /\ ~ (4 * num >= den) /\ 100 * num <= -15 * den
            /\ conf = (-100 * num) \div den /\ DriftThreshold <= conf
    <2>1. PICK num \in Int, den \in Int : num = 0 - (n - 1) * d /\ den = n * d
      OBVIOUS
    <2>2. /\ den > 0 /\ ~ (4 * num >= den) /\ 100 * num <= -15 * den
          /\ (-100 * num) \div den \in Int
          /\ (100 * (n - 1)) \div n <= (-100 * num) \div den
      BY <1>1, <2>1, AlternatingQuotient
    <2>3. PICK conf \in Int, q \in Int :
             /\ conf = (-100 * num) \div den /\ q = (100 * (n - 1)) \div n /\ q <= conf
             /\ DriftThreshold <= q
      <3>1. (100 * (n - 1)) \div n \in Int
        BY <1>1
      <3>2. DriftThreshold <= (100 * (n - 1)) \div n
        BY <1>1, FixtureAssumption
      <3> QED
        BY <2>2, <3>1, <3>2
    <2>4. DriftThreshold <= conf
      BY <2>3, ScoringAssumption
    <2>5. num = DirectionAutocorr(s).num /\ den = DirectionAutocorr(s).den
      BY <1>11, <2>1
    <2>6. conf = (-100 * num) \div den
      BY <2>3
    <2>7. den > 0 /\ ~ (4 * num >= den) /\ 100 * num <= -15 * den
      BY <2>2
    <2> QED
      BY <2>4, <2>5, <2>6, <2>7, Zenon
  <1>13. ~ (\A i \in 1..n : Sign(s[i]) = Sign(s[1]))
    <2>1. 1 \in 1..n /\ 2 \in 1..n /\ sign(1) = 1 /\ sign(2) = -1
      BY <1>1
    <2> QED
      BY <1>4, <2>1
  <1>14. ClassifyLead(s) = [strategy |-> "mean-reversion", confidence |-> Clamped(conf)]
    BY <1>2, <1>3, <1>12, <1>13 DEF ClassifyLead
  <1>15. Clamped(conf) >= DriftThreshold
    <2>1. DriftThreshold \in Nat /\ DriftThreshold <= 100
      <3>1. (100 * (n - 1)) \div n \in Int /\ (100 * (n - 1)) \div n <= 100
        <4>1. PICK y \in Nat : y = 100 * (n - 1) /\ y <= 100 * n
          BY <1>1
        <4>2. PICK q \in Nat : q = y \div n /\ n * q <= y
          BY <1>1, DivBounds
        <4>3. SUFFICES ASSUME q >= 101 PROVE FALSE
          BY <4>1, <4>2
        <4>4. 101 * n <= q * n
          BY <4>3, ProductMono
        <4> QED
          BY <1>1, <4>1, <4>2, <4>4
      <3> QED
        BY <1>1, <3>1, FixtureAssumption, ScoringAssumption
    <2> QED
      BY <1>12, <2>1 DEF Clamped
  <1> QED
    BY <1>2, <1>14, <1>15

\* What the tests of detectDrift want of its fixtures: days that all buy are no drift
\* from momentum, and days that alternate are one.
THEOREM FixturesToldApart ==
  ASSUME NEW now \in Int
  PROVE  ~ Drifted(0, SyntheticMomentumLead(now)) /\ Drifted(0, SyntheticMeanRevLead(now))
  <1>1. StrategyTypeCode["momentum"] = 0 /\ StrategyTypeCode["mean-reversion"] = 1
    BY DEF StrategyTypeCode
  <1>2. ClassifyLead(SyntheticMomentumLead(now)).strategy = "momentum"
    BY MomentumKnown
  <1>3. /\ ClassifyLead(SyntheticMeanRevLead(now)).strategy = "mean-reversion"
        /\ ClassifyLead(SyntheticMeanRevLead(now)).confidence >= DriftThreshold
    BY MeanReversionKnown
  <1> QED
    BY <1>1, <1>2, <1>3 DEF Drifted

-----------------------------------------------------------------------------
(* DriftWatch. *)

DriftInv == DriftTypeOK /\ DriftAlertedEachCycle

\* The turn of the next alert.
LEMMA TurnOf ==
  ASSUME NEW n \in Nat \ {0}, NEW c \in Nat, NEW l \in 1..n
  PROVE  ((c * n + l - 1) % n) + 1 = l
  <1>1. PICK r \in 0..(n - 1) : r = l - 1
    OBVIOUS
  <1>2. (c * n + r) % n = r
    OBVIOUS
  <1> QED
    BY <1>1, <1>2

LEMMA DriftInitInv == AlertInit /\ DriftInit => DriftInv
  <1> SUFFICES ASSUME AlertInit, DriftInit PROVE DriftInv
    OBVIOUS
  <1>1. told["driftMonitor"] = <<>>
    BY DriftAssumption DEF AlertInit
  <1>2. watch.cycle = 0 /\ watch.lead = 1 /\ Len(WatchedLeads) \in Nat \ {0} /\ InjectAt \in Nat
    BY DriftAssumption DEF DriftInit
  <1>3. (0 - InjectAt) * Len(WatchedLeads) = 0 \/ 0 < InjectAt
    BY <1>2
  <1>4. DriftAlertedEachCycle
    BY <1>1, <1>2, <1>3 DEF DriftAlertedEachCycle
  <1>5. DriftTypeOK
    BY DriftAssumption DEF DriftInit, DriftTypeOK
  <1> QED
    BY <1>4, <1>5 DEF DriftInv

\* Nobody else alerts in the monitor's name.
LEMMA DriftKeptInv ==
  ASSUME DriftInv, watch' = watch, driftRuns' \in {"idle", "alerting", "ok", "failed"},
         told'["driftMonitor"] = told["driftMonitor"]
  PROVE  DriftInv'
  BY DEF DriftInv, DriftTypeOK, DriftAlertedEachCycle

\* The alert of the lead the monitor looks at, and its move to the next.
LEMMA WatchLeadInv ==
  ASSUME DriftInv, AlertFeedInv, WatchLead
  PROVE  DriftInv'
  <1> DEFINE p == "driftMonitor"
  <1>1. /\ watch \in [cycle : 0..DriftCycles, lead : 1..Len(WatchedLeads)]
        /\ driftRuns' = driftRuns /\ driftRuns \in {"idle", "alerting", "ok", "failed"}
        /\ told \in [Alerters -> Seq(AlertTypes)] /\ p \in Alerters /\ watch.cycle < DriftCycles
        /\ DriftCycles \in Nat
    BY DriftAssumption DEF DriftInv, DriftTypeOK, AlertFeedInv, AlertFeedTypes, WatchLead
  <1>2. PICK n \in Nat \ {0}, at \in Nat : n = Len(WatchedLeads) /\ at = InjectAt
    BY DriftAssumption
  <1>3. PICK c \in Nat, l \in 1..n : c = watch.cycle /\ l = watch.lead /\ c < DriftCycles
    BY <1>1, <1>2
  <1>4. PICK old \in Seq(AlertTypes) : old = told[p]
    BY <1>1
  <1>5. /\ Len(old) = IF c < at THEN 0 ELSE (c - at) * n + l - 1
        /\ \A i \in 1..Len(old) : old[i] = WatchedLeads[((i - 1) % n) + 1]
        /\ Len(old) \in Nat
    <2>1. DOMAIN old = 1..Len(old) /\ Len(old) \in Nat
      OBVIOUS
    <2>2. Len(old) = IF c < at THEN 0 ELSE (c - at) * n + l - 1
      BY <1>2, <1>3, <1>4, Zenon DEF DriftInv, DriftAlertedEachCycle
    <2>3. \A i \in DOMAIN old : old[i] = WatchedLeads[((i - 1) % n) + 1]
      BY <1>2, <1>4, Zenon DEF DriftInv, DriftAlertedEachCycle
    <2> QED
      BY <2>1, <2>2, <2>3
  <1>6. PICK d \in Nat, m \in 1..n :
           /\ watch' = [cycle |-> d, lead |-> m] /\ d <= DriftCycles
           /\ \/ l = n /\ d = c + 1 /\ m = 1
              \/ l # n /\ d = c /\ m = l + 1
    <2>1. CASE l = n
      <3>1. watch' = [cycle |-> c + 1, lead |-> 1]
        BY <1>2, <1>3, <2>1 DEF WatchLead
      <3> QED
        BY <1>1, <1>3, <2>1, <3>1
    <2>2. CASE l # n
      <3>1. watch' = [watch EXCEPT !.lead = l + 1]
        BY <1>2, <1>3, <2>2 DEF WatchLead
      <3>2. watch' = [cycle |-> c, lead |-> l + 1]
        BY <1>1, <1>3, <3>1
      <3> QED
        BY <1>1, <1>3, <2>2, <3>2
    <2> QED
      BY <2>1, <2>2
  <1>7. DriftTypeOK'
    BY <1>1, <1>2, <1>6 DEF DriftTypeOK
  <1>8. CASE c < at
    <2>1. ~Drifted(0, EventsOfCycle(c))
      <3>1. c \in 0..(InjectAt - 1) /\ ~(c >= InjectAt)
        BY <1>2, <1>8
      <3>2. EventsOfCycle(c) = SyntheticMomentumLead(c)
        BY <3>1 DEF EventsOfCycle
      <3> QED
        BY <3>1, <3>2, FixturesToldApart
    <2>2. told'[p] = old
      BY <1>3, <1>4, <2>1 DEF WatchLead, alertVars
    <2>3. Len(old) = 0
      BY <1>5, <1>8
    <2>4. d < at \/ (d = at /\ m = 1)
      BY <1>2, <1>6, <1>8
    <2>5. 0 = IF d < at THEN 0 ELSE (d - at) * n + m - 1
      <3>1. (at - at) * n = 0
        BY <1>2
      <3> QED
        BY <1>2, <2>4, <3>1
    <2>6. DriftAlertedEachCycle'
      <3>1. DOMAIN old = {}
        BY <2>3
      <3>2. Len(told'[p]) = IF watch'.cycle < InjectAt THEN 0
                            ELSE (watch'.cycle - InjectAt) * Len(WatchedLeads) + watch'.lead - 1
        BY <1>2, <1>6, <2>2, <2>3, <2>5
      <3> QED
        BY <2>2, <3>1, <3>2 DEF DriftAlertedEachCycle
    <2> QED
      BY <1>7, <2>6 DEF DriftInv
  <1>9. CASE ~(c < at)
    <2>1. Drifted(0, EventsOfCycle(c))
      <3>1. c >= InjectAt
        BY <1>2, <1>9
      <3> QED
        BY <3>1, FixturesToldApart DEF EventsOfCycle
    <2>2. SendAlert(p, WatchedLeads[l])
      BY <1>3, <2>1 DEF WatchLead
    <2>3. told'[p] = Append(told[p], WatchedLeads[l])
      BY <1>1, <2>2, SendTells DEF AlertFeedInv
    <2>4. PICK type : type = WatchedLeads[l]
      OBVIOUS
    <2>5. PICK new : new = Append(old, type)
      OBVIOUS
    <2>6. /\ Len(new) = Len(old) + 1 /\ DOMAIN new = 1..(Len(old) + 1)
          /\ \A i \in 1..Len(old) : new[i] = old[i]
          /\ new[Len(old) + 1] = type
      BY <2>5
    <2>7. told'[p] = new
      BY <1>4, <2>3, <2>4, <2>5
    <2>8. PICK e \in Nat : e = c - at
      BY <1>2, <1>3, <1>9
    <2>9. Len(old) = e * n + l - 1 /\ e * n \in Nat
      BY <1>2, <1>5, <1>9, <2>8
    <2>10. ((Len(old) % n) + 1) = l
      <3>1. ((e * n + l - 1) % n) + 1 = l
        BY <2>8, TurnOf, Zenon
      <3> QED
        BY <2>9, <3>1, Zenon
    <2>11. \A i \in DOMAIN new : new[i] = WatchedLeads[((i - 1) % n) + 1]
      <3> SUFFICES ASSUME NEW i \in 1..(Len(old) + 1)
                   PROVE  new[i] = WatchedLeads[((i - 1) % n) + 1]
        BY <2>6
      <3>1. CASE i \in 1..Len(old)
        BY <1>5, <2>6, <3>1
      <3>2. CASE i = Len(old) + 1
        <4>1. i - 1 = Len(old)
          BY <1>5, <3>2
        <4>2. new[i] = WatchedLeads[l]
          BY <2>4, <2>6, <3>2, Zenon
        <4>3. ((i - 1) % n) + 1 = l
          BY <2>10, <4>1, Zenon
        <4> QED
          BY <4>2, <4>3, Zenon
      <3> QED
        BY <1>5, <3>1, <3>2
    <2>12. Len(new) = IF d < at THEN 0 ELSE (d - at) * n + m - 1
      <3>1. ~(d < at)
        BY <1>2, <1>6, <1>9
      <3>2. (e + 1) * n = e * n + n
        BY <1>2, <2>8
      <3>3. CASE l = n
        <4>1. d = c + 1 /\ m = 1
          BY <1>6, <3>3, Zenon
        <4>2. PICK x \in Nat : x = e * n
          BY <2>9
        <4>3. (d - at) * n = x + n
          <5>1. d - at = e + 1
            BY <2>8, <4>1
          <5> QED
            BY <3>2, <4>2, <5>1, Zenon
        <4>4. Len(new) = x + n
          BY <1>2, <2>6, <2>9, <3>3, <4>2
        <4>5. x + n + m - 1 = x + n
          BY <1>2, <4>1
        <4> QED
          BY <3>1, <4>3, <4>4, <4>5, Zenon
      <3>4. CASE l # n
        <4>1. d - at = e /\ m = l + 1
          <5>1. d = c /\ m = l + 1
            BY <1>6, <3>4, Zenon
          <5> QED
            BY <2>8, <5>1
        <4>2. PICK x \in Nat : x = e * n
          BY <2>9
        <4>3. Len(new) = x + m - 1
          BY <1>6, <2>6, <2>9, <4>1, <4>2
        <4> QED
          BY <3>1, <4>1, <4>2, <4>3, Zenon
      <3> QED
        BY <3>3, <3>4
    <2>13. DriftAlertedEachCycle'
      BY <1>2, <1>6, <2>7, <2>11, <2>12 DEF DriftAlertedEachCycle
    <2> QED
      BY <1>7, <2>13 DEF DriftInv
  <1> QED
    BY <1>8, <1>9

LEMMA DriftNextInv ==
  ASSUME DriftInv, AlertFeedInv, DriftNext
  PROVE  DriftInv' /\ AlertFeedInv'
  <1>1. /\ {"driftMonitor", "driftCanary"} \subseteq Alerters /\ "driftMonitor" # "driftCanary"
        /\ "injected" \in AlertTypes
    BY DriftAssumption DEF AlertTypes
  <1>2. CASE WatchLead
    <2>1. WatchedLeads[watch.lead] \in AlertTypes
      BY DEF DriftInv, DriftTypeOK, AlertTypes
    <2>2. SendAlert("driftMonitor", WatchedLeads[watch.lead]) \/ UNCHANGED alertVars
      BY <1>2 DEF WatchLead
    <2>3. AlertFeedInv'
      BY <1>1, <2>1, <2>2, SendAlertInv, AlertStutterInv
    <2> QED
      BY <1>2, <2>3, WatchLeadInv
  <1>3. CASE RunDriftCanary
    <2>1. /\ watch' = watch /\ driftRuns' \in {"idle", "alerting", "ok", "failed"}
          /\ SendAlert("driftCanary", "injected") \/ UNCHANGED alertVars
      BY <1>3 DEF RunDriftCanary
    <2>2. told'["driftMonitor"] = told["driftMonitor"]
      <3>1. CASE SendAlert("driftCanary", "injected")
        BY <1>1, <3>1, SendTells DEF AlertFeedInv
      <3>2. CASE UNCHANGED alertVars
        BY <3>2 DEF alertVars
      <3> QED
        BY <2>1, <3>1, <3>2
    <2>3. AlertFeedInv'
      BY <1>1, <2>1, SendAlertInv, AlertStutterInv
    <2> QED
      BY <2>1, <2>2, <2>3, DriftKeptInv
  <1> QED
    BY <1>2, <1>3 DEF DriftNext

-----------------------------------------------------------------------------
(* SCORE_V1: every answer is what its events make on its day. *)

Answer(a) ==
    /\ a.events \in Seq(OutcomeEvent) /\ a.day \in Nat
    /\ a.score = ScoreLead(a.events, a.day)
    /\ a.strategy = ClassifyLead(a.events).strategy
    /\ a.drifted = Drifted(a.baseline, a.events)
    /\ a.maxDrawdown = MaxDrawdown(Returns(a.events))

ScoringInv ==
    /\ ScoringTypeOK
    /\ outcomes \in [ScoredLeads -> Seq(OutcomeEvent)]
    /\ request.stage = "fetching" => request.lead \in ScoredLeads
    /\ request.stage = "scoring" => request.events \in Seq(OutcomeEvent)
    /\ \A a \in answers : Answer(a)

LEMMA AnswersAreConsistent ==
  ASSUME \A a \in answers : Answer(a)
  PROVE  AnswersConsistent
  <1>1. ASSUME NEW a \in answers
        PROVE  /\ a.events \in Seq(OutcomeEvent) /\ a.day \in Int
               /\ a.score = ScoreLead(a.events, a.day)
               /\ a.strategy = ClassifyLead(a.events).strategy
               /\ a.drifted = Drifted(a.baseline, a.events)
               /\ a.maxDrawdown = MaxDrawdown(Returns(a.events))
    BY DEF Answer
  <1>2. ASSUME NEW a \in answers PROVE a.score \in 0..100
    <2>1. PICK x \in Seq(OutcomeEvent) : x = a.events
      BY <1>1
    <2>2. PICK d \in Int : d = a.day
      BY <1>1
    <2>3. ByTimestamp(x) = ByTimestamp(x) /\ d <= d
      OBVIOUS
    <2>4. ScoreLead(x, d) \in 0..100
      BY <2>3, ScoresOfSortedAlike
    <2> QED
      BY <1>1, <2>1, <2>2, <2>4
  <1>3. ASSUME NEW a \in answers, NEW b \in answers, Rearranged(a.events, b.events)
        PROVE  ByTimestamp(a.events) = ByTimestamp(b.events)
    BY <1>1, <1>3, RearrangedSortAlike
  <1>4. ASSUME NEW a \in answers, NEW b \in answers, Rearranged(a.events, b.events), a.day <= b.day
        PROVE  b.score <= a.score
    <2>1. ScoreLead(b.events, b.day) <= ScoreLead(a.events, a.day)
      BY <1>1, <1>3, <1>4, ScoresOfSortedAlike
    <2> QED
      BY <1>1, <2>1
  <1>5. ASSUME NEW a \in answers, NEW b \in answers, Rearranged(a.events, b.events)
        PROVE  /\ a.strategy = b.strategy
               /\ a.baseline = b.baseline => a.drifted = b.drifted
               /\ a.day = b.day => a.score = b.score
    <2>1. ClassifyLead(a.events) = ClassifyLead(b.events)
      BY <1>3, <1>5, StrategiesOfSortedAlike
    <2>2. a.strategy = b.strategy
      BY <1>1, <2>1
    <2>3. ASSUME a.baseline = b.baseline PROVE a.drifted = b.drifted
      <3>1. Drifted(a.baseline, a.events) = Drifted(b.baseline, b.events)
        BY <2>1, <2>3 DEF Drifted
      <3> QED
        BY <1>1, <3>1
    <2>4. ASSUME a.day = b.day PROVE a.score = b.score
      <3>1. PICK x \in Seq(OutcomeEvent) : x = a.events
        BY <1>1
      <3>2. PICK y \in Seq(OutcomeEvent) : y = b.events
        BY <1>1
      <3>3. PICK d \in Int : d = a.day /\ d = b.day
        BY <1>1, <2>4
      <3>4. ByTimestamp(x) = ByTimestamp(y) /\ d <= d
        BY <1>3, <1>5, <3>1, <3>2
      <3>5. ScoreLead(y, d) <= ScoreLead(x, d) /\ ScoreLead(x, d) \in 0..100
        BY <3>4, ScoresOfSortedAlike
      <3>6. ScoreLead(x, d) <= ScoreLead(y, d) /\ ScoreLead(y, d) \in 0..100
        BY <3>4, ScoresOfSortedAlike
      <3>7. PICK u \in 0..100, v \in 0..100 : /\ u = ScoreLead(x, d) /\ v = ScoreLead(y, d)
                                            /\ u <= v /\ v <= u
        BY <3>5, <3>6, Zenon
      <3>8. u = v
        BY <3>7
      <3> QED
        BY <1>1, <3>1, <3>2, <3>3, <3>7, <3>8
    <2> QED
      BY <2>2, <2>3, <2>4
  <1>6. ScoresInRange
    BY <1>2 DEF ScoresInRange
  <1>7. AnswersIgnoreOrder
    BY <1>5 DEF AnswersIgnoreOrder
  <1>8. ScoresFade
    <2>1. ASSUME NEW a \in answers, NEW b \in answers, Rearranged(a.events, b.events), a.day <= b.day
          PROVE  a.score >= b.score
      <3>1. b.score <= a.score
        BY <1>4, <2>1
      <3> QED
        BY <3>1
    <2> QED
      BY <2>1 DEF ScoresFade
  <1>9. DrawdownIsWorstFall
    <2>1. ASSUME NEW a \in answers
          PROVE  LET equity == Equity(Returns(a.events))
                     falls  == {p \in (DOMAIN equity) \X (DOMAIN equity) : p[1] <= p[2]}
                 IN  Solvent(Returns(a.events)) =>
                       a.maxDrawdown = Max({Fall(equity[p[1]], equity[p[2]]) : p \in falls})
      <3>1. PICK r \in Seq(Int) : r = Returns(a.events) /\ a.maxDrawdown = MaxDrawdown(r)
        BY <1>1, ReturnsOfEvents
      <3>2. ASSUME Solvent(r)
            PROVE  LET equity == Equity(r)
                       falls  == {p \in (DOMAIN equity) \X (DOMAIN equity) : p[1] <= p[2]}
                   IN  MaxDrawdown(r) = Max({Fall(equity[p[1]], equity[p[2]]) : p \in falls})
        BY <3>2, DrawdownIsMax
      <3> QED
        BY <3>1, <3>2, Zenon
    <2> QED
      BY <2>1, Zenon DEF DrawdownIsWorstFall
  <1> QED
    BY <1>6, <1>7, <1>8, <1>9 DEF AnswersConsistent

LEMMA StrategyKnown ==
  ASSUME NEW events
  PROVE  ClassifyLead(events).strategy \in DOMAIN StrategyTypeCode
  BY DEF ClassifyLead, StrategyTypeCode

LEMMA ScoringInitTypes == ScoringInit => ScoringTypeOK
  <1> SUFFICES ASSUME ScoringInit PROVE ScoringTypeOK
    OBVIOUS
  <1>1. greetings \in [{"hello", "goodbye"} -> Nat]
    BY DEF ScoringInit
  <1>2. request.stage = "none" /\ today \in Nat /\ requests \in Nat
    BY AgentScoringAssumption DEF ScoringInit, NoRequest
  <1> QED
    BY <1>1, <1>2 DEF ScoringInit, ScoringTypeOK

LEMMA ScoringStutterTypes == ScoringTypeOK /\ UNCHANGED scoringVars => ScoringTypeOK'
  BY DEF ScoringTypeOK, scoringVars

LEMMA ScoringNextTypes == ScoringTypeOK /\ ScoringNext => ScoringTypeOK'
  <1> SUFFICES ASSUME ScoringTypeOK, ScoringNext PROVE ScoringTypeOK'
    OBVIOUS
  <1>1. /\ today \in Nat /\ requests \in Nat /\ greetings \in [{"hello", "goodbye"} -> Nat]
        /\ request.stage \in {"none", "fetching", "scoring"}
        /\ \A a \in answers : a.strategy \in DOMAIN StrategyTypeCode
        /\ lastScoreRun \in {NoRun} \cup {RunOf(a) : a \in answers}
    BY DEF ScoringTypeOK
  <1>2. ASSUME NEW g \in {"hello", "goodbye"}, Greet(g) PROVE ScoringTypeOK'
    BY <1>1, <1>2 DEF Greet, Arrives, ScoringTypeOK
  <1>3. ASSUME NEW l \in ScoredLeads, NEW b \in {0, 1}, ScoreV1Starts(l, b) PROVE ScoringTypeOK'
    <2>1. request'.stage \in {"fetching", "scoring"} /\ requests' \in Nat
      BY <1>1, <1>3 DEF ScoreV1Starts, Arrives
    <2>2. UNCHANGED <<today, greetings, lastScoreRun, answers>>
      BY <1>3 DEF ScoreV1Starts
    <2> QED
      BY <1>1, <2>1, <2>2 DEF ScoringTypeOK
  <1>4. CASE FetchOutcomeLog \/ FetchFails
    <2>1. request'.stage \in {"none", "scoring"} /\ UNCHANGED <<today, requests, greetings, lastScoreRun, answers>>
      BY <1>4 DEF FetchOutcomeLog, FetchFails, NoRequest
    <2> QED
      BY <1>1, <2>1 DEF ScoringTypeOK
  <1>5. CASE ScoreV1Answers
    <2>1. request'.stage = "none" /\ UNCHANGED <<today, requests, greetings>>
      BY <1>5 DEF ScoreV1Answers, NoRequest
    <2>2. CASE UNCHANGED <<lastScoreRun, answers>>
      BY <1>1, <2>1, <2>2 DEF ScoringTypeOK
    <2>3. CASE ~UNCHANGED <<lastScoreRun, answers>>
      <3>1. PICK answer : /\ answer.strategy = ClassifyLead(request.events).strategy
                          /\ lastScoreRun' = RunOf(answer)
                          /\ answers' = answers \cup {answer}
        BY <1>5, <2>3 DEF ScoreV1Answers
      <3>2. answer.strategy \in DOMAIN StrategyTypeCode
        BY <3>1, StrategyKnown
      <3>3. \A a \in answers' : a.strategy \in DOMAIN StrategyTypeCode
        BY <1>1, <3>1, <3>2
      <3>4. lastScoreRun' \in {RunOf(a) : a \in answers'}
        BY <3>1
      <3> QED
        BY <1>1, <2>1, <3>3, <3>4 DEF ScoringTypeOK
    <2> QED
      BY <2>2, <2>3
  <1>6. ASSUME NEW l \in ScoredLeads, NEW o \in Outcomes, Outcome(l, o) PROVE ScoringTypeOK'
    BY <1>6 DEF Outcome, ScoringTypeOK
  <1>7. CASE NextDay
    BY <1>1, <1>7 DEF NextDay, ScoringTypeOK
  <1> QED
    BY <1>2, <1>3, <1>4, <1>5, <1>6, <1>7 DEF ScoringNext

LEMMA FixturesAreEvents ==
  /\ SyntheticMomentumLead(0) \in Seq(OutcomeEvent)
  /\ SyntheticMeanRevLead(0) \in Seq(OutcomeEvent)
  <1>1. FixtureDays \in Nat /\ 0 \in Int
    BY ScoringAssumption
  <1> QED
    BY <1>1, FixtureLists

LEMMA ScoringInitInv == ScoringInit => ScoringInv
  <1> SUFFICES ASSUME ScoringInit PROVE ScoringInv
    OBVIOUS
  <1>1. /\ outcomes = [l \in ScoredLeads |-> <<>>] /\ answers = {} /\ request.stage = "none"
    BY DEF ScoringInit, NoRequest
  <1>2. <<>> \in Seq(OutcomeEvent)
    OBVIOUS
  <1> QED
    BY <1>1, <1>2, ScoringInitTypes DEF ScoringInv

LEMMA ScoringStutterInv == ScoringInv /\ UNCHANGED scoringVars => ScoringInv'
  BY ScoringStutterTypes DEF ScoringInv, scoringVars

LEMMA ScoringNextInv ==
  ASSUME ScoringInv, ScoringNext
  PROVE  ScoringInv'
  <1>1. /\ ScoringTypeOK
        /\ outcomes \in [ScoredLeads -> Seq(OutcomeEvent)]
        /\ request.stage = "fetching" => request.lead \in ScoredLeads
        /\ request.stage = "scoring" => request.events \in Seq(OutcomeEvent)
        /\ \A a \in answers : Answer(a)
    BY DEF ScoringInv
  <1>2. ScoringTypeOK' /\ today \in Nat
    BY <1>1, ScoringNextTypes DEF ScoringTypeOK
  <1>3. ASSUME NEW g \in {"hello", "goodbye"}, Greet(g) PROVE ScoringInv'
    BY <1>1, <1>2, <1>3 DEF Greet, ScoringInv
  <1>4. ASSUME NEW l \in ScoredLeads, NEW b \in {0, 1}, ScoreV1Starts(l, b) PROVE ScoringInv'
    <2>1. UNCHANGED <<outcomes, answers>>
      BY <1>4 DEF ScoreV1Starts
    <2>2. \/ request'.stage = "fetching" /\ request'.lead = l
          \/ request'.stage = "scoring" /\ request'.events \in Seq(OutcomeEvent)
      BY <1>4, FixturesAreEvents, AgentScoringAssumption DEF ScoreV1Starts
    <2> QED
      BY <1>1, <1>2, <2>1, <2>2 DEF ScoringInv
  <1>5. CASE FetchOutcomeLog
    <2>1. /\ UNCHANGED <<outcomes, answers>> /\ request'.stage = "scoring"
          /\ request'.events = outcomes[request.lead] /\ request.lead \in ScoredLeads
      BY <1>1, <1>5 DEF FetchOutcomeLog
    <2> QED
      BY <1>1, <1>2, <2>1 DEF ScoringInv
  <1>6. CASE FetchFails
    <2>1. UNCHANGED <<outcomes, answers>> /\ request'.stage = "none"
      BY <1>6 DEF FetchFails, NoRequest
    <2> QED
      BY <1>1, <1>2, <2>1 DEF ScoringInv
  <1>7. CASE ScoreV1Answers
    <2>1. /\ UNCHANGED outcomes /\ request'.stage = "none"
          /\ request.stage = "scoring" /\ request.events \in Seq(OutcomeEvent)
      BY <1>1, <1>7 DEF ScoreV1Answers, NoRequest
    <2>2. \A a \in answers' : Answer(a)
      <3>1. CASE UNCHANGED answers
        BY <1>1, <3>1
      <3>2. CASE ~UNCHANGED answers
        <4>1. PICK answer : /\ answer.score = ScoreLead(request.events, today)
                            /\ answer.strategy = ClassifyLead(request.events).strategy
                            /\ answer.drifted = Drifted(answer.baseline, request.events)
                            /\ answer.events = request.events /\ answer.day = today
                            /\ answer.maxDrawdown = MaxDrawdown(Returns(request.events))
                            /\ answers' = answers \cup {answer}
          BY <1>7, <3>2 DEF ScoreV1Answers
        <4>2. Answer(answer)
          BY <1>2, <2>1, <4>1 DEF Answer
        <4> QED
          BY <1>1, <4>1, <4>2
      <3> QED
        BY <3>1, <3>2
    <2> QED
      BY <1>1, <1>2, <2>1, <2>2 DEF ScoringInv
  <1>8. ASSUME NEW l \in ScoredLeads, NEW o \in Outcomes, Outcome(l, o) PROVE ScoringInv'
    <2>1. PICK event : /\ event = [timestamp |-> today, pnl |-> o.pnl, direction |-> o.direction,
                                   sizePct |-> o.sizePct]
                       /\ outcomes' = [outcomes EXCEPT ![l] = Append(@, event)]
                       /\ UNCHANGED <<request, answers>>
      BY <1>8 DEF Outcome
    <2>2. event \in OutcomeEvent
      BY <1>2, <2>1, AgentScoringAssumption DEF OutcomeEvent
    <2>3. Append(outcomes[l], event) \in Seq(OutcomeEvent)
      BY <1>1, <2>2
    <2> QED
      BY <1>1, <1>2, <2>1, <2>3 DEF ScoringInv
  <1>9. CASE NextDay
    BY <1>1, <1>2, <1>9 DEF NextDay, ScoringInv
  <1> QED
    BY <1>3, <1>4, <1>5, <1>6, <1>7, <1>8, <1>9 DEF ScoringNext

-----------------------------------------------------------------------------
(* AgentDuties: each duty keeps what the others rely on. *)

\* Only the canary and the health monitor send while positions are watched.
LEMMA HealthAlerts ==
  ASSUME AlertFeedInv, HealthNext
  PROVE  AlertFeedInv' /\ told'["driftMonitor"] = told["driftMonitor"]
  <1>1. /\ {"canary", "healthMonitor", "driftMonitor"} \subseteq Alerters
        /\ {"liquidation_risk", "topup_executed"} \subseteq AlertTypes
        /\ "driftMonitor" \notin {"canary", "healthMonitor"}
    BY HealthAssumption, DriftAssumption DEF AlertTypes
  <1>2. ASSUME NEW p \in {"canary", "healthMonitor"},
               NEW type \in {"liquidation_risk", "topup_executed"}, SendAlert(p, type)
        PROVE  AlertFeedInv' /\ told'["driftMonitor"] = told["driftMonitor"]
    BY <1>1, <1>2, SendAlertInv, SendTells DEF AlertFeedInv
  <1>3. CASE UNCHANGED alertVars
    <2>1. told' = told
      BY <1>3 DEF alertVars
    <2> QED
      BY <1>3, <2>1, AlertStutterInv
  <1>4. CASE AlertNext
    BY <1>4, AlertNextInv, ToldKept
  <1>8. CASE CanaryStarts
    <2>1. AlerterStarts("canary")
      BY <1>8 DEF CanaryStarts
    <2> QED
      BY <1>1, <2>1, AlerterStartsInv, ToldKept
  <1>5. CASE CanaryStep \/ CanaryDies
    <2>1. \/ UNCHANGED alertVars
          \/ \E p \in {"canary", "healthMonitor"}, type \in {"liquidation_risk", "topup_executed"} :
                 SendAlert(p, type)
      BY <1>5 DEF CanaryDies, CanaryStep, CanarySends, CanaryDropsPrice, CanaryReads, CanaryAssesses,
                  CanaryChecksAuthorization, CanaryTopsUp, CanaryVerifies, CanaryRestoresPrice
    <2> QED
      BY <1>2, <1>3, <2>1
  <1>6. CASE MonitorCycle
    BY <1>2, <1>3, <1>6 DEF MonitorCycle
  <1>7. CASE Mine \/ MinePrice
    BY <1>3, <1>7 DEF Mine, MinePrice
  <1> QED
    BY <1>3, <1>4, <1>5, <1>6, <1>7, <1>8 DEF HealthNext

HealthInv == KineticInv /\ HealthTypes /\ PledgeInv

LEMMA HealthInitInv == HealthInit => HealthInv /\ AlertFeedInv
  BY KineticInitInv, HealthInitTypes, PledgeInitInv, AlertInitInv DEF HealthInit, HealthInv

LEMMA HealthStutterInv == HealthInv /\ UNCHANGED healthDuty => HealthInv'
  <1> SUFFICES ASSUME HealthInv, UNCHANGED healthDuty PROVE HealthInv'
    OBVIOUS
  <1>1. KineticInv /\ HealthTypes /\ PledgeInv /\ UNCHANGED kineticVars /\ UNCHANGED healthVars
    BY DEF HealthInv, healthDuty
  <1>2. PledgeInv'
    BY <1>1 DEF PledgeInv, BorrowsFollowSupply, DepositIsLast, DepositSent, Backed, BorrowDue, Pledged,
                kineticVars, kineticSettings, healthVars
  <1> QED
    BY <1>1, <1>2, KineticStutterInv, HealthStutterTypes DEF HealthInv

LEMMA HealthNextInv ==
  ASSUME HealthInv, HealthNext
  PROVE  HealthInv' /\ [KineticNext]_kineticVars
  <1>1. KineticInv /\ HealthTypes /\ PledgeInv /\ KineticTypeOK
    BY DEF HealthInv, KineticInv
  <1>2. [KineticNext]_kineticVars
    BY <1>1, HealthKineticStep
  <1>3. KineticInv' /\ KineticTypeOK'
    BY <1>1, <1>2, KineticNextInv DEF KineticInv
  <1> QED
    BY <1>1, <1>2, <1>3, HealthNextTypes, PledgeNext DEF HealthInv

LEMMA PublishingStutterInv == PublishingInv /\ UNCHANGED publishingVars => PublishingInv'
  <1> SUFFICES ASSUME PublishingInv, UNCHANGED publishingVars PROVE PublishingInv'
    OBVIOUS
  <1>1. /\ LeaderboardInv /\ CallsInv /\ CanaryProgress
        /\ UNCHANGED <<leaderboardVars, publishing, publishes, accountVars, canaryVars>>
    BY DEF PublishingInv, publishingVars
  <1>2. UNCHANGED <<scoreEvents, scoresReplaced, registered, scoreCanary, readId>>
    BY <1>1 DEF leaderboardVars, accountVars, canaryVars
  <1>3. CallsInv'
    BY <1>1, <1>2, CallsKept
  <1>4. CanaryProgress'
    BY <1>1, <1>2 DEF CanaryProgress, CanaryCalled, Done, Recorded, LostItsNonce
  <1> QED
    BY <1>1, <1>2, <1>3, <1>4, LeaderboardStutterInv DEF PublishingInv

AgentIInv == HealthInv /\ AlertFeedInv /\ ScoringInv /\ PublishingInv /\ DriftInv

LEMMA AgentInitIInv == AgentInit => AgentIInv
  BY HealthInitInv, ScoringInitInv, PublishingInitInv, DriftInitInv
     DEF AgentInit, AgentIInv, HealthInit

LEMMA AgentStutterIInv == AgentIInv /\ UNCHANGED agentVars => AgentIInv'
  <1> SUFFICES ASSUME AgentIInv, UNCHANGED agentVars PROVE AgentIInv'
    OBVIOUS
  <1>1. /\ UNCHANGED alertVars /\ UNCHANGED healthDuty /\ UNCHANGED scoringVars
        /\ UNCHANGED publishingVars /\ UNCHANGED driftVars
    BY DEF agentVars
  <1>2. watch' = watch /\ driftRuns' = driftRuns /\ told' = told
    BY <1>1 DEF driftVars, alertVars
  <1>3. DriftInv'
    BY <1>2, DriftKeptInv DEF AgentIInv, DriftInv, DriftTypeOK
  <1> QED
    BY <1>1, <1>3, HealthStutterInv, AlertStutterInv, ScoringStutterInv, PublishingStutterInv
       DEF AgentIInv

LEMMA AgentNextIInv ==
  ASSUME AgentIInv, AgentNext
  PROVE  /\ AgentIInv'
         /\ [KineticNext]_kineticVars
         /\ [LeaderboardNext]_leaderboardVars
  <1>1. HealthInv /\ AlertFeedInv /\ ScoringInv /\ PublishingInv /\ DriftInv
    BY DEF AgentIInv
  <1>2. UNCHANGED healthDuty => HealthInv' /\ UNCHANGED kineticVars
    BY <1>1, HealthStutterInv DEF healthDuty
  <1>3. UNCHANGED publishingVars => PublishingInv' /\ UNCHANGED leaderboardVars
    BY <1>1, PublishingStutterInv DEF publishingVars
  <1>4. ASSUME UNCHANGED driftVars, told'["driftMonitor"] = told["driftMonitor"] PROVE DriftInv'
    <2>1. watch' = watch /\ driftRuns' = driftRuns
      BY <1>4 DEF driftVars
    <2> QED
      BY <1>1, <1>4, <2>1, DriftKeptInv DEF DriftInv, DriftTypeOK
  <1>5. UNCHANGED alertVars => AlertFeedInv' /\ told' = told
    BY <1>1, AlertStutterInv DEF alertVars
  <1>6. CASE HealthNext /\ UNCHANGED <<scoringVars, publishingVars, driftVars>>
    <2>1. UNCHANGED scoringVars /\ UNCHANGED publishingVars /\ UNCHANGED driftVars
      BY <1>6
    <2> QED
      BY <1>1, <1>3, <1>4, <1>6, <2>1, HealthNextInv, HealthAlerts, ScoringStutterInv DEF AgentIInv
  <1>7. CASE ScoringNext /\ UNCHANGED <<alertVars, healthDuty, publishingVars, driftVars>>
    <2>1. UNCHANGED alertVars /\ UNCHANGED healthDuty /\ UNCHANGED publishingVars /\ UNCHANGED driftVars
      BY <1>7
    <2> QED
      BY <1>1, <1>2, <1>3, <1>4, <1>5, <1>7, <2>1, ScoringNextInv DEF AgentIInv
  <1>8. CASE PublishingNext /\ UNCHANGED <<alertVars, healthDuty, scoringVars, driftVars>>
    <2>1. UNCHANGED alertVars /\ UNCHANGED healthDuty /\ UNCHANGED scoringVars /\ UNCHANGED driftVars
      BY <1>8
    <2> QED
      BY <1>1, <1>2, <1>4, <1>5, <1>8, <2>1, PublishingNextInv, ScoringStutterInv DEF AgentIInv
  <1>9. CASE /\ DriftNext \/ (AlertNext /\ UNCHANGED driftVars)
             /\ UNCHANGED <<healthDuty, scoringVars, publishingVars>>
    <2>1. UNCHANGED healthDuty /\ UNCHANGED scoringVars /\ UNCHANGED publishingVars
      BY <1>9
    <2>2. DriftInv' /\ AlertFeedInv'
      <3>1. CASE DriftNext
        BY <1>1, <3>1, DriftNextInv
      <3>2. CASE AlertNext /\ UNCHANGED driftVars
        <4>1. told'["driftMonitor"] = told["driftMonitor"]
          BY <3>2, ToldKept
        <4> QED
          BY <1>1, <1>4, <3>2, <4>1, AlertNextInv
      <3> QED
        BY <1>9, <3>1, <3>2
    <2> QED
      BY <1>1, <1>2, <1>3, <2>1, <2>2, ScoringStutterInv DEF AgentIInv
  <1> QED
    BY <1>6, <1>7, <1>8, <1>9 DEF AgentNext

LEMMA AgentInductive == AgentSpec => []AgentIInv
  <1>1. AgentIInv /\ [AgentNext]_agentVars => AgentIInv'
    BY AgentNextIInv, AgentStutterIInv
  <1> QED
    BY <1>1, AgentInitIInv, PTL DEF AgentSpec

\* Whatever duty the agent has, the pool sees only calls of its users and its owner.
THEOREM AgentUsesPool == AgentSpec => KineticSpec
  <1>1. AgentInit => KineticInit
    BY DEF AgentInit, HealthInit
  <1>2. AgentIInv /\ [AgentNext]_agentVars => [KineticNext]_kineticVars
    <2>1. UNCHANGED agentVars => UNCHANGED kineticVars
      BY DEF agentVars, healthDuty
    <2> QED
      BY <2>1, AgentNextIInv
  <1> QED
    BY <1>1, <1>2, AgentInductive, PTL DEF AgentSpec, KineticSpec

\* CallsKeepKineticHealthy, of the agent: no step of a canary, a top-up or anybody
\* else makes a position liquidatable unless the owner moved the price or the threshold.
THEOREM AgentKeepsLoansHealthy == AgentSpec => CallsKeepKineticHealthy
  BY AgentUsesPool, CallsKeepLoansHealthy, PTL

\* The board sees only scores of its signer and changes of that signer by its owner.
THEOREM AgentUsesLeaderboard == AgentSpec => LeaderboardSpec
  <1>1. AgentInit => LeaderboardInit
    BY DEF AgentInit, PublishingInit
  <1>2. AgentIInv /\ [AgentNext]_agentVars => [LeaderboardNext]_leaderboardVars
    <2>1. UNCHANGED agentVars => UNCHANGED leaderboardVars
      BY DEF agentVars, publishingVars
    <2> QED
      BY <2>1, AgentNextIInv
  <1> QED
    BY <1>1, <1>2, AgentInductive, PTL DEF AgentSpec, LeaderboardSpec

\* Types hold, the pool's totals are the sums of its positions, and a lead is ranked
\* once, whoever calls and whoever publishes.
THEOREM AgentKeepsBooks == AgentSpec => []AgentInv
  <1>1. AgentIInv => AgentInv
    <2> SUFFICES ASSUME AgentIInv PROVE AgentInv
      OBVIOUS
    <2>1. /\ KineticInv /\ HealthTypes /\ ScoringTypeOK /\ DriftInv
          /\ LeaderboardInv /\ CallsInv /\ PublishingInv
      BY DEF AgentIInv, HealthInv, PublishingInv, ScoringInv
    <2>2. HealthTypeOK
      BY <2>1 DEF KineticInv, HealthTypes, HealthTypeOK, CanarySteps
    <2>3. PublishingTypeOK
      BY <2>1 DEF PublishingTypeOK, PublishingInv, LeaderboardInv, CallsInv, Calls
    <2>4. RankedOnce
      BY <2>1 DEF LeaderboardInv, RankedOnce, Listed
    <2> QED
      BY <2>1, <2>2, <2>3, <2>4 DEF AgentInv, AgentTypeOK, KineticInv, DriftInv
  <1> QED
    BY <1>1, AgentInductive, PTL

\* At the deployed threshold no run of the canary puts its follower within reach of a
\* liquidation, at the price the canary sets: what it borrows is pledged by what it
\* has deposited before, unless a borrow took effect after a deposit that failed.
THEOREM CanaryPledged == AgentSpec => []CanaryStaysSafe
  <1>1. AgentIInv => CanaryStaysSafe
    BY PledgedIsSafe DEF AgentIInv, HealthInv, KineticInv
  <1> QED
    BY <1>1, AgentInductive, PTL

\* The alert file and the store have each sender's alerts in the order it sent them
\* and once, the file unless a recorder posts to itself; both hold at most KeptAlerts.
THEOREM FeedsKeepOrder == AgentSpec => []FeedsInOrder
  <1>1. AgentIInv => FeedsInOrder
    BY DEF AgentIInv, AlertFeedInv
  <1> QED
    BY <1>1, AgentInductive, PTL

\* The transaction under the nonce of a publisher that reports success was recorded, and
\* it is the publisher's own unless that one was outbid, however often the two publishers
\* read the same nonce; a canary that passed had both of its scores on the board or
\* outbid.
THEOREM SuccessWasRecorded == AgentSpec => []PublishedWereRecorded
  <1>1. AgentIInv => PublishedWereRecorded
    <2> SUFFICES ASSUME AgentIInv PROVE PublishedWereRecorded
      OBVIOUS
    <2>1. CallsInv /\ CanaryProgress
      BY DEF AgentIInv, PublishingInv
    <2>2. ASSUME NEW p \in Publishers, publishing[p].step = "published"
          PROVE  /\ Account!HasReceipt(PublisherKey, publishing[p].nonce)
                 /\ Event(HeldBy(publishing[p].nonce)) \in scoreEvents
                 /\ HeldBy(publishing[p].nonce) = publishing[p].tx \/ LostItsNonce(p, publishes[p])
      BY <2>1, <2>2 DEF CallsInv, OwnCall, Account!HasReceipt, Account!LatestCount
    <2> QED
      BY <2>1, <2>2 DEF PublishedWereRecorded, CanaryProgress, Done, HeldBy, Account!Holder
  <1> QED
    BY <1>1, AgentInductive, PTL

\* The drift monitor has alerted once for each lead and cycle since the switch, and
\* never before it.
THEOREM DriftAlertsComplete == AgentSpec => []DriftAlertedEachCycle
  <1>1. AgentIInv => DriftAlertedEachCycle
    BY DEF AgentIInv, DriftInv
  <1> QED
    BY <1>1, AgentInductive, PTL

\* A score is a percentage, nothing the agent answers depends on the order the events
\* of a lead arrived in, a lead of whom nothing new is heard never scores higher later,
\* and the drawdown found in one pass is the worst fall there is.
THEOREM AnswersStayConsistent == AgentSpec => []AnswersConsistent
  <1>1. AgentIInv => AnswersConsistent
    BY AnswersAreConsistent DEF AgentIInv, ScoringInv
  <1> QED
    BY <1>1, AgentInductive, PTL

=============================================================================
