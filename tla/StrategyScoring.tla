----------------------------- MODULE StrategyScoring -----------------------------
(***************************************************************************)
(* fce-ai-agent: classify.ts, drift.ts, scoring.ts and the fixtures of      *)
(* synthetic.ts.  Numbers between 0 and 1 are in hundredths; a return is a  *)
(* multiple of PnlUnit basis points and a timestamp a number of days.       *)
(* Square roots are compared by their squares.                              *)
(***************************************************************************)
EXTENDS Integers, Sequences, FiniteSets, FiniteSetsExt, TLC

CONSTANTS PnlUnit,        \* basis points of one unit of pnl
          ScoreWindow,    \* the 30 days of dataCompleteness
          ScoreTarget,    \* the 30 events that are full credit
          DriftThreshold, \* DRIFT_CONFIDENCE_THRESHOLD
          FixtureDays     \* the 30 days of a fixture

ASSUME ScoringAssumption ==
    /\ PnlUnit \in 1..10000
    /\ {ScoreWindow, DriftThreshold, FixtureDays} \subseteq Nat
    /\ ScoreTarget \in Nat \ {0}

\* OutcomeEvent: an event without a direction counts as BUY, one without a size as 0.
OutcomeEvent == [timestamp : Int, pnl : Int, direction : {"BUY", "SELL"}, sizePct : Nat]

Magnitude(x) == IF x < 0 THEN -x ELSE x

\* clamp01
Clamped(x) == IF x < 0 THEN 0 ELSE IF x > 100 THEN 100 ELSE x

\* Mutant: events are taken in the order they arrive.
AsArrived(events) == events

\* Array.prototype.sort is stable: events of one time stay in the order they arrive.
Earlier(events, i, j) ==
    \/ events[i].timestamp < events[j].timestamp
    \/ events[i].timestamp = events[j].timestamp /\ i < j

Place(events, i) == Cardinality({j \in DOMAIN events : Earlier(events, j, i)}) + 1

\* SubSeq makes TLC sort once and not at each use.
ByTimestamp(events) ==
    SubSeq([k \in DOMAIN events |-> events[CHOOSE i \in DOMAIN events : Place(events, i) = k]],
           1, Len(events))

-----------------------------------------------------------------------------
(* classify.ts *)

Sign(event) == IF event.direction = "SELL" THEN -1 ELSE 1

\* directionAutocorr as a fraction, both sides times n squared; den is 0 for a series
\* that is too short or all in one direction.
DirectionAutocorr(events) ==
    LET n      == Len(events)
        total  == SumFunction([i \in 1..n |-> Sign(events[i])])
        off(i) == n * Sign(events[i]) - total
    IN  IF n < 3 THEN [num |-> 0, den |-> 0]
        ELSE [num |-> SumFunction([i \in 2..n |-> off(i) * off(i - 1)]),
              den |-> SumFunction([i \in 1..n |-> off(i) * off(i)])]

\* The coefficient of variation of the positive sizes: its square as a fraction.
SizeCv2(events) ==
    LET sized == {i \in DOMAIN events : events[i].sizePct > 0}
        total == SumFunction([i \in sized |-> events[i].sizePct])
    IN  IF sized = {} THEN [num |-> 1, den |-> 1]
        ELSE [num |-> Cardinality(sized)
                        * SumFunction([i \in sized |-> events[i].sizePct * events[i].sizePct])
                        - total * total,
              den |-> total * total]

\* The largest hundredths below 1 - sqrt(num/den).
OneMinusRoot(fraction) ==
    LET fits == {k \in 0..100 :
                    (100 - k) * (100 - k) * fraction.den >= 10000 * fraction.num}
    IN  IF fits = {} THEN 0 ELSE Max(fits)

ClassifyLead(events) ==
    LET sorted == ByTimestamp(events)
        n      == Len(sorted)
        a      == DirectionAutocorr(sorted)
        pnl    == PnlUnit * SumFunction([i \in 1..n |-> Magnitude(sorted[i].pnl)])
        as(strategy, confidence) == [strategy |-> strategy, confidence |-> confidence]
    IN  CASE n >= 3 /\ \A i \in 1..n : Sign(sorted[i]) = Sign(sorted[1])
               -> as("momentum", 90)
          [] a.den > 0 /\ 4 * a.num >= a.den
               -> as("momentum", Clamped((100 * a.num) \div a.den))
          [] a.den > 0 /\ 100 * a.num <= -15 * a.den
               -> as("mean-reversion", Clamped((-100 * a.num) \div a.den))
          [] OTHER
               -> IF 16 * SizeCv2(sorted).num < SizeCv2(sorted).den /\ pnl < 80 * n /\ n >= 5
                  THEN as("yield-arb", OneMinusRoot(SizeCv2(sorted)))
                  ELSE as(IF n > 0 /\ pnl >= 100 * n THEN "momentum" ELSE "mean-reversion", 35)

StrategyTypeCode == [s \in {"momentum", "mean-reversion", "yield-arb"} |->
                        CASE s = "momentum" -> 0 [] s = "mean-reversion" -> 1 [] OTHER -> 2]

\* detectDrift
Drifted(baseline, events) ==
    LET c == ClassifyLead(events)
    IN  StrategyTypeCode[c.strategy] # baseline /\ c.confidence >= DriftThreshold

-----------------------------------------------------------------------------
(* scoring.ts *)

\* sharpeEquivalent over two, as normalizeSharpe has it; 365 periods a year.
NormalizedSharpe(returns) ==
    LET n      == Len(returns)
        total  == SumFunction(returns)
        spread == n * SumFunction([i \in 1..n |-> returns[i] * returns[i]]) - total * total
    IN  IF n < 2 \/ total <= 0 THEN 0
        ELSE IF spread = 0 THEN 100
        ELSE Max({k \in 0..100 : k * k * n * spread <= 912500 * total * total * (n - 1)})

Whole == 10000 \div PnlUnit

\* The power of Whole an equity of one starts from, so that it stays whole.
Scale(n) == LET power[i \in 0..n] == IF i = 0 THEN 1 ELSE power[i - 1] * Whole IN power[n]

\* Equity after each return.
Equity(returns) ==
    LET after[i \in 0..Len(returns)] ==
            IF i = 0 THEN Scale(Len(returns))
            ELSE (after[i - 1] * (Whole + returns[i])) \div Whole
    IN  after

\* The fall from one equity to another, in hundredths.
Fall(from, to) == IF from > 0 THEN (100 * (from - to)) \div from ELSE 0

\* maxDrawdown: one pass that keeps the peak and the largest fall from it.
DrawdownPass(returns) ==
    LET equity  == Equity(returns)
        pass[i \in 0..Len(returns)] ==
            IF i = 0 THEN [peak |-> equity[0], fall |-> 0]
            ELSE LET peak == Max({pass[i - 1].peak, equity[i]})
                 IN  [peak |-> peak, fall |-> Max({pass[i - 1].fall, Fall(peak, equity[i])})]
    IN  pass

MaxDrawdown(returns) == DrawdownPass(returns)[Len(returns)].fall

\* consistencyScore of timestamps in order
Consistency(times) ==
    LET n     == Len(times)
        gap(i) == times[i] - times[i - 1]
        gaps  == {i \in 2..n : gap(i) > 0}
        total == SumFunction([i \in gaps |-> gap(i)])
    IN  CASE n = 0 -> 0
          [] n \in {1, 2} -> 30
          [] n >= 3 /\ gaps = {} -> 0
          [] OTHER -> OneMinusRoot([num |-> Cardinality(gaps)
                                              * SumFunction([i \in gaps |-> gap(i) * gap(i)])
                                              - total * total,
                                    den |-> total * total])

DataCompleteness(events, now) ==
    Clamped((100 * Cardinality({i \in DOMAIN events : events[i].timestamp >= now - ScoreWindow}))
                \div ScoreTarget)

Returns(events) == LET sorted == ByTimestamp(events) IN [i \in DOMAIN events |-> sorted[i].pnl]

\* scoreLead: 40, 25, 20 and 15 parts of a hundred, rounded.
ScoreLead(events, now) ==
    LET sorted  == ByTimestamp(events)
        returns == Returns(events)
        times   == [i \in DOMAIN sorted |-> sorted[i].timestamp]
    IN  Clamped((40 * NormalizedSharpe(returns) + 25 * Clamped(100 - MaxDrawdown(returns))
                   + 20 * Consistency(times) + 15 * DataCompleteness(sorted, now) + 50) \div 100)

-----------------------------------------------------------------------------
(* synthetic.ts: a number of days up to now, each pnl rounded up to a unit. *)

SyntheticMomentumLead(now) ==
    [i \in 1..FixtureDays |-> [timestamp |-> now - (FixtureDays - i), pnl |-> 1,
                               direction |-> "BUY", sizePct |-> 1000]]

SyntheticMeanRevLead(now) ==
    [i \in 1..FixtureDays |->
        [timestamp |-> now - (FixtureDays - i), pnl |-> IF i % 2 = 1 THEN 1 ELSE -1,
         direction |-> IF i % 2 = 1 THEN "BUY" ELSE "SELL", sizePct |-> 300 + ((i - 1) % 11) * 250]]

=============================================================================
