------------------------------ MODULE AgentScoring ------------------------------
(***************************************************************************)
(* fce-ai-agent handlers.ts: SCORE_V1 and the two greetings, one request    *)
(* at a time behind the mutex of base/server.ts.  The matching engine's     *)
(* private log is read over HTTP while SCORE_V1 waits, and grows meanwhile. *)
(***************************************************************************)
EXTENDS StrategyScoring

CONSTANTS ScoredLeads,
          EventLists,   \* events a caller sends along
          Outcomes,     \* what a match may add to the log: all but the time
          FirstDay,     \* days since the fixtures
          MaxOutcomes,  \* bound: events of a lead in the log
          MaxDays,      \* bound: the clock
          MaxRequests   \* bound: requests

ASSUME AgentScoringAssumption ==
    /\ {FirstDay, MaxOutcomes, MaxDays, MaxRequests} \subseteq Nat
    /\ EventLists \subseteq Seq(OutcomeEvent)
    /\ Outcomes \subseteq [pnl : Int, direction : {"BUY", "SELL"}, sizePct : Nat]

VARIABLES today,
          outcomes,     \* /internal/outcome-log of the matching engine
          request,      \* the request the mutex lets in, and what it has read
          requests,     \* requests so far
          greetings,    \* greetingCount and farewellCount
          lastScoreRun,
          answers       \* the answers to SCORE_V1 so far

scoringVars == <<today, outcomes, request, requests, greetings, lastScoreRun, answers>>

NoRequest == [stage |-> "none"]
NoRun == [lead |-> "none"]

\* LastScoreRun keeps these fields of an answer.
RunOf(answer) == [f \in {"lead", "score", "strategy", "drifted"} |-> answer[f]]

ScoringTypeOK ==
    /\ {today, requests} \subseteq Nat
    /\ greetings \in [{"hello", "goodbye"} -> Nat]
    /\ request.stage \in {"none", "fetching", "scoring"}
    /\ \A a \in answers : a.strategy \in DOMAIN StrategyTypeCode
    /\ lastScoreRun \in {NoRun} \cup {RunOf(a) : a \in answers}

ScoringInit ==
    /\ today = FirstDay
    /\ outcomes = [l \in ScoredLeads |-> <<>>]
    /\ request = NoRequest
    /\ requests = 0
    /\ greetings = [g \in {"hello", "goodbye"} |-> 0]
    /\ lastScoreRun = NoRun
    /\ answers = {}

\* A request with a handler passes handleRequest and processAction, and serialize lets
\* it in once the one before it is answered or has thrown.  What no handler is found
\* for, and a read of the state, changes nothing.
Arrives ==
    /\ request = NoRequest
    /\ requests < MaxRequests
    /\ requests' = requests + 1

\* handleSayHello and handleSayGoodbye: a request that does not decode, or names
\* nobody, is answered with status 0 and counts nothing.
Greet(g) ==
    /\ Arrives
    /\ greetings' = [greetings EXCEPT ![g] = @ + 1]
    /\ UNCHANGED <<today, outcomes, request, lastScoreRun, answers>>

\* A fixture wins over events, and both over the log.
ScoreV1Starts(lead, baseline) ==
    /\ Arrives
    /\ \/ \E events \in {SyntheticMomentumLead(0), SyntheticMeanRevLead(0)} \cup EventLists :
             request' = [stage |-> "scoring", lead |-> lead, baseline |-> baseline, events |-> events]
       \/ request' = [stage |-> "fetching", lead |-> lead, baseline |-> baseline]
    /\ UNCHANGED <<today, outcomes, greetings, lastScoreRun, answers>>

FetchOutcomeLog ==
    /\ request.stage = "fetching"
    /\ request' = [stage |-> "scoring", lead |-> request.lead, baseline |-> request.baseline,
                   events |-> outcomes[request.lead]]
    /\ UNCHANGED <<today, outcomes, requests, greetings, lastScoreRun, answers>>

\* The log is not configured, refuses the token or does not answer.
FetchFails ==
    /\ request.stage = "fetching"
    /\ request' = NoRequest
    /\ UNCHANGED <<today, outcomes, requests, greetings, lastScoreRun, answers>>

\* Without events the answer is an error and the last run stays.
ScoreV1Answers ==
    /\ request.stage = "scoring"
    /\ request' = NoRequest
    /\ IF request.events = <<>> THEN UNCHANGED <<lastScoreRun, answers>>
       ELSE LET c      == ClassifyLead(request.events)
                answer == [lead |-> request.lead, score |-> ScoreLead(request.events, today),
                           strategy |-> c.strategy,
                           drifted |-> Drifted(request.baseline, request.events),
                           events |-> request.events, day |-> today, baseline |-> request.baseline,
                           maxDrawdown |-> MaxDrawdown(Returns(request.events))]
            IN  lastScoreRun' = RunOf(answer) /\ answers' = answers \cup {answer}
    /\ UNCHANGED <<today, outcomes, requests, greetings>>

\* A match of the matching engine, while SCORE_V1 waits for the log or not.
Outcome(lead, outcome) ==
    /\ Len(outcomes[lead]) < MaxOutcomes
    /\ outcomes' = [outcomes EXCEPT ![lead] =
                        Append(@, [timestamp |-> today, pnl |-> outcome.pnl,
                                   direction |-> outcome.direction, sizePct |-> outcome.sizePct])]
    /\ UNCHANGED <<today, request, requests, greetings, lastScoreRun, answers>>

NextDay ==
    /\ today < MaxDays
    /\ today' = today + 1
    /\ UNCHANGED <<outcomes, request, requests, greetings, lastScoreRun, answers>>

ScoringNext ==
    \/ \E g \in {"hello", "goodbye"} : Greet(g)
    \/ \E l \in ScoredLeads, baseline \in {0, 1} : ScoreV1Starts(l, baseline)
    \/ FetchOutcomeLog \/ FetchFails \/ ScoreV1Answers
    \/ \E l \in ScoredLeads, o \in Outcomes : Outcome(l, o)
    \/ NextDay

-----------------------------------------------------------------------------
(* Properties. *)

\* The same events in any order, but for those of one time, which come in the same one.
Rearranged(a, b) ==
    /\ Len(a) = Len(b) /\ Range(a) = Range(b)
    /\ \E p \in [DOMAIN a -> DOMAIN a] :
          \A i, j \in DOMAIN a :
             /\ a[i] = b[p[i]]
             /\ a[i].timestamp = a[j].timestamp /\ i < j => p[i] < p[j]

\* ScoreResult's uint8 score
ScoresInRange == \A a \in answers : a.score \in 0..100

\* The same events make the same strategy, drift and, on the same day, the same score
\* in whatever order they are sent.
AnswersIgnoreOrder ==
    \A a, b \in answers :
       Rearranged(a.events, b.events) =>
          /\ a.strategy = b.strategy
          /\ a.baseline = b.baseline => a.drifted = b.drifted
          /\ a.day = b.day => a.score = b.score

\* A lead of whom nothing new is heard only falls: the same events never score
\* higher on a later day.
ScoresFade ==
    \A a, b \in answers :
       Rearranged(a.events, b.events) /\ a.day <= b.day => a.score >= b.score

\* Nobody loses more than there is.
Solvent(returns) == \A i \in DOMAIN returns : Whole + returns[i] >= 0

\* The drawdown maxDrawdown finds in one pass is the worst fall from any point of the
\* equity to any later one.
DrawdownIsWorstFall ==
    \A a \in answers :
       LET equity == Equity(Returns(a.events))
           falls  == {p \in (DOMAIN equity) \X (DOMAIN equity) : p[1] <= p[2]}
       IN  Solvent(Returns(a.events)) =>
             a.maxDrawdown = Max({Fall(equity[p[1]], equity[p[2]]) : p \in falls})

\* What the agent answers of a lead depends on what the lead did and on how long ago,
\* not on the order it heard of it, and its one pass over the equity misses no fall.
AnswersConsistent == ScoresInRange /\ AnswersIgnoreOrder /\ ScoresFade /\ DrawdownIsWorstFall

=============================================================================
