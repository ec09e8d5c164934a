------------------------------- MODULE AgentDuties -------------------------------
(***************************************************************************)
(* What the AI agent is for: watching positions and topping them up, scoring *)
(* leads, publishing scores and watching for drift.  A behaviour is about   *)
(* one duty; they share the alert feed, which two processes of the first    *)
(* and two of the last write.                                               *)
(***************************************************************************)
EXTENDS HealthTopUp, AgentScoring, ScorePublishing, DriftWatch

CONSTANTS Duties,
          SinkOf  \* bound: where the alerts of a duty may be posted

ASSUME DutyAssumption ==
    /\ Duties \subseteq {"health", "score", "publish", "drift"}
    /\ SinkOf \in [Duties -> SUBSET Sinks]

VARIABLE duty

healthDuty  == <<kineticVars, healthVars>>
agentVars == <<duty, alertVars, healthDuty, scoringVars, publishingVars, driftVars>>

AgentInit ==
    /\ duty \in Duties
    /\ HealthInit
    /\ ScoringInit
    /\ PublishingInit
    /\ DriftInit
    /\ sink \in SinkOf[duty]

AgentNext ==
    /\ UNCHANGED duty
    /\ \/ /\ duty = "health"
          /\ HealthNext
          /\ UNCHANGED <<scoringVars, publishingVars, driftVars>>
       \/ /\ duty = "score"
          /\ ScoringNext
          /\ UNCHANGED <<alertVars, healthDuty, publishingVars, driftVars>>
       \/ /\ duty = "publish"
          /\ PublishingNext
          /\ UNCHANGED <<alertVars, healthDuty, scoringVars, driftVars>>
       \/ /\ duty = "drift"
          /\ DriftNext \/ (AlertNext /\ UNCHANGED driftVars)
          /\ UNCHANGED <<healthDuty, scoringVars, publishingVars>>

\* A node answers reads and mines what it is sent, and a fetch settles: while any of
\* these is due, one of them happens.  Nothing makes anybody start a canary, and the
\* others owe nobody a call.
Due ==
    /\ duty = "health"
    /\ \/ CanaryStep /\ UNCHANGED <<monitorCycle, deposited, unbacked>>
       \/ Mine \/ MinePrice
       \/ (\E p \in Alerters : FetchSettles(p)) /\ UNCHANGED healthDuty
    /\ UNCHANGED <<duty, scoringVars, publishingVars, driftVars>>

AgentSpec == AgentInit /\ [][AgentNext]_agentVars /\ WF_agentVars(Due)

AgentTypeOK == HealthTypeOK /\ ScoringTypeOK /\ PublishingTypeOK /\ DriftTypeOK

\* The contracts that the agent's processes share keep their books: the pool's totals
\* are the sums of its positions through canaries, top-ups and liquidations, and a
\* lead is ranked once, whoever publishes its scores.
AgentInv ==
    /\ AgentTypeOK
    /\ KineticBooksBalance
    /\ RankedOnce

=============================================================================
