------------------------------- MODULE DriftWatch -------------------------------
(***************************************************************************)
(* scripts/ai-agent: drift-monitor.ts and drift-canary.ts.  Both classify   *)
(* synthetic events against the baseline momentum and alert when a lead has *)
(* drifted; each alert is posted before the next lead is looked at.         *)
(***************************************************************************)
EXTENDS StrategyScoring, AlertFeed

CONSTANTS WatchedLeads, \* the leads of one cycle, a sequence
          InjectAt,     \* DRIFT_MONITOR_INJECT_AT: the first cycle of the switch
          DriftCycles,  \* DRIFT_MONITOR_CYCLES
          StableCycles  \* the 50 cycles of the canary before its switch

\* The monitor has its leads in an array of two.
ASSUME DriftAssumption ==
    /\ {InjectAt, DriftCycles, StableCycles} \subseteq Nat
    /\ Len(WatchedLeads) \in Nat \ {0}
    /\ {"driftMonitor", "driftCanary"} \subseteq Alerters

\* A fixture is long enough for an autocorrelation, and the threshold is one that days
\* which alternate reach; that of 30 days is 96 hundredths.
ASSUME FixtureAssumption ==
    /\ FixtureDays >= 3
    /\ DriftThreshold <= (100 * (FixtureDays - 1)) \div FixtureDays

VARIABLES watch,      \* cycle of the monitor and the lead it looks at
          driftRuns   \* the canary: "idle", "ok" or "failed"

driftVars == <<watch, driftRuns>>

DriftTypeOK ==
    /\ watch \in [cycle : 0..DriftCycles, lead : 1..Len(WatchedLeads)]
    /\ driftRuns \in {"idle", "alerting", "ok", "failed"}

DriftInit ==
    /\ watch = [cycle |-> 0, lead |-> 1]
    /\ driftRuns = "idle"

\* Mutant: the switch comes a cycle late.
EventsSwitchedLate(cycle) ==
    IF cycle > InjectAt THEN SyntheticMeanRevLead(0) ELSE SyntheticMomentumLead(cycle)

EventsOfCycle(cycle) ==
    IF cycle >= InjectAt THEN SyntheticMeanRevLead(0) ELSE SyntheticMomentumLead(cycle)

\* One lead of one cycle.
WatchLead ==
    /\ watch.cycle < DriftCycles
    /\ Sent("driftMonitor")
    /\ watch' = IF watch.lead = Len(WatchedLeads) THEN [cycle |-> watch.cycle + 1, lead |-> 1]
                ELSE [watch EXCEPT !.lead = @ + 1]
    /\ IF Drifted(0, EventsOfCycle(watch.cycle))
       THEN SendAlert("driftMonitor", WatchedLeads[watch.lead])
       ELSE UNCHANGED alertVars
    /\ UNCHANGED driftRuns

\* Stable cycles must raise no flag and the switch must; then it alerts, and ends
\* when the alert is posted.
RunDriftCanary ==
    \/ /\ driftRuns = "idle"
       /\ IF /\ \A c \in 1..StableCycles : ~Drifted(0, SyntheticMomentumLead(c - 1))
             /\ Drifted(0, SyntheticMeanRevLead(0))
          THEN SendAlert("driftCanary", "injected") /\ driftRuns' = "alerting"
          ELSE driftRuns' = "failed" /\ UNCHANGED alertVars
       /\ UNCHANGED watch
    \/ /\ driftRuns = "alerting"
       /\ Sent("driftCanary")
       /\ driftRuns' = "ok"
       /\ UNCHANGED <<alertVars, watch>>

DriftNext == WatchLead \/ RunDriftCanary

-----------------------------------------------------------------------------
(* Properties. *)

\* Every cycle since the switch has alerted for each lead once, in turn, and no cycle
\* before it for any, whatever became of the posts.
DriftAlertedEachCycle ==
    LET list    == told["driftMonitor"]
        n       == Len(WatchedLeads)
        drifting == IF watch.cycle < InjectAt THEN 0
                    ELSE (watch.cycle - InjectAt) * n + watch.lead - 1
    IN  /\ Len(list) = drifting
        /\ \A i \in DOMAIN list : list[i] = WatchedLeads[((i - 1) % n) + 1]

=============================================================================
