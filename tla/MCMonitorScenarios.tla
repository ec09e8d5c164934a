--------------------------- MODULE MCMonitorScenarios ---------------------------
(* The XRPL monitor in two scenarios, under bounds of their own. *)
EXTENDS MCXrplMonitor

VARIABLE scenario

scenarioVars == <<vars, scenario>>

\* Two payments queue for the gate; nobody else uses the keys.
Gate == INSTANCE XrplMonitor WITH BusyKeys <- {}, Durable <- TRUE, MaxCrashes <- 1,
                                  MaxCalls <- [p \in Payments |-> IF p = p1 THEN 2 ELSE 1]

\* One payment is retried, on Cloud Run, while others use the deployer's key.
Retry == INSTANCE XrplMonitor WITH BusyKeys <- {deployer}, Durable <- FALSE, MaxCrashes <- 2,
                                   MaxCalls <- [p \in Payments |-> IF p = p1 THEN 2 ELSE 0]

ScenarioInit == Init /\ scenario \in {"gate", "retry"}

ScenarioNext ==
    /\ UNCHANGED scenario
    /\ \/ scenario = "gate" /\ Gate!Next
       \/ scenario = "retry" /\ Retry!Next

ScenarioSpec ==
    /\ ScenarioInit
    /\ [][ScenarioNext]_scenarioVars
    /\ \A p \in Payments : WF_scenarioVars(RunStep(p) /\ UNCHANGED scenario)

=============================================================================
