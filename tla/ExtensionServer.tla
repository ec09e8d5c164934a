----------------------------- MODULE ExtensionServer -----------------------------
(***************************************************************************)
(* fce-matching-engine/typescript: the extension's HTTP server (base/),    *)
(* its handlers (app/handlers.ts) and the outcome log (app/outcomeLog.ts). *)
(* Actions and state reads go one after the other through a promise chain; *)
(* a match waits for the tee-node and for price feeds on the way.          *)
(***************************************************************************)
EXTENDS Naturals, Sequences, FiniteSets

CONSTANTS Requests,
          Kind,        \* request -> what it asks for
          Rejecting,   \* requests whose handler may throw
          MAX_ENTRIES, \* of the outcome log (10000 in the code)
          MaxStops     \* bound: signals from outside

\* "immediate" requests are answered outside the chain: malformed and unsupported
\* ones, /health and /internal/outcome-log.
Kinds == {"hello", "goodbye", "match", "topup", "state", "immediate"}
Counted == {"hello", "goodbye"}

ASSUME ServerAssumption ==
    /\ Kind \in [Requests -> Kinds]
    /\ \A r \in Rejecting : r \in Requests /\ Kind[r] \in {"match", "topup"}
    /\ MAX_ENTRIES \in Nat \ {0}
    /\ MaxStops \in Nat

VARIABLES process,  \* "up", "closing", "dying" once a rejection went unhandled, or "down"
          phase,    \* of each request
          queue,    \* requests on the chain, the head is the one that runs
          counts,   \* greetingCount and farewellCount
          outcomes, \* the outcome log, by the match that appended
          answer,   \* the number a greeting, a farewell or a state read answers
          stops,
          arrived,  \* history: requests put on the chain since the process started
          matched,  \* history: matches that appended since then, oldest first
          failed    \* history: greetings refused by validation since then

memory  == <<counts, outcomes>>
history == <<arrived, matched, failed>>
vars    == <<process, phase, queue, memory, answer, stops, history>>

Phases == {"new", "queued", "running", "answered", "lost"}

TypeOK ==
    /\ process \in {"up", "closing", "dying", "down"}
    /\ phase \in [Requests -> Phases]
    /\ queue \in Seq(Requests)
    /\ \A r \in Requests :
          phase[r] \in {"queued", "running"} <=> \E i \in 1..Len(queue) : queue[i] = r
    /\ counts \in [Counted -> Nat]
    /\ outcomes \in Seq(Requests)
    /\ answer \in [Requests -> [Counted -> Nat]]
    /\ stops \in Nat
    /\ arrived \in Seq(Requests)
    /\ matched \in Seq(Requests)
    /\ failed \in SUBSET Requests

NoCounts == [c \in Counted |-> 0]

Init ==
    /\ process = "up"
    /\ phase = [r \in Requests |-> "new"]
    /\ queue = <<>>
    /\ counts = NoCounts
    /\ outcomes = <<>>
    /\ answer = [r \in Requests |-> NoCounts]
    /\ stops = 0
    /\ arrived = <<>>
    /\ matched = <<>>
    /\ failed = {}

Goto(r, p) == phase' = [phase EXCEPT ![r] = p]

\* serve, handleRequest, processAction and processState, up to the chain.  What is
\* malformed, has no handler or asks for the health or the outcome log is answered at once.
Arrive(r) ==
    /\ process = "up" /\ phase[r] = "new"
    /\ \/ Kind[r] = "immediate" /\ Goto(r, "answered") /\ UNCHANGED <<queue, arrived>>
       \/ /\ Kind[r] # "immediate"
          /\ Goto(r, "queued")
          /\ queue' = Append(queue, r)
          /\ arrived' = Append(arrived, r)
    /\ UNCHANGED <<process, memory, answer, stops, matched, failed>>

-----------------------------------------------------------------------------
(* serialize *)

\* Mutant: whatever is on the chain runs at once.
AnyTurn(r) == phase[r] = "queued"

\* A handler runs once everything before it has settled, also when it rejected.
Turn(r) == phase[r] = "queued" /\ r = queue[1]

\* Mutant: the chain is not advanced.
StayOnChain == UNCHANGED queue

\* What ran has settled: the chain's head goes.
LeaveChain == queue' = Tail(queue)

\* Mutant: the count goes up before the name is validated.
RunSyncCountingFirst(r) ==
    /\ process # "down" /\ Turn(r) /\ Kind[r] # "match"
    /\ Goto(r, "answered")
    /\ LeaveChain
    /\ \/ /\ Kind[r] \in Counted
          /\ counts' = [counts EXCEPT ![Kind[r]] = @ + 1]
          /\ answer' = [answer EXCEPT ![r] = counts']
          /\ UNCHANGED failed
       \/ /\ Kind[r] \in Counted
          /\ counts' = [counts EXCEPT ![Kind[r]] = @ + 1]
          /\ failed' = failed \cup {r}
          /\ UNCHANGED answer
       \/ /\ Kind[r] = "state"
          /\ answer' = [answer EXCEPT ![r] = counts]
          /\ UNCHANGED <<counts, failed>>
       \/ Kind[r] = "topup" /\ UNCHANGED <<counts, answer, failed>>
    /\ UNCHANGED <<process, outcomes, stops, arrived, matched>>

\* A handler that awaits nothing runs in one go, and so does a state read.
RunSync(r) ==
    /\ process # "down" /\ Turn(r) /\ Kind[r] # "match"
    /\ Goto(r, "answered")
    /\ LeaveChain
    /\ \/ /\ Kind[r] \in Counted
          /\ counts' = [counts EXCEPT ![Kind[r]] = @ + 1]
          /\ answer' = [answer EXCEPT ![r] = counts']
          /\ UNCHANGED failed
       \/ /\ Kind[r] \in Counted     \* status 0: the name is missing
          /\ failed' = failed \cup {r}
          /\ UNCHANGED <<counts, answer>>
       \/ /\ Kind[r] = "state"
          /\ answer' = [answer EXCEPT ![r] = counts]
          /\ UNCHANGED <<counts, failed>>
       \/ Kind[r] = "topup" /\ UNCHANGED <<counts, answer, failed>>
    /\ UNCHANGED <<process, outcomes, stops, arrived, matched>>

\* handleMirrorMatchStageB up to its first await.
StartMatch(r) ==
    /\ process # "down" /\ Turn(r) /\ Kind[r] = "match"
    /\ Goto(r, "running")
    /\ UNCHANGED <<process, queue, memory, answer, stops, history>>

\* Mutant: the log drops its newest entries.
AppendDroppingNewest(log, r) ==
    IF Len(log) < MAX_ENTRIES THEN Append(log, r) ELSE log

AppendOutcome(log, r) ==
    LET longer == Append(log, r)
        excess == Len(longer) - MAX_ENTRIES
    IN  IF Len(longer) > MAX_ENTRIES THEN SubSeq(longer, excess + 1, Len(longer)) ELSE longer

\* The last await has settled: instructions are returned, or status 0.
FinishMatch(r) ==
    /\ process \in {"up", "closing"} /\ phase[r] = "running"
    /\ Goto(r, "answered")
    /\ LeaveChain
    /\ \/ outcomes' = AppendOutcome(outcomes, r) /\ matched' = Append(matched, r)
       \/ UNCHANGED <<outcomes, matched>>
    /\ UNCHANGED <<process, counts, answer, stops, arrived, failed>>

\* A feed read that fails, or a top-up amount that is no integer.  serve is not
\* awaited and nothing catches what it rejects with, so Node ends the process.
HandlerRejected(r) ==
    /\ r \in Rejecting
    /\ \/ process \in {"up", "closing"} /\ phase[r] = "running"
       \/ process # "down" /\ Turn(r) /\ Kind[r] = "topup"
    /\ process' = "dying"
    /\ Goto(r, "lost")
    /\ LeaveChain
    /\ UNCHANGED <<memory, answer, stops, history>>

-----------------------------------------------------------------------------
(* The process ends and is started again. *)

EndProcess ==
    /\ process' = "down"
    /\ phase' = [r \in Requests |->
                    IF phase[r] \in {"queued", "running"} THEN "lost" ELSE phase[r]]
    /\ queue' = <<>>
    /\ counts' = NoCounts
    /\ outcomes' = <<>>
    /\ answer' = [r \in Requests |-> NoCounts]
    /\ arrived' = <<>>
    /\ matched' = <<>>
    /\ failed' = {}

\* The microtasks drain first: what is on the chain runs up to its first await.
Die ==
    /\ process = "dying"
    /\ \A r \in Requests : ~Turn(r)
    /\ EndProcess
    /\ UNCHANGED stops

Signal ==
    /\ stops < MaxStops
    /\ stops' = stops + 1

\* SIGTERM and SIGINT: nothing new is accepted.
Shutdown ==
    /\ process = "up"
    /\ Signal
    /\ process' = "closing"
    /\ UNCHANGED <<phase, queue, memory, answer, history>>

\* close resolves once the last request has been answered.
Exit ==
    /\ process = "closing" /\ queue = <<>>
    /\ EndProcess
    /\ UNCHANGED stops

\* The container is killed.
Kill ==
    /\ process # "down"
    /\ Signal
    /\ EndProcess

Restart ==
    /\ process = "down"
    /\ process' = "up"
    /\ UNCHANGED <<phase, queue, memory, answer, stops, history>>

Handle(r) == RunSync(r) \/ StartMatch(r) \/ FinishMatch(r) \/ HandlerRejected(r)

Next ==
    \/ \E r \in Requests : Arrive(r) \/ Handle(r)
    \/ Die \/ Shutdown \/ Exit \/ Kill \/ Restart

Spec == Init /\ [][Next]_vars

\* The event loop runs what is ready; decrypt and the feed reads time out.
Fairness == WF_vars(\E r \in Requests : Handle(r)) /\ WF_vars(Die)

FairSpec == Spec /\ Fairness

-----------------------------------------------------------------------------
(* Properties. *)

\* Contract section 5: at most one handler runs, and a state read does not overtake
\* one.  Whatever is answered arrived before everything that still waits.
HandlersSerialized ==
    \A i, j \in 1..Len(arrived) :
        i < j /\ phase[arrived[j]] \in {"running", "answered"}
            => phase[arrived[i]] \in {"answered", "lost"}

\* The number a greeting, a farewell or a state read answers with counts what
\* arrived up to it since the process started, refused ones left out: no match in
\* between, however slow, makes a later request overtake an earlier one.
AnswersInOrder ==
    \A j \in 1..Len(arrived) :
        LET r == arrived[j]
            Upto(c) == {i \in 1..j : Kind[arrived[i]] = c /\ arrived[i] \notin failed}
            asked == IF Kind[r] = "state" THEN Counted ELSE {Kind[r]} \cap Counted
        IN  phase[r] = "answered" /\ r \notin failed =>
                \A c \in asked : answer[r][c] = Cardinality(Upto(c))

\* The outcome log holds the most recent matches, in the order of their arrival.
LogKeepsLatest ==
    /\ Len(outcomes) <= MAX_ENTRIES
    /\ \E k \in 0..Len(matched) : outcomes = SubSeq(matched, k + 1, Len(matched))
    /\ Len(outcomes) < MAX_ENTRIES => outcomes = matched
    /\ \A i, j \in 1..Len(outcomes) : i < j =>
          \E x, y \in 1..Len(arrived) :
             x < y /\ arrived[x] = outcomes[i] /\ arrived[y] = outcomes[j]

\* No request waits forever: it is answered, or its process ends.
RequestsSettle ==
    \A r \in Requests :
        phase[r] \in {"queued", "running"} ~> phase[r] \in {"answered", "lost"}

\* The test on serialization: a rejected handler does not keep the requests behind
\* it from their answers.
OthersAnswered ==
    \A r \in Requests \ Rejecting : phase[r] = "queued" ~> phase[r] = "answered"

=============================================================================
