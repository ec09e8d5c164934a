-------------------------------- MODULE AlertFeed --------------------------------
(***************************************************************************)
(* scripts/ai-agent/alert-webhook.ts and frontend/src/app/api/alerts:       *)
(* every process that alerts keeps its own list, writes the end of it over  *)
(* latest.json, and posts the alert, best effort, to the frontend's store   *)
(* or to the recorder.  The recorder is one more such process: when it has  *)
(* the webhook's URL too, as it has from the one .env, it posts every alert *)
(* it gets to itself.                                                       *)
(***************************************************************************)
EXTENDS Naturals, SequencesExt

CONSTANTS Alerters,   \* processes that call sendAlert
          Sinks,      \* where MIRROR_ALERT_WEBHOOK_URL may point
          KeptAlerts  \* 50: how many of the last alerts are kept

\* "recorder" is the recorder's URL in the environment of the alerters alone, "echo"
\* the same in the recorder's environment, too.
ASSUME AlertAssumption ==
    /\ Sinks \subseteq {"store", "recorder", "echo", "unset"}
    /\ KeptAlerts \in Nat
    /\ "recorder" \notin Alerters

VARIABLES sink,
          alerts,     \* what of each process's list is ever read: the end of it
          latestFile, \* latest.json
          posting,    \* the alert whose fetch each process awaits, or NoAlert
          received,   \* processes whose alert the sink has and that still await the answer
          echoes,     \* alerts on their way from the recorder to itself
          store,      \* g.__mirrorAlerts
          told        \* history: what each alerter has alerted of

alertVars == <<sink, alerts, latestFile, posting, received, echoes, store, told>>

Processes == Alerters \cup {"recorder"}

NoAlert == [from |-> "none"]

AlertInit ==
    /\ sink \in Sinks
    /\ alerts = [p \in Processes |-> <<>>]
    /\ latestFile = <<>>
    /\ posting = [p \in Alerters |-> NoAlert]
    /\ received = {}
    /\ echoes = {}
    /\ store = <<>>
    /\ told = [p \in Alerters |-> <<>>]

\* slice(-50)
LastOnes(list) == SubSeq(list, IF Len(list) > KeptAlerts THEN Len(list) - KeptAlerts + 1 ELSE 1, Len(list))

\* Mutant: newest first.
KeepNewestFirst(p, alert) ==
    /\ alerts' = [alerts EXCEPT ![p] = LastOnes(<<alert>> \o @)]
    /\ latestFile' = LastOnes(<<alert>> \o alerts[p])

\* What sendAlert does before it posts, in whichever process.
Keep(p, alert) ==
    /\ alerts' = [alerts EXCEPT ![p] = LastOnes(Append(@, alert))]
    /\ latestFile' = LastOnes(Append(alerts[p], alert))

SendAlert(p, type) ==
    LET alert == [from |-> p, n |-> Len(told[p]), type |-> type]
    IN  /\ posting[p] = NoAlert
        /\ Keep(p, alert)
        /\ posting' = [posting EXCEPT ![p] = IF sink = "unset" THEN NoAlert ELSE alert]
        /\ told' = [told EXCEPT ![p] = Append(@, type)]
        /\ UNCHANGED <<sink, received, echoes, store>>

\* A new process of an alerter, whose list is empty.
AlerterStarts(p) ==
    /\ posting[p] = NoAlert
    /\ alerts' = [alerts EXCEPT ![p] = <<>>]
    /\ UNCHANGED <<sink, latestFile, posting, received, echoes, store, told>>

\* The recorder handles POST /alert with sendAlert of its own, which posts to
\* itself when it knows the URL.
RecorderKeeps(alert) ==
    /\ sink \in {"recorder", "echo"}
    /\ Keep("recorder", alert)
    /\ echoes' = IF sink = "echo" THEN echoes \cup {alert} ELSE echoes
    /\ UNCHANGED <<sink, store>>

\* POST of the frontend's route
StoreKeeps(alert) ==
    /\ sink = "store"
    /\ store' = LastOnes(Append(store, alert))
    /\ UNCHANGED <<sink, alerts, latestFile, echoes>>

Deliver(p) ==
    /\ posting[p] # NoAlert /\ p \notin received
    /\ received' = received \cup {p}
    /\ RecorderKeeps(posting[p]) \/ StoreKeeps(posting[p])
    /\ UNCHANGED <<posting, told>>

\* The fetch resolves, or fails with the alert delivered or not; either way the
\* process goes on.
FetchSettles(p) ==
    /\ posting[p] # NoAlert
    /\ posting' = [posting EXCEPT ![p] = NoAlert]
    /\ received' = received \ {p}
    /\ UNCHANGED <<sink, alerts, latestFile, echoes, store, told>>

\* What the recorder posts to itself arrives and is posted again, or its fetch fails.
Echo ==
    /\ \E alert \in echoes :
          \/ RecorderKeeps(alert)
          \/ echoes' = echoes \ {alert} /\ UNCHANGED <<sink, alerts, latestFile, store>>
    /\ UNCHANGED <<posting, received, told>>

\* A cold start of the frontend, and a body the recorder cannot parse: it throws in
\* a callback, and the restarted process knows nothing.
ColdStart ==
    /\ \/ /\ sink = "store"
          /\ store' = <<>>
          /\ UNCHANGED <<alerts, echoes>>
       \/ /\ sink \in {"recorder", "echo"}
          /\ alerts' = [alerts EXCEPT !["recorder"] = <<>>]
          /\ echoes' = {}
          /\ UNCHANGED store
    /\ UNCHANGED <<sink, latestFile, posting, received, told>>

AlertNext ==
    \/ \E p \in Alerters : Deliver(p) \/ FetchSettles(p)
    \/ Echo \/ ColdStart

Sent(p) == posting[p] = NoAlert

-----------------------------------------------------------------------------
(* Properties. *)

InSendersOrder(list) ==
    \A i, j \in DOMAIN list : i < j /\ list[i].from = list[j].from => list[i].n < list[j].n

\* The file and the store hold at most KeptAlerts alerts, and those of one sender in the
\* order it sent them and once each, though several processes write the one file,
\* are started again, lose posts, and both stores forget.  A recorder that posts to
\* itself repeats what is in the file, so there only the bound is left.
FeedsInOrder ==
    /\ Len(latestFile) <= KeptAlerts /\ Len(store) <= KeptAlerts
    /\ InSendersOrder(store)
    /\ sink # "echo" => InSendersOrder(latestFile)

=============================================================================
