----------------------------- MODULE ScorePublishing -----------------------------
(***************************************************************************)
(* scripts/ai-agent: publish-scores.ts, run by hand or by score-canary.ts,  *)
(* sends updateScore from the account of the AI agent's signer and waits    *)
(* for the receipt.  Both ways read the account's nonce and send later, so  *)
(* they may collide.  The owner may name another signer meanwhile.          *)
(***************************************************************************)
EXTENDS MirrorLeaderboard

CONSTANTS PublisherKey,     \* the account of PERSONA_AI_AGENT_SIGNER_PRIVATE_KEY
          PublishedScores,  \* scores a run of the command line is given
          CanaryLead1, CanaryLead2,
          CanaryScores,     \* scores of the two fixtures
          LiveId, DerivedId, \* attestation ids of a canary
          MaxPublishes,     \* bound: runs of the command line
          MaxScoreCanaries  \* bound: runs of the canary

ASSUME PublishingAssumption ==
    /\ PublisherKey \in Signers
    /\ {CanaryLead1, CanaryLead2} \subseteq LeadAddresses
    /\ {LiveId, DerivedId} \subseteq Attestations
    /\ PublishedScores \cup CanaryScores \subseteq 0..255
    /\ {MaxPublishes, MaxScoreCanaries} \subseteq Nat

VARIABLES publishing,  \* the last publishScore of each publisher
          publishes,   \* how often each has called it
          scoreTxs, scoresMined, scoresReverted, scoresReplaced, \* PublisherKey's account
          registered,  \* leads of MirrorRegistry
          scoreCanary, \* the step of the canary
          readId,      \* the attestation id it has read of its first lead
          scoreCanaries

accountVars  == <<scoreTxs, scoresMined, scoresReverted, scoresReplaced>>
canaryVars   == <<registered, scoreCanary, readId, scoreCanaries>>
publishingVars == <<leaderboardVars, publishing, publishes, accountVars, canaryVars>>

Publishers == {"cli", "canary"}

\* Transactions: the n-th call of a publisher and its arguments.
ScoreTxs == [by : Publishers, n : Nat, lead : LeadAddresses \cup {NoAddress},
             score : 0..100, attestationId : Attestations]

\* The key is in no other script.
Account == INSTANCE RelayerNonces
    WITH Keys <- {PublisherKey}, Txs <- ScoreTxs, BusyKeys <- {}, Others <- {},
         MaxTxs <- MaxPublishes + 2 * MaxScoreCanaries,
         sent <- scoreTxs, mined <- scoresMined,
         reverted <- scoresReverted, replaced <- scoresReplaced

PublishingTypeOK ==
    /\ LeaderboardTypeOK
    /\ Account!NoncesTypeOK
    /\ \A p \in Publishers : publishing[p].step \in {"none", "send", "sent", "published", "threw"}
    /\ publishes \in [Publishers -> Nat]
    /\ registered \subseteq {CanaryLead1, CanaryLead2}
    /\ scoreCanary \in {"idle", "lead1", "lead2", "publish1", "await1", "publish2", "await2",
                        "ranked", "score1", "score2", "ok", "failed"}
    /\ readId \in Attestations \cup {NoAddress}

PublishingInit ==
    /\ LeaderboardInit
    /\ aiAgentSigner = PublisherKey
    /\ Account!NoncesInit
    /\ publishing = [p \in Publishers |-> [step |-> "none"]]
    /\ publishes = [p \in Publishers |-> 0]
    /\ registered = {CanaryLead1}
    /\ scoreCanary = "idle"
    /\ readId = NoAddress
    /\ scoreCanaries = 0

-----------------------------------------------------------------------------
(* publishScore *)

\* A score out of range throws before anything is read or sent.
PublishScore(p, lead, score, att) ==
    /\ publishes' = [publishes EXCEPT ![p] = @ + 1]
    /\ publishing' = [publishing EXCEPT ![p] =
          IF score > 100 THEN [step |-> "threw"]
          ELSE [step |-> "send", nonce |-> Account!PendingCount(PublisherKey),
                tx |-> [by |-> p, n |-> publishes'[p], lead |-> lead, score |-> score,
                        attestationId |-> att]]]
    /\ UNCHANGED accountVars

\* The node takes the transaction under the nonce read before, or refuses it.
SendScore(p) ==
    /\ publishing[p].step = "send"
    /\ \/ /\ Account!Accepted(PublisherKey, publishing[p].nonce, publishing[p].tx)
          /\ publishing' = [publishing EXCEPT ![p].step = "sent"]
       \/ /\ Account!Rejected(PublisherKey, publishing[p].nonce)
          /\ publishing' = [publishing EXCEPT ![p].step = "threw"]

\* Mutant: the status of the receipt is not looked at.
AnswerOfAnyReceipt(p) ==
    /\ publishing[p].step = "sent"
    /\ Account!HasReceipt(PublisherKey, publishing[p].nonce)
    /\ publishing' = [publishing EXCEPT ![p].step = "published"]
    /\ UNCHANGED accountVars

\* The receipt is there, of whichever transaction took the nonce: publishScore
\* returns, or throws when that one reverted.
AnswerOfReceipt(p) ==
    /\ publishing[p].step = "sent"
    /\ Account!HasReceipt(PublisherKey, publishing[p].nonce)
    /\ publishing' = [publishing EXCEPT ![p].step =
          IF Account!Succeeded(PublisherKey, publishing[p].nonce) THEN "published" ELSE "threw"]
    /\ UNCHANGED accountVars

\* A request of the node fails, or the wait for the receipt times out.
PublishFails(p) ==
    /\ publishing[p].step \in {"send", "sent"}
    /\ publishing' = [publishing EXCEPT ![p].step = "threw"]
    /\ UNCHANGED accountVars

PublisherStep ==
    /\ \E p \in Publishers : SendScore(p) \/ AnswerOfReceipt(p) \/ PublishFails(p)
    /\ UNCHANGED <<leaderboardVars, publishes, canaryVars>>

Ended(p) == publishing[p].step \in {"none", "published", "threw"}

\* A run of the command line: any lead, address(0) too.
Cli ==
    /\ Ended("cli")
    /\ publishes["cli"] < MaxPublishes
    /\ \E l \in LeadAddresses \cup {NoAddress}, s \in PublishedScores, att \in Attestations :
          PublishScore("cli", l, s, att)
    /\ UNCHANGED <<leaderboardVars, canaryVars>>

\* In the order of the account's nonces.  One that reverts is mined too.
MineScore ==
    /\ Account!LatestCount(PublisherKey) < Account!PendingCount(PublisherKey)
    /\ LET tx == Account!Holder(PublisherKey, Account!LatestCount(PublisherKey))
       IN  \/ /\ UpdateScore(PublisherKey, tx.lead, tx.score, tx.attestationId)
              /\ Account!Mine(PublisherKey, TRUE)
           \/ /\ ~ScoreAccepted(PublisherKey, tx.lead, tx.score)
              /\ Account!Mine(PublisherKey, FALSE)
              /\ UNCHANGED leaderboardVars
    /\ UNCHANGED <<publishing, publishes, canaryVars>>

-----------------------------------------------------------------------------
(* score-canary.ts *)

ScoreCanaryStarts ==
    /\ scoreCanary \in {"idle", "ok", "failed"}
    /\ scoreCanaries < MaxScoreCanaries
    /\ scoreCanaries' = scoreCanaries + 1
    /\ scoreCanary' = "lead1"
    /\ UNCHANGED <<leaderboardVars, publishing, publishes, accountVars, registered, readId>>

\* ensureLead reads the registry and awaits the registration of a lead it lacks.
EnsureLead ==
    /\ \/ /\ scoreCanary = "lead1"
          /\ registered' = registered \cup {CanaryLead1}
          /\ scoreCanary' = "lead2"
       \/ /\ scoreCanary = "lead2"
          /\ registered' = registered \cup {CanaryLead2}
          /\ scoreCanary' = "publish1"
    /\ UNCHANGED <<leaderboardVars, publishing, publishes, accountVars, readId, scoreCanaries>>

\* One attestation is made; the id of the second lead is derived from it.
CanaryPublishes ==
    /\ \/ /\ scoreCanary = "publish1"
          /\ \E s \in CanaryScores : PublishScore("canary", CanaryLead1, s, LiveId)
          /\ scoreCanary' = "await1"
       \/ /\ scoreCanary = "publish2"
          /\ \E s \in CanaryScores : PublishScore("canary", CanaryLead2, s, DerivedId)
          /\ scoreCanary' = "await2"
    /\ UNCHANGED <<leaderboardVars, registered, readId, scoreCanaries>>

CanaryHears ==
    /\ scoreCanary \in {"await1", "await2"}
    /\ Ended("canary")
    /\ scoreCanary' = IF publishing["canary"].step = "threw" THEN "failed"
                      ELSE IF scoreCanary = "await1" THEN "publish2" ELSE "ranked"
    /\ UNCHANGED <<leaderboardVars, publishing, publishes, accountVars, registered, readId,
                   scoreCanaries>>

\* Three reads, of three blocks.
CanaryReadsBoard ==
    /\ \/ /\ scoreCanary = "ranked"
          /\ scoreCanary' = IF Len(rankedLeads) < 2 THEN "failed" ELSE "score1"
          /\ UNCHANGED readId
       \/ /\ scoreCanary = "score1"
          /\ readId' = scores[CanaryLead1].attestationId
          /\ scoreCanary' = "score2"
       \/ /\ scoreCanary = "score2"
          /\ scoreCanary' = IF scores[CanaryLead2].attestationId = readId THEN "failed" ELSE "ok"
          /\ readId' = NoAddress
    /\ UNCHANGED <<leaderboardVars, publishing, publishes, accountVars, registered, scoreCanaries>>

\* A read, the attestation or a registration fails; what publishScore throws it hears.
ScoreCanaryDies ==
    /\ scoreCanary \notin {"idle", "await1", "await2", "ok", "failed"}
    /\ scoreCanary' = "failed"
    /\ readId' = NoAddress
    /\ UNCHANGED <<leaderboardVars, publishing, publishes, accountVars, registered, scoreCanaries>>

-----------------------------------------------------------------------------

\* The owner names another signer, and that one scores too.
OtherSigner ==
    /\ \/ \E s \in Signers : SetAiAgentSigner(s)
       \/ \E s \in Signers \ {PublisherKey}, l \in LeadAddresses, score \in PublishedScores :
             UpdateScore(s, l, score, LiveId)
    /\ UNCHANGED <<publishing, publishes, accountVars, canaryVars>>

PublishingNext ==
    \/ Cli \/ PublisherStep \/ MineScore \/ OtherSigner
    \/ ScoreCanaryStarts \/ EnsureLead \/ CanaryPublishes \/ CanaryHears
    \/ CanaryReadsBoard \/ ScoreCanaryDies

-----------------------------------------------------------------------------
(* Properties. *)

Event(tx) == [lead |-> tx.lead, score |-> tx.score, attestationId |-> tx.attestationId]

Recorded(lead, att) == \E e \in scoreEvents : e.lead = lead /\ e.attestationId = att

\* The n-th transaction of p was outbid while it was pending.
LostItsNonce(p, n) == \E r \in scoresReplaced : r.lost.by = p /\ r.lost.n = n

\* A publisher that reports success has had its score on the board, and a canary that
\* passed both of its own, though the signer may change before the transaction is
\* mined, others may have overwritten them since and the two publishers may send
\* under one nonce; unless its transaction was outbid there.  Then what outbid it has
\* been on the board.
PublishedWereRecorded ==
    /\ \A p \in Publishers :
          publishing[p].step = "published" =>
             LET nonce == publishing[p].nonce
                 tx    == Account!Holder(PublisherKey, nonce)
             IN  /\ Account!HasReceipt(PublisherKey, nonce)
                 /\ Event(tx) \in scoreEvents
                 /\ tx = publishing[p].tx \/ LostItsNonce(p, publishes[p])
    /\ scoreCanary = "ok" =>
          /\ Recorded(CanaryLead1, LiveId) \/ LostItsNonce("canary", publishes["canary"] - 1)
          /\ Recorded(CanaryLead2, DerivedId) \/ LostItsNonce("canary", publishes["canary"])

=============================================================================
