---------------------------- MODULE MirrorLeaderboard ----------------------------
(***************************************************************************)
(* MirrorLeaderboard.sol.  Scores are set by one account, the AI agent's    *)
(* signer, and every lead that was ever scored is in the list of ranked     *)
(* leads.                                                                   *)
(***************************************************************************)
EXTENDS Naturals, Sequences

CONSTANTS LeadAddresses, \* addresses updateScore may be given
          NoAddress,     \* address(0)
          Attestations,  \* attestation ids
          Signers        \* accounts that may be the signer

ASSUME LeaderboardAssumption == NoAddress \notin LeadAddresses

VARIABLES aiAgentSigner,
          scores,       \* the score and attestation of each lead
          isRanked,
          rankedLeads,  \* _rankedLeads
          scoreEvents   \* the ScoreUpdated events so far

leaderboardVars == <<aiAgentSigner, scores, isRanked, rankedLeads, scoreEvents>>

Records == [score : 0..100, attestationId : Attestations \cup {NoAddress}]

LeaderboardTypeOK ==
    /\ aiAgentSigner \in Signers
    /\ scores \in [LeadAddresses -> Records]
    /\ isRanked \in [LeadAddresses -> BOOLEAN]
    /\ rankedLeads \in Seq(LeadAddresses)
    /\ scoreEvents \subseteq [lead : LeadAddresses, score : 0..100, attestationId : Attestations]

LeaderboardInit ==
    /\ aiAgentSigner \in Signers
    /\ scores = [l \in LeadAddresses |-> [score |-> 0, attestationId |-> NoAddress]]
    /\ isRanked = [l \in LeadAddresses |-> FALSE]
    /\ rankedLeads = <<>>
    /\ scoreEvents = {}

\* setAiAgentSigner, by the owner.
SetAiAgentSigner(signer) ==
    /\ aiAgentSigner' = signer
    /\ UNCHANGED <<scores, isRanked, rankedLeads, scoreEvents>>

ScoreAccepted(caller, lead, score) ==
    caller = aiAgentSigner /\ score <= 100 /\ lead # NoAddress

UpdateScore(caller, lead, score, att) ==
    /\ ScoreAccepted(caller, lead, score)
    /\ scores' = [scores EXCEPT ![lead] = [score |-> score, attestationId |-> att]]
    /\ isRanked' = [isRanked EXCEPT ![lead] = TRUE]
    /\ rankedLeads' = IF isRanked[lead] THEN rankedLeads ELSE Append(rankedLeads, lead)
    /\ scoreEvents' = scoreEvents \cup {[lead |-> lead, score |-> score, attestationId |-> att]}
    /\ UNCHANGED aiAgentSigner

LeaderboardNext ==
    \/ \E s \in Signers : SetAiAgentSigner(s)
    \/ \E c \in Signers, l \in LeadAddresses \cup {NoAddress}, score \in 0..255,
          att \in Attestations : UpdateScore(c, l, score, att)

LeaderboardSpec == LeaderboardInit /\ [][LeaderboardNext]_leaderboardVars

-----------------------------------------------------------------------------
(* Properties. *)

\* A lead is in the list once, however often it is scored and by however many signers
\* in turn, and the list is the leads that have an event.
RankedOnce ==
    /\ \A i, j \in DOMAIN rankedLeads : rankedLeads[i] = rankedLeads[j] => i = j
    /\ \A l \in LeadAddresses :
          (\E i \in DOMAIN rankedLeads : rankedLeads[i] = l) <=> (\E e \in scoreEvents : e.lead = l)

=============================================================================
