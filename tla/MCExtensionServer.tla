---------------------------- MODULE MCExtensionServer ----------------------------
(* The extension server on small instances. *)
EXTENDS ExtensionServer

CONSTANTS hello1, hello2, bye1, match1, match2, topup1, state1, bad1

\* What each request asks for.
MCKind ==
    [r \in Requests |->
        CASE r \in {hello1, hello2} -> "hello"
          [] r = bye1               -> "goodbye"
          [] r \in {match1, match2} -> "match"
          [] r = topup1             -> "topup"
          [] r = state1             -> "state"
          [] OTHER                  -> "immediate"]

=============================================================================
