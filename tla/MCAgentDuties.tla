------------------------------ MODULE MCAgentDuties ------------------------------
EXTENDS AgentDuties

CONSTANTS f1, f2, l1, l2

\* Posts are explored with the drift watchers, who have more to say.
MCSinkOf == [d \in Duties |-> IF d = "drift" THEN {"recorder", "echo", "store"} ELSE {"unset"}]

\* Two canaries, or one and the health monitor.
MCFirstCounts == {<<0, MaxCycles>>, <<1, 0>>}

MCWatchedLeads == <<l1, l2>>

Trade(direction, pnl, size) == [direction |-> direction, pnl |-> pnl, sizePct |-> size]
At(day, trade) == [timestamp |-> day] @@ trade

\* The matching engine logs every match with a pnl of 0.
MCOutcomes == {Trade("SELL", 0, 9)}

\* The same four trades in two orders, whose worst fall is not from the start, and
\* five without a pattern that gain and lose nothing.
MCEventLists ==
    LET a == At(98, Trade("BUY", 2, 3))
        b == At(99, Trade("BUY", -2, 9))
        c == At(100, Trade("SELL", -1, 3))
        d == At(101, Trade("SELL", 1, 3))
        flat(direction, day) == At(day, Trade(direction, 0, 3))
    IN  {<<a, b, c, d>>, <<d, b, c, a>>,
         <<flat("BUY", 97), flat("BUY", 98), flat("SELL", 100), flat("SELL", 101), flat("BUY", 103)>>}
=============================================================================
