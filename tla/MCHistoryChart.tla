----------------------------- MODULE MCHistoryChart -----------------------------
(* A small instance of HistoryChart: regular samples, a gap, and a pause     *)
(* that a longer interval explains.                                          *)
EXTENDS HistoryChart

MCSampleValues == {{}, {0}, {1}}
MCSteps == {[gap |-> 1, interval |-> 1], [gap |-> 4, interval |-> 1],
            [gap |-> 4, interval |-> 2]}

MCRoundings == {{}, {1}, {2}, {3}, 1 .. 4}
=============================================================================
