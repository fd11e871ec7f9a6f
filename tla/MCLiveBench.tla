----------------------------- MODULE MCLiveBench -----------------------------
(* Small instances of LiveBench for TLC: a hunt of its own with one page   *)
(* and with two, a suite of two left to itself, and suites of one with a   *)
(* stop, a failure or a restart.                                           *)
EXTENDS LiveBench, TLC

CONSTANTS h1, h2, page, tab

Alone   == [suite |-> FALSE, members |-> <<h1>>, hints |-> 2, pages |-> {page}, ages |-> TRUE,
            stops |-> 0, restarts |-> 1, faults |-> 1]
Tabs    == [Alone EXCEPT !.hints = 1, !.pages = {page, tab}, !.ages = FALSE, !.stops = 1,
                         !.restarts = 0, !.faults = 0]
Pair    == [suite |-> TRUE, members |-> <<h1, h2>>, hints |-> 1, pages |-> {page},
            ages |-> FALSE, stops |-> 0, restarts |-> 0, faults |-> 0]
One     == [Pair EXCEPT !.members = <<h1>>, !.ages = TRUE]
Stopped == [One EXCEPT !.stops = 1]
Failing == [One EXCEPT !.faults = 1]
Again   == [One EXCEPT !.restarts = 1]
AllConfigs == {Alone, Tabs, Pair, Stopped, Failing, Again}
=============================================================================
