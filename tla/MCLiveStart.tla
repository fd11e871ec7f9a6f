----------------------------- MODULE MCLiveStart -----------------------------
(* Small instances of LiveStart for TLC: two runs, two requests at once.   *)
(* Runs and requests are interchangeable, and the properties are about     *)
(* states only.                                                            *)
EXTENDS LiveStart, TLC

Polled  == [poll |-> 1, start |-> 2, stop |-> 0, restart |-> 0]
Stopped == [poll |-> 0, start |-> 2, stop |-> 1, restart |-> 0]
Again   == [poll |-> 0, start |-> 2, stop |-> 0, restart |-> 1]
Thrice  == [poll |-> 0, start |-> 3, stop |-> 0, restart |-> 0]
All     == {Polled, Stopped, Again, Thrice}

Alike == Permutations(Runs) \union Permutations(Handlers)
=============================================================================
