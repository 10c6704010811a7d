--------------------------- MODULE MCSessionRefresh ---------------------------
(* Two calls at a time, of two tabs. *)
EXTENDS SessionRefresh, TLC

CONSTANTS t1, t2, c1, c2

TabsAndCallsAlike == Permutations(Tabs) \cup Permutations(Calls)
=============================================================================
