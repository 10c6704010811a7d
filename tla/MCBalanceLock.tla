---------------------------- MODULE MCBalanceLock ----------------------------
(***************************************************************************)
(* Three requests, two of them with one key; the balance covers one of     *)
(* them, and both keys only after the worker has given money back.         *)
(***************************************************************************)
EXTENDS BalanceLock

CONSTANTS r1, r2, r3

Headers == [r \in Requests |-> IF r = r3 THEN "k2" ELSE "k1"]
Amounts == [r \in Requests |-> IF r = r2 THEN 200 ELSE 100]
=============================================================================
