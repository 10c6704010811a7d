---------------------------- MODULE WalletPromise ----------------------------
(***************************************************************************)
(* What creating escrows promises about one client's money: a request key  *)
(* takes its cost once, from funds that cover it; funds otherwise only     *)
(* grow.  How concurrent requests achieve that is BalanceLock's business.  *)
(***************************************************************************)
EXTENDS Integers

CONSTANTS Keys, Costs, Opening

VARIABLES funds, taken   \* what may be spent; the keys that took their cost

WalletInit == funds = Opening /\ taken = {}

TakeOnce(k) ==
  /\ k \notin taken
  /\ taken' = taken \cup {k}
  /\ \E c \in Costs : c <= funds /\ funds' = funds - c

Grow ==
  /\ funds' \in Int /\ funds' >= funds
  /\ UNCHANGED taken

WalletSpec ==
  WalletInit /\ [][Grow \/ \E k \in Keys : TakeOnce(k)]_<<funds, taken>>
=============================================================================
