----------------------------- MODULE MCDashboard -----------------------------
(***************************************************************************)
(* A small instance of the dashboard: the wallet, the webhooks page, and   *)
(* the balance they and the overview share.                                *)
(***************************************************************************)
EXTENDS Dashboard

BalanceOnly == {Balance}
=============================================================================
