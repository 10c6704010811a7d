---------------------------- MODULE MCNexusEscrow ----------------------------
(***************************************************************************)
(* Small instances of the contract.  Three people and an heir of the       *)
(* admin; amounts where the fee rounds to zero and where it does not.      *)
(***************************************************************************)
EXTENDS NexusEscrow, TLC

CONSTANTS cli, fre, adm, heir,   \* client, freelancer, admin, next admin
          usdc, other            \* two token contracts

Base == [token |-> usdc, amount |-> 20, milestone_hash |-> 1,
         dispute_delay |-> 0, milestones_total |-> 0, expiry_ledger |-> 0]
With(pair) == [client |-> pair[1], freelancer |-> pair[2]]

(* One escrow whose terms vary: delays, milestones, expiries, amounts, and *)
(* deals of an account with itself, with the admin and by the admin.       *)
(* Offers no call may accept are in (an amount of 0, one that traps, a     *)
(* delay above the cap, an expiry in the past).                            *)
VariedOffers ==
  LET deal == With(<<cli, fre>>) @@ Base IN
  { [deal EXCEPT !.expiry_ledger = x, !.milestones_total = m] :
      x \in {0, 3}, m \in {0, 1} }
  \cup { [deal EXCEPT !.amount = a] : a \in {0, 3, 200} }
  \cup { [deal EXCEPT !.dispute_delay = d] : d \in {1, 2} }
  \cup { With(p) @@ Base : p \in {<<cli, cli>>, <<cli, adm>>, <<adm, fre>>} }

(* Two escrows that share their parties, in one token or in two. *)
PoolOffers ==
  { With(<<cli, fre>>) @@ [Base EXCEPT !.token = usdc, !.expiry_ledger = 2],
    With(<<cli, fre>>) @@ [Base EXCEPT !.token = other, !.amount = 3] }
=============================================================================
