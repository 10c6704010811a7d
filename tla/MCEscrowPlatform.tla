--------------------------- MODULE MCEscrowPlatform ---------------------------
(***************************************************************************)
(* Small instances of the platform: one client, one freelancer and the     *)
(* operator; every escrow is worth 100 and expires at the second ledger.   *)
(***************************************************************************)
EXTENDS EscrowPlatform, TLC

CONSTANTS cli, fre, op, usdc

Sale(milestones, expiry) ==
  [client |-> cli, freelancer |-> fre, token |-> usdc, amount |-> 100,
   milestone_hash |-> 1, dispute_delay |-> 0,
   milestones_total |-> milestones, expiry_ledger |-> expiry]

SaleOffers == {Sale(m, x) : m \in {0, 1}, x \in {0, 2}}
SameDeal   == [e \in EscrowIds |-> Sale(1, 2)]
WorkerSymmetry == Permutations(Workers)

LastingDeal == [e \in EscrowIds |-> Sale(0, 0)]
=============================================================================
