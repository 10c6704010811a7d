----------------------------- MODULE MCStorageTtl -----------------------------
(***************************************************************************)
(* One escrow that expires, in a contract whose entries live three ledgers.*)
(***************************************************************************)
EXTENDS StorageTtl

CONSTANTS cli, fre, adm, usdc

ExpiringOffers ==
  { [client |-> cli, freelancer |-> fre, token |-> usdc, amount |-> 20,
     milestone_hash |-> 1, dispute_delay |-> 0, milestones_total |-> 1,
     expiry_ledger |-> 4] }
=============================================================================
