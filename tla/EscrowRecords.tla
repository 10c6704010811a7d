---------------------------- MODULE EscrowRecords ----------------------------
(***************************************************************************)
(* The on-chain escrow record and the pure rules the entrypoints of the    *)
(* contract apply to it: fee, status sets, disputability, expiry and the   *)
(* two-of-two approval.  Shared by the contract (NexusEscrow) and by the    *)
(* platform that drives one contract record per database row               *)
(* (EscrowWorker).                                                         *)
(***************************************************************************)
EXTENDS Integers

CONSTANTS MinDisputeDelay,       \* ledgers before a freelancer may dispute
          MaxExtraDisputeDelay   \* cap on the extra delay of one escrow

ASSUME DelayAssumption ==
  MinDisputeDelay \in Nat /\ MaxExtraDisputeDelay \in Nat

MaxFeeBps     == 1000    \* basis points
BpsScale      == 10000
DefaultFeeBps == 100     \* get_fee_bps before initialize

EscrowStatus == {"Pending", "Funded", "Active", "Disputed",
                 "Released", "Refunded", "Cancelled"}

Open     == {"Funded", "Active"}                  \* work may go on
Holding  == Open \cup {"Disputed"}                \* the contract holds tokens
Terminal == {"Released", "Refunded", "Cancelled"}

(* Truncating i128 division of a non-negative product. *)
ComputeFee(amount, bps) == (amount * bps) \div BpsScale

(* What init_escrow stores for an accepted offer. *)
NewEscrow(o, arbiter, bps, now) ==
  [ client |-> o.client, freelancer |-> o.freelancer, admin |-> arbiter,
    token |-> o.token, amount |-> o.amount,
    platform_fee |-> ComputeFee(o.amount, bps),
    status |-> "Pending", milestone_hash |-> o.milestone_hash,
    dispute_deadline_ledger |-> now + MinDisputeDelay + o.dispute_delay,
    funded_ledger |-> 0,
    milestones_total |-> o.milestones_total, milestones_completed |-> 0,
    expiry_ledger |-> o.expiry_ledger,
    client_approved |-> FALSE, freelancer_approved |-> FALSE ]

(* The two ledger comparisons of the contract. *)
Expired(r, now)   == r.expiry_ledger # 0 /\ now >= r.expiry_ledger
MayDispute(r, who, now) ==
  /\ who \in {r.client, r.freelancer}
  /\ who = r.freelancer => now >= r.dispute_deadline_ledger

(* approve_release: the client's flag is tried first. *)
Endorse(r, who) ==
  IF who = r.client THEN [r EXCEPT !.client_approved = TRUE]
                    ELSE [r EXCEPT !.freelancer_approved = TRUE]
BothApproved(r) == r.client_approved /\ r.freelancer_approved

(* raise_dispute withdraws approvals given so far. *)
Mut_DisputeKeepsApprovals(r) == [r EXCEPT !.status = "Disputed"]
Disputed(r) == [r EXCEPT !.client_approved = FALSE,
                         !.freelancer_approved = FALSE,
                         !.status = "Disputed"]

MilestoneLeft(r) == r.milestones_completed < r.milestones_total
=============================================================================
