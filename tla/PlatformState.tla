---------------------------- MODULE PlatformState ----------------------------
(***************************************************************************)
(* What the API and the worker share: the database rows of the escrows and *)
(* their disputes, the balances, the settlement transactions with their    *)
(* unique idempotency keys, the BullMQ escrow queue, and the contract,     *)
(* which they reach only through signed Stellar transactions.              *)
(***************************************************************************)
EXTENDS NexusEscrow, Sequences, Bags

CONSTANTS Workers,      \* worker processes, one job at a time each
          Operator,     \* the account of the platform's admin key
          Deal,         \* escrow id -> the offer its row stands for
          Attempts,     \* attempts of an escrow job
          MaxStalls,    \* times BullMQ returns a job whose worker died
          OpeningBalance,   \* what each user has topped up
          MaxRequests, MaxFaults, MaxCrashes, MaxClaims  \* bounds

ASSUME PlatformAssumption ==
  /\ Operator \in Admins
  /\ Deal \in [EscrowIds -> Offers]
  /\ \A e \in EscrowIds : Deal[e].amount \in Nat
  /\ Attempts \in Nat \ {0} /\ MaxStalls \in Nat
  /\ OpeningBalance \in Nat

VARIABLES db,        \* escrow id -> row of table escrows, with its lock
          dispute,   \* escrow id -> status of its row in disputes, or NONE
          creation,  \* escrow id -> progress of createEscrow's transaction
          handlers, \* escrows whose openDispute has passed its checks
          book,      \* account -> row of table balances
          keys,      \* idempotency keys of the settlement transactions
          settled,   \* history: credits made for each escrow's settlement
          waiting, delayed,  \* the queue: ready jobs, jobs in back-off
          worker,    \* worker -> what it is doing
          inflight,  \* submitted transactions nobody waits for any more
          spent      \* how much of each bound has been used

chainVars == vars
desk      == <<db, dispute, creation, handlers>>
accounts  == <<book, keys, settled>>
queue     == <<waiting, delayed>>
platformVars ==
  <<chainVars, desk, accounts, queue, worker, inflight, spent>>

-----------------------------------------------------------------------------
(* Rows. *)

DbStatus == {"PENDING", "FUNDED", "ACTIVE", "RELEASED", "REFUNDED",
             "DISPUTED", "CANCELLED"}
LockStatus == {"PENDING", "COMPLETED", "FAILED"}

FreshRow == [status |-> "PENDING", onChain |-> FALSE, lock |-> "PENDING",
             clientApproved |-> FALSE, freelancerApproved |-> FALSE,
             milestonesCompleted |-> 0]
NoRow == [FreshRow EXCEPT !.status = "NONE", !.lock = "NONE"]

RowOpen(e) == db[e].status \in {"FUNDED", "ACTIVE"}
Update(e, row) == db' = [db EXCEPT ![e] = row]

(* The 1% of createEscrow, on top of the amount; exact in Decimal. *)
Fee(e) == Deal[e].amount \div 100
Debit(e) == Deal[e].amount + Fee(e)

(* A change of one balance row. *)
Add(b, u, available, reserved) ==
  [b EXCEPT ![u].available = @ + available, ![u].reserved = @ + reserved]

-----------------------------------------------------------------------------
(* Jobs. *)

Kinds == {"FUND_ESCROW", "RELEASE_ESCROW", "REFUND_ESCROW",
          "APPROVE_RELEASE", "COMPLETE_MILESTONE", "CLAIM_EXPIRED"}

NewJob(kind, e, by) ==
  [kind |-> kind, escrow |-> e, by |-> by, left |-> Attempts, stalls |-> 0]
Enqueue(kind, e, by) == waiting' = Append(waiting, NewJob(kind, e, by))

(* What a worker keeps of an on-chain record it has read. *)
Sight(r) == [client |-> r.client_approved, freelancer |-> r.freelancer_approved,
             milestones |-> r.milestones_completed]
Unseen == [client |-> FALSE, freelancer |-> FALSE, milestones |-> 0]

Idle == [pc |-> "idle"]

Spend(what) == spent' = [spent EXCEPT ![what] = @ + 1]
=============================================================================
