------------------------------ MODULE EscrowApi ------------------------------
(***************************************************************************)
(* The HTTP side: apps/api EscrowService and DisputesService.  A request   *)
(* checks the database row and enqueues a job; nothing waits for the job.  *)
(* A rejected request changes nothing and is a stutter.  Reading the row   *)
(* and adding the job are one step: the only state between them is the     *)
(* row, and the job waits for an arbitrary time before it is read again.   *)
(***************************************************************************)
EXTENDS PlatformState

Requested == spent.requests < MaxRequests /\ Spend("requests")

-----------------------------------------------------------------------------
(* createEscrow: one database transaction in which the job is enqueued,    *)
(* so a worker may take the job before the row is visible.  The version of *)
(* the balance row lets one creation at a time through.                    *)

CreateEscrow(e) ==
  /\ creation[e] = "none"
  /\ \A x \in EscrowIds : Deal[x].client = Deal[e].client => creation[x] # "open"
  /\ book[Deal[e].client].available >= Debit(e)
  /\ creation' = [creation EXCEPT ![e] = "open"]
  /\ Enqueue("FUND_ESCROW", e, Deal[e].client)
  /\ UNCHANGED <<chainVars, db, dispute, handlers, accounts, delayed, worker,
                 inflight, spent>>

CommitCreate(e) ==
  /\ creation[e] = "open"
  /\ creation' = [creation EXCEPT ![e] = "done"]
  /\ Update(e, FreshRow)
  /\ book' = [Add(book, Deal[e].client, -Debit(e), Deal[e].amount)
                EXCEPT ![Deal[e].client].version = @ + 1]
  /\ UNCHANGED <<chainVars, dispute, handlers, keys, settled, queue, worker,
                 inflight, spent>>

(* The transaction fails after the job was added: the job stays behind. *)
AbortCreate(e) ==
  /\ creation[e] = "open"
  /\ spent.faults < MaxFaults
  /\ Spend("faults")
  /\ creation' = [creation EXCEPT ![e] = "aborted"]
  /\ UNCHANGED <<chainVars, db, dispute, handlers, accounts, queue, worker,
                 inflight>>

-----------------------------------------------------------------------------
(* The other requests. *)

Submit(kind, e, by) ==
  /\ Requested
  /\ Enqueue(kind, e, by)
  /\ UNCHANGED <<chainVars, desk, accounts, delayed, worker, inflight>>

ReleaseEscrow(e) ==
  /\ RowOpen(e)
  /\ Submit("RELEASE_ESCROW", e, Deal[e].client)

RefundEscrow(e) ==
  /\ RowOpen(e) \/ db[e].status = "DISPUTED"
  /\ Submit("REFUND_ESCROW", e, Operator)

RequestApproval(e, by) ==
  /\ by \in {Deal[e].client, Deal[e].freelancer}
  /\ RowOpen(e)
  /\ Submit("APPROVE_RELEASE", e, by)

RequestMilestone(e) ==
  /\ RowOpen(e)
  /\ Deal[e].milestones_total # 0
  /\ db[e].milestonesCompleted < Deal[e].milestones_total
  /\ Submit("COMPLETE_MILESTONE", e, Deal[e].freelancer)

RequestExpiry(e) ==
  /\ RowOpen(e)
  /\ Deal[e].expiry_ledger # 0
  /\ Submit("CLAIM_EXPIRED", e, Deal[e].client)

-----------------------------------------------------------------------------
(* Disputes live in the database only: no job is enqueued for them.  Each  *)
(* of the three handlers checks the rows it has read and then writes       *)
(* without looking again; handlers holds those between check and write.    *)

Accept(e, write) ==
  /\ Requested
  /\ handlers' = handlers \cup {[escrow |-> e, write |-> write]}
  /\ UNCHANGED <<chainVars, db, dispute, creation, accounts, queue, worker,
                 inflight>>

Resolutions == {"RESOLVED_CLIENT", "RESOLVED_FREELANCER", "CLOSED"}

OpenDispute(e) ==
  /\ RowOpen(e) /\ dispute[e] = "NONE"
  /\ Accept(e, "OPEN")

SetUnderReview(e) ==
  /\ dispute[e] = "OPEN"
  /\ Accept(e, "UNDER_REVIEW")

ResolveByAdmin(e, resolution) ==
  /\ dispute[e] \in {"OPEN", "UNDER_REVIEW"}
  /\ Accept(e, resolution)

(* The status each write gives the escrow, if any. *)
Mut_ResolutionAsStatus == [OPEN |-> "DISPUTED", RESOLVED_CLIENT |-> "RESOLVED_CLIENT",
                           RESOLVED_FREELANCER |-> "RESOLVED_FREELANCER"]
DbOutcome == [OPEN |-> "DISPUTED", RESOLVED_CLIENT |-> "REFUNDED",
              RESOLVED_FREELANCER |-> "RELEASED"]

(* Racing requests to open one dispute are one element of handlers: the    *)
(* unique key disputes.escrowId lets one of them through.  Two identical   *)
(* rulings in progress count as one.                                       *)
WriteDispute(h) ==
  /\ handlers' = handlers \ {h}
  /\ dispute' = [dispute EXCEPT ![h.escrow] = h.write]
  /\ IF h.write \in DOMAIN DbOutcome
     THEN Update(h.escrow, [db[h.escrow] EXCEPT !.status = DbOutcome[h.write]])
     ELSE UNCHANGED db
  /\ UNCHANGED <<chainVars, creation, accounts, queue, worker, inflight, spent>>

ApiStep(e) ==
  \/ CreateEscrow(e) \/ CommitCreate(e) \/ AbortCreate(e)
  \/ ReleaseEscrow(e) \/ RefundEscrow(e)
  \/ \E by \in Accounts : RequestApproval(e, by)
  \/ RequestMilestone(e) \/ RequestExpiry(e)
  \/ OpenDispute(e) \/ SetUnderReview(e)
  \/ \E resolution \in Resolutions : ResolveByAdmin(e, resolution)
=============================================================================
