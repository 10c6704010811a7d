----------------------------- MODULE EscrowWorker -----------------------------
(***************************************************************************)
(* apps/worker: EscrowProcessor and the StellarService it calls.  A worker *)
(* runs one job; pc names the await it stands at, one step per database    *)
(* round trip or contract call.  An exception ends the attempt; BullMQ      *)
(* runs the job again after a back-off while attempts are left.            *)
(***************************************************************************)
EXTENDS PlatformState

Goto(w, pc) == worker' = [worker EXCEPT ![w].pc = pc]
At(w, pcs)  == worker[w].pc \in pcs
Job(w)      == worker[w].job
Rest(w)     == worker' = [worker EXCEPT ![w] = Idle]

-----------------------------------------------------------------------------
(* The queue. *)

Take(w) ==
  /\ At(w, {"idle"})
  /\ waiting # <<>>
  /\ worker' = [worker EXCEPT ![w] =
                  [pc |-> "read", job |-> Head(waiting), seen |-> Unseen]]
  /\ waiting' = Tail(waiting)
  /\ UNCHANGED <<chainVars, desk, accounts, delayed, inflight, spent>>

(* The back-off of a failed job ends. *)
Retry(j) ==
  /\ BagIn(j, delayed)
  /\ delayed' = delayed (-) SetToBag({j})
  /\ waiting' = Append(waiting, j)
  /\ UNCHANGED <<chainVars, desk, accounts, worker, inflight, spent>>

(* The attempt has failed. *)
GiveUp(w) ==
  /\ Rest(w)
  /\ delayed' = IF Job(w).left > 1
                THEN delayed (+) SetToBag({[Job(w) EXCEPT !.left = @ - 1]})
                ELSE delayed
  /\ UNCHANGED waiting

(* An exception: fundEscrow catches it once, to compensate. *)
Throw(w) ==
  IF Job(w).kind = "FUND_ESCROW" /\ ~At(w, {"fail_lock", "fail_book"})
  THEN Goto(w, "fail_lock") /\ UNCHANGED queue
  ELSE GiveUp(w)

-----------------------------------------------------------------------------
(* The handlers. *)

FirstCall == [RELEASE_ESCROW |-> "release", REFUND_ESCROW |-> "refund",
              APPROVE_RELEASE |-> "approve_release",
              COMPLETE_MILESTONE |-> "complete_milestone",
              CLAIM_EXPIRED |-> "claim_expired"]

(* Load the row; all but fundEscrow require the on-chain id to be set. *)
Read(w) ==
  LET j == Job(w) IN
  /\ At(w, {"read"})
  /\ \/ /\ db[j.escrow].status # "NONE"
        /\ j.kind = "FUND_ESCROW" \/ db[j.escrow].onChain
        /\ Goto(w, IF j.kind # "FUND_ESCROW" THEN FirstCall[j.kind]
                   ELSE IF db[j.escrow].onChain THEN "fund" ELSE "init_escrow")
        /\ UNCHANGED queue
     \/ /\ \/ db[j.escrow].status = "NONE"
           \/ j.kind # "FUND_ESCROW" /\ ~db[j.escrow].onChain
        /\ Throw(w)
  /\ UNCHANGED <<chainVars, desk, accounts, inflight, spent>>

(* The entrypoint a transaction calls.  release is missing: releaseEscrow  *)
(* passes (id, client, hash) where the entrypoint takes (id, hash), which  *)
(* the simulation refuses whatever the state.                              *)
ChainCall(fn, e, by) ==
  \/ fn = "init_escrow" /\ InitEscrow(e, Deal[e])
  \/ fn = "fund" /\ Fund(e)
  \/ fn = "refund" /\ Loaded(e) /\ escrows[e].admin = Operator /\ Refund(e)
  \/ fn = "approve_release" /\ ApproveRelease(e, by)
  \/ fn = "complete_milestone" /\ CompleteMilestone(e)
  \/ fn = "claim_expired" /\ ClaimExpired(e)

Calling == {"init_escrow", "fund"} \cup {FirstCall[k] : k \in DOMAIN FirstCall}
AfterCall(fn) ==
  IF fn = "init_escrow" THEN "fund"
  ELSE IF fn \in {"approve_release", "complete_milestone"} THEN "observe"
  ELSE "commit"

(* invoke: simulated, submitted, confirmed.  All transactions carry the    *)
(* admin account's next sequence number, so one that lands voids those     *)
(* still in flight.                                                        *)
Mut_ObserveBeforeCall(w) ==
  /\ At(w, Calling)
  /\ ChainCall(worker[w].pc, Job(w).escrow, Job(w).by)
  /\ inflight' = {}
  /\ IF AfterCall(worker[w].pc) = "observe"
     THEN worker' = [worker EXCEPT ![w].pc = "commit",
                                   ![w].seen = Sight(escrows[Job(w).escrow])]
     ELSE Goto(w, AfterCall(worker[w].pc))
  /\ UNCHANGED <<desk, accounts, queue, spent>>
Invoke(w) ==
  /\ At(w, Calling)
  /\ ChainCall(worker[w].pc, Job(w).escrow, Job(w).by)
  /\ inflight' = {}
  /\ Goto(w, AfterCall(worker[w].pc))
  /\ UNCHANGED <<desk, accounts, queue, spent>>

(* The simulation refuses the call. *)
Refused(w) ==
  /\ At(w, Calling)
  /\ ~ENABLED ChainCall(worker[w].pc, Job(w).escrow, Job(w).by)
  /\ Throw(w)
  /\ UNCHANGED <<chainVars, desk, accounts, inflight, spent>>

(* Submitted, but polling fails or ends first. *)
Mut_PollForEver(w) ==
  /\ At(w, Calling)
  /\ spent.faults < MaxFaults
  /\ ENABLED ChainCall(worker[w].pc, Job(w).escrow, Job(w).by)
  /\ inflight' = inflight \cup {[fn |-> worker[w].pc, escrow |-> Job(w).escrow,
                                 by |-> Job(w).by]}
  /\ Goto(w, "poll")
  /\ Spend("faults")
  /\ UNCHANGED <<chainVars, desk, accounts, queue>>
LoseAnswer(w) ==
  /\ At(w, Calling)
  /\ spent.faults < MaxFaults
  /\ ENABLED ChainCall(worker[w].pc, Job(w).escrow, Job(w).by)
  /\ inflight' = inflight \cup {[fn |-> worker[w].pc, escrow |-> Job(w).escrow,
                                 by |-> Job(w).by]}
  /\ Throw(w)
  /\ Spend("faults")
  /\ UNCHANGED <<chainVars, desk, accounts>>

(* getEscrowRecord, after the call. *)
Observe(w) ==
  /\ At(w, {"observe"})
  /\ worker' = [worker EXCEPT ![w].pc = "commit",
                              ![w].seen = Sight(escrows[Job(w).escrow])]
  /\ UNCHANGED <<chainVars, desk, accounts, queue, inflight, spent>>

-----------------------------------------------------------------------------
(* The database transaction that ends a handler. *)

Settlement ==
  [RELEASE_ESCROW  |-> [key |-> "release", status |-> "RELEASED"],
   APPROVE_RELEASE |-> [key |-> "approve-release", status |-> "RELEASED"],
   REFUND_ESCROW   |-> [key |-> "refund", status |-> "REFUNDED"],
   CLAIM_EXPIRED   |-> [key |-> "expired", status |-> "REFUNDED"]]

(* Status, balances and a transaction whose idempotency key is unique. *)
Mut_KeyNotUnique(kind, e, row) ==
  LET s    == Settlement[kind]
      paid == IF s.status = "RELEASED" THEN Deal[e].freelancer ELSE Deal[e].client
      side == IF s.status = "RELEASED" THEN "freelancer" ELSE "client"
  IN
  /\ keys' = keys \cup {<<s.key, e>>}
  /\ Update(e, [row EXCEPT !.status = s.status])
  /\ book' = Add(Add(book, Deal[e].client, 0, -Deal[e].amount),
                 paid, Deal[e].amount, 0)
  /\ settled' = [settled EXCEPT ![e][side] = @ + 1]
Settle(kind, e, row) ==
  LET s    == Settlement[kind]
      paid == IF s.status = "RELEASED" THEN Deal[e].freelancer ELSE Deal[e].client
      side == IF s.status = "RELEASED" THEN "freelancer" ELSE "client"
  IN
  /\ <<s.key, e>> \notin keys
  /\ keys' = keys \cup {<<s.key, e>>}
  /\ Update(e, [row EXCEPT !.status = s.status])
  /\ book' = Add(Add(book, Deal[e].client, 0, -Deal[e].amount),
                 paid, Deal[e].amount, 0)
  /\ settled' = [settled EXCEPT ![e][side] = @ + 1]

(* Whether this commit is a settlement. *)
Mut_EitherApproval(w) ==
  /\ Job(w).kind \in DOMAIN Settlement
  /\ Job(w).kind = "APPROVE_RELEASE" =>
       worker[w].seen.client \/ worker[w].seen.freelancer
Settles(w) ==
  /\ Job(w).kind \in DOMAIN Settlement
  /\ Job(w).kind = "APPROVE_RELEASE" =>
       worker[w].seen.client /\ worker[w].seen.freelancer

(* The row with what the handler copies from the chain. *)
Synced(w) ==
  LET row == db[Job(w).escrow]  seen == worker[w].seen IN
  IF Job(w).kind = "APPROVE_RELEASE"
  THEN [row EXCEPT !.clientApproved = seen.client,
                   !.freelancerApproved = seen.freelancer]
  ELSE IF Job(w).kind = "COMPLETE_MILESTONE"
  THEN [row EXCEPT !.milestonesCompleted = seen.milestones]
  ELSE row

Commit(w) ==
  LET j == Job(w) IN
  /\ At(w, {"commit"})
  /\ \/ /\ j.kind = "FUND_ESCROW"
        /\ Update(j.escrow, [db[j.escrow] EXCEPT !.status = "FUNDED", !.onChain = TRUE,
                               !.lock = IF @ = "PENDING" THEN "COMPLETED" ELSE @])
        /\ UNCHANGED accounts
        /\ Goto(w, "notify")
     \/ /\ Settles(w)
        /\ Settle(j.kind, j.escrow, Synced(w))
        /\ Goto(w, "notify")
     \/ /\ j.kind # "FUND_ESCROW" /\ ~Settles(w)
        /\ Update(j.escrow, Synced(w))
        /\ UNCHANGED accounts
        /\ IF j.kind = "COMPLETE_MILESTONE" THEN Goto(w, "notify") ELSE Rest(w)
  /\ UNCHANGED <<chainVars, dispute, creation, handlers, queue, inflight, spent>>

(* The unique key exists: the transaction rolls back and the handler throws. *)
Duplicate(w) ==
  /\ At(w, {"commit"})
  /\ Settles(w)
  /\ <<Settlement[Job(w).kind].key, Job(w).escrow>> \in keys
  /\ Throw(w)
  /\ UNCHANGED <<chainVars, desk, accounts, inflight, spent>>

(* fireWebhook, and the job is done. *)
Notify(w) ==
  /\ At(w, {"notify"})
  /\ Rest(w)
  /\ UNCHANGED <<chainVars, desk, accounts, queue, inflight, spent>>

-----------------------------------------------------------------------------
(* handleFundFailure: the lock is failed only while pending; the balance   *)
(* and the status are written whatever they are.                           *)

FailLock(w) ==
  LET e == Job(w).escrow IN
  /\ At(w, {"fail_lock"})
  /\ Update(e, [db[e] EXCEPT !.lock = IF @ = "PENDING" THEN "FAILED" ELSE @])
  /\ Goto(w, "fail_book")
  /\ UNCHANGED <<chainVars, dispute, creation, handlers, accounts, queue,
                 inflight, spent>>

FailBook(w) ==
  LET e == Job(w).escrow IN
  /\ At(w, {"fail_book"})
  /\ IF db[e].status = "NONE" THEN UNCHANGED <<db, book>>
     ELSE /\ Update(e, [db[e] EXCEPT !.status = "CANCELLED"])
          /\ book' = Add(book, Deal[e].client, Debit(e), -Deal[e].amount)
  /\ GiveUp(w)
  /\ UNCHANGED <<chainVars, dispute, creation, handlers, keys, settled,
                 inflight, spent>>

-----------------------------------------------------------------------------
(* Faults. *)

(* A database, Redis or RPC call of the handler throws. *)
Fault(w) ==
  /\ ~At(w, {"idle"})
  /\ spent.faults < MaxFaults
  /\ Throw(w)
  /\ Spend("faults")
  /\ UNCHANGED <<chainVars, desk, accounts, inflight>>

(* The worker process dies; BullMQ finds the job stalled. *)
Crash(w) ==
  /\ ~At(w, {"idle"})
  /\ spent.crashes < MaxCrashes
  /\ Spend("crashes")
  /\ Rest(w)
  /\ waiting' = IF Job(w).stalls < MaxStalls
                THEN <<[Job(w) EXCEPT !.stalls = @ + 1]>> \o waiting
                ELSE waiting
  /\ UNCHANGED <<chainVars, desk, accounts, delayed, inflight>>

(* A transaction nobody polls any more lands, or expires. *)
Land(c) ==
  /\ ChainCall(c.fn, c.escrow, c.by)
  /\ inflight' = {}
  /\ UNCHANGED <<desk, accounts, queue, worker, spent>>

Expire(c) ==
  /\ inflight' = inflight \ {c}
  /\ UNCHANGED <<chainVars, desk, accounts, queue, worker, spent>>

WorkerStep(w) ==
  \/ Take(w) \/ Read(w) \/ Invoke(w) \/ Refused(w) \/ Observe(w)
  \/ Commit(w) \/ Duplicate(w) \/ Notify(w) \/ FailLock(w) \/ FailBook(w)

FaultStep(w) == LoseAnswer(w) \/ Fault(w) \/ Crash(w)
=============================================================================
