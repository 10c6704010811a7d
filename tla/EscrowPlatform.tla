---------------------------- MODULE EscrowPlatform ----------------------------
(***************************************************************************)
(* The platform: API, queue, workers and the contract together.            *)
(***************************************************************************)
EXTENDS EscrowApi, EscrowWorker, FiniteSetsExt

JobRecord ==
  [kind : Kinds, escrow : EscrowIds, by : Accounts, left : 1..Attempts,
   stalls : 0..MaxStalls]
Busy ==
  [pc : {"read", "observe", "commit", "notify", "fail_lock", "fail_book"}
          \cup Calling,
   job : JobRecord,
   seen : [client : BOOLEAN, freelancer : BOOLEAN, milestones : Nat]]

PlatformTypeOK ==
  /\ TypeOK
  /\ db \in [EscrowIds ->
               [status : DbStatus \cup {"NONE"}, onChain : BOOLEAN,
                lock : LockStatus \cup {"NONE"}, clientApproved : BOOLEAN,
                freelancerApproved : BOOLEAN, milestonesCompleted : Nat]]
  /\ dispute \in [EscrowIds -> {"NONE", "OPEN", "UNDER_REVIEW"} \cup Resolutions]
  /\ creation \in [EscrowIds -> {"none", "open", "done", "aborted"}]
  /\ handlers \subseteq [escrow : EscrowIds,
                       write : {"OPEN", "UNDER_REVIEW"} \cup Resolutions]
  /\ book \in [Accounts -> [available : Int, reserved : Int, version : Nat]]
  /\ keys \subseteq {Settlement[k].key : k \in DOMAIN Settlement} \X EscrowIds
  /\ settled \in [EscrowIds -> [client : Nat, freelancer : Nat]]
  /\ waiting \in Seq(JobRecord)
  /\ IsABag(delayed) /\ BagToSet(delayed) \subseteq JobRecord
  /\ worker \in [Workers -> Busy \cup {Idle}]
  /\ inflight \subseteq [fn : Calling, escrow : EscrowIds, by : Accounts]

(* The worker is started with the id of a contract that its deployer has    *)
(* initialised for the operator.                                           *)
PlatformInit ==
  /\ admin = Operator /\ feeBps \in FeeRates \cap 0..MaxFeeBps /\ paused = FALSE
  /\ escrows = [e \in EscrowIds |-> NoEscrow]
  /\ balance = [t \in Tokens |-> [a \in Accounts \cup {Contract} |->
                                   IF a = Contract THEN 0 ELSE InitialBalance]]
  /\ moved = [e \in EscrowIds |-> NothingMoved]
  /\ ledger = 1
  /\ call = [signer |-> Operator, events |-> {}]
  /\ db = [e \in EscrowIds |-> NoRow]
  /\ dispute = [e \in EscrowIds |-> "NONE"]
  /\ creation = [e \in EscrowIds |-> "none"]
  /\ handlers = {}
  /\ book = [a \in Accounts |->
               [available |-> OpeningBalance, reserved |-> 0, version |-> 0]]
  /\ keys = {}
  /\ settled = [e \in EscrowIds |-> [client |-> 0, freelancer |-> 0]]
  /\ waiting = <<>> /\ delayed = EmptyBag
  /\ worker = [w \in Workers |-> Idle]
  /\ inflight = {}
  /\ spent = [requests |-> 0, faults |-> 0, crashes |-> 0, claims |-> 0]

-----------------------------------------------------------------------------
(* What happens on chain without the platform. *)

OffChainUnchanged == UNCHANGED <<desk, accounts, queue, worker, inflight>>

LedgerCloses ==
  /\ CloseLedger
  /\ OffChainUnchanged /\ UNCHANGED spent

(* claim_expired is open to anybody. *)
OutsiderClaims(e) ==
  /\ spent.claims < MaxClaims
  /\ ClaimExpired(e)
  /\ Spend("claims")
  /\ OffChainUnchanged

PlatformNext ==
  \/ LedgerCloses
  \/ \E e \in EscrowIds : ApiStep(e) \/ OutsiderClaims(e)
  \/ \E h \in handlers : WriteDispute(h)
  \/ \E w \in Workers : WorkerStep(w) \/ FaultStep(w)
  \/ \E j \in BagToSet(delayed) : Retry(j)
  \/ \E c \in inflight : Land(c) \/ Expire(c)

PlatformSpec == PlatformInit /\ [][PlatformNext]_platformVars

(* Workers run, back-offs end, an open transaction commits. *)
FairPlatformSpec ==
  /\ PlatformSpec
  /\ \A e \in EscrowIds : WF_platformVars(CommitCreate(e))
  /\ \A w \in Workers : WF_platformVars(WorkerStep(w))
  /\ WF_platformVars(\E j \in BagToSet(delayed) : Retry(j))

-----------------------------------------------------------------------------
(* Properties. *)

(* SettlesOnce: whatever is retried, lost or duplicated, the balances are  *)
(* credited for the settlement of an escrow at most once, and never both   *)
(* the freelancer and the client.                                          *)
SettlesOnce ==
  \A e \in EscrowIds : settled[e].client + settled[e].freelancer <= 1

(* BooksFollowChain: the database never runs ahead of the contract: a      *)
(* credit, a contract id, an approval flag or a milestone is recorded only *)
(* after the contract has released, refunded, funded or recorded it.       *)
BooksFollowChain ==
  \A e \in EscrowIds :
    /\ settled[e].freelancer > 0 => Is(e, {"Released"})
    /\ settled[e].client > 0 => Is(e, {"Refunded"})
    /\ db[e].onChain => Is(e, EscrowStatus \ {"Pending", "Cancelled"})
    /\ db[e].clientApproved => Loaded(e) /\ escrows[e].client_approved
    /\ db[e].freelancerApproved => Loaded(e) /\ escrows[e].freelancer_approved
    /\ db[e].milestonesCompleted > 0 =>
         /\ Loaded(e)
         /\ db[e].milestonesCompleted <= escrows[e].milestones_completed

(* ChainReachesBooks: unless a call fails, what an escrow's contract record *)
(* comes to reaches the row and the balances eventually - the funding, an   *)
(* approval that waits for the other, the amount paid out - though two      *)
(* workers may each have started before the other's approval was recorded.  *)
Undisturbed == spent.faults = 0 /\ spent.crashes = 0 /\ spent.claims = 0
Mirrored(e) ==
  /\ Is(e, {"Funded", "Active"}) =>
       /\ db[e].onChain
       /\ escrows[e].client_approved => db[e].clientApproved
       /\ escrows[e].freelancer_approved => db[e].freelancerApproved
  /\ Is(e, {"Released", "Refunded"}) => settled[e].client + settled[e].freelancer = 1
ChainReachesBooks ==
  \A e \in EscrowIds : <>[](Mirrored(e) \/ ~Undisturbed)

(* JobsEnd: every job is done or given up, with crashes and faults.        *)
JobsEnd ==
  <>[](waiting = <<>> /\ delayed = EmptyBag /\ \A w \in Workers : At(w, {"idle"}))

-----------------------------------------------------------------------------
(* What the documentation says and the code does not do. *)

(* HeldFundsStayReserved (README.md:203, Funds reserved -> Stellar contract *)
(* initialized): while the contract holds a client's deposits, the client's *)
(* balance has that much reserved.                                          *)
HeldFundsStayReserved ==
  \A a \in Accounts :
    LET held == {e \in EscrowIds : Deal[e].client = a /\ Is(e, Holding)} IN
    book[a].reserved >= MapThenSumSet(LAMBDA e : Deal[e].amount, held)

(* RulingsAreFinal (disputes.service.ts:82, Dispute is not open for        *)
(* resolution): a dispute that has been resolved is not resolved again.    *)
RulingsAreFinal ==
  [][\A e \in EscrowIds :
       dispute[e] \in Resolutions => dispute'[e] = dispute[e]]_platformVars

(* ExpiryClaimCredits (escrow.service.ts:210, Expiry claim submitted. Funds *)
(* will be returned to the client if the ledger has passed.): an accepted   *)
(* claim on an expired escrow that the contract still holds is followed by  *)
(* the client's credit, whoever else claims it on chain.                    *)
ExpiryClaimCredits ==
  \A e \in EscrowIds :
    (/\ Is(e, Holding) /\ Expired(escrows[e], ledger)
     /\ \E i \in DOMAIN waiting : /\ waiting[i].kind = "CLAIM_EXPIRED"
                                  /\ waiting[i].escrow = e)
      ~> settled[e].client = 1
=============================================================================
