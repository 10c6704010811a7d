------------------------ MODULE EscrowPlatform_proofs ------------------------
(***************************************************************************)
(* Proofs about the platform: API, queue, workers and contract together,   *)
(* for any number of escrows, workers, requests, faults and crashes.       *)
(***************************************************************************)
EXTENDS EscrowPlatform, NexusEscrow_proofs

(* Which job a worker may have at each await. *)
PlaceInv(w) ==
  /\ At(w, {"init_escrow", "fund", "fail_lock", "fail_book"}) => Job(w).kind = "FUND_ESCROW"
  /\ At(w, Calling \ {"init_escrow", "fund"}) =>
       /\ Job(w).kind \in DOMAIN FirstCall
       /\ worker[w].pc = FirstCall[Job(w).kind]
  /\ At(w, {"observe"}) => Job(w).kind \in {"APPROVE_RELEASE", "COMPLETE_MILESTONE"}
  /\ At(w, {"commit"}) => Job(w).kind # "RELEASE_ESCROW"

(* A worker whose call has refunded the client and who is to record it. *)
Refunding(w) == At(w, {"commit"}) /\ Job(w).kind \in {"REFUND_ESCROW", "CLAIM_EXPIRED"}

(* What a worker has seen of the contract, or has made of it, still holds. *)
Started == EscrowStatus \ {"Pending", "Cancelled"}
SeenInv(w) ==
  LET e == Job(w).escrow  seen == worker[w].seen IN
  /\ At(w, {"observe"}) => Loaded(e)
  /\ At(w, {"commit"}) /\ Job(w).kind = "FUND_ESCROW" => Is(e, Started)
  /\ At(w, {"commit"}) /\ Job(w).kind \in {"APPROVE_RELEASE", "COMPLETE_MILESTONE"} =>
       /\ Loaded(e)
       /\ seen.client => escrows[e].client_approved
       /\ seen.freelancer => escrows[e].freelancer_approved
       /\ seen.milestones <= escrows[e].milestones_completed
  /\ Refunding(w) => Is(e, {"Refunded"})

(* The refund of an escrow is recorded under one of two keys.  The contract *)
(* refunds once, so at most one worker is to record it, and neither key is  *)
(* taken as long as it has not.                                            *)
Returned(e) == <<"refund", e>> \in keys \/ <<"expired", e>> \in keys
RefundInv ==
  /\ \A w \in Workers : Refunding(w) => ~Returned(Job(w).escrow)
  /\ \A v, w \in Workers :
       Refunding(v) /\ Refunding(w) /\ Job(v).escrow = Job(w).escrow => v = w

(* Each credit has taken its key; no release ever gets as far. *)
KeyInv(e) ==
  /\ <<"release", e>> \notin keys
  /\ settled[e].freelancer = IF <<"approve-release", e>> \in keys THEN 1 ELSE 0
  /\ settled[e].client = IF Returned(e) THEN 1 ELSE 0

PlatformInv ==
  /\ PlatformTypeOK /\ IInv
  /\ \A w \in Workers : PlaceInv(w) /\ SeenInv(w)
  /\ RefundInv
  /\ \A e \in EscrowIds : KeyInv(e)
  /\ BooksFollowChain

-----------------------------------------------------------------------------
(* Tables. *)

LEMMA FirstCallFact ==
  /\ DOMAIN FirstCall = {"RELEASE_ESCROW", "REFUND_ESCROW", "APPROVE_RELEASE",
                         "COMPLETE_MILESTONE", "CLAIM_EXPIRED"}
  /\ FirstCall["RELEASE_ESCROW"] = "release"
  /\ FirstCall["REFUND_ESCROW"] = "refund"
  /\ FirstCall["APPROVE_RELEASE"] = "approve_release"
  /\ FirstCall["COMPLETE_MILESTONE"] = "complete_milestone"
  /\ FirstCall["CLAIM_EXPIRED"] = "claim_expired"
  BY DEF FirstCall

LEMMA CallingFact ==
  Calling = {"init_escrow", "fund", "release", "refund", "approve_release",
             "complete_milestone", "claim_expired"}
  BY FirstCallFact DEF Calling

LEMMA SettlementFact ==
  /\ DOMAIN Settlement = {"RELEASE_ESCROW", "REFUND_ESCROW", "APPROVE_RELEASE", "CLAIM_EXPIRED"}
  /\ Settlement["RELEASE_ESCROW"] = [key |-> "release", status |-> "RELEASED"]
  /\ Settlement["APPROVE_RELEASE"] = [key |-> "approve-release", status |-> "RELEASED"]
  /\ Settlement["REFUND_ESCROW"] = [key |-> "refund", status |-> "REFUNDED"]
  /\ Settlement["CLAIM_EXPIRED"] = [key |-> "expired", status |-> "REFUNDED"]
  BY DEF Settlement

-----------------------------------------------------------------------------
(* The contract as the platform drives it: an escrow only moves forward. *)

Climbs(e) ==
  Loaded(e) =>
    /\ Loaded(e)'
    /\ escrows[e].status \in Started => escrows'[e].status \in Started
    /\ escrows[e].status \in {"Released", "Refunded"} => escrows'[e].status = escrows[e].status
    /\ escrows[e].client_approved => escrows'[e].client_approved
    /\ escrows[e].freelancer_approved => escrows'[e].freelancer_approved
    /\ escrows[e].milestones_completed <= escrows'[e].milestones_completed

LEMMA ChainCallStep ==
  ASSUME NEW fn, NEW e \in EscrowIds, NEW by \in Accounts, ChainCall(fn, e, by)
  PROVE  EscrowStep(e)
  BY PlatformAssumption DEF ChainCall, EscrowStep

LEMMA CallEffect ==
  ASSUME TypeInv, NEW e \in EscrowIds, NEW by, NEW fn, ChainCall(fn, e, by)
  PROVE  /\ \A x \in EscrowIds : Climbs(x)
         /\ fn \in {"approve_release", "complete_milestone"} => Loaded(e)'
         /\ fn = "fund" => Is(e, Started)'
         /\ fn \in {"refund", "claim_expired"} => ~Is(e, {"Refunded"}) /\ Is(e, {"Refunded"})'
         /\ fn \in Calling \ {"release"}
<1> DEFINE r == escrows[e]
           n == escrows'[e]
           Goal == /\ \A x \in EscrowIds : Climbs(x)
                   /\ fn \in {"approve_release", "complete_milestone"} => Loaded(e)'
                   /\ fn = "fund" => Is(e, Started)'
                   /\ fn \in {"refund", "claim_expired"} =>
                        ~Is(e, {"Refunded"}) /\ Is(e, {"Refunded"})'
                   /\ fn \in Calling \ {"release"}
<1>0. Loaded(e) => r \in EscrowRecord
  BY LoadedFact
<1>1. ASSUME NEW x \in EscrowRecord, Save(e, x)
      PROVE  n = x /\ Loaded(e)' /\ \A d \in EscrowIds \ {e} : Climbs(d)
  <2>1. n = x /\ \A d \in EscrowIds \ {e} : escrows'[d] = escrows[d]
    BY <1>1, SaveEffect
  <2>2. ASSUME NEW d \in EscrowIds \ {e}  PROVE Climbs(d)
    <3>1. Loaded(d) => escrows[d].milestones_completed \in Nat
      BY LoadedFact DEF EscrowRecord
    <3> QED  BY <2>1, <3>1 DEF Climbs, Loaded
  <2> QED  BY <2>1, <2>2, NexusAssumption DEF Loaded
<1>2. CASE fn = "init_escrow" /\ InitEscrow(e, Deal[e])
  <2>1. PICK x \in EscrowRecord : Save(e, x)
    BY <1>2, PlatformAssumption, NexusAssumption, NewEscrowFact DEF InitEscrow, TypeInv, TypeOK
  <2> QED  BY <1>1, <1>2, <2>1, CallingFact DEF InitEscrow, Climbs
<1>3. CASE fn = "fund" /\ Fund(e)
  <2> DEFINE f == [r EXCEPT !.status = "Funded", !.funded_ledger = ledger]
  <2>1. Loaded(e) /\ r \in EscrowRecord /\ Save(e, f) /\ r.status = "Pending"
    BY <1>0, <1>3 DEF Fund, Is
  <2>2. /\ f \in EscrowRecord /\ f.status = "Funded"
        /\ f.client_approved = r.client_approved /\ f.freelancer_approved = r.freelancer_approved
        /\ f.milestones_completed = r.milestones_completed
    BY <2>1 DEF EscrowRecord, EscrowStatus, TypeInv, TypeOK
  <2> HIDE DEF f
  <2> QED  BY <1>1, <1>3, <2>1, <2>2, CallingFact
           DEF Is, Climbs, EscrowRecord, Started, EscrowStatus
<1>4. CASE \/ fn = "refund" /\ Refund(e)
           \/ fn = "claim_expired" /\ ClaimExpired(e)
  <2>1. Loaded(e) /\ r.status \in Holding /\ Save(e, [r EXCEPT !.status = "Refunded"])
    BY <1>4 DEF Refund, ClaimExpired, RefundClient, SetStatus, Is, Open, Holding
  <2>2. [r EXCEPT !.status = "Refunded"] \in EscrowRecord
    BY <1>0, <2>1, StatusFact DEF EscrowStatus
  <2> QED  BY <1>0, <1>1, <1>4, <2>1, <2>2, CallingFact
           DEF Is, Climbs, EscrowRecord, Started, EscrowStatus, Open, Holding
<1>5. CASE fn = "complete_milestone" /\ CompleteMilestone(e)
  <2>1. /\ Loaded(e) /\ r \in EscrowRecord
        /\ Save(e, [r EXCEPT !.milestones_completed = r.milestones_completed + 1])
    BY <1>0, <1>5 DEF CompleteMilestone, Is
  <2>2. [r EXCEPT !.milestones_completed = r.milestones_completed + 1] \in EscrowRecord
    BY <2>1 DEF EscrowRecord
  <2> QED  BY <1>1, <1>5, <2>1, <2>2, CallingFact DEF Climbs, EscrowRecord
<1>6. CASE fn = "approve_release" /\ ApproveRelease(e, by)
  <2> DEFINE a == Endorse(r, by)
  <2>1. /\ Loaded(e) /\ r \in EscrowRecord /\ r.status \in Open /\ a \in EscrowRecord
    BY <1>0, <1>6, EndorseFact DEF ApproveRelease, Is
  <2>2. /\ a.status = r.status /\ a.milestones_completed = r.milestones_completed
        /\ r.client_approved => a.client_approved
        /\ r.freelancer_approved => a.freelancer_approved
    BY <2>1 DEF Endorse, EscrowRecord
  <2> HIDE DEF a
  <2>3. Save(e, a) \/ Save(e, [a EXCEPT !.status = "Released"])
    BY <1>6 DEF ApproveRelease, a
  <2>4. CASE Save(e, a)
    BY <1>1, <1>6, <2>1, <2>2, <2>4, CallingFact DEF Climbs, EscrowRecord
  <2>5. CASE Save(e, [a EXCEPT !.status = "Released"])
    <3>1. [a EXCEPT !.status = "Released"] \in EscrowRecord
      BY <2>1, StatusFact DEF EscrowStatus
    <3> QED  BY <1>1, <1>6, <2>1, <2>2, <2>5, <3>1, CallingFact
             DEF Climbs, EscrowRecord, Started, EscrowStatus, Open
  <2> QED  BY <2>3, <2>4, <2>5
<1> QED  BY <1>2, <1>3, <1>4, <1>5, <1>6 DEF ChainCall
-----------------------------------------------------------------------------
(* What the workers do. *)

WorkerTypes == worker \in [Workers -> Busy \cup {Idle}]
QueueTypes  == /\ waiting \in Seq(JobRecord)
               /\ IsABag(delayed) /\ BagToSet(delayed) \subseteq JobRecord
FlightTypes == inflight \subseteq [fn : Calling, escrow : EscrowIds, by : Accounts]
SettledTypes == settled \in [EscrowIds -> [client : Nat, freelancer : Nat]]
RowTypes ==
  db \in [EscrowIds ->
            [status : DbStatus \cup {"NONE"}, onChain : BOOLEAN,
             lock : LockStatus \cup {"NONE"}, clientApproved : BOOLEAN,
             freelancerApproved : BOOLEAN, milestonesCompleted : Nat]]

LEMMA Parts ==
  ASSUME PlatformTypeOK
  PROVE  WorkerTypes /\ QueueTypes /\ FlightTypes /\ SettledTypes /\ RowTypes
  BY DEF PlatformTypeOK, WorkerTypes, QueueTypes, FlightTypes, SettledTypes, RowTypes

LEMMA BusyFact ==
  ASSUME WorkerTypes, NEW w \in Workers, ~At(w, {"idle"})
  PROVE  /\ worker[w] \in Busy
         /\ Job(w) \in JobRecord
         /\ Job(w).kind \in Kinds /\ Job(w).escrow \in EscrowIds /\ Job(w).by \in Accounts
         /\ worker[w].seen.milestones \in Nat
<1>1. worker[w] \in Busy
  BY DEF WorkerTypes, At, Idle
<1> QED  BY <1>1 DEF Busy, JobRecord, Job

(* A worker that goes on in its handler keeps its job and what it has seen. *)
LEMMA GotoFact ==
  ASSUME WorkerTypes, NEW w \in Workers, ~At(w, {"idle"}), NEW pc, Goto(w, pc)
  PROVE  /\ worker'[w].pc = pc /\ Job(w)' = Job(w) /\ worker'[w].seen = worker[w].seen
         /\ \A v \in Workers \ {w} : worker'[v] = worker[v]
<1>1. worker[w] \in Busy
  BY BusyFact
<1> QED  BY <1>1 DEF WorkerTypes, Busy, Goto, Job

LEMMA RestFact ==
  ASSUME WorkerTypes, NEW w \in Workers, Rest(w)
  PROVE  /\ worker'[w].pc = "idle"
         /\ \A v \in Workers \ {w} : worker'[v] = worker[v]
  BY DEF WorkerTypes, Rest, Idle

LEMMA TakeFact ==
  ASSUME WorkerTypes, NEW w \in Workers, Take(w)
  PROVE  /\ worker'[w].pc = "read"
         /\ \A v \in Workers \ {w} : worker'[v] = worker[v]
  BY DEF WorkerTypes, Take

(* The moves of a worker.  An exception sends it to compensate or to rest. *)
Compensates(w) ==
  /\ ~At(w, {"idle"}) /\ Goto(w, "fail_lock") /\ Job(w).kind = "FUND_ESCROW"
Starts(w) ==
  /\ At(w, {"read"})
  /\ Goto(w, IF Job(w).kind # "FUND_ESCROW" THEN FirstCall[Job(w).kind]
             ELSE IF db[Job(w).escrow].onChain THEN "fund" ELSE "init_escrow")
Notifies(w) == At(w, {"commit"}) /\ Goto(w, "notify")
Moves(w) ==
  \/ Take(w) \/ Rest(w) \/ Compensates(w) \/ FailLock(w) \/ Starts(w)
  \/ Invoke(w) \/ Observe(w) \/ Notifies(w)

LEMMA ThrowMoves ==
  ASSUME NEW w \in Workers, ~At(w, {"idle"}), Throw(w)
  PROVE  Compensates(w) \/ Rest(w)
  BY DEF Throw, GiveUp, Compensates

LEMMA WorkerMoves ==
  ASSUME [PlatformNext]_platformVars
  PROVE  worker' = worker \/ \E w \in Workers : Moves(w)
<1>1. ASSUME NEW w \in Workers, WorkerStep(w) \/ FaultStep(w)  PROVE Moves(w)
  <2>1. CASE Take(w) \/ Invoke(w) \/ Observe(w) \/ FailLock(w)
    BY <2>1 DEF Moves
  <2>2. CASE Read(w)
    BY <2>2, ThrowMoves DEF Read, Moves, Starts, At
  <2>3. CASE Refused(w) \/ LoseAnswer(w) \/ Duplicate(w) \/ Fault(w)
    <3>1. Throw(w) /\ ~At(w, {"idle"})
      BY <2>3, CallingFact DEF Refused, LoseAnswer, Duplicate, Fault, At
    <3> QED  BY <3>1, ThrowMoves DEF Moves
  <2>4. CASE Commit(w)
    BY <2>4 DEF Commit, Moves, Notifies
  <2>5. CASE Notify(w) \/ FailBook(w) \/ Crash(w)
    BY <2>5 DEF Notify, FailBook, GiveUp, Crash, Moves
  <2> QED  BY <1>1, <2>1, <2>2, <2>3, <2>4, <2>5 DEF WorkerStep, FaultStep
<1>2. ASSUME NEW e \in EscrowIds, ApiStep(e)  PROVE worker' = worker
  BY <1>2 DEF ApiStep, CreateEscrow, CommitCreate, AbortCreate, ReleaseEscrow, RefundEscrow,
       RequestApproval, RequestMilestone, RequestExpiry, Submit, OpenDispute, SetUnderReview,
       ResolveByAdmin, Accept
<1>3. ASSUME \/ LedgerCloses
             \/ \E e \in EscrowIds : OutsiderClaims(e)
             \/ \E h \in handlers : WriteDispute(h)
             \/ \E j \in BagToSet(delayed) : Retry(j)
             \/ \E c \in inflight : Land(c) \/ Expire(c)
             \/ UNCHANGED platformVars
      PROVE  worker' = worker
  BY <1>3 DEF LedgerCloses, OutsiderClaims, OffChainUnchanged, WriteDispute, Retry, Land, Expire,
       platformVars
<1> QED  BY <1>1, <1>2, <1>3 DEF PlatformNext

LEMMA OthersWait ==
  ASSUME WorkerTypes, NEW w \in Workers, Moves(w), NEW v \in Workers \ {w}
  PROVE  worker'[v] = worker[v]
<1>1. CASE Rest(w) \/ Take(w)
  BY <1>1, RestFact, TakeFact
<1>2. CASE Compensates(w) \/ FailLock(w) \/ Starts(w) \/ Invoke(w) \/ Notifies(w)
  <2>1. ~At(w, {"idle"}) /\ \E pc : Goto(w, pc)
    BY <1>2, CallingFact DEF Compensates, FailLock, Starts, Invoke, Notifies, At
  <2> QED  BY <2>1, GotoFact
<1>3. CASE Observe(w)
  BY <1>3 DEF Observe, WorkerTypes
<1> QED  BY <1>1, <1>2, <1>3 DEF Moves

(* Where a worker stands decides which job it has. *)
LEMMA PlaceStep ==
  ASSUME WorkerTypes, [PlatformNext]_platformVars, NEW v \in Workers, PlaceInv(v)
  PROVE  PlaceInv(v)'
<1>1. CASE worker'[v] = worker[v]
  BY <1>1 DEF PlaceInv, At, Job
<1>2. ASSUME Moves(v)  PROVE PlaceInv(v)'
  <2>1. CASE Rest(v)
    BY <2>1, RestFact, CallingFact DEF PlaceInv, At
  <2>2. CASE Take(v)
    BY <2>2, TakeFact, CallingFact DEF PlaceInv, At
  <2>3. CASE Compensates(v)
    BY <2>3, GotoFact, CallingFact DEF PlaceInv, Compensates, At
  <2>4. CASE FailLock(v)
    BY <2>4, GotoFact, CallingFact DEF PlaceInv, FailLock, At
  <2>5. CASE Starts(v)
    <3>1. ~At(v, {"idle"}) /\ Job(v).kind \in Kinds
      BY <2>5, BusyFact DEF Starts, At
    <3>2. CASE Job(v).kind = "FUND_ESCROW"
      <4>1. worker'[v].pc \in {"fund", "init_escrow"} /\ Job(v)' = Job(v)
        BY <2>5, <3>1, <3>2, GotoFact DEF Starts
      <4> QED  BY <3>2, <4>1, CallingFact DEF PlaceInv, At
    <3>3. CASE Job(v).kind # "FUND_ESCROW"
      <4>1. worker'[v].pc = FirstCall[Job(v).kind] /\ Job(v)' = Job(v)
        BY <2>5, <3>1, <3>3, GotoFact DEF Starts
      <4>2. Job(v).kind \in DOMAIN FirstCall
        BY <3>1, <3>3, FirstCallFact DEF Kinds
      <4> QED  BY <4>1, <4>2, FirstCallFact, CallingFact DEF PlaceInv, At
    <3> QED  BY <3>2, <3>3
  <2>6. CASE Invoke(v)
    <3> DEFINE fn == worker[v].pc
    <3>1. /\ ~At(v, {"idle"}) /\ fn \in Calling \ {"release"}
          /\ Goto(v, AfterCall(fn))
      BY <2>6, CallingFact DEF Invoke, At, ChainCall
    <3>2. worker'[v].pc = AfterCall(fn) /\ Job(v)' = Job(v)
      BY <3>1, GotoFact
    <3>3. Job(v).kind = IF fn \in {"init_escrow", "fund"} THEN "FUND_ESCROW"
                        ELSE IF fn = "refund" THEN "REFUND_ESCROW"
                        ELSE IF fn = "approve_release" THEN "APPROVE_RELEASE"
                        ELSE IF fn = "complete_milestone" THEN "COMPLETE_MILESTONE"
                        ELSE "CLAIM_EXPIRED"
      BY <3>1, FirstCallFact, CallingFact DEF PlaceInv, At
    <3> QED  BY <3>1, <3>2, <3>3, CallingFact DEF PlaceInv, At, AfterCall
  <2>7. CASE Observe(v)
    <3>1. worker'[v].pc = "commit" /\ Job(v)' = Job(v) /\ ~At(v, {"idle"})
      <4>1. worker[v] \in Busy
        BY <2>7, BusyFact DEF Observe, At
      <4> QED  BY <2>7, <4>1 DEF Observe, Busy, WorkerTypes, Job, At
    <3> QED  BY <2>7, <3>1, CallingFact DEF PlaceInv, Observe, At
  <2>8. CASE Notifies(v)
    BY <2>8, GotoFact, CallingFact DEF PlaceInv, Notifies, At
  <2> QED  BY <1>2, <2>1, <2>2, <2>3, <2>4, <2>5, <2>6, <2>7, <2>8 DEF Moves
<1>3. worker'[v] = worker[v] \/ Moves(v)
  BY WorkerMoves, OthersWait
<1> QED  BY <1>1, <1>2, <1>3
-----------------------------------------------------------------------------
(* Every step of the platform is a step of the contract or leaves it alone, *)
(* and what the platform has recorded of an escrow stays true of it.       *)

LEMMA ChainMoves ==
  ASSUME PlatformTypeOK, [PlatformNext]_platformVars
  PROVE  \/ \E e \in EscrowIds, by \in Accounts, fn \in Calling : ChainCall(fn, e, by)
         \/ CloseLedger
         \/ UNCHANGED vars
<1>0. WorkerTypes /\ FlightTypes
  BY Parts
<1>1. ASSUME NEW e \in EscrowIds, ApiStep(e)  PROVE UNCHANGED vars
  BY <1>1 DEF ApiStep, CreateEscrow, CommitCreate, AbortCreate, ReleaseEscrow, RefundEscrow,
       RequestApproval, RequestMilestone, RequestExpiry, Submit, OpenDispute, SetUnderReview,
       ResolveByAdmin, Accept, chainVars
<1>2. ASSUME NEW e \in EscrowIds, OutsiderClaims(e)
      PROVE  \E by \in Accounts : ChainCall("claim_expired", e, by)
  BY <1>2, PlatformAssumption, NexusAssumption DEF OutsiderClaims, ChainCall
<1>3. ASSUME NEW w \in Workers, WorkerStep(w) \/ FaultStep(w)
      PROVE  Invoke(w) \/ UNCHANGED vars
  BY <1>3 DEF WorkerStep, FaultStep, Take, Read, Refused, Observe, Commit, Duplicate, Notify,
       FailLock, FailBook, LoseAnswer, Fault, Crash, chainVars
<1>4. ASSUME NEW w \in Workers, Invoke(w)
      PROVE  /\ ChainCall(worker[w].pc, Job(w).escrow, Job(w).by)
             /\ worker[w].pc \in Calling /\ Job(w).escrow \in EscrowIds /\ Job(w).by \in Accounts
  BY <1>0, <1>4, BusyFact, CallingFact DEF Invoke, At
<1>5. ASSUME NEW c \in inflight, Land(c)
      PROVE  /\ ChainCall(c.fn, c.escrow, c.by)
             /\ c.fn \in Calling /\ c.escrow \in EscrowIds /\ c.by \in Accounts
  BY <1>0, <1>5 DEF Land, FlightTypes
<1>6. ASSUME \/ \E h \in handlers : WriteDispute(h)
             \/ \E j \in BagToSet(delayed) : Retry(j)
             \/ \E c \in inflight : Expire(c)
             \/ UNCHANGED platformVars
      PROVE  UNCHANGED vars
  BY <1>6 DEF WriteDispute, Retry, Expire, platformVars, chainVars
<1>7. LedgerCloses => CloseLedger
  BY DEF LedgerCloses
<1>8. "claim_expired" \in Calling
  BY CallingFact
<1> QED  BY <1>1, <1>2, <1>3, <1>4, <1>5, <1>6, <1>7, <1>8 DEF PlatformNext

LEMMA ChainStep ==
  ASSUME PlatformTypeOK, [PlatformNext]_platformVars
  PROVE  [Next]_vars
  BY ChainMoves, ChainCallStep DEF Next

LEMMA ChainClimbs ==
  ASSUME PlatformTypeOK, TypeInv, [PlatformNext]_platformVars
  PROVE  \A e \in EscrowIds : Climbs(e)
<1>1. ASSUME escrows' = escrows, NEW e \in EscrowIds  PROVE Climbs(e)
  <2>1. Loaded(e) => escrows[e].milestones_completed \in Nat
    BY LoadedFact DEF EscrowRecord
  <2> QED  BY <1>1, <2>1 DEF Climbs, Loaded
<1>2. CloseLedger \/ UNCHANGED vars => escrows' = escrows
  BY DEF CloseLedger, vars
<1> QED  BY <1>1, <1>2, ChainMoves, CallEffect

LEMMA SeenStep ==
  ASSUME PlatformTypeOK, TypeInv, [PlatformNext]_platformVars,
         NEW v \in Workers, PlaceInv(v), SeenInv(v)
  PROVE  SeenInv(v)'
<1>0. WorkerTypes /\ \A e \in EscrowIds : Climbs(e)
  BY Parts, ChainClimbs
<1>1. CASE worker'[v] = worker[v]
  <2>1. CASE At(v, {"idle"})
    BY <1>1, <2>1 DEF SeenInv, Refunding, At, Job
  <2>2. CASE ~At(v, {"idle"})
    <3>0. PICK e \in EscrowIds : e = Job(v).escrow
      BY <1>0, <2>2, BusyFact
    <3>1. /\ Climbs(e) /\ worker[v].seen.milestones \in Nat
      BY <1>0, <2>2, BusyFact
    <3>2. Loaded(e) => escrows[e].milestones_completed \in Nat
      BY LoadedFact DEF EscrowRecord
    <3>3. Loaded(e)' => escrows'[e].milestones_completed \in Nat
      <4>1. TypeInv'
        BY ChainStep, NextTypes
      <4> QED  BY <4>1 DEF TypeInv, TypeOK, EscrowRecord, Loaded
    <3>4. /\ worker'[v].job.escrow = e /\ worker'[v].job = worker[v].job
          /\ worker'[v].seen = worker[v].seen /\ worker'[v].pc = worker[v].pc
      BY <1>1, <3>0 DEF Job
    <3>5. At(v, {"observe"}) => Loaded(e)'
      BY <3>0, <3>1 DEF SeenInv, Climbs
    <3>6. At(v, {"commit"}) /\ Job(v).kind = "FUND_ESCROW" => Is(e, Started)'
      BY <3>0, <3>1 DEF SeenInv, Climbs, Is, Loaded
    <3>7. ASSUME At(v, {"commit"}), Job(v).kind \in {"APPROVE_RELEASE", "COMPLETE_MILESTONE"}
          PROVE  /\ Loaded(e)'
                 /\ worker[v].seen.client => escrows'[e].client_approved
                 /\ worker[v].seen.freelancer => escrows'[e].freelancer_approved
                 /\ worker[v].seen.milestones <= escrows'[e].milestones_completed
      <4>1. Loaded(e) /\ worker[v].seen.milestones <= escrows[e].milestones_completed
        BY <3>0, <3>7 DEF SeenInv
      <4> QED  BY <3>0, <3>1, <3>2, <3>3, <3>7, <4>1 DEF SeenInv, Climbs
    <3>8. Refunding(v) => Is(e, {"Refunded"})'
      BY <3>0, <3>1 DEF SeenInv, Climbs, Is, Loaded
    <3> QED  BY <3>0, <3>4, <3>5, <3>6, <3>7, <3>8 DEF SeenInv, Refunding, Job, At, Is, Loaded
  <2> QED  BY <2>1, <2>2
<1>2. ASSUME Moves(v)  PROVE SeenInv(v)'
  <2>1. ASSUME worker'[v].pc \notin {"observe", "commit"}  PROVE SeenInv(v)'
    BY <2>1 DEF SeenInv, Refunding, At
  <2>2. CASE Rest(v) \/ Take(v)
    BY <1>0, <2>1, <2>2, RestFact, TakeFact
  <2>3. CASE Compensates(v) \/ FailLock(v) \/ Notifies(v)
    <3>1. worker'[v].pc \in {"fail_lock", "fail_book", "notify"}
      BY <1>0, <2>3, GotoFact DEF Compensates, FailLock, Notifies, At
    <3> QED  BY <2>1, <3>1
  <2>4. CASE Starts(v)
    <3>1. Job(v).kind \in Kinds
      BY <1>0, <2>4, BusyFact DEF Starts, At
    <3>2. worker'[v].pc \in Calling
      BY <1>0, <2>4, <3>1, GotoFact, FirstCallFact, CallingFact DEF Starts, At, Kinds
    <3> QED  BY <2>1, <3>2, CallingFact
  <2>5. CASE Invoke(v)
    <3> DEFINE fn == worker[v].pc
               e == Job(v).escrow
    <3>1. /\ ~At(v, {"idle"}) /\ fn \in Calling /\ Goto(v, AfterCall(fn))
          /\ ChainCall(fn, e, Job(v).by)
      BY <2>5, CallingFact DEF Invoke, At
    <3>2. /\ worker'[v].pc = AfterCall(fn) /\ Job(v)' = Job(v)
          /\ e \in EscrowIds /\ Job(v).by \in Accounts
      BY <1>0, <3>1, GotoFact, BusyFact
    <3>3. /\ fn \in {"approve_release", "complete_milestone"} => Loaded(e)'
          /\ fn = "fund" => Is(e, Started)'
          /\ fn \in {"refund", "claim_expired"} => Is(e, {"Refunded"})'
          /\ fn \in Calling \ {"release"}
      BY <3>1, <3>2, CallEffect
    <3>4. CASE fn = "init_escrow"
      BY <2>1, <3>2, <3>4 DEF AfterCall
    <3>5. CASE fn = "fund"
      <4>1. Job(v).kind = "FUND_ESCROW"
        BY <3>5 DEF PlaceInv, At
      <4> QED  BY <3>2, <3>3, <3>5, <4>1 DEF SeenInv, Refunding, AfterCall, At, Is, Loaded
    <3>6. CASE fn \in {"approve_release", "complete_milestone"}
      BY <3>2, <3>3, <3>6 DEF SeenInv, Refunding, AfterCall, At, Is, Loaded
    <3>7. CASE fn \in {"refund", "claim_expired"}
      <4>1. Job(v).kind \in {"REFUND_ESCROW", "CLAIM_EXPIRED"}
        BY <3>7, FirstCallFact, CallingFact DEF PlaceInv, At
      <4> QED  BY <3>2, <3>3, <3>7, <4>1 DEF SeenInv, Refunding, AfterCall, At, Is, Loaded
    <3> QED  BY <3>3, <3>4, <3>5, <3>6, <3>7, CallingFact
  <2>6. CASE Observe(v)
    <3> DEFINE e == Job(v).escrow
    <3>1. worker[v] \in Busy /\ e \in EscrowIds
      BY <1>0, <2>6, BusyFact DEF Observe, At
    <3>2. /\ worker'[v].pc = "commit" /\ Job(v)' = Job(v)
          /\ worker'[v].seen = Sight(escrows[e])
      BY <1>0, <2>6, <3>1 DEF Observe, Busy, WorkerTypes, Job
    <3>3. Loaded(e) /\ Job(v).kind \in {"APPROVE_RELEASE", "COMPLETE_MILESTONE"}
      BY <2>6 DEF Observe, SeenInv, PlaceInv
    <3>4. escrows[e].milestones_completed \in Nat
      BY <3>1, <3>3, LoadedFact DEF EscrowRecord
    <3>5. escrows' = escrows
      BY <2>6 DEF Observe, chainVars, vars
    <3> QED  BY <3>2, <3>3, <3>4, <3>5 DEF SeenInv, Refunding, At, Loaded, Sight
  <2> QED  BY <1>2, <2>2, <2>3, <2>4, <2>5, <2>6 DEF Moves
<1>3. worker'[v] = worker[v] \/ Moves(v)
  BY <1>0, WorkerMoves, OthersWait
<1> QED  BY <1>1, <1>2, <1>3
-----------------------------------------------------------------------------
(* What a step does to the rows, the keys and the credits. *)

LEMMA CreditFact ==
  ASSUME SettledTypes, NEW e \in EscrowIds, NEW side \in {"client", "freelancer"},
         settled' = [settled EXCEPT ![e][side] = @ + 1]
  PROVE  /\ settled'[e] \in [client : Nat, freelancer : Nat]
         /\ settled'[e].client = settled[e].client + (IF side = "client" THEN 1 ELSE 0)
         /\ settled'[e].freelancer = settled[e].freelancer + (IF side = "client" THEN 0 ELSE 1)
         /\ \A d \in EscrowIds \ {e} : settled'[d] = settled[d]
         /\ SettledTypes'
<1> DEFINE c == [settled[e] EXCEPT ![side] = @ + 1]
<1>1. settled[e] \in [client : Nat, freelancer : Nat]
  BY DEF SettledTypes
<1>2. /\ c \in [client : Nat, freelancer : Nat]
      /\ c.client = settled[e].client + (IF side = "client" THEN 1 ELSE 0)
      /\ c.freelancer = settled[e].freelancer + (IF side = "client" THEN 0 ELSE 1)
  BY <1>1
<1>3. settled' = [settled EXCEPT ![e] = c]
  OBVIOUS
<1> HIDE DEF c
<1> QED  BY <1>2, <1>3 DEF SettledTypes

(* A worker's commit credits at most one side, with a key not taken before. *)
Credits(w, e) ==
  LET s == Settlement[Job(w).kind] IN
  /\ Settles(w)
  /\ <<s.key, e>> \notin keys
  /\ keys' = keys \cup {<<s.key, e>>}
  /\ settled'[e].client =
       settled[e].client + (IF s.status = "RELEASED" THEN 0 ELSE 1)
  /\ settled'[e].freelancer =
       settled[e].freelancer + (IF s.status = "RELEASED" THEN 1 ELSE 0)
  /\ \A d \in EscrowIds \ {e} : settled'[d] = settled[d]

LEMMA SettleCredits ==
  ASSUME WorkerTypes, SettledTypes, NEW w \in Workers, NEW e \in EscrowIds, NEW row,
         Settles(w), Settle(Job(w).kind, e, row)
  PROVE  Credits(w, e) /\ SettledTypes'
<1> DEFINE s == Settlement[Job(w).kind]
           side == IF s.status = "RELEASED" THEN "freelancer" ELSE "client"
<1>1. side \in {"client", "freelancer"} /\ settled' = [settled EXCEPT ![e][side] = @ + 1]
  BY DEF Settle
<1>2. /\ <<s.key, e>> \notin keys
      /\ keys' = keys \cup {<<s.key, e>>}
  BY DEF Settle
<1>3. side = "client" <=> s.status # "RELEASED"
  OBVIOUS
<1> HIDE DEF s, side
<1>4. /\ settled'[e].client = settled[e].client + (IF side = "client" THEN 1 ELSE 0)
      /\ settled'[e].freelancer = settled[e].freelancer + (IF side = "client" THEN 0 ELSE 1)
      /\ \A d \in EscrowIds \ {e} : settled'[d] = settled[d]
      /\ SettledTypes'
  BY <1>1, CreditFact
<1> QED  BY <1>2, <1>3, <1>4 DEF Credits, s

(* What a commit may record of the contract in the row. *)
Records(w, e) ==
  /\ \A d \in EscrowIds \ {e} : db'[d] = db[d]
  /\ db'[e].onChain = (db[e].onChain \/ Job(w).kind = "FUND_ESCROW")
  /\ db'[e].clientApproved =
       IF Job(w).kind = "APPROVE_RELEASE" THEN worker[w].seen.client ELSE db[e].clientApproved
  /\ db'[e].freelancerApproved =
       IF Job(w).kind = "APPROVE_RELEASE" THEN worker[w].seen.freelancer
       ELSE db[e].freelancerApproved
  /\ db'[e].milestonesCompleted =
       IF Job(w).kind = "COMPLETE_MILESTONE" THEN worker[w].seen.milestones
       ELSE db[e].milestonesCompleted

LEMMA RowFact ==
  ASSUME RowTypes, NEW e \in EscrowIds
  PROVE  db[e] \in [status : DbStatus \cup {"NONE"}, onChain : BOOLEAN,
                    lock : LockStatus \cup {"NONE"}, clientApproved : BOOLEAN,
                    freelancerApproved : BOOLEAN, milestonesCompleted : Nat]
  BY DEF RowTypes

LEMMA SyncedFact ==
  ASSUME RowTypes, WorkerTypes, NEW w \in Workers, At(w, {"commit"}),
         NEW e \in EscrowIds, e = Job(w).escrow
  PROVE  /\ Synced(w) \in [status : DbStatus \cup {"NONE"}, onChain : BOOLEAN,
                           lock : LockStatus \cup {"NONE"}, clientApproved : BOOLEAN,
                           freelancerApproved : BOOLEAN, milestonesCompleted : Nat]
         /\ Synced(w).onChain = db[e].onChain
         /\ Synced(w).clientApproved =
              IF Job(w).kind = "APPROVE_RELEASE" THEN worker[w].seen.client
              ELSE db[e].clientApproved
         /\ Synced(w).freelancerApproved =
              IF Job(w).kind = "APPROVE_RELEASE" THEN worker[w].seen.freelancer
              ELSE db[e].freelancerApproved
         /\ Synced(w).milestonesCompleted =
              IF Job(w).kind = "COMPLETE_MILESTONE" THEN worker[w].seen.milestones
              ELSE db[e].milestonesCompleted
<1>1. worker[w].seen \in [client : BOOLEAN, freelancer : BOOLEAN, milestones : Nat]
  BY BusyFact DEF At, Busy
<1>2. db[e] \in [status : DbStatus \cup {"NONE"}, onChain : BOOLEAN,
                 lock : LockStatus \cup {"NONE"}, clientApproved : BOOLEAN,
                 freelancerApproved : BOOLEAN, milestonesCompleted : Nat]
  BY RowFact
<1>3. CASE Job(w).kind = "APPROVE_RELEASE"
  BY <1>1, <1>2, <1>3 DEF Synced
<1>4. CASE Job(w).kind = "COMPLETE_MILESTONE"
  BY <1>1, <1>2, <1>4 DEF Synced
<1>5. CASE Job(w).kind \notin {"APPROVE_RELEASE", "COMPLETE_MILESTONE"}
  BY <1>2, <1>5 DEF Synced
<1> QED  BY <1>3, <1>4, <1>5

LEMMA CommitEffect ==
  ASSUME PlatformTypeOK, NEW w \in Workers, Commit(w), NEW e \in EscrowIds, e = Job(w).escrow
  PROVE  /\ Records(w, e) /\ RowTypes' /\ SettledTypes'
         /\ Credits(w, e) \/ (~Settles(w) /\ keys' = keys /\ settled' = settled)
         /\ Rest(w) \/ Goto(w, "notify")
         /\ At(w, {"commit"}) /\ UNCHANGED vars
<1>0. WorkerTypes /\ RowTypes /\ SettledTypes
  BY Parts
<1> DEFINE Row == [status : DbStatus \cup {"NONE"}, onChain : BOOLEAN,
                   lock : LockStatus \cup {"NONE"}, clientApproved : BOOLEAN,
                   freelancerApproved : BOOLEAN, milestonesCompleted : Nat]
           y == Synced(w)
<1>1. db[e] \in Row /\ db \in [EscrowIds -> Row]
  BY <1>0, RowFact DEF RowTypes
<1>2. At(w, {"commit"}) /\ UNCHANGED vars /\ (Rest(w) \/ Goto(w, "notify"))
  BY DEF Commit, chainVars
<1>3. CASE Job(w).kind = "FUND_ESCROW"
  <2> DEFINE f == [db[e] EXCEPT !.status = "FUNDED", !.onChain = TRUE,
                                !.lock = IF @ = "PENDING" THEN "COMPLETED" ELSE @]
  <2>1. /\ f \in Row /\ f.onChain = TRUE /\ f.clientApproved = db[e].clientApproved
        /\ f.freelancerApproved = db[e].freelancerApproved
        /\ f.milestonesCompleted = db[e].milestonesCompleted
    BY <1>1 DEF DbStatus, LockStatus
  <2>2. /\ db' = [db EXCEPT ![e] = f] /\ ~Settles(w)
        /\ keys' = keys /\ settled' = settled
    BY <1>3, SettlementFact DEF Commit, Settles, Update, accounts
  <2> HIDE DEF f
  <2>3. Records(w, e)
    BY <1>1, <1>3, <2>1, <2>2 DEF Records
  <2> QED  BY <1>0, <1>1, <1>2, <2>1, <2>2, <2>3 DEF RowTypes, SettledTypes
<1>4. /\ y \in Row /\ y.onChain = db[e].onChain
      /\ y.clientApproved =
           IF Job(w).kind = "APPROVE_RELEASE" THEN worker[w].seen.client ELSE db[e].clientApproved
      /\ y.freelancerApproved =
           IF Job(w).kind = "APPROVE_RELEASE" THEN worker[w].seen.freelancer
           ELSE db[e].freelancerApproved
      /\ y.milestonesCompleted =
           IF Job(w).kind = "COMPLETE_MILESTONE" THEN worker[w].seen.milestones
           ELSE db[e].milestonesCompleted
  BY <1>0, <1>2, SyncedFact
<1>5. CASE Settles(w) /\ Settle(Job(w).kind, e, y)
  <2> DEFINE s == Settlement[Job(w).kind].status
             f == [y EXCEPT !.status = s]
  <2>1. s \in DbStatus
    BY <1>5, SettlementFact DEF Settles, DbStatus
  <2>2. db' = [db EXCEPT ![e] = f]
    BY <1>5 DEF Settle, Update
  <2> HIDE DEF s, y
  <2>3. /\ f \in Row /\ f.onChain = y.onChain /\ f.clientApproved = y.clientApproved
        /\ f.freelancerApproved = y.freelancerApproved
        /\ f.milestonesCompleted = y.milestonesCompleted
    BY <1>4, <2>1
  <2> HIDE DEF f
  <2>4. Credits(w, e) /\ SettledTypes'
    BY <1>0, <1>5, SettleCredits
  <2>5. Job(w).kind # "FUND_ESCROW"
    BY <1>5, SettlementFact DEF Settles
  <2>6. Records(w, e)
    BY <1>1, <1>4, <2>2, <2>3, <2>5 DEF Records
  <2> QED  BY <1>1, <1>2, <2>2, <2>3, <2>4, <2>6 DEF RowTypes
<1>6. CASE ~Settles(w) /\ Job(w).kind # "FUND_ESCROW" /\ Update(e, y) /\ UNCHANGED accounts
  <2>1. db' = [db EXCEPT ![e] = y] /\ keys' = keys /\ settled' = settled
    BY <1>6 DEF Update, accounts
  <2> HIDE DEF y
  <2>2. Records(w, e)
    BY <1>1, <1>4, <1>6, <2>1 DEF Records
  <2> QED  BY <1>0, <1>1, <1>2, <1>4, <1>6, <2>1, <2>2 DEF RowTypes, SettledTypes
<1> QED  BY <1>3, <1>5, <1>6 DEF Commit
(* Any other step leaves keys and credits, and of a row what it says of the *)
(* contract, except that a row may be written afresh.                      *)
Keeps(e) ==
  \/ /\ db'[e].onChain = db[e].onChain
     /\ db'[e].clientApproved = db[e].clientApproved
     /\ db'[e].freelancerApproved = db[e].freelancerApproved
     /\ db'[e].milestonesCompleted = db[e].milestonesCompleted
  \/ db'[e] = FreshRow

LEMMA RewriteKeeps ==
  ASSUME RowTypes, NEW x, NEW st \in DbStatus \cup {"NONE"}, NEW lk \in LockStatus \cup {"NONE"},
         db' = [db EXCEPT ![x] = [db[x] EXCEPT !.status = st, !.lock = lk]]
  PROVE  RowTypes' /\ \A e \in EscrowIds : Keeps(e)
<1> DEFINE Row == [status : DbStatus \cup {"NONE"}, onChain : BOOLEAN,
                   lock : LockStatus \cup {"NONE"}, clientApproved : BOOLEAN,
                   freelancerApproved : BOOLEAN, milestonesCompleted : Nat]
           f == [db[x] EXCEPT !.status = st, !.lock = lk]
<1>0. db \in [EscrowIds -> Row]
  BY DEF RowTypes
<1>1. CASE x \in EscrowIds
  <2>1. db[x] \in Row
    BY <1>0, <1>1
  <2>2. /\ f \in Row /\ f.onChain = db[x].onChain /\ f.clientApproved = db[x].clientApproved
        /\ f.freelancerApproved = db[x].freelancerApproved
        /\ f.milestonesCompleted = db[x].milestonesCompleted
    BY <2>1
  <2> HIDE DEF f
  <2> QED  BY <1>0, <1>1, <2>2 DEF RowTypes, Keeps
<1>2. CASE x \notin EscrowIds
  <2>1. db' = db
    BY <1>0, <1>2
  <2> QED  BY <2>1 DEF RowTypes, Keeps
<1> QED  BY <1>1, <1>2

LEMMA RowStep ==
  ASSUME PlatformTypeOK, [PlatformNext]_platformVars
  PROVE  \/ \E w \in Workers : Commit(w)
         \/ keys' = keys /\ settled' = settled /\ RowTypes' /\ \A e \in EscrowIds : Keeps(e)
<1> DEFINE Same == keys' = keys /\ settled' = settled
           Goal == Same /\ RowTypes' /\ \A e \in EscrowIds : Keeps(e)
<1>0. /\ RowTypes
      /\ handlers \subseteq [escrow : EscrowIds,
                             write : {"OPEN", "UNDER_REVIEW"} \cup Resolutions]
  BY Parts DEF PlatformTypeOK
<1>1. ASSUME db' = db  PROVE RowTypes' /\ \A e \in EscrowIds : Keeps(e)
  BY <1>0, <1>1 DEF RowTypes, Keeps
<1>2. ASSUME NEW x, NEW st \in DbStatus \cup {"NONE"}, Update(x, [db[x] EXCEPT !.status = st])
      PROVE  RowTypes' /\ \A e \in EscrowIds : Keeps(e)
  <2>1. CASE x \in EscrowIds
    <3>1. db[x].lock \in LockStatus \cup {"NONE"}
      BY <1>0, <2>1, RowFact
    <3>2. [db[x] EXCEPT !.status = st] = [db[x] EXCEPT !.status = st, !.lock = db[x].lock]
      BY <1>0, <2>1, RowFact
    <3> QED  BY <1>0, <1>2, <3>1, <3>2, RewriteKeeps DEF Update
  <2>2. CASE x \notin EscrowIds
    <3>1. db' = db
      BY <1>0, <1>2, <2>2 DEF Update, RowTypes
    <3> QED  BY <1>1, <3>1
  <2> QED  BY <2>1, <2>2
<1>3. ASSUME NEW e \in EscrowIds, CommitCreate(e)  PROVE Goal
  <2>1. Update(e, FreshRow) /\ Same
    BY <1>3 DEF CommitCreate
  <2>2. FreshRow \in [status : DbStatus \cup {"NONE"}, onChain : BOOLEAN,
                      lock : LockStatus \cup {"NONE"}, clientApproved : BOOLEAN,
                      freelancerApproved : BOOLEAN, milestonesCompleted : Nat]
    BY DEF FreshRow, DbStatus, LockStatus
  <2> QED  BY <1>0, <2>1, <2>2 DEF Update, RowTypes, Keeps
<1>4. ASSUME NEW h \in handlers, WriteDispute(h)  PROVE Goal
  <2>1. Same
    BY <1>4 DEF WriteDispute, accounts
  <2>2. CASE h.write \in DOMAIN DbOutcome
    <3>1. DbOutcome[h.write] \in DbStatus
      BY <2>2 DEF DbOutcome, DbStatus
    <3> QED  BY <1>2, <1>4, <2>1, <2>2, <3>1 DEF WriteDispute
  <2> QED  BY <1>1, <1>4, <2>1, <2>2 DEF WriteDispute
<1>5. ASSUME NEW w \in Workers, FailLock(w)  PROVE Goal
  <2>1. PICK e \in EscrowIds : e = Job(w).escrow
    BY <1>5, Parts, BusyFact DEF FailLock, At
  <2> DEFINE lk == IF db[e].lock = "PENDING" THEN "FAILED" ELSE db[e].lock
  <2>2. lk \in LockStatus \cup {"NONE"} /\ db[e].status \in DbStatus \cup {"NONE"}
    BY <1>0, RowFact DEF LockStatus
  <2>3. db' = [db EXCEPT ![e] = [db[e] EXCEPT !.lock = lk]] /\ Same
    BY <1>5, <2>1 DEF FailLock, Update, accounts
  <2> HIDE DEF lk
  <2>4. [db[e] EXCEPT !.lock = lk] = [db[e] EXCEPT !.status = db[e].status, !.lock = lk]
    BY <1>0, RowFact
  <2> QED  BY <1>0, <2>2, <2>3, <2>4, RewriteKeeps
<1>6. ASSUME NEW w \in Workers, FailBook(w)  PROVE Goal
  BY <1>1, <1>2, <1>6 DEF FailBook, DbStatus
<1>7. ASSUME NEW e \in EscrowIds, ApiStep(e), ~CommitCreate(e)  PROVE db' = db /\ Same
  BY <1>7 DEF ApiStep, CreateEscrow, AbortCreate, ReleaseEscrow, RefundEscrow, RequestApproval,
       RequestMilestone, RequestExpiry, Submit, OpenDispute, SetUnderReview, ResolveByAdmin,
       Accept, desk, accounts
<1>8. ASSUME NEW w \in Workers, WorkerStep(w) \/ FaultStep(w), ~Commit(w), ~FailLock(w),
             ~FailBook(w)
      PROVE  db' = db /\ Same
  BY <1>8 DEF WorkerStep, FaultStep, Take, Read, Invoke, Refused, Observe, Duplicate, Notify,
       LoseAnswer, Fault, Crash, desk, accounts
<1>9. ASSUME \/ LedgerCloses
             \/ \E e \in EscrowIds : OutsiderClaims(e)
             \/ \E j \in BagToSet(delayed) : Retry(j)
             \/ \E c \in inflight : Land(c) \/ Expire(c)
             \/ UNCHANGED platformVars
      PROVE  db' = db /\ Same
  BY <1>9 DEF LedgerCloses, OutsiderClaims, OffChainUnchanged, Retry, Land, Expire,
       platformVars, desk, accounts
<1> QED  BY <1>1, <1>3, <1>4, <1>5, <1>6, <1>7, <1>8, <1>9 DEF PlatformNext
-----------------------------------------------------------------------------
(* The refund of an escrow has one recorder. *)

(* A worker comes to record a refund only by making one. *)
LEMMA RefundingStep ==
  ASSUME PlatformTypeOK, TypeInv, [PlatformNext]_platformVars,
         NEW v \in Workers, PlaceInv(v), Refunding(v)'
  PROVE  /\ Job(v)' = Job(v)
         /\ \/ Refunding(v) /\ worker'[v] = worker[v]
            \/ /\ worker'[v] # worker[v] /\ Moves(v)
               /\ ~Is(Job(v).escrow, {"Refunded"})
               /\ escrows' # escrows
<1>0. WorkerTypes
  BY Parts
<1>1. CASE worker'[v] = worker[v]
  BY <1>1 DEF Refunding, At, Job
<1>2. ASSUME Moves(v), worker'[v] # worker[v]
      PROVE  /\ Job(v)' = Job(v) /\ ~Is(Job(v).escrow, {"Refunded"})
             /\ escrows' # escrows
  <2>0. worker'[v].pc = "commit" /\ Job(v)'.kind \in {"REFUND_ESCROW", "CLAIM_EXPIRED"}
    BY DEF Refunding, At
  <2>1. ~(Rest(v) \/ Take(v) \/ Compensates(v) \/ FailLock(v) \/ Notifies(v))
    BY <1>0, <2>0, RestFact, TakeFact, GotoFact DEF Compensates, FailLock, Notifies, At
  <2>2. ~Starts(v)
    <3>1. ASSUME Starts(v)  PROVE worker'[v].pc \in Calling
      <4>1. Job(v).kind \in Kinds
        BY <1>0, <3>1, BusyFact DEF Starts, At
      <4> QED  BY <1>0, <3>1, <4>1, GotoFact, FirstCallFact, CallingFact DEF Starts, At, Kinds
    <3> QED  BY <2>0, <3>1, CallingFact
  <2>3. ~Observe(v)
    <3>1. ASSUME Observe(v)
          PROVE  Job(v)' = Job(v) /\ Job(v).kind \in {"APPROVE_RELEASE", "COMPLETE_MILESTONE"}
      <4>1. worker[v] \in Busy
        BY <1>0, <3>1, BusyFact DEF Observe, At
      <4> QED  BY <1>0, <3>1, <4>1 DEF Observe, Busy, WorkerTypes, Job, PlaceInv
    <3> QED  BY <2>0, <3>1
  <2>4. Invoke(v)
    BY <1>2, <2>1, <2>2, <2>3 DEF Moves
  <2> DEFINE fn == worker[v].pc
  <2>5. /\ ~At(v, {"idle"}) /\ fn \in Calling /\ Goto(v, AfterCall(fn))
        /\ ChainCall(fn, Job(v).escrow, Job(v).by)
    BY <2>4, CallingFact DEF Invoke, At
  <2>6. PICK e \in EscrowIds : e = Job(v).escrow
    BY <1>0, <2>5, BusyFact
  <2>7. /\ worker'[v].pc = AfterCall(fn) /\ Job(v)' = Job(v)
    BY <1>0, <2>5, GotoFact
  <2>8. fn \in {"fund", "refund", "claim_expired"}
    <3>1. fn \in Calling \ {"release"}
      BY <2>5, <2>6, CallEffect
    <3> QED  BY <2>0, <2>7, <3>1, CallingFact DEF AfterCall
  <2>9. fn # "fund"
    BY <2>0, <2>7 DEF PlaceInv, At
  <2>10. ~Is(e, {"Refunded"}) /\ Is(e, {"Refunded"})'
    BY <2>5, <2>6, <2>8, <2>9, CallEffect
  <2> QED  BY <2>6, <2>7, <2>10 DEF Is, Loaded
<1>3. worker'[v] = worker[v] \/ Moves(v)
  BY <1>0, WorkerMoves, OthersWait
<1> QED  BY <1>1, <1>2, <1>3

LEMMA CommitRests ==
  ASSUME PlatformTypeOK, NEW w \in Workers, Commit(w)
  PROVE  ~Refunding(w)'
<1>1. WorkerTypes /\ At(w, {"commit"}) /\ (Rest(w) \/ Goto(w, "notify"))
  BY Parts DEF Commit
<1> QED  BY <1>1, RestFact, GotoFact DEF Refunding, At

(* Which key a commit takes, and whether it records a refund. *)
LEMMA KeyFact ==
  ASSUME PlatformTypeOK, NEW w \in Workers, Commit(w), PlaceInv(w), SeenInv(w),
         NEW e \in EscrowIds, Credits(w, e), e = Job(w).escrow
  PROVE  \/ /\ ~Refunding(w) /\ Job(w).kind = "APPROVE_RELEASE"
            /\ keys' = keys \cup {<<"approve-release", e>>}
            /\ <<"approve-release", e>> \notin keys
            /\ settled'[e].client = settled[e].client
            /\ settled'[e].freelancer = settled[e].freelancer + 1
         \/ /\ Refunding(w)
            /\ \/ keys' = keys \cup {<<"refund", e>>}
               \/ keys' = keys \cup {<<"expired", e>>}
            /\ settled'[e].client = settled[e].client + 1
            /\ settled'[e].freelancer = settled[e].freelancer
<1>1. At(w, {"commit"}) /\ Job(w).kind \in DOMAIN Settlement /\ Job(w).kind # "RELEASE_ESCROW"
  BY DEF Commit, Credits, Settles, PlaceInv
<1>2. settled[e].client \in Nat /\ settled[e].freelancer \in Nat
  BY Parts DEF SettledTypes
<1>3. CASE Job(w).kind = "APPROVE_RELEASE"
  BY <1>1, <1>2, <1>3, SettlementFact DEF Credits, Refunding
<1>4. CASE Job(w).kind = "REFUND_ESCROW"
  BY <1>1, <1>2, <1>4, SettlementFact DEF Credits, Refunding
<1>5. CASE Job(w).kind = "CLAIM_EXPIRED"
  BY <1>1, <1>2, <1>5, SettlementFact DEF Credits, Refunding
<1> QED  BY <1>1, <1>3, <1>4, <1>5, SettlementFact

(* A commit as the invariants need it: the escrow, and what is credited.   *)
LEMMA CommitCases ==
  ASSUME PlatformTypeOK, [PlatformNext]_platformVars
  PROVE  \/ keys' = keys /\ settled' = settled
         \/ \E w \in Workers, e \in EscrowIds :
              Commit(w) /\ e = Job(w).escrow /\ Credits(w, e) /\ escrows' = escrows
<1>1. ASSUME NEW w \in Workers, Commit(w)
      PROVE  \/ keys' = keys /\ settled' = settled
             \/ \E e \in EscrowIds : e = Job(w).escrow /\ Credits(w, e) /\ escrows' = escrows
  <2>1. PICK e \in EscrowIds : e = Job(w).escrow
    BY <1>1, Parts, BusyFact DEF Commit, At
  <2> QED  BY <1>1, <2>1, CommitEffect DEF vars
<1> QED  BY <1>1, RowStep

LEMMA RefundStep ==
  ASSUME PlatformInv, [PlatformNext]_platformVars
  PROVE  RefundInv'
<1>0. /\ PlatformTypeOK /\ TypeInv /\ WorkerTypes /\ RefundInv /\ BooksFollowChain
      /\ \A w \in Workers : PlaceInv(w) /\ SeenInv(w)
      /\ \A e \in EscrowIds : KeyInv(e)
  BY Parts DEF PlatformInv, IInv
<1>1. ASSUME NEW v \in Workers, Refunding(v)'
      PROVE  Job(v)' = Job(v) /\ Job(v).escrow \in EscrowIds
  <2>1. Job(v)' = Job(v)
    BY <1>0, <1>1, RefundingStep
  <2>2. ~At(v, {"idle"})
    <3>1. CASE At(v, {"idle"})
      <4>1. worker'[v].pc = "commit"
        BY <1>1 DEF Refunding, At
      <4>2. worker'[v] # worker[v]
        BY <3>1, <4>1 DEF At
      <4>3. Moves(v)
        BY <1>0, <4>2, WorkerMoves, OthersWait
      <4>4. Rest(v) \/ Take(v)
        BY <3>1, <4>3, CallingFact DEF Moves, Compensates, FailLock, Starts, Invoke, Observe,
              Notifies, At
      <4> QED  BY <1>0, <4>1, <4>4, RestFact, TakeFact
    <3> QED  BY <3>1
  <2> QED  BY <1>0, <2>1, <2>2, BusyFact
<1>2. ASSUME NEW v \in Workers, Refunding(v)'
      PROVE  ~Returned(Job(v).escrow)'
  <2>1. PICK e \in EscrowIds : e = Job(v).escrow
    BY <1>1, <1>2
  <2>2. ~Returned(e)
    <3>1. CASE Refunding(v)
      BY <1>0, <2>1, <3>1 DEF RefundInv
    <3>2. CASE ~Is(e, {"Refunded"})
      <4>1. settled[e].client = IF Returned(e) THEN 1 ELSE 0
        BY <1>0 DEF KeyInv
      <4>2. ~(settled[e].client > 0)
        BY <1>0, <3>2 DEF BooksFollowChain
      <4> QED  BY <4>1, <4>2
    <3> QED  BY <1>0, <1>2, <2>1, <3>1, <3>2, RefundingStep
  <2>3. ~Returned(e)'
    <3>1. CASE keys' = keys
      BY <2>2, <3>1 DEF Returned
    <3>2. ASSUME NEW w \in Workers, NEW d \in EscrowIds, Commit(w), d = Job(w).escrow,
                 Credits(w, d), escrows' = escrows
          PROVE  ~Returned(e)'
      <4>1. Refunding(v) /\ worker'[v] = worker[v]
        BY <1>0, <1>2, <3>2, RefundingStep
      <4>2. \/ ~Refunding(w) /\ keys' = keys \cup {<<"approve-release", d>>}
            \/ Refunding(w) /\ (\/ keys' = keys \cup {<<"refund", d>>}
                                \/ keys' = keys \cup {<<"expired", d>>})
        BY <1>0, <3>2, KeyFact
      <4>3. d = e /\ Refunding(w) => w = v
        BY <1>0, <2>1, <3>2, <4>1 DEF RefundInv
      <4>4. w # v
        BY <1>0, <1>2, <3>2, CommitRests
      <4> QED  BY <2>2, <4>2, <4>3, <4>4 DEF Returned
    <3> QED  BY <1>0, <3>1, <3>2, CommitCases
  <2>4. Job(v)' = Job(v)
    BY <1>1, <1>2
  <2> QED  BY <2>1, <2>3, <2>4
<1>3. ASSUME NEW u \in Workers, NEW v \in Workers, Refunding(u)', Refunding(v)',
             Job(u).escrow = Job(v).escrow
      PROVE  u = v
  <2>1. CASE Refunding(u) /\ Refunding(v)
    BY <1>0, <1>3, <2>1 DEF RefundInv
  <2>2. ASSUME NEW x \in Workers, NEW y \in Workers, Refunding(x)', Refunding(y)', x # y,
               Job(x).escrow = Job(y).escrow, ~Refunding(x)
        PROVE  FALSE
    <3>1. Moves(x) /\ ~Is(Job(x).escrow, {"Refunded"})
      BY <1>0, <2>2, RefundingStep
    <3>2. worker'[y] = worker[y]
      BY <1>0, <2>2, <3>1, OthersWait
    <3>3. Refunding(y)
      BY <1>0, <2>2, <3>2, RefundingStep
    <3> QED  BY <1>0, <2>2, <3>1, <3>3 DEF SeenInv
  <2> QED  BY <1>3, <2>1, <2>2
<1> QED  BY <1>1, <1>2, <1>3 DEF RefundInv
(* Keys and credits go together. *)
LEMMA KeyStep ==
  ASSUME PlatformInv, [PlatformNext]_platformVars, NEW e \in EscrowIds
  PROVE  KeyInv(e)'
<1>0. /\ PlatformTypeOK /\ RefundInv
      /\ \A w \in Workers : PlaceInv(w) /\ SeenInv(w)
      /\ KeyInv(e)
  BY DEF PlatformInv
<1>1. CASE keys' = keys /\ settled' = settled
  BY <1>0, <1>1 DEF KeyInv, Returned
<1>2. ASSUME NEW w \in Workers, NEW d \in EscrowIds, Commit(w), d = Job(w).escrow, Credits(w, d)
      PROVE  KeyInv(e)'
  <2>1. \/ /\ ~Refunding(w) /\ Job(w).kind = "APPROVE_RELEASE"
           /\ keys' = keys \cup {<<"approve-release", d>>}
           /\ <<"approve-release", d>> \notin keys
           /\ settled'[d].client = settled[d].client
           /\ settled'[d].freelancer = settled[d].freelancer + 1
        \/ /\ Refunding(w)
           /\ \/ keys' = keys \cup {<<"refund", d>>}
              \/ keys' = keys \cup {<<"expired", d>>}
           /\ settled'[d].client = settled[d].client + 1
           /\ settled'[d].freelancer = settled[d].freelancer
    BY <1>0, <1>2, KeyFact
  <2>2. CASE d # e
    <3>1. settled'[e] = settled[e]
      BY <1>2, <2>2 DEF Credits
    <3> QED  BY <1>0, <2>1, <2>2, <3>1 DEF KeyInv, Returned
  <2>3. CASE d = e
    <3>1. CASE /\ keys' = keys \cup {<<"approve-release", d>>}
               /\ <<"approve-release", d>> \notin keys
               /\ settled'[d].client = settled[d].client
               /\ settled'[d].freelancer = settled[d].freelancer + 1
      <4>1. /\ <<"release", e>> \notin keys' /\ <<"approve-release", e>> \in keys'
            /\ Returned(e)' = Returned(e)
        BY <1>0, <2>3, <3>1 DEF KeyInv, Returned
      <4>2. settled'[e].freelancer = 1 /\ settled'[e].client = IF Returned(e) THEN 1 ELSE 0
        BY <1>0, <2>3, <3>1 DEF KeyInv
      <4> QED  BY <4>1, <4>2 DEF KeyInv
    <3>2. CASE /\ Refunding(w)
               /\ \/ keys' = keys \cup {<<"refund", d>>}
                  \/ keys' = keys \cup {<<"expired", d>>}
               /\ settled'[d].client = settled[d].client + 1
               /\ settled'[d].freelancer = settled[d].freelancer
      <4>1. ~Returned(e)
        BY <1>0, <1>2, <2>3, <3>2 DEF RefundInv
      <4>2. /\ <<"release", e>> \notin keys' /\ Returned(e)'
            /\ <<"approve-release", e>> \in keys' <=> <<"approve-release", e>> \in keys
        BY <1>0, <2>3, <3>2 DEF KeyInv, Returned
      <4>3. settled[e].client = 0
        BY <1>0, <4>1 DEF KeyInv
      <4>4. settled'[e].freelancer = IF <<"approve-release", e>> \in keys THEN 1 ELSE 0
        BY <1>0, <2>3, <3>2 DEF KeyInv
      <4> QED  BY <2>3, <3>2, <4>2, <4>3, <4>4 DEF KeyInv
    <3> QED  BY <2>1, <3>1, <3>2
  <2> QED  BY <2>2, <2>3
<1> QED  BY <1>0, <1>1, <1>2, CommitCases

-----------------------------------------------------------------------------
(* The database does not run ahead. *)

(* What the row and the credits of an escrow say of the contract. *)
CreditTrue(e) ==
  /\ settled[e].freelancer > 0 => Is(e, {"Released"})
  /\ settled[e].client > 0 => Is(e, {"Refunded"})
RowTrue(e) ==
  /\ db[e].onChain => Is(e, Started)
  /\ db[e].clientApproved => Loaded(e) /\ escrows[e].client_approved
  /\ db[e].freelancerApproved => Loaded(e) /\ escrows[e].freelancer_approved
  /\ db[e].milestonesCompleted > 0 =>
       /\ Loaded(e)
       /\ db[e].milestonesCompleted <= escrows[e].milestones_completed

LEMMA BooksFact ==
  BooksFollowChain <=> \A e \in EscrowIds : CreditTrue(e) /\ RowTrue(e)
  BY DEF BooksFollowChain, CreditTrue, RowTrue, Started

(* What is true of the contract stays true. *)
LEMMA CreditStays ==
  ASSUME NEW e \in EscrowIds, Climbs(e), CreditTrue(e), settled'[e] = settled[e]
  PROVE  CreditTrue(e)'
  BY DEF CreditTrue, Climbs, Is, Loaded

LEMMA RowStays ==
  ASSUME NEW e \in EscrowIds, RowTypes, TypeInv, TypeInv', Climbs(e), RowTrue(e),
         NEW row, row = db'[e],
         row.onChain => db[e].onChain,
         row.clientApproved => db[e].clientApproved,
         row.freelancerApproved => db[e].freelancerApproved,
         row.milestonesCompleted \in {0, db[e].milestonesCompleted}
  PROVE  RowTrue(e)'
<1>1. Is(e, Started) => Is(e, Started)'
  BY DEF Is, Climbs, Loaded
<1>2. db[e].milestonesCompleted \in Nat
  BY RowFact
<1>3. Loaded(e) => /\ escrows[e].milestones_completed \in Nat
                   /\ escrows'[e].milestones_completed \in Nat
  BY DEF Climbs, Loaded, TypeInv, TypeOK, EscrowRecord
<1>4. row.milestonesCompleted > 0 =>
        Loaded(e)' /\ row.milestonesCompleted <= escrows'[e].milestones_completed
  BY <1>2, <1>3 DEF RowTrue, Climbs
<1>5. /\ row.onChain => Is(e, Started)'
      /\ row.clientApproved => Loaded(e)' /\ escrows'[e].client_approved
      /\ row.freelancerApproved => Loaded(e)' /\ escrows'[e].freelancer_approved
  BY <1>1 DEF RowTrue, Climbs
<1> QED  BY <1>4, <1>5 DEF RowTrue

LEMMA BooksStep ==
  ASSUME PlatformInv, [PlatformNext]_platformVars
  PROVE  BooksFollowChain'
<1>0. /\ PlatformTypeOK /\ TypeInv /\ TypeInv' /\ ApprovalsHonoured /\ RowTypes
      /\ \A w \in Workers : PlaceInv(w) /\ SeenInv(w)
      /\ \A e \in EscrowIds : Climbs(e) /\ CreditTrue(e) /\ RowTrue(e)
  <2>1. PlatformTypeOK /\ TypeInv
    BY DEF PlatformInv, IInv
  <2>2. TypeInv'
    BY <2>1, ChainStep, NextTypes
  <2> QED  BY <2>1, <2>2, Parts, ChainClimbs, BooksFact DEF PlatformInv, IInv
<1>1. ASSUME NEW e \in EscrowIds  PROVE CreditTrue(e)'
  <2>1. CASE settled' = settled
    BY <1>0, <2>1, CreditStays
  <2>2. ASSUME NEW w \in Workers, NEW d \in EscrowIds, Commit(w), d = Job(w).escrow,
               Credits(w, d), escrows' = escrows
        PROVE  CreditTrue(e)'
    <3>1. CASE d # e
      <4>1. settled'[e] = settled[e]
        BY <2>2, <3>1 DEF Credits
      <4> QED  BY <1>0, <4>1, CreditStays
    <3>2. CASE d = e /\ Job(w).kind = "APPROVE_RELEASE"
      <4>1. Loaded(e) /\ BothApproved(escrows[e])
        BY <1>0, <2>2, <3>2 DEF Credits, Settles, Commit, SeenInv, BothApproved
      <4>2. Is(e, {"Released"})
        BY <1>0, <4>1 DEF ApprovalsHonoured, Is
      <4>3. settled'[e].client = settled[e].client
        BY <1>0, <2>2, <3>2, KeyFact DEF Refunding
      <4> QED  BY <1>0, <2>2, <4>2, <4>3 DEF CreditTrue, Is, Loaded
    <3>3. CASE d = e /\ Job(w).kind # "APPROVE_RELEASE"
      <4>1. Refunding(w) /\ settled'[e].freelancer = settled[e].freelancer
        BY <1>0, <2>2, <3>3, KeyFact
      <4>2. Is(e, {"Refunded"})
        BY <1>0, <2>2, <3>3, <4>1 DEF SeenInv
      <4> QED  BY <1>0, <2>2, <4>1, <4>2 DEF CreditTrue, Is, Loaded
    <3> QED  BY <3>1, <3>2, <3>3
  <2> QED  BY <1>0, <2>1, <2>2, CommitCases
<1>2. ASSUME NEW e \in EscrowIds  PROVE RowTrue(e)'
  <2>1. CASE Keeps(e)
    <3>1. db[e].milestonesCompleted \in Nat
      BY <1>0, RowFact
    <3>2. CASE db'[e] = FreshRow
      BY <1>0, <3>2, RowStays DEF FreshRow
    <3>3. CASE db'[e] # FreshRow
      BY <1>0, <2>1, <3>3, RowStays DEF Keeps
    <3> QED  BY <3>2, <3>3
  <2>2. ASSUME NEW w \in Workers, Commit(w)  PROVE RowTrue(e)'
    <3>1. PICK d \in EscrowIds : d = Job(w).escrow
      BY <1>0, <2>2, Parts, BusyFact DEF Commit, At
    <3>2. Records(w, d) /\ At(w, {"commit"}) /\ escrows' = escrows /\ SeenInv(w)
      BY <1>0, <2>2, <3>1, CommitEffect DEF vars
    <3>3. CASE d # e
      <4>1. db'[e] = db[e]
        BY <3>2, <3>3 DEF Records
      <4> QED  BY <1>0, <4>1, RowStays
    <3>4. CASE d = e
      <4>1. db'[e].onChain => Is(e, Started)
        BY <1>0, <3>1, <3>2, <3>4 DEF Records, RowTrue, SeenInv
      <4>2. /\ db'[e].clientApproved => Loaded(e) /\ escrows[e].client_approved
            /\ db'[e].freelancerApproved => Loaded(e) /\ escrows[e].freelancer_approved
        BY <1>0, <3>1, <3>2, <3>4 DEF Records, RowTrue, SeenInv
      <4>3. db'[e].milestonesCompleted > 0 =>
              Loaded(e) /\ db'[e].milestonesCompleted <= escrows[e].milestones_completed
        BY <1>0, <3>1, <3>2, <3>4 DEF Records, RowTrue, SeenInv
      <4> QED  BY <3>2, <4>1, <4>2, <4>3 DEF RowTrue, Is, Loaded
    <3> QED  BY <3>3, <3>4
  <2> QED  BY <1>0, <2>1, <2>2, RowStep
<1>3. \A e \in EscrowIds : CreditTrue(e)' /\ RowTrue(e)'
  BY <1>1, <1>2
<1> QED  BY <1>3 DEF BooksFollowChain, CreditTrue, RowTrue, Started
-----------------------------------------------------------------------------
(* Types. *)

LEMMA BagAdd ==
  ASSUME NEW B, IsABag(B), NEW j
  PROVE  /\ IsABag(B (+) SetToBag({j}))
         /\ BagToSet(B (+) SetToBag({j})) = BagToSet(B) \cup {j}
<1> DEFINE C == B (+) SetToBag({j})
<1>1. DOMAIN SetToBag({j}) = {j} /\ SetToBag({j})[j] = 1
  BY DEF SetToBag
<1>2. C = [x \in DOMAIN B \cup {j} |->
             (IF x \in DOMAIN B THEN B[x] ELSE 0) + (IF x = j THEN 1 ELSE 0)]
  BY <1>1 DEF (+)
<1>3. \A x \in DOMAIN B : B[x] \in Nat /\ B[x] > 0
  BY DEF IsABag
<1>4. \A x \in DOMAIN B \cup {j} :
        LET n == (IF x \in DOMAIN B THEN B[x] ELSE 0) + (IF x = j THEN 1 ELSE 0)
        IN  n \in Nat /\ n > 0
  BY <1>3
<1>5. DOMAIN C = DOMAIN B \cup {j} /\ C = [x \in DOMAIN C |-> C[x]]
  BY <1>2
<1>6. \A x \in DOMAIN C : C[x] \in {n \in Nat : n > 0}
  BY <1>2, <1>4, <1>5
<1> HIDE DEF C
<1>7. C \in [DOMAIN C -> {n \in Nat : n > 0}]
  BY <1>5, <1>6
<1> QED  BY <1>5, <1>7 DEF IsABag, BagToSet, C

LEMMA BagRemove ==
  ASSUME NEW B, IsABag(B), NEW j
  PROVE  /\ IsABag(B (-) SetToBag({j}))
         /\ BagToSet(B (-) SetToBag({j})) \subseteq BagToSet(B)
  BY DEF IsABag, BagToSet, (-), SetToBag

LEMMA DealFact ==
  ASSUME NEW e \in EscrowIds
  PROVE  /\ Deal[e].client \in Accounts /\ Deal[e].freelancer \in Accounts
         /\ Deal[e].amount \in Nat /\ Debit(e) \in Nat
<1>1. Deal[e] \in Offer /\ Deal[e].amount \in Nat
  BY PlatformAssumption, NexusAssumption
<1>2. Deal[e].amount \div 100 \in Nat
  BY <1>1
<1> QED  BY <1>1, <1>2 DEF Offer, Debit, Fee

LEMMA NewJobFact ==
  ASSUME NEW kind \in Kinds, NEW e \in EscrowIds, NEW by \in Accounts
  PROVE  NewJob(kind, e, by) \in JobRecord
  BY PlatformAssumption DEF NewJob, JobRecord

(* The queue. *)

LEMMA GiveUpTypes ==
  ASSUME WorkerTypes, QueueTypes, NEW w \in Workers, ~At(w, {"idle"}), GiveUp(w)
  PROVE  QueueTypes'
<1> DEFINE j == [Job(w) EXCEPT !.left = @ - 1]
<1>1. /\ waiting' = waiting
      /\ \/ delayed' = delayed
         \/ Job(w).left > 1 /\ delayed' = delayed (+) SetToBag({j})
  BY DEF GiveUp
<1>2. Job(w).left > 1 => j \in JobRecord
  <2>1. Job(w) \in JobRecord
    BY BusyFact
  <2> QED  BY <2>1, PlatformAssumption DEF JobRecord
<1> HIDE DEF j
<1>3. CASE delayed' = delayed
  BY <1>1, <1>3 DEF QueueTypes
<1>4. CASE j \in JobRecord /\ delayed' = delayed (+) SetToBag({j})
  <2>1. IsABag(delayed') /\ BagToSet(delayed') = BagToSet(delayed) \cup {j}
    BY <1>4, BagAdd DEF QueueTypes
  <2> QED  BY <1>1, <1>4, <2>1 DEF QueueTypes
<1> QED  BY <1>1, <1>2, <1>3, <1>4

LEMMA ThrowTypes ==
  ASSUME WorkerTypes, QueueTypes, NEW w \in Workers, ~At(w, {"idle"}), Throw(w)
  PROVE  QueueTypes'
  BY GiveUpTypes DEF Throw, QueueTypes, queue

LEMMA QueueStep ==
  ASSUME PlatformTypeOK, [PlatformNext]_platformVars
  PROVE  QueueTypes'
<1>0. WorkerTypes /\ QueueTypes /\ Operator \in Accounts
  BY Parts, PlatformAssumption, NexusAssumption
<1>1. ASSUME UNCHANGED queue  PROVE QueueTypes'
  BY <1>0, <1>1 DEF QueueTypes, queue
<1>2. ASSUME NEW kind \in Kinds, NEW e \in EscrowIds, NEW by \in Accounts,
             Enqueue(kind, e, by), UNCHANGED delayed
      PROVE  QueueTypes'
  <2>1. NewJob(kind, e, by) \in JobRecord
    BY NewJobFact
  <2> QED  BY <1>0, <1>2, <2>1 DEF Enqueue, QueueTypes
<1>3. ASSUME NEW e \in EscrowIds, ApiStep(e)  PROVE QueueTypes'
  <2>1. CASE CreateEscrow(e)
    BY <1>2, <2>1, DealFact DEF CreateEscrow, Kinds
  <2>2. CASE ReleaseEscrow(e) \/ RequestMilestone(e) \/ RequestExpiry(e)
    BY <1>2, <2>2, DealFact DEF ReleaseEscrow, RequestMilestone, RequestExpiry, Submit, Kinds
  <2>3. CASE RefundEscrow(e) \/ \E by \in Accounts : RequestApproval(e, by)
    BY <1>0, <1>2, <2>3 DEF RefundEscrow, RequestApproval, Submit, Kinds
  <2>4. CASE CommitCreate(e) \/ AbortCreate(e)
    BY <1>1, <2>4 DEF CommitCreate, AbortCreate
  <2>5. CASE \/ OpenDispute(e) \/ SetUnderReview(e)
             \/ \E resolution \in Resolutions : ResolveByAdmin(e, resolution)
    BY <1>1, <2>5 DEF OpenDispute, SetUnderReview, ResolveByAdmin, Accept
  <2> QED  BY <1>3, <2>1, <2>2, <2>3, <2>4, <2>5 DEF ApiStep
<1>4. ASSUME NEW w \in Workers, WorkerStep(w) \/ FaultStep(w)  PROVE QueueTypes'
  <2>1. CASE Take(w)
    BY <1>0, <2>1 DEF Take, QueueTypes
  <2>2. CASE \/ Read(w) \/ Refused(w) \/ LoseAnswer(w) \/ Duplicate(w) \/ Fault(w)
    <3>1. ~At(w, {"idle"}) /\ (UNCHANGED queue \/ Throw(w))
      BY <2>2, CallingFact DEF Read, Refused, LoseAnswer, Duplicate, Fault, At
    <3> QED  BY <1>0, <1>1, <3>1, ThrowTypes
  <2>3. CASE FailBook(w)
    BY <1>0, <2>3, GiveUpTypes DEF FailBook, At
  <2>4. CASE Crash(w)
    <3> DEFINE j == [Job(w) EXCEPT !.stalls = @ + 1]
    <3>1. Job(w).stalls < MaxStalls => j \in JobRecord
      <4>1. Job(w) \in JobRecord
        BY <1>0, <2>4, BusyFact DEF Crash
      <4> QED  BY <4>1, PlatformAssumption DEF JobRecord
    <3>2. /\ delayed' = delayed
          /\ \/ waiting' = waiting
             \/ Job(w).stalls < MaxStalls /\ waiting' = <<j>> \o waiting
      BY <2>4 DEF Crash
    <3> HIDE DEF j
    <3>3. waiting' \in Seq(JobRecord)
      <4>1. waiting \in Seq(JobRecord)
        BY <1>0 DEF QueueTypes
      <4>2. j \in JobRecord => <<j>> \o waiting \in Seq(JobRecord)
        BY <4>1
      <4> QED  BY <3>1, <3>2, <4>1, <4>2
    <3> QED  BY <1>0, <3>2, <3>3 DEF QueueTypes
  <2>5. CASE Invoke(w) \/ Observe(w) \/ Commit(w) \/ Notify(w) \/ FailLock(w)
    BY <1>1, <2>5 DEF Invoke, Observe, Commit, Notify, FailLock
  <2> QED  BY <1>4, <2>1, <2>2, <2>3, <2>4, <2>5 DEF WorkerStep, FaultStep
<1>5. ASSUME NEW j \in BagToSet(delayed), Retry(j)  PROVE QueueTypes'
  <2>1. IsABag(delayed') /\ BagToSet(delayed') \subseteq JobRecord
    BY <1>0, <1>5, BagRemove DEF Retry, QueueTypes
  <2>2. j \in JobRecord /\ waiting \in Seq(JobRecord) /\ waiting' = Append(waiting, j)
    BY <1>0, <1>5 DEF Retry, QueueTypes
  <2>3. waiting' \in Seq(JobRecord)
    BY <2>2
  <2> QED  BY <2>1, <2>3 DEF QueueTypes
<1>6. ASSUME \/ LedgerCloses
             \/ \E e \in EscrowIds : OutsiderClaims(e)
             \/ \E h \in handlers : WriteDispute(h)
             \/ \E c \in inflight : Land(c) \/ Expire(c)
             \/ UNCHANGED platformVars
      PROVE  UNCHANGED queue
  BY <1>6 DEF LedgerCloses, OutsiderClaims, OffChainUnchanged, WriteDispute, Land, Expire,
       platformVars
<1> QED  BY <1>1, <1>3, <1>4, <1>5, <1>6 DEF PlatformNext
(* The workers. *)

LEMMA GotoTypes ==
  ASSUME WorkerTypes, NEW w \in Workers, ~At(w, {"idle"}),
         NEW pc \in {"read", "observe", "commit", "notify", "fail_lock", "fail_book"} \cup Calling,
         Goto(w, pc)
  PROVE  WorkerTypes'
<1> DEFINE b == [worker[w] EXCEPT !.pc = pc]
<1>1. worker[w] \in Busy
  BY BusyFact
<1>2. b \in Busy /\ worker' = [worker EXCEPT ![w] = b]
  BY <1>1 DEF Busy, Goto
<1> HIDE DEF b
<1> QED  BY <1>2 DEF WorkerTypes

LEMMA WorkerStepTypes ==
  ASSUME PlatformTypeOK, TypeInv, [PlatformNext]_platformVars,
         \A w \in Workers : PlaceInv(w) /\ SeenInv(w)
  PROVE  WorkerTypes'
<1>0. WorkerTypes /\ QueueTypes
  BY Parts
<1>1. ASSUME NEW w \in Workers, Moves(w)  PROVE WorkerTypes'
  <2>1. CASE Rest(w)
    BY <1>0, <2>1 DEF Rest, WorkerTypes
  <2>2. CASE Take(w)
    <3> DEFINE b == [pc |-> "read", job |-> Head(waiting), seen |-> Unseen]
    <3>1. Head(waiting) \in JobRecord
      BY <1>0, <2>2 DEF Take, QueueTypes
    <3>2. b \in Busy /\ worker' = [worker EXCEPT ![w] = b]
      BY <2>2, <3>1 DEF Busy, Unseen, Take
    <3> HIDE DEF b
    <3> QED  BY <1>0, <3>2 DEF WorkerTypes
  <2>3. CASE Compensates(w) \/ FailLock(w) \/ Notifies(w)
    BY <1>0, <2>3, GotoTypes DEF Compensates, FailLock, Notifies, At
  <2>4. CASE Starts(w)
    <3>1. Job(w).kind \in Kinds /\ ~At(w, {"idle"})
      BY <1>0, <2>4, BusyFact DEF Starts, At
    <3> DEFINE pc == IF Job(w).kind # "FUND_ESCROW" THEN FirstCall[Job(w).kind]
                     ELSE IF db[Job(w).escrow].onChain THEN "fund" ELSE "init_escrow"
    <3>2. pc \in Calling /\ Goto(w, pc)
      BY <2>4, <3>1, FirstCallFact, CallingFact DEF Starts, Kinds
    <3> HIDE DEF pc
    <3> QED  BY <1>0, <3>1, <3>2, GotoTypes
  <2>5. CASE Invoke(w)
    <3>1. /\ ~At(w, {"idle"}) /\ Goto(w, AfterCall(worker[w].pc))
          /\ AfterCall(worker[w].pc) \in {"fund", "observe", "commit"}
      BY <2>5, CallingFact DEF Invoke, At, AfterCall
    <3> QED  BY <1>0, <3>1, CallingFact, GotoTypes
  <2>6. CASE Observe(w)
    <3>1. PICK e \in EscrowIds : e = Job(w).escrow
      BY <1>0, <2>6, BusyFact DEF Observe, At
    <3> DEFINE s == Sight(escrows[e])
               b == [worker[w] EXCEPT !.pc = "commit", !.seen = s]
    <3>2. worker[w] \in Busy
      BY <1>0, <2>6, BusyFact DEF Observe, At
    <3>3. s \in [client : BOOLEAN, freelancer : BOOLEAN, milestones : Nat]
      <4>1. Loaded(e)
        BY <2>6, <3>1 DEF SeenInv, Observe
      <4> QED  BY <4>1, LoadedFact DEF EscrowRecord, Sight
    <3>4. worker' = [worker EXCEPT ![w] = b]
      BY <2>6, <3>1 DEF Observe
    <3> HIDE DEF s
    <3>5. b \in Busy
      BY <3>2, <3>3 DEF Busy
    <3> HIDE DEF b
    <3> QED  BY <1>0, <3>4, <3>5 DEF WorkerTypes
  <2> QED  BY <1>1, <2>1, <2>2, <2>3, <2>4, <2>5, <2>6 DEF Moves
<1> QED  BY <1>0, <1>1, WorkerMoves DEF WorkerTypes

(* The balances, the keys and the disputes. *)

BookTypes == book \in [Accounts -> [available : Int, reserved : Int, version : Nat]]

LEMMA AddFact ==
  ASSUME NEW b \in [Accounts -> [available : Int, reserved : Int, version : Nat]],
         NEW u \in Accounts, NEW a \in Int, NEW r \in Int
  PROVE  Add(b, u, a, r) \in [Accounts -> [available : Int, reserved : Int, version : Nat]]
<1> DEFINE Row == [available : Int, reserved : Int, version : Nat]
           n == [b[u] EXCEPT !.available = @ + a, !.reserved = @ + r]
<1>1. b[u] \in Row
  OBVIOUS
<1>2. n \in Row
  <2>1. b[u].available + a \in Int /\ b[u].reserved + r \in Int
    BY <1>1
  <2> QED  BY <1>1, <2>1
<1>3. Add(b, u, a, r) = [b EXCEPT ![u] = n]
  BY DEF Add
<1> HIDE DEF n
<1> QED  BY <1>2, <1>3

LEMMA BookStep ==
  ASSUME PlatformTypeOK, [PlatformNext]_platformVars
  PROVE  BookTypes'
<1>0. BookTypes /\ WorkerTypes
  BY Parts DEF PlatformTypeOK, BookTypes
<1>1. ASSUME NEW e \in EscrowIds, CommitCreate(e)  PROVE BookTypes'
  <2> DEFINE b == Add(book, Deal[e].client, -Debit(e), Deal[e].amount)
             u == Deal[e].client
             n == [b[u] EXCEPT !.version = @ + 1]
  <2>1. u \in Accounts /\ b \in [Accounts -> [available : Int, reserved : Int, version : Nat]]
    <3>1. u \in Accounts /\ -Debit(e) \in Int /\ Deal[e].amount \in Int
      BY DealFact
    <3> QED  BY <1>0, <3>1, AddFact DEF BookTypes
  <2>2. book' = [b EXCEPT ![u].version = @ + 1]
    BY <1>1 DEF CommitCreate
  <2> HIDE DEF b
  <2>3. n \in [available : Int, reserved : Int, version : Nat]
    <3>1. b[u] \in [available : Int, reserved : Int, version : Nat]
      BY <2>1
    <3> QED  BY <3>1
  <2>4. book' = [b EXCEPT ![u] = n]
    BY <2>2
  <2> HIDE DEF n
  <2> QED  BY <2>1, <2>3, <2>4 DEF BookTypes
<1>2. ASSUME NEW w \in Workers, Commit(w)  PROVE BookTypes'
  <2>1. PICK e \in EscrowIds : e = Job(w).escrow
    BY <1>0, <1>2, BusyFact DEF Commit, At
  <2>2. CASE UNCHANGED accounts
    BY <1>0, <2>2 DEF accounts, BookTypes
  <2>3. CASE Settle(Job(w).kind, e, Synced(w))
    <3>1. PICK paid \in {Deal[e].client, Deal[e].freelancer} :
            book' = Add(Add(book, Deal[e].client, 0, -Deal[e].amount), paid, Deal[e].amount, 0)
      BY <2>3 DEF Settle
    <3>2. /\ Deal[e].client \in Accounts /\ paid \in Accounts
          /\ -Deal[e].amount \in Int /\ Deal[e].amount \in Int
      BY DealFact
    <3>3. Add(book, Deal[e].client, 0, -Deal[e].amount)
            \in [Accounts -> [available : Int, reserved : Int, version : Nat]]
      BY <1>0, <3>2, AddFact DEF BookTypes
    <3> QED  BY <3>1, <3>2, <3>3, AddFact DEF BookTypes
  <2> QED  BY <1>2, <2>1, <2>2, <2>3 DEF Commit
<1>3. ASSUME NEW w \in Workers, FailBook(w)  PROVE BookTypes'
  <2>1. PICK e \in EscrowIds : e = Job(w).escrow
    BY <1>0, <1>3, BusyFact DEF FailBook, At
  <2>2. book' = book \/ book' = Add(book, Deal[e].client, Debit(e), -Deal[e].amount)
    BY <1>3, <2>1 DEF FailBook
  <2>3. /\ Deal[e].client \in Accounts /\ Debit(e) \in Int /\ -Deal[e].amount \in Int
    BY DealFact
  <2>4. Add(book, Deal[e].client, Debit(e), -Deal[e].amount)
          \in [Accounts -> [available : Int, reserved : Int, version : Nat]]
    BY <1>0, <2>3, AddFact DEF BookTypes
  <2> QED  BY <1>0, <2>2, <2>4 DEF BookTypes
<1>4. ASSUME NEW e \in EscrowIds, ApiStep(e), ~CommitCreate(e)  PROVE book' = book
  BY <1>4 DEF ApiStep, CreateEscrow, AbortCreate, ReleaseEscrow, RefundEscrow, RequestApproval,
       RequestMilestone, RequestExpiry, Submit, OpenDispute, SetUnderReview, ResolveByAdmin,
       Accept, accounts
<1>5. ASSUME NEW w \in Workers, WorkerStep(w) \/ FaultStep(w), ~Commit(w), ~FailBook(w)
      PROVE  book' = book
  BY <1>5 DEF WorkerStep, FaultStep, Take, Read, Invoke, Refused, Observe, Duplicate, Notify,
       FailLock, LoseAnswer, Fault, Crash, accounts
<1>6. ASSUME \/ LedgerCloses
             \/ \E e \in EscrowIds : OutsiderClaims(e)
             \/ \E h \in handlers : WriteDispute(h)
             \/ \E j \in BagToSet(delayed) : Retry(j)
             \/ \E c \in inflight : Land(c) \/ Expire(c)
             \/ UNCHANGED platformVars
      PROVE  book' = book
  BY <1>6 DEF LedgerCloses, OutsiderClaims, OffChainUnchanged, WriteDispute, Retry, Land, Expire,
       platformVars, accounts
<1> QED  BY <1>0, <1>1, <1>2, <1>3, <1>4, <1>5, <1>6 DEF PlatformNext, BookTypes

KeyTypes == keys \subseteq {Settlement[k].key : k \in DOMAIN Settlement} \X EscrowIds

LEMMA KeyStepTypes ==
  ASSUME PlatformTypeOK, [PlatformNext]_platformVars
  PROVE  KeyTypes'
<1>0. KeyTypes
  BY DEF PlatformTypeOK, KeyTypes
<1>1. ASSUME NEW w \in Workers, NEW e \in EscrowIds, Credits(w, e)  PROVE KeyTypes'
  BY <1>0, <1>1 DEF Credits, Settles, KeyTypes
<1> QED  BY <1>0, <1>1, CommitCases DEF KeyTypes

DeskTypes ==
  /\ dispute \in [EscrowIds -> {"NONE", "OPEN", "UNDER_REVIEW"} \cup Resolutions]
  /\ creation \in [EscrowIds -> {"none", "open", "done", "aborted"}]
  /\ handlers \subseteq [escrow : EscrowIds, write : {"OPEN", "UNDER_REVIEW"} \cup Resolutions]

LEMMA DeskStep ==
  ASSUME PlatformTypeOK, [PlatformNext]_platformVars
  PROVE  DeskTypes'
<1>0. DeskTypes
  BY DEF PlatformTypeOK, DeskTypes
<1>1. ASSUME UNCHANGED <<dispute, creation, handlers>>  PROVE DeskTypes'
  BY <1>0, <1>1 DEF DeskTypes
<1>2. ASSUME NEW e \in EscrowIds, ApiStep(e)  PROVE DeskTypes'
  <2>1. CASE CreateEscrow(e) \/ CommitCreate(e) \/ AbortCreate(e)
    BY <1>0, <2>1 DEF CreateEscrow, CommitCreate, AbortCreate, DeskTypes
  <2>2. ASSUME NEW write \in {"OPEN", "UNDER_REVIEW"} \cup Resolutions, Accept(e, write)
        PROVE  DeskTypes'
    BY <1>0, <2>2 DEF Accept, DeskTypes
  <2>3. CASE \/ OpenDispute(e) \/ SetUnderReview(e)
             \/ \E resolution \in Resolutions : ResolveByAdmin(e, resolution)
    BY <2>2, <2>3 DEF OpenDispute, SetUnderReview, ResolveByAdmin
  <2>4. CASE \/ ReleaseEscrow(e) \/ RefundEscrow(e)
             \/ \E by \in Accounts : RequestApproval(e, by)
             \/ RequestMilestone(e) \/ RequestExpiry(e)
    BY <1>1, <2>4 DEF ReleaseEscrow, RefundEscrow, RequestApproval, RequestMilestone,
         RequestExpiry, Submit, desk
  <2> QED  BY <1>2, <2>1, <2>3, <2>4 DEF ApiStep
<1>3. ASSUME NEW h \in handlers, WriteDispute(h)  PROVE DeskTypes'
  <2>1. h.escrow \in EscrowIds /\ h.write \in {"OPEN", "UNDER_REVIEW"} \cup Resolutions
    BY <1>0 DEF DeskTypes
  <2> QED  BY <1>0, <1>3, <2>1 DEF WriteDispute, DeskTypes
<1>4. ASSUME NEW w \in Workers, WorkerStep(w) \/ FaultStep(w)
      PROVE  UNCHANGED <<dispute, creation, handlers>>
  BY <1>4 DEF WorkerStep, FaultStep, Take, Read, Invoke, Refused, Observe, Commit, Duplicate,
       Notify, FailLock, FailBook, LoseAnswer, Fault, Crash, desk
<1>5. ASSUME \/ LedgerCloses
             \/ \E e \in EscrowIds : OutsiderClaims(e)
             \/ \E j \in BagToSet(delayed) : Retry(j)
             \/ \E c \in inflight : Land(c) \/ Expire(c)
             \/ UNCHANGED platformVars
      PROVE  UNCHANGED <<dispute, creation, handlers>>
  BY <1>5 DEF LedgerCloses, OutsiderClaims, OffChainUnchanged, Retry, Land, Expire,
       platformVars, desk
<1> QED  BY <1>1, <1>2, <1>3, <1>4, <1>5 DEF PlatformNext

LEMMA FlightStep ==
  ASSUME PlatformTypeOK, [PlatformNext]_platformVars
  PROVE  FlightTypes'
<1>0. WorkerTypes /\ FlightTypes
  BY Parts
<1>1. ASSUME NEW w \in Workers, LoseAnswer(w)  PROVE FlightTypes'
  <2>1. /\ worker[w].pc \in Calling /\ Job(w).escrow \in EscrowIds /\ Job(w).by \in Accounts
    BY <1>0, <1>1, BusyFact, CallingFact DEF LoseAnswer, At
  <2> QED  BY <1>0, <1>1, <2>1 DEF LoseAnswer, FlightTypes
<1>2. ASSUME NEW w \in Workers, WorkerStep(w) \/ FaultStep(w), ~LoseAnswer(w)
      PROVE  inflight' \in {inflight, {}}
  BY <1>2 DEF WorkerStep, FaultStep, Take, Read, Invoke, Refused, Observe, Commit, Duplicate,
       Notify, FailLock, FailBook, Fault, Crash
<1>3. ASSUME NEW e \in EscrowIds, ApiStep(e)  PROVE inflight' = inflight
  BY <1>3 DEF ApiStep, CreateEscrow, CommitCreate, AbortCreate, ReleaseEscrow, RefundEscrow,
       RequestApproval, RequestMilestone, RequestExpiry, Submit, OpenDispute, SetUnderReview,
       ResolveByAdmin, Accept
<1>4. ASSUME \/ LedgerCloses
             \/ \E e \in EscrowIds : OutsiderClaims(e)
             \/ \E h \in handlers : WriteDispute(h)
             \/ \E j \in BagToSet(delayed) : Retry(j)
             \/ \E c \in inflight : Land(c) \/ Expire(c)
             \/ UNCHANGED platformVars
      PROVE  inflight' \subseteq inflight
  BY <1>4 DEF LedgerCloses, OutsiderClaims, OffChainUnchanged, WriteDispute, Retry, Land, Expire,
       platformVars
<1> QED  BY <1>0, <1>1, <1>2, <1>3, <1>4 DEF PlatformNext, FlightTypes
-----------------------------------------------------------------------------
(* The invariant holds at the start and at every step. *)

(* The contract has been initialised for the operator and knows no escrow. *)
LEMMA InitContract ==
  ASSUME PlatformInit
  PROVE  IInv
<1>1. Operator \in Accounts
  BY PlatformAssumption, NexusAssumption
<1>2. FeeBelowAmount
  BY DEF PlatformInit, FeeBelowAmount, Loaded
<1>3. balance \in [Tokens -> [Accounts \cup {Contract} -> Nat]]
  BY NexusAssumption DEF PlatformInit
<1>4. moved \in [EscrowIds -> [deposited : Nat, client : Nat, freelancer : Nat, admin : Nat]]
  BY DEF PlatformInit, NothingMoved
<1>5. escrows \in [EscrowIds -> EscrowRecord \cup {NoEscrow}]
  BY DEF PlatformInit
<1>6. feeBps \in 0..MaxFeeBps /\ ledger \in Nat /\ ledger >= 1
  BY DEF PlatformInit
<1>7. /\ admin \in Accounts \cup {NoAccount} /\ paused \in BOOLEAN
      /\ call.signer \in Accounts \cup {NoAccount}
  BY <1>1 DEF PlatformInit
<1>8. TypeInv
  BY <1>2, <1>3, <1>4, <1>5, <1>6, <1>7 DEF TypeInv, TypeOK
<1>9. \A e \in EscrowIds : ~Loaded(e) /\ moved[e] = NothingMoved
  BY DEF PlatformInit, Loaded
<1> QED  BY <1>6, <1>8, <1>9, IInvByEscrow DEF Payouts, Approvals, Progress

LEMMA InitPlatform ==
  ASSUME PlatformInit
  PROVE  PlatformInv
<1>1. IInv /\ TypeOK
  BY InitContract DEF IInv, TypeInv
<1>2. RowTypes /\ DeskTypes /\ BookTypes /\ KeyTypes /\ SettledTypes
  <2>1. NoRow \in [status : DbStatus \cup {"NONE"}, onChain : BOOLEAN,
                   lock : LockStatus \cup {"NONE"}, clientApproved : BOOLEAN,
                   freelancerApproved : BOOLEAN, milestonesCompleted : Nat]
    BY DEF NoRow, FreshRow
  <2>2. RowTypes
    BY <2>1 DEF PlatformInit, RowTypes
  <2>3. BookTypes
    BY PlatformAssumption DEF PlatformInit, BookTypes
  <2>4. DeskTypes /\ KeyTypes /\ SettledTypes
    BY DEF PlatformInit, DeskTypes, KeyTypes, SettledTypes
  <2> QED  BY <2>2, <2>3, <2>4
<1>3. WorkerTypes /\ QueueTypes /\ FlightTypes
  <2>1. IsABag(delayed) /\ BagToSet(delayed) \subseteq JobRecord
    BY DEF PlatformInit, EmptyBag, SetToBag, IsABag, BagToSet
  <2> QED  BY <2>1 DEF PlatformInit, WorkerTypes, QueueTypes, FlightTypes
<1>4. PlatformTypeOK
  BY <1>1, <1>2, <1>3 DEF PlatformTypeOK, RowTypes, DeskTypes, BookTypes, KeyTypes,
     SettledTypes, WorkerTypes, QueueTypes, FlightTypes
<1>5. \A w \in Workers : PlaceInv(w) /\ SeenInv(w) /\ ~Refunding(w)
  <2> SUFFICES ASSUME NEW w \in Workers
               PROVE  PlaceInv(w) /\ SeenInv(w) /\ ~Refunding(w)
    OBVIOUS
  <2>1. \A pcs : At(w, pcs) <=> "idle" \in pcs
    BY DEF PlatformInit, At, Idle
  <2> QED  BY <2>1, CallingFact DEF PlaceInv, SeenInv, Refunding
<1>6. \A e \in EscrowIds : KeyInv(e)
  BY DEF PlatformInit, KeyInv, Returned
<1>7. BooksFollowChain
  <2> SUFFICES ASSUME NEW e \in EscrowIds
               PROVE  CreditTrue(e) /\ RowTrue(e)
    BY BooksFact
  <2>1. settled[e].freelancer = 0 /\ settled[e].client = 0
    BY DEF PlatformInit
  <2>2. /\ ~db[e].onChain /\ ~db[e].clientApproved /\ ~db[e].freelancerApproved
        /\ db[e].milestonesCompleted = 0
    BY DEF PlatformInit, NoRow, FreshRow
  <2> QED  BY <2>1, <2>2 DEF CreditTrue, RowTrue
<1> QED  BY <1>1, <1>4, <1>5, <1>6, <1>7 DEF PlatformInv, RefundInv

LEMMA NextPlatform ==
  ASSUME PlatformInv, [PlatformNext]_platformVars
  PROVE  PlatformInv'
<1>0. /\ PlatformTypeOK /\ IInv /\ TypeInv /\ WorkerTypes
      /\ \A w \in Workers : PlaceInv(w) /\ SeenInv(w)
  BY Parts DEF PlatformInv, IInv
<1>1. IInv' /\ TypeOK'
  BY <1>0, ChainStep, NextIInv DEF IInv, TypeInv
<1>2. RowTypes' /\ SettledTypes'
  <2>1. ASSUME NEW w \in Workers, Commit(w)  PROVE RowTypes' /\ SettledTypes'
    <3>1. PICK e \in EscrowIds : e = Job(w).escrow
      BY <1>0, <2>1, BusyFact DEF Commit, At
    <3> QED  BY <1>0, <2>1, <3>1, CommitEffect
  <2>2. settled' = settled => SettledTypes'
    BY <1>0, Parts DEF SettledTypes
  <2> QED  BY <1>0, <2>1, <2>2, RowStep
<1>3. WorkerTypes' /\ QueueTypes' /\ FlightTypes' /\ BookTypes' /\ KeyTypes' /\ DeskTypes'
  BY <1>0, WorkerStepTypes, QueueStep, FlightStep, BookStep, KeyStepTypes, DeskStep
<1>4. PlatformTypeOK'
  BY <1>1, <1>2, <1>3 DEF PlatformTypeOK, RowTypes, DeskTypes, BookTypes, KeyTypes,
     SettledTypes, WorkerTypes, QueueTypes, FlightTypes
<1>5. \A w \in Workers : PlaceInv(w)' /\ SeenInv(w)'
  BY <1>0, PlaceStep, SeenStep
<1>6. RefundInv' /\ BooksFollowChain' /\ \A e \in EscrowIds : KeyInv(e)'
  BY RefundStep, BooksStep, KeyStep
<1> QED  BY <1>1, <1>4, <1>5, <1>6 DEF PlatformInv

LEMMA SpecPlatformInv == PlatformSpec => []PlatformInv
  BY InitPlatform, NextPlatform, PTL DEF PlatformSpec

(* A balance is credited under a key; the keys of a release and of a       *)
(* refund exclude each other because the contract does not do both.        *)
LEMMA InvSettlesOnce ==
  ASSUME PlatformInv
  PROVE  SettlesOnce
<1> SUFFICES ASSUME NEW e \in EscrowIds
             PROVE  settled[e].client + settled[e].freelancer <= 1
  BY DEF SettlesOnce
<1>1. /\ settled[e].client \in {0, 1} /\ settled[e].freelancer \in {0, 1}
  BY DEF PlatformInv, KeyInv
<1>2. ~(settled[e].client = 1 /\ settled[e].freelancer = 1)
  BY DEF PlatformInv, BooksFollowChain, Is
<1> QED  BY <1>1, <1>2

(* PlatformWellTyped: rows, balances, jobs, workers and transactions in    *)
(* flight keep their types, and the queue's back-off set stays a bag.      *)
THEOREM PlatformWellTyped == PlatformSpec => []PlatformTypeOK
<1>1. PlatformInv => PlatformTypeOK
  BY DEF PlatformInv
<1> QED  BY <1>1, SpecPlatformInv, PTL

(* SettledOnce: whatever is retried, lost or duplicated and whoever claims *)
(* on chain, an escrow's settlement is credited at most once, to one side. *)
THEOREM SettledOnce == PlatformSpec => []SettlesOnce
<1>1. PlatformInv => SettlesOnce
  BY InvSettlesOnce
<1> QED  BY <1>1, SpecPlatformInv, PTL

(* BooksNeverAhead: the database records a credit, a contract id, an       *)
(* approval or a milestone only after the contract has it.                 *)
THEOREM BooksNeverAhead == PlatformSpec => []BooksFollowChain
<1>1. PlatformInv => BooksFollowChain
  BY DEF PlatformInv
<1> QED  BY <1>1, SpecPlatformInv, PTL

(* PlatformKeepsPromise: the workers, their retries and the transactions   *)
(* that land late drive the contract through steps of EscrowPromise only.  *)
THEOREM PlatformKeepsPromise == PlatformSpec => ImplementsPromise
<1>1. PlatformInit => Promise!PromiseInit
  BY DEF PlatformInit, Promise!PromiseInit, StageOf, StakeOf, Loaded, NothingMoved,
         Promise!NoStake, Promise!NothingPaid
<1>2. PlatformInv /\ PlatformInv' /\ [PlatformNext]_platformVars
        => [Promise!PromiseNext]_(Promise!promiseVars)
  BY ChainStep, StepImplements DEF PlatformInv
<1> QED  BY <1>1, <1>2, SpecPlatformInv, PTL
         DEF PlatformSpec, ImplementsPromise, Promise!PromiseSpec

-----------------------------------------------------------------------------
(* What is proved of the contract holds when API and workers drive it.     *)

LEMMA PlatformSolvent == PlatformSpec => []SolventInv
<1>1. PlatformInit => SolventInv
  <2> SUFFICES ASSUME PlatformInit
               PROVE  SolventInv
    OBVIOUS
  <2>1. \A e \in EscrowIds : ~Loaded(e)
    BY DEF PlatformInit, Loaded
  <2>2. \A t \in Tokens : balance[t][Contract] = 0
    BY DEF PlatformInit
  <2> QED  BY <2>1, <2>2, SolventStart
<1>2. PlatformInv => PlatformTypeOK /\ IInv
  BY DEF PlatformInv
<1>3. PlatformTypeOK /\ IInv /\ IInv' /\ SolventInv /\ [PlatformNext]_platformVars
        => SolventInv'
  BY ChainStep, SolventKept
<1> QED  BY <1>1, <1>2, <1>3, SpecPlatformInv, PTL DEF PlatformSpec

(* ContractHoldsWhenDriven: retried jobs, transactions that land after     *)
(* nobody waits for them and claims of outsiders leave the contract        *)
(* solvent, able to pay every escrow it holds for and exact in each, and   *)
(* only ever make it take one of its own steps.                            *)
THEOREM ContractHoldsWhenDriven ==
  PlatformSpec => /\ [](Solvent /\ Covered)
                  /\ [](SettlesExactly /\ ApprovalsHonoured /\ ProgressConsistent)
                  /\ [][Next]_vars
<1>1. PlatformInv => PlatformTypeOK /\ IInv
  BY DEF PlatformInv
<1>2. IInv => SettlesExactly /\ ApprovalsHonoured /\ ProgressConsistent
  BY DEF IInv
<1>3. SolventInv => Solvent
  BY DEF SolventInv, Solvent, Amounts
<1>4. IInv /\ SolventInv => Covered
  BY SolventCovers
<1>5. PlatformTypeOK /\ [PlatformNext]_platformVars => [Next]_vars
  BY ChainStep
<1> QED  BY <1>1, <1>2, <1>3, <1>4, <1>5, SpecPlatformInv, PlatformSolvent, PTL
         DEF PlatformSpec

(* DealsHoldWhenDriven: nor does the platform get an escrow paid without   *)
(* consent, returned without a cause, changed in its terms or touched once *)
(* it is settled.                                                          *)
THEOREM DealsHoldWhenDriven ==
  PlatformSpec => FinalIsFinal /\ TermsFixed /\ PaidByConsent /\ ReturnedWithCause
<1>1. PlatformInv => IInv
  BY DEF PlatformInv
<1> QED  BY <1>1, SpecPlatformInv, ContractHoldsWhenDriven,
            FinalStep, TermsStep, ConsentStep, CauseStep, PTL
         DEF FinalIsFinal, TermsFixed, PaidByConsent, ReturnedWithCause
=============================================================================
