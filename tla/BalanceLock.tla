----------------------------- MODULE BalanceLock -----------------------------
(***************************************************************************)
(* EscrowService.createEscrow step by step, for the requests of one client: *)
(* the look-up of the idempotency key before the transaction, the read of  *)
(* the balance, the update guarded by its version, and the insert of the   *)
(* lock transaction under the unique key.  The database runs transactions  *)
(* at read committed: an updated row stays locked until its transaction    *)
(* ends, and an update that waited re-evaluates its WHERE.                 *)
(***************************************************************************)
EXTENDS Integers, Functions

CONSTANTS Requests,     \* HTTP requests of the client
          IdempotencyKey, Amount,  \* request -> its header, its dto.amount
          TopUp,        \* the client's balance to begin with
          NoRequest,    \* nobody holds the row lock
          MaxAttempts,  \* bound on how often a request is sent
          MaxCredits    \* bound on the credits of the worker

Fee(a) == a \div 100    \* exact: amounts are multiples of 100
TotalDebit(r) == Amount[r] + Fee(Amount[r])

ASSUME BalanceLockAssumption ==
  /\ Amount \in [Requests -> Nat] /\ TopUp \in Nat /\ MaxAttempts \in Nat /\ MaxCredits \in Nat
  /\ IdempotencyKey \in [Requests -> STRING]
  /\ NoRequest \notin Requests

VARIABLES available, reserved, version,  \* the committed row of balances
          locks,      \* committed ESCROW_LOCK transactions: set of requests
          credited,   \* history: money the worker has given back
          credits,    \* how often it did so
          holder,     \* transaction that has updated the row, uncommitted
          pc, seen,   \* per request: next step, row it read
          answer,     \* per request: the last answer sent
          sent        \* per request: how often it was sent

row == <<available, reserved, version>>
worked == <<credited, credits>>
lockVars == <<row, locks, worked, holder, pc, seen, answer, sent>>

Taken == {IdempotencyKey[r] : r \in locks}

Answers == {"none", "201", "existing", "BadRequestException", "NotFoundException", "500"}

LockTypeOK ==
  /\ available \in Int /\ reserved \in Int /\ version \in Nat
  /\ locks \subseteq Requests
  /\ credited \in Nat /\ credits \in 0..MaxCredits
  /\ holder \in Requests \cup {NoRequest}
  /\ pc \in [Requests -> {"idle", "lookup", "read", "debit", "commit"}]
  /\ seen \in [Requests -> [version : Nat, available : Int]]
  /\ answer \in [Requests -> Answers]
  /\ sent \in [Requests -> 0..MaxAttempts]

LockInit ==
  /\ available = TopUp /\ reserved = 0 /\ version = 0
  /\ locks = {} /\ credited = 0 /\ credits = 0
  /\ holder = NoRequest
  /\ pc = [r \in Requests |-> "idle"]
  /\ seen = [r \in Requests |-> [version |-> 0, available |-> TopUp]]
  /\ answer = [r \in Requests |-> "none"]
  /\ sent = [r \in Requests |-> 0]

-----------------------------------------------------------------------------
At(r, step)   == pc[r] = step
Goto(r, step) == pc' = [pc EXCEPT ![r] = step]
Reply(r, a)   == /\ Goto(r, "idle")
                 /\ answer' = [answer EXCEPT ![r] = a]

(* A request arrives, or is sent again with the same key. *)
Send(r) ==
  /\ At(r, "idle") /\ sent[r] < MaxAttempts
  /\ sent' = [sent EXCEPT ![r] = @ + 1]
  /\ Goto(r, "lookup")
  /\ UNCHANGED <<row, locks, worked, holder, seen, answer>>

(* Outside the transaction. *)
Lookup(r) ==
  /\ At(r, "lookup")
  /\ IF IdempotencyKey[r] \in Taken
     THEN Reply(r, "existing")
     ELSE Goto(r, "read") /\ UNCHANGED answer
  /\ UNCHANGED <<row, locks, worked, holder, seen, sent>>

ReadBalance(r) ==
  /\ At(r, "read")
  /\ IF available < TotalDebit(r)
     THEN Reply(r, "BadRequestException") /\ UNCHANGED seen
     ELSE /\ Goto(r, "debit")
          /\ seen' = [seen EXCEPT ![r] = [version |-> version, available |-> available]]
          /\ UNCHANGED answer
  /\ UNCHANGED <<row, locks, worked, holder, sent>>

(* updateMany ... where version = the one read; 0 rows: rejected. *)
Mut_NoVersionCheck(r) ==
  /\ At(r, "debit")
  /\ holder = NoRequest
  /\ holder' = r
  /\ Goto(r, "commit")
  /\ UNCHANGED <<row, locks, worked, seen, answer, sent>>
DebitBalance(r) ==
  /\ At(r, "debit")
  /\ holder = NoRequest
  /\ IF version = seen[r].version
     THEN holder' = r /\ Goto(r, "commit") /\ UNCHANGED answer
     ELSE Reply(r, "BadRequestException") /\ UNCHANGED holder
  /\ UNCHANGED <<row, locks, worked, seen, sent>>

(* Escrow and lock transaction are inserted, the job is added, commit. *)
Mut_VersionNotBumped(r) ==
  /\ At(r, "commit")
  /\ IdempotencyKey[r] \notin Taken
  /\ available' = available - TotalDebit(r)
  /\ reserved' = reserved + Amount[r]
  /\ UNCHANGED version
  /\ locks' = locks \cup {r}
  /\ holder' = NoRequest
  /\ Reply(r, "201")
  /\ UNCHANGED <<worked, seen, sent>>
Mut_WriteFromRead(r) ==
  /\ At(r, "commit")
  /\ IdempotencyKey[r] \notin Taken
  /\ available' = seen[r].available - TotalDebit(r)
  /\ reserved' = reserved + Amount[r]
  /\ version' = version + 1
  /\ locks' = locks \cup {r}
  /\ holder' = NoRequest
  /\ Reply(r, "201")
  /\ UNCHANGED <<worked, seen, sent>>
Create(r) ==
  /\ At(r, "commit")
  /\ IdempotencyKey[r] \notin Taken
  /\ available' = available - TotalDebit(r)
  /\ reserved' = reserved + Amount[r]
  /\ version' = version + 1
  /\ locks' = locks \cup {r}
  /\ holder' = NoRequest
  /\ Reply(r, "201")
  /\ UNCHANGED <<worked, seen, sent>>

(* The unique key is taken, or the queue or the database fails: roll back. *)
Mut_RollbackKeepsLock(r) ==
  /\ At(r, "commit")
  /\ Reply(r, "500")
  /\ UNCHANGED <<row, locks, worked, holder, seen, sent>>
Rollback(r) ==
  /\ At(r, "commit")
  /\ holder' = NoRequest
  /\ Reply(r, "500")
  /\ UNCHANGED <<row, locks, worked, seen, sent>>

(* Before the update: the freelancer is unknown or unfit (checked before   *)
(* the balance), or the database fails.                                    *)
Reject(r) ==
  /\ \/ pc[r] \in {"lookup", "read", "debit"} /\ Reply(r, "500")
     \/ At(r, "read") /\ \E a \in {"NotFoundException", "BadRequestException"} : Reply(r, a)
  /\ UNCHANGED <<row, locks, worked, holder, seen, sent>>

(* The worker gives the money of a lock back, possibly more than once      *)
(* (EscrowWorker), by increments that wait for the row lock and neither    *)
(* read nor change the version.                                            *)
GiveBack(r) ==
  /\ r \in locks /\ credits < MaxCredits
  /\ holder = NoRequest
  /\ available' = available + TotalDebit(r)
  /\ reserved' = reserved - Amount[r]
  /\ credited' = credited + TotalDebit(r)
  /\ credits' = credits + 1
  /\ UNCHANGED <<version, locks, holder, pc, seen, answer, sent>>

Handle(r) == Lookup(r) \/ ReadBalance(r) \/ DebitBalance(r) \/ Create(r) \/ Rollback(r)

LockNext == \E r \in Requests : Send(r) \/ Handle(r) \/ Reject(r) \/ GiveBack(r)

LockSpec == LockInit /\ [][LockNext]_lockVars

(* The API process keeps running its handlers; nothing need be rejected. *)
FairLockSpec == LockSpec /\ \A r \in Requests : WF_lockVars(Handle(r))

-----------------------------------------------------------------------------
(* Properties. *)

(* LockInv: from its guarded update to its commit one request holds the    *)
(* row; the version it read is still the row's, and the balance, which     *)
(* only the worker may have changed since, still covers its debit.         *)
LockInv ==
  /\ LockTypeOK
  /\ \A r \in Requests : At(r, "commit") <=> holder = r
  /\ \A r \in Requests :
       /\ seen[r].version <= version
       /\ At(r, "debit") \/ At(r, "commit") => seen[r].available >= TotalDebit(r)
       /\ seen[r].version = version => available >= seen[r].available
       /\ At(r, "commit") => seen[r].version = version

(* NoCreditLost: no creation overwrites what the worker credits meanwhile: *)
(* available is what was topped up or given back, less the debits.         *)
NoCreditLost ==
  available = TopUp + credited - SumFunctionOnSet([r \in Requests |-> TotalDebit(r)], locks)

(* EveryRequestAnswered: no request waits for ever, for instance for a row *)
(* lock that is never released.                                            *)
EveryRequestAnswered == \A r \in Requests : ~At(r, "idle") ~> At(r, "idle")

Wallet == INSTANCE WalletPromise
            WITH Keys <- {IdempotencyKey[r] : r \in Requests},
                 Costs <- {TotalDebit(r) : r \in Requests},
                 Opening <- TopUp, funds <- available, taken <- Taken

(* ImplementsWallet: however requests race, are repeated, or fail half way, *)
(* each key is charged at most once and the balance is never overdrawn.    *)
ImplementsWallet == Wallet!WalletSpec

=============================================================================
