-------------------------- MODULE BalanceLock_proofs --------------------------
(***************************************************************************)
(* Proofs about createEscrow's optimistic lock, for any number of requests, *)
(* any keys and any amounts.                                               *)
(***************************************************************************)
EXTENDS BalanceLock, SumTheorems, TLAPS

(* A request's debit is a natural number of the smallest unit.             *)
LEMMA DebitFact == \A r \in Requests : TotalDebit(r) \in Nat
<1>1. \A a \in Nat : a + a \div 100 \in Nat
  OBVIOUS
<1>2. QED
  BY <1>1, BalanceLockAssumption DEF TotalDebit, Fee

(* The row holder is the one request between its update and its commit.    *)
LEMMA HolderFact ==
  ASSUME LockInv, holder = NoRequest
  PROVE  \A r \in Requests : ~At(r, "commit")
  BY BalanceLockAssumption DEF LockInv

-----------------------------------------------------------------------------
(* LockInv is inductive. *)

LEMMA InitLockInv == LockInit => LockInv
<1> SUFFICES ASSUME LockInit PROVE LockInv
  OBVIOUS
<1>1. LockTypeOK
  BY BalanceLockAssumption DEF LockInit, LockTypeOK, Answers
<1>2. \A r \in Requests : ~At(r, "commit") /\ ~At(r, "debit") /\ holder # r
  BY BalanceLockAssumption DEF LockInit, At
<1>3. \A r \in Requests : seen[r].version = version /\ seen[r].available = available
  BY DEF LockInit
<1>4. QED
  BY <1>1, <1>2, <1>3, BalanceLockAssumption DEF LockInv, LockInit

(* What a request's own handler may write, whatever the step.              *)
LEMMA NextLockInv == LockInv /\ [LockNext]_lockVars => LockInv'
<1> SUFFICES ASSUME LockInv, [LockNext]_lockVars PROVE LockInv'
  OBVIOUS
<1> USE BalanceLockAssumption, DebitFact
<1>1. ASSUME NEW r \in Requests, Send(r) PROVE LockInv'
  <2>1. LockTypeOK'
    BY <1>1 DEF LockInv, LockTypeOK, Send, Goto, At, row, worked
  <2>2. QED
    BY <1>1, <2>1 DEF LockInv, LockTypeOK, Send, Goto, At, row, worked
<1>2. ASSUME NEW r \in Requests, Lookup(r) PROVE LockInv'
  <2>1. LockTypeOK'
    BY <1>2 DEF LockInv, LockTypeOK, Lookup, Reply, Goto, At, row, worked, Answers
  <2>2. QED
    BY <1>2, <2>1 DEF LockInv, LockTypeOK, Lookup, Reply, Goto, At, row, worked
<1>3. ASSUME NEW r \in Requests, ReadBalance(r) PROVE LockInv'
  <2>1. LockTypeOK'
    <3>1. [version |-> version, available |-> available] \in [version : Nat, available : Int]
      BY DEF LockInv, LockTypeOK
    <3>2. seen' \in [Requests -> [version : Nat, available : Int]]
      BY <1>3, <3>1 DEF LockInv, LockTypeOK, ReadBalance
    <3>3. /\ pc' \in [Requests -> {"idle", "lookup", "read", "debit", "commit"}]
          /\ answer' \in [Requests -> Answers]
      BY <1>3 DEF LockInv, LockTypeOK, ReadBalance, Reply, Goto, Answers
    <3>4. UNCHANGED <<row, locks, worked, holder, sent>>
      BY <1>3 DEF ReadBalance
    <3>5. QED
      BY <3>2, <3>3, <3>4 DEF LockInv, LockTypeOK, row, worked
  <2>2. UNCHANGED <<available, version, holder>>
    BY <1>3 DEF ReadBalance, row
  <2>3. \A q \in Requests : At(q, "commit")' <=> holder' = q
    BY <1>3, <2>2 DEF LockInv, LockTypeOK, ReadBalance, Reply, Goto, At
  <2>4. ASSUME NEW q \in Requests
        PROVE  /\ seen'[q].version <= version'
               /\ At(q, "debit")' \/ At(q, "commit")' => seen'[q].available >= TotalDebit(q)
               /\ seen'[q].version = version' => available' >= seen'[q].available
               /\ At(q, "commit")' => seen'[q].version = version'
    <3>1. CASE q # r
      BY <1>3, <2>2, <3>1 DEF LockInv, LockTypeOK, ReadBalance, Reply, Goto, At
    <3>2. CASE q = r
      BY <1>3, <2>2, <3>2 DEF LockInv, LockTypeOK, ReadBalance, Reply, Goto, At
    <3>3. QED
      BY <3>1, <3>2
  <2>5. QED
    BY <2>1, <2>3, <2>4 DEF LockInv
<1>4. ASSUME NEW r \in Requests, DebitBalance(r) PROVE LockInv'
  <2>1. LockTypeOK'
    BY <1>4 DEF LockInv, LockTypeOK, DebitBalance, Reply, Goto, At, row, worked, Answers
  <2>2. UNCHANGED <<available, version, seen>> /\ holder = NoRequest
    BY <1>4 DEF DebitBalance, row
  <2>3. QED
    BY <1>4, <2>1, <2>2, HolderFact DEF LockInv, LockTypeOK, DebitBalance, Reply, Goto, At
<1>5. ASSUME NEW r \in Requests, Create(r) PROVE LockInv'
  <2>1. LockTypeOK'
    BY <1>5 DEF LockInv, LockTypeOK, Create, Reply, Goto, At, row, worked, Answers
  <2>2. holder = r /\ holder' = NoRequest /\ version' = version + 1 /\ seen' = seen
    BY <1>5 DEF LockInv, Create
  <2>3. \A q \in Requests : ~At(q, "commit")' /\ (At(q, "debit")' => At(q, "debit"))
    BY <1>5, <2>2 DEF LockInv, LockTypeOK, Create, Reply, Goto, At
  <2>4. \A q \in Requests : seen[q].version \in Nat /\ seen[q].version <= version /\ version \in Nat
    BY DEF LockInv, LockTypeOK
  <2>5. QED
    BY <2>1, <2>2, <2>3, <2>4 DEF LockInv
<1>6. ASSUME NEW r \in Requests, Rollback(r) PROVE LockInv'
  <2>1. LockTypeOK'
    BY <1>6 DEF LockInv, LockTypeOK, Rollback, Reply, Goto, At, row, worked, Answers
  <2>2. holder = r /\ holder' = NoRequest /\ UNCHANGED <<available, version, seen>>
    BY <1>6 DEF LockInv, Rollback, row
  <2>3. QED
    BY <1>6, <2>1, <2>2 DEF LockInv, LockTypeOK, Rollback, Reply, Goto, At
<1>7. ASSUME NEW r \in Requests, GiveBack(r) PROVE LockInv'
  <2>1. LockTypeOK'
    BY <1>7 DEF LockInv, LockTypeOK, GiveBack
  <2>2. /\ available' = available + TotalDebit(r)
        /\ UNCHANGED <<version, seen, pc, holder>>
    BY <1>7 DEF GiveBack
  <2>3. available \in Int /\ TotalDebit(r) \in Nat /\ \A q \in Requests : seen[q].available \in Int
    BY DEF LockInv, LockTypeOK
  <2>4. available' >= available
    BY <2>2, <2>3
  <2>5. ASSUME NEW q \in Requests
        PROVE  seen[q].version = version => available' >= seen[q].available
    <3>1. /\ seen[q].version = version => available >= seen[q].available
          /\ available' \in Int
      BY <2>1 DEF LockInv, LockTypeOK
    <3> QED  BY <2>3, <2>4, <3>1
  <2>6. QED
    BY <2>1, <2>2, <2>5, Zenon DEF LockInv, At
<1>8. ASSUME NEW r \in Requests, Reject(r) PROVE LockInv'
  <2>1. LockTypeOK'
    <3>1. PICK a \in Answers : Reply(r, a)
      BY <1>8 DEF Reject, Answers
    <3>2. /\ pc' \in [Requests -> {"idle", "lookup", "read", "debit", "commit"}]
          /\ answer' \in [Requests -> Answers]
      BY <3>1 DEF LockInv, LockTypeOK, Reply, Goto
    <3>3. UNCHANGED <<row, locks, worked, holder, seen, sent>>
      BY <1>8 DEF Reject
    <3>4. QED
      BY <3>2, <3>3 DEF LockInv, LockTypeOK, row, worked
  <2>2. /\ UNCHANGED <<version, available, seen, holder>>
        /\ pc' = [pc EXCEPT ![r] = "idle"] /\ ~At(r, "commit")
    BY <1>8 DEF Reject, Reply, Goto, At, row
  <2>3. \A q \in Requests : q # r => pc'[q] = pc[q]
    BY <2>2 DEF LockInv, LockTypeOK
  <2>4. ~At(r, "commit")' /\ ~At(r, "debit")'
    BY <2>2 DEF LockInv, LockTypeOK, At
  <2>5. QED
    BY <2>1, <2>2, <2>3, <2>4 DEF LockInv, At
<1>9. CASE UNCHANGED lockVars
  BY <1>9 DEF LockInv, LockTypeOK, lockVars, row, worked, At
<1>10. QED
  BY <1>1, <1>2, <1>3, <1>4, <1>5, <1>6, <1>7, <1>8, <1>9 DEF LockNext, Handle

(* LockHolds: at every moment at most one request is between its guarded   *)
(* update and its commit, with the row's version and a covered debit, for  *)
(* any number of requests.                                                 *)
THEOREM LockHolds == LockSpec => []LockInv
<1>1. LockInit => LockInv
  BY InitLockInv
<1>2. LockInv /\ [LockNext]_lockVars => LockInv'
  BY NextLockInv
<1>3. QED
  BY <1>1, <1>2, PTL DEF LockSpec

-----------------------------------------------------------------------------
(* The refinement. *)

(* A committed creation is the wallet's TakeOnce of the request's key.     *)
LEMMA CreateTakes ==
  ASSUME LockInv, NEW r \in Requests, Create(r)
  PROVE  Wallet!TakeOnce(IdempotencyKey[r])
<1>1. IdempotencyKey[r] \notin Taken /\ Taken' = Taken \cup {IdempotencyKey[r]}
  BY DEF Create, Taken
<1>2. available >= TotalDebit(r)
  <2>1. /\ seen[r].version = version => available >= seen[r].available
        /\ seen[r].version = version
        /\ seen[r].available >= TotalDebit(r)
    BY DEF LockInv, Create
  <2>2. available \in Int /\ seen[r].available \in Int /\ TotalDebit(r) \in Int
    BY DebitFact DEF LockInv, LockTypeOK
  <2>3. QED
    BY <2>1, <2>2
<1>3. available' = available - TotalDebit(r)
  BY DEF Create
<1>4. TotalDebit(r) <= available
  <2>1. available \in Int /\ TotalDebit(r) \in Int
    BY DebitFact DEF LockInv, LockTypeOK
  <2>2. QED
    BY <1>2, <2>1
<1>5. QED
  BY <1>1, <1>3, <1>4 DEF Wallet!TakeOnce

(* A credit of the worker is the wallet's Grow.                            *)
LEMMA GiveBackGrows ==
  ASSUME LockInv, NEW r \in Requests, GiveBack(r)
  PROVE  Wallet!Grow
<1>1. available \in Int /\ TotalDebit(r) \in Nat
  BY DebitFact DEF LockInv, LockTypeOK
<1>2. available' = available + TotalDebit(r) /\ Taken' = Taken
  BY DEF GiveBack, Taken
<1>3. QED
  BY <1>1, <1>2 DEF Wallet!Grow

(* The other steps are invisible to the wallet.                            *)
LEMMA OtherStepsStutter ==
  ASSUME NEW r \in Requests,
         \/ Send(r) \/ Lookup(r) \/ ReadBalance(r) \/ DebitBalance(r) \/ Rollback(r)
         \/ Reject(r)
  PROVE  UNCHANGED <<available, Taken>>
  BY DEF Send, Lookup, ReadBalance, DebitBalance, Rollback, Reject, row, Taken

(* WalletKept: concurrent, repeated and failing requests charge each key   *)
(* at most once, from funds that cover it: BalanceLock implements          *)
(* WalletPromise.                                                          *)
THEOREM WalletKept == LockSpec => ImplementsWallet
<1>1. LockInit => Wallet!WalletInit
  BY DEF LockInit, Wallet!WalletInit, Taken
<1>2. LockInv /\ [LockNext]_lockVars =>
        [\/ Wallet!Grow
         \/ \E k \in {IdempotencyKey[r] : r \in Requests} : Wallet!TakeOnce(k)]_<<available, Taken>>
  <2> SUFFICES ASSUME LockInv, [LockNext]_lockVars
               PROVE  [\/ Wallet!Grow
                       \/ \E k \in {IdempotencyKey[r] : r \in Requests} :
                            Wallet!TakeOnce(k)]_<<available, Taken>>
    OBVIOUS
  <2>1. ASSUME NEW r \in Requests, Create(r)
        PROVE  \E k \in {IdempotencyKey[q] : q \in Requests} : Wallet!TakeOnce(k)
    BY <2>1, CreateTakes
  <2>2. ASSUME NEW r \in Requests, GiveBack(r) PROVE Wallet!Grow
    BY <2>2, GiveBackGrows
  <2>3. CASE UNCHANGED lockVars
    BY <2>3 DEF lockVars, row, Taken
  <2>4. QED
    BY <2>1, <2>2, <2>3, OtherStepsStutter DEF LockNext, Handle
<1>3. QED
  BY <1>1, <1>2, LockHolds, PTL DEF LockSpec, ImplementsWallet, Wallet!WalletSpec

-----------------------------------------------------------------------------
(* The balance and the sum of the debits. *)

(* NoCreditLost, with the finiteness of the set it sums over.              *)
Debit == [r \in Requests |-> TotalDebit(r)]
CreditInv == IsFiniteSet(locks) /\ NoCreditLost

(* A creation adds one debit to the sum, a credit adds to both sides.     *)
LEMMA NextCreditInv ==
  ASSUME LockInv, CreditInv, [LockNext]_lockVars
  PROVE  CreditInv'
<1> DEFINE Sum(S) == SumFunctionOnSet(Debit, S)
<1>1. /\ available = TopUp + credited - Sum(locks)
      /\ IsFiniteSet(locks) /\ locks \subseteq Requests
  BY DEF CreditInv, NoCreditLost, Debit, LockInv, LockTypeOK
<1>2. \A r \in Requests : Debit[r] \in Nat /\ Debit[r] = TotalDebit(r)
  BY DebitFact DEF Debit
<1>3. Sum(locks) \in Int /\ TopUp \in Int /\ credited \in Int
  BY <1>1, <1>2, SumType, BalanceLockAssumption DEF LockInv, LockTypeOK
<1>4. ASSUME IsFiniteSet(locks)', available' = TopUp + credited' - Sum(locks')
      PROVE  CreditInv'
  BY <1>4 DEF CreditInv, NoCreditLost, Debit
<1>5. CASE UNCHANGED <<available, credited, locks>>
  BY <1>1, <1>4, <1>5
<1>6. ASSUME NEW r \in Requests, Create(r)  PROVE CreditInv'
  <2>1. r \notin locks
    BY <1>6 DEF Create, Taken
  <2>2. locks' = locks \cup {r} /\ available' = available - Debit[r] /\ credited' = credited
    BY <1>2, <1>6 DEF Create, worked
  <2>3. Sum(locks') = Debit[r] + Sum(locks)
    <3>1. \A x \in locks \cup {r} : Debit[x] \in Int
      BY <1>1, <1>2
    <3> QED  BY <1>1, <2>1, <2>2, <3>1, SumAdd
  <2>4. IsFiniteSet(locks)'
    BY <1>1, <2>2, FS_AddElement
  <2>5. available' = TopUp + credited' - Sum(locks')
    <3> HIDE DEF Sum
    <3> QED  BY <1>1, <1>2, <1>3, <2>2, <2>3
  <2> QED  BY <1>4, <2>4, <2>5
<1>7. ASSUME NEW r \in Requests, GiveBack(r)  PROVE CreditInv'
  <2>1. /\ available' = available + Debit[r] /\ credited' = credited + Debit[r]
        /\ locks' = locks
    BY <1>2, <1>7 DEF GiveBack
  <2>2. available' = TopUp + credited' - Sum(locks')
    <3> HIDE DEF Sum
    <3> QED  BY <1>1, <1>2, <1>3, <2>1
  <2> QED  BY <1>1, <1>4, <2>1, <2>2
<1>8. ASSUME NEW r \in Requests,
             \/ Send(r) \/ Lookup(r) \/ ReadBalance(r) \/ DebitBalance(r) \/ Rollback(r)
             \/ Reject(r)
      PROVE  UNCHANGED <<available, credited, locks>>
  BY <1>8 DEF Send, Lookup, ReadBalance, DebitBalance, Rollback, Reject, row, worked
<1>9. CASE UNCHANGED lockVars
  BY <1>5, <1>9 DEF lockVars, row, worked
<1> QED  BY <1>5, <1>6, <1>7, <1>8, <1>9 DEF LockNext, Handle

(* CreditsKept: however creations race with the worker's credits, the      *)
(* balance is what was topped up or given back less the sum of all debits, *)
(* for any number of requests.                                             *)
THEOREM CreditsKept == LockSpec => []NoCreditLost
<1>1. LockInit => CreditInv
  <2> SUFFICES ASSUME LockInit  PROVE CreditInv
    OBVIOUS
  <2>1. SumFunctionOnSet(Debit, locks) = 0 /\ IsFiniteSet(locks)
    BY SumEmpty, FS_EmptySet DEF LockInit
  <2>2. available = TopUp /\ credited = 0 /\ TopUp \in Int
    BY BalanceLockAssumption DEF LockInit
  <2> QED  BY <2>1, <2>2 DEF CreditInv, NoCreditLost, Debit
<1>2. LockInv /\ CreditInv /\ [LockNext]_lockVars => CreditInv'
  BY NextCreditInv
<1>3. CreditInv => NoCreditLost
  BY DEF CreditInv
<1> QED  BY <1>1, <1>2, <1>3, LockHolds, PTL DEF LockSpec
=============================================================================
