-------------------------- MODULE NexusEscrow_proofs --------------------------
(***************************************************************************)
(* Proofs about the contract, for any number of escrows, accounts, tokens, *)
(* offers and ledgers.                                                     *)
(***************************************************************************)
EXTENDS NexusEscrow, SumTheorems, TLAPS

(* FeeBelowAmount: the fee pinned in a record leaves something to pay out. *)
FeeBelowAmount ==
  \A e \in EscrowIds : Loaded(e) => escrows[e].platform_fee < escrows[e].amount

TypeInv == TypeOK /\ FeeBelowAmount

BalanceType == [Tokens -> [Accounts \cup {Contract} -> Nat]]
MovedType   == [EscrowIds -> [deposited : Nat, client : Nat,
                              freelancer : Nat, admin : Nat]]

-----------------------------------------------------------------------------
(* Lemmas about the operators. *)

(* ComputeFee of a positive amount under the cap is a natural number       *)
(* smaller than the amount: the FeeTooHigh return of init_escrow is dead.  *)
LEMMA FeeFact ==
  ASSUME NEW amount \in Nat, amount > 0, NEW bps \in 0..MaxFeeBps
  PROVE  ComputeFee(amount, bps) \in Nat /\ ComputeFee(amount, bps) < amount
<1>1. amount * bps \in Nat /\ amount * bps <= amount * 1000
  BY DEF MaxFeeBps
<1>2. amount * bps < amount * 10000
  BY <1>1
<1> DEFINE p == amount * bps
<1>3. \A q \in Nat : q < amount * 10000 => q \div 10000 \in Nat /\ q \div 10000 < amount
  OBVIOUS
<1>4. QED
  BY <1>1, <1>2, <1>3 DEF ComputeFee, BpsScale

(* A transfer the sender can cover keeps every balance natural. *)
LEMMA ShiftFact ==
  ASSUME NEW S, NEW b \in [S -> Nat], NEW from \in S, NEW to \in S,
         NEW amount \in Nat, amount <= b[from]
  PROVE  /\ Shift(b, from, to, amount) \in [S -> Nat]
         /\ from # to => Shift(b, from, to, amount)[from] = b[from] - amount
  BY DEF Shift

(* Adding the two shares of a release to a history entry. *)
LEMMA SharesFact ==
  ASSUME NEW m \in [deposited : Nat, client : Nat, freelancer : Nat, admin : Nat],
         NEW a \in Nat, NEW b \in Nat
  PROVE  [m EXCEPT !.freelancer = @ + a, !.admin = @ + b]
           \in [deposited : Nat, client : Nat, freelancer : Nat, admin : Nat]
<1>1. m.freelancer + a \in Nat /\ m.admin + b \in Nat
  OBVIOUS
<1>2. QED
  BY <1>1

(* An accepted offer becomes a well-typed record. *)
LEMMA NewEscrowFact ==
  ASSUME NEW o \in Offer, o.amount > 0, NEW who \in Accounts,
         NEW bps \in 0..MaxFeeBps, NEW now \in Nat
  PROVE  /\ NewEscrow(o, who, bps, now) \in EscrowRecord
         /\ NewEscrow(o, who, bps, now).platform_fee < o.amount
<1>1. o.amount \in Nat
  BY DEF Offer
<1>2. ComputeFee(o.amount, bps) \in Nat /\ ComputeFee(o.amount, bps) < o.amount
  BY <1>1, FeeFact
<1>3. now + MinDisputeDelay + o.dispute_delay \in Nat
  BY DelayAssumption DEF Offer
<1>4. QED
  BY <1>1, <1>2, <1>3 DEF NewEscrow, EscrowRecord, EscrowStatus, Offer

(* Writing a status, a flag or a counter keeps a record well typed. *)
LEMMA StatusFact ==
  ASSUME NEW r \in EscrowRecord, NEW s \in EscrowStatus
  PROVE  [r EXCEPT !.status = s] \in EscrowRecord
  BY DEF EscrowRecord

(* Recording an approval keeps the record well typed, its terms and status. *)
LEMMA EndorseFact ==
  ASSUME NEW r \in EscrowRecord, NEW who
  PROVE  Endorse(r, who) \in EscrowRecord
  BY DEF EscrowRecord, Endorse

-----------------------------------------------------------------------------
(* What the invariant says of a loaded record, field by field. *)
LEMMA LoadedFact ==
  ASSUME TypeInv, NEW e \in EscrowIds, Loaded(e)
  PROVE  LET r == escrows[e] IN
         /\ r \in EscrowRecord
         /\ r.client \in Accounts /\ r.freelancer \in Accounts
         /\ r.admin \in Accounts /\ r.token \in Tokens
         /\ r.amount \in Nat /\ r.platform_fee \in Nat
         /\ r.platform_fee < r.amount
         /\ r.amount - r.platform_fee \in Nat
         /\ balance[r.token] \in [Accounts \cup {Contract} -> Nat]
<1> DEFINE r == escrows[e]
<1>1. r \in EscrowRecord /\ r.platform_fee < r.amount
  BY DEF TypeInv, TypeOK, Loaded, FeeBelowAmount
<1>2. /\ r.client \in Accounts /\ r.freelancer \in Accounts
      /\ r.admin \in Accounts /\ r.token \in Tokens
      /\ r.amount \in Nat /\ r.platform_fee \in Nat
  BY <1>1 DEF EscrowRecord
<1>3. balance[r.token] \in [Accounts \cup {Contract} -> Nat]
  BY <1>2 DEF TypeInv, TypeOK
<1>4. r.amount - r.platform_fee \in Nat
  BY <1>1, <1>2
<1>5. QED
  BY <1>1, <1>2, <1>3, <1>4

(* The money steps of a call preserve the types. *)

(* The deposit of fund keeps balances and history natural. *)
LEMMA DepositTypes ==
  ASSUME TypeInv, NEW e \in EscrowIds, Loaded(e), Deposit(e)
  PROVE  balance' \in BalanceType /\ moved' \in MovedType
<1> DEFINE r == escrows[e]
<1>2. /\ r.token \in Tokens /\ r.client \in Accounts /\ r.amount \in Nat
      /\ balance[r.token] \in [Accounts \cup {Contract} -> Nat]
  BY LoadedFact
<1>3. Shift(balance[r.token], r.client, Contract, r.amount)
        \in [Accounts \cup {Contract} -> Nat]
  BY <1>2, ShiftFact DEF Deposit
<1>4. balance' = [balance EXCEPT ![r.token] =
                    Shift(balance[r.token], r.client, Contract, r.amount)]
  BY DEF Deposit
<1>5. moved' = [moved EXCEPT ![e].deposited = @ + r.amount]
  BY DEF Deposit
<1>6. balance' \in BalanceType
  BY <1>2, <1>3, <1>4 DEF TypeInv, TypeOK, BalanceType
<1>7. QED
  BY <1>2, <1>5, <1>6 DEF TypeInv, TypeOK, MovedType

(* The two transfers of a release keep balances and history natural. *)
LEMMA ReleaseTypes ==
  ASSUME TypeInv, NEW e \in EscrowIds, Loaded(e), DoRelease(e)
  PROVE  balance' \in BalanceType /\ moved' \in MovedType
<1> DEFINE r   == escrows[e]
           net == r.amount - r.platform_fee
           b   == Shift(balance[r.token], Contract, r.freelancer, net)
<1>2. /\ r.token \in Tokens /\ r.freelancer \in Accounts /\ r.admin \in Accounts
      /\ r.amount \in Nat /\ r.platform_fee \in Nat /\ net \in Nat
      /\ balance[r.token] \in [Accounts \cup {Contract} -> Nat]
  BY LoadedFact
<1>3. r.amount <= balance[r.token][Contract]
  BY <1>2 DEF DoRelease
<1>4. net <= balance[r.token][Contract]
  BY <1>2, <1>3
<1>5. /\ b \in [Accounts \cup {Contract} -> Nat]
      /\ b[Contract] = balance[r.token][Contract] - net
  <2>1. Contract # r.freelancer
    BY <1>2, NexusAssumption
  <2> DEFINE S == Accounts \cup {Contract}
  <2>2. /\ balance[r.token] \in [S -> Nat] /\ net \in Nat
        /\ Contract \in S /\ r.freelancer \in S
    BY <1>2
  <2> HIDE DEF S, net, r
  <2>3. /\ Shift(balance[r.token], Contract, r.freelancer, net) \in [S -> Nat]
        /\ Shift(balance[r.token], Contract, r.freelancer, net)[Contract]
             = balance[r.token][Contract] - net
    BY <1>4, <2>1, <2>2, ShiftFact
  <2>4. QED
    BY <2>3 DEF S
<1>6. r.platform_fee <= b[Contract]
  BY <1>2, <1>3, <1>5
<1>7. Shift(b, Contract, r.admin, r.platform_fee) \in [Accounts \cup {Contract} -> Nat]
  BY <1>2, <1>5, <1>6, ShiftFact
<1>8. balance' = [balance EXCEPT ![r.token] =
                    Shift(b, Contract, r.admin, r.platform_fee)]
  BY DEF DoRelease
<1>9. moved' = [moved EXCEPT ![e].freelancer = @ + net,
                           ![e].admin = @ + r.platform_fee]
  BY DEF DoRelease
<1>10. balance' \in BalanceType
  BY <1>2, <1>7, <1>8 DEF TypeInv, TypeOK, BalanceType
<1>11. moved' \in MovedType
  <2> DEFINE m == [moved[e] EXCEPT !.freelancer = @ + net,
                                  !.admin = @ + r.platform_fee]
  <2>1. moved \in MovedType /\ moved[e] \in [deposited : Nat, client : Nat,
                                            freelancer : Nat, admin : Nat]
    BY DEF TypeInv, TypeOK, MovedType
  <2>2. m \in [deposited : Nat, client : Nat, freelancer : Nat, admin : Nat]
    BY <1>2, <2>1, SharesFact
  <2>3. moved' = [moved EXCEPT ![e] = m]
    BY <1>9, <2>1 DEF MovedType
  <2>4. QED
    BY <2>1, <2>2, <2>3 DEF MovedType
<1>12. QED
  BY <1>10, <1>11

(* The transfer of a refund keeps balances and history natural. *)
LEMMA ReturnTypes ==
  ASSUME TypeInv, NEW e \in EscrowIds, Loaded(e), ReturnAll(e)
  PROVE  balance' \in BalanceType /\ moved' \in MovedType
<1> DEFINE r == escrows[e]
<1>2. /\ r.token \in Tokens /\ r.client \in Accounts /\ r.amount \in Nat
      /\ balance[r.token] \in [Accounts \cup {Contract} -> Nat]
  BY LoadedFact
<1>3. Shift(balance[r.token], Contract, r.client, r.amount)
        \in [Accounts \cup {Contract} -> Nat]
  BY <1>2, ShiftFact DEF ReturnAll
<1>4. balance' = [balance EXCEPT ![r.token] =
                    Shift(balance[r.token], Contract, r.client, r.amount)]
  BY DEF ReturnAll
<1>5. moved' = [moved EXCEPT ![e].client = @ + r.amount]
  BY DEF ReturnAll
<1>6. balance' \in BalanceType
  BY <1>2, <1>3, <1>4 DEF TypeInv, TypeOK, BalanceType
<1>7. QED
  BY <1>2, <1>5, <1>6 DEF TypeInv, TypeOK, MovedType

(* Saving a well-typed record with the pinned amount and fee. *)
LEMMA SaveTypes ==
  ASSUME TypeInv, NEW e \in EscrowIds, NEW r \in EscrowRecord,
         r.platform_fee < r.amount, Save(e, r)
  PROVE  /\ escrows' \in [EscrowIds -> EscrowRecord \cup {NoEscrow}]
         /\ FeeBelowAmount'
<1>1. escrows' = [escrows EXCEPT ![e] = r]
  BY DEF Save
<1>2. escrows' \in [EscrowIds -> EscrowRecord \cup {NoEscrow}]
  BY <1>1 DEF TypeInv, TypeOK
<1>3. ASSUME NEW x \in EscrowIds, escrows'[x] # NoEscrow
      PROVE  escrows'[x].platform_fee < escrows'[x].amount
  <2>1. CASE x = e
    BY <1>1, <2>1 DEF TypeInv, TypeOK
  <2>2. CASE x # e
    BY <1>1, <1>3, <2>2 DEF TypeInv, TypeOK, FeeBelowAmount, Loaded
  <2>3. QED
    BY <2>1, <2>2
<1>4. QED
  BY <1>2, <1>3 DEF FeeBelowAmount, Loaded

(* A status write through SetStatus. *)
LEMMA SetStatusTypes ==
  ASSUME TypeInv, NEW e \in EscrowIds, Loaded(e),
         NEW s \in EscrowStatus, SetStatus(e, s)
  PROVE  /\ escrows' \in [EscrowIds -> EscrowRecord \cup {NoEscrow}]
         /\ FeeBelowAmount'
<1> DEFINE r == [escrows[e] EXCEPT !.status = s]
<1>1. escrows[e] \in EscrowRecord /\ escrows[e].platform_fee < escrows[e].amount
  BY LoadedFact
<1>2. r \in EscrowRecord
  BY <1>1, StatusFact
<1>3. r.platform_fee < r.amount
  BY <1>1 DEF EscrowRecord
<1>4. QED
  BY <1>2, <1>3, SaveTypes DEF SetStatus

-----------------------------------------------------------------------------
(* Type correctness. *)

(* A call on one escrow leaves the settings and the ledger alone. *)
LEMMA EscrowCallTypes ==
  ASSUME TypeInv, UNCHANGED <<config, ledger>>,
         escrows' \in [EscrowIds -> EscrowRecord \cup {NoEscrow}],
         FeeBelowAmount', balance' \in BalanceType, moved' \in MovedType,
         call'.signer \in Accounts \cup {NoAccount}
  PROVE  TypeInv'
  BY DEF TypeInv, TypeOK, config, BalanceType, MovedType

(* Type correctness is kept by the four settings calls. *)
LEMMA ConfigStepTypes ==
  ASSUME TypeInv, ConfigStep
  PROVE  TypeInv'
<1> USE DEF TypeInv, TypeOK, FeeBelowAmount, Loaded, Calls, money, MaxFeeBps
<1>1. ASSUME NEW a \in Admins, NEW bps \in FeeRates, Initialize(a, bps)
      PROVE  TypeInv'
  <2>1. a \in Accounts /\ bps \in 0..1000
    BY <1>1, NexusAssumption DEF Initialize
  <2>2. QED
    BY <1>1, <2>1 DEF Initialize
<1>2. ASSUME NEW bps \in FeeRates, SetFee(bps)
      PROVE  TypeInv'
  <2>1. bps \in 0..1000
    BY <1>2, NexusAssumption DEF SetFee
  <2>2. QED
    BY <1>2, <2>1 DEF SetFee
<1>3. ASSUME NEW p \in BOOLEAN, SetPaused(p)
      PROVE  TypeInv'
  BY <1>3 DEF SetPaused
<1>4. ASSUME NEW a \in Admins, TransferAdmin(a)
      PROVE  TypeInv'
  <2>1. a \in Accounts
    BY NexusAssumption
  <2>2. QED
    BY <1>4, <2>1 DEF TransferAdmin
<1>5. QED
  BY <1>1, <1>2, <1>3, <1>4 DEF ConfigStep

(* Type correctness is kept by the eleven calls on an escrow. *)
LEMMA EscrowStepTypes ==
  ASSUME TypeInv, NEW e \in EscrowIds, EscrowStep(e)
  PROVE  TypeInv'
<1> DEFINE r == escrows[e]
           EscrowsOK == /\ escrows' \in [EscrowIds -> EscrowRecord \cup {NoEscrow}]
                        /\ FeeBelowAmount'
           MoneyOK == balance' \in BalanceType /\ moved' \in MovedType
           SignerOK == call'.signer \in Accounts \cup {NoAccount}
<1>0. UNCHANGED money => MoneyOK
  BY DEF money, TypeInv, TypeOK, BalanceType, MovedType
<1>1. ASSUME NEW o \in Offers, InitEscrow(e, o)
      PROVE  TypeInv'
  <2>1. /\ o \in Offer /\ o.amount > 0 /\ admin \in Accounts
        /\ feeBps \in 0..MaxFeeBps /\ ledger \in Nat
    BY <1>1, NexusAssumption DEF InitEscrow, TypeInv, TypeOK
  <2> DEFINE n == NewEscrow(o, admin, feeBps, ledger)
  <2>2. n \in EscrowRecord /\ n.platform_fee < n.amount
    BY <2>1, NewEscrowFact DEF NewEscrow
  <2>3. EscrowsOK
    BY <1>1, <2>2, SaveTypes DEF InitEscrow
  <2>4. SignerOK
    BY <1>1, <2>1 DEF InitEscrow, Calls, Offer
  <2>5. QED
    BY <1>0, <1>1, <2>3, <2>4, EscrowCallTypes DEF InitEscrow
<1>2. ASSUME Fund(e)
      PROVE  TypeInv'
  <2>1. Loaded(e) /\ r \in EscrowRecord /\ r.platform_fee < r.amount /\ r.client \in Accounts
    BY <1>2, LoadedFact DEF Fund, Is
  <2> DEFINE n == [r EXCEPT !.status = "Funded", !.funded_ledger = ledger]
  <2>2. n \in EscrowRecord /\ n.platform_fee < n.amount
    BY <2>1 DEF EscrowRecord, EscrowStatus, TypeInv, TypeOK
  <2>3. EscrowsOK
    BY <1>2, <2>2, SaveTypes DEF Fund
  <2>4. MoneyOK /\ SignerOK
    BY <1>2, <2>1, DepositTypes DEF Fund, Calls
  <2>5. QED
    BY <1>2, <2>3, <2>4, EscrowCallTypes DEF Fund
<1>3. ASSUME Activate(e)
      PROVE  TypeInv'
  <2>1. Loaded(e) /\ r.client \in Accounts
    BY <1>3, LoadedFact DEF Activate, Is
  <2>2. EscrowsOK
    BY <1>3, <2>1, SetStatusTypes DEF Activate, EscrowStatus
  <2>3. SignerOK
    BY <1>3, <2>1 DEF Activate, Calls
  <2>4. QED
    BY <1>0, <1>3, <2>2, <2>3, EscrowCallTypes DEF Activate
<1>4. ASSUME Loaded(e), PayFreelancer(e)
      PROVE  EscrowsOK /\ MoneyOK
  BY <1>4, SetStatusTypes, ReleaseTypes DEF PayFreelancer, EscrowStatus
<1>5. ASSUME Loaded(e), RefundClient(e)
      PROVE  EscrowsOK /\ MoneyOK
  BY <1>5, SetStatusTypes, ReturnTypes DEF RefundClient, EscrowStatus
<1>6. ASSUME NEW h \in Hashes, Release(e, h)
      PROVE  TypeInv'
  <2>1. Loaded(e) /\ r.client \in Accounts
    BY <1>6, LoadedFact DEF Release, Is
  <2>2. EscrowsOK /\ MoneyOK /\ SignerOK
    BY <1>4, <1>6, <2>1 DEF Release, Calls
  <2>3. QED
    BY <1>6, <2>2, EscrowCallTypes DEF Release
<1>7. ASSUME Refund(e)
      PROVE  TypeInv'
  <2>1. Loaded(e) /\ r.admin \in Accounts
    BY <1>7, LoadedFact DEF Refund, Is
  <2>2. EscrowsOK /\ MoneyOK /\ SignerOK
    BY <1>5, <1>7, <2>1 DEF Refund, Calls
  <2>3. QED
    BY <1>7, <2>2, EscrowCallTypes DEF Refund
<1>8. ASSUME NEW a \in Accounts, Cancel(e, a)
      PROVE  TypeInv'
  <2>1. Loaded(e)
    BY <1>8 DEF Cancel, Is
  <2>2. EscrowsOK /\ SignerOK
    BY <1>8, <2>1, SetStatusTypes DEF Cancel, Calls, EscrowStatus
  <2>3. QED
    BY <1>0, <1>8, <2>2, EscrowCallTypes DEF Cancel
<1>9. ASSUME NEW a \in Accounts, RaiseDispute(e, a)
      PROVE  TypeInv'
  <2>1. Loaded(e) /\ r \in EscrowRecord /\ r.platform_fee < r.amount
    BY <1>9, LoadedFact DEF RaiseDispute, Is
  <2>2. Disputed(r) \in EscrowRecord /\ Disputed(r).platform_fee < Disputed(r).amount
    BY <2>1 DEF Disputed, EscrowRecord, EscrowStatus
  <2>3. EscrowsOK /\ SignerOK
    BY <1>9, <2>2, SaveTypes DEF RaiseDispute, Calls
  <2>4. QED
    BY <1>0, <1>9, <2>3, EscrowCallTypes DEF RaiseDispute
<1>10. ASSUME NEW f \in BOOLEAN, ResolveDispute(e, f)
       PROVE  TypeInv'
  <2>1. Loaded(e) /\ r.admin \in Accounts
    BY <1>10, LoadedFact DEF ResolveDispute, Is
  <2>2. EscrowsOK /\ MoneyOK
    BY <1>4, <1>5, <1>10, <2>1 DEF ResolveDispute
  <2>3. SignerOK
    BY <1>10, <2>1 DEF ResolveDispute, Calls
  <2>4. QED
    BY <1>10, <2>2, <2>3, EscrowCallTypes DEF ResolveDispute
<1>11. ASSUME CompleteMilestone(e)
       PROVE  TypeInv'
  <2>1. /\ Loaded(e) /\ r \in EscrowRecord /\ r.platform_fee < r.amount
        /\ r.freelancer \in Accounts
    BY <1>11, LoadedFact DEF CompleteMilestone, Is
  <2>2. r.milestones_completed + 1 \in Nat
    BY <2>1 DEF EscrowRecord
  <2> DEFINE n == [r EXCEPT !.milestones_completed = @ + 1]
  <2>3. n \in EscrowRecord /\ n.platform_fee < n.amount
    BY <2>1, <2>2 DEF EscrowRecord
  <2>4. EscrowsOK /\ SignerOK
    BY <1>11, <2>1, <2>3, SaveTypes DEF CompleteMilestone, Calls
  <2>5. QED
    BY <1>0, <1>11, <2>4, EscrowCallTypes DEF CompleteMilestone
<1>12. ASSUME ClaimExpired(e)
       PROVE  TypeInv'
  <2>1. Loaded(e)
    BY <1>12 DEF ClaimExpired, Is
  <2>2. EscrowsOK /\ MoneyOK /\ SignerOK
    BY <1>5, <1>12, <2>1 DEF ClaimExpired, Calls
  <2>3. QED
    BY <1>12, <2>2, EscrowCallTypes DEF ClaimExpired
<1>13. ASSUME NEW a \in Accounts, ApproveRelease(e, a)
       PROVE  TypeInv'
  <2>1. Loaded(e) /\ r \in EscrowRecord /\ r.platform_fee < r.amount
    BY <1>13, LoadedFact DEF ApproveRelease, Is
  <2> DEFINE n == Endorse(r, a)
  <2>2. /\ n \in EscrowRecord /\ n.platform_fee < n.amount
        /\ [n EXCEPT !.status = "Released"] \in EscrowRecord
        /\ [n EXCEPT !.status = "Released"].platform_fee
             < [n EXCEPT !.status = "Released"].amount
    BY <2>1 DEF Endorse, EscrowRecord, EscrowStatus
  <2>3. CASE BothApproved(n)
    <3>1. /\ DoRelease(e) /\ Save(e, [n EXCEPT !.status = "Released"])
          /\ Calls(a, {"approved", "released"})
      BY <1>13, <2>3 DEF ApproveRelease
    <3>2. EscrowsOK
      BY <2>2, <3>1, SaveTypes
    <3>3. MoneyOK /\ SignerOK
      BY <2>1, <3>1, ReleaseTypes DEF Calls
    <3>4. QED
      BY <1>13, <3>2, <3>3, EscrowCallTypes DEF ApproveRelease
  <2>4. CASE ~BothApproved(n)
    <3>1. EscrowsOK /\ MoneyOK /\ SignerOK
      BY <1>0, <1>13, <2>2, <2>4, SaveTypes DEF ApproveRelease, Calls
    <3>2. QED
      BY <1>13, <3>1, EscrowCallTypes DEF ApproveRelease
  <2>5. QED
    BY <2>3, <2>4
<1>14. QED
  BY <1>1, <1>2, <1>3, <1>6, <1>7, <1>8, <1>9, <1>10, <1>11, <1>12, <1>13
     DEF EscrowStep

(* A fresh contract is well typed. *)
LEMMA InitTypes == Init => TypeInv
<1> SUFFICES ASSUME Init
             PROVE  TypeInv
  OBVIOUS
<1>1. FeeBelowAmount
  BY DEF Init, FeeBelowAmount, Loaded
<1>2. balance \in [Tokens -> [Accounts \cup {Contract} -> Nat]]
  BY NexusAssumption DEF Init
<1>3. moved \in [EscrowIds -> [deposited : Nat, client : Nat,
                              freelancer : Nat, admin : Nat]]
  BY DEF Init, NothingMoved
<1>4. escrows \in [EscrowIds -> EscrowRecord \cup {NoEscrow}]
  BY DEF Init
<1>5. feeBps \in 0..MaxFeeBps /\ ledger \in Nat
  BY DEF Init, DefaultFeeBps, MaxFeeBps
<1>6. admin \in Accounts \cup {NoAccount} /\ paused \in BOOLEAN
  BY DEF Init
<1>7. call.signer \in Accounts \cup {NoAccount}
  BY DEF Init
<1>8. QED
  BY <1>1, <1>2, <1>3, <1>4, <1>5, <1>6, <1>7 DEF TypeInv, TypeOK

(* Type correctness is inductive. *)
LEMMA NextTypes ==
  ASSUME TypeInv, [Next]_vars
  PROVE  TypeInv'
<1>1. CASE ConfigStep
  BY <1>1, ConfigStepTypes
<1>2. ASSUME NEW e \in EscrowIds, EscrowStep(e)
      PROVE  TypeInv'
  BY <1>2, EscrowStepTypes
<1>3. CASE CloseLedger
  <2>1. ledger' \in Nat
    BY <1>3 DEF CloseLedger, TypeInv, TypeOK
  <2>2. UNCHANGED <<config, escrows, money, call>>
    BY <1>3 DEF CloseLedger
  <2>3. QED
    BY <2>1, <2>2 DEF TypeInv, TypeOK, FeeBelowAmount, Loaded, config, money
<1>4. CASE UNCHANGED vars
  BY <1>4 DEF vars, TypeInv, TypeOK, FeeBelowAmount, Loaded
<1>5. QED
  BY <1>1, <1>2, <1>3, <1>4 DEF Next

(* TypeCorrect: no sequence of calls overdraws an account of the token,    *)
(* raises the fee above its cap or stores an ill-formed record.            *)
THEOREM TypeCorrect == Spec => []TypeOK
<1>1. Init => TypeInv
  BY InitTypes
<1>2. TypeInv /\ [Next]_vars => TypeInv'
  BY NextTypes
<1>3. TypeInv => TypeOK
  BY DEF TypeInv
<1>4. QED
  BY <1>1, <1>2, <1>3, PTL DEF Spec

-----------------------------------------------------------------------------
(* What a call on one escrow does to its record and its transfers, with    *)
(* the calls that do the same taken together.                              *)

EffOpen(e) ==
  /\ ~Loaded(e) /\ admin \in Accounts
  /\ \E o \in Offers : /\ o.amount > 0
                       /\ escrows'[e] = NewEscrow(o, admin, feeBps, ledger)
  /\ moved'[e] = moved[e]

EffFund(e) ==
  /\ Is(e, {"Pending"})
  /\ escrows'[e] = [escrows[e] EXCEPT !.status = "Funded", !.funded_ledger = ledger]
  /\ moved'[e] = [moved[e] EXCEPT !.deposited = @ + escrows[e].amount]

EffWork(e) ==
  /\ Is(e, Open)
  /\ \/ escrows'[e] = [escrows[e] EXCEPT !.status = "Active"]
     \/ /\ MilestoneLeft(escrows[e])
        /\ escrows'[e] = [escrows[e] EXCEPT !.milestones_completed = @ + 1]
     \/ \E a \in Accounts : /\ escrows'[e] = Endorse(escrows[e], a)
                            /\ ~BothApproved(Endorse(escrows[e], a))
  /\ moved'[e] = moved[e]

EffDispute(e) ==
  /\ Is(e, Open)
  /\ escrows'[e] = Disputed(escrows[e])
  /\ moved'[e] = moved[e]

EffPay(e) ==
  /\ Is(e, Holding)
  /\ \/ /\ escrows'[e] = [escrows[e] EXCEPT !.status = "Released"]
        /\ \/ Is(e, Open) /\ call'.signer = escrows[e].client
           \/ Is(e, {"Disputed"}) /\ call'.signer = escrows[e].admin
     \/ /\ Is(e, Open)
        /\ \E a \in Accounts :
             /\ BothApproved(Endorse(escrows[e], a))
             /\ escrows'[e] = [Endorse(escrows[e], a) EXCEPT !.status = "Released"]
  /\ moved'[e] = [moved[e] EXCEPT
                    !.freelancer = @ + (escrows[e].amount - escrows[e].platform_fee),
                    !.admin = @ + escrows[e].platform_fee]

EffReturn(e) ==
  /\ Is(e, Holding)
  /\ escrows'[e] = [escrows[e] EXCEPT !.status = "Refunded"]
  /\ \/ call'.signer = escrows[e].admin
     \/ Is(e, Open) /\ Expired(escrows[e], ledger)
  /\ moved'[e] = [moved[e] EXCEPT !.client = @ + escrows[e].amount]

EffCancel(e) ==
  /\ Is(e, {"Pending"})
  /\ escrows'[e] = [escrows[e] EXCEPT !.status = "Cancelled"]
  /\ moved'[e] = moved[e]

Effect(e) ==
  \/ EffOpen(e) \/ EffFund(e) \/ EffWork(e) \/ EffDispute(e)
  \/ EffPay(e) \/ EffReturn(e) \/ EffCancel(e)

(* The other escrows are left alone. *)
Others(e) ==
  \A x \in EscrowIds \ {e} : escrows'[x] = escrows[x] /\ moved'[x] = moved[x]

(* What saving a record leaves of the map of escrows. *)
LEMMA SaveEffect ==
  ASSUME TypeInv, NEW e \in EscrowIds, NEW r, Save(e, r)
  PROVE  /\ escrows'[e] = r
         /\ \A x \in EscrowIds \ {e} : escrows'[x] = escrows[x]
  BY DEF Save, TypeInv, TypeOK

(* The history entry a deposit writes. *)
LEMMA DepositEffect ==
  ASSUME TypeInv, NEW e \in EscrowIds, Deposit(e)
  PROVE  /\ moved'[e] = [moved[e] EXCEPT !.deposited = @ + escrows[e].amount]
         /\ \A x \in EscrowIds \ {e} : moved'[x] = moved[x]
  BY DEF Deposit, TypeInv, TypeOK

(* The history entry the transfers of a release write. *)
LEMMA DoReleaseEffect ==
  ASSUME TypeInv, NEW e \in EscrowIds, DoRelease(e)
  PROVE  /\ moved'[e] = [moved[e] EXCEPT
                !.freelancer = @ + (escrows[e].amount - escrows[e].platform_fee),
                !.admin = @ + escrows[e].platform_fee]
         /\ \A x \in EscrowIds \ {e} : moved'[x] = moved[x]
  BY DEF DoRelease, TypeInv, TypeOK

(* The history entry the transfer of a refund writes. *)
LEMMA ReturnAllEffect ==
  ASSUME TypeInv, NEW e \in EscrowIds, ReturnAll(e)
  PROVE  /\ moved'[e] = [moved[e] EXCEPT !.client = @ + escrows[e].amount]
         /\ \A x \in EscrowIds \ {e} : moved'[x] = moved[x]
  BY DEF ReturnAll, TypeInv, TypeOK

(* Every call on an escrow has one of the effects named above. *)
LEMMA EscrowStepEffect ==
  ASSUME TypeInv, NEW e \in EscrowIds, EscrowStep(e)
  PROVE  Effect(e) /\ Others(e)
<1> DEFINE Goal == Effect(e) /\ Others(e)
<1>1. ASSUME NEW o \in Offers, InitEscrow(e, o)
      PROVE  Goal
  <2>1. EffOpen(e)
    BY <1>1, SaveEffect DEF InitEscrow, EffOpen, money, TypeInv, TypeOK
  <2>2. Others(e)
    BY <1>1, SaveEffect DEF InitEscrow, Others, money
  <2>3. QED
    BY <2>1, <2>2 DEF Effect
<1>2. ASSUME Fund(e)
      PROVE  Goal
  <2>1. EffFund(e)
    BY <1>2, SaveEffect, DepositEffect DEF Fund, EffFund
  <2>2. Others(e)
    BY <1>2, SaveEffect, DepositEffect DEF Fund, Others
  <2>3. QED
    BY <2>1, <2>2 DEF Effect
<1>3. ASSUME Activate(e)
      PROVE  Goal
  <2>1. EffWork(e)
    BY <1>3, SaveEffect DEF Activate, SetStatus, EffWork, Is, Open, money
  <2>2. Others(e)
    BY <1>3, SaveEffect DEF Activate, SetStatus, Others, money
  <2>3. QED
    BY <2>1, <2>2 DEF Effect
<1>4. ASSUME NEW h \in Hashes, Release(e, h)
      PROVE  Goal
  <2>1. Is(e, Open) /\ Is(e, Holding) /\ call'.signer = escrows[e].client
    BY <1>4 DEF Release, Is, Holding, Calls
  <2>2. EffPay(e)
    BY <1>4, <2>1, SaveEffect, DoReleaseEffect DEF Release, PayFreelancer, SetStatus, EffPay
  <2>3. Others(e)
    BY <1>4, SaveEffect, DoReleaseEffect DEF Release, PayFreelancer, SetStatus, Others
  <2>4. QED
    BY <2>2, <2>3 DEF Effect
<1>5. ASSUME Refund(e)
      PROVE  Goal
  <2>1. EffReturn(e)
    BY <1>5, SaveEffect, ReturnAllEffect DEF Refund, RefundClient, SetStatus, EffReturn, Calls
  <2>2. Others(e)
    BY <1>5, SaveEffect, ReturnAllEffect DEF Refund, RefundClient, SetStatus, Others
  <2>3. QED
    BY <2>1, <2>2 DEF Effect
<1>6. ASSUME NEW a \in Accounts, Cancel(e, a)
      PROVE  Goal
  <2>1. EffCancel(e)
    BY <1>6, SaveEffect DEF Cancel, SetStatus, EffCancel, money
  <2>2. Others(e)
    BY <1>6, SaveEffect DEF Cancel, SetStatus, Others, money
  <2>3. QED
    BY <2>1, <2>2 DEF Effect
<1>7. ASSUME NEW a \in Accounts, RaiseDispute(e, a)
      PROVE  Goal
  <2>1. EffDispute(e)
    BY <1>7, SaveEffect DEF RaiseDispute, EffDispute, money
  <2>2. Others(e)
    BY <1>7, SaveEffect DEF RaiseDispute, Others, money
  <2>3. QED
    BY <2>1, <2>2 DEF Effect
<1>8. ASSUME NEW f \in BOOLEAN, ResolveDispute(e, f)
      PROVE  Goal
  <2>1. Is(e, {"Disputed"}) /\ Is(e, Holding) /\ call'.signer = escrows[e].admin
    BY <1>8 DEF ResolveDispute, Is, Holding, Calls
  <2>2. CASE PayFreelancer(e)
    <3>1. EffPay(e)
      BY <2>1, <2>2, SaveEffect, DoReleaseEffect DEF PayFreelancer, SetStatus, EffPay
    <3>2. Others(e)
      BY <2>2, SaveEffect, DoReleaseEffect DEF PayFreelancer, SetStatus, Others
    <3>3. QED
      BY <3>1, <3>2 DEF Effect
  <2>3. CASE RefundClient(e)
    <3>1. EffReturn(e)
      BY <2>1, <2>3, SaveEffect, ReturnAllEffect DEF RefundClient, SetStatus, EffReturn
    <3>2. Others(e)
      BY <2>3, SaveEffect, ReturnAllEffect DEF RefundClient, SetStatus, Others
    <3>3. QED
      BY <3>1, <3>2 DEF Effect
  <2>4. QED
    BY <1>8, <2>2, <2>3 DEF ResolveDispute
<1>9. ASSUME CompleteMilestone(e)
      PROVE  Goal
  <2>1. EffWork(e)
    BY <1>9, SaveEffect DEF CompleteMilestone, EffWork, money
  <2>2. Others(e)
    BY <1>9, SaveEffect DEF CompleteMilestone, Others, money
  <2>3. QED
    BY <2>1, <2>2 DEF Effect
<1>10. ASSUME ClaimExpired(e)
       PROVE  Goal
  <2>1. Is(e, Holding)
    BY <1>10 DEF ClaimExpired, Is, Holding
  <2>2. EffReturn(e)
    BY <1>10, <2>1, SaveEffect, ReturnAllEffect DEF ClaimExpired, RefundClient, SetStatus, EffReturn
  <2>3. Others(e)
    BY <1>10, SaveEffect, ReturnAllEffect DEF ClaimExpired, RefundClient, SetStatus, Others
  <2>4. QED
    BY <2>2, <2>3 DEF Effect
<1>11. ASSUME NEW a \in Accounts, ApproveRelease(e, a)
       PROVE  Goal
  <2> DEFINE n == Endorse(escrows[e], a)
  <2>1. Is(e, Open) /\ Is(e, Holding)
    BY <1>11 DEF ApproveRelease, Is, Holding
  <2>2. CASE BothApproved(n)
    <3>1. DoRelease(e) /\ Save(e, [n EXCEPT !.status = "Released"])
      BY <1>11, <2>2 DEF ApproveRelease
    <3>2. EffPay(e)
      <4>1. \E b \in Accounts :
              /\ BothApproved(Endorse(escrows[e], b))
              /\ escrows'[e] = [Endorse(escrows[e], b) EXCEPT !.status = "Released"]
        BY <2>2, <3>1, SaveEffect
      <4>2. moved'[e] = [moved[e] EXCEPT
                !.freelancer = @ + (escrows[e].amount - escrows[e].platform_fee),
                !.admin = @ + escrows[e].platform_fee]
        BY <3>1, DoReleaseEffect
      <4>3. QED
        BY <2>1, <4>1, <4>2 DEF EffPay
    <3>3. Others(e)
      BY <3>1, SaveEffect, DoReleaseEffect DEF Others
    <3>4. QED
      BY <3>2, <3>3 DEF Effect
  <2>3. CASE ~BothApproved(n)
    <3>1. Save(e, n) /\ UNCHANGED money
      BY <1>11, <2>3 DEF ApproveRelease
    <3>2. EffWork(e)
      BY <2>1, <2>3, <3>1, SaveEffect DEF EffWork, money
    <3>3. Others(e)
      BY <3>1, SaveEffect DEF Others, money
    <3>4. QED
      BY <3>2, <3>3 DEF Effect
  <2>4. QED
    BY <2>2, <2>3
<1>12. QED
  BY <1>1, <1>2, <1>3, <1>4, <1>5, <1>6, <1>7, <1>8, <1>9, <1>10, <1>11
     DEF EscrowStep

-----------------------------------------------------------------------------
(* The inductive invariant.  SettlesExactly alone is not inductive: that   *)
(* the shares of a release add up needs the types, and that nothing is     *)
(* paid from a record whose funding is in doubt needs ProgressConsistent.  *)

IInv == /\ TypeInv
        /\ ledger >= 1
        /\ SettlesExactly
        /\ ApprovalsHonoured
        /\ ProgressConsistent

(* The three invariants, of one escrow. *)
Payouts(e)  == moved[e] = IF Loaded(e) THEN Due(escrows[e]) ELSE NothingMoved
Approvals(e) ==
  Loaded(e) =>
    LET r == escrows[e] IN
    /\ BothApproved(r) => r.status = "Released"
    /\ r.client_approved \/ r.freelancer_approved =>
         r.status \in {"Funded", "Active", "Released", "Refunded"}
Progress(e) ==
  Loaded(e) =>
    LET r == escrows[e] IN
    /\ r.milestones_completed <= r.milestones_total
    /\ r.status \in {"Pending", "Cancelled"} =>
         r.milestones_completed = 0 /\ r.funded_ledger = 0
    /\ r.status \notin {"Pending", "Cancelled"} =>
         r.funded_ledger \in 1..ledger

(* The inductive invariant, one escrow at a time. *)
LEMMA IInvByEscrow ==
  IInv <=> /\ TypeInv /\ ledger >= 1
           /\ \A e \in EscrowIds : Payouts(e) /\ Approvals(e) /\ Progress(e)
  BY DEF IInv, SettlesExactly, ApprovalsHonoured, ProgressConsistent,
         Payouts, Approvals, Progress

(* An effect keeps the transfers of its escrow equal to what is due. *)
LEMMA SettlesStep ==
  ASSUME TypeInv, TypeInv', NEW e \in EscrowIds, Payouts(e), Effect(e)
  PROVE  Payouts(e)'
<1> DEFINE r == escrows[e]
           n == escrows'[e]
<1>0. /\ Loaded(e) => r \in EscrowRecord /\ moved[e] = Due(r)
      /\ ~Loaded(e) => moved[e] = NothingMoved
      /\ r # NoEscrow <=> Loaded(e)
  BY DEF TypeInv, TypeOK, Loaded, Payouts
<1>1. SUFFICES n # NoEscrow /\ moved'[e] = Due(n)
  BY DEF Payouts, Loaded
<1>a. NoEscrow \notin EscrowRecord
  BY NexusAssumption
<1>b. n # NoEscrow => n \in EscrowRecord
  BY DEF TypeInv, TypeOK
<1>2. CASE EffOpen(e)
  <2>1. PICK o \in Offers : o.amount > 0 /\ n = NewEscrow(o, admin, feeBps, ledger)
    BY <1>2 DEF EffOpen
  <2>2. n \in EscrowRecord
    BY <1>2, <2>1, NewEscrowFact, NexusAssumption DEF EffOpen, TypeInv, TypeOK
  <2>3. n.status = "Pending" /\ moved'[e] = NothingMoved
    BY <1>0, <1>2, <2>1 DEF EffOpen, NewEscrow
  <2>4. QED
    BY <1>a, <2>2, <2>3 DEF Due, NothingMoved
<1>3. CASE EffFund(e)
  <2>1. n \in EscrowRecord /\ n.status = "Funded" /\ n.amount = r.amount
    BY <1>0, <1>3 DEF EffFund, Is, EscrowRecord, EscrowStatus, TypeInv, TypeOK
  <2>2. moved[e] = NothingMoved
    BY <1>0, <1>3 DEF EffFund, Is, Due, NothingMoved
  <2>3. moved'[e] = [NothingMoved EXCEPT !.deposited = 0 + r.amount]
    BY <1>3, <2>2 DEF EffFund, NothingMoved
  <2>4. r.amount \in Nat
    BY <1>0, <1>3 DEF EffFund, Is, EscrowRecord
  <2>5. QED
    BY <1>a, <2>1, <2>3, <2>4 DEF Due, NothingMoved
<1>4. CASE EffWork(e)
  <2>1. n \in EscrowRecord /\ n.status \in Open /\ n.amount = r.amount
    <3>1. r \in EscrowRecord /\ r.status \in Open
      BY <1>0, <1>4 DEF EffWork, Is
    <3>2. CASE n = [r EXCEPT !.status = "Active"]
      BY <3>1, <3>2 DEF EscrowRecord, EscrowStatus, Open
    <3>3. CASE n = [r EXCEPT !.milestones_completed = @ + 1]
      <4>1. r.milestones_completed + 1 \in Nat
        BY <3>1 DEF EscrowRecord
      <4>2. QED
        BY <3>1, <3>3, <4>1 DEF EscrowRecord
    <3>4. ASSUME NEW a \in Accounts, n = Endorse(r, a)
          PROVE  n \in EscrowRecord /\ n.status \in Open /\ n.amount = r.amount
      BY <3>1, <3>4 DEF EscrowRecord, Endorse
    <3>5. QED
      BY <1>4, <3>2, <3>3, <3>4 DEF EffWork
  <2>2. Due(n) = Due(r)
    BY <1>0, <1>4, <2>1 DEF EffWork, Is, Due, Holding, Open
  <2>3. QED
    BY <1>0, <1>a, <1>4, <2>1, <2>2 DEF EffWork, Is
<1>5. CASE EffDispute(e)
  <2>1. n \in EscrowRecord /\ n.status = "Disputed" /\ n.amount = r.amount
    BY <1>0, <1>5 DEF EffDispute, Is, EscrowRecord, EscrowStatus, Disputed
  <2>2. Due(n) = Due(r)
    BY <1>0, <1>5, <2>1 DEF EffDispute, Is, Due, Holding, Open
  <2>3. QED
    BY <1>0, <1>a, <1>5, <2>1, <2>2 DEF EffDispute, Is
<1>6. CASE EffPay(e)
  <2>1. /\ n \in EscrowRecord /\ n.status = "Released"
        /\ n.amount = r.amount /\ n.platform_fee = r.platform_fee
    BY <1>0, <1>6 DEF EffPay, Is, EscrowRecord, EscrowStatus, Endorse
  <2>2. moved[e] = [NothingMoved EXCEPT !.deposited = r.amount]
    BY <1>0, <1>6 DEF EffPay, Is, Due, Holding, Open, NothingMoved
  <2>3. /\ r.amount \in Nat /\ r.platform_fee \in Nat
        /\ r.amount - r.platform_fee \in Int
    BY <1>0, <1>6 DEF EffPay, Is, EscrowRecord
  <2>4. moved'[e] = [deposited |-> r.amount, client |-> 0,
                     freelancer |-> 0 + (r.amount - r.platform_fee),
                     admin |-> 0 + r.platform_fee]
    BY <1>6, <2>2 DEF EffPay, NothingMoved
  <2>5. QED
    BY <1>a, <2>1, <2>3, <2>4 DEF Due
<1>7. CASE EffReturn(e)
  <2>1. n \in EscrowRecord /\ n.status = "Refunded" /\ n.amount = r.amount
    BY <1>0, <1>7 DEF EffReturn, Is, EscrowRecord, EscrowStatus
  <2>2. moved[e] = [NothingMoved EXCEPT !.deposited = r.amount]
    BY <1>0, <1>7 DEF EffReturn, Is, Due, Holding, Open, NothingMoved
  <2>3. r.amount \in Nat
    BY <1>0, <1>7 DEF EffReturn, Is, EscrowRecord
  <2>4. moved'[e] = [deposited |-> r.amount, client |-> 0 + r.amount,
                     freelancer |-> 0, admin |-> 0]
    BY <1>7, <2>2 DEF EffReturn, NothingMoved
  <2>5. QED
    BY <1>a, <2>1, <2>3, <2>4 DEF Due
<1>8. CASE EffCancel(e)
  <2>1. n \in EscrowRecord /\ n.status = "Cancelled"
    BY <1>0, <1>8 DEF EffCancel, Is, EscrowRecord, EscrowStatus
  <2>2. Due(n) = Due(r)
    BY <1>0, <1>8, <2>1 DEF EffCancel, Is, Due
  <2>3. QED
    BY <1>0, <1>a, <1>8, <2>1, <2>2 DEF EffCancel, Is
<1>9. QED
  BY <1>2, <1>3, <1>4, <1>5, <1>6, <1>7, <1>8 DEF Effect

(* An effect keeps the approvals of its escrow honoured. *)
LEMMA ApprovalsStep ==
  ASSUME TypeInv, NEW e \in EscrowIds, Approvals(e), Effect(e)
  PROVE  Approvals(e)'
<1> DEFINE r == escrows[e]
           n == escrows'[e]
<1>0. Loaded(e) => r \in EscrowRecord
  BY DEF TypeInv, TypeOK, Loaded
<1>1. SUFFICES /\ BothApproved(n) => n.status = "Released"
               /\ n.client_approved \/ n.freelancer_approved =>
                    n.status \in {"Funded", "Active", "Released", "Refunded"}
  BY DEF Approvals, Loaded, BothApproved
<1> USE DEF Approvals, BothApproved, Is, EscrowRecord
<1>2. CASE EffOpen(e)
  BY <1>2 DEF EffOpen, NewEscrow
<1>3. CASE EffFund(e)
  BY <1>0, <1>3 DEF EffFund
<1>4. CASE EffWork(e)
  <2>1. r \in EscrowRecord /\ r.status \in Open /\ ~BothApproved(r)
    BY <1>0, <1>4 DEF EffWork, Open
  <2>2. CASE n = [r EXCEPT !.status = "Active"]
    BY <2>1, <2>2
  <2>3. CASE n = [r EXCEPT !.milestones_completed = @ + 1]
    BY <2>1, <2>3 DEF Open
  <2>4. ASSUME NEW a \in Accounts, n = Endorse(r, a), ~BothApproved(n)
        PROVE  n.status \in Open /\ ~BothApproved(n)
    BY <2>1, <2>4 DEF Endorse
  <2>5. QED
    BY <1>4, <2>2, <2>3, <2>4 DEF EffWork, Open
<1>5. CASE EffDispute(e)
  BY <1>0, <1>5 DEF EffDispute, Disputed
<1>6. CASE EffPay(e)
  BY <1>0, <1>6 DEF EffPay, Endorse
<1>7. CASE EffReturn(e)
  BY <1>0, <1>7 DEF EffReturn, Holding, Open
<1>8. CASE EffCancel(e)
  BY <1>0, <1>8 DEF EffCancel
<1>9. QED
  BY <1>2, <1>3, <1>4, <1>5, <1>6, <1>7, <1>8 DEF Effect

(* An effect keeps the counters of its escrow consistent. *)
LEMMA ProgressStep ==
  ASSUME TypeInv, ledger >= 1, UNCHANGED ledger,
         NEW e \in EscrowIds, Progress(e), Effect(e)
  PROVE  Progress(e)'
<1> DEFINE r == escrows[e]
           n == escrows'[e]
<1>0. /\ Loaded(e) => r \in EscrowRecord
      /\ ledger \in Nat /\ ledger' = ledger
  BY DEF TypeInv, TypeOK, Loaded
<1>1. SUFFICES /\ n.milestones_completed <= n.milestones_total
               /\ n.status \in {"Pending", "Cancelled"} =>
                    n.milestones_completed = 0 /\ n.funded_ledger = 0
               /\ n.status \notin {"Pending", "Cancelled"} =>
                    n.funded_ledger \in 1..ledger
  BY <1>0 DEF Progress, Loaded
<1> USE DEF Progress, Is, EscrowRecord
<1>2. CASE EffOpen(e)
  <2>1. PICK o \in Offers : n = NewEscrow(o, admin, feeBps, ledger)
    BY <1>2 DEF EffOpen
  <2>2. o.milestones_total \in Nat
    BY NexusAssumption DEF Offer
  <2>3. QED
    BY <2>1, <2>2 DEF NewEscrow
<1>3. CASE EffFund(e)
  BY <1>0, <1>3 DEF EffFund
<1>4. CASE EffWork(e)
  <2>1. r \in EscrowRecord /\ r.status \in Open
    BY <1>0, <1>4 DEF EffWork
  <2>2. CASE n = [r EXCEPT !.status = "Active"]
    BY <1>4, <2>1, <2>2 DEF EffWork, Open
  <2>3. CASE MilestoneLeft(r) /\ n = [r EXCEPT !.milestones_completed = @ + 1]
    BY <1>4, <2>1, <2>3 DEF EffWork, Open, MilestoneLeft
  <2>4. CASE \E a \in Accounts : n = Endorse(r, a)
    BY <1>4, <2>1, <2>4 DEF EffWork, Open, Endorse
  <2>5. QED
    BY <1>4, <2>2, <2>3, <2>4 DEF EffWork
<1>5. CASE EffDispute(e)
  BY <1>0, <1>5 DEF EffDispute, Disputed, Open
<1>6. CASE EffPay(e)
  BY <1>0, <1>6 DEF EffPay, Endorse, Holding, Open
<1>7. CASE EffReturn(e)
  BY <1>0, <1>7 DEF EffReturn, Holding, Open
<1>8. CASE EffCancel(e)
  BY <1>0, <1>8 DEF EffCancel
<1>9. QED
  BY <1>2, <1>3, <1>4, <1>5, <1>6, <1>7, <1>8 DEF Effect

(* A step that leaves an escrow and its history alone keeps its invariants. *)
LEMMA UntouchedStep ==
  ASSUME NEW e \in EscrowIds, escrows'[e] = escrows[e], moved'[e] = moved[e],
         ledger \in Nat, ledger' \in Nat, ledger' >= ledger,
         Payouts(e), Approvals(e), Progress(e)
  PROVE  Payouts(e)' /\ Approvals(e)' /\ Progress(e)'
<1>1. Payouts(e)'
  BY DEF Payouts, Loaded
<1>2. Approvals(e)'
  BY DEF Approvals, Loaded
<1>3. Progress(e)'
  <2>1. 1..ledger \subseteq 1..ledger'
    OBVIOUS
  <2>2. QED
    BY <2>1 DEF Progress, Loaded
<1>4. QED
  BY <1>1, <1>2, <1>3

(* The inductive invariant holds of a fresh contract. *)
LEMMA InitIInv == Init => IInv
<1> SUFFICES ASSUME Init
             PROVE  IInv
  OBVIOUS
<1>1. TypeInv
  BY InitTypes
<1>2. ledger >= 1 /\ \A e \in EscrowIds : ~Loaded(e) /\ moved[e] = NothingMoved
  BY DEF Init, Loaded
<1>3. QED
  BY <1>1, <1>2, IInvByEscrow DEF Payouts, Approvals, Progress

(* The inductive invariant is inductive. *)
LEMMA NextIInv ==
  ASSUME IInv, [Next]_vars
  PROVE  IInv'
<1>0. /\ TypeInv /\ ledger >= 1 /\ TypeInv'
      /\ \A e \in EscrowIds : Payouts(e) /\ Approvals(e) /\ Progress(e)
  BY IInvByEscrow, NextTypes
<1>a. ledger \in Nat /\ ledger' \in Nat
  BY <1>0 DEF TypeInv, TypeOK
<1>1. ASSUME NEW e \in EscrowIds, EscrowStep(e)
      PROVE  IInv'
  <2>1. UNCHANGED ledger
    BY <1>1 DEF EscrowStep, InitEscrow, Fund, Activate, Release, Refund, Cancel,
                RaiseDispute, ResolveDispute, CompleteMilestone, ClaimExpired,
                ApproveRelease
  <2>2. Effect(e) /\ Others(e)
    BY <1>0, <1>1, EscrowStepEffect
  <2>3. Payouts(e)' /\ Approvals(e)' /\ Progress(e)'
    BY <1>0, <2>1, <2>2, SettlesStep, ApprovalsStep, ProgressStep
  <2>4. ASSUME NEW x \in EscrowIds, x # e
        PROVE  Payouts(x)' /\ Approvals(x)' /\ Progress(x)'
    BY <1>0, <1>a, <2>1, <2>2, <2>4, UntouchedStep DEF Others
  <2>5. QED
    BY <1>0, <1>a, <2>1, <2>3, <2>4 DEF IInv, SettlesExactly,
       ApprovalsHonoured, ProgressConsistent, Payouts, Approvals, Progress
<1>2. ASSUME UNCHANGED <<escrows, moved>>, ledger' \in {ledger, ledger + 1}
      PROVE  IInv'
  <2>1. \A e \in EscrowIds : Payouts(e)' /\ Approvals(e)' /\ Progress(e)'
    BY <1>0, <1>a, <1>2, UntouchedStep
  <2>2. QED
    BY <1>0, <1>a, <1>2, <2>1 DEF IInv, SettlesExactly,
       ApprovalsHonoured, ProgressConsistent, Payouts, Approvals, Progress
<1>3. CASE ConfigStep
  BY <1>2, <1>3 DEF ConfigStep, Initialize, SetFee, SetPaused, TransferAdmin, money
<1>4. CASE CloseLedger
  BY <1>2, <1>4 DEF CloseLedger, money
<1>5. CASE UNCHANGED vars
  BY <1>2, <1>5 DEF vars
<1>6. QED
  BY <1>1, <1>3, <1>4, <1>5 DEF Next

(* The inductive invariant holds in every reachable state. *)
LEMMA SpecIInv == Spec => []IInv
  BY InitIInv, NextIInv, PTL DEF Spec

(* EveryEscrowSettlesExactly: for any number of escrows and any calls in   *)
(* any order, the transfers of an escrow are what its status promises.     *)
THEOREM EveryEscrowSettlesExactly == Spec => []SettlesExactly
<1>1. IInv => SettlesExactly
  BY DEF IInv
<1>2. QED
  BY <1>1, SpecIInv, PTL

(* NoStaleApproval: two approvals always mean a released escrow and none   *)
(* outlives a dispute.                                                     *)
THEOREM NoStaleApproval == Spec => []ApprovalsHonoured
<1>1. IInv => ApprovalsHonoured
  BY DEF IInv
<1>2. QED
  BY <1>1, SpecIInv, PTL

(* ProgressStaysConsistent: milestone counters and funding ledgers.        *)
THEOREM ProgressStaysConsistent == Spec => []ProgressConsistent
<1>1. IInv => ProgressConsistent
  BY DEF IInv
<1>2. QED
  BY <1>1, SpecIInv, PTL

-----------------------------------------------------------------------------
(* Action properties.  A step is an effect on one escrow, or leaves every  *)
(* escrow and its history alone.                                           *)

(* A step of the contract changes no escrow, or one by an effect. *)
LEMMA StepIsEffect ==
  ASSUME TypeInv, Next
  PROVE  \/ \E e \in EscrowIds : Effect(e) /\ Others(e)
         \/ UNCHANGED <<escrows, moved>>
<1>1. CASE ConfigStep
  BY <1>1 DEF ConfigStep, Initialize, SetFee, SetPaused, TransferAdmin, money
<1>2. ASSUME NEW e \in EscrowIds, EscrowStep(e)
      PROVE  Effect(e) /\ Others(e)
  BY <1>2, EscrowStepEffect
<1>3. CASE CloseLedger
  BY <1>3 DEF CloseLedger, money
<1>4. QED
  BY <1>1, <1>2, <1>3 DEF Next

(* No effect starts from a terminal escrow. *)
LEMMA EffectNotTerminal ==
  ASSUME NEW e \in EscrowIds, Effect(e)
  PROVE  ~Is(e, Terminal)
  BY DEF Effect, EffOpen, EffFund, EffWork, EffDispute, EffPay, EffReturn,
         EffCancel, Is, Open, Holding, Terminal

(* A step leaves a finished escrow alone.                                  *)
LEMMA FinalStep ==
  IInv /\ [Next]_vars => [\A e \in EscrowIds : Is(e, Terminal) =>
                            escrows'[e] = escrows[e] /\ moved'[e] = moved[e]]_vars
<1> DEFINE A == \A e \in EscrowIds : Is(e, Terminal) =>
                  escrows'[e] = escrows[e] /\ moved'[e] = moved[e]
<1> SUFFICES ASSUME IInv, Next
             PROVE  A
  OBVIOUS
<1>1. CASE UNCHANGED <<escrows, moved>>
  BY <1>1
<1>2. ASSUME NEW e \in EscrowIds, Effect(e), Others(e)
      PROVE  A
  BY <1>2, EffectNotTerminal DEF Others
<1>3. QED
  BY <1>1, <1>2, StepIsEffect DEF IInv

(* SettledForGood: a released, refunded or cancelled escrow never changes  *)
(* and no token moves for it again.                                        *)
THEOREM SettledForGood == Spec => FinalIsFinal
  BY SpecIInv, FinalStep, PTL DEF Spec, FinalIsFinal

(* The terms of a record survive every effect on it. *)
LEMMA StatusTerms ==
  ASSUME NEW r \in EscrowRecord, NEW s
  PROVE  Terms([r EXCEPT !.status = s]) = Terms(r)
  BY DEF Terms, EscrowRecord

(* Counting a milestone keeps the terms. *)
LEMMA MilestoneTerms ==
  ASSUME NEW r \in EscrowRecord, NEW k
  PROVE  Terms([r EXCEPT !.milestones_completed = k]) = Terms(r)
  BY DEF Terms, EscrowRecord

(* Recording an approval keeps the terms. *)
LEMMA EndorseTerms ==
  ASSUME NEW r \in EscrowRecord, NEW a
  PROVE  Terms(Endorse(r, a)) = Terms(r)
  BY DEF Terms, EscrowRecord, Endorse

(* Raising a dispute keeps the terms. *)
LEMMA DisputeTerms ==
  ASSUME NEW r \in EscrowRecord
  PROVE  Terms(Disputed(r)) = Terms(r)
  BY DEF Terms, EscrowRecord, Disputed

(* Every effect but init_escrow keeps the terms. *)
LEMMA EffectTerms ==
  ASSUME TypeInv, NEW e \in EscrowIds, Effect(e), Loaded(e)
  PROVE  escrows'[e] # NoEscrow /\ Terms(escrows'[e]) = Terms(escrows[e])
<1> DEFINE r == escrows[e]
           n == escrows'[e]
<1>1. r \in EscrowRecord /\ NoEscrow \notin EscrowRecord /\ ledger \in Nat
  BY NexusAssumption DEF TypeInv, TypeOK, Loaded
<1>2. SUFFICES n \in EscrowRecord /\ Terms(n) = Terms(r)
  BY <1>1
<1>3. CASE EffFund(e)
  <2>1. n \in EscrowRecord
    BY <1>1, <1>3 DEF EffFund, EscrowRecord, EscrowStatus
  <2>2. n = [r EXCEPT !.status = "Funded", !.funded_ledger = ledger]
    BY <1>3 DEF EffFund
  <2>3. Terms(n) = Terms(r)
    BY <1>1, <2>2 DEF Terms, EscrowRecord
  <2>4. QED
    BY <2>1, <2>3
<1>4. CASE EffWork(e)
  <2>1. CASE n = [r EXCEPT !.status = "Active"]
    BY <1>1, <2>1, StatusFact, StatusTerms DEF EscrowStatus
  <2>2. CASE n = [r EXCEPT !.milestones_completed = @ + 1]
    <3>1. r.milestones_completed + 1 \in Nat
      BY <1>1 DEF EscrowRecord
    <3>2. n \in EscrowRecord
      BY <1>1, <2>2, <3>1 DEF EscrowRecord
    <3>3. QED
      BY <1>1, <2>2, <3>2, MilestoneTerms
  <2>3. ASSUME NEW a \in Accounts, n = Endorse(r, a)
        PROVE  n \in EscrowRecord /\ Terms(n) = Terms(r)
    BY <1>1, <2>3, EndorseFact, EndorseTerms
  <2>4. QED
    BY <1>4, <2>1, <2>2, <2>3 DEF EffWork
<1>5. CASE EffDispute(e)
  <2>1. n \in EscrowRecord
    BY <1>1, <1>5 DEF EffDispute, EscrowRecord, EscrowStatus, Disputed
  <2>2. QED
    BY <1>1, <1>5, <2>1, DisputeTerms DEF EffDispute
<1>6. CASE EffPay(e)
  <2>1. CASE n = [r EXCEPT !.status = "Released"]
    BY <1>1, <2>1, StatusFact, StatusTerms DEF EscrowStatus
  <2>2. ASSUME NEW a \in Accounts, n = [Endorse(r, a) EXCEPT !.status = "Released"]
        PROVE  n \in EscrowRecord /\ Terms(n) = Terms(r)
    <3>1. Endorse(r, a) \in EscrowRecord /\ Terms(Endorse(r, a)) = Terms(r)
      BY <1>1, EndorseFact, EndorseTerms
    <3>2. QED
      BY <2>2, <3>1, StatusFact, StatusTerms DEF EscrowStatus
  <2>3. QED
    BY <1>6, <2>1, <2>2 DEF EffPay
<1>7. CASE EffReturn(e)
  BY <1>1, <1>7, StatusFact, StatusTerms DEF EffReturn, EscrowStatus
<1>8. CASE EffCancel(e)
  BY <1>1, <1>8, StatusFact, StatusTerms DEF EffCancel, EscrowStatus
<1>9. QED
  BY <1>3, <1>4, <1>5, <1>6, <1>7, <1>8 DEF Effect, EffOpen

(* A step keeps the terms of every escrow.                                 *)
LEMMA TermsStep ==
  IInv /\ [Next]_vars => [\A e \in EscrowIds : Loaded(e) =>
           escrows'[e] # NoEscrow /\ Terms(escrows'[e]) = Terms(escrows[e])]_vars
<1> DEFINE A == \A e \in EscrowIds : Loaded(e) =>
                  escrows'[e] # NoEscrow /\ Terms(escrows'[e]) = Terms(escrows[e])
<1> SUFFICES ASSUME IInv, Next
             PROVE  A
  OBVIOUS
<1>1. CASE UNCHANGED <<escrows, moved>>
  BY <1>1 DEF Loaded
<1>2. ASSUME NEW e \in EscrowIds, Effect(e), Others(e)
      PROVE  A
  BY <1>2, EffectTerms DEF Others, Loaded, IInv
<1>3. QED
  BY <1>1, <1>2, StepIsEffect DEF IInv

(* DealsKeepTheirTerms: no later call changes what the parties agreed on.  *)
THEOREM DealsKeepTheirTerms == Spec => TermsFixed
  BY SpecIInv, TermsStep, PTL DEF Spec, TermsFixed

(* Which effect leads to which final status. *)
LEMMA EffectEnds ==
  ASSUME TypeInv, NEW e \in EscrowIds, Effect(e)
  PROVE  /\ Becomes(e, "Released") => EffPay(e)
         /\ Becomes(e, "Refunded") => EffReturn(e)
<1> DEFINE r == escrows[e]
           n == escrows'[e]
<1>1. Loaded(e) => r \in EscrowRecord
  BY DEF TypeInv, TypeOK, Loaded
<1> USE <1>1 DEF Becomes, Is, EscrowRecord
<1>2. CASE EffOpen(e)
  BY <1>2 DEF EffOpen, NewEscrow
<1>3. CASE EffFund(e)
  BY <1>3 DEF EffFund
<1>4. CASE EffWork(e)
  BY <1>4 DEF EffWork, Endorse, Open
<1>5. CASE EffDispute(e)
  BY <1>5 DEF EffDispute, Disputed
<1>6. CASE EffPay(e)
  BY <1>6 DEF EffPay, Endorse
<1>7. CASE EffReturn(e)
  BY <1>7 DEF EffReturn
<1>8. CASE EffCancel(e)
  BY <1>8 DEF EffCancel
<1>9. QED
  BY <1>2, <1>3, <1>4, <1>5, <1>6, <1>7, <1>8 DEF Effect

(* A step that releases an escrow has its consent.                         *)
LEMMA ConsentStep ==
  IInv /\ [Next]_vars => [\A e \in EscrowIds : Becomes(e, "Released") =>
       \/ Is(e, Open) /\ call'.signer = escrows[e].client
       \/ Is(e, Open) /\ BothApproved(escrows'[e])
       \/ Is(e, {"Disputed"}) /\ call'.signer = escrows[e].admin]_vars
<1> DEFINE A == \A e \in EscrowIds : Becomes(e, "Released") =>
                  \/ Is(e, Open) /\ call'.signer = escrows[e].client
                  \/ Is(e, Open) /\ BothApproved(escrows'[e])
                  \/ Is(e, {"Disputed"}) /\ call'.signer = escrows[e].admin
<1> SUFFICES ASSUME IInv, Next
             PROVE  A
  OBVIOUS
<1>1. CASE UNCHANGED <<escrows, moved>>
  BY <1>1 DEF Becomes, Is, Loaded
<1>2. ASSUME NEW e \in EscrowIds, Effect(e), Others(e)
      PROVE  A
  <2> SUFFICES ASSUME NEW x \in EscrowIds, Becomes(x, "Released")
               PROVE  \/ Is(x, Open) /\ call'.signer = escrows[x].client
                      \/ Is(x, Open) /\ BothApproved(escrows'[x])
                      \/ Is(x, {"Disputed"}) /\ call'.signer = escrows[x].admin
    OBVIOUS
  <2>1. x = e
    BY <1>2 DEF Others, Becomes, Is, Loaded
  <2>2. EffPay(x)
    BY <1>2, <2>1, EffectEnds DEF IInv
  <2>3. ASSUME NEW a \in Accounts, Is(x, Open), BothApproved(Endorse(escrows[x], a)),
               escrows'[x] = [Endorse(escrows[x], a) EXCEPT !.status = "Released"]
        PROVE  BothApproved(escrows'[x])
    <3>1. Endorse(escrows[x], a) \in EscrowRecord
      BY <2>3, EndorseFact DEF Is, Loaded, IInv, TypeInv, TypeOK
    <3>2. QED
      BY <2>3, <3>1 DEF BothApproved, EscrowRecord
  <2>4. QED
    BY <2>2, <2>3 DEF EffPay
<1>3. QED
  BY <1>1, <1>2, StepIsEffect DEF IInv

(* NobodyIsPaidUnasked: a payout has the client's signature, both parties' *)
(* approvals, or the pinned admin's ruling on a dispute behind it.         *)
THEOREM NobodyIsPaidUnasked == Spec => PaidByConsent
  BY SpecIInv, ConsentStep, PTL DEF Spec, PaidByConsent

(* A step that refunds an escrow has a cause.                              *)
LEMMA CauseStep ==
  IInv /\ [Next]_vars => [\A e \in EscrowIds : Becomes(e, "Refunded") =>
       \/ Is(e, Holding) /\ call'.signer = escrows[e].admin
       \/ Is(e, Open) /\ escrows[e].expiry_ledger # 0
                      /\ escrows[e].expiry_ledger <= ledger]_vars
<1> DEFINE A == \A e \in EscrowIds : Becomes(e, "Refunded") =>
                  \/ Is(e, Holding) /\ call'.signer = escrows[e].admin
                  \/ Is(e, Open) /\ escrows[e].expiry_ledger # 0
                                 /\ escrows[e].expiry_ledger <= ledger
<1> SUFFICES ASSUME IInv, Next
             PROVE  A
  OBVIOUS
<1>1. CASE UNCHANGED <<escrows, moved>>
  BY <1>1 DEF Becomes, Is, Loaded
<1>2. ASSUME NEW e \in EscrowIds, Effect(e), Others(e)
      PROVE  A
  <2> SUFFICES ASSUME NEW x \in EscrowIds, Becomes(x, "Refunded")
               PROVE  \/ Is(x, Holding) /\ call'.signer = escrows[x].admin
                      \/ Is(x, Open) /\ escrows[x].expiry_ledger # 0
                                     /\ escrows[x].expiry_ledger <= ledger
    OBVIOUS
  <2>1. x = e
    BY <1>2 DEF Others, Becomes, Is, Loaded
  <2>2. EffReturn(x)
    BY <1>2, <2>1, EffectEnds DEF IInv
  <2>3. ledger \in Nat /\ (Is(x, Open) => escrows[x].expiry_ledger \in Nat)
    BY DEF IInv, TypeInv, TypeOK, Is, Loaded, EscrowRecord
  <2>4. QED
    BY <2>2, <2>3 DEF EffReturn, Expired
<1>3. QED
  BY <1>1, <1>2, StepIsEffect DEF IInv

(* NoRefundWithoutCause: the deposit goes back only by the pinned admin or *)
(* by the clock, and the clock never decides a dispute.                    *)
THEOREM NoRefundWithoutCause == Spec => ReturnedWithCause
  BY SpecIInv, CauseStep, PTL DEF Spec, ReturnedWithCause

-----------------------------------------------------------------------------
(* The contract implements EscrowPromise. *)

(* The mapping follows a step that touches one escrow. *)
LEMMA MappingFrame ==
  ASSUME TypeInv, TypeInv', NEW e \in EscrowIds, Others(e)
  PROVE  /\ StageOf' = [StageOf EXCEPT ![e] = StageOf'[e]]
         /\ StakeOf' = [StakeOf EXCEPT ![e] = StakeOf'[e]]
         /\ moved' = [moved EXCEPT ![e] = moved'[e]]
<1>1. \A x \in EscrowIds \ {e} : escrows'[x] = escrows[x] /\ moved'[x] = moved[x]
  BY DEF Others
<1>2. StageOf' = [StageOf EXCEPT ![e] = StageOf'[e]]
  BY <1>1 DEF StageOf, Loaded
<1>3. StakeOf' = [StakeOf EXCEPT ![e] = StakeOf'[e]]
  BY <1>1 DEF StakeOf, Loaded
<1>4. moved' = [moved EXCEPT ![e] = moved'[e]]
  BY <1>1 DEF TypeInv, TypeOK
<1>5. QED
  BY <1>2, <1>3, <1>4

(* The stage and the stake of a record in each status. *)
LEMMA MappingFact ==
  ASSUME NEW e \in EscrowIds, Loaded(e)
  PROVE  /\ StageOf[e] = StageName[escrows[e].status]
         /\ StakeOf[e] = [amount |-> escrows[e].amount,
                          fee |-> escrows[e].platform_fee]
  BY DEF StageOf, StakeOf

(* Keeping the terms keeps the stake. *)
LEMMA StakeKept ==
  ASSUME TypeInv, TypeInv', NEW e \in EscrowIds, Loaded(e), Effect(e), Others(e)
  PROVE  StakeOf' = StakeOf
<1>1. escrows'[e] # NoEscrow /\ Terms(escrows'[e]) = Terms(escrows[e])
  BY EffectTerms
<1>2. /\ escrows'[e].amount = escrows[e].amount
      /\ escrows'[e].platform_fee = escrows[e].platform_fee
  BY <1>1 DEF Terms
<1>3. StakeOf'[e] = StakeOf[e]
  BY <1>1, <1>2 DEF StakeOf, Loaded
<1>4. QED
  BY <1>3, MappingFrame DEF StakeOf

(* Every effect is a step of the promise under the mapping. *)
LEMMA EffectImplements ==
  ASSUME IInv, IInv', NEW e \in EscrowIds, Effect(e), Others(e)
  PROVE  Promise!PromiseStep(e) \/ UNCHANGED <<StageOf, StakeOf, moved>>
<1> DEFINE r == escrows[e]
           n == escrows'[e]
<1>0. /\ TypeInv /\ TypeInv'
      /\ Loaded(e) => moved[e] = Due(r) /\ r \in EscrowRecord
      /\ n # NoEscrow => n \in EscrowRecord
      /\ StageOf' = [StageOf EXCEPT ![e] = StageOf'[e]]
      /\ StakeOf' = [StakeOf EXCEPT ![e] = StakeOf'[e]]
      /\ moved' = [moved EXCEPT ![e] = moved'[e]]
  BY MappingFrame DEF IInv, SettlesExactly, TypeInv, TypeOK, Loaded
<1>a. Loaded(e) => n # NoEscrow /\ StakeOf' = StakeOf
  BY <1>0, EffectTerms, StakeKept
<1>b. Loaded(e) => StageOf[e] = StageName[r.status]
                   /\ StakeOf[e] = [amount |-> r.amount, fee |-> r.platform_fee]
  BY MappingFact
<1>c. n # NoEscrow => StageOf'[e] = StageName[n.status]
                      /\ StakeOf'[e] = [amount |-> n.amount, fee |-> n.platform_fee]
  BY DEF StageOf, StakeOf, Loaded
<1>d. moved' = moved <=> moved'[e] = moved[e]
  BY <1>0 DEF TypeInv, TypeOK
<1>1. CASE EffOpen(e)
  <2>1. PICK o \in Offers : o.amount > 0 /\ n = NewEscrow(o, admin, feeBps, ledger)
    BY <1>1 DEF EffOpen
  <2>2. /\ o \in Offer /\ feeBps \in 0..MaxFeeBps /\ ledger \in Nat
        /\ admin \in Accounts
    BY <1>0, <1>1, NexusAssumption DEF EffOpen, TypeInv, TypeOK
  <2>3. n \in EscrowRecord /\ n.platform_fee < n.amount /\ n # NoEscrow
    BY <2>1, <2>2, NewEscrowFact, NexusAssumption DEF NewEscrow
  <2> DEFINE s == [amount |-> n.amount, fee |-> n.platform_fee]
  <2>4. s \in PossibleStakes
    BY <2>1, <2>2 DEF PossibleStakes, NewEscrow
  <2>5. 0 <= s.fee /\ s.fee < s.amount
    BY <2>3 DEF EscrowRecord
  <2>6. StageOf'[e] = "agreed"
    BY <1>c, <2>1, <2>3 DEF NewEscrow, StageName
  <2>7. StageOf[e] = "none"
    BY <1>1 DEF EffOpen, StageOf
  <2>8. UNCHANGED moved
    BY <1>1, <1>d DEF EffOpen
  <2>9. StakeOf' = [StakeOf EXCEPT ![e] = s]
    BY <1>0, <1>c, <2>3
  <2>10. Promise!Strike(e)
    BY <1>0, <2>4, <2>5, <2>6, <2>7, <2>8, <2>9 DEF Promise!Strike, Promise!Moves
  <2>11. QED
    BY <2>10 DEF Promise!PromiseStep
<1>2. CASE EffFund(e)
  <2>1. Loaded(e) /\ r.status = "Pending" /\ n.status = "Funded" /\ r.amount \in Nat
    BY <1>0, <1>2 DEF EffFund, Is, EscrowRecord
  <2>2. StageOf[e] = "agreed" /\ StageOf'[e] = "held"
    BY <1>a, <1>b, <1>c, <2>1 DEF StageName
  <2>3. moved'[e] = [moved[e] EXCEPT !.deposited = r.amount]
    BY <1>0, <1>2, <2>1 DEF EffFund, Due
  <2>4. Promise!DepositStake(e)
    BY <1>0, <1>a, <1>b, <2>1, <2>2, <2>3 DEF Promise!DepositStake, Promise!Moves
  <2>5. QED
    BY <2>4 DEF Promise!PromiseStep
<1>3. CASE EffWork(e)
  <2>1. Loaded(e) /\ r.status \in Open /\ n.status \in Open
    BY <1>0, <1>3 DEF EffWork, Is, Endorse, EscrowRecord, Open
  <2>2. StageOf'[e] = StageOf[e]
    BY <1>a, <1>b, <1>c, <2>1 DEF StageName, Open
  <2>3. StageOf' = StageOf
    BY <1>0, <2>2 DEF StageOf
  <2>4. QED
    BY <1>3, <1>a, <1>d, <2>1, <2>3 DEF EffWork
<1>4. CASE EffDispute(e)
  <2>1. Loaded(e) /\ r.status \in Open /\ n.status = "Disputed"
    BY <1>0, <1>4 DEF EffDispute, Is, Disputed, EscrowRecord
  <2>2. StageOf[e] = "held" /\ StageOf'[e] = "contested"
    BY <1>a, <1>b, <1>c, <2>1 DEF StageName, Open
  <2>3. Promise!Contest(e)
    BY <1>0, <1>4, <1>a, <1>d, <2>1, <2>2 DEF EffDispute, Promise!Contest, Promise!Moves
  <2>4. QED
    BY <2>3 DEF Promise!PromiseStep
<1>5. CASE EffPay(e)
  <2>1. /\ Loaded(e) /\ r.status \in Holding /\ n.status = "Released"
        /\ r.amount \in Nat /\ r.platform_fee \in Nat
    BY <1>0, <1>5 DEF EffPay, Is, Endorse, EscrowRecord
  <2>2. StageOf[e] \in {"held", "contested"} /\ StageOf'[e] = "paid"
    BY <1>a, <1>b, <1>c, <2>1 DEF StageName, Open, Holding
  <2>3. moved[e].freelancer = 0 /\ moved[e].admin = 0
    BY <1>0, <2>1 DEF Due, Holding, Open
  <2>4. moved'[e] = [moved[e] EXCEPT !.freelancer = r.amount - r.platform_fee,
                                     !.admin = r.platform_fee]
    <3>1. /\ 0 + (r.amount - r.platform_fee) = r.amount - r.platform_fee
          /\ 0 + r.platform_fee = r.platform_fee
      BY <2>1
    <3>2. QED
      BY <1>5, <2>3, <3>1 DEF EffPay
  <2>5. moved' = [moved EXCEPT ![e].freelancer = r.amount - r.platform_fee,
                               ![e].admin = r.platform_fee]
    <3>1. moved' = [moved EXCEPT ![e] = [moved[e] EXCEPT
                       !.freelancer = r.amount - r.platform_fee,
                       !.admin = r.platform_fee]]
      BY <1>0, <2>4
    <3>2. QED
      BY <1>0, <3>1 DEF TypeInv, TypeOK
  <2>6. StakeOf[e].amount = r.amount /\ StakeOf[e].fee = r.platform_fee
    BY <1>b, <2>1
  <2>7. /\ StageOf[e] \in {"held", "contested"}
        /\ StageOf' = [StageOf EXCEPT ![e] = "paid"]
        /\ StakeOf' = StakeOf
    BY <1>0, <1>a, <2>1, <2>2
  <2>8. Promise!PayOut(e)
    BY <2>5, <2>6, <2>7 DEF Promise!PayOut, Promise!Moves
  <2>9. QED
    BY <2>8 DEF Promise!PromiseStep
<1>6. CASE EffReturn(e)
  <2>1. Loaded(e) /\ r.status \in Holding /\ n.status = "Refunded" /\ r.amount \in Nat
    BY <1>0, <1>6 DEF EffReturn, Is, EscrowRecord
  <2>2. StageOf[e] \in {"held", "contested"} /\ StageOf'[e] = "returned"
    BY <1>a, <1>b, <1>c, <2>1 DEF StageName, Open, Holding
  <2>3. moved'[e] = [moved[e] EXCEPT !.client = r.amount]
    BY <1>0, <1>6, <2>1 DEF EffReturn, Due, Holding, Open
  <2>4. Promise!GiveBack(e)
    BY <1>0, <1>a, <1>b, <2>1, <2>2, <2>3 DEF Promise!GiveBack, Promise!Moves
  <2>5. QED
    BY <2>4 DEF Promise!PromiseStep
<1>7. CASE EffCancel(e)
  <2>1. Loaded(e) /\ r.status = "Pending" /\ n.status = "Cancelled"
    BY <1>0, <1>7 DEF EffCancel, Is, EscrowRecord
  <2>2. StageOf[e] = "agreed" /\ StageOf'[e] = "void"
    BY <1>a, <1>b, <1>c, <2>1 DEF StageName
  <2>3. Promise!CallOff(e)
    BY <1>0, <1>7, <1>a, <1>d, <2>1, <2>2 DEF EffCancel, Promise!CallOff, Promise!Moves
  <2>4. QED
    BY <2>3 DEF Promise!PromiseStep
<1>8. QED
  BY <1>1, <1>2, <1>3, <1>4, <1>5, <1>6, <1>7 DEF Effect

(* Every step of the contract is a step of the promise under the mapping. *)
LEMMA InitPromise == Init => Promise!PromiseInit
  BY DEF Init, Promise!PromiseInit, StageOf, StakeOf, Loaded, NothingMoved,
         Promise!NoStake, Promise!NothingPaid

LEMMA StepImplements ==
  ASSUME IInv, IInv', [Next]_vars
  PROVE  [Promise!PromiseNext]_(Promise!promiseVars)
<1> SUFFICES Promise!PromiseNext \/ UNCHANGED <<StageOf, StakeOf, moved>>
  BY DEF Promise!promiseVars
<1>1. CASE UNCHANGED <<escrows, moved>>
  BY <1>1 DEF StageOf, StakeOf, Loaded
<1>2. ASSUME NEW e \in EscrowIds, Effect(e), Others(e)
      PROVE  Promise!PromiseNext \/ UNCHANGED <<StageOf, StakeOf, moved>>
  BY <1>2, EffectImplements DEF Promise!PromiseNext
<1>3. CASE UNCHANGED vars
  BY <1>1, <1>3 DEF vars
<1>4. QED
  BY <1>1, <1>2, <1>3, StepIsEffect DEF IInv

(* ContractKeepsPromise: whatever calls arrive, in whatever order, each is *)
(* one step of one deal of EscrowPromise or does not touch any deal.       *)
THEOREM ContractKeepsPromise == Spec => ImplementsPromise
<1>1. Init => Promise!PromiseInit
  BY InitPromise
<1>2. IInv /\ IInv' /\ [Next]_vars => [Promise!PromiseNext]_(Promise!promiseVars)
  BY StepImplements
<1>3. QED
  BY <1>1, <1>2, SpecIInv, PTL DEF Spec, ImplementsPromise, Promise!PromiseSpec


-----------------------------------------------------------------------------
(* Solvency.  What the contract holds changes by what a call moves for its *)
(* escrow; what it holds for an escrow is the amount or nothing.           *)

InHand(e) == moved[e].deposited - moved[e].client - moved[e].freelancer - moved[e].admin

(* An escrow that holds funds holds its amount, to the unit. *)
LEMMA InHandFact ==
  ASSUME TypeInv, SettlesExactly, NEW e \in EscrowIds
  PROVE  InHand(e) = IF Is(e, Holding) THEN escrows[e].amount ELSE 0
<1>1. CASE ~Loaded(e)
  BY <1>1 DEF SettlesExactly, NothingMoved, InHand, Is
<1>2. CASE Loaded(e)
  <2> DEFINE r == escrows[e]
  <2>1. r.amount \in Nat /\ r.platform_fee \in Nat /\ r.status \in EscrowStatus
    BY <1>2, LoadedFact DEF EscrowRecord
  <2>2. moved[e] = Due(r)
    BY <1>2 DEF SettlesExactly
  <2>3. /\ Due(r).deposited = IF r.status \in {"Pending", "Cancelled"} THEN 0 ELSE r.amount
        /\ Due(r).client = IF r.status = "Refunded" THEN r.amount ELSE 0
        /\ Due(r).freelancer = IF r.status = "Released" THEN r.amount - r.platform_fee ELSE 0
        /\ Due(r).admin = IF r.status = "Released" THEN r.platform_fee ELSE 0
    BY DEF Due
  <2> QED  BY <1>2, <2>1, <2>2, <2>3 DEF InHand, Is, Holding, Open, EscrowStatus
<1> QED  BY <1>1, <1>2

(* The contract's share of a transfer. *)
LEMMA ShiftIn ==
  ASSUME NEW b \in [Accounts \cup {Contract} -> Nat], NEW a \in Accounts, NEW n \in Nat
  PROVE  /\ Shift(b, a, Contract, n)[Contract] = b[Contract] + n
         /\ Shift(b, Contract, a, n)[Contract] = b[Contract] - n
  BY NexusAssumption DEF Shift

(* The contract's balance follows the history of the escrow. *)
Cash(e) ==
  \A t \in Tokens :
    balance'[t][Contract] =
      balance[t][Contract] + (IF t = escrows[e].token THEN InHand(e)' - InHand(e) ELSE 0)

(* fund moves the deposit into the contract's account. *)
LEMMA DepositCash ==
  ASSUME TypeInv, NEW e \in EscrowIds, Loaded(e), Deposit(e)
  PROVE  Cash(e)
<1> DEFINE r == escrows[e]
<1>1. /\ r.token \in Tokens /\ r.client \in Accounts /\ r.amount \in Nat
      /\ balance[r.token] \in [Accounts \cup {Contract} -> Nat]
  BY LoadedFact
<1>2. InHand(e)' - InHand(e) = r.amount
  <2>1. moved'[e] = [moved[e] EXCEPT !.deposited = @ + r.amount]
    BY DepositEffect
  <2>2. moved[e] \in [deposited : Nat, client : Nat, freelancer : Nat, admin : Nat]
    BY DEF TypeInv, TypeOK
  <2> QED  BY <1>1, <2>1, <2>2 DEF InHand
<1>3. balance' = [balance EXCEPT ![r.token] = Shift(@, r.client, Contract, r.amount)]
  BY DEF Deposit
<1>4. /\ balance'[r.token] = Shift(balance[r.token], r.client, Contract, r.amount)
      /\ \A t \in Tokens \ {r.token} : balance'[t] = balance[t]
  BY <1>1, <1>3 DEF TypeInv, TypeOK
<1>5. \A t \in Tokens : balance[t][Contract] \in Nat
  BY DEF TypeInv, TypeOK
<1> DEFINE b == balance[r.token]
<1>6. balance'[r.token][Contract] = b[Contract] + r.amount
  <2>1. /\ b \in [Accounts \cup {Contract} -> Nat] /\ r.client \in Accounts
        /\ r.amount \in Nat /\ balance'[r.token] = Shift(b, r.client, Contract, r.amount)
    BY <1>1, <1>4
  <2> HIDE DEF b, r
  <2> QED  BY <2>1, ShiftIn
<1> HIDE DEF r
<1>7. ASSUME NEW t \in Tokens
      PROVE  balance'[t][Contract] =
               balance[t][Contract] + (IF t = r.token THEN InHand(e)' - InHand(e) ELSE 0)
  BY <1>1, <1>2, <1>4, <1>5, <1>6
<1> QED  BY <1>7 DEF Cash, r

(* The two transfers of a release take the amount out of it. *)
LEMMA ReleaseCash ==
  ASSUME TypeInv, NEW e \in EscrowIds, Loaded(e), DoRelease(e)
  PROVE  Cash(e)
<1> DEFINE r   == escrows[e]
           net == r.amount - r.platform_fee
           fee == r.platform_fee
           b   == Shift(balance[r.token], Contract, r.freelancer, net)
<1>1. /\ r.token \in Tokens /\ r.freelancer \in Accounts /\ r.admin \in Accounts
      /\ r.amount \in Nat /\ fee \in Nat /\ net \in Nat
      /\ balance[r.token] \in [Accounts \cup {Contract} -> Nat]
  BY LoadedFact
<1>2. InHand(e)' - InHand(e) = 0 - r.amount
  <2>1. moved'[e] = [moved[e] EXCEPT !.freelancer = @ + (r.amount - r.platform_fee),
                                     !.admin = @ + r.platform_fee]
    BY DoReleaseEffect
  <2>2. moved[e] \in [deposited : Nat, client : Nat, freelancer : Nat, admin : Nat]
    BY DEF TypeInv, TypeOK
  <2> QED  BY <1>1, <2>1, <2>2 DEF InHand
<1>3. balance' = [balance EXCEPT ![r.token] = Shift(b, Contract, r.admin, fee)]
  BY DEF DoRelease
<1>4. /\ balance'[r.token] = Shift(b, Contract, r.admin, fee)
      /\ \A t \in Tokens \ {r.token} : balance'[t] = balance[t]
  BY <1>1, <1>3 DEF TypeInv, TypeOK
<1>5. /\ b[Contract] = balance[r.token][Contract] - net
      /\ b \in [Accounts \cup {Contract} -> Nat]
  <2>1. net <= balance[r.token][Contract]
    <3>1. r.amount <= balance[r.token][Contract]
      BY <1>1 DEF DoRelease
    <3> QED  BY <1>1, <3>1
  <2>2. Contract # r.freelancer
    BY <1>1, NexusAssumption
  <2> DEFINE S == Accounts \cup {Contract}
  <2>3. /\ balance[r.token] \in [S -> Nat] /\ net \in Nat
        /\ Contract \in S /\ r.freelancer \in S
    BY <1>1
  <2> HIDE DEF S, net, r
  <2>4. b \in [S -> Nat] /\ b[Contract] = balance[r.token][Contract] - net
    BY <2>1, <2>2, <2>3, ShiftFact
  <2> QED  BY <2>4 DEF S
<1>6. balance'[r.token][Contract] = balance[r.token][Contract] - net - fee
  <2>1. /\ b \in [Accounts \cup {Contract} -> Nat] /\ r.admin \in Accounts /\ fee \in Nat
        /\ balance'[r.token] = Shift(b, Contract, r.admin, fee)
        /\ b[Contract] = balance[r.token][Contract] - net
    BY <1>1, <1>4, <1>5
  <2> HIDE DEF b, net, fee, r
  <2>2. Shift(b, Contract, r.admin, fee)[Contract] = b[Contract] - fee
    BY <2>1, ShiftIn
  <2> QED  BY <2>1, <2>2
<1>7. \A t \in Tokens : balance[t][Contract] \in Nat
  BY DEF TypeInv, TypeOK
<1> QED  BY <1>1, <1>2, <1>4, <1>6, <1>7 DEF Cash

(* So does the transfer of a refund. *)
LEMMA ReturnCash ==
  ASSUME TypeInv, NEW e \in EscrowIds, Loaded(e), ReturnAll(e)
  PROVE  Cash(e)
<1> DEFINE r == escrows[e]
<1>1. /\ r.token \in Tokens /\ r.client \in Accounts /\ r.amount \in Nat
      /\ balance[r.token] \in [Accounts \cup {Contract} -> Nat]
  BY LoadedFact
<1>2. InHand(e)' - InHand(e) = 0 - r.amount
  <2>1. moved'[e] = [moved[e] EXCEPT !.client = @ + r.amount]
    BY ReturnAllEffect
  <2>2. moved[e] \in [deposited : Nat, client : Nat, freelancer : Nat, admin : Nat]
    BY DEF TypeInv, TypeOK
  <2> QED  BY <1>1, <2>1, <2>2 DEF InHand
<1>3. balance' = [balance EXCEPT ![r.token] = Shift(@, Contract, r.client, r.amount)]
  BY DEF ReturnAll
<1>4. /\ balance'[r.token] = Shift(balance[r.token], Contract, r.client, r.amount)
      /\ \A t \in Tokens \ {r.token} : balance'[t] = balance[t]
  BY <1>1, <1>3 DEF TypeInv, TypeOK
<1>5. \A t \in Tokens : balance[t][Contract] \in Nat
  BY DEF TypeInv, TypeOK
<1> DEFINE b == balance[r.token]
<1>6. balance'[r.token][Contract] = b[Contract] - r.amount
  <2>1. /\ b \in [Accounts \cup {Contract} -> Nat] /\ r.client \in Accounts
        /\ r.amount \in Nat /\ balance'[r.token] = Shift(b, Contract, r.client, r.amount)
    BY <1>1, <1>4
  <2> HIDE DEF b, r
  <2>2. Shift(b, Contract, r.client, r.amount)[Contract] = b[Contract] - r.amount
    BY <2>1, ShiftIn
  <2> QED  BY <2>1, <2>2
<1> HIDE DEF r
<1>7. ASSUME NEW t \in Tokens
      PROVE  balance'[t][Contract] =
               balance[t][Contract] + (IF t = r.token THEN InHand(e)' - InHand(e) ELSE 0)
  BY <1>1, <1>2, <1>4, <1>5, <1>6
<1> QED  BY <1>7 DEF Cash, r

(* Every call on an escrow moves tokens by one of the three, or none. *)
LEMMA CallCash ==
  ASSUME TypeInv, NEW e \in EscrowIds, EscrowStep(e)
  PROVE  \/ UNCHANGED money
         \/ Loaded(e) /\ Cash(e)
<1>1. ASSUME NEW h \in Hashes, Release(e, h)  PROVE Loaded(e) /\ DoRelease(e)
  BY <1>1 DEF Release, Is, PayFreelancer
<1>2. ASSUME Refund(e) \/ ClaimExpired(e)  PROVE Loaded(e) /\ ReturnAll(e)
  BY <1>2 DEF Refund, ClaimExpired, Is, RefundClient
<1>3. ASSUME NEW f \in BOOLEAN, ResolveDispute(e, f)
      PROVE  Loaded(e) /\ (DoRelease(e) \/ ReturnAll(e))
  BY <1>3 DEF ResolveDispute, Is, PayFreelancer, RefundClient
<1>4. ASSUME NEW a \in Accounts, ApproveRelease(e, a)
      PROVE  \/ UNCHANGED money
             \/ Loaded(e) /\ DoRelease(e)
  <2>1. CASE BothApproved(Endorse(escrows[e], a))
    BY <1>4, <2>1 DEF ApproveRelease, Is
  <2>2. CASE ~BothApproved(Endorse(escrows[e], a))
    BY <1>4, <2>2 DEF ApproveRelease, money
  <2> QED  BY <2>1, <2>2
<1>5. ASSUME Fund(e)  PROVE Loaded(e) /\ Deposit(e)
  BY <1>5 DEF Fund, Is
<1>6. ASSUME NEW o \in Offers, InitEscrow(e, o)  PROVE UNCHANGED money
  BY <1>6 DEF InitEscrow, money
<1>7. ASSUME NEW a \in Accounts, Cancel(e, a) \/ RaiseDispute(e, a)  PROVE UNCHANGED money
  BY <1>7 DEF Cancel, RaiseDispute, money
<1>8. ASSUME Activate(e) \/ CompleteMilestone(e)  PROVE UNCHANGED money
  BY <1>8 DEF Activate, CompleteMilestone, money
<1> QED  BY <1>1, <1>2, <1>3, <1>4, <1>5, <1>6, <1>7, <1>8,
            DepositCash, ReleaseCash, ReturnCash DEF EscrowStep

(* Solvent, with the finiteness of the sets it sums over. *)
Amounts(t) == [e \in Deposits(t) |-> escrows[e].amount]
SolventInv ==
  \A t \in Tokens : /\ balance[t][Contract] = SumFunction(Amounts(t))
                    /\ IsFiniteSet(Deposits(t))

(* What is summed are integers. *)
LEMMA AmountsFact ==
  ASSUME TypeInv, NEW t \in Tokens
  PROVE  Amounts(t) \in [Deposits(t) -> Int]
<1>1. \A e \in Deposits(t) : escrows[e].amount \in Int
  BY LoadedFact DEF Deposits, Is
<1> QED  BY <1>1 DEF Amounts

(* Escrows in other tokens, and escrows that go on holding their amount,   *)
(* leave the sum of a token alone; one that starts or ends adds or removes *)
(* its amount.                                                             *)
LEMMA SolventStep ==
  ASSUME IInv, IInv', SolventInv, NEW e \in EscrowIds, EscrowStep(e)
  PROVE  SolventInv'
<1> DEFINE r == escrows[e]
<1>1. /\ TypeInv /\ TypeInv' /\ SettlesExactly /\ SettlesExactly'
      /\ Effect(e) /\ Others(e)
  BY EscrowStepEffect DEF IInv
<1>2. /\ InHand(e) = IF Is(e, Holding) THEN r.amount ELSE 0
      /\ InHand(e)' = IF Is(e, Holding)' THEN escrows'[e].amount ELSE 0
  <2>1. TypeInv /\ SettlesExactly =>
          InHand(e) = IF Is(e, Holding) THEN escrows[e].amount ELSE 0
    BY InHandFact
  <2>2. (TypeInv /\ SettlesExactly =>
          InHand(e) = IF Is(e, Holding) THEN escrows[e].amount ELSE 0)'
    BY InHandFact, PTL
  <2> QED  BY <1>1, <2>1, <2>2
<1>3. Loaded(e) => /\ Loaded(e)' /\ r.amount \in Nat /\ r.amount > 0 /\ r.token \in Tokens
                   /\ escrows'[e].token = r.token /\ escrows'[e].amount = r.amount
  BY <1>1, LoadedFact, EffectTerms DEF Terms, Loaded
<1>4. ~Loaded(e) => ~Is(e, Holding) /\ ~Is(e, Holding)'
  <2>1. ASSUME ~Loaded(e)  PROVE escrows'[e].status = "Pending"
    <3>1. EffOpen(e)
      BY <1>1, <2>1 DEF Effect, EffFund, EffWork, EffDispute, EffPay, EffReturn, EffCancel, Is
    <3> QED  BY <3>1 DEF EffOpen, NewEscrow
  <2> QED  BY <2>1 DEF Is, Holding, Open
<1>5. ASSUME NEW t \in Tokens
      PROVE  balance'[t][Contract] =
               balance[t][Contract] +
                 (IF Loaded(e) /\ t = r.token THEN InHand(e)' - InHand(e) ELSE 0)
  <2>1. balance[t][Contract] \in Nat
    BY <1>1 DEF TypeInv, TypeOK
  <2>2. CASE UNCHANGED money
    <3>1. balance' = balance /\ InHand(e)' = InHand(e)
      BY <2>2 DEF money, InHand
    <3>2. InHand(e) \in Int
      BY <1>2, <1>3 DEF Is
    <3> QED  BY <2>1, <3>1, <3>2
  <2>3. CASE Loaded(e) /\ Cash(e)
    BY <2>3 DEF Cash
  <2> QED  BY <1>1, <2>2, <2>3, CallCash
<1>6. ASSUME NEW t \in Tokens
      PROVE  balance'[t][Contract] = SumFunction(Amounts(t)') /\ IsFiniteSet(Deposits(t)')
  <2> DEFINE D == Deposits(t)
             E == Deposits(t)'
             f == Amounts(t)
             g == Amounts(t)'
  <2>1. /\ balance[t][Contract] = SumFunction(f) /\ IsFiniteSet(D)
        /\ balance[t][Contract] \in Nat
    BY <1>1 DEF SolventInv, TypeInv, TypeOK
  <2>2. \A x \in EscrowIds \ {e} : /\ x \in E <=> x \in D
                                   /\ escrows'[x] = escrows[x]
    BY <1>1 DEF Others, Deposits, Is, Loaded
  <2>3. /\ e \in D <=> Is(e, Holding) /\ r.token = t
        /\ e \in E <=> Is(e, Holding)' /\ escrows'[e].token = t
    BY DEF Deposits
  <2>4. D \subseteq EscrowIds /\ E \subseteq EscrowIds
    BY DEF Deposits
  <2>5. /\ f = [x \in D |-> escrows[x].amount] /\ g = [x \in E |-> escrows'[x].amount]
        /\ f \in [D -> Int]
    BY <1>1, AmountsFact DEF Amounts
  <2>6. /\ \A x \in D \cap E : g[x] = f[x]
        /\ g \in [E -> Int]
    <3>1. \A x \in E : Loaded(x)
      BY <1>1, <1>4, <2>2, <2>4 DEF Deposits, Is
    <3>2. \A x \in E : escrows'[x].amount = escrows[x].amount /\ escrows[x].amount \in Nat
      BY <1>1, <1>3, <2>2, <2>4, <3>1, LoadedFact
    <3> HIDE DEF f, g, D, E
    <3> QED  BY <2>5, <3>2
  <2> HIDE DEF f, g, D, E
  <2>7. CASE e \in E <=> e \in D
    <3>1. E = D
      BY <2>2, <2>4, <2>7
    <3>2. g = f
      BY <2>5, <2>6, <3>1
    <3>3. balance'[t][Contract] = balance[t][Contract]
      <4>1. Loaded(e) /\ t = r.token => InHand(e)' = InHand(e) /\ InHand(e) \in Int
        BY <1>2, <1>3, <2>3, <2>7
      <4> QED  BY <1>5, <2>1, <4>1
    <3> QED  BY <2>1, <3>1, <3>2, <3>3 DEF D, E, f, g
  <2>8. CASE e \in E /\ e \notin D
    <3>1. Loaded(e) /\ t = r.token /\ InHand(e)' - InHand(e) = r.amount /\ r.amount \in Nat
      BY <1>2, <1>3, <1>4, <2>3, <2>8
    <3>2. E = D \cup {e} /\ IsFiniteSet(E)
      BY <2>1, <2>2, <2>4, <2>8, FS_AddElement
    <3>3. SumFunction(g) = SumFunction(f) + g[e]
      <4>1. /\ DOMAIN f = D /\ DOMAIN g = D \cup {e} /\ g[e] \in Int
            /\ \A x \in D : g[x] = f[x] /\ f[x] \in Int
        BY <2>5, <2>6, <2>8, <3>2
      <4> QED  BY <2>1, <2>8, <4>1, SumGrows
    <3>4. g[e] = r.amount
      BY <1>3, <2>5, <2>8, <3>1
    <3>5. balance'[t][Contract] = SumFunction(g)
      BY <1>5, <2>1, <3>1, <3>3, <3>4
    <3> QED  BY <3>2, <3>5 DEF E, g
  <2>9. CASE e \in D /\ e \notin E
    <3>1. Loaded(e) /\ t = r.token /\ InHand(e)' - InHand(e) = 0 - r.amount /\ r.amount \in Nat
      BY <1>2, <1>3, <1>4, <2>3, <2>9
    <3>2. D = E \cup {e} /\ IsFiniteSet(E)
      BY <2>1, <2>2, <2>4, <2>9, FS_Subset
    <3>3. SumFunction(f) = SumFunction(g) + f[e] /\ SumFunction(g) \in Int
      <4>1. /\ DOMAIN g = E /\ DOMAIN f = E \cup {e} /\ f[e] \in Int
            /\ \A x \in E : f[x] = g[x] /\ g[x] \in Int
        BY <2>5, <2>6, <2>9, <3>2
      <4> QED  BY <2>9, <3>2, <4>1, SumGrows
    <3>4. f[e] = r.amount
      BY <2>5, <2>9
    <3>5. balance'[t][Contract] = SumFunction(g)
      BY <1>5, <2>1, <3>1, <3>3, <3>4
    <3> QED  BY <3>2, <3>5 DEF E, g
  <2> QED  BY <2>7, <2>8, <2>9
<1> QED  BY <1>6 DEF SolventInv

(* The invariant is inductive, from any state that has it. *)
LEMMA SolventKept ==
  ASSUME IInv, IInv', SolventInv, [Next]_vars
  PROVE  SolventInv'
<1>1. ASSUME UNCHANGED <<escrows, money>>  PROVE SolventInv'
  BY <1>1 DEF SolventInv, Amounts, Deposits, Is, Loaded, money
<1>2. ASSUME NEW e \in EscrowIds, EscrowStep(e)  PROVE SolventInv'
  BY <1>2, SolventStep
<1>3. CASE ConfigStep
  BY <1>1, <1>3 DEF ConfigStep, Initialize, SetFee, SetPaused, TransferAdmin
<1>4. CASE CloseLedger
  BY <1>1, <1>4 DEF CloseLedger
<1>5. CASE UNCHANGED vars
  BY <1>1, <1>5 DEF vars, money
<1> QED  BY <1>2, <1>3, <1>4, <1>5 DEF Next

(* A contract without escrows and without tokens has it. *)
LEMMA SolventStart ==
  ASSUME \A e \in EscrowIds : ~Loaded(e), \A t \in Tokens : balance[t][Contract] = 0
  PROVE  SolventInv
<1> SUFFICES ASSUME NEW t \in Tokens
             PROVE  balance[t][Contract] = SumFunction(Amounts(t)) /\ IsFiniteSet(Deposits(t))
  BY DEF SolventInv
<1>1. Deposits(t) = {}
  BY DEF Deposits, Is
<1>2. DOMAIN Amounts(t) = {}
  BY <1>1 DEF Amounts
<1> QED  BY <1>1, <1>2, SumEmpty, FS_EmptySet DEF SumFunction

LEMMA SpecSolventInv == Spec => []SolventInv
<1>1. Init => SolventInv
  BY SolventStart DEF Init, Loaded
<1>2. IInv /\ IInv' /\ SolventInv /\ [Next]_vars => SolventInv'
  BY SolventKept
<1> QED  BY <1>1, <1>2, SpecIInv, PTL DEF Spec

(* TheContractStaysSolvent: for any number of escrows that share a token,  *)
(* the contract's balance is the sum of the deposits it still holds; no    *)
(* escrow is ever paid from another's deposit.                             *)
THEOREM TheContractStaysSolvent == Spec => []Solvent
<1>1. SolventInv => Solvent
  BY DEF SolventInv, Solvent, Amounts
<1> QED  BY <1>1, SpecSolventInv, PTL

(* What do_release and the refunds ask of the token: the contract can pay  *)
(* the amount of every escrow that holds funds.                            *)
Covered == \A e \in EscrowIds :
             Is(e, Holding) => balance[escrows[e].token][Contract] >= escrows[e].amount

LEMMA SolventCovers ==
  ASSUME IInv, SolventInv
  PROVE  Covered
<1> SUFFICES ASSUME NEW e \in EscrowIds, Is(e, Holding)
             PROVE  balance[escrows[e].token][Contract] >= escrows[e].amount
  BY DEF Covered
<1> DEFINE t == escrows[e].token
<1>1. TypeInv /\ t \in Tokens /\ e \in Deposits(t)
  BY LoadedFact DEF IInv, Is, Deposits
<1>2. \A d \in Deposits(t) : escrows[d].amount \in Nat
  BY <1>1, LoadedFact DEF Deposits, Is
<1>3. /\ balance[t][Contract] = SumFunctionOnSet(Amounts(t), Deposits(t))
      /\ IsFiniteSet(Deposits(t))
  BY <1>1 DEF SolventInv, SumFunction, Amounts
<1>4. \A d \in Deposits(t) : Amounts(t)[d] = escrows[d].amount
  BY DEF Amounts
<1>5. /\ SumFunctionOnSet(Amounts(t), Deposits(t)) \in Nat
      /\ Amounts(t)[e] <= SumFunctionOnSet(Amounts(t), Deposits(t))
  BY <1>1, <1>2, <1>3, <1>4, SumBound
<1> HIDE DEF t
<1>6. escrows[e].amount <= balance[t][Contract]
  BY <1>1, <1>3, <1>4, <1>5
<1>7. escrows[e].amount \in Nat /\ balance[t][Contract] \in Nat
  BY <1>1, <1>2, <1>3, <1>5
<1> QED  BY <1>6, <1>7 DEF t

(* NoPayoutRefused: however many escrows share a token, the transfers of a *)
(* release, a refund, a ruling or an expiry claim are never refused for    *)
(* want of tokens.                                                         *)
THEOREM NoPayoutRefused == Spec => []Covered
  BY SolventCovers, SpecIInv, SpecSolventInv, PTL
=============================================================================
