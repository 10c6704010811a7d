-------------------------- MODULE StorageTtl_proofs --------------------------
(***************************************************************************)
(* Proofs about the lifetimes, for any thresholds, escrows and ledgers.    *)
(***************************************************************************)
EXTENDS StorageTtl, NexusEscrow_proofs

TtlInv == TtlTypeOK /\ LeaseHolds

(* What the proof needs to know of a step: the effect of a Touch that      *)
(* keeps the entries of a set, with the clock standing still.              *)
KeepsEntries(K) ==
  /\ ledger' = ledger
  /\ until' = [x \in Entries |-> IF x \in K THEN Extended(x) ELSE until[x]]

-----------------------------------------------------------------------------
(* An extension never shortens a life, and leaves at least Threshold. *)
LEMMA ExtendedFact ==
  ASSUME TtlTypeOK, NEW x \in Entries
  PROVE  /\ Extended(x) \in Nat
         /\ Extended(x) >= until[x]
         /\ Extended(x) >= ledger + Threshold
         /\ Extended(x) < ledger + MinTtl \/ Extended(x) <= ledger + Target
<1>1. until[x] \in Nat /\ ledger \in Nat \ {0}
  BY DEF TtlTypeOK
<1>2. until[x] < ledger + MinTtl \/ until[x] <= ledger + Target
  BY DEF TtlTypeOK
<1>3. NewLife \in Nat /\ NewLife < ledger + MinTtl
  BY <1>1, TtlAssumption DEF NewLife
<1>4. QED
  BY <1>1, <1>2, <1>3, TtlAssumption DEF Extended

(* A step that only extends entries keeps the types, shortens no life and  *)
(* leaves each extended entry at least Threshold.                          *)
LEMMA KeepsFact ==
  ASSUME TtlTypeOK, NEW K, KeepsEntries(K)
  PROVE  /\ until' \in [Entries -> Nat]
         /\ \A x \in Entries : until'[x] >= until[x]
         /\ \A x \in Entries \cap K : until'[x] >= ledger + Threshold
         /\ \A x \in Entries : \/ until'[x] < ledger' + MinTtl
                               \/ until'[x] <= ledger' + Target
<1>1. \A x \in Entries : /\ Extended(x) \in Nat
                         /\ Extended(x) >= until[x]
                         /\ Extended(x) >= ledger + Threshold
                         /\ \/ Extended(x) < ledger + MinTtl
                            \/ Extended(x) <= ledger + Target
  BY ExtendedFact
<1>2. until \in [Entries -> Nat]
      /\ \A x \in Entries : \/ until[x] < ledger + MinTtl
                            \/ until[x] <= ledger + Target
  BY DEF TtlTypeOK
<1>3. QED
  BY <1>1, <1>2 DEF KeepsEntries

(* LeaseHolds survives a step that shortens no life and calls no escrow. *)
LEMMA LeaseKept ==
  ASSUME TtlInv, UNCHANGED called, \A x \in Entries : until'[x] >= until[x],
         until' \in [Entries -> Nat]
  PROVE  LeaseHolds'
<1>1. \A e \in EscrowIds : {"instance", e} \subseteq Entries
  BY DEF Entries
<1>2. until \in [Entries -> Nat] /\ called \in [EscrowIds -> Nat]
  BY DEF TtlInv, TtlTypeOK
<1>3. QED
  BY <1>1, <1>2, TtlAssumption DEF TtlInv, LeaseHolds

(* A call on an escrow, whatever it reads. *)
LEMMA EscrowCall ==
  ASSUME TtlInv, NEW e \in EscrowIds, NEW read, OnEscrow(e, read),
         UNCHANGED ledger
  PROVE  TtlInv'
<1>1. KeepsEntries({"instance", e})
  BY DEF OnEscrow, Touch, KeepsEntries
<1>2. TtlTypeOK
  BY DEF TtlInv
<1>3. /\ until' \in [Entries -> Nat]
      /\ \A x \in Entries : until'[x] >= until[x]
      /\ \A x \in Entries \cap {"instance", e} : until'[x] >= ledger + Threshold
      /\ \A x \in Entries : \/ until'[x] < ledger' + MinTtl
                            \/ until'[x] <= ledger' + Target
  BY <1>1, <1>2, KeepsFact
<1>4. called' = [called EXCEPT ![e] = ledger] /\ called \in [EscrowIds -> Nat]
      /\ ledger \in Nat \ {0}
  BY <1>2 DEF OnEscrow, TtlTypeOK
<1>5. TtlTypeOK'
  BY <1>3, <1>4 DEF TtlTypeOK
<1>6. LeaseHolds'
  <2> SUFFICES ASSUME NEW d \in EscrowIds, called'[d] # 0,
                      NEW x \in {"instance", d}
               PROVE  until'[x] >= called'[d] + Threshold
    BY DEF LeaseHolds
  <2>1. x \in Entries
    BY DEF Entries
  <2>2. CASE d = e
    BY <2>1, <2>2, <1>3, <1>4
  <2>3. CASE d # e
    <3>1. called'[d] = called[d]
      BY <2>3, <1>4
    <3>2. until[x] >= called[d] + Threshold
      BY <3>1 DEF TtlInv, LeaseHolds
    <3>3. until[x] \in Nat /\ until'[x] \in Nat /\ called[d] \in Nat
      BY <2>1, <1>2, <1>3 DEF TtlTypeOK
    <3>4. QED
      BY <2>1, <3>1, <3>2, <3>3, <1>3, TtlAssumption
  <2>4. QED
    BY <2>2, <2>3
<1>7. QED
  BY <1>5, <1>6 DEF TtlInv

(* A call on the settings, or a view: entries are extended, none called. *)
LEMMA QuietCall ==
  ASSUME TtlInv, NEW read, NEW K, Touch(read, K), UNCHANGED <<ledger, called>>
  PROVE  TtlInv'
<1>1. KeepsEntries(K) /\ TtlTypeOK
  BY DEF Touch, KeepsEntries, TtlInv
<1>2. /\ until' \in [Entries -> Nat]
      /\ \A x \in Entries : until'[x] >= until[x]
      /\ \A x \in Entries : \/ until'[x] < ledger' + MinTtl
                            \/ until'[x] <= ledger' + Target
  BY <1>1, KeepsFact
<1>3. TtlTypeOK'
  BY <1>1, <1>2 DEF TtlTypeOK
<1>4. LeaseHolds'
  BY <1>2, LeaseKept
<1>5. QED
  BY <1>3, <1>4 DEF TtlInv

-----------------------------------------------------------------------------
LEMMA TtlStart == TtlInit => TtlInv
<1> SUFFICES ASSUME TtlInit PROVE TtlInv
  OBVIOUS
<1>1. ledger = 1
  BY DEF TtlInit, Init
<1>2. \A x \in Entries : until[x] \in {0, MinTtl} /\ until \in [Entries -> Nat]
  BY TtlAssumption DEF TtlInit
<1>3. called \in [EscrowIds -> Nat] /\ \A e \in EscrowIds : called[e] = 0
  BY DEF TtlInit
<1>4. TtlTypeOK
  BY <1>1, <1>2, <1>3, TtlAssumption DEF TtlTypeOK, TtlInit
<1>5. QED
  BY <1>3, <1>4 DEF TtlInv, LeaseHolds

LEMMA TtlStep == TtlInv /\ [TtlNext]_ttlVars => TtlInv'
<1> SUFFICES ASSUME TtlInv, [TtlNext]_ttlVars PROVE TtlInv'
  OBVIOUS
<1>1. ASSUME NEW a \in Admins, NEW bps \in FeeRates, InitializeCall(a, bps)
      PROVE  TtlInv'
  BY <1>1, QuietCall DEF InitializeCall, Initialize, OnSettings
<1>2. ASSUME NEW bps \in FeeRates, SetFeeCall(bps) PROVE TtlInv'
  BY <1>2, QuietCall DEF SetFeeCall, SetFee, OnSettings
<1>3. ASSUME NEW p \in BOOLEAN, SetPausedCall(p) PROVE TtlInv'
  BY <1>3, QuietCall DEF SetPausedCall, SetPaused, OnSettings
<1>4. ASSUME NEW a \in Admins, TransferAdminCall(a) PROVE TtlInv'
  BY <1>4, QuietCall DEF TransferAdminCall, TransferAdmin, OnSettings
<1>5. ASSUME NEW e \in EscrowIds, NEW o \in Offers, InitEscrowCall(e, o)
      PROVE  TtlInv'
  BY <1>5, EscrowCall DEF InitEscrowCall, InitEscrow
<1>6. ASSUME NEW e \in EscrowIds, PausableCall(e) PROVE TtlInv'
  <2>1. ASSUME Pausable(e) PROVE UNCHANGED ledger
    BY <2>1 DEF Pausable, Fund, Activate, Release, Refund, RaiseDispute,
                ResolveDispute, CompleteMilestone, ApproveRelease
  <2>2. QED
    BY <1>6, <2>1, EscrowCall DEF PausableCall
<1>7. ASSUME NEW e \in EscrowIds, NEW a \in Accounts, CancelCall(e, a)
      PROVE  TtlInv'
  BY <1>7, EscrowCall DEF CancelCall, Cancel
<1>8. ASSUME NEW e \in EscrowIds, ClaimCall(e) PROVE TtlInv'
  BY <1>8, EscrowCall DEF ClaimCall, ClaimExpired
<1>9. ASSUME NEW e \in EscrowIds, View(e) PROVE TtlInv'
  BY <1>9, QuietCall DEF View, vars
<1>10. ASSUME NEW x \in Entries, Restore(x) PROVE TtlInv'
  <2>1. /\ until' = [until EXCEPT ![x] = NewLife] /\ UNCHANGED <<ledger, called>>
        /\ until[x] < ledger
    BY <1>10 DEF Restore, Archived, vars
  <2>2. TtlTypeOK
    BY DEF TtlInv
  <2>3. NewLife \in Nat /\ NewLife >= ledger /\ NewLife < ledger + MinTtl
    BY <2>2, TtlAssumption DEF NewLife, TtlTypeOK
  <2>4. until' \in [Entries -> Nat] /\ \A y \in Entries : until'[y] >= until[y]
    BY <2>1, <2>2, <2>3 DEF TtlTypeOK
  <2>5. TtlTypeOK'
    BY <2>1, <2>2, <2>3, <2>4 DEF TtlTypeOK
  <2>6. LeaseHolds'
    BY <2>1, <2>4, LeaseKept
  <2>7. QED
    BY <2>5, <2>6 DEF TtlInv
<1>11. ASSUME Close PROVE TtlInv'
  <2>1. ledger' = ledger + 1 /\ UNCHANGED <<until, called>>
    BY <1>11 DEF Close, CloseLedger
  <2>2. QED
    BY <2>1, TtlAssumption DEF TtlInv, TtlTypeOK, LeaseHolds
<1>12. CASE UNCHANGED ttlVars
  BY <1>12 DEF ttlVars, vars, TtlInv, TtlTypeOK, LeaseHolds
<1>13. QED
  BY <1>1, <1>2, <1>3, <1>4, <1>5, <1>6, <1>7, <1>8, <1>9, <1>10, <1>11, <1>12
     DEF TtlNext

(* LeasesWellTyped: lifetimes are natural numbers and no entry is leased   *)
(* further ahead than the target or the network's minimum (extend_ttl in   *)
(* storage.rs).                                                            *)
THEOREM LeasesWellTyped == TtlSpec => []TtlTypeOK
<1>1. TtlInv => TtlTypeOK
  BY DEF TtlInv
<1>2. QED
  BY <1>1, TtlStart, TtlStep, PTL DEF TtlSpec

(* EveryCallRenewsTheLease: after a call on an escrow, its record and the  *)
(* contract instance are reachable for Threshold ledgers, whatever the     *)
(* constants of storage.rs are, as long as the target is no smaller.       *)
THEOREM EveryCallRenewsTheLease == TtlSpec => []LeaseHolds
<1>1. TtlInv => LeaseHolds
  BY DEF TtlInv
<1>2. QED
  BY <1>1, TtlStart, TtlStep, PTL DEF TtlSpec

-----------------------------------------------------------------------------
(* Lifetimes take calls away from the contract and add none.               *)

(* What a call changes, in the contract and in the history. *)
LEMMA TtlCases ==
  ASSUME [TtlNext]_ttlVars
  PROVE  \/ \E e \in EscrowIds : EscrowStep(e) /\ called' = [called EXCEPT ![e] = ledger]
         \/ (ConfigStep \/ CloseLedger \/ UNCHANGED vars) /\ UNCHANGED called
<1>1. ASSUME NEW e \in EscrowIds,
             \/ \E o \in Offers : InitEscrowCall(e, o)
             \/ PausableCall(e)
             \/ \E a \in Accounts : CancelCall(e, a)
             \/ ClaimCall(e)
      PROVE  EscrowStep(e) /\ called' = [called EXCEPT ![e] = ledger]
  <2>1. EscrowStep(e)
    BY <1>1 DEF InitEscrowCall, PausableCall, Pausable, CancelCall, ClaimCall, EscrowStep
  <2>2. called' = [called EXCEPT ![e] = ledger]
    BY <1>1 DEF InitEscrowCall, PausableCall, CancelCall, ClaimCall, OnEscrow
  <2>3. QED
    BY <2>1, <2>2
<1>2. ASSUME \/ \E a \in Admins, bps \in FeeRates : InitializeCall(a, bps)
             \/ \E bps \in FeeRates : SetFeeCall(bps)
             \/ \E p \in BOOLEAN : SetPausedCall(p)
             \/ \E a \in Admins : TransferAdminCall(a)
      PROVE  ConfigStep /\ UNCHANGED called
  BY <1>2 DEF InitializeCall, SetFeeCall, SetPausedCall, TransferAdminCall, OnSettings,
              ConfigStep
<1>3. ASSUME \/ \E e \in EscrowIds : View(e)
             \/ \E x \in Entries : Restore(x)
      PROVE  UNCHANGED vars /\ UNCHANGED called
  BY <1>3 DEF View, Restore
<1>4. ASSUME Close  PROVE CloseLedger /\ UNCHANGED called
  BY <1>4 DEF Close
<1>5. CASE UNCHANGED ttlVars
  BY <1>5 DEF ttlVars
<1>6. QED
  BY <1>1, <1>2, <1>3, <1>4, <1>5 DEF TtlNext

LEMMA TtlIsContract ==
  ASSUME [TtlNext]_ttlVars
  PROVE  [Next]_vars
  BY TtlCases DEF Next

(* LifetimesAddNothing: a contract whose entries expire and are restored   *)
(* makes no step the contract without lifetimes does not make, so all that *)
(* is proved of NexusEscrow holds whatever is archived and when.           *)
THEOREM LifetimesAddNothing == TtlSpec => Spec
<1>1. TtlInit => Init
  BY DEF TtlInit
<1>2. QED
  BY <1>1, TtlIsContract, PTL DEF TtlSpec, Spec

-----------------------------------------------------------------------------
(* An expired escrow can be claimed.                                       *)

(* The guards that claim_expired meets on its way: the status, the expiry, *)
(* the transfer, and the two entries it touches.                           *)
ClaimReady(e) ==
  /\ Is(e, Open)
  /\ Expired(escrows[e], ledger)
  /\ balance[escrows[e].token][Contract] >= escrows[e].amount
  /\ ~Archived("instance") /\ ~Archived(e)

(* They are all the guards: the rest of the call only says what becomes of *)
(* each variable.                                                          *)
LEMMA ClaimIsReady ==
  ASSUME NEW e \in EscrowIds
  PROVE  ClaimCall(e) <=>
           /\ ClaimReady(e)
           /\ escrows' = [escrows EXCEPT ![e] = [escrows[e] EXCEPT !.status = "Refunded"]]
           /\ balance' = [balance EXCEPT ![escrows[e].token] =
                            Shift(@, Contract, escrows[e].client, escrows[e].amount)]
           /\ moved' = [moved EXCEPT ![e].client = @ + escrows[e].amount]
           /\ call' = [signer |-> NoAccount, events |-> {"refunded"}]
           /\ admin' = admin /\ feeBps' = feeBps /\ paused' = paused
           /\ ledger' = ledger
           /\ until' = [x \in Entries |->
                          IF x \in {"instance", e} THEN Extended(x) ELSE until[x]]
           /\ called' = [called EXCEPT ![e] = ledger]
  BY DEF ClaimCall, ClaimExpired, RefundClient, ReturnAll, SetStatus, Save, Calls, config,
         OnEscrow, Touch, ClaimReady

(* Every escrow there is has been called: by its init_escrow. *)
CalledInv == \A e \in EscrowIds : Loaded(e) => called[e] # 0

LEMMA CalledKept ==
  ASSUME TtlInv, TypeInv, CalledInv, [TtlNext]_ttlVars
  PROVE  CalledInv'
<1>1. called \in [EscrowIds -> Nat] /\ ledger \in Nat \ {0}
  BY DEF TtlInv, TtlTypeOK
<1>2. ASSUME NEW e \in EscrowIds, EscrowStep(e), called' = [called EXCEPT ![e] = ledger]
      PROVE  CalledInv'
  <2>1. Others(e)
    BY <1>2, EscrowStepEffect
  <2>2. QED
    BY <1>1, <1>2, <2>1 DEF CalledInv, Others, Loaded
<1>3. ASSUME ConfigStep \/ CloseLedger \/ UNCHANGED vars, UNCHANGED called
      PROVE  CalledInv'
  <2>1. UNCHANGED escrows
    BY <1>3 DEF ConfigStep, Initialize, SetFee, SetPaused, TransferAdmin, CloseLedger, vars
  <2>2. QED
    BY <1>3, <2>1 DEF CalledInv, Loaded
<1>4. QED
  BY <1>2, <1>3, TtlCases

LEMMA ClaimsReady ==
  ASSUME TtlInv, CalledInv, Covered, NEW e \in EscrowIds,
         Is(e, Open), Expired(escrows[e], ledger), ledger <= called[e] + Threshold
  PROVE  ClaimReady(e)
<1>1. called[e] # 0
  BY DEF CalledInv, Is
<1>2. ASSUME NEW x \in {"instance", e}  PROVE ~Archived(x)
  <2>1. until[x] >= called[e] + Threshold
    BY <1>1 DEF TtlInv, LeaseHolds
  <2>2. /\ until[x] \in Nat /\ called[e] \in Nat /\ ledger \in Nat
    BY DEF TtlInv, TtlTypeOK, Entries
  <2>3. QED
    BY <2>1, <2>2, TtlAssumption DEF Archived
<1>3. balance[escrows[e].token][Contract] >= escrows[e].amount
  BY DEF Covered, Is, Open, Holding
<1>4. QED
  BY <1>2, <1>3 DEF ClaimReady

(* ClaimsNeedNoRestore: an expired, undisputed escrow that was used within *)
(* the last Threshold ledgers meets every guard of claim_expired, paused   *)
(* or not and with any setting archived; ClaimIsReady says that these are  *)
(* the guards whose truth ClaimServedUnrestored writes as ENABLED.         *)
THEOREM ClaimsNeedNoRestore ==
  TtlSpec => [](\A e \in EscrowIds :
                  (/\ Is(e, Open)
                   /\ Expired(escrows[e], ledger)
                   /\ ledger <= called[e] + Threshold) => ClaimReady(e))
<1> DEFINE Ready == \A e \in EscrowIds :
                      (/\ Is(e, Open)
                       /\ Expired(escrows[e], ledger)
                       /\ ledger <= called[e] + Threshold) => ClaimReady(e)
<1>1. TtlSpec => []TtlInv
  BY TtlStart, TtlStep, PTL DEF TtlSpec
<1>2. TtlSpec => [](IInv /\ Covered)
  BY LifetimesAddNothing, SpecIInv, NoPayoutRefused, PTL
<1>3. TtlSpec => []CalledInv
  <2>1. TtlInit => CalledInv
    BY DEF TtlInit, Init, CalledInv, Loaded
  <2>2. IInv => TypeInv
    BY DEF IInv
  <2>3. TtlInv /\ TypeInv /\ CalledInv /\ [TtlNext]_ttlVars => CalledInv'
    BY CalledKept
  <2>4. QED
    BY <1>1, <1>2, <2>1, <2>2, <2>3, PTL DEF TtlSpec
<1>4. TtlInv /\ CalledInv /\ Covered => Ready
  BY ClaimsReady
<1>5. QED
  BY <1>1, <1>2, <1>3, <1>4, PTL
=============================================================================
