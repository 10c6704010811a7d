------------------------------ MODULE StorageTtl ------------------------------
(***************************************************************************)
(* NexusEscrow with the lifetimes of its ledger entries.  Each persistent  *)
(* entry lives until a ledger of its own.  A call that touches an archived *)
(* entry traps; anybody may restore an entry, at the network's minimum     *)
(* lifetime.  Every entrypoint extends the contract instance and the       *)
(* escrow it loads; the settings are extended when they are set, not when  *)
(* they are read.  The SAC's own entries are outside.                      *)
(***************************************************************************)
EXTENDS NexusEscrow

CONSTANTS Threshold,   \* extend an entry with no more ledgers left than this
          Target,      \* ledgers of life it is given then
          MinTtl       \* life of a new or restored entry (network setting)

ASSUME TtlAssumption ==
  /\ Threshold \in Nat /\ Target \in Nat /\ MinTtl \in Nat \ {0}
  /\ Threshold <= Target

Settings == {"Admin", "FeeBps", "Paused"}
Entries  == {"instance"} \cup Settings \cup EscrowIds

VARIABLES until,    \* last ledger an entry is live in; 0: never created
          called    \* history: ledger of the last call on an escrow

ttlVars == <<vars, until, called>>

Archived(x) == until[x] # 0 /\ until[x] < ledger

(* Types, and no entry is leased further ahead than the target or the     *)
(* network's minimum.                                                      *)
TtlTypeOK ==
  /\ until \in [Entries -> Nat]
  /\ called \in [EscrowIds -> Nat]
  /\ ledger \in Nat \ {0}
  /\ \A x \in Entries : until[x] < ledger + MinTtl \/ until[x] <= ledger + Target

(* The contract has just been deployed. *)
TtlInit ==
  /\ Init
  /\ until = [x \in Entries |-> IF x = "instance" THEN MinTtl ELSE 0]
  /\ called = [e \in EscrowIds |-> 0]

NewLife == ledger + MinTtl - 1

(* set, if the entry is new, and extend_ttl *)
Mut_ExtendsFromOldEnd(x) ==
  LET life == IF until[x] = 0 THEN NewLife ELSE until[x] IN
  IF life - ledger <= Threshold THEN life + Target ELSE life
Extended(x) ==
  LET life == IF until[x] = 0 THEN NewLife ELSE until[x] IN
  IF life - ledger <= Threshold THEN ledger + Target ELSE life

Touch(read, kept) ==
  /\ \A x \in read \cup kept : ~Archived(x)
  /\ until' = [x \in Entries |-> IF x \in kept THEN Extended(x) ELSE until[x]]

Mut_InstanceNotBumped(e, read) ==
  /\ Touch(read \cup {"instance"}, {e})
  /\ called' = [called EXCEPT ![e] = ledger]
OnEscrow(e, read) ==
  /\ Touch(read, {"instance", e})
  /\ called' = [called EXCEPT ![e] = ledger]

OnSettings(read, set) ==
  /\ Touch(read, {"instance"} \cup set)
  /\ UNCHANGED called

-----------------------------------------------------------------------------
InitializeCall(who, bps) == Initialize(who, bps) /\ OnSettings({}, Settings)
SetFeeCall(bps)          == SetFee(bps) /\ OnSettings({"Admin"}, {"FeeBps"})
SetPausedCall(p)         == SetPaused(p) /\ OnSettings({"Admin"}, {"Paused"})
TransferAdminCall(new)   == TransferAdmin(new) /\ OnSettings({}, {"Admin"})

InitEscrowCall(e, o) == InitEscrow(e, o) /\ OnEscrow(e, Settings)

(* The entrypoints that ask is_paused first. *)
Pausable(e) ==
  \/ Fund(e)
  \/ Activate(e)
  \/ \E h \in Hashes : Release(e, h)
  \/ Refund(e)
  \/ \E a \in Accounts : RaiseDispute(e, a)
  \/ \E f \in BOOLEAN : ResolveDispute(e, f)
  \/ CompleteMilestone(e)
  \/ \E a \in Accounts : ApproveRelease(e, a)
PausableCall(e) == Pausable(e) /\ OnEscrow(e, {"Paused"})

CancelCall(e, who) == Cancel(e, who) /\ OnEscrow(e, {})

Mut_ClaimAsksPaused(e) == ClaimExpired(e) /\ OnEscrow(e, {"Paused"})
ClaimCall(e) == ClaimExpired(e) /\ OnEscrow(e, {})

(* get_escrow sent as a transaction; StellarService only simulates it, *)
(* which extends nothing.                                              *)
View(e) ==
  /\ Loaded(e)
  /\ Touch({"instance"}, {e})
  /\ UNCHANGED <<vars, called>>

(* RestoreFootprint, by anybody; nothing in the platform submits it. *)
Restore(x) ==
  /\ Archived(x)
  /\ until' = [until EXCEPT ![x] = NewLife]
  /\ UNCHANGED <<vars, called>>

Close == CloseLedger /\ UNCHANGED <<until, called>>

TtlNext ==
  \/ \E a \in Admins, bps \in FeeRates : InitializeCall(a, bps)
  \/ \E bps \in FeeRates : SetFeeCall(bps)
  \/ \E p \in BOOLEAN : SetPausedCall(p)
  \/ \E a \in Admins : TransferAdminCall(a)
  \/ \E e \in EscrowIds, o \in Offers : InitEscrowCall(e, o)
  \/ \E e \in EscrowIds : PausableCall(e)
  \/ \E e \in EscrowIds, a \in Accounts : CancelCall(e, a)
  \/ \E e \in EscrowIds : ClaimCall(e)
  \/ \E e \in EscrowIds : View(e)
  \/ \E x \in Entries : Restore(x)
  \/ Close

TtlSpec == TtlInit /\ [][TtlNext]_ttlVars

-----------------------------------------------------------------------------
(* LeaseHolds: after every successful call on an escrow its record and the *)
(* contract instance stay reachable for at least Threshold ledgers, in     *)
(* whatever order calls, restores and views of it and of other escrows     *)
(* follow; no path of an entrypoint skips the extension.                   *)
LeaseHolds ==
  \A e \in EscrowIds : called[e] # 0 =>
    \A x \in {"instance", e} : until[x] >= called[e] + Threshold

(* ClaimServedUnrestored: an expired, undisputed escrow used within the    *)
(* last Threshold ledgers can be claimed by anybody at once, with nothing  *)
(* restored, whatever settings are archived and even when it is paused.    *)
ClaimServedUnrestored ==
  \A e \in EscrowIds :
    (/\ Is(e, Open)
     /\ Expired(escrows[e], ledger)
     /\ ledger <= called[e] + Threshold) => ENABLED ClaimCall(e)
=============================================================================
