----------------------------- MODULE NexusEscrow -----------------------------
(***************************************************************************)
(* The Soroban contract contracts/nexus-escrow.  A contract call is one    *)
(* atomic step: an entrypoint that returns an error or traps is rolled     *)
(* back, so every action below is the successful call, its guard the       *)
(* conjunction of the early returns, and a rejected call is a stutter.     *)
(* One account signs a call (the account whose require_auth succeeded).    *)
(*                                                                         *)
(* balance is the external SAC token; moved is a history of the token       *)
(* transfers made on behalf of each escrow; call is the last call's signer *)
(* and the events it published.                                            *)
(***************************************************************************)
EXTENDS EscrowRecords, Functions

CONSTANTS EscrowIds,      \* off-chain UUIDs
          Accounts,       \* Stellar addresses of parties and admins
          Admins,         \* accounts named as admin
          Tokens,         \* SAC token contracts
          Contract,       \* the contract's own address
          NoAccount,      \* no signer needed, or no admin stored
          NoEscrow,       \* no record under this id
          Offers,         \* the argument tuples init_escrow is called with
          FeeRates,       \* the fee_bps arguments tried
          InitialBalance, \* tokens each account starts with
          MaxI128,        \* largest i128: compute_fee's product traps above it
          MaxLedger       \* bound on ledger numbers explored

Offer == [client : Accounts, freelancer : Accounts, token : Tokens,
          amount : Int, milestone_hash : Nat, dispute_delay : Nat,
          milestones_total : Nat, expiry_ledger : Nat]

EscrowRecord ==
  [client : Accounts, freelancer : Accounts, admin : Accounts,
   token : Tokens, amount : Nat, platform_fee : Nat, status : EscrowStatus,
   milestone_hash : Nat, dispute_deadline_ledger : Nat, funded_ledger : Nat,
   milestones_total : Nat, milestones_completed : Nat, expiry_ledger : Nat,
   client_approved : BOOLEAN, freelancer_approved : BOOLEAN]

ASSUME NexusAssumption ==
  /\ Contract \notin Accounts /\ NoAccount \notin Accounts
  /\ NoEscrow \notin EscrowRecord
  /\ Admins \subseteq Accounts
  /\ Offers \subseteq Offer
  /\ FeeRates \subseteq Nat
  /\ InitialBalance \in Nat /\ MaxI128 \in Nat /\ MaxLedger \in Nat

VARIABLES admin, feeBps, paused,   \* instance-wide settings
          escrows,                 \* escrow id -> record
          balance, moved,          \* token ledger and its history per escrow
          ledger,                  \* current ledger sequence number
          call                     \* last call: signer, events published

config == <<admin, feeBps, paused>>
money  == <<balance, moved>>
vars   == <<admin, feeBps, paused, escrows, balance, moved, ledger, call>>

NothingMoved == [deposited |-> 0, client |-> 0, freelancer |-> 0, admin |-> 0]

TypeOK ==
  /\ admin \in Accounts \cup {NoAccount}
  /\ feeBps \in 0..MaxFeeBps
  /\ paused \in BOOLEAN
  /\ escrows \in [EscrowIds -> EscrowRecord \cup {NoEscrow}]
  /\ balance \in [Tokens -> [Accounts \cup {Contract} -> Nat]]
  /\ moved \in [EscrowIds -> [deposited : Nat, client : Nat,
                              freelancer : Nat, admin : Nat]]
  /\ ledger \in Nat
  /\ call.signer \in Accounts \cup {NoAccount}

Init ==
  /\ admin = NoAccount /\ feeBps = DefaultFeeBps /\ paused = FALSE
  /\ escrows = [e \in EscrowIds |-> NoEscrow]
  /\ balance = [t \in Tokens |-> [a \in Accounts \cup {Contract} |->
                                   IF a = Contract THEN 0 ELSE InitialBalance]]
  /\ moved = [e \in EscrowIds |-> NothingMoved]
  /\ ledger = 1
  /\ call = [signer |-> NoAccount, events |-> {}]

-----------------------------------------------------------------------------
(* Token transfers.  SAC refuses to overdraw the sender. *)

Shift(b, from, to, amount) == [b EXCEPT ![from] = @ - amount, ![to] = @ + amount]

Deposit(e) ==
  LET r == escrows[e] IN
  /\ balance[r.token][r.client] >= r.amount
  /\ balance' = [balance EXCEPT ![r.token] =
                   Shift(@, r.client, Contract, r.amount)]
  /\ moved' = [moved EXCEPT ![e].deposited = @ + r.amount]

(* do_release, and the same two transfers in resolve_dispute; skipping the *)
(* fee transfer when the fee is 0 and shifting 0 are the same step.        *)
DoRelease(e) ==
  LET r   == escrows[e]
      net == r.amount - r.platform_fee
  IN
  /\ balance[r.token][Contract] >= r.amount
  /\ balance' = [balance EXCEPT ![r.token] =
                   Shift(Shift(@, Contract, r.freelancer, net),
                         Contract, r.admin, r.platform_fee)]
  /\ moved' = [moved EXCEPT ![e].freelancer = @ + net,
                            ![e].admin = @ + r.platform_fee]

(* The full amount back to the client. *)
Mut_RefundKeepsFee(e) ==
  LET r == escrows[e]
      net == r.amount - r.platform_fee
  IN
  /\ balance[r.token][Contract] >= r.amount
  /\ balance' = [balance EXCEPT ![r.token] = Shift(@, Contract, r.client, net)]
  /\ moved' = [moved EXCEPT ![e].client = @ + net]
ReturnAll(e) ==
  LET r == escrows[e] IN
  /\ balance[r.token][Contract] >= r.amount
  /\ balance' = [balance EXCEPT ![r.token] =
                   Shift(@, Contract, r.client, r.amount)]
  /\ moved' = [moved EXCEPT ![e].client = @ + r.amount]

-----------------------------------------------------------------------------
(* What every call shares. *)

Calls(who, evs) == call' = [signer |-> who, events |-> evs]
Loaded(e)  == escrows[e] # NoEscrow
Is(e, S)   == Loaded(e) /\ escrows[e].status \in S
Save(e, r) == escrows' = [escrows EXCEPT ![e] = r]
SetStatus(e, s) == Save(e, [escrows[e] EXCEPT !.status = s])

(* The token step and the save of a finishing call. *)
PayFreelancer(e) ==
  /\ DoRelease(e)
  /\ SetStatus(e, "Released")

RefundClient(e) ==
  /\ ReturnAll(e)
  /\ SetStatus(e, "Refunded")

-----------------------------------------------------------------------------
(* Settings. *)

Initialize(who, bps) ==
  /\ admin = NoAccount
  /\ bps <= MaxFeeBps
  /\ admin' = who /\ feeBps' = bps /\ paused' = FALSE
  /\ Calls(who, {})
  /\ UNCHANGED <<escrows, money, ledger>>

Mut_SetFeeUncapped(bps) ==
  /\ admin # NoAccount
  /\ feeBps' = bps
  /\ Calls(admin, {})
  /\ UNCHANGED <<admin, paused, escrows, money, ledger>>
SetFee(bps) ==
  /\ admin # NoAccount
  /\ bps <= MaxFeeBps
  /\ feeBps' = bps
  /\ Calls(admin, {})
  /\ UNCHANGED <<admin, paused, escrows, money, ledger>>

SetPaused(p) ==
  /\ admin # NoAccount
  /\ paused' = p
  /\ Calls(admin, {})
  /\ UNCHANGED <<admin, feeBps, escrows, money, ledger>>

TransferAdmin(new) ==
  /\ admin # NoAccount
  /\ admin' = new
  /\ Calls(admin, {"adm_xfer"})
  /\ UNCHANGED <<feeBps, paused, escrows, money, ledger>>

-----------------------------------------------------------------------------
(* Life of one escrow. *)

Mut_InitOverwrites(e, o) ==
  /\ ~paused /\ admin # NoAccount /\ o.amount > 0
  /\ Save(e, NewEscrow(o, admin, feeBps, ledger))
  /\ Calls(o.client, {"init"})
  /\ UNCHANGED <<config, money, ledger>>
InitEscrow(e, o) ==
  /\ ~paused
  /\ o.amount > 0
  /\ o.dispute_delay <= MaxExtraDisputeDelay
  /\ o.expiry_ledger > 0 => o.expiry_ledger > ledger
  /\ ~Loaded(e)
  /\ o.amount * feeBps <= MaxI128
  /\ ComputeFee(o.amount, feeBps) < o.amount
  /\ admin # NoAccount
  /\ Save(e, NewEscrow(o, admin, feeBps, ledger))
  /\ Calls(o.client, {"init"})
  /\ UNCHANGED <<config, money, ledger>>

Mut_FundTwice(e) ==
  /\ ~paused
  /\ Is(e, {"Pending", "Funded"})
  /\ Deposit(e)
  /\ Save(e, [escrows[e] EXCEPT !.status = "Funded", !.funded_ledger = ledger])
  /\ Calls(escrows[e].client, {"funded"})
  /\ UNCHANGED <<config, ledger>>
Fund(e) ==
  /\ ~paused
  /\ Is(e, {"Pending"})
  /\ Deposit(e)
  /\ Save(e, [escrows[e] EXCEPT !.status = "Funded", !.funded_ledger = ledger])
  /\ Calls(escrows[e].client, {"funded"})
  /\ UNCHANGED <<config, ledger>>

Activate(e) ==
  /\ ~paused
  /\ Is(e, {"Funded"})
  /\ SetStatus(e, "Active")
  /\ Calls(escrows[e].client, {"active"})
  /\ UNCHANGED <<config, money, ledger>>

(* NoHash stands for expected_hash = None. *)
NoHash == -1
Hashes == {o.milestone_hash : o \in Offers} \cup {NoHash}

Mut_ReleaseUnchecked(e, expected) ==
  /\ ~paused
  /\ Is(e, Holding)
  /\ PayFreelancer(e)
  /\ Calls(escrows[e].client, {"released"})
  /\ UNCHANGED <<config, ledger>>
Release(e, expected) ==
  /\ ~paused
  /\ Is(e, Open)
  /\ expected \in {NoHash, escrows[e].milestone_hash}
  /\ PayFreelancer(e)
  /\ Calls(escrows[e].client, {"released"})
  /\ UNCHANGED <<config, ledger>>

Mut_CurrentAdminRefunds(e) ==
  /\ ~paused
  /\ Is(e, Holding)
  /\ RefundClient(e)
  /\ Calls(admin, {"refunded"})
  /\ UNCHANGED <<config, ledger>>
Refund(e) ==
  /\ ~paused
  /\ Is(e, Holding)
  /\ RefundClient(e)
  /\ Calls(escrows[e].admin, {"refunded"})
  /\ UNCHANGED <<config, ledger>>

(* cancel has no pause check. *)
Mut_CancelUnchecked(e, caller) ==
  /\ Loaded(e)
  /\ caller \in {escrows[e].client, escrows[e].admin}
  /\ SetStatus(e, "Cancelled")
  /\ Calls(caller, {"cancelled"})
  /\ UNCHANGED <<config, money, ledger>>
Cancel(e, caller) ==
  /\ Is(e, {"Pending"})
  /\ caller \in {escrows[e].client, escrows[e].admin}
  /\ SetStatus(e, "Cancelled")
  /\ Calls(caller, {"cancelled"})
  /\ UNCHANGED <<config, money, ledger>>

RaiseDispute(e, caller) ==
  /\ ~paused
  /\ Is(e, Open)
  /\ MayDispute(escrows[e], caller, ledger)
  /\ Save(e, Disputed(escrows[e]))
  /\ Calls(caller, {"disputed"})
  /\ UNCHANGED <<config, money, ledger>>

ResolveDispute(e, releaseToFreelancer) ==
  /\ ~paused
  /\ Is(e, {"Disputed"})
  /\ IF releaseToFreelancer THEN PayFreelancer(e) ELSE RefundClient(e)
  /\ Calls(escrows[e].admin, {"resolved"})
  /\ UNCHANGED <<config, ledger>>

Mut_MilestonesUncapped(e) ==
  /\ ~paused
  /\ Is(e, Open)
  /\ escrows[e].milestones_completed <= escrows[e].milestones_total
  /\ Save(e, [escrows[e] EXCEPT !.milestones_completed = @ + 1])
  /\ Calls(escrows[e].freelancer, {"ms_done"})
  /\ UNCHANGED <<config, money, ledger>>
CompleteMilestone(e) ==
  /\ ~paused
  /\ Is(e, Open)
  /\ escrows[e].milestones_total # 0
  /\ MilestoneLeft(escrows[e])
  /\ Save(e, [escrows[e] EXCEPT !.milestones_completed = @ + 1])
  /\ Calls(escrows[e].freelancer, {"ms_done"})
  /\ UNCHANGED <<config, money, ledger>>

(* claim_expired has neither a signer nor a pause check. *)
Mut_ClaimWhilePausedRefused(e) ==
  /\ ~paused
  /\ Is(e, Open)
  /\ Expired(escrows[e], ledger)
  /\ RefundClient(e)
  /\ Calls(NoAccount, {"refunded"})
  /\ UNCHANGED <<config, ledger>>
ClaimExpired(e) ==
  /\ Is(e, Open)
  /\ Expired(escrows[e], ledger)
  /\ RefundClient(e)
  /\ Calls(NoAccount, {"refunded"})
  /\ UNCHANGED <<config, ledger>>

(* The second approval releases in the same call. *)
ApproveRelease(e, approver) ==
  /\ ~paused
  /\ Is(e, Open)
  /\ approver \in {escrows[e].client, escrows[e].freelancer}
  /\ LET r == Endorse(escrows[e], approver) IN
       IF BothApproved(r)
       THEN /\ DoRelease(e)
            /\ Save(e, [r EXCEPT !.status = "Released"])
            /\ Calls(approver, {"approved", "released"})
       ELSE /\ Save(e, r)
            /\ Calls(approver, {"approved"})
            /\ UNCHANGED money
  /\ UNCHANGED <<config, ledger>>

-----------------------------------------------------------------------------
(* A ledger closes. *)
CloseLedger ==
  /\ ledger < MaxLedger
  /\ ledger' = ledger + 1
  /\ UNCHANGED <<config, escrows, money, call>>

EscrowStep(e) ==
  \/ \E o \in Offers : InitEscrow(e, o)
  \/ Fund(e)
  \/ Activate(e)
  \/ \E h \in Hashes : Release(e, h)
  \/ Refund(e)
  \/ \E a \in Accounts : Cancel(e, a)
  \/ \E a \in Accounts : RaiseDispute(e, a)
  \/ \E f \in BOOLEAN : ResolveDispute(e, f)
  \/ CompleteMilestone(e)
  \/ ClaimExpired(e)
  \/ \E a \in Accounts : ApproveRelease(e, a)

ConfigStep ==
  \/ \E a \in Admins, bps \in FeeRates : Initialize(a, bps)
  \/ \E bps \in FeeRates : SetFee(bps)
  \/ \E p \in BOOLEAN : SetPaused(p)
  \/ \E a \in Admins : TransferAdmin(a)

Next ==
  \/ ConfigStep
  \/ \E e \in EscrowIds : EscrowStep(e)
  \/ CloseLedger

Spec == Init /\ [][Next]_vars

(* Ledgers keep closing, and somebody submits claim_expired: the call needs *)
(* no signature, so the client need not wait for anybody.                   *)
FairSpec ==
  /\ Spec
  /\ WF_vars(CloseLedger)
  /\ \A e \in EscrowIds : WF_vars(ClaimExpired(e))

-----------------------------------------------------------------------------
(* Properties. *)

Becomes(e, s) == /\ escrows'[e] # NoEscrow
                 /\ escrows'[e].status = s
                 /\ ~Is(e, {s})

(* What the transfers made for an escrow must add up to in each status. *)
Due(r) ==
  [deposited  |-> IF r.status \in {"Pending", "Cancelled"} THEN 0 ELSE r.amount,
   client     |-> IF r.status = "Refunded" THEN r.amount ELSE 0,
   freelancer |-> IF r.status = "Released" THEN r.amount - r.platform_fee ELSE 0,
   admin      |-> IF r.status = "Released" THEN r.platform_fee ELSE 0]

(* SettlesExactly: along any sequence of calls the tokens moved for an     *)
(* escrow are exactly what its status promises: one deposit, then either   *)
(* the amount split between freelancer and admin or the whole amount back  *)
(* to the client, never both, never twice, never a part.                   *)
SettlesExactly ==
  \A e \in EscrowIds :
    moved[e] = IF Loaded(e) THEN Due(escrows[e]) ELSE NothingMoved

(* Solvent: in every token the contract holds exactly the sum of the       *)
(* amounts of the escrows that still hold funds, so paying one escrow never *)
(* spends another's deposit and no payout is refused for want of tokens.   *)
(* Two things are left out: a party that is the contract itself, by the    *)
(* assumption Contract \notin Accounts, and tokens that somebody transfers *)
(* to it without a call of it; the latter could only make it hold more.    *)
Deposits(t) == {e \in EscrowIds : Is(e, Holding) /\ escrows[e].token = t}
Solvent ==
  \A t \in Tokens :
    balance[t][Contract] = SumFunction([e \in Deposits(t) |-> escrows[e].amount])

(* ApprovalsHonoured: two approvals never coexist on an escrow that has    *)
(* not been released (the second one pays), and none survives a dispute,   *)
(* so an approval given before a dispute cannot release after it.          *)
ApprovalsHonoured ==
  \A e \in EscrowIds : Loaded(e) =>
    LET r == escrows[e] IN
    /\ BothApproved(r) => r.status = "Released"
    /\ r.client_approved \/ r.freelancer_approved =>
         r.status \in {"Funded", "Active", "Released", "Refunded"}

(* ProgressConsistent: a milestone counter never passes its total, and     *)
(* milestones and a funding ledger appear only on an escrow that was        *)
(* funded, at a ledger no later than the current one.                      *)
ProgressConsistent ==
  \A e \in EscrowIds : Loaded(e) =>
    LET r == escrows[e] IN
    /\ r.milestones_completed <= r.milestones_total
    /\ r.status \in {"Pending", "Cancelled"} =>
         r.milestones_completed = 0 /\ r.funded_ledger = 0
    /\ r.status \notin {"Pending", "Cancelled"} =>
         r.funded_ledger \in 1..ledger

(* FinalIsFinal: once an escrow is released, refunded or cancelled no call *)
(* changes its record or moves a token for it again.                       *)
FinalIsFinal ==
  [][\A e \in EscrowIds : Is(e, Terminal) =>
       escrows'[e] = escrows[e] /\ moved'[e] = moved[e]]_vars

Terms(r) == <<r.client, r.freelancer, r.admin, r.token, r.amount,
              r.platform_fee, r.milestone_hash, r.dispute_deadline_ledger,
              r.milestones_total, r.expiry_ledger>>

(* TermsFixed: nothing that happens after init_escrow - a fee change, an   *)
(* admin hand-over, another init with the same id - changes the parties,   *)
(* the amount, the fee or the deadlines of an escrow.                      *)
TermsFixed ==
  [][\A e \in EscrowIds : Loaded(e) =>
       escrows'[e] # NoEscrow /\ Terms(escrows'[e]) = Terms(escrows[e])]_vars

(* PaidByConsent: the freelancer is paid only by the client's own release, *)
(* by both parties' approvals, or by the escrow's admin after a dispute.   *)
PaidByConsent ==
  [][\A e \in EscrowIds : Becomes(e, "Released") =>
       \/ Is(e, Open) /\ call'.signer = escrows[e].client
       \/ Is(e, Open) /\ BothApproved(escrows'[e])
       \/ Is(e, {"Disputed"}) /\ call'.signer = escrows[e].admin]_vars

(* ReturnedWithCause: the client gets the deposit back only through the    *)
(* admin pinned in the record, or after expiry while nobody disputes; a    *)
(* dispute is never cut short by the clock.                                *)
ReturnedWithCause ==
  [][\A e \in EscrowIds : Becomes(e, "Refunded") =>
       \/ Is(e, Holding) /\ call'.signer = escrows[e].admin
       \/ Is(e, Open) /\ escrows[e].expiry_ledger # 0
                      /\ escrows[e].expiry_ledger <= ledger]_vars

(* ExpiryUnblocks: tokens of an undisputed escrow with an expiry do not    *)
(* stay in the contract for ever, even when the admin pauses it or is      *)
(* gone: the escrow is settled or disputed eventually.                     *)
ExpiryUnblocks ==
  \A e \in EscrowIds :
    (Is(e, Open) /\ escrows[e].expiry_ledger # 0) ~> ~Is(e, Open)

-----------------------------------------------------------------------------
(* The contract implements EscrowPromise. *)

StageName == [Pending |-> "agreed", Funded |-> "held", Active |-> "held",
              Disputed |-> "contested", Released |-> "paid",
              Refunded |-> "returned", Cancelled |-> "void"]
StageOf ==
  [e \in EscrowIds |->
     IF Loaded(e) THEN StageName[escrows[e].status] ELSE "none"]
StakeOf ==
  [e \in EscrowIds |->
     IF Loaded(e) THEN [amount |-> escrows[e].amount,
                        fee |-> escrows[e].platform_fee]
                  ELSE [amount |-> 0, fee |-> 0]]
PossibleStakes ==
  {[amount |-> o.amount, fee |-> ComputeFee(o.amount, bps)] :
     o \in Offers, bps \in 0..MaxFeeBps}

Promise == INSTANCE EscrowPromise
             WITH Deals <- EscrowIds, Stakes <- PossibleStakes,
                  stage <- StageOf, stake <- StakeOf, paid <- moved

(* ImplementsPromise: every sequence of calls of the contract is one of    *)
(* the promise's, each call being one step of a deal or none.              *)
ImplementsPromise == Promise!PromiseSpec
=============================================================================
