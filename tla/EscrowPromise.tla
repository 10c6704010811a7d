---------------------------- MODULE EscrowPromise ----------------------------
(***************************************************************************)
(* What the contract promises about one another's money, with no calls,    *)
(* signatures, clocks, pauses or token accounts: every deal is struck once *)
(* with a stake and a fee, deposited once, and then either paid out to the *)
(* freelancer and the admin or returned to the client, in one step and for *)
(* good.  NexusEscrow implements it.                                       *)
(***************************************************************************)
EXTENDS Integers

CONSTANTS Deals,    \* the escrow ids
          Stakes    \* possible [amount, fee] pairs

VARIABLES stage,    \* deal -> where it stands
          stake,    \* deal -> the agreed amount and fee
          paid      \* deal -> tokens moved so far, by recipient

promiseVars == <<stage, stake, paid>>

NoStake   == [amount |-> 0, fee |-> 0]
NothingPaid == [deposited |-> 0, client |-> 0, freelancer |-> 0, admin |-> 0]

PromiseInit ==
  /\ stage = [d \in Deals |-> "none"]
  /\ stake = [d \in Deals |-> NoStake]
  /\ paid  = [d \in Deals |-> NothingPaid]

Moves(d, from, to) ==
  /\ stage[d] \in from
  /\ stage' = [stage EXCEPT ![d] = to]

Strike(d) ==
  /\ Moves(d, {"none"}, "agreed")
  /\ \E s \in Stakes : /\ 0 <= s.fee /\ s.fee < s.amount
                       /\ stake' = [stake EXCEPT ![d] = s]
  /\ UNCHANGED paid

DepositStake(d) ==
  /\ Moves(d, {"agreed"}, "held")
  /\ paid' = [paid EXCEPT ![d].deposited = stake[d].amount]
  /\ UNCHANGED stake

Contest(d) ==
  /\ Moves(d, {"held"}, "contested")
  /\ UNCHANGED <<stake, paid>>

PayOut(d) ==
  /\ Moves(d, {"held", "contested"}, "paid")
  /\ paid' = [paid EXCEPT ![d].freelancer = stake[d].amount - stake[d].fee,
                          ![d].admin = stake[d].fee]
  /\ UNCHANGED stake

GiveBack(d) ==
  /\ Moves(d, {"held", "contested"}, "returned")
  /\ paid' = [paid EXCEPT ![d].client = stake[d].amount]
  /\ UNCHANGED stake

CallOff(d) ==
  /\ Moves(d, {"agreed"}, "void")
  /\ UNCHANGED <<stake, paid>>

PromiseStep(d) ==
  Strike(d) \/ DepositStake(d) \/ Contest(d) \/ PayOut(d) \/ GiveBack(d) \/ CallOff(d)

PromiseNext == \E d \in Deals : PromiseStep(d)

PromiseSpec == PromiseInit /\ [][PromiseNext]_promiseVars
=============================================================================
