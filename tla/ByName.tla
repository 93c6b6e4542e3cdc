-------------------------------- MODULE ByName --------------------------------
(***************************************************************************)
(* Actions by name: `only <action> [value]` on the command line runs one   *)
(* do_* action of src/src/strategy.rs in a process of its own, without a   *)
(* deadline.  With a value it is an action as the strategy starts it; here *)
(* is what it does without one: the amount is looked up in the context's   *)
(* cache of balances.  The cache is new, all zero, and update_balances     *)
(* fills in only the exchange it is asked for.                             *)
(*                                                                         *)
(* From its amount on, a run is one of module Transfers, to which this     *)
(* module adds the other way to start.  Actions that only print are left   *)
(* out, and do_change_short is in module Orders.                           *)
(***************************************************************************)
EXTENDS Transfers

VARIABLES
  named,  \* history: the current run was started by name, without a value
  held    \* history: what its source held then

byNameVars == <<vars, named, held>>

(* USDC on Kraken: a balance that is cached and no operation moves.        *)
Entries == Cells \cup {"e2Prim"}

HeldBy(e) == CASE e = "e1Free"              -> "First"
               [] e = "wallet"              -> "Wallet"
               [] e \in {"eePrim", "eeSec"} -> "Exchange"
               [] OTHER                     -> "Second"

(* An entry of the cache after update_balances(ctx, Some(we)).             *)
Cached(we, e) == IF HeldBy(e) = we THEN bal[e] ELSE 0

(* The exchange an action without a value refreshes ...                    *)
Refreshed(k) == CASE k = "e1_to_wallet" -> "First"
                  [] k \in Deposits     -> "Wallet"
                  [] k \in Shipments \cup {"ee_to_wallet", "unstake"} -> "Exchange"
                  [] k = "stake"        -> "Second"

(* ... and the entry it takes its amount from.                             *)
EntryRead(k) == IF k = "ee_to_wallet" THEN "e2Prim" ELSE From(k)

(* Mutant: the coins are counted where they are to go. *)
DefaultAmountOfTarget(k) == Cached(Refreshed(k), To(k))

DefaultAmount(k) == Cached(Refreshed(k), EntryRead(k))

(* do_wallet_to_e1 checks a given amount only.                             *)
DefaultEntry(k) == IF k = "wallet_to_e1" THEN "baseline" ELSE Entry(k)

StartByName(k) ==
  /\ pc = "idle"
  /\ launched < MaxLaunches
  /\ pc' = DefaultEntry(k) /\ kind' = k /\ amount' = Argument(k, DefaultAmount(k))
  /\ src' = 0 /\ base' = 0 /\ seen' = 0 /\ own' = 0
  /\ landed' = 0 /\ disturbed' = FALSE
  /\ named' = TRUE /\ held' = bal[From(k)]
  /\ UNCHANGED <<services, outside, expense>>

(* A run of the strategy, with the amount it has decided on. *)
StartGiven ==
  /\ \E k \in Kinds, a \in Amounts : Start(k, a)
  /\ named' = FALSE /\ held' = 0

(* The rest of Transfers.  What ends a run here ends the process.          *)
Continue ==
  /\ \/ Progress
     \/ Abort \/ Restart \/ AnswerLost
     \/ UnwrapPanic \/ DepositSettleUnpriced
     \/ \E t \in flying, fee \in Fees : Credit(t, fee)
     \/ PriceMove \/ Reward
  /\ UNCHANGED <<named, held>>

Stay == Monitoring /\ UNCHANGED <<named, held>>

ByNameInit == Init /\ named = FALSE /\ held = 0

ByNameNext ==
  \/ \E k \in Kinds : StartByName(k)
  \/ StartGiven \/ Continue \/ Stay

ByNameSpec == ByNameInit /\ [][ByNameNext]_byNameVars

(* The program runs, and operations_timeout ends a run of the strategy     *)
(* that does not end.  No promise is made about the services, nor about    *)
(* the patience of an operator who waits for an action by name.            *)
GoOn    == Progress /\ UNCHANGED <<named, held>>
TimeOut == Abort /\ ~named /\ UNCHANGED <<named, held>>

DeadlineSpec == ByNameSpec /\ WF_byNameVars(GoOn) /\ WF_byNameVars(TimeOut)

-----------------------------------------------------------------------------
(* Properties. *)

(* An action by name that reports success has moved money, if its source   *)
(* held enough to move (README.md 101: actions can be run individually).   *)
DoesItsWork ==
  [][named /\ Running /\ pc' = "idle" => own # 0 \/ held < WithdrawalMin]_byNameVars

(* So it is for every action that takes its amount from an entry it has    *)
(* refreshed, and it then asks for all there was, in whole coins at least, *)
(* unless what it reads has changed meanwhile.                             *)
Sighted(k) == Refreshed(k) = HeldBy(From(k)) /\ EntryRead(k) = From(k)

AsksForAll ==
  [][named /\ Sighted(kind) /\ held >= WithdrawalMin =>
       /\ Running /\ pc' = "idle" => own # 0
       /\ Running /\ own' # own /\ ~disturbed =>
            bal'[From(kind)] < Coin]_byNameVars

(* With the deadline, the loop of strategy() comes round again whatever    *)
(* the services do, unless the process is down or runs an action by name.  *)
LoopComesRound == []<>(pc \in {"idle", "down"} \/ named)
=============================================================================
