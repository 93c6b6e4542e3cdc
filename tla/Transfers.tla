------------------------------ MODULE Transfers ------------------------------
(***************************************************************************)
(* The money-moving operations of src/src/helpers.rs: a withdrawal to the  *)
(* wallet (internal_do_withdraw), a deposit from it (internal_do_deposit), *)
(* a shipment of ATOM between Binance and Kraken (internal_do_ee_to_e2_    *)
(* deposit_operating and its mirror image) and staking                     *)
(* (stake_unstake_impl).  Each of them is run by process_state in          *)
(* src/src/strategy.rs, one at a time, under the deadline                  *)
(* operations_timeout; each reads a baseline, asks a service to move the   *)
(* money and then polls the destination's balance until it has risen       *)
(* enough.  None of them follows the transfer itself: the arrival of the   *)
(* money is deduced from balances, which other events change too.          *)
(*                                                                         *)
(* One step of this module is the code between two `await`s.  A run ends   *)
(* with Ok, with an error (main pauses for a minute and starts over with   *)
(* nothing remembered) or with a panic (the process is gone).  What a run  *)
(* had already asked for goes on at the services in all three cases.       *)
(*                                                                         *)
(* All amounts are integers in hundredths of a coin, USDC or ATOM.         *)
(***************************************************************************)
EXTENDS Integers, FiniteSets

CONSTANTS
  Amounts,      \* amounts a do_* action may be called with
  Fees,         \* what a service may keep back of a transfer
  Shift,        \* change of the free collateral on dYdX by one price move
  Opening,      \* the balances at the start
  MaxLaunches,  \* bound: transfers the services accept
  MaxOutside    \* bound: price moves and staking rewards

Coin == 100                        \* ONE_S, and one USDC
WithdrawalMin == 10 * Coin         \* withdrawal_min

(* The balances the operations read and move. *)
Cells == {"e1Free", "wallet", "eePrim", "eeSec", "unstaked", "staked"}

Withdrawals == {"e1_to_wallet", "ee_to_wallet"}
Deposits    == {"wallet_to_e1", "wallet_to_ee"}
Shipments   == {"ee_to_e2", "e2_to_ee"}
Stakings    == {"stake", "unstake"}
Kinds       == Withdrawals \cup Deposits \cup Shipments \cup Stakings

From(k) == CASE k = "e1_to_wallet" -> "e1Free"
             [] k = "ee_to_wallet" -> "eePrim"
             [] k \in Deposits     -> "wallet"
             [] k = "ee_to_e2"     -> "eeSec"
             [] k = "e2_to_ee"     -> "unstaked"
             [] k = "stake"        -> "unstaked"
             [] k = "unstake"      -> "staked"

To(k) == CASE k \in Withdrawals  -> "wallet"
           [] k = "wallet_to_e1" -> "e1Free"
           [] k = "wallet_to_ee" -> "eePrim"
           [] k = "ee_to_e2"     -> "unstaked"
           [] k = "e2_to_ee"     -> "eeSec"
           [] k = "stake"        -> "staked"
           [] k = "unstake"      -> "unstaked"

(* The local `commission` of the code: 0 except for shipments. *)
Commission(k) == CASE k = "ee_to_e2" -> 1
                   [] k = "e2_to_ee" -> 10
                   [] OTHER          -> 0

ASSUME AmountsAssumption  == Amounts \subseteq Nat
ASSUME FeesAssumption     == Fees \subseteq Nat
ASSUME ShiftAssumption    == Shift \in Nat
ASSUME OpeningAssumption  == Opening \in [Cells -> Nat]
ASSUME BoundsAssumption   == MaxLaunches \in Nat /\ MaxOutside \in Nat

VARIABLES
  bal,        \* the balances at the services
  flying,     \* transfers taken from their source and not yet credited
  launched,   \* number of transfers accepted so far, and the last one's id
  outside,    \* number of price moves and rewards so far
  pc,         \* where the current run of process_state is
  kind,       \* the operation it executes
  amount,     \* its argument
  src,        \* its first reading of the source
  base,       \* its baseline reading of the destination
  seen,       \* the destination's reading that ended its wait
  own,        \* the id of the transfer it asked for, 0 before
  expense,    \* the expense counters of monitoring.rs
  landed,     \* history: what the run's own transfer has brought, 0 before
  disturbed   \* history: something else has changed a balance the run reads

services == <<bal, flying, launched>>
locals   == <<kind, amount, src, base, seen, own>>
history  == <<landed, disturbed>>
vars     == <<services, outside, pc, locals, expense, history>>

Steps  == {"check", "baseline", "request", "wait", "settle"}
Running == pc \in Steps

Transfer == [id : Nat, to : Cells, amount : Nat]

TypeOK ==
  /\ bal \in [Cells -> Nat]
  /\ flying \subseteq Transfer
  /\ launched \in Nat /\ outside \in Nat
  /\ pc \in Steps \cup {"idle", "paused", "down"}
  /\ kind \in Kinds
  /\ amount \in Nat /\ src \in Nat /\ base \in Nat /\ seen \in Nat
  /\ own \in Nat
  /\ expense \in [Kinds -> Nat]
  /\ landed \in Nat /\ disturbed \in BOOLEAN

Init ==
  /\ bal = Opening /\ flying = {} /\ launched = 0 /\ outside = 0
  /\ pc = "idle" /\ kind = "stake"
  /\ amount = 0 /\ src = 0 /\ base = 0 /\ seen = 0 /\ own = 0
  /\ expense = [k \in Kinds |-> 0]
  /\ landed = 0 /\ disturbed = FALSE

-----------------------------------------------------------------------------
(* Starting, and the ways a run ends. *)

Larger(x, y) == IF x > y THEN x ELSE y

(* The first step of each operation. *)
Entry(k) == IF k \in {"wallet_to_ee"} \cup Stakings THEN "baseline" ELSE "check"

(* The argument of stake_unstake_impl is raised to one coin. *)
Argument(k, a) == IF k \in Stakings THEN Larger(a, Coin) ELSE a

(* process_state dispatches the state it has detected to a do_* action.    *)
(* What is detected, or asked for on the command line, is left open here.  *)
Start(k, a) ==
  /\ pc = "idle"
  /\ launched < MaxLaunches
  /\ pc' = Entry(k) /\ kind' = k /\ amount' = Argument(k, a)
  /\ src' = 0 /\ base' = 0 /\ seen' = 0 /\ own' = 0
  /\ landed' = 0 /\ disturbed' = FALSE
  /\ UNCHANGED <<services, outside, expense>>

Goto(step) == pc' = step

(* Nothing to do: process_state returns (None, monitoring_timeout). *)
Monitoring == pc = "idle" /\ UNCHANGED vars

(* Mutant: strategy() without its timeout around the polling loops. *)
AbortNotWhileWaiting ==
  /\ Running /\ pc # "wait"
  /\ Goto("paused")
  /\ UNCHANGED <<services, outside, locals, expense, history>>

(* An `await` answers with an error, or operations_timeout is over and the *)
(* future is dropped at the `await` it has reached.                        *)
Abort ==
  /\ Running
  /\ Goto("paused")
  /\ UNCHANGED <<services, outside, locals, expense, history>>

(* A panic, where the code unwraps what an answer should contain: the      *)
(* wallet's balances (helpers.rs 208, 213), dYdX's offer for a withdrawal  *)
(* (577-581), a deposit's transaction hash (436).                          *)
UnwrapPanic ==
  /\ \/ kind \in Withdrawals /\ pc \in {"baseline", "wait"}
     \/ kind \in Deposits /\ pc \in {"check", "baseline", "wait", "settle"}
  /\ Goto("down")
  /\ UNCHANGED <<services, outside, locals, expense, history>>

(* main.rs: a minute later the strategy starts over with a new context. *)
Resume ==
  /\ pc = "paused"
  /\ Goto("idle")
  /\ UNCHANGED <<services, outside, locals, expense, history>>

(* A panic ends the process; an operator or the container restarts it. *)
Restart ==
  /\ pc = "down"
  /\ Goto("idle")
  /\ UNCHANGED <<services, outside, locals, expense, history>>

-----------------------------------------------------------------------------
(* Asking a service to move money. *)

(* What the request asks for: Binance is asked for whole USDC. *)
Requested == IF kind = "ee_to_wallet" THEN (amount \div Coin) * Coin ELSE amount

(* The service takes the money from the source; it will be credited later. *)
Launch ==
  /\ Requested > 0 /\ Requested <= bal[From(kind)]
  /\ bal' = [bal EXCEPT ![From(kind)] = @ - Requested]
  /\ launched' = launched + 1
  /\ flying' = flying \cup
       {[id |-> launched + 1, to |-> To(kind), amount |-> Requested]}
  /\ UNCHANGED outside

(* The request is accepted and the answer reaches the caller. *)
Accepted(next) ==
  /\ pc = "request"
  /\ Launch
  /\ own' = launched + 1
  /\ Goto(next)
  /\ UNCHANGED <<kind, amount, src, base, seen, expense, history>>

(* Mutant: a lost answer is followed by another request. *)
AnswerLostRetried ==
  /\ pc = "request"
  /\ Launch
  /\ launched < MaxLaunches
  /\ UNCHANGED <<pc, locals, expense, history>>

(* The request is accepted and the answer is lost: the caller's `?`        *)
(* returns an error although the money is on its way.  For a deposit the   *)
(* script has failed, or has written to stderr, after sending it.          *)
AnswerLost ==
  /\ pc = "request"
  /\ Launch
  /\ Goto("paused")
  /\ UNCHANGED <<locals, expense, history>>

-----------------------------------------------------------------------------
(* internal_do_withdraw: dYdX or Binance to the wallet. *)

WithdrawCheck ==
  /\ pc = "check" /\ kind \in Withdrawals
  /\ src' = bal[From(kind)]
  /\ Goto(CASE bal[From(kind)] < amount  -> "paused"   \* Err
            [] bal[From(kind)] >= amount /\ amount < WithdrawalMin -> "idle"
            [] OTHER -> "baseline")
  /\ UNCHANGED <<services, outside, kind, amount, base, seen, own, expense, history>>

(* The baseline is read before the request. *)
WithdrawBaseline ==
  /\ pc = "baseline" /\ kind \in Withdrawals
  /\ base' = bal["wallet"]
  /\ Goto("request")
  /\ UNCHANGED <<services, outside, kind, amount, src, seen, own, expense, history>>

WithdrawRequest == kind \in Withdrawals /\ Accepted("wait")

(* Mutant: the loop's threshold forgets what the wallet held before. *)
WithdrawArrivedNoBaseline == 10 * bal["wallet"] > 9 * amount

WithdrawArrived == 10 * (bal["wallet"] - base) > 9 * amount

(* Mutant: the expense without its guard against negative values. *)
WithdrawSettleUnguarded ==
  /\ pc = "settle" /\ kind \in Withdrawals
  /\ expense' = [expense EXCEPT ![kind] =
                   @ + ((src - bal[From(kind)]) - (seen - base))]
  /\ Goto("idle")
  /\ UNCHANGED <<services, outside, locals, history>>

(* Mutant: the expense from the argument, not from what left the source. *)
WithdrawSettleByArgument ==
  /\ pc = "settle" /\ kind \in Withdrawals
  /\ expense' = [expense EXCEPT ![kind] = @ + Larger(amount - (seen - base), 0)]
  /\ Goto("idle")
  /\ UNCHANGED <<services, outside, locals, history>>

WithdrawSettle ==
  LET spent == (src - bal[From(kind)]) - (seen - base)
  IN /\ pc = "settle" /\ kind \in Withdrawals
     /\ expense' = IF spent >= 0 THEN [expense EXCEPT ![kind] = @ + spent]
                                 ELSE expense
     /\ Goto("idle")
     /\ UNCHANGED <<services, outside, locals, history>>

-----------------------------------------------------------------------------
(* do_wallet_to_e1 and internal_do_deposit. *)

(* do_wallet_to_e1 adjusts the amount to what the wallet holds, within 10% *)
(* either way, and reaches a todo!() when the wallet holds too little.     *)
WalletToE1Check ==
  /\ pc = "check" /\ kind = "wallet_to_e1"
  /\ Goto(IF 10 * bal["wallet"] < 9 * amount THEN "down" ELSE "baseline")
  /\ amount' = IF \/ 10 * bal["wallet"] < 9 * amount
                  \/ 10 * bal["wallet"] > 11 * amount
               THEN amount ELSE bal["wallet"]
  /\ UNCHANGED <<services, outside, kind, src, base, seen, own, expense, history>>

DepositBaseline ==
  /\ pc = "baseline" /\ kind \in Deposits
  /\ src' = bal["wallet"] /\ base' = bal[To(kind)]
  /\ Goto("request")
  /\ UNCHANGED <<services, outside, kind, amount, seen, own, expense, history>>

(* The script blocks the thread until the transaction is mined: no         *)
(* deadline can fall inside this step.                                     *)
DepositRequest == kind \in Deposits /\ Accepted("wait")

(* Mutant: nothing is allowed for the fee. *)
DepositArrivedInFull == bal[To(kind)] - base >= amount

DepositArrived == 10 * (bal[To(kind)] - base) >= 9 * amount

(* Mutant: the expense without max(..., 0). *)
DepositSettleUnlimited ==
  /\ pc = "settle" /\ kind \in Deposits
  /\ expense' = [expense EXCEPT ![kind] =
                   @ + ((src - bal["wallet"]) - (bal[To(kind)] - base))]
  /\ Goto("idle")
  /\ UNCHANGED <<services, outside, locals, history>>

(* Both balances are read again; the expense is cut off at zero. *)
DepositSettle ==
  LET spent == Larger((src - bal["wallet"]) - (bal[To(kind)] - base), 0)
  IN /\ pc = "settle" /\ kind \in Deposits
     /\ expense' = [expense EXCEPT ![kind] = @ + spent]
     /\ Goto("idle")
     /\ UNCHANGED <<services, outside, locals, history>>

(* Gas has been topped up during the wait: nothing is recorded. *)
DepositSettleUnpriced ==
  /\ pc = "settle" /\ kind \in Deposits
  /\ Goto("idle")
  /\ UNCHANGED <<services, outside, locals, expense, history>>

-----------------------------------------------------------------------------
(* internal_do_ee_to_e2_deposit_operating and                              *)
(* internal_do_e2_to_ee_deposit_operating.                                 *)

ShipCheck ==
  /\ pc = "check" /\ kind \in Shipments
  /\ src' = bal[From(kind)]
  /\ Goto("request")
  /\ UNCHANGED <<services, outside, kind, amount, base, seen, own, expense, history>>

ShipRequest == kind \in Shipments /\ Accepted("baseline")

(* The baseline is read after the request. *)
ShipBaseline ==
  /\ pc = "baseline" /\ kind \in Shipments
  /\ base' = bal[To(kind)]
  /\ Goto("wait")
  /\ UNCHANGED <<services, outside, kind, amount, src, seen, own, expense, history>>

ShipArrived == 10 * (bal[To(kind)] - base) > 9 * (amount - Commission(kind))

ShipSettle ==
  LET spent == (src - bal[From(kind)]) - (seen - base)
  IN /\ pc = "settle" /\ kind \in Shipments
     /\ expense' = IF spent < 0 THEN expense
                                ELSE [expense EXCEPT ![kind] = @ + spent]
     /\ Goto("idle")
     /\ UNCHANGED <<services, outside, locals, history>>

-----------------------------------------------------------------------------
(* stake_unstake_impl.  Its check against staking_min_limit (one coin,     *)
(* main.rs) never fails, because the argument is at least one coin.        *)

StakeBaseline ==
  /\ pc = "baseline" /\ kind \in Stakings
  /\ base' = bal[To(kind)]
  /\ Goto("request")
  /\ UNCHANGED <<services, outside, kind, amount, src, seen, own, expense, history>>

StakeRequest == kind \in Stakings /\ Accepted("wait")

StakeArrived == bal[To(kind)] > base

StakeSettle ==
  /\ pc = "settle" /\ kind \in Stakings
  /\ Goto("idle")
  /\ UNCHANGED <<services, outside, locals, expense, history>>

-----------------------------------------------------------------------------
(* The polling loop all of them share. *)

Arrived == \/ kind \in Withdrawals /\ WithdrawArrived
           \/ kind \in Deposits /\ DepositArrived
           \/ kind \in Shipments /\ ShipArrived
           \/ kind \in Stakings /\ StakeArrived

Wait ==
  /\ pc = "wait"
  /\ Arrived
  /\ seen' = bal[To(kind)]
  /\ Goto("settle")
  /\ UNCHANGED <<services, outside, kind, amount, src, base, own, expense, history>>

-----------------------------------------------------------------------------
(* The services and the market. *)

Touches(c) == Running /\ c \in {From(kind), To(kind)}

IsOwn(t) == Running /\ own # 0 /\ t.id = own

(* A transfer is credited, less the service's commission; staking is free. *)
Credit(t, fee) ==
  /\ fee < t.amount
  /\ t.to = "staked" => fee = 0
  /\ flying' = flying \ {t}
  /\ bal' = [bal EXCEPT ![t.to] = @ + (t.amount - fee)]
  /\ landed' = IF IsOwn(t) THEN t.amount - fee ELSE landed
  /\ disturbed' = (disturbed \/ (~IsOwn(t) /\ Touches(t.to)))
  /\ UNCHANGED <<launched, outside, pc, locals, expense>>

(* The price moves and with it the margin that the short position binds. *)
PriceMove ==
  /\ outside < MaxOutside
  /\ \E free \in {bal["e1Free"] + Shift, bal["e1Free"] - Shift} :
       /\ free >= 0
       /\ bal' = [bal EXCEPT !["e1Free"] = free]
  /\ outside' = outside + 1
  /\ disturbed' = (disturbed \/ Touches("e1Free"))
  /\ UNCHANGED <<flying, launched, pc, locals, expense, landed>>

(* Kraken pays a staking reward. *)
Reward ==
  /\ outside < MaxOutside
  /\ bal' = [bal EXCEPT !["staked"] = @ + 1]
  /\ outside' = outside + 1
  /\ disturbed' = (disturbed \/ Touches("staked"))
  /\ UNCHANGED <<flying, launched, pc, locals, expense, landed>>

-----------------------------------------------------------------------------
WithdrawStep == WithdrawCheck \/ WithdrawBaseline \/ WithdrawRequest \/ WithdrawSettle
DepositStep  == WalletToE1Check \/ DepositBaseline \/ DepositRequest \/ DepositSettle
ShipStep     == ShipCheck \/ ShipRequest \/ ShipBaseline \/ ShipSettle
StakeStep    == StakeBaseline \/ StakeRequest \/ StakeSettle

(* What the program does next when every answer is good. *)
Progress == WithdrawStep \/ DepositStep \/ ShipStep \/ StakeStep \/ Wait \/ Resume

Next ==
  \/ \E k \in Kinds, a \in Amounts : Start(k, a)
  \/ Progress
  \/ Monitoring \/ Abort \/ Restart \/ AnswerLost
  \/ UnwrapPanic \/ DepositSettleUnpriced
  \/ \E t \in flying, fee \in Fees : Credit(t, fee)
  \/ PriceMove \/ Reward

Spec == Init /\ [][Next]_vars

Arrival(i) == \E t \in flying, fee \in Fees : t.id = i /\ Credit(t, fee)

(* The program runs and every accepted transfer is credited some day.  No  *)
(* promise is made about operations_timeout.                               *)
PatientSpec ==
  /\ Spec
  /\ WF_vars(Progress)
  /\ \A i \in 1 .. MaxLaunches : WF_vars(Arrival(i))

-----------------------------------------------------------------------------
(* Properties. *)

(* The promise of Custody: an operation makes one transfer at most, which  *)
(* goes on when the operation fails and comes in once; one that has asked  *)
(* for a transfer reports success only after it has come in, unless        *)
(* something else has changed a balance the run reads, or a shipment is    *)
(* smaller than its commission; and success without having asked for one   *)
(* is reported only of an amount below WithdrawalMin: the early Ok(()) at  *)
(* helpers.rs 631-634.                                                     *)
Stage == IF ~Running THEN IF pc = "idle" THEN "idle" ELSE "failed"
         ELSE IF own = 0 THEN "open"
         ELSE IF pc = "settle" THEN "done"
         ELSE "asked"

Promise == INSTANCE Custody WITH
  Accounts <- Cells, Drifting <- {"e1Free", "staked"}, Least <- WithdrawalMin,
  held <- bal, transit <- flying, stage <- Stage, wanted <- amount, mine <- own,
  excused <- disturbed \/ amount < Commission(kind)

KeepsCustody == Promise!Spec

(* The run's own transfer is still on its way. *)
OwnFlying == \E t \in flying : t.id = own

(* An operation that leaves its polling loop has its own money in, as long *)
(* as nothing else has changed a balance it compares: it never reports     *)
(* success for a transfer that has not arrived.  (A shipment of less than  *)
(* the assumed commission is the exception: its threshold lies below its   *)
(* baseline.)  The loops of helpers.rs, lines 441, 508, 550, 649 and 709.  *)
OkMeansCredited ==
  pc = "settle" /\ ~disturbed /\ amount >= Commission(kind) => ~OwnFlying

(* An operation whose own money has come in, with less than a tenth kept   *)
(* back, finds its loop's condition true at the next poll: the arrival     *)
(* cannot be missed.  True of every operation that reads its baseline      *)
(* before its request, that is, of all but the shipments.                  *)
NoLostArrival ==
  pc = "wait" /\ kind \notin Shipments /\ ~disturbed /\ landed > 0
    /\ 10 * landed > 9 * amount
  => Arrived

(* The counters handed to Prometheus never go down, whatever arrives       *)
(* during a run: an arrival the run did not ask for can make the computed  *)
(* expense negative (helpers.rs 462, 525, 563 and 667).                    *)
CountersOnlyGrow ==
  [][\A k \in Kinds : expense'[k] >= expense[k]]_vars

(* What a run adds to its counter is what the service kept back of its own *)
(* transfer, when nothing else has changed the balances it subtracts.      *)
ExpenseIsTheFee ==
  [][expense' # expense /\ ~disturbed =>
       \/ amount < Commission(kind)
       \/ expense'[kind] - expense[kind] = Requested - landed]_vars

(* Without any help of the deadline, an operation that reads its baseline  *)
(* before its request returns once its transfer is credited, when no more  *)
(* than a tenth is kept back and no price move or reward disturbs it;      *)
(* late arrivals of other transfers do not.                                *)
PatientReturn ==
  (pc = "wait" /\ kind \notin Shipments)
    ~> (pc \in {"idle", "paused", "down"} \/ (disturbed /\ outside > 0))
=============================================================================
