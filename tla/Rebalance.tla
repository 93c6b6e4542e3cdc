------------------------------ MODULE Rebalance ------------------------------
(***************************************************************************)
(* The strategy at work: process_state in src/src/strategy.rs detects what *)
(* to do (module Decision) and runs the do_* action for it, over and over. *)
(* An operation is one step here, with the balances it leaves behind; how  *)
(* it waits inside is the subject of module Transfers.  An operation of    *)
(* two orders may fail between them; a transfer may run into               *)
(* operations_timeout, and its money then comes in later, unknown to the   *)
(* strategy.  An answer may lack what the code unwraps, and the process    *)
(* panics wherever it is.  The price may move at any time, also between a  *)
(* decision and its operation.                                             *)
(*                                                                         *)
(* The exchanges' side is external: dYdX's equity follows the price of the *)
(* short position, of which it binds a tenth as margin; every transfer of  *)
(* USDC costs TransferFee, and a shipment of ATOM the commission the code  *)
(* expects; orders fill at the price and cost nothing.                     *)
(***************************************************************************)
EXTENDS Decision

CONSTANTS
  Openings,      \* the balances the strategy may start from
  Prices,        \* prices of one ATOM in USDC, the same on all exchanges
  OpeningPrice,
  TransferFee,   \* in cents
  Samples,       \* samples of the distribution of order sizes
  MaxPriceMoves, \* bound
  MaxCutOffs,    \* bound: operations that fail between their two orders
  MaxDelays,     \* bound: transfers that outlast operations_timeout
  MaxMisreads    \* bound: answers in which something is missing

LeastWithdrawal == 10 * 100

Fields == {"e1Total", "short", "e2Usdc", "e2Usd", "staked", "unstaked",
           "eePrim", "eeSec", "wallet"}

ASSUME OpeningsAssumption == Openings \subseteq [Fields -> Nat]
ASSUME PricesAssumption == Prices \subseteq Nat \ {0} /\ OpeningPrice \in Prices
(* No service keeps more for a transfer than the least it pays out. *)
ASSUME FeeAssumption == TransferFee \in 0 .. LeastWithdrawal
ASSUME SamplesAssumption == Samples \subseteq Int /\ Samples # {}
ASSUME BoundsAssumption ==
  {MaxPriceMoves, MaxCutOffs, MaxDelays, MaxMisreads} \subseteq Nat

VARIABLES
  bal,       \* the balances on all accounts
  price,     \* the market price of ATOM
  plan,      \* the detected state, Idle before detection
  late,      \* transfers that have outlasted their operation
  moved, cutOffs, delays, misreads, \* how often each of the bounded things happened
  withdrew   \* history: dYdX has been told to give up funds since the
             \* strategy last came to rest or the price last moved

counters == <<moved, cutOffs, delays, misreads>>
vars == <<bal, price, plan, late, counters, withdrew>>

Idle == Move("idle", 0)

TransferOps == {"e1_to_wallet", "ee_to_wallet", "wallet_to_e1", "wallet_to_ee",
                "ee_to_e2", "e2_to_ee", "stake", "unstake"}
TradeOps == {"reduce_both", "enlarge_both", "reduce_short", "enlarge_short"}

(* The process is down: by a panic of the code's own making, a todo!(), an *)
(* assertion or a division by zero; or because of what it unwraps.         *)
Crashed == Move("crash", 0)
Down == plan \in {Panic, Crashed}

TypeOK ==
  /\ bal \in [Fields -> Int] /\ \A f \in Fields \ {"short"} : bal[f] >= 0
  /\ price \in Prices
  /\ plan \in [op : TransferOps \cup TradeOps \cup {"idle", "monitoring", "panic", "crash"},
               amount : Int]
  /\ \A t \in late : t.to \in Fields /\ t.amount \in Nat
  /\ moved \in 0 .. MaxPriceMoves /\ cutOffs \in 0 .. MaxCutOffs
  /\ delays \in 0 .. MaxDelays /\ misreads \in 0 .. MaxMisreads
  /\ withdrew \in BOOLEAN

Init ==
  /\ bal \in Openings
  /\ price = OpeningPrice
  /\ plan = Idle /\ late = {}
  /\ moved = 0 /\ cutOffs = 0 /\ delays = 0 /\ misreads = 0
  /\ withdrew = FALSE

Quotes(p) == [e1Buy |-> p, e2Sell |-> p, eeBuy |-> p, eeSell |-> p]

(* Free collateral on dYdX; a long position binds margin as a short does.  *)
Abs(x) == IF x < 0 THEN -x ELSE x
E1Free == bal.e1Total - (Abs(bal.short) * price) \div 10

(* dYdX refuses an order that makes the position larger, on either side,   *)
(* without the margin for it.                                              *)
Margin(short) ==
  LET more == Abs(short) - Abs(bal.short)
  IN more <= 0 \/ more * price <= 10 * E1Free

(* ATOM held, against which the short position is to stand. *)
Held(b) == b.eeSec + b.staked + b.unstaked

-----------------------------------------------------------------------------
(* process_state: detect, then act. *)

DecideFrom(reading) ==
  /\ plan = Idle
  /\ \E sample \in Samples : plan' = Detect(reading, Quotes(price), sample)
  /\ withdrew' = (plan'.op = "e1_to_wallet" \/ (withdrew /\ plan'.op # "monitoring"))
  /\ UNCHANGED <<bal, price, late, moved, cutOffs, delays>>

Decide == DecideFrom(bal) /\ UNCHANGED misreads

Unreadable == misreads < MaxMisreads /\ misreads' = misreads + 1

(* An asset that is missing from an exchange's answer keeps the zero of    *)
(* Default::default(): a position looks closed, an account empty.          *)
Missing(f) == [bal EXCEPT ![f] = 0]

DecideMisread ==
  /\ Unreadable
  /\ \E f \in Fields \ {"wallet"} : bal[f] # 0 /\ DecideFrom(Missing(f))

(* The end of an operation, with these balances. *)
Done(after) ==
  /\ bal' = after
  /\ plan' = Idle
  /\ UNCHANGED <<price, late, counters, withdrew>>

(* An operation that the services carry out when they can, and refuse with *)
(* an error, or the code skips, when not: main starts over.                *)
DoneIf(possible, after) == Done(IF possible THEN after ELSE bal)

Planned(op) == plan.op = op

Monitor == Planned("monitoring") /\ Done(bal)

(* A panic ends the process. *)
Panics ==
  /\ plan' = Panic
  /\ UNCHANGED <<bal, price, late, counters, withdrew>>

(* An answer lacks what the code unwraps: an order book has no orders      *)
(* (helpers.rs 116, 143), the script's output no amounts (208, 213), dYdX  *)
(* no offer for a withdrawal (577-581).  Shipments and staking unwrap none.*)
Unwraps == plan.op \in {"e1_to_wallet", "ee_to_wallet", "wallet_to_e1", "wallet_to_ee"}
                        \cup TradeOps \cup {"idle"}
Crashes == Unwraps /\ Unreadable /\ plan' = Crashed

Crash ==
  /\ Crashes
  /\ UNCHANGED <<bal, price, late, moved, cutOffs, delays, withdrew>>

(* How an operation is broken off: by an error or its timeout, or so. *)
BrokenOff == (plan' = Idle /\ UNCHANGED misreads) \/ Crashes

(* The container is restarted, and the strategy with it. *)
Restart == Down /\ Done(bal)

-----------------------------------------------------------------------------
(* Transfers of USDC and ATOM. *)

Source(op) == CASE op = "e1_to_wallet" -> "e1Total"
                [] op = "ee_to_wallet" -> "eePrim"
                [] op \in {"wallet_to_e1", "wallet_to_ee"} -> "wallet"
                [] op = "ee_to_e2" -> "eeSec"
                [] op \in {"e2_to_ee", "stake"} -> "unstaked"
                [] op = "unstake" -> "staked"

Target(op) == CASE op \in {"e1_to_wallet", "ee_to_wallet"} -> "wallet"
                [] op = "wallet_to_e1" -> "e1Total"
                [] op = "wallet_to_ee" -> "eePrim"
                [] op \in {"ee_to_e2", "unstake"} -> "unstaked"
                [] op = "e2_to_ee" -> "eeSec"
                [] op = "stake" -> "staked"

(* What leaves the source.  do_wallet_to_e1 takes all the wallet holds     *)
(* when that is within 10%, Binance is asked for whole USDC, and           *)
(* stake_unstake_impl raises its argument to one ATOM.                     *)
Sent(op) ==
  CASE op = "wallet_to_e1" ->
         IF 10 * bal.wallet > 11 * plan.amount THEN plan.amount ELSE bal.wallet
    [] op = "ee_to_wallet" -> (plan.amount \div 100) * 100
    [] op \in {"stake", "unstake"} -> Larger(plan.amount, Atom)
    [] OTHER -> plan.amount

Cost(op) == CASE op = "ee_to_e2" -> 1
              [] op = "e2_to_ee" -> 10
              [] op \in {"stake", "unstake"} -> 0
              [] OTHER -> TransferFee

(* internal_do_withdraw with its two early returns. *)
Withdrawable(free) == plan.amount <= free /\ plan.amount >= LeastWithdrawal

Possible(op) ==
  CASE op = "e1_to_wallet" -> Withdrawable(E1Free)
    [] op = "ee_to_wallet" -> Withdrawable(bal.eePrim)
    [] OTHER -> Sent(op) <= bal[Source(op)] /\ Sent(op) > Cost(op)

(* do_wallet_to_e1 has a todo!() for a wallet that holds too little. *)
TooLittle(op) == op = "wallet_to_e1" /\ 10 * bal.wallet < 9 * plan.amount

Paid(op) == [bal EXCEPT ![Source(op)] = @ - Sent(op)]

Transfer(op) ==
  /\ Planned(op)
  /\ IF TooLittle(op) THEN Panics
     ELSE DoneIf(Possible(op),
                 [Paid(op) EXCEPT ![Target(op)] = @ + (Sent(op) - Cost(op))])

(* The operation ends while the money is on its way ... *)
Delay(op) ==
  /\ delays < MaxDelays
  /\ Planned(op) /\ ~TooLittle(op) /\ Possible(op)
  /\ bal' = Paid(op)
  /\ late' = late \cup
       {[id |-> delays, to |-> Target(op), amount |-> Sent(op) - Cost(op)]}
  /\ delays' = delays + 1
  /\ BrokenOff
  /\ UNCHANGED <<price, moved, cutOffs, withdrew>>

(* ... which comes in at some later time. *)
Arrive ==
  /\ \E t \in late :
       /\ bal' = [bal EXCEPT ![t.to] = @ + t.amount]
       /\ late' = late \ {t}
  /\ withdrew' = FALSE
  /\ UNCHANGED <<price, plan, counters>>

-----------------------------------------------------------------------------
(* Orders: change_tokens_ex with the sizes round_for_exchange leaves. *)

E1Size(x) == (x \div 10) * 10      \* tenths of an ATOM on dYdX

Shorten(b, size)  == [b EXCEPT !.short = @ - E1Size(size)]
Lengthen(b, size) == [b EXCEPT !.short = @ + E1Size(size)]
Sell(b, size) == [b EXCEPT !.eeSec = @ - size, !.eePrim = @ + size * price]
Buy(b, size)  == [b EXCEPT !.eeSec = @ + size, !.eePrim = @ - size * price]

OnE1(b, after) == IF Margin(after.short) THEN after ELSE b

(* do_change_short *)
ReduceShort ==
  Planned("reduce_short") /\ Done(OnE1(bal, Shorten(bal, plan.amount)))

EnlargeShort ==
  Planned("enlarge_short") /\ Done(OnE1(bal, Lengthen(bal, plan.amount)))

(* do_reduce_secondary_soft: Binance sells, when it and Kraken hold about  *)
(* what is short or more, and dYdX buys back at least 1.1 ATOM.            *)
SizeToReduce == Larger(plan.amount \div price, Atom)

(* Mutant: not limited to what Binance holds. *)
ReduceOnEeUnlimited ==
  IF Held(bal) - bal.short < -Atom \/ bal.eeSec < Atom THEN 0 ELSE SizeToReduce

ReduceOnEe ==
  LET size == Smaller(bal.eeSec, SizeToReduce)
  IN IF Held(bal) - bal.short < -Atom \/ bal.eeSec < Atom THEN 0
     ELSE IF bal.eeSec - size < Atom THEN bal.eeSec ELSE size

ReduceOnE1 ==
  Larger(IF bal.short - SizeToReduce < Atom THEN bal.short ELSE SizeToReduce,
         (11 * Atom) \div 10)

(* assert!(amount > ZERO_P) *)
ReduceBoth ==
  /\ Planned("reduce_both")
  /\ IF plan.amount > 0
     THEN LET sold == Sell(bal, ReduceOnEe)
          IN Done(OnE1(sold, Shorten(sold, ReduceOnE1)))
     ELSE Panics

(* do_enlarge_secondary_soft: dYdX sells short, unless it has sold enough, *)
(* then Binance buys with the limit price 1% above the market's.           *)
AmountToEnlarge == Larger(plan.amount, (1005 * price) \div 10)
AmountOnE1 == Smaller(AmountToEnlarge, 5 * E1Free)

EnlargeOnE1 ==
  IF (bal.short - Held(bal)) * price <= AmountOnE1
  THEN Larger(AmountOnE1 \div price, Atom) ELSE 0

EnlargeOnEe == (AmountToEnlarge * 100) \div (101 * price)

EnlargeBoth ==
  /\ Planned("enlarge_both")
  /\ LET hedged == Lengthen(bal, EnlargeOnE1)
     IN Done(IF ~Margin(hedged.short) THEN bal
             ELSE IF 101 * price * EnlargeOnEe > 100 * bal.eePrim THEN hedged
             ELSE Buy(hedged, EnlargeOnEe))

(* The first of the two orders fills and the second ends in an error, in   *)
(* the timeout or in a panic: main starts over.                            *)
CutOff ==
  /\ cutOffs < MaxCutOffs
  /\ \/ Planned("reduce_both") /\ plan.amount > 0 /\ bal' = Sell(bal, ReduceOnEe)
     \/ /\ Planned("enlarge_both")
        /\ bal' = Lengthen(bal, EnlargeOnE1) /\ Margin(bal'.short)
  /\ cutOffs' = cutOffs + 1
  /\ BrokenOff
  /\ UNCHANGED <<price, late, moved, delays, withdrew>>

-----------------------------------------------------------------------------
(* The market. Price moves that would liquidate dYdX are left out. *)
PriceMove ==
  /\ moved < MaxPriceMoves
  /\ \E p \in Prices \ {price} :
       /\ bal' = [bal EXCEPT !.e1Total = @ - bal.short * (p - price)]
       /\ 20 * bal'.e1Total >= Abs(bal.short) * p
       /\ price' = p
  /\ moved' = moved + 1
  /\ withdrew' = FALSE
  /\ UNCHANGED <<plan, late, cutOffs, delays, misreads>>

Trade == ReduceShort \/ EnlargeShort \/ ReduceBoth \/ EnlargeBoth

(* What the process does next. *)
Work ==
  \/ Decide \/ Monitor \/ Trade \/ Restart
  \/ \E op \in TransferOps : Transfer(op)

Next ==
  \/ Work
  \/ DecideMisread \/ Crash \/ CutOff \/ Arrive \/ PriceMove
  \/ \E op \in TransferOps : Delay(op)

Spec == Init /\ [][Next]_vars

FairSpec == Spec /\ WF_vars(Work) /\ WF_vars(Arrive)

-----------------------------------------------------------------------------
(* Properties. *)

(* The strategy comes to rest: it has just found nothing to do, in what    *)
(* there is.                                                               *)
ComesToRest == plan = Idle /\ plan'.op = "monitoring" /\ misreads' = misreads

(* No todo!(), no failed assertion and no division by zero is reached,     *)
(* whatever happens between a decision and its operation: above all, the   *)
(* amounts decided on leave do_wallet_to_e1 its ten percent.  (Panics by   *)
(* an unwrap of an answer are the services' doing, see Crash.)             *)
NoPanic == misreads = 0 => plan.op # "panic"

(* Orders are not split, or into positive parts. *)
SamplesArePositive == MaxOrder = 0 \/ \A sample \in Samples : sample > 0

(* If so, a todo!(), an assertion or a division ends the process at a      *)
(* decision only, and only because Kraken looks empty, or holds USDC where *)
(* the strategy expects none: neither the todo!() of do_wallet_to_e1 nor   *)
(* an assertion about amounts is reached, however old the decision is when *)
(* its operation starts, and whatever was misread or broken off before.    *)
(* Nothing is said of answers that lack what the code unwraps (Crash):     *)
(* these end the process wherever it asks.                                 *)
KrakenUnfit(b) ==
  \/ E2Total(b, Quotes(price)) = 0
  \/ Larger(b.e2Usdc, b.e2Usd) >= MinLimit(Quotes(price))

PanicsAreAboutKraken ==
  [][SamplesArePositive /\ plan # Panic /\ plan' = Panic =>
       /\ plan = Idle
       /\ KrakenUnfit(bal) \/ \E f \in Fields : KrakenUnfit(Missing(f))]_vars

(* The assertion at the head of do_reduce_secondary_soft.                  *)
OrdersArePositive == Planned("reduce_both") => plan.amount > 0

(* Funds that dYdX has been told to give up for Kraken are not sent back   *)
(* to it at the same price (strategy.rs 569-579).                          *)
NoThrowBack == withdrew /\ misreads = 0 => ~Planned("wallet_to_e1")

(* Nothing that dYdX buys back to reduce its short position makes it long. *)
NeverLong == bal.short >= 0

(* Accounts for which this holds: worth thirty times the least amount that *)
(* is moved, with no USDC left on Kraken, and with more than that amount   *)
(* between the share aimed at and the limit of it.  When they hold less,   *)
(* amounts raised to a minimum may be more than there is.                  *)
Ample ==
  LET q == Quotes(price)
  IN /\ 30 * MinLimit(q) <= Total(bal, q)
     /\ ExpectedE2Low(bal, q) + MinLimit(q) < (100 * Total(bal, q)) \div (100 + InitRatio)
     /\ Larger(bal.e2Usdc, bal.e2Usd) < MinLimit(q)

(* The position on dYdX is not worth more than all that is elsewhere. *)
Covered == Abs(bal.short) * price <= Total(bal, Quotes(price)) - bal.e1Total
                                       + MinLimit(Quotes(price))

(* A ratio between those for which the commissions and the insurance exceed *)
(* what dYdX can give up, and those for which they exceed Kraken's stake.   *)
Moderate == InitRatio \in 20 .. 60

(* What is there to be spent on an operation. *)
Within(op) ==
  /\ ~TooLittle(op)
  /\ Sent(op) <= IF op = "e1_to_wallet" THEN E1Free ELSE bal[Source(op)]

(* Each amount is there to be spent when it is decided on, so that no      *)
(* operation starts that its service must refuse, over and over: minima,   *)
(* commissions and insurances are added after the limits were compared.    *)
MovesAreCovered ==
  [][Decide /\ Moderate /\ Ample /\ Covered =>
       (\A op \in TransferOps : Planned(op) => Within(op))']_vars

(* When the strategy comes to rest, the short position matches the ATOM    *)
(* held to one ATOM, the trace on Kraken's spot account taken into account *)
(* (the comment at strategy.rs 827).                                       *)
HedgedAtRest ==
  [][ComesToRest => Abs(bal.short - Held(bal)) <= Atom]_vars

(* It matches to three ATOM: to one ATOM and twice that trace, which is    *)
(* less than one ATOM.                                                     *)
NearlyHedgedAtRest ==
  [][ComesToRest => Abs(bal.short - Held(bal)) < 3 * Atom]_vars

(* When the strategy comes to rest, the funds left between dYdX and Kraken *)
(* are not worth moving.  Each of the three places for them has a limit of *)
(* its own, and all three may be just below it; a hundredth more makes up  *)
(* for the commissions taken off before they are compared.                 *)
LittleIsIdleAtRest ==
  [][ComesToRest =>
       100 * EwTotal(bal, Quotes(price)) <= 301 * MinLimit(Quotes(price))]_vars

(* Once the price stands still and nothing fails, the strategy comes to    *)
(* rest, and stays there.                                                  *)
Settles == <>[](Planned("monitoring") \/ plan = Idle)

(* It does so, and the hedge is whole again, also after it has acted on a  *)
(* reading in which something was missing.                                 *)
Recovers ==
  <>[](/\ Planned("monitoring") \/ plan = Idle
       /\ Abs(bal.short - Held(bal)) < 3 * Atom)
=============================================================================
