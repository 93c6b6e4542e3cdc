# Verification of hedged_staking

`hedged_staking` keeps a hedged position: ATOM staked on Kraken (E2), the same
amount sold short on dYdX (E1), and the ratio of the two accounts within limits
while the price moves.  Funds travel between them through a wallet on Ethereum
and through Binance (EE), where ATOM and USDC are exchanged.  One process does
all this in a loop: read all balances, decide on one operation, carry it out,
start over.  Nothing is remembered between two rounds but what the balances
show, and nothing is persisted.

Paths below are relative to the repository as it lies in `src/`.

## Inventory

| Part | Where | State and operations | Hard behaviour | What makes it correct |
|---|---|---|---|---|
| Transfer operations | `src/helpers.rs` 426-720 | local readings of balances; withdraw, deposit, ship ATOM, stake | the arrival of money is deduced from balances; answers get lost, transfers outlast the deadline, other events move the same balances | no success before the money is in; no arrival missed; expenses right and never negative; the loop always goes on |
| Detection | `src/strategy.rs` 402-849 | none (a function of balances and prices) | dozens of thresholds and tolerances that must fit together | every decided amount can be spent; no panic; the repeated decisions converge |
| Main loop, actions | `src/strategy.rs` 83-354, `src/main.rs` | the context, made anew after every error | balances move between decision and action; two orders of which one fails; panics | hedge restored after a partial failure; rest is reached |
| Orders | `src/helpers.rs` 106-230, `src/strategy.rs` 154-223, 335-354 | calls still to make, the id of the polled order; the orders in the books | unlimited retries; orders that outlive their run; fills, cancellations and price moves while it polls | one order per call; never below the exchange's minimum nor above the amount; the hedge heals |
| Order sizes, rounding | `src/helpers.rs` 66-104, 723-752 | random samples | unbounded distribution, minimum orders | positive amounts, no overshoot |
| Balance cache, actions by name | `src/helpers.rs` 259-381, `src/strategy.rs` 226-354, 856-875 | one cached record of all balances, zero in a new process | partial refreshes, assets missing from an answer | default amounts are what there is; a misreading is undone |
| Wallet script | `src/helpers.rs` 233-257, `misc/eth-operations.py` | none of its own; nonces and transactions in the chain | fails after sending, outlives its caller, blocks the thread | no call pays twice; success means paid; it ends |
| Metrics | `src/monitoring.rs` | gauges and counters | counters must not be decreased | the expense counters equal the fees |
| Notifications, configuration, constants, command line | `src/notifications.rs`, `config.rs`, `consts.rs`, `cli.rs` | configuration | none | main's assertions about ratios |
| Backtest | `run_model.py` | simulated accounts | none (sequential) | agrees with the strategy |
| Build and deployment | `build.rs`, `ci/`, Dockerfiles | none | none | - |

Parts interact as follows.  `main` makes a context and calls `strategy()`;
that runs `process_state` under `operations_timeout`; that calls
`detect_current_state`, which refreshes the cache and returns a
`StrategyState`, and the `do_*` action for it, which calls the operations of
`helpers.rs`.  They talk to four services and to the script by request and
answer.  The script is a process of its own, which a kill of the program may
leave running.  `only <action>` on the command line runs one `do_*` action in a
new process with an empty cache and without a timeout.  Any error returns through all of it to `main`, which pauses for a
minute and starts over; a panic ends the process.  `PROJECT.json` lists under
`hazards` what in this is hard to test, line by line.

## Modules

| Module | Models | Kind |
|---|---|---|
| `Transfers` | the transfer operations, one step per stretch between two `await`s | state machine |
| `Custody` | what moving money promises, without how | abstract state machine |
| `ByName` | actions by name and the cache they read; `Transfers` from there on | state machine |
| `Decision` | `detect_current_state` and the order sizes | operators |
| `Rebalance` | the loop: decide with `Decision`, carry out a `do_*` action as one step | state machine |
| `Orders` | `change_tokens_ex` between two `await`s and the actions made of it, with `Decision`'s `KeepHedge` | state machine |
| `WalletScript` | one deposit from the reading of the balances to the chain | state machine |
| `Payments` | what the deposits from the wallet promise, without how | abstract state machine |
| `Transfers_proofs`, `ByName_proofs`, `Orders_proofs`, `Hedge_proofs`, `WalletScript_proofs` | theorems about these | proofs |
| `Rebalance_proofs`, `Cover_proofs`, `Direction_proofs` | theorems about decisions and their repetition: what is decided, that it can be paid, and that it is not undone; each extends the one before | proofs |
| `MCTransfers`, `MCByName`, `MCRebalance`, `MCOrders`, `MCWalletScript` | instances for TLC | constants |

### Transfers

`pc`, `kind`, `amount`, `src`, `base` and `seen` are the running operation and
its local variables: `src` is `free_coins`/`wallet_initial_prim_amount`/
`init_ee_coins`, `base` the destination before, `seen` the reading that ended
the polling loop.  `bal`, `flying` and `launched` are the services; `expense`
the counters of `monitoring.rs`.  `own` names the transfer the run asked for;
`landed` and `disturbed` are history.  Each operation goes through a subset of
check, baseline, request, wait and settle *in the order the code has*: shipments
read their baseline after their request, the others before it.  `Abort` is an
error at an `await` or the deadline, at any step; `AnswerLost` is a request that
is carried out and answered with an error; both leave the transfer in flight
while later runs read the same balances.  Amounts are hundredths of a coin.  What
an operation is called with is left open, so that everything shown here holds
whatever detection decides.

`UnwrapPanic` is an answer without what the code unwraps; it ends the process.

`Custody` is what all this is for: an operation has at most one transfer made,
however it ends; money leaves an account only for a transfer and comes in only
from one, once; an operation that has asked for a transfer reports success only when
that transfer is in, unless something else has moved a balance that is compared.
Success without asking (`Skip`) is possible too, but only when less than the least
amount was to be moved: that is the early `Ok(())` of `internal_do_withdraw`
(`helpers.rs` 631-634).  `Transfers` implements it with `transit` as `flying`, `held` as
`bal`, and a `stage` that is `open` until the request, `asked` while the run polls,
`done` when it has seen the arrival, `failed` after an error and `idle` otherwise.

### ByName

`StartByName` is an action without a value: the amount is the entry of the
cache that the action reads (`EntryRead`) after it has refreshed one exchange
(`Refreshed`); entries of the others are still zero.  For three actions the two
do not match.  Everything after that is `Transfers`, so the module EXTENDS it and
adds only the other way to start, without the wallet check that
`do_wallet_to_e1` applies to given amounts.  The default amounts of the actions
that place orders are not modelled.

### Decision and Rebalance

`Decision` is `detect_current_state` branch by branch; its operators take one
record of balances, one of quotes, and a sample for the size of an order.  USDC
are cents and ATOM hundredths; prices are whole USDC and divisions round down,
which moves amounts by less than a cent or a hundredth of an ATOM and so can
only shift a threshold by that much.  A division by zero or a failed assertion
is the decision `panic`.

`Rebalance` repeats it.  `plan` is the detected `StrategyState`, kept between
the decision and the action because balances and prices can move in between.
Each action is one step with its code's minima and limits.  `CutOff` lets the
second order of an operation fail after the first has filled; `Delay` lets a
transfer outlast `operations_timeout`, after which its money is invisible to
detection until `Arrive`; `PriceMove` may come at any moment.  External and
simplified: dYdX's equity follows the price of the position and binds a
tenth of it as margin, whether it is short or long, and an order that makes it larger on
either side is refused without that (`Margin`); a transfer of USDC costs `TransferFee`, orders fill at
the price; all exchanges quote one price, equal for buying and selling, and
price moves beyond dYdX's maintenance margin are left out.  `e2Usdc` and
`e2Usd` stay 0 as no operation fills them.

`DecideMisread` is a detection in which one asset is missing from an answer: the
entry keeps the zero of `Default::default()` (`helpers.rs` 259-334) and the
decision is made on it; `Missing` lists the entries an exchange can leave out.
A panic ends the process and `Restart` is its container starting it again, with
nothing remembered.  There are two kinds.  `panic` is of the code's own making: a
`todo!()`, a failed assertion, a division by zero.  `Crash` is an answer without what
the code unwraps: no order in a book (`helpers.rs` 116, 117, 143), no amount in the
script's output (208, 213), no offer for a withdrawal (577-581).  It may come at any
decision, in any operation that unwraps, and between the two halves of a `CutOff` or after the
request of a `Delay`.  `MaxMisreads` bounds both this and the misreadings: it counts
answers in which something is missing.

### Orders

`orders` are the books: an order is good till canceled, nothing in the program
cancels one, and the only one it knows is `own`, which it polls.  (Binance is asked
to cancel when it no longer hears from the program, `main.rs` 47; `Cancel` may be
that.  dYdX is not.)  `task` is the
list of calls of `change_tokens_ex` that an action still has to make, each with
its exchange, side, coin and amount; `quote` is the price its limit is computed
from, read anew at each try.  `plan` is the detected state; balances and prices
are read again when it becomes orders (`SizeOrders`, in one step for both).
`Insufficient` and `Retry` are the inner loop, `Poll` the outer one.  A run ends
by an error (`Abort`, `Refuse`, `AnswerLost`) or the deadline (`Expire`); what is
in the books stays and fills when it may.  Binance reserves what an order may
spend, dYdX asks for margin; both fill at the market price once the limit allows
it, in one or two parts.  `accepted` and `started` are history:
orders accepted in this call, and what was held, unhedged and free when an action
of two orders began.  Of actions by
name, which have no `operations_timeout`, nothing is said here.

`Rebalance` takes each action for a single step and asks where repeated
decisions lead; `Orders` takes the steps apart and asks what a run leaves behind.
They share `Decision`.

### WalletScript

`scripts` are the running scripts, each with the transaction it is about and
its step: read the nonce, send, wait for the receipt.  `mine` is the caller's own;
others are what kills have left.  The caller's part is detection, reduced to the wallet
and what dYdX lacks (`Need`), `do_wallet_to_e1`'s second reading of the wallet and
`internal_do_deposit`.  Detection pays dYdX what it lacks with a tenth added twice (`strategy.rs` 540
and 625) as far as the wallet has it, or with a tenth added once (732), which may be more
than the wallet has; `do_wallet_to_e1` then takes the whole wallet if that is
within another tenth.  To Binance it sends the whole wallet (680).  Which of the two accounts is
to be paid depends on the price and is left open, except that dYdX is paid only if it lacks
something.

The script has two branches.  For Binance (`eth-operations.py` 126-154) it takes the number
of the wallet's *mined* transactions as its nonce, and an error of the node is an error of the
script.  For dYdX (80-113) the nonce is the business of the library: dydx3's
`deposit_to_exchange` (105) starts with the same number, and when the node
refuses the transaction because that nonce is used up, or because another
transaction with it waits and is not to be replaced, tries again with the next
nonce (`NextNonce`).  This is external and taken from what the library is known to do;
its own estimate of the gas, which could refuse a deposit the wallet cannot pay, is
left out.  Both branches wait 600 seconds for a receipt and look at its status.

`pool` and `chain` are Ethereum's: a transaction is its content, one with a used nonce is
refused, one with the same nonce replaces another only if it offers more for gas, and a
transfer of more than there is gets mined and reverted.  A request may fail before or after
it has done its work, a node may forget what waits.  `hasty` is history: a payment to
dYdX was decided on while an earlier one was still in a script's hands or in
the pool.

`Payments` says what is left of this when nonces, receipts and time limits are
taken away: a payment is in somebody's hands (`carried`), then before the chain
(`before`), in a place of its own that it may have taken from another, then made; money
leaves the wallet for payments only, each asked for and made at most once for each time it
was, and success is reported after a payment like the
one wanted, made since it was decided on.  `WalletScript` implements it: a payment is
carried by the script that has yet to send it, `before` is the pool with the nonces as places,
`since` the payments in the chain with nonces from the caller's reading on, and a kill leaves a
payment with its hand.  Like `Custody` for `Transfers` it promises no progress;
`CallEnds` and `NeedsMet` do.

This justifies the single `DepositRequest` step of `Transfers`: a call of the
script ends (`CallEnds`), reports success only for its own payment
(`OkMeansPaid`), and has one payment made or none, also when it fails (`KeepsPayments`).

## Runs

| Run | Shows |
|---|---|
| `transfers` | types; `OkMeansCredited`: no success before the own money is in; `NoLostArrival`: an arrival satisfies the loop; `CountersOnlyGrow`; `ExpenseIsTheFee`; `KeepsCustody`: the operations implement `Custody`, so one that has asked succeeds only with its transfer in, and success without asking is about too little only; `AsksForAll`: an action by name that reads what it has refreshed asks for all there is; `LoopComesRound`: with the deadline the loop goes on whatever the services do.  All of it with operations started by the strategy and by name |
| `transfers_patient` | `PatientReturn`: operations end without the deadline when less than a tenth is kept back |
| `rebalance_balanced` | `NoPanic`, `NoThrowBack`, `MovesAreCovered` (each amount is there when it is decided on) around a balanced account under price moves, a cut off and a delay, as long as all is read right; `PanicsAreAboutKraken`: no `todo!()`, assertion or division ends the process but at a decision about an empty or odd reading of Kraken (crashes by unwrapping an answer are not meant, and may come anywhere); `Recovers`: also after one answer with an asset missing, or one that crashed the process inside an operation, it comes to rest, hedged |
| `rebalance_sound` | `Settles`, `NearlyHedgedAtRest`, `LittleIsIdleAtRest` from 2,007 distributions of the funds, with orders of random size and a cut off: hedged to three ATOM, and with no more than 3.01 times the transfer limit left underway; `MovesAreCovered` on the way |
| `orders` | types; `OneOrderPerCall`; `FilledBeforeReturn`; `LargeEnough`; `WithinAmount`; `HedgedFirst`: nothing is bought before its hedge is sold, where dYdX has the collateral for it; `EvenReduction`: a reduction leaves a hedge as it was, to one ATOM and a tenth; `OrdersComeRound`: the loop goes on whatever becomes of an order; `HedgeHeals`: whatever an order left behind does, the short position comes to match for good |
| `wallet` | types; `BinanceIsNext`: a payment to Binance waits behind nothing; `OkMeansPaid`; `PaidOnce`: dYdX is paid no more than it lacks with the tolerances, as long as no deposit is decided on while one is under way; `KeepsPayments`: the script implements `Payments`; `CallEnds`: a call of the script ends whatever the chain does; `NeedsMet`: payments get through if what can be mined is mined |
| `rebalance_wallet`, `_trace`, `_long`, `_sample`, `orders_long`, `byname_work` | six disagreements of the code with its comments, assertions and documentation (below) |

**Bounds.** `transfers`: two accepted transfers suffice for every confusion
of one transfer with another, one outside event for every disturbance.  The
amounts lie below Kraken's commission (5), below the minimum withdrawal and below
one coin (900, for which ten whole coins are missing and the stake is not), and
above both with a fraction that Binance cuts off (2050), or, by name, all there
is; the fees are none, less than a tenth, and more than a tenth of most.
`transfers_patient` leaves out the fee above a tenth, and promises nothing to an
operation that a price move or a reward disturbs: the code does not claim to
survive these without its deadline.  `rebalance_balanced`: one account of 5,000 USDC, hedged, a fifth of it on dYdX; two price moves in 9..12 around 10
USDC, enough to leave the range 20..30 of the ratio on either side and to turn
back while funds are underway; one cut off and one delay; one answer in which something is missing, a misreading at any
detection or a crash at any point, so also after a price move and while money is late.  `rebalance_sound`
has no price moves: each of seven accounts is empty, holds a trace, or is full,
with totals of 2,000 USDC and more; orders are split above 200 USDC, with
samples of 150 and 250.

`orders`: one fault, which is an early deadline, a lost answer, a cancellation
or a wrong refusal; one price move to either side, enough to put an order beyond
the market and to change what USDC buy; one reduction asked for by the rest of
detection, besides any number of hedging orders and purchases.  Four orders per
account (`MaxOpen`) are one left behind by the fault, one by a
deadline after the price move, the own one, and room; real accounts may have
twenty and more.  The openings (`MCOrders`) are hedged and not, with remainders
below one ATOM on either exchange, with next to nothing short, and with USDC for
exactly one ATOM.  Collateral on dYdX is ample in all but that one, where some
orders lack margin and are refused, and one that is strained: it has the margin for a
hedge, and not the fifth of its amount.  Reductions
are asked for in the amounts 11.90 and 30 USDC (`Wishes`), the first of which leaves just
less than one ATOM of 2.18, and for all that Binance holds.  `wallet`: two recipients,
so that one payment can be mistaken for another; dYdX lacks 10, and the wallet holds 13,
which a payment of 12.1 takes as a whole, or 24, which is two payments; two nonces for deposits
(`MaxPending`), so that one can wait behind another; two faults, enough for a payment to
be sent, reported as an error and be forgotten as well; one kill, hence one
orphan.  The theorems have none of these bounds.

**Fairness.** `FairSpec` of `Rebalance` asks that the process works (`Work`: the
loop in `main` never stops by itself) and that delayed transfers arrive;
nothing is asked of the market or of failures, which their bounds end.
`PatientSpec` asks that the program takes its next step when its answer is there
and that each accepted transfer is credited.  `DeadlineSpec` (`ByName`) asks
instead that a run of the strategy which does not end is aborted: that is
tokio's `timeout` around `process_state`; actions by name have no such deadline,
and `LoopComesRound` says nothing of them.  `FairSpec` of `Orders` asks that the
program takes its next step, that a wait in vain ends (`Expire`:
`operations_timeout`) and that the exchanges fill what the market allows.
`ScriptSpec` asks that the caller and every script go on, where waiting for a
receipt ends after 600 seconds (`Expire`, `eth-operations.py`); that what can be
mined is mined is a premise of `NeedsMet` alone.  All are weak fairness; none is
asked of `Start`, since the strategy may rest forever.

**Deadlock** is checked in all runs: monitoring keeps the loop going.

**Limits found while choosing bounds.** These are not runs; they say where the
passing properties end.
`MovesAreCovered` has three premises.  `Ample`: the account is worth thirty times the
least amount that is moved (1,500 USDC, more at high prices), that amount is less than what lies
between the share aimed at and its limit, and no USDC are left on Kraken.  Without it minima
exceed what there is: accounts of about 50 USDC in all can drain Kraken entirely and panic.
`Moderate`: the ratio aimed at is between 20 and 60 percent.  Below, the commissions and the
insurance on a withdrawal may exceed what dYdX has free; above, those on what is to
be unstaked may exceed Kraken's stake.  `Covered`: the position on dYdX is not worth more than all
that is elsewhere; it fails while a large deposit is late, and `LowerRatio` then
asks dYdX for more than its free collateral and is refused until the deposit arrives.  What
the property does not say is that the service accepts the amount: after the
ratio has moved a little, `FillE1` may ask Binance for less than it pays out, and
`RaiseRatio` may send nothing, until the ratio moves on.
`NoThrowBack` fails when the overshoot of a large withdrawal leaves dYdX below its
range.  In five steps, from a balanced account of 5,000 USDC: the price falls from 10 to
6, dYdX has 2,600 USDC and gives up 1,785 (the excess, three commissions and a tenth),
neither direction then explains the balances, and the next decision sends 225 USDC
back, at the same price, before anything is bought.  A fall to 7 does not do it.  The comment
at `strategy.rs` 569 attributes such transfers to earlier versions, and the one at 576 excuses
them after a price jump; here there is none between the two decisions.  It also fails
from a balanced account of 1,000 USDC, since
`LowerRatio` ignores what is underway and the wallet's excess is above the minimum to move.
The one misreading of `Recovers` is the limit as well; nothing like the consistency
check of the README's line 108 exists to notice it.  With two in a row the short
position is trebled, the margin is gone, and detection asks dYdX over and over
for a withdrawal that it refuses.
With each further abort, the gap that `HedgeHeals` closes can double before it
does: each run orders what is missing once more, and only margin ends that.
`EvenReduction` asks for as much ATOM on Binance as is to be sold, at least one, and no
less held than short but for one ATOM: otherwise `do_reduce_secondary_soft` sells less than it buys back, or
skips Binance, and widens the gap for detection to close.  `HedgeHeals` promises
nothing while dYdX lacks the margin for what is missing, or for the least order
of one ATOM: an enlargement is then refused again and again.
`HedgedFirst` asks that five times the free collateral on dYdX cover the amount:
`do_enlarge_secondary_soft` (`strategy.rs` 212) cuts down by it what dYdX sells
short, and not what Binance buys.
`LittleIsIdleAtRest` holds with 3.01 limits and not with three: each of the wallet,
Binance's USDC and Binance's ATOM may stay just below one, and the commissions that
are taken off before the comparison make up the hundredth.
`PaidOnce` fails without `~hasty`.  A deposit to dYdX that outlasts the 600 seconds of
its receipt, or whose script reports an error or is killed after sending, is
not remembered.  The next detection still finds dYdX lacking and decides on another one;
its script is refused the nonce, dydx3 sends it with the next one, and both are made, if the
wallet holds enough for two.  A transfer to Binance cannot be doubled in this way: its script
takes the nonce of the one that waits (`BinanceIsNext`) and is refused.  Of Binance `PaidOnce`
says nothing, since it is sent all there is.

## Disagreements found

1. `rebalance_wallet`: the README's initial state, all tokens in the wallet, makes
   detection divide by zero (`strategy.rs` 416).
2. `rebalance_trace`: unstaked ATOM is subtracted where it should be added
   (`strategy.rs` 830; the comment at 827 wants it taken into account, and line
   168 adds it).
3. `rebalance_sample`: an order size sampled from a normal distribution may be
   negative (`helpers.rs` 730) and fails the assertion at `strategy.rs` 162.
4. `rebalance_long`: closing at least 1.1 ATOM makes dYdX long when less is
   short (`strategy.rs` 185; half an ATOM is short in the opening and 20 USDC on dYdX are margin
   enough for what becomes a long position; the author's question at 195).
5. `orders_long`: an order that outlives its run and its replacement both fill
   and dYdX ends long (`helpers.rs` 188), although no more than the excess was asked for.
   This is another answer to the question at `strategy.rs` 195.
6. `byname_work`: without a value `do_ee_to_wallet` (`strategy.rs` 285) reads an
   entry it has not refreshed, moves nothing and reports success; line 101 of the
   README says that actions can be run individually.  `do_e2_to_ee` (308) and
   `do_unstake` (332) have the same fault.

Not modelled: without a value `do_change_short` (344) takes the excess of the short
position for the amount to enlarge it by, so it moves away from what is
staked.  The action that the README's lines 75 and 101 name,
`do_wallet_transfer_to_dydx`, does not exist.

## Proofs

`Transfers_proofs` proves, for all amounts, fees, openings, shifts and bounds
(the ASSUMEs of `Transfers`: they are natural numbers, nothing more):

- `Typing`: `TypeOK` is an invariant, by one step per action.
- `Invariance`: so is `IInv`, the conjunction of `TypeOK`, `Ids` (ids in flight are
  distinct and not above `launched`), `Ownership` (a running operation's own
  transfer, if in flight, goes to its destination with the requested amount)
  and `Growth` (until something disturbs it, the destination has grown since
  the baseline by exactly `landed`).
- `Credited`, `NotLost`: `OkMeansCredited` and `NoLostArrival` follow.  Neither is
  inductive: that the loop's condition means arrival rests on `Growth`, which
  rests on ids being fresh and on who owns which transfer.
- `Growing`: no step lowers a counter.
- `Implementation`: `Transfers` implements `Custody`.  Each action maps to one
  of `Custody` or to a stutter; that an operation which has asked succeeds after the
  arrival is `OkMeansCredited`, hence `IInv` again, that ids are new is `Ids`, and the early
  return of a withdrawal is `Skip`, whose guard is the code's minimum.
- `ExactExpense`: `ExpenseIsTheFee` needs the books of both ends, `Accounts`: what has
  left the source since `src` is what was requested, the reading that ended the
  loop is the baseline and what has landed, and no more lands than was requested.
  For shipments, whose late baseline may include the own transfer, it also needs
  that the loop's condition then stays false.

`ByName_proofs` adds `StartByName` to this: it keeps `IInv` and maps to `Begin`
or a stutter, whatever the cache holds, hence `ByNameImplementation`,
`ByNameCredited` (a run that has asked leaves its polling loop only with its money in) and
`ByNameExpense`.  None of them excludes the success without a transfer that `byname_work`
shows: it is `Skip`, with an amount of zero.  `ByNameAsksForAll` is about the amount found there:
for an action that reads what it has refreshed it is all that its source held,
and the source stays so until the request or a disturbance (`Asked`).

`Orders_proofs`, for all balances, prices, samples, wishes and bounds:

- `Invariance`: `Inv`, which is `TypeOK` and `Tracked`: ids are not shared, a
  filled order has nothing left, and the order that is polled exists, is the only
  one accepted in this call, and is filled when the call ends.
  `Typing`, `AtMostOneOrder` and `EndsWellFilled` follow.
- `NoSmallOrder`: that dYdX gets no order below one ATOM needs more: every
  call that an action can put in `task` asks for at least one, by the minima of
  `KeepHedge` and of the two actions, and rounding down to a tenth keeps it.
- `NeverOverspent`: an order for USDC costs no more than they are, by the
  rounding in `Size`; the polled order is the one its call asked for.

`Hedge_proofs` is about the actions of two orders.  While all is quiet (no fault,
no price move), the books are empty or hold the one order that is polled, made
for the current call at the current price (`Alone`); it is marketable, so no deadline
comes, and every step is one of six kinds (`QuietStep`).  What remains is a ledger of
`Net`, the ATOM held beyond what is short:

- `HedgeComesFirst`: in an enlargement (`Enlarging`), `Net` falls by what dYdX sells,
  and afterwards `Net` and what Binance may still buy stay within the tenth.  That
  Binance buys no more than dYdX sells is arithmetic about two divisions by different
  prices (`EnlargementSizes`); if dYdX is left out, enough is short already.
- `ReductionStaysEven`: in a reduction (`Reducing`), `Net` is what it was less what
  Binance sells and more what dYdX has bought back; that the two amounts differ by
  no more than one ATOM and a tenth beyond what was uneven before is
  `ReductionIsEven`, over the limits and remainders of both exchanges.

The premises of both are those of the properties, about the moment when the action
begins.

`Rebalance_proofs`, for all ratios, prices, openings, samples and bounds, where a
transfer costs no more than the least withdrawal (`FeeAssumption`):

- `Invariance` and `Typing`: no account is ever overdrawn.  `Inv` adds to `TypeOK`
  only that the operation about to start can be carried out (`Ready`).  The work
  is in `Decisions`: whatever a reading holds, right or wrong, each branch of
  `detect_current_state` returns a known operation, asks the wallet for no more
  than it holds and a ninth, and reduces by a positive amount if samples are
  positive (`Sane`), branch by branch.
- `ReductionsArePositive`: where orders are not split, or samples are positive, the
  assertion of `do_reduce_secondary_soft` holds.  `rebalance_sample` is what
  happens otherwise.
- `OwnPanicsAreAboutKraken`: `PanicsAreAboutKraken`, which is about `todo!()`, assertions and
  divisions where samples are positive, and not about `Crash`.  The `todo!()` of `do_wallet_to_e1` is
  unreachable since the wallet holds nine tenths of what is decided for dYdX, and
  does not shrink before the operation starts (`Ready`).
- `HedgedToThreeAtoms` and `LittleStaysUnderway` are about the decision that
  finds nothing to do.  All branches before it were passed, and their thresholds
  leave no gap: `GapsClosed`, `LittleForE1` and `LittleForE2` say so for either
  direction of the funds.

`Cover_proofs`, under the same assumptions, is about the amounts:

- `DecisionsAreCovered`: `MovesAreCovered`, whatever the account went through before.
  Each branch that takes what an account holds is bounded by it (`ToE1Funded`, `ToE2Funded`,
  `FillE1Funded`).  The three that compute an amount instead need the premises.
  `RaiseRatio` unstakes what dYdX lacks with 11.66% added: redistribution has given up before
  it, so that little is underway or more is missing on dYdX than all of it (`GivesUp`), and Kraken
  then holds so much that eight ATOM remain (`StakeSuffices`).  `LowerRatio` withdraws the excess
  with the same added; what is not excess is a multiple of the margin that a
  `Covered` position binds (`MarginSuffices`).  `FromE1` withdraws the excess only when the
  position is small enough for what remains (`ExcessIsFree`).
- `NothingPanics`: if all openings have a stake on Kraken, samples are positive and the
  account stays `Ample`, then `NoPanic`.  The inductive invariant is `Staked`: there is a stake,
  and an unstaking under way leaves some of it.  That a decision does so is
  `StakeSuffices` again; that it is still so when the operation starts, after price moves and
  late arrivals, is because nothing else lessens the stake.  With a stake, no divisor is
  zero.  In `rebalance_balanced`, `Ample` holds in every state without a misreading.

`Direction_proofs` proves `NothingIsThrownBack`: `NoThrowBack` under the premise `Sparing`, that no
withdrawal takes from dYdX more than its excess and the least amount that is
moved.  The invariant `Kept` says that since the withdrawal dYdX lacks less than
that amount, so that no branch sends it funds (`NoneForE1`).  It is inductive because
nothing gains: a transfer costs, an order exchanges at the price, so the total,
and with it the share of dYdX, does not grow (`LackAfter`, `TransferWealth`,
`OrderWealth`), and it holds whichever operation is refused, cut off or
delayed.  The premise is sufficient and not necessary: withdrawals of `FromE1` meet it always, those of
`LowerRatio` as long as what they add is small, and beyond it the guess of the direction
(`IsTransferToE2`) does the work; that part is in the run `rebalance_balanced`,
whose mutant drops it.

`WalletScript_proofs`, for all accounts, needs and bounds, hence any number of
kills and orphans:

- `Invariance`: `Inv`, which is `TypeOK`, `Numbered` (mined nonces lie below the
  number of mined transactions, those in the pool do not, and a payment to Binance there
  has the next one), `Dated` (no script has for Binance a nonce from the future, nor has the
  caller's own one older than the reading)
  and `Paid` (a script that is done has its payment in the chain, and the
  caller's own pays what was decided).
- `NextIsBinance` is in `Numbered`; `SuccessMeansPaid` rests on `Dated` to
  exclude an old payment that looks like the new one.
- `NoSecondPayment`: `PaidOnce` needs `Alone`: while nothing was `hasty`, a payment to
  dYdX is decided on, in one script's hands or in the pool, never in two of these places nor
  twice in one, and what it pays fits what dYdX got into the need and the
  tolerances.  The bound 1.331 is the two tenths of detection (`Decided`) and the one of
  `do_wallet_to_e1`; that a refused nonce is tried again leaves the payment in the same hands.
- `PaymentsKept`: `KeepsPayments`.  Each action maps to one of `Payments` or to a stutter.
  That payments do not share a place is that nonces are these places; that success finds its
  payment in `since` is `OkMeansPaid`, hence `Dated`; that a new decision may start from the old
  `since` or from none is about a chain that has not grown since the last reading, or has.

Only model-checked: the liveness properties, which are beyond the prover
(`PatientReturn`, `LoopComesRound`, `Settles`, `Recovers`,
`OrdersComeRound`, `HedgeHeals`, `CallEnds`, `NeedsMet`).  Every other property of a passing
run is stated by a theorem.  `NoPanic` and `NoThrowBack` have premises there that
the runs do not need: they do not hold for all values of the constants (see the
limits above).  What can be said of panics of the code's own making for all accounts is `OwnPanicsAreAboutKraken`.

## Plan

Done: `Transfers` and `Custody`, `ByName`, `Decision`, `Rebalance`, `Orders`,
`WalletScript` and `Payments`, with the proofs above.  What could follow:

1. `NothingIsThrownBack` from a premise about the account alone, which needs the
   arithmetic of `IsTransferToE2` after a withdrawal that overshoots.
2. `Custody` and `Payments` composed, in place of the single `DepositRequest` of `Transfers`.
3. The backtest's rules, compared with `Decision` over bounded inputs.
4. `Strategy`, which would compose `Transfers` with the decisions step by step, in
   place of `Rebalance`'s single steps.

## Not modelled

Notifications, log and message texts, gauges, the metrics server, configuration
parsing, the build, deployment and the Haskell generator: no behaviour beyond
I/O and formatting.  Of `src/monitoring.rs` only the expense counters are in the models,
of `src/consts.rs` and `src/config.rs` the values.  The actions that only print.
The default amounts of the actions by name that place orders.  Orders on Kraken: the code for them exists and nothing calls it.  The backtest
`run_model.py` is a floating-point simulation with rules of its own.

The four services answer at once in a detection (`try_join`), which is taken as one
reading; what the models have of the difference is money that is late.
Exchanges, Ethereum and the market are external; the models have only what the
code relies on.
