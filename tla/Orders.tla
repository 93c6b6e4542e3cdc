-------------------------------- MODULE Orders --------------------------------
(***************************************************************************)
(* Orders: change_tokens_ex in src/src/helpers.rs await by await, and the  *)
(* actions of src/src/strategy.rs made of it (do_change_short,             *)
(* do_reduce_secondary_soft, do_enlarge_secondary_soft).  An order is good *)
(* till canceled, the program never cancels one, and it knows only the     *)
(* order it is polling: when operations_timeout or an error ends the run,  *)
(* the order stays in the book and may fill later, while the next run,     *)
(* which decides from the balances alone, places another.                  *)
(*                                                                         *)
(* Amounts are in cents and in hundredths of an ATOM, market prices in     *)
(* whole USDC and limit prices in thousandths of a USDC.  Of detection     *)
(* only KeepHedge is used; orders on both exchanges are asked for freely.  *)
(* The exchanges are external: Binance sets aside what an order may spend, *)
(* dYdX asks for margin, both fill an order at the market price once its   *)
(* limit allows, at once or in two parts, and both may cancel it.          *)
(***************************************************************************)
EXTENDS Decision, FiniteSetsExt, Sequences

CONSTANTS
  Openings,      \* the balances to start from
  Prices,        \* market prices, the same on both exchanges
  OpeningPrice,
  Samples,       \* samples of the distribution of order sizes
  Wishes,        \* amounts the rest of detection may ask to reduce by
  MaxOpen,       \* orders an exchange accepts from one account at a time
  MaxPriceMoves, \* bound
  MaxWishes,     \* bound
  MaxFaults      \* bound: errors, early deadlines, cancellations

Fields == {"e1Total", "short", "e2Usdc", "e2Usd", "staked", "unstaked",
           "eePrim", "eeSec", "wallet"}

ASSUME OrdersAssumption ==
  /\ Openings \subseteq [Fields -> Nat] /\ Wishes \subseteq Nat \ {0}
  /\ Samples \subseteq Int
  /\ Prices \subseteq Nat \ {0} /\ OpeningPrice \in Prices
  /\ MaxOpen \in Nat /\ MaxPriceMoves \in Nat /\ MaxWishes \in Nat
  /\ MaxFaults \in Nat

VARIABLES
  bal,      \* the balances the exchanges report; Binance: the free ones
  orders,   \* orders in the books, and the program's own one
  price,    \* the market price
  pc,       \* where the run is
  plan,     \* the detected state
  task,     \* calls of change_tokens_ex still to make
  quote,    \* the price read from the order book
  own,      \* id of the order being polled, 0 for none
  accepted, \* history: orders accepted in this call of change_tokens_ex
  started,  \* history: ATOM without a hedge, ATOM on Binance and collateral
            \* on dYdX when the last action of two orders began
  moved, wished, faults \* how often each of the bounded things happened

history  == <<accepted, started>>
counters == <<moved, wished, faults>>
locals   == <<plan, task, quote, own>>
vars     == <<bal, orders, price, pc, locals, history, counters>>

Steps   == {"size", "book", "place", "pause", "poll", "refresh"}
Running == pc \in Steps
Ids     == 1 .. MaxOpen
Call    == [we : {"e1", "ee"}, side : {"buy", "sell"},
            coin : {"prim", "sec"}, amount : Int]
Order   == [id : Ids, we : {"e1", "ee"}, side : {"buy", "sell"},
            size : Int, left : Int, limit : Int, status : {"open", "filled", "cancelled"}]
Idle    == Move("idle", 0)

TypeOK ==
  /\ bal \in [Fields -> Int]
  /\ orders \subseteq Order
  /\ price \in Prices /\ quote \in Prices
  /\ pc \in Steps \cup {"idle", "paused"} /\ plan.amount \in Int
  /\ task \in Seq(Call)
  /\ own \in Ids \cup {0} /\ (own # 0 <=> pc \in {"poll", "refresh"})
  /\ accepted \in Nat
  /\ moved \in 0 .. MaxPriceMoves /\ wished \in 0 .. MaxWishes
  /\ faults \in 0 .. MaxFaults

Init ==
  /\ bal \in Openings /\ orders = {}
  /\ price = OpeningPrice /\ quote = OpeningPrice
  /\ pc = "idle" /\ plan = Idle /\ task = <<>> /\ own = 0
  /\ accepted = 0 /\ started = [long |-> 0, ee |-> 0, free |-> 0] /\ moved = 0 /\ wished = 0 /\ faults = 0

Abs(x) == IF x < 0 THEN -x ELSE x
Quotes == [e1Buy |-> price, e2Sell |-> price, eeBuy |-> price, eeSell |-> price]
Held(b) == b.eeSec + b.staked + b.unstaked

(* ATOM in hand and in orders that sell it, beyond what is short.          *)
Open == {o \in orders : o.status = "open"}
NetLong ==
  Held(bal) - bal.short
  + MapThenSumSet(LAMBDA o : o.left, {o \in Open : o.we = "ee" /\ o.side = "sell"})

E1Free == bal.e1Total - (Abs(bal.short) * price) \div 10

Fault == faults < MaxFaults /\ faults' = faults + 1

-----------------------------------------------------------------------------
(* round_for_exchange, in the units of this module. *)

Down(x, step) == (x \div step) * step
Up(x, step)   == Down(x + step - 1, step)

PriceStep(we)  == IF we = "e1" THEN 100 ELSE 1
AmountStep(we) == IF we = "e1" THEN 10 ELSE 1

(* One percent beyond the market, so that one order is enough. *)
LimitPrice(call, p) ==
  IF call.side = "buy" THEN Up(1010 * p, PriceStep(call.we))
  ELSE Down(990 * p, PriceStep(call.we))

(* Mutant: USDC are converted at the market price. *)
SizeAtMarket(call, p) ==
  Down(IF call.coin = "sec" THEN call.amount ELSE call.amount \div p,
       AmountStep(call.we))

Size(call, p) ==
  Down(IF call.coin = "sec" THEN call.amount
       ELSE (1000 * call.amount) \div LimitPrice(call, p), AmountStep(call.we))

-----------------------------------------------------------------------------
(* The actions.  Each is a list of calls of change_tokens_ex.              *)

CallOf(we, side, coin, amount) ==
  [we |-> we, side |-> side, coin |-> coin, amount |-> amount]

(* do_reduce_secondary_soft: Binance sells, if it and Kraken hold about    *)
(* what is short, then dYdX buys back.                                     *)
SizeToReduce == Larger(plan.amount \div price, Atom)

(* Mutant: the hedge is compared the wrong way round. *)
ReduceOnEeIfShort ==
  LET size == Smaller(bal.eeSec, SizeToReduce)
  IN IF Held(bal) - bal.short > Atom \/ bal.eeSec < Atom THEN 0
     ELSE IF bal.eeSec - size < Atom THEN bal.eeSec ELSE size

ReduceOnEe ==
  LET size == Smaller(bal.eeSec, SizeToReduce)
  IN IF Held(bal) - bal.short < -Atom \/ bal.eeSec < Atom THEN 0
     ELSE IF bal.eeSec - size < Atom THEN bal.eeSec ELSE size

(* Mutant: without the minimum of 1.1 ATOM. *)
ReduceOnE1AnySize == IF bal.short - SizeToReduce < Atom THEN bal.short ELSE SizeToReduce

ReduceOnE1 ==
  Larger(IF bal.short - SizeToReduce < Atom THEN bal.short ELSE SizeToReduce,
         (11 * Atom) \div 10)

Reduction ==
  (IF ReduceOnEe > 0 THEN <<CallOf("ee", "sell", "sec", ReduceOnEe)>> ELSE <<>>)
  \o <<CallOf("e1", "buy", "sec", ReduceOnE1)>>

(* do_enlarge_secondary_soft: dYdX sells short, unless more than that is   *)
(* short already, then Binance buys.                                       *)
AmountToEnlarge == Larger(plan.amount, (1005 * price) \div 10)
AmountOnE1 == Smaller(AmountToEnlarge, 5 * E1Free)

(* Mutant: the orders the other way round. *)
EnlargementSwapped ==
  <<CallOf("ee", "buy", "prim", AmountToEnlarge)>>
  \o (IF (bal.short - Held(bal)) * price <= AmountOnE1
      THEN <<CallOf("e1", "sell", "sec", Larger(AmountOnE1 \div price, Atom))>>
      ELSE <<>>)

Enlargement ==
  (IF (bal.short - Held(bal)) * price <= AmountOnE1
   THEN <<CallOf("e1", "sell", "sec", Larger(AmountOnE1 \div price, Atom))>>
   ELSE <<>>)
  \o <<CallOf("ee", "buy", "prim", AmountToEnlarge)>>

(* Mutant: the sign of the difference is lost. *)
ChangeShortUnsigned(amount) == <<CallOf("e1", "sell", "sec", Abs(amount))>>

(* do_change_short *)
ChangeShort(amount) ==
  IF amount > 0 THEN <<CallOf("e1", "sell", "sec", amount)>>
  ELSE <<CallOf("e1", "buy", "sec", -amount)>>

Enter(step, move, calls) ==
  /\ pc' = step /\ plan' = move /\ task' = calls
  /\ UNCHANGED <<bal, orders, price, quote, own, accepted, moved, faults>>

Unbegun == UNCHANGED <<started, wished>>

(* Detection keeps the hedge ... *)
Hedge ==
  /\ pc = "idle"
  /\ \E sample \in Samples :
       LET move == KeepHedge(bal, Quotes, sample)
       IN CASE move.op = "reduce_short"  -> Enter("book", move, ChangeShort(-move.amount))
            [] move.op = "enlarge_short" -> Enter("book", move, ChangeShort(move.amount))
            [] OTHER -> UNCHANGED vars
  /\ Unbegun

(* ... or finds USDC on Binance to buy for, or has USDC to raise: all that *)
(* Binance can, or what else it needs.                                     *)
EnlargeBoth ==
  /\ pc = "idle" /\ bal.eePrim >= price * Atom
  /\ Enter("size", Move("enlarge_both", bal.eePrim), <<>>)
  /\ Unbegun

ReduceBoth ==
  /\ pc = "idle" /\ wished < MaxWishes /\ wished' = wished + 1
  /\ \/ \E amount \in Wishes : Enter("size", Move("reduce_both", amount), <<>>)
     \/ bal.eeSec >= Atom /\ Enter("size", Move("reduce_both", bal.eeSec * price), <<>>)
  /\ UNCHANGED started

(* The balances and prices are read anew. *)
SizeOrders ==
  /\ pc = "size"
  /\ Enter("book", plan, IF plan.op = "reduce_both" THEN Reduction ELSE Enlargement)
  /\ started' = [long |-> NetLong, ee |-> bal.eeSec, free |-> E1Free]
  /\ UNCHANGED wished

-----------------------------------------------------------------------------
(* change_tokens_ex *)

Current == Head(task)

ReadBook ==
  /\ pc = "book"
  /\ quote' = price /\ pc' = "place"
  /\ UNCHANGED <<bal, orders, price, plan, task, own, history, counters>>

(* What Binance sets aside for an order, in its two coins. *)
Worth(size, limit) == (size * limit + 999) \div 1000
SetAside(we, side, size, limit) ==
  CASE we = "e1"   -> [prim |-> 0, sec |-> 0]
    [] side = "buy" -> [prim |-> Worth(size, limit), sec |-> 0]
    [] OTHER        -> [prim |-> 0, sec |-> size]

Room == \E n \in Ids : \A o \in orders : o.id # n

RequestAt(p) ==
  [we |-> Current.we, side |-> Current.side, size |-> Size(Current, p),
   left |-> Size(Current, p), limit |-> LimitPrice(Current, p),
   status |-> "open",
   id |-> IF Room THEN CHOOSE n \in Ids : \A o \in orders : o.id # n ELSE 0]
Request == RequestAt(quote)

Reserve(o) == SetAside(o.we, o.side, o.left, o.limit)

Funded(o) == Reserve(o).prim <= bal.eePrim /\ Reserve(o).sec <= bal.eeSec
Margin(o) == o.we = "e1" /\ o.side = "sell" => 10 * E1Free >= o.size * price

Book(o) ==
  /\ orders' = orders \cup {o}
  /\ bal' = [bal EXCEPT !.eePrim = @ - Reserve(o).prim, !.eeSec = @ - Reserve(o).sec]
  /\ accepted' = accepted + 1

Place ==
  /\ pc = "place" /\ Room /\ Funded(Request) /\ Margin(Request)
  /\ Book(Request)
  /\ own' = Request.id /\ pc' = "poll"
  /\ UNCHANGED <<price, plan, task, quote, started, counters>>

(* is_error_insufficient_funds: Binance's -2010, or dYdX's "invalid        *)
(* signature", which needs no lack of funds.                               *)
Insufficient ==
  /\ pc = "place"
  /\ \/ ~Funded(Request) /\ UNCHANGED faults
     \/ Current.we = "e1" /\ Fault
  /\ pc' = "pause"
  /\ UNCHANGED <<bal, orders, price, locals, history, moved, wished>>

Retry ==
  /\ pc = "pause" /\ pc' = "book"
  /\ UNCHANGED <<bal, orders, price, locals, history, counters>>

(* The run is over; what is in the books stays there, known to nobody.     *)
Ended ==
  /\ pc' = "paused" /\ plan' = Idle /\ task' = <<>> /\ own' = 0 /\ accepted' = 0
  /\ UNCHANGED <<price, quote, started, moved, wished>>

Strays(os) == {o \in os : o.status = "open"}

(* Any other error: too little margin, or too many orders. *)
Refuse ==
  /\ pc = "place" /\ Funded(Request) /\ ~(Room /\ Margin(Request))
  /\ Ended /\ orders' = Strays(orders)
  /\ UNCHANGED <<bal, faults>>

(* Mutant: every error is taken for a lack of funds. *)
AnswerLostRetried ==
  /\ pc = "place" /\ Room /\ Funded(Request) /\ Margin(Request)
  /\ Fault
  /\ Book(Request)
  /\ pc' = "pause"
  /\ UNCHANGED <<price, locals, started, moved, wished>>

(* The order is accepted, and the answer is an error. *)
AnswerLost ==
  /\ pc = "place" /\ Room /\ Funded(Request) /\ Margin(Request)
  /\ Fault
  /\ orders' = orders \cup {Request}
  /\ bal' = [bal EXCEPT !.eePrim = @ - Reserve(Request).prim,
                        !.eeSec = @ - Reserve(Request).sec]
  /\ Ended

Own == CHOOSE o \in orders : o.id = own

(* Mutant: a partly filled order passes for a filled one. *)
PollPartly ==
  /\ pc = "poll" /\ (Own.status = "filled" \/ Own.left < Own.size)
  /\ pc' = "refresh"
  /\ UNCHANGED <<bal, orders, price, locals, history, counters>>

(* get_order, until the order is filled; no other status ends the loop.    *)
Poll ==
  /\ pc = "poll" /\ Own.status = "filled"
  /\ pc' = "refresh"
  /\ UNCHANGED <<bal, orders, price, locals, history, counters>>

(* Mutant: the order's id is kept after the call. *)
ReturnKeepsId ==
  /\ pc = "refresh"
  /\ pc' = IF Len(task) = 1 THEN "idle" ELSE "book"
  /\ task' = Tail(task) /\ accepted' = 0
  /\ orders' = Strays(orders)
  /\ plan' = IF Len(task) = 1 THEN Idle ELSE plan
  /\ UNCHANGED <<bal, price, quote, own, started, counters>>

(* update_balances, and the end of the call. *)
Return ==
  /\ pc = "refresh"
  /\ pc' = IF Len(task) = 1 THEN "idle" ELSE "book"
  /\ task' = Tail(task) /\ own' = 0 /\ accepted' = 0
  /\ orders' = Strays(orders)
  /\ plan' = IF Len(task) = 1 THEN Idle ELSE plan
  /\ UNCHANGED <<bal, price, quote, started, counters>>

-----------------------------------------------------------------------------
(* How a run fails, and how it starts over. *)

(* An error of any request, or a deadline that comes early. *)
Abort ==
  /\ Running /\ Fault
  /\ Ended /\ orders' = Strays(orders)
  /\ UNCHANGED bal

Marketable(o) ==
  IF o.side = "buy" THEN 1000 * price <= o.limit ELSE 1000 * price >= o.limit

(* Nothing the program does can end its wait. *)
InVain ==
  \/ pc = "poll" /\ Own.status # "filled"
     /\ (Own.status = "cancelled" \/ ~Marketable(Own))
  \/ pc \in {"book", "place", "pause"} /\ ~Funded(RequestAt(price))

(* Mutant: the deadline applies to the polling loop only. *)
ExpireInPoll ==
  /\ InVain /\ pc = "poll"
  /\ Ended /\ orders' = Strays(orders)
  /\ UNCHANGED <<bal, faults>>

(* operations_timeout. *)
Expire ==
  /\ InVain
  /\ Ended /\ orders' = Strays(orders)
  /\ UNCHANGED <<bal, faults>>

(* main's pause of a minute, and a new context. *)
Resume ==
  /\ pc = "paused" /\ pc' = "idle"
  /\ UNCHANGED <<bal, orders, price, locals, history, counters>>

-----------------------------------------------------------------------------
(* The exchanges and the market. *)

Signed(o, size) == IF o.side = "buy" THEN size ELSE -size

(* Filled or cancelled, an order is forgotten unless it is being polled.   *)
Becomes(o, p) == orders' = (orders \ {o}) \cup
                   (IF p.status = "open" \/ o.id = own THEN {p} ELSE {})

Released(o, p) == [prim |-> Reserve(o).prim - Reserve(p).prim,
                   sec |-> Reserve(o).sec - Reserve(p).sec]

Fill(o, part) ==
  LET p == [o EXCEPT !.left = @ - part,
                     !.status = IF part = o.left THEN "filled" ELSE "open"]
  IN /\ o.status = "open" /\ Marketable(o)
     /\ Becomes(o, p)
     /\ bal' = IF o.we = "e1" THEN [bal EXCEPT !.short = @ - Signed(o, part)]
               ELSE [bal EXCEPT
                 !.eePrim = @ + Released(o, p).prim - Signed(o, part) * price,
                 !.eeSec = @ + Released(o, p).sec + Signed(o, part)]
     /\ UNCHANGED <<price, pc, locals, history, counters>>

FillWhole == \E o \in orders : Fill(o, o.left)
FillHalf  == \E o \in orders :
  o.left = o.size /\ o.size > 10 /\ Fill(o, Down(o.left \div 2, 10))

Cancel ==
  /\ Fault
  /\ \E o \in Open :
       /\ Becomes(o, [o EXCEPT !.status = "cancelled"])
       /\ bal' = [bal EXCEPT !.eePrim = @ + Reserve(o).prim, !.eeSec = @ + Reserve(o).sec]
  /\ UNCHANGED <<price, pc, locals, history, moved, wished>>

PriceMove ==
  /\ moved < MaxPriceMoves /\ moved' = moved + 1
  /\ \E p \in Prices \ {price} :
       /\ price' = p
       /\ bal' = [bal EXCEPT !.e1Total = @ - bal.short * (p - price)]
  /\ UNCHANGED <<orders, pc, locals, history, wished, faults>>

-----------------------------------------------------------------------------
Program ==
  \/ Hedge \/ EnlargeBoth \/ SizeOrders \/ ReadBook
  \/ Place \/ Insufficient \/ Retry \/ Refuse \/ Poll \/ Return
  \/ Expire \/ Resume

Next ==
  \/ Program \/ ReduceBoth
  \/ AnswerLost \/ Abort
  \/ FillWhole \/ FillHalf \/ Cancel \/ PriceMove

Spec == Init /\ [][Next]_vars

FairSpec == Spec /\ WF_vars(Program) /\ WF_vars(Expire) /\ WF_vars(FillWhole)

-----------------------------------------------------------------------------
(* Properties. *)

(* One call of change_tokens_ex has at most one order accepted, however    *)
(* often it retries: what it takes for a lack of funds has left no order.  *)
OneOrderPerCall == accepted <= 1

(* A call ends well only when its own order is filled to the last.         *)
FilledBeforeReturn == pc = "refresh" => Own.left = 0 /\ accepted = 1

(* dYdX is never asked for less than one ATOM (main.rs 70), whichever of   *)
(* the actions asks and however its size is rounded down.                  *)
LargeEnough == \A o \in orders : o.we = "e1" => o.size >= Atom

(* An order for an amount of USDC does not cost more than it, even at its  *)
(* limit price and after the price has moved between two tries.            *)
WithinAmount ==
  pc = "poll" /\ Current.coin = "prim" => Own.size * Own.limit <= 1000 * Current.amount

(* No ATOM is bought before its hedge is sold: while nothing fails and the *)
(* price stands still, do_enlarge_secondary_soft leaves no more ATOM       *)
(* without a hedge, between any two fills, than there was when it started, *)
(* but for the tenth that dYdX's sizes are rounded to.  Where five times   *)
(* the collateral on dYdX does not cover the amount, Binance buys all of   *)
(* it nevertheless.                                                        *)
HedgedFirst ==
  /\ faults = 0 /\ moved = 0 /\ plan.op = "enlarge_both" /\ pc # "size"
  /\ AmountToEnlarge <= 5 * started.free
  => NetLong <= Larger(started.long, 0) + AmountStep("e1")

(* Nothing that dYdX buys back to reduce its short position makes it long  *)
(* (the question at strategy.rs 195).                                      *)
NeverLong == bal.short >= 0

(* Where as much ATOM is held as is short, or more, and Binance has what   *)
(* is to be sold and one ATOM at least, do_reduce_secondary_soft leaves    *)
(* the hedge as good as it was, but for a remainder below one ATOM that it *)
(* sells or buys along, and a tenth for rounding: while nothing fails and  *)
(* the price stands still.                                                 *)
EvenReduction ==
  /\ faults = 0 /\ moved = 0 /\ plan.op = "reduce_both"
  /\ started.long >= -Atom
  /\ started.ee >= Atom /\ started.ee * price >= plan.amount
  /\ pc = "refresh" /\ Len(task) = 1
  => Abs(NetLong) <= Abs(started.long) + Atom + AmountStep("e1")

(* The loop goes on, whatever becomes of an order.                         *)
OrdersComeRound == []<>(pc = "idle")

(* dYdX lacks the margin for the ATOM without a hedge, or for one ATOM.    *)
Strapped == E1Free < (Larger(Held(bal) - bal.short, Atom) * price) \div 10

(* Once the price stands still and failures stop, the short position       *)
(* matches the ATOM held to one ATOM for good, whatever the orders left    *)
(* behind have done to it, unless dYdX lacks the margin for that.          *)
HedgeHeals ==
  []<>Strapped \/ <>[](pc = "idle" /\ Abs(bal.short - Held(bal)) <= Atom)
=============================================================================
