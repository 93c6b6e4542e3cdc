----------------------------- MODULE Hedge_proofs -----------------------------
(***************************************************************************)
(* Proofs about the actions of two orders in Orders, for all prices,       *)
(* balances, amounts and samples: while nothing fails and the price stands *)
(* still, the hedge is sold before ATOM is bought, and a reduction is      *)
(* even.  The argument is a ledger: what the calls still to be made and    *)
(* the order under way will add to the ATOM without a hedge.               *)
(***************************************************************************)
EXTENDS Orders_proofs, SequenceTheorems

Quiet == faults = 0 /\ moved = 0

(* The ATOM without a hedge, but for what is in orders. *)
Net == Held(bal) - bal.short

(* While all is quiet the books hold the order that is being polled, and   *)
(* nothing else.                                                           *)
Alone ==
  /\ quote = price
  /\ \A o \in orders :
       /\ pc \in {"poll", "refresh"} /\ o.id = own
       /\ o.status \in {"open", "filled"}
       /\ o.we = Current.we /\ o.side = Current.side
       /\ o.size = Size(Current, price) /\ o.limit = LimitPrice(Current, price)

-----------------------------------------------------------------------------
(* Arithmetic. *)

LEMMA Division ==
  ASSUME NEW x \in Int, NEW d \in Nat \ {0}
  PROVE  /\ x \div d \in Int
         /\ d * (x \div d) <= x /\ x < d * (x \div d) + d
OBVIOUS

(* A quotient is the greatest whose product stays below. *)
LEMMA Greatest ==
  ASSUME NEW x \in Int, NEW d \in Nat \ {0}, NEW n \in Int, n * d <= x
  PROVE  n <= x \div d
<1> DEFINE m == x \div d
<1>1. m \in Int /\ x < d * m + d
  BY Division
<1> HIDE DEF m
<1> SUFFICES ASSUME n > m PROVE FALSE
  BY <1>1 DEF m
<1>2. n - m - 1 \in Nat
  BY <1>1
<1>3. d * (n - m - 1) >= 0 /\ d * (n - m - 1) = n * d - d * m - d
  BY <1>1, <1>2
<1>4. n * d \in Int /\ d * m \in Int
  BY <1>1
<1> QED
  BY <1>1, <1>3, <1>4

LEMMA Rounding ==
  ASSUME NEW x \in Int
  PROVE  /\ Down(x, 1) = x
         /\ Down(x, 10) \in Int /\ Down(x, 10) <= x /\ x <= Down(x, 10) + 9
         /\ x = 110 => Down(x, 10) = 110
BY DEF Down

(* The sum of the orders that sell is left out when there are none. *)
LEMMA NetWithoutSales ==
  ASSUME TypeOK, \A o \in Open : ~(o.we = "ee" /\ o.side = "sell")
  PROVE  NetLong = Net
<1> DEFINE sales   == {o \in Open : o.we = "ee" /\ o.side = "sell"}
           step(g) == [s \in SUBSET sales |->
                         IF s = {} THEN 0
                         ELSE LET x == CHOOSE x \in s : TRUE IN x.left + g[s \ {x}]]
           sum     == CHOOSE g : g = step(g)
           none    == [s \in SUBSET sales |-> 0]
<1>1. sales = {}
  OBVIOUS
<1>2. none = step(none)
  <2>1. \A s \in SUBSET sales : s = {}
    BY <1>1
  <2> QED
    BY <2>1
<1>3. sum = step(sum)
  BY <1>2
<1>4. sum[sales] = 0
  <2>1. sales \in SUBSET sales
    OBVIOUS
  <2> QED
    BY <1>1, <1>3, <2>1
<1>5. NetLong = Held(bal) - bal.short + sum[sales]
  BY DEF NetLong, MapThenSumSet, MapThenFoldSet
<1>6. Net \in Int
  BY DEF Net, Held, TypeOK, Fields
<1> HIDE DEF sum, sales
<1> QED
  BY <1>4, <1>5, <1>6 DEF Net

-----------------------------------------------------------------------------
(* What may happen while all is quiet. *)

(* The list of two calls. *)
LEMMA TwoCalls == \A c, d \in Call : <<c>> \o <<d>> = <<c, d>>
<1> SUFFICES ASSUME NEW c \in Call, NEW d \in Call PROVE <<c>> \o <<d>> = <<c, d>>
  OBVIOUS
<1> DEFINE s == <<c>> \o <<d>>
           t == <<c, d>>
<1>1. s \in Seq(Call) /\ t \in Seq(Call)
  OBVIOUS
<1>2. Len(s) = 2 /\ Len(t) = 2
  OBVIOUS
<1>3. s[1] = c /\ s[2] = d /\ t[1] = c /\ t[2] = d
  OBVIOUS
<1> HIDE DEF s, t
<1>4. \A i \in 1 .. Len(s) : s[i] = t[i]
  BY <1>2, <1>3
<1>5. s = t
  BY <1>1, <1>2, <1>4, SeqEqual, Zenon
<1> QED
  BY <1>5 DEF s, t

(* Limit prices let an order fill at the price they were made from. *)
LEMMA LimitsAllow ==
  ASSUME NEW c \in Call, NEW p \in Prices
  PROVE  /\ c.side = "buy" => 1000 * p <= LimitPrice(c, p)
         /\ c.side = "sell" => 1000 * p >= LimitPrice(c, p)
         /\ c.we = "ee" /\ c.side = "buy" => LimitPrice(c, p) = 1010 * p
<1>1. p \in Nat /\ p > 0
  BY PositivePrices
<1>2. CASE c.we = "e1"
  BY <1>1, <1>2 DEF LimitPrice, PriceStep, Up, Down
<1>3. CASE c.we # "e1"
  BY <1>1, <1>3 DEF LimitPrice, PriceStep, Up, Down
<1> QED
  BY <1>2, <1>3

(* Every order is marketable, so that no deadline ends its polling. *)
LEMMA NoneInVain ==
  ASSUME Inv, Quiet, Alone, pc = "poll"
  PROVE  ~InVain
<1>1. Own \in orders /\ Own.id = own
  BY DEF Inv, Tracked, Own
<1>2. Current \in Call /\ price \in Prices
  BY DEF Inv, TypeOK, Tracked, Current
<1>3. /\ Own.side = Current.side /\ Own.limit = LimitPrice(Current, price)
      /\ Own.status \in {"open", "filled"}
  BY <1>1 DEF Alone
<1>4. Current.side \in {"buy", "sell"}
  BY <1>2 DEF Call
<1>5. Marketable(Own)
  <2>1. CASE Current.side = "buy"
    BY <1>2, <1>3, <2>1, LimitsAllow DEF Marketable
  <2>2. CASE Current.side = "sell"
    BY <1>2, <1>3, <2>2, LimitsAllow DEF Marketable
  <2> QED
    BY <1>4, <2>1, <2>2
<1> QED
  BY <1>3, <1>5 DEF InVain

(* A step is waiting, or the beginning of something else than two orders,  *)
(* or belongs to one order and its call.                                   *)
Waits ==
  /\ UNCHANGED <<bal, orders, plan, task, started>>
  /\ pc = "size" <=> pc' = "size"

Begins ==
  /\ orders' = {} /\ started' = started
  /\ plan'.op \in {"reduce_both", "enlarge_both"} => pc' = "size"

FillsOwn ==
  \E o \in orders : \E part \in Int :
    /\ Fill(o, part) /\ orders = {o}
    /\ o.left >= 0 => 0 <= part /\ part <= o.left

QuietStep ==
  \/ Waits \/ Begins
  \/ SizeOrders /\ orders = {}
  \/ Place /\ orders = {}
  \/ FillsOwn
  \/ Return /\ orders' = {}

LEMMA Unpolled == Alone /\ pc \notin {"poll", "refresh"} => orders = {}
BY DEF Alone

LEMMA HedgeBegins == Inv /\ Alone /\ Hedge => (Waits \/ Begins) /\ UNCHANGED <<price, faults, moved>> /\ Alone'
<1> SUFFICES ASSUME Inv, Alone, Hedge
             PROVE  (Waits \/ Begins) /\ UNCHANGED <<price, faults, moved>> /\ Alone'
  OBVIOUS
<1>1. orders = {}
  BY Unpolled DEF Hedge
<1>2. PICK sample \in Samples :
        LET move == KeepHedge(bal, Quotes, sample)
        IN CASE move.op = "reduce_short"  -> Enter("book", move, ChangeShort(-move.amount))
             [] move.op = "enlarge_short" -> Enter("book", move, ChangeShort(move.amount))
             [] OTHER -> UNCHANGED vars
  BY Zenon DEF Hedge
<1> DEFINE move == KeepHedge(bal, Quotes, sample)
<1>3. \/ move.op = "reduce_short" /\ Enter("book", move, ChangeShort(-move.amount))
      \/ move.op = "enlarge_short" /\ Enter("book", move, ChangeShort(move.amount))
      \/ UNCHANGED vars
  BY <1>2, Zenon
<1> HIDE DEF move
<1>4. CASE UNCHANGED vars
  BY <1>4 DEF vars, locals, history, counters, Waits, Alone, Current
<1>5. ASSUME NEW calls, Enter("book", move, calls), move.op \in {"reduce_short", "enlarge_short"}
      PROVE  Begins /\ UNCHANGED <<price, faults, moved>> /\ Alone'
  BY <1>1, <1>5 DEF Enter, Begins, Alone, Unbegun, Hedge
<1> QED
  BY <1>3, <1>4, <1>5

(* A run that ends at peace leaves nothing behind. *)
LEMMA EndsBegins ==
  ASSUME Inv, Alone, Ended, orders = {}, orders' = Strays(orders)
  PROVE  Begins /\ Alone'
<1>1. /\ orders' = {} /\ plan'.op = "idle"
      /\ quote' = quote /\ price' = price /\ started' = started
  BY DEF Ended, Strays, Idle, Move
<1> QED
  BY <1>1 DEF Begins, Alone

LEMMA FillKeeps ==
  ASSUME Inv, Alone, NEW o \in orders, NEW part \in Int, Fill(o, part),
         o.left >= 0 => 0 <= part /\ part <= o.left
  PROVE  FillsOwn /\ UNCHANGED <<price, faults, moved>> /\ Alone'
<1> DEFINE p == [o EXCEPT !.left = @ - part,
                          !.status = IF part = o.left THEN "filled" ELSE "open"]
<1>1. \A q \in orders : q.id = own
  BY DEF Alone
<1>2. orders = {o} /\ o.id = own
  BY <1>1 DEF Inv, Tracked
<1>3. Becomes(o, p) /\ UNCHANGED <<price, pc, locals, history, counters>>
  BY DEF Fill
<1>4. /\ p.id = o.id /\ p.we = o.we /\ p.side = o.side /\ p.size = o.size
      /\ p.limit = o.limit /\ p.status \in {"open", "filled"}
  BY DEF Inv, TypeOK, Order
<1> HIDE DEF p
<1>5. orders' \subseteq {p}
  BY <1>2, <1>3 DEF Becomes
<1>6. Alone'
  BY <1>3, <1>4, <1>5 DEF Alone, locals, Current
<1> QED
  BY <1>2, <1>3, <1>6 DEF FillsOwn, counters

LEMMA PlaceKeeps == Inv /\ Alone /\ Place => Alone'
<1> SUFFICES ASSUME Inv, Alone, Place PROVE Alone'
  OBVIOUS
<1>1. orders = {}
  BY Unpolled DEF Place
<1>2. /\ orders' = {Request} /\ own' = Request.id /\ pc' = "poll"
      /\ UNCHANGED <<price, task, quote>>
  BY <1>1 DEF Place, Book
<1>3. /\ Request.status = "open" /\ Request.we = Current.we /\ Request.side = Current.side
      /\ Request.size = Size(Current, quote) /\ Request.limit = LimitPrice(Current, quote)
  BY DEF Request, RequestAt
<1> QED
  BY <1>2, <1>3 DEF Alone, Current

LEMMA QuietSteps ==
  ASSUME Inv, Quiet => Alone, [Next]_vars, Quiet'
  PROVE  Quiet /\ QuietStep /\ price' = price /\ Alone'
<1>1. faults \in Nat /\ moved \in Nat
  BY OrdersAssumption DEF Inv, TypeOK
<1>2. ASSUME UNCHANGED <<faults, moved>> PROVE Quiet /\ Alone
  BY <1>2 DEF Quiet
<1>3. CASE Hedge
  <2>1. UNCHANGED <<faults, moved>>
    <3>1. PICK sample \in Samples :
            LET move == KeepHedge(bal, Quotes, sample)
            IN CASE move.op = "reduce_short"  -> Enter("book", move, ChangeShort(-move.amount))
                 [] move.op = "enlarge_short" -> Enter("book", move, ChangeShort(move.amount))
                 [] OTHER -> UNCHANGED vars
      BY <1>3, Zenon DEF Hedge
    <3> DEFINE move == KeepHedge(bal, Quotes, sample)
    <3>2. (\E calls : Enter("book", move, calls)) \/ UNCHANGED vars
      BY <3>1, Zenon
    <3> QED
      BY <3>2 DEF Enter, vars, counters
  <2> QED
    BY <1>2, <1>3, <2>1, HedgeBegins DEF QuietStep
<1>4. CASE EnlargeBoth \/ ReduceBoth
  <2>1. /\ UNCHANGED <<faults, moved, orders, price, quote, started>>
        /\ pc = "idle" /\ pc' = "size"
    BY <1>4 DEF EnlargeBoth, ReduceBoth, Enter, Unbegun
  <2> QED
    BY <1>2, <2>1, Unpolled DEF QuietStep, Begins, Alone
<1>5. CASE SizeOrders
  <2>1. /\ UNCHANGED <<faults, moved, orders, price, quote>> /\ pc = "size"
    BY <1>5 DEF SizeOrders, Enter
  <2> QED
    BY <1>2, <1>5, <2>1, Unpolled DEF QuietStep, Alone
<1>6. CASE UNCHANGED vars \/ ReadBook \/ Retry \/ Poll \/ Resume
  <2>1. /\ UNCHANGED <<faults, moved, bal, orders, price, plan, task, own, started>>
        /\ quote' \in {quote, price}
        /\ pc = "size" <=> pc' = "size"
        /\ pc \in {"poll", "refresh"} => pc' \in {"poll", "refresh"}
    BY <1>6 DEF vars, locals, history, counters, ReadBook, Retry, Poll, Resume
  <2>2. Quiet /\ Alone
    BY <1>2, <2>1
  <2>3. Waits /\ Alone'
    BY <2>1, <2>2 DEF Waits, Alone, Current
  <2> QED
    BY <2>1, <2>2, <2>3 DEF QuietStep
<1>7. CASE Insufficient
  <2>1. faults' # faults + 1
    BY <1>1 DEF Quiet
  <2>2. /\ UNCHANGED <<faults, moved, bal, orders, price, locals, started>>
        /\ pc = "place" /\ pc' = "pause"
    BY <1>7, <2>1 DEF Insufficient, Fault, history
  <2>3. Quiet /\ Alone /\ orders = {}
    BY <1>2, <2>2, Unpolled
  <2> QED
    BY <2>2, <2>3 DEF QuietStep, Waits, Alone, locals
<1>8. CASE Place
  <2>1. UNCHANGED <<faults, moved, price>> /\ pc = "place"
    BY <1>8 DEF Place, counters
  <2>2. Quiet /\ Alone /\ orders = {}
    BY <1>2, <2>1, Unpolled
  <2> QED
    BY <1>8, <2>1, <2>2, PlaceKeeps DEF QuietStep
<1>9. CASE Refuse \/ Expire
  <2>1. UNCHANGED <<faults, moved, price>> /\ Ended /\ orders' = Strays(orders)
    BY <1>9 DEF Refuse, Expire, Ended
  <2>2. Quiet /\ Alone
    BY <1>2, <2>1
  <2>3. pc \notin {"poll", "refresh"}
    BY <1>9, <2>2, NoneInVain DEF Refuse, Expire, InVain
  <2> QED
    BY <2>1, <2>2, <2>3, Unpolled, EndsBegins DEF QuietStep
<1>10. CASE Return
  <2>1. /\ UNCHANGED <<faults, moved, price, quote>> /\ pc = "refresh"
        /\ orders' = Strays(orders)
    BY <1>10 DEF Return, counters
  <2>2. Quiet /\ Alone
    BY <1>2, <2>1
  <2>3. \A o \in orders : o.status = "filled"
    BY <2>1, <2>2 DEF Inv, Tracked, Alone
  <2>4. orders' = {}
    BY <2>1, <2>3 DEF Strays
  <2> QED
    BY <1>10, <2>1, <2>2, <2>4 DEF QuietStep, Alone
<1>11. ASSUME NEW o \in orders, NEW part \in Int, Fill(o, part),
              o.left >= 0 => 0 <= part /\ part <= o.left
       PROVE  Quiet /\ QuietStep /\ price' = price /\ Alone'
  <2>1. UNCHANGED <<faults, moved>>
    BY <1>11 DEF Fill, counters
  <2> QED
    BY <1>2, <1>11, <2>1, FillKeeps DEF QuietStep
<1>12. CASE FillWhole \/ FillHalf
  <2>1. \A o \in orders : /\ o.left \in Int /\ Down(o.left \div 2, 10) \in Int
                          /\ o.left >= 0 => /\ 0 <= Down(o.left \div 2, 10)
                                            /\ Down(o.left \div 2, 10) <= o.left
    <3>1. \A x \in Int : /\ Down(x \div 2, 10) \in Int
                         /\ x >= 0 => 0 <= Down(x \div 2, 10) /\ Down(x \div 2, 10) <= x
      BY DEF Down
    <3> QED
      BY <3>1 DEF Inv, TypeOK, Order
  <2> QED
    BY <1>11, <1>12, <2>1 DEF FillWhole, FillHalf
<1>13. CASE AnswerLost \/ Abort \/ Cancel \/ PriceMove
  <2>1. faults' = faults + 1 \/ moved' = moved + 1
    BY <1>13 DEF AnswerLost, Abort, Cancel, PriceMove, Fault
  <2> QED
    BY <1>1, <2>1 DEF Quiet
<1> QED
  BY <1>3, <1>4, <1>5, <1>6, <1>7, <1>8, <1>9, <1>10, <1>12, <1>13 DEF Next, Program

-----------------------------------------------------------------------------
(* The ledger of do_enlarge_secondary_soft. *)

Sells == CallOf("e1", "sell", "sec", Larger(AmountToEnlarge \div price, Atom))
Buys  == CallOf("ee", "buy", "prim", AmountToEnlarge)

Top == Larger(started.long, 0) + 10

Begun == started.long \in Int /\ started.ee \in Int /\ started.free \in Int

(* While dYdX sells, what is sold is taken off; then what Binance may      *)
(* still buy is added.                                                     *)
Enlarging ==
  /\ plan.op = "enlarge_both" /\ pc # "size" /\ AmountToEnlarge <= 5 * started.free
  => /\ \A o \in orders : 0 <= o.left /\ o.left <= o.size
     /\ \/ /\ task = <<Sells, Buys>>
           /\ orders = {} => Net <= started.long
           /\ \A o \in orders : Net <= started.long - (o.size - o.left)
        \/ /\ task = <<Buys>>
           /\ orders = {} => Net + Size(Buys, price) <= Top
           /\ \A o \in orders : Net + o.left <= Top

LEMMA NetTyping ==
  ASSUME TypeOK
  PROVE  /\ Net \in Int /\ bal.short \in Int /\ bal.eeSec \in Int /\ bal.e1Total \in Int
         /\ price \in Nat \ {0} /\ price \in Prices /\ plan.amount \in Int /\ E1Free \in Int
<1>1. /\ bal.short \in Int /\ bal.eeSec \in Int /\ bal.e1Total \in Int
      /\ bal.staked \in Int /\ bal.unstaked \in Int
  BY DEF TypeOK, Fields
<1>2. price \in Nat \ {0} /\ price \in Prices /\ plan.amount \in Int
  BY PositivePrices DEF TypeOK
<1>3. E1Free \in Int
  BY <1>1, <1>2 DEF E1Free, Abs
<1> QED
  BY <1>1, <1>2, <1>3 DEF Net, Held

LEMMA LargerBounds ==
  ASSUME NEW x \in Int, NEW y \in Int
  PROVE  Larger(x, y) \in Int /\ Larger(x, y) >= x /\ Larger(x, y) >= y
BY DEF Larger

(* Binance buys no more than dYdX sells and a tenth; and no more than is   *)
(* short already when dYdX is left out.                                    *)
LEMMA EnlargementSizes ==
  ASSUME TypeOK
  PROVE  /\ Sells \in Call /\ Buys \in Call
         /\ Size(Sells, price) \in Nat /\ Size(Buys, price) \in Nat
         /\ Size(Buys, price) <= Size(Sells, price) + 10
         /\ \A n \in Int : n * price < -AmountToEnlarge => n + Size(Buys, price) <= 0
<1> DEFINE a == AmountToEnlarge
           p == price
           n == (1000 * a) \div (1010 * p)
           q == a \div p
<1>1. p \in Nat \ {0} /\ price \in Prices /\ plan.amount \in Int
  BY NetTyping
<1>2. a \in Nat
  <2>1. (1005 * p) \div 10 \in Nat
    BY <1>1
  <2> QED
    BY <1>1, <2>1 DEF AmountToEnlarge, Larger
<1>3. q \in Int
  BY <1>1, <1>2, Division
<1>4. Sells \in Call /\ Buys \in Call
  <2>1. Larger(q, Atom) \in Int
    BY <1>3, LargerBounds DEF Atom
  <2> QED
    BY <1>2, <2>1 DEF Sells, Buys, CallOf, Call
<1>5. Size(Buys, price) = n
  <2>1. LimitPrice(Buys, price) = 1010 * p
    BY <1>1, <1>4, LimitsAllow DEF Buys, CallOf
  <2>2. n \in Int
    <3>1. 1000 * a \in Int /\ 1010 * p \in Nat \ {0}
      BY <1>1, <1>2
    <3> QED
      BY <3>1, Division
  <2>3. Size(Buys, price) = Down(n, 1)
    BY <2>1 DEF Size, Buys, CallOf, AmountStep
  <2> HIDE DEF n
  <2> QED
    BY <2>2, <2>3, Rounding
<1>6. n \in Nat /\ n * p <= a
  <2> DEFINE x == 1000 * a
             d == 1010 * p
  <2>1. x \in Nat /\ d \in Nat \ {0}
    BY <1>1, <1>2
  <2> HIDE DEF x, d
  <2>2. x \div d \in Nat /\ d * (x \div d) <= x
    BY <2>1
  <2>3. n = x \div d
    BY DEF x, d
  <2> HIDE DEF n
  <2>4. n \in Nat /\ 1010 * p * n <= 1000 * a
    BY <2>2, <2>3 DEF x, d
  <2>5. 1010 * p * n = 1010 * (n * p) /\ n * p \in Nat
    BY <1>1, <2>4
  <2> QED
    BY <1>2, <2>4, <2>5
<1> HIDE DEF n, a
<1>7. n <= q
  BY <1>1, <1>2, <1>6, Greatest
<1>8. Size(Sells, price) \in Nat /\ n <= Size(Sells, price) + 10
  <2> DEFINE x == Larger(q, Atom)
  <2>1. Size(Sells, price) = Down(x, 10)
    BY DEF Size, Sells, CallOf, AmountStep, a
  <2> HIDE DEF q
  <2>2. x \in Int /\ x >= q /\ x >= 100
    BY <1>3, LargerBounds DEF Atom
  <2> HIDE DEF x
  <2> QED
    BY <1>3, <1>6, <1>7, <2>1, <2>2, Rounding
<1>9. ASSUME NEW m \in Int, m * p < -a PROVE m + n <= 0
  <2> SUFFICES ASSUME m + n >= 1 PROVE FALSE
    BY <1>6
  <2>1. (m + n) * p >= 0 /\ (m + n) * p = m * p + n * p
    BY <1>1, <1>6
  <2>2. m * p \in Int /\ n * p \in Int
    BY <1>1, <1>6
  <2> QED
    BY <1>2, <1>6, <1>9, <2>1, <2>2
<1> QED
  BY <1>4, <1>5, <1>6, <1>8, <1>9 DEF a

(* The books are empty when an action of two orders begins. *)
LEMMA Beginning ==
  ASSUME Inv, SizeOrders, orders = {}
  PROVE  /\ Begun' /\ started'.long = Net /\ started'.ee = bal.eeSec /\ started'.free = E1Free
         /\ UNCHANGED <<bal, orders, price, plan>>
         /\ task' = IF plan.op = "reduce_both" THEN Reduction ELSE Enlargement
<1>1. NetLong = Net
  BY NetWithoutSales DEF Inv, Open
<1> QED
  BY <1>1, NetTyping DEF SizeOrders, Enter, Begun, Inv

LEMMA EnlargementBegins ==
  ASSUME Inv, SizeOrders, orders = {}
  PROVE  Enlarging'
<1>1. /\ Begun' /\ started'.long = Net /\ started'.free = E1Free
      /\ UNCHANGED <<bal, orders, price, plan>>
      /\ task' = IF plan.op = "reduce_both" THEN Reduction ELSE Enlargement
  BY Beginning
<1> SUFFICES ASSUME plan.op = "enlarge_both", AmountToEnlarge <= 5 * E1Free
             PROVE  \/ task' = <<Sells, Buys>>
                    \/ task' = <<Buys>> /\ Net + Size(Buys, price) <= 0
  <2>1. /\ AmountToEnlarge' = AmountToEnlarge /\ Sells' = Sells /\ Buys' = Buys /\ Net' = Net
    BY <1>1 DEF AmountToEnlarge, Sells, Buys, Net
  <2>2. Top' >= 0 /\ Top' \in Int
    BY <1>1 DEF Top, Begun, Larger
  <2>3. Net \in Int /\ Size(Buys, price) \in Int
    BY NetTyping, EnlargementSizes DEF Inv
  <2> QED
    BY <1>1, <2>1, <2>2, <2>3 DEF Enlarging
<1>2. task' = Enlargement /\ AmountOnE1 = AmountToEnlarge
  <2>1. AmountToEnlarge \in Int /\ 5 * E1Free \in Int
    BY NetTyping, EnlargementSizes DEF Inv, Buys, CallOf, Call
  <2> QED
    BY <1>1, <2>1 DEF AmountOnE1, Smaller
<1>3. CASE (bal.short - Held(bal)) * price <= AmountOnE1
  <2>1. Enlargement = <<Sells>> \o <<Buys>>
    BY <1>2, <1>3 DEF Enlargement, Sells, Buys
  <2> QED
    BY <1>2, <2>1, TwoCalls, EnlargementSizes DEF Inv
<1>4. CASE ~((bal.short - Held(bal)) * price <= AmountOnE1)
  <2>1. task' = <<Buys>>
    BY <1>2, <1>4 DEF Enlargement, Buys
  <2>2. Net * price < -AmountToEnlarge
    <3>1. AmountToEnlarge \in Int
      BY NetTyping, EnlargementSizes DEF Inv, Buys, CallOf, Call
    <3>2. bal.short - Held(bal) = -Net
      BY NetTyping DEF Inv, Net, Held, TypeOK, Fields
    <3>3. Net \in Int /\ price \in Int /\ (-Net) * price = -(Net * price) /\ Net * price \in Int
      BY NetTyping DEF Inv
    <3> QED
      BY <1>2, <1>4, <3>1, <3>2, <3>3
  <2> QED
    BY <2>1, <2>2, NetTyping, EnlargementSizes DEF Inv
<1> QED
  BY <1>3, <1>4

(* What a fill of the one order changes. *)
LEMMA OwnFill ==
  ASSUME Inv, Alone, FillsOwn
  PROVE  \E o, p \in Order : \E part \in Int :
           /\ orders = {o} /\ orders' = {p} /\ o.we = Current.we /\ o.side = Current.side
           /\ p.we = o.we /\ p.side = o.side
           /\ p.size = o.size /\ p.left = o.left - part
           /\ o.left >= 0 => 0 <= part /\ part <= o.left
           /\ Net' = Net + (IF o.we = "e1" THEN Signed(o, part)
                           ELSE Released(o, p).sec + Signed(o, part))
           /\ Reserve(o).sec \in Int /\ Reserve(p).sec \in Int
           /\ UNCHANGED <<price, pc, plan, task, started>>
<1>1. PICK o \in orders, part \in Int :
        /\ Fill(o, part) /\ orders = {o}
        /\ o.left >= 0 => 0 <= part /\ part <= o.left
  BY DEF FillsOwn
<1> DEFINE p == [o EXCEPT !.left = @ - part,
                          !.status = IF part = o.left THEN "filled" ELSE "open"]
<1>2. o \in Order /\ o.id = own /\ o.we = Current.we /\ o.side = Current.side
  BY DEF Inv, TypeOK, Alone
<1>3. /\ p \in Order /\ p.size = o.size /\ p.left = o.left - part /\ p.id = o.id
      /\ p.we = o.we /\ p.side = o.side
  <2>1. o.left - part \in Int
    BY <1>2 DEF Order
  <2> QED
    BY <1>2, <2>1 DEF Order
<1>4. /\ Becomes(o, p) /\ UNCHANGED <<price, pc, plan, task, started>>
      /\ bal' = IF o.we = "e1" THEN [bal EXCEPT !.short = @ - Signed(o, part)]
                ELSE [bal EXCEPT
                  !.eePrim = @ + Released(o, p).prim - Signed(o, part) * price,
                  !.eeSec = @ + Released(o, p).sec + Signed(o, part)]
  BY <1>1 DEF Fill, locals, history
<1> HIDE DEF p
<1>5. orders' = {p}
  BY <1>1, <1>2, <1>3, <1>4 DEF Becomes
<1>6. Reserve(o).sec \in Int /\ Reserve(p).sec \in Int
  BY <1>2, <1>3, ReserveTyping DEF Order
<1>7. Released(o, p).sec \in Int /\ Signed(o, part) \in Int
  BY <1>6 DEF Released, Signed
<1>8. bal \in [Fields -> Int]
  BY DEF Inv, TypeOK
<1>9. CASE o.we = "e1"
  <2>1. bal' = [bal EXCEPT !.short = @ - Signed(o, part)]
    BY <1>4, <1>9
  <2>2. /\ bal'.short = bal.short - Signed(o, part)
        /\ bal'.eeSec = bal.eeSec /\ bal'.staked = bal.staked /\ bal'.unstaked = bal.unstaked
    BY <1>8, <2>1 DEF Fields
  <2>3. Net' = Net + Signed(o, part)
    BY <1>7, <1>8, <2>2 DEF Net, Held, Fields
  <2> QED
    BY <1>1, <1>2, <1>3, <1>4, <1>5, <1>6, <1>9, <2>3
<1>10. CASE o.we # "e1"
  <2> DEFINE sec == Released(o, p).sec + Signed(o, part)
  <2>1. bal' = [bal EXCEPT !.eePrim = @ + Released(o, p).prim - Signed(o, part) * price,
                           !.eeSec = @ + Released(o, p).sec + Signed(o, part)]
    BY <1>4, <1>10
  <2>2. /\ bal'.short = bal.short
        /\ bal'.eeSec = bal.eeSec + Released(o, p).sec + Signed(o, part)
        /\ bal'.staked = bal.staked /\ bal'.unstaked = bal.unstaked
    BY <1>8, <2>1 DEF Fields
  <2>3. Net' = Net + sec
    BY <1>7, <1>8, <2>2 DEF Net, Held, Fields
  <2> QED
    BY <1>1, <1>2, <1>3, <1>4, <1>5, <1>6, <1>10, <2>3
<1> QED
  BY <1>9, <1>10

(* What placing an order changes: Binance sets aside what it sells. *)
LEMMA OwnPlace ==
  ASSUME Inv, Alone, Place, orders = {}
  PROVE  /\ orders' = {Request} /\ UNCHANGED <<price, plan, task, started>>
         /\ Request \in Order
         /\ Request.we = Current.we /\ Request.side = Current.side
         /\ Request.size = Size(Current, price) /\ Request.left = Size(Current, price)
         /\ Net' = Net - Reserve(Request).sec /\ Reserve(Request).sec \in Int
<1>1. /\ orders' = {Request} /\ UNCHANGED <<price, plan, task, started>>
      /\ bal' = [bal EXCEPT !.eePrim = @ - Reserve(Request).prim,
                            !.eeSec = @ - Reserve(Request).sec]
      /\ pc = "place" /\ Room
  BY DEF Place, Book
<1>2. Request \in Order /\ Reserve(Request).sec \in Int
  BY <1>1, BookTyping
<1>3. /\ Request.we = Current.we /\ Request.side = Current.side
      /\ Request.size = Size(Current, price) /\ Request.left = Size(Current, price)
  BY DEF Alone, Request, RequestAt
<1> HIDE DEF Request, Reserve
<1>4. bal \in [Fields -> Int]
  BY DEF Inv, TypeOK
<1>5. /\ bal'.short = bal.short /\ bal'.eeSec = bal.eeSec - Reserve(Request).sec
      /\ bal'.staked = bal.staked /\ bal'.unstaked = bal.unstaked
  BY <1>1, <1>4 DEF Fields
<1>6. Net' = Net - Reserve(Request).sec
  BY <1>2, <1>4, <1>5 DEF Net, Held, Fields
<1> QED
  BY <1>1, <1>2, <1>3, <1>6

(* What the end of a call changes. *)
LEMMA OwnReturn ==
  ASSUME Inv, Alone, Return, orders' = {}, price' = price
  PROVE  /\ \E o \in orders : o.left = 0 /\ o.size = Size(Current, price)
         /\ task' = Tail(task) /\ plan' = IF Len(task) = 1 THEN Idle ELSE plan
         /\ UNCHANGED <<price, started>> /\ Net' = Net /\ pc' # "size" /\ pc = "refresh"
BY DEF Return, Inv, Tracked, Alone, Net

LEMMA EnlargingStep ==
  ASSUME Inv, Alone, Begun, Enlarging, QuietStep, price' = price
  PROVE  Begun' /\ Enlarging'
<1>1. CASE Begins
  BY <1>1 DEF Begins, Begun, Enlarging
<1>2. CASE Waits
  <2>1. /\ Net' = Net /\ Sells' = Sells /\ Buys' = Buys /\ Top' = Top
        /\ AmountToEnlarge' = AmountToEnlarge /\ Size(Buys, price)' = Size(Buys, price)
    BY <1>2 DEF Waits, Net, Sells, Buys, Top, AmountToEnlarge
  <2> QED
    BY <1>2, <2>1 DEF Waits, Begun, Enlarging
<1>3. CASE SizeOrders /\ orders = {}
  BY <1>3, Beginning, EnlargementBegins
<1> SUFFICES ASSUME plan.op = "enlarge_both", pc # "size", AmountToEnlarge <= 5 * started.free,
                    \/ Place /\ orders = {}
                    \/ FillsOwn
                    \/ Return /\ orders' = {}
             PROVE  Begun' /\ Enlarging'
  <2>1. ASSUME \/ Place /\ orders = {}
               \/ FillsOwn
               \/ Return /\ orders' = {}
        PROVE  /\ UNCHANGED <<price, started>> /\ pc # "size"
               /\ plan' = plan \/ plan'.op = "idle"
    <3>1. \A o \in orders : pc # "size"
      BY DEF Alone
    <3> QED
      BY <2>1, <3>1, OwnFill, OwnPlace, OwnReturn DEF FillsOwn, Place, Return, Idle, Move
  <2>2. ASSUME \/ Place /\ orders = {}
               \/ FillsOwn
               \/ Return /\ orders' = {},
               ~(plan.op = "enlarge_both" /\ pc # "size" /\ AmountToEnlarge <= 5 * started.free)
        PROVE  Begun' /\ Enlarging'
    <3>1. CASE plan' = plan
      <4>1. AmountToEnlarge' = AmountToEnlarge /\ started' = started
        BY <2>1, <2>2, <3>1 DEF AmountToEnlarge
      <4> QED
        BY <2>1, <2>2, <3>1, <4>1 DEF Begun, Enlarging
    <3>2. CASE plan'.op = "idle"
      BY <2>1, <2>2, <3>2 DEF Begun, Enlarging
    <3> QED
      BY <2>1, <2>2, <3>1, <3>2
  <2> QED
    BY <1>1, <1>2, <1>3, <2>2 DEF QuietStep
<1>4. /\ Sells \in Call /\ Buys \in Call
      /\ Size(Sells, price) \in Nat /\ Size(Buys, price) \in Nat
      /\ Size(Buys, price) <= Size(Sells, price) + 10
      /\ Sells.we = "e1" /\ Sells.side = "sell" /\ Buys.we = "ee" /\ Buys.side = "buy"
  BY EnlargementSizes DEF Inv, Sells, Buys, CallOf
<1>5. Net \in Int /\ started.long \in Int /\ Top \in Int /\ started.long + 10 <= Top
  BY NetTyping DEF Inv, Begun, Top, Larger
<1>6. /\ \A o \in orders : 0 <= o.left /\ o.left <= o.size /\ o.left \in Int /\ o.size \in Int
      /\ \/ /\ task = <<Sells, Buys>>
            /\ orders = {} => Net <= started.long
            /\ \A o \in orders : Net <= started.long - (o.size - o.left)
         \/ /\ task = <<Buys>>
            /\ orders = {} => Net + Size(Buys, price) <= Top
            /\ \A o \in orders : Net + o.left <= Top
  BY DEF Enlarging, Inv, TypeOK, Order
<1>7. ASSUME UNCHANGED <<price, plan, started>>
      PROVE  /\ Sells' = Sells /\ Buys' = Buys /\ Top' = Top /\ started' = started
             /\ AmountToEnlarge' = AmountToEnlarge /\ Size(Buys, price)' = Size(Buys, price)
  BY <1>7 DEF Sells, Buys, Top, AmountToEnlarge
<1> HIDE DEF Sells, Buys, Top
<1>8. Current \in {Sells, Buys}
  BY <1>6 DEF Current
<1>9. CASE Place /\ orders = {}
  <2>1. /\ orders' = {Request} /\ UNCHANGED <<price, plan, task, started>>
        /\ Request.we = Current.we /\ Request.side = Current.side
        /\ Request.size = Size(Current, price) /\ Request.left = Size(Current, price)
        /\ Net' = Net - Reserve(Request).sec
    BY <1>9, OwnPlace
  <2>2. Reserve(Request).sec = 0
    BY <1>4, <1>8, <2>1 DEF Reserve, SetAside
  <2> HIDE DEF Request
  <2>3. Net' = Net
    BY <1>5, <2>1, <2>2
  <2>4. CASE task = <<Sells, Buys>>
    BY <1>4, <1>5, <1>6, <1>7, <1>9, <2>1, <2>3, <2>4 DEF Current, Begun, Enlarging
  <2>5. CASE task = <<Buys>>
    BY <1>4, <1>5, <1>6, <1>7, <1>9, <2>1, <2>3, <2>5 DEF Current, Begun, Enlarging
  <2> QED
    BY <1>6, <2>4, <2>5
<1>10. CASE FillsOwn
  <2>1. PICK o, p \in Order, part \in Int :
           /\ orders = {o} /\ orders' = {p} /\ o.we = Current.we /\ o.side = Current.side
           /\ p.we = o.we /\ p.side = o.side
           /\ p.size = o.size /\ p.left = o.left - part
           /\ o.left >= 0 => 0 <= part /\ part <= o.left
           /\ Net' = Net + (IF o.we = "e1" THEN Signed(o, part)
                           ELSE Released(o, p).sec + Signed(o, part))
           /\ UNCHANGED <<price, pc, plan, task, started>>
    BY <1>10, OwnFill
  <2>2. /\ 0 <= o.left /\ o.left <= o.size /\ 0 <= part /\ part <= o.left
        /\ o.left \in Int /\ o.size \in Int
    BY <1>6, <2>1
  <2>3. CASE task = <<Sells, Buys>>
    <3>1. Net' = Net - part
      BY <1>4, <1>5, <2>1, <2>3 DEF Current, Signed
    <3> QED
      BY <1>5, <1>6, <1>7, <2>1, <2>2, <2>3, <3>1 DEF Begun, Enlarging
  <2>4. CASE task = <<Buys>>
    <3>1. Released(o, p).sec = 0
      BY <1>4, <2>1, <2>4 DEF Current, Released, Reserve, SetAside
    <3>2. Net' = Net + part
      BY <1>4, <1>5, <2>1, <2>4, <3>1 DEF Current, Signed
    <3> QED
      BY <1>5, <1>6, <1>7, <2>1, <2>2, <2>4, <3>2 DEF Begun, Enlarging
  <2> QED
    BY <1>6, <2>3, <2>4
<1>11. CASE Return /\ orders' = {}
  <2>1. /\ \E o \in orders : o.left = 0 /\ o.size = Size(Current, price)
        /\ task' = Tail(task) /\ plan' = IF Len(task) = 1 THEN Idle ELSE plan
        /\ UNCHANGED <<price, started>> /\ Net' = Net /\ pc' # "size" /\ pc = "refresh"
    BY <1>11, OwnReturn
  <2>2. CASE task = <<Sells, Buys>>
    <3>1. task' = <<Buys>> /\ Len(task) = 2 /\ Current = Sells
      BY <1>4, <2>1, <2>2 DEF Current
    <3>2. Net <= started.long - Size(Sells, price)
      BY <1>4, <1>5, <1>6, <2>1, <2>2, <3>1
    <3>3. Net + Size(Buys, price) <= Top
      BY <1>4, <1>5, <3>2
    <3>4. plan' = plan
      BY <2>1, <3>1
    <3> QED
      BY <1>5, <1>7, <1>11, <2>1, <3>1, <3>3, <3>4 DEF Begun, Enlarging
  <2>3. CASE task = <<Buys>>
    <3>1. plan'.op = "idle" /\ started' = started
      BY <2>1, <2>3 DEF Idle, Move
    <3> QED
      BY <3>1 DEF Begun, Enlarging
  <2> QED
    BY <1>6, <2>2, <2>3
<1> QED
  BY <1>9, <1>10, <1>11

Ledger == Quiet => Alone /\ Begun /\ Enlarging

LEMMA LedgerOpens == Init => Ledger
BY DEF Init, Ledger, Alone, Begun, Enlarging, Idle, Move

LEMMA LedgerStep == Inv /\ Ledger /\ [Next]_vars => Ledger'
<1> SUFFICES ASSUME Inv, Ledger, [Next]_vars, Quiet'
             PROVE  Alone' /\ Begun' /\ Enlarging'
  BY DEF Ledger
<1>1. Quiet /\ QuietStep /\ price' = price /\ Alone'
  BY QuietSteps DEF Ledger
<1> QED
  BY <1>1, EnlargingStep DEF Ledger

(* While nothing fails and the price stands still, no ATOM is bought       *)
(* before its hedge is sold, whatever the prices, balances and amounts.    *)
THEOREM HedgeComesFirst == Spec => []HedgedFirst
<1>1. Inv /\ Ledger => HedgedFirst
  <2> SUFFICES ASSUME Inv, Alone, Begun, Enlarging, plan.op = "enlarge_both", pc # "size",
                      AmountToEnlarge <= 5 * started.free
               PROVE  NetLong <= Top
    BY DEF Ledger, Quiet, HedgedFirst, Top, AmountStep
  <2>1. /\ \A o \in orders : 0 <= o.left /\ o.left <= o.size /\ o.left \in Int /\ o.size \in Int
        /\ \/ /\ task = <<Sells, Buys>>
              /\ orders = {} => Net <= started.long
              /\ \A o \in orders : Net <= started.long - (o.size - o.left)
           \/ /\ task = <<Buys>>
              /\ orders = {} => Net + Size(Buys, price) <= Top
              /\ \A o \in orders : Net + o.left <= Top
    BY DEF Enlarging, Inv, TypeOK, Order
  <2>2. Current \in {Sells, Buys}
    BY <2>1 DEF Current
  <2>3. \A o \in Open : ~(o.we = "ee" /\ o.side = "sell")
    BY <2>2 DEF Alone, Open, Sells, Buys, CallOf
  <2>4. NetLong = Net
    BY <2>3, NetWithoutSales DEF Inv
  <2>5. Net \in Int /\ started.long \in Int /\ Top \in Int /\ started.long + 10 <= Top
    BY NetTyping DEF Inv, Begun, Top, Larger
  <2>6. Size(Buys, price) \in Nat
    BY EnlargementSizes DEF Inv
  <2> HIDE DEF Top
  <2>7. CASE orders = {}
    BY <2>1, <2>4, <2>5, <2>6, <2>7
  <2>8. ASSUME NEW o \in orders PROVE Net <= Top
    BY <2>1, <2>5, <2>8
  <2> QED
    BY <2>4, <2>7, <2>8
<1> QED
  BY <1>1, LedgerOpens, LedgerStep, Invariance, PTL DEF Spec

-----------------------------------------------------------------------------
(* The ledger of do_reduce_secondary_soft. *)

SellsOnEe(a) == CallOf("ee", "sell", "sec", a)
BuysBack(c)  == CallOf("e1", "buy", "sec", c)

(* What is sold and what is bought back keep the hedge. *)
Even(a, c) == Abs(started.long - a + Down(c, 10)) <= Abs(started.long) + 110

Covered == started.long >= -100 /\ started.ee >= 100 /\ started.ee * price >= plan.amount

(* What Binance sells is set aside at once; what dYdX buys back is added   *)
(* as it is filled.                                                        *)
Reducing ==
  /\ plan.op = "reduce_both" /\ pc # "size" /\ Covered
  => \E a, c \in Int :
       /\ Even(a, c)
       /\ \/ /\ task = <<SellsOnEe(a), BuysBack(c)>>
             /\ orders = {} => Net = started.long
             /\ \A o \in orders : Net = started.long - o.size
          \/ /\ task = <<BuysBack(c)>>
             /\ orders = {} => Net = started.long - a
             /\ \A o \in orders : Net = started.long - a + (o.size - o.left)

(* What is staked is none of the orders' business. *)
Stake == bal.staked >= 0 /\ bal.unstaked >= 0

LEMMA StakeOpens == Init => Stake
BY OrdersAssumption DEF Init, Stake, Fields

LEMMA StakeStep == Inv /\ Stake /\ [Next]_vars => Stake'
<1> SUFFICES ASSUME Inv, [Next]_vars PROVE bal'.staked = bal.staked /\ bal'.unstaked = bal.unstaked
  BY DEF Stake
<1>1. bal \in [Fields -> Int]
  BY DEF Inv, TypeOK
<1>2. CASE \/ UNCHANGED vars \/ EnlargeBoth \/ ReduceBoth \/ SizeOrders \/ ReadBook
           \/ Insufficient \/ Retry \/ Refuse \/ Abort \/ Expire \/ Poll \/ Return \/ Resume
  BY <1>2 DEF vars, EnlargeBoth, ReduceBoth, SizeOrders, ReadBook, Insufficient, Retry, Refuse,
     Abort, Expire, Poll, Return, Resume, Enter
<1>3. CASE Hedge
  <2>1. PICK sample \in Samples :
          LET move == KeepHedge(bal, Quotes, sample)
          IN CASE move.op = "reduce_short"  -> Enter("book", move, ChangeShort(-move.amount))
               [] move.op = "enlarge_short" -> Enter("book", move, ChangeShort(move.amount))
               [] OTHER -> UNCHANGED vars
    BY <1>3, Zenon DEF Hedge
  <2> DEFINE move == KeepHedge(bal, Quotes, sample)
  <2>2. (\E calls : Enter("book", move, calls)) \/ UNCHANGED vars
    BY <2>1, Zenon
  <2> QED
    BY <2>2 DEF Enter, vars
<1>4. CASE Place \/ AnswerLost
  BY <1>1, <1>4 DEF Place, AnswerLost, Book, Fields
<1>5. ASSUME NEW o, NEW part, Fill(o, part)
      PROVE  bal'.staked = bal.staked /\ bal'.unstaked = bal.unstaked
  <2>1. \/ bal' = [bal EXCEPT !.short = @ - Signed(o, part)]
        \/ \E x, y : bal' = [bal EXCEPT !.eePrim = x, !.eeSec = y]
    BY <1>5 DEF Fill
  <2> QED
    BY <1>1, <2>1 DEF Fields
<1>6. CASE FillWhole \/ FillHalf
  BY <1>5, <1>6 DEF FillWhole, FillHalf
<1>7. CASE Cancel \/ PriceMove
  BY <1>1, <1>7 DEF Cancel, PriceMove, Fields
<1> QED
  BY <1>2, <1>3, <1>4, <1>6, <1>7 DEF Next, Program

(* What the two orders are for: Binance sells what is to be sold, or up to *)
(* an ATOM more; dYdX buys that back, or all that is short.                *)
LEMMA ReductionIsEven ==
  ASSUME TypeOK, Stake, Net >= -100, bal.eeSec >= 100, bal.eeSec * price >= plan.amount
  PROVE  /\ ReduceOnEe \in Int /\ ReduceOnE1 \in Int /\ ReduceOnEe > 0
         /\ Abs(Net - ReduceOnEe + Down(ReduceOnE1, 10)) <= Abs(Net) + 110
<1> DEFINE R == SizeToReduce
           E == bal.eeSec
           short == bal.short
           a == ReduceOnEe
           c == ReduceOnE1
<1>1. /\ E \in Int /\ short \in Int /\ Net \in Int /\ plan.amount \in Int
      /\ price \in Nat \ {0}
  BY NetTyping
<1>2. R \in Int /\ 100 <= R /\ R <= E
  <2> DEFINE n == plan.amount \div price
  <2>1. n \in Int /\ price * n <= plan.amount
    BY <1>1, Division
  <2> HIDE DEF n
  <2>2. n <= E
    <3> SUFFICES ASSUME n >= E + 1 PROVE FALSE
      BY <1>1, <2>1
    <3>1. (n - E - 1) * price >= 0
      BY <1>1, <2>1
    <3>2. (n - E - 1) * price = price * n - E * price - price
      BY <1>1, <2>1
    <3>3. price * n \in Int /\ E * price \in Int
      BY <1>1, <2>1
    <3> QED
      BY <1>1, <2>1, <3>1, <3>2, <3>3
  <2>3. R = Larger(n, 100)
    BY DEF SizeToReduce, n, Atom
  <2> QED
    BY <1>1, <2>1, <2>2, <2>3 DEF Larger
<1>3. Net >= E - short
  <2>1. /\ bal.staked \in Int /\ bal.unstaked \in Int
        /\ bal.staked >= 0 /\ bal.unstaked >= 0
    BY DEF Stake, TypeOK, Fields
  <2> QED
    BY <1>1, <2>1 DEF Net, Held
<1>4. Held(bal) - bal.short = Net
  BY DEF Net
<1> HIDE DEF R
<1>5. a = IF E - R < 100 THEN E ELSE R
  BY <1>1, <1>2, <1>4 DEF ReduceOnEe, Smaller, Atom, R
<1>6. c = Larger(IF short - R < 100 THEN short ELSE R, 110)
  BY DEF ReduceOnE1, Atom, R
<1> HIDE DEF E, short, a, c
<1>7. /\ a \in Int /\ R <= a /\ a <= R + 99 /\ a <= E
  BY <1>1, <1>2, <1>5
<1>8. c \in Int
  BY <1>1, <1>2, <1>6 DEF Larger
<1> DEFINE bought == Down(c, 10)
<1>9. bought \in Int /\ bought <= c /\ c <= bought + 9 /\ (c = 110 => bought = 110)
  BY <1>8, Rounding
<1> HIDE DEF bought
<1>10. Net - a + bought <= Net + 99
  BY <1>1, <1>2, <1>6, <1>7, <1>9 DEF Larger
<1>11. Net - a + bought >= Net - 108 \/ Net - a + bought >= -9
  <2>1. CASE short - R < 100
    BY <1>1, <1>2, <1>3, <1>6, <1>7, <1>9, <2>1 DEF Larger
  <2>2. CASE ~(short - R < 100)
    BY <1>1, <1>2, <1>6, <1>7, <1>9, <2>2 DEF Larger
  <2> QED
    BY <2>1, <2>2
<1>12. Abs(Net - a + bought) <= Abs(Net) + 110
  BY <1>1, <1>7, <1>9, <1>10, <1>11 DEF Abs
<1>13. a > 0
  BY <1>2, <1>7
<1> QED
  BY <1>7, <1>8, <1>12, <1>13 DEF a, c, bought

LEMMA ReductionBegins ==
  ASSUME Inv, Stake, SizeOrders, orders = {}
  PROVE  Reducing'
<1> DEFINE a == ReduceOnEe
           c == ReduceOnE1
<1>1. /\ started'.long = Net /\ started'.ee = bal.eeSec
      /\ UNCHANGED <<bal, orders, price, plan>>
      /\ task' = IF plan.op = "reduce_both" THEN Reduction ELSE Enlargement
  BY Beginning
<1> SUFFICES ASSUME plan.op = "reduce_both", Net >= -100, bal.eeSec >= 100,
                    bal.eeSec * price >= plan.amount
             PROVE  \E x, y \in Int :
                      /\ Abs(Net - x + Down(y, 10)) <= Abs(Net) + 110
                      /\ task' = <<SellsOnEe(x), BuysBack(y)>>
  <2>1. Net' = Net
    BY <1>1 DEF Net
  <2> QED
    BY <1>1, <2>1 DEF Reducing, Covered, Even
<1>2. /\ a \in Int /\ c \in Int /\ a > 0
      /\ Abs(Net - a + Down(c, 10)) <= Abs(Net) + 110
  BY ReductionIsEven DEF Inv
<1>3. SellsOnEe(a) \in Call /\ BuysBack(c) \in Call
  BY <1>2 DEF SellsOnEe, BuysBack, CallOf, Call
<1>4. task' = <<SellsOnEe(a)>> \o <<BuysBack(c)>>
  BY <1>1, <1>2 DEF Reduction, SellsOnEe, BuysBack
<1> HIDE DEF a, c
<1>5. task' = <<SellsOnEe(a), BuysBack(c)>>
  BY <1>3, <1>4, TwoCalls
<1> QED
  BY <1>2, <1>5

(* The sizes of the two orders. *)
LEMMA ReductionSizes ==
  ASSUME NEW a \in Int, NEW c \in Int
  PROVE  /\ SellsOnEe(a) \in Call /\ BuysBack(c) \in Call
         /\ SellsOnEe(a).we = "ee" /\ SellsOnEe(a).side = "sell"
         /\ BuysBack(c).we = "e1" /\ BuysBack(c).side = "buy"
         /\ Size(SellsOnEe(a), price) = a
         /\ Size(BuysBack(c), price) = Down(c, 10) /\ Down(c, 10) \in Int
<1>1. Down(a, 1) = a /\ Down(c, 10) \in Int
  BY Rounding
<1> QED
  BY <1>1 DEF SellsOnEe, BuysBack, CallOf, Call, Size, AmountStep

LEMMA ReducingStep ==
  ASSUME Inv, Alone, Begun, Stake, Reducing, QuietStep, price' = price
  PROVE  Reducing'
<1>1. CASE Begins
  BY <1>1 DEF Begins, Reducing
<1>2. CASE Waits
  <2>1. Net' = Net
    BY <1>2 DEF Waits, Net
  <2> QED
    BY <1>2, <2>1 DEF Waits, Reducing, Covered, Even
<1>3. CASE SizeOrders /\ orders = {}
  BY <1>3, ReductionBegins
<1>4. ASSUME \/ Place /\ orders = {}
             \/ FillsOwn
             \/ Return /\ orders' = {}
      PROVE  /\ UNCHANGED <<price, started>> /\ pc # "size"
             /\ plan' = plan \/ plan'.op = "idle"
  <2>1. \A o \in orders : pc # "size"
    BY DEF Alone
  <2> QED
    BY <1>4, <2>1, OwnFill, OwnPlace, OwnReturn DEF FillsOwn, Place, Return, Idle, Move
<1> SUFFICES ASSUME plan.op = "reduce_both", pc # "size", Covered,
                    \/ Place /\ orders = {}
                    \/ FillsOwn
                    \/ Return /\ orders' = {}
             PROVE  Reducing'
  BY <1>1, <1>2, <1>3, <1>4 DEF QuietStep, Reducing, Covered
<1>5. PICK a, c \in Int :
        /\ Even(a, c)
        /\ \/ /\ task = <<SellsOnEe(a), BuysBack(c)>>
              /\ orders = {} => Net = started.long
              /\ \A o \in orders : Net = started.long - o.size
           \/ /\ task = <<BuysBack(c)>>
              /\ orders = {} => Net = started.long - a
              /\ \A o \in orders : Net = started.long - a + (o.size - o.left)
  BY DEF Reducing
<1> DEFINE sell == SellsOnEe(a)
           buy == BuysBack(c)
           bought == Down(c, 10)
<1>6. /\ sell \in Call /\ buy \in Call /\ sell.we = "ee" /\ sell.side = "sell"
      /\ buy.we = "e1" /\ buy.side = "buy"
      /\ Size(sell, price) = a /\ Size(buy, price) = bought /\ bought \in Int
  BY ReductionSizes
<1>7. Net \in Int /\ started.long \in Int
  BY NetTyping DEF Inv, Begun
<1>8. Even(a, c)' = Even(a, c)
  BY <1>4 DEF Even
<1> HIDE DEF sell, buy, bought
<1> SUFFICES \/ plan'.op = "idle"
             \/ /\ task' = <<sell, buy>>
                /\ orders' # {} /\ \A o \in orders' : Net' = started.long - o.size
             \/ /\ task' = <<buy>>
                /\ orders' = {} => Net' = started.long - a
                /\ \A o \in orders' : Net' = started.long - a + (o.size - o.left)
  BY <1>4, <1>5, <1>8 DEF Reducing, sell, buy
<1>9. \/ /\ task = <<sell, buy>>
         /\ orders = {} => Net = started.long
         /\ \A o \in orders : Net = started.long - o.size
      \/ /\ task = <<buy>>
         /\ orders = {} => Net = started.long - a
         /\ \A o \in orders : Net = started.long - a + (o.size - o.left)
  BY <1>5 DEF sell, buy
<1>10. CASE Place /\ orders = {}
  <2>1. /\ orders' = {Request} /\ UNCHANGED <<price, plan, task, started>>
        /\ Request.we = Current.we /\ Request.side = Current.side
        /\ Request.size = Size(Current, price) /\ Request.left = Size(Current, price)
        /\ Net' = Net - Reserve(Request).sec
    BY <1>10, OwnPlace
  <2>2. CASE task = <<sell, buy>>
    <3>1. Current = sell
      BY <2>2 DEF Current
    <3>2. Reserve(Request).sec = a
      BY <1>6, <2>1, <3>1 DEF Reserve, SetAside
    <3> HIDE DEF Request
    <3>3. Request.size = a
      BY <1>6, <2>1, <3>1
    <3>4. Net = started.long
      BY <1>6, <1>9, <1>10, <2>2
    <3> QED
      BY <1>7, <2>1, <2>2, <3>2, <3>3, <3>4
  <2>3. CASE task = <<buy>>
    <3>1. Current = buy
      BY <2>3 DEF Current
    <3>2. Reserve(Request).sec = 0
      BY <1>6, <2>1, <3>1 DEF Reserve, SetAside
    <3> HIDE DEF Request
    <3>3. Request.size = bought /\ Request.left = bought
      BY <1>6, <2>1, <3>1
    <3>4. Net = started.long - a
      BY <1>6, <1>9, <1>10, <2>3
    <3> QED
      BY <1>6, <1>7, <2>1, <2>3, <3>2, <3>3, <3>4
  <2> QED
    BY <1>9, <2>2, <2>3
<1>11. CASE FillsOwn
  <2>1. PICK o, p \in Order, part \in Int :
           /\ orders = {o} /\ orders' = {p} /\ o.we = Current.we /\ o.side = Current.side
           /\ p.we = o.we /\ p.side = o.side
           /\ p.size = o.size /\ p.left = o.left - part
           /\ Net' = Net + (IF o.we = "e1" THEN Signed(o, part)
                           ELSE Released(o, p).sec + Signed(o, part))
           /\ UNCHANGED <<price, pc, plan, task, started>>
    BY <1>11, OwnFill
  <2>2. o.left \in Int /\ o.size \in Int
    BY DEF Order
  <2>3. CASE task = <<sell, buy>>
    <3>1. Current = sell
      BY <2>3 DEF Current
    <3>2. Released(o, p).sec = part
      BY <1>6, <2>1, <2>2, <3>1 DEF Released, Reserve, SetAside
    <3>3. Net' = Net
      BY <1>6, <1>7, <2>1, <3>1, <3>2 DEF Signed
    <3>4. Net = started.long - o.size
      BY <1>6, <1>9, <2>1, <2>3
    <3> QED
      BY <2>1, <2>3, <3>3, <3>4
  <2>4. CASE task = <<buy>>
    <3>1. Current = buy
      BY <2>4 DEF Current
    <3>2. Net' = Net + part
      BY <1>6, <1>7, <2>1, <3>1 DEF Signed
    <3>3. Net = started.long - a + (o.size - o.left)
      BY <1>6, <1>9, <2>1, <2>4
    <3> QED
      BY <1>7, <2>1, <2>2, <2>4, <3>2, <3>3
  <2> QED
    BY <1>9, <2>3, <2>4
<1>12. CASE Return /\ orders' = {}
  <2>1. PICK o \in orders : o.left = 0 /\ o.size = Size(Current, price)
    BY <1>12, OwnReturn, Zenon
  <2>2. /\ task' = Tail(task) /\ plan' = IF Len(task) = 1 THEN Idle ELSE plan
        /\ Net' = Net
    BY <1>12, OwnReturn
  <2>3. CASE task = <<sell, buy>>
    <3>1. task' = <<buy>> /\ Current = sell
      BY <1>6, <2>2, <2>3 DEF Current
    <3>2. Net = started.long - a
      BY <1>6, <1>9, <2>1, <2>3, <3>1
    <3> QED
      BY <1>12, <2>2, <3>1, <3>2
  <2>4. CASE task = <<buy>>
    <3>1. plan'.op = "idle"
      BY <2>2, <2>4 DEF Idle, Move
    <3> QED
      BY <3>1
  <2> QED
    BY <1>9, <2>3, <2>4
<1> QED
  BY <1>10, <1>11, <1>12

(* While nothing fails and the price stands still, a reduction leaves the  *)
(* hedge as it was but for one ATOM and a tenth, whatever the prices,      *)
(* balances and amounts.                                                   *)
THEOREM ReductionStaysEven == Spec => []EvenReduction
<1> DEFINE Reduces == Quiet => Reducing
<1>1. Init => Reduces
  BY DEF Init, Reducing, Idle, Move
<1>2. Inv /\ Ledger /\ Stake /\ Reduces /\ [Next]_vars => Reduces'
  <2> SUFFICES ASSUME Inv, Ledger, Stake, Reduces, [Next]_vars, Quiet' PROVE Reducing'
    OBVIOUS
  <2>1. Quiet /\ QuietStep /\ price' = price
    BY QuietSteps DEF Ledger
  <2> QED
    BY <2>1, ReducingStep DEF Ledger
<1>3. Inv /\ Ledger /\ Reduces => EvenReduction
  <2> SUFFICES ASSUME Inv, Alone, Begun, Reducing, plan.op = "reduce_both", Covered,
                      pc = "refresh", Len(task) = 1
               PROVE  Abs(NetLong) <= Abs(started.long) + Atom + AmountStep("e1")
    <3>1. started.long >= -Atom /\ started.ee >= Atom
          <=> started.long >= -100 /\ started.ee >= 100
      BY DEF Atom
    <3> QED
      BY <3>1 DEF Ledger, Quiet, EvenReduction, Covered
  <2>1. PICK a, c \in Int :
          /\ Even(a, c)
          /\ \/ task = <<SellsOnEe(a), BuysBack(c)>>
             \/ /\ task = <<BuysBack(c)>>
                /\ \A o \in orders : Net = started.long - a + (o.size - o.left)
    BY DEF Reducing
  <2>2. /\ task = <<BuysBack(c)>>
        /\ \A o \in orders : Net = started.long - a + (o.size - o.left)
    BY <2>1
  <2>3. PICK o \in orders : o.id = own
    BY DEF Inv, Tracked
  <2>4. \A p \in orders : p.status = "filled" /\ p.left = 0 /\ p.size = Size(Current, price)
    BY DEF Inv, Tracked, Alone
  <2>5. Current = BuysBack(c)
    BY <2>2 DEF Current
  <2>6. o.left = 0 /\ o.size = Down(c, 10) /\ Down(c, 10) \in Int
    BY <2>4, <2>5, ReductionSizes
  <2>7. Net = started.long - a + Down(c, 10)
    BY <2>2, <2>6 DEF Begun
  <2>8. NetLong = Net
    <3>1. \A p \in Open : ~(p.we = "ee" /\ p.side = "sell")
      BY <2>4 DEF Open
    <3> QED
      BY <3>1, NetWithoutSales DEF Inv
  <2>9. Abs(started.long) \in Int
    BY DEF Begun, Abs
  <2> QED
    BY <2>1, <2>7, <2>8, <2>9 DEF Even, Atom, AmountStep
<1> QED
  BY <1>1, <1>2, <1>3, LedgerOpens, LedgerStep, StakeOpens, StakeStep, Invariance, PTL DEF Spec
=============================================================================
