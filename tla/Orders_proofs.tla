---------------------------- MODULE Orders_proofs ----------------------------
(***************************************************************************)
(* Proofs about Orders, for every choice of its constants: its typing, and *)
(* that a call of change_tokens_ex has one order accepted at most and ends *)
(* well only when that order is filled.                                    *)
(***************************************************************************)
EXTENDS Orders, TLAPS

-----------------------------------------------------------------------------
(* What the operators return. *)

(* Prices are positive. *)
LEMMA PositivePrices == \A p \in Prices : p \in Nat /\ p > 0
BY OrdersAssumption

(* Sizes are integers, and limit prices positive ones. *)
LEMMA SizeTyping ==
  ASSUME NEW c \in Call, NEW p \in Prices
  PROVE  Size(c, p) \in Int /\ LimitPrice(c, p) \in Int /\ LimitPrice(c, p) > 0
<1>1. p \in Nat /\ p > 0
  BY PositivePrices
<1>2. AmountStep(c.we) \in {1, 10} /\ PriceStep(c.we) \in {1, 100}
  BY DEF AmountStep, PriceStep
<1>3. LimitPrice(c, p) \in Int /\ LimitPrice(c, p) > 0
  <2>1. CASE PriceStep(c.we) = 1
    BY <1>1, <2>1, SMT DEF LimitPrice, Up, Down
  <2>2. CASE PriceStep(c.we) = 100
    BY <1>1, <2>2, SMT DEF LimitPrice, Up, Down
  <2> QED
    BY <1>2, <2>1, <2>2
<1>4. c.amount \in Int
  BY DEF Call
<1>5. (1000 * c.amount) \div LimitPrice(c, p) \in Int
  BY <1>3, <1>4, SMT
<1>6. PICK raw \in Int : Size(c, p) = Down(raw, AmountStep(c.we))
  BY <1>4, <1>5 DEF Size
<1>7. \A step \in {1, 10} : Down(raw, step) \in Int
  BY <1>6, SMT DEF Down
<1> QED
  BY <1>2, <1>3, <1>6, <1>7

(* What Binance sets aside is an amount. *)
LEMMA ReserveTyping ==
  ASSUME NEW o, o.left \in Int, o.limit \in Int
  PROVE  Reserve(o).prim \in Int /\ Reserve(o).sec \in Int
<1>1. Worth(o.left, o.limit) \in Int
  BY SMT DEF Worth
<1> QED
  BY <1>1 DEF Reserve, SetAside

(* A request is an order, but for its id when there is no room. *)
LEMMA RequestTyping ==
  ASSUME task \in Seq(Call), task # <<>>, quote \in Prices
  PROVE  /\ Current \in Call
         /\ Room => Request \in Order
         /\ Request.status = "open"
         /\ Request.left \in Int /\ Request.limit \in Int
         /\ Room => Request.id \in Ids /\ \A o \in orders : o.id # Request.id
<1>1. Current \in Call
  BY DEF Current
<1>2. Size(Current, quote) \in Int /\ LimitPrice(Current, quote) \in Int
  BY <1>1, SizeTyping
<1>3. Room => /\ (CHOOSE n \in Ids : \A o \in orders : o.id # n) \in Ids
              /\ \A o \in orders : o.id # (CHOOSE n \in Ids : \A p \in orders : p.id # n)
  BY DEF Room
<1> QED
  BY <1>1, <1>2, <1>3 DEF Request, RequestAt, Order, Call

(* Detection and the actions ask for amounts. *)
LEMMA KeepHedgeTyping ==
  ASSUME bal \in [Fields -> Int], price \in Prices, NEW sample \in Samples
  PROVE  KeepHedge(bal, Quotes, sample).amount \in Int
<1>1. price \in Nat /\ price > 0 /\ sample \in Int /\ MaxOrder \in Nat /\ MaxOrderDev \in Nat
  BY PositivePrices, OrdersAssumption, OrderAssumption
<1>2. /\ bal.short \in Int /\ bal.eeSec \in Int /\ bal.staked \in Int
      /\ bal.unstaked \in Int
  BY DEF Fields
<1>3. ShortStakeDelta(bal) \in Int
  BY <1>2, SMT DEF ShortStakeDelta
<1>4. \A x \in Int : OrderSizeSec(sample, x, price) \in Int
  <2> TAKE x \in Int
  <2>1. OrderSize(sample, x * price) \in Int
    BY <1>1, SMT DEF OrderSize
  <2>2. OrderSize(sample, x * price) \div price \in Int
    BY <1>1, <2>1, SMT
  <2> QED
    BY <2>2, SMT DEF OrderSizeSec, Larger, Atom
<1>5. -ShortStakeDelta(bal) \in Int
  BY <1>3, SMT
<1> QED
  BY <1>2, <1>3, <1>4, <1>5 DEF KeepHedge, Move, Quotes, Panic

-----------------------------------------------------------------------------
(* The invariant: ids are not shared, and the program has the order it     *)
(* polls, and no other, accepted in the current call.                      *)

Tracked ==
  /\ \A o, p \in orders : o.id = p.id => o = p
  /\ \A o \in orders : o.status = "filled" => o.left = 0
  /\ pc \in {"book", "place", "pause", "poll", "refresh"} => task # <<>>
  /\ accepted = IF pc \in {"poll", "refresh"} THEN 1 ELSE 0
  /\ pc \in {"poll", "refresh"} => \E o \in orders : o.id = own
  /\ pc = "refresh" => \A o \in orders : o.id = own => o.status = "filled"

Inv == TypeOK /\ Tracked

LEMMA OpeningInv == Init => Inv
<1> SUFFICES ASSUME Init PROVE Inv
  OBVIOUS
<1>1. bal \in [Fields -> Int]
  BY OrdersAssumption DEF Init
<1>2. TypeOK
  BY <1>1, OrdersAssumption DEF Init, TypeOK, Idle, Move, Call
<1>3. Tracked
  BY DEF Init, Tracked
<1> QED
  BY <1>2, <1>3 DEF Inv

(* The lists of calls the actions make. *)
LEMMA CallsTyping ==
  ASSUME TypeOK
  PROVE  /\ \A x \in Int : ChangeShort(x) \in Seq(Call) /\ ChangeShort(x) # <<>>
         /\ Reduction \in Seq(Call) /\ Reduction # <<>>
         /\ Enlargement \in Seq(Call) /\ Enlargement # <<>>
<1>1. price \in Nat /\ price > 0 /\ plan.amount \in Int
  BY PositivePrices DEF TypeOK
<1>2. /\ bal.short \in Int /\ bal.eeSec \in Int /\ bal.staked \in Int
      /\ bal.unstaked \in Int /\ bal.e1Total \in Int
  BY DEF TypeOK, Fields
<1>3. \A we \in {"e1", "ee"}, side \in {"buy", "sell"}, coin \in {"prim", "sec"}, x \in Int :
        CallOf(we, side, coin, x) \in Call
  BY DEF CallOf, Call
<1>4. \A a, b \in Call : /\ <<a>> \in Seq(Call) /\ <<a>> # <<>>
                         /\ <<a>> \o <<b>> \in Seq(Call) /\ <<a>> \o <<b>> # <<>>
                         /\ <<>> \o <<b>> \in Seq(Call) /\ <<>> \o <<b>> # <<>>
  OBVIOUS
<1>5. \A x, y \in Int : Larger(x, y) \in Int /\ Smaller(x, y) \in Int
  BY DEF Larger, Smaller
<1>6. SizeToReduce \in Int
  <2>1. plan.amount \div price \in Int
    BY <1>1, SMT
  <2>2. Atom \in Int
    BY DEF Atom
  <2> QED
    BY <2>1, <2>2, <1>5, Zenon DEF SizeToReduce
<1>7. ReduceOnEe \in Int /\ ReduceOnE1 \in Int
  <2>1. Smaller(bal.eeSec, SizeToReduce) \in Int
    BY <1>2, <1>5, <1>6
  <2>2. ReduceOnEe \in Int
    BY <1>2, <2>1 DEF ReduceOnEe
  <2>3. (11 * Atom) \div 10 \in Int
    BY SMT DEF Atom
  <2> QED
    BY <1>2, <1>5, <1>6, <2>2, <2>3 DEF ReduceOnE1
<1>8. AmountToEnlarge \in Int /\ AmountOnE1 \in Int
  <2>1. (1005 * price) \div 10 \in Int
    BY <1>1, SMT
  <2>2. AmountToEnlarge \in Int
    <3>1. \A y \in Int : Larger(plan.amount, y) \in Int
      BY <1>1, <1>5
    <3> QED
      BY <2>1, <3>1, Zenon DEF AmountToEnlarge
  <2>3. 5 * E1Free \in Int
    BY <1>1, <1>2, SMT DEF E1Free, Abs
  <2> QED
    BY <1>5, <2>2, <2>3 DEF AmountOnE1
<1>9. Larger(AmountOnE1 \div price, Atom) \in Int
  <2>1. AmountOnE1 \div price \in Int
    BY <1>1, <1>8, SMT
  <2>2. Atom \in Int
    BY DEF Atom
  <2> QED
    BY <1>5, <2>1, <2>2, Zenon
<1>10. \A x \in Int : ChangeShort(x) \in Seq(Call) /\ ChangeShort(x) # <<>>
  BY <1>3, <1>4 DEF ChangeShort
<1>11. Reduction \in Seq(Call) /\ Reduction # <<>>
  BY <1>3, <1>4, <1>7 DEF Reduction
<1>12. Enlargement \in Seq(Call) /\ Enlargement # <<>>
  BY <1>3, <1>4, <1>8, <1>9 DEF Enlargement
<1> QED
  BY <1>10, <1>11, <1>12

-----------------------------------------------------------------------------
(* The steps of the program between two requests. *)

LEMMA EnterInv ==
  ASSUME Inv, pc \in {"idle", "size"}, NEW step \in {"size", "book"}, NEW move, NEW calls,
         move.amount \in Int, calls \in Seq(Call), step = "book" => calls # <<>>,
         Enter(step, move, calls), wished' \in 0 .. MaxWishes
  PROVE  Inv'
<1>1. TypeOK'
  BY DEF Inv, TypeOK, Enter, Steps
<1>2. Tracked'
  BY DEF Inv, TypeOK, Tracked, Enter
<1> QED
  BY <1>1, <1>2 DEF Inv

LEMMA HedgeInv == Inv /\ Hedge => Inv'
<1> SUFFICES ASSUME Inv, Hedge PROVE Inv'
  OBVIOUS
<1>1. pc = "idle" /\ wished' \in 0 .. MaxWishes
  BY DEF Hedge, Unbegun, Inv, TypeOK
<1>2. PICK sample \in Samples :
        LET move == KeepHedge(bal, Quotes, sample)
        IN CASE move.op = "reduce_short"  -> Enter("book", move, ChangeShort(-move.amount))
             [] move.op = "enlarge_short" -> Enter("book", move, ChangeShort(move.amount))
             [] OTHER -> UNCHANGED vars
  BY Zenon DEF Hedge
<1> DEFINE move == KeepHedge(bal, Quotes, sample)
<1>3. move.amount \in Int /\ -move.amount \in Int
  <2>1. move.amount \in Int
    BY KeepHedgeTyping DEF Inv, TypeOK
  <2> QED
    BY <2>1
<1>4. \/ Enter("book", move, ChangeShort(-move.amount))
      \/ Enter("book", move, ChangeShort(move.amount))
      \/ UNCHANGED vars
  BY <1>2, Zenon
<1> HIDE DEF move
<1>5. CASE Enter("book", move, ChangeShort(-move.amount))
  BY <1>1, <1>3, <1>5, CallsTyping, EnterInv DEF Inv
<1>6. CASE Enter("book", move, ChangeShort(move.amount))
  BY <1>1, <1>3, <1>6, CallsTyping, EnterInv DEF Inv
<1>7. CASE UNCHANGED vars
  BY <1>7 DEF Inv, TypeOK, Tracked, vars, locals, history, counters, Request, RequestAt, Current
<1> QED
  BY <1>4, <1>5, <1>6, <1>7

LEMMA DecisionInv ==
  Inv /\ (EnlargeBoth \/ ReduceBoth \/ SizeOrders) => Inv'
<1> SUFFICES ASSUME Inv PROVE EnlargeBoth \/ ReduceBoth \/ SizeOrders => Inv'
  OBVIOUS
<1>1. ASSUME EnlargeBoth PROVE Inv'
  <2>1. bal.eePrim \in Int
    BY DEF Inv, TypeOK, Fields
  <2>2. Move("enlarge_both", bal.eePrim).amount \in Int
    BY <2>1 DEF Move
  <2>3. wished' \in 0 .. MaxWishes /\ <<>> \in Seq(Call) /\ pc = "idle"
    BY <1>1 DEF EnlargeBoth, Unbegun, Inv, TypeOK
  <2> QED
    BY <1>1, <2>2, <2>3, EnterInv DEF EnlargeBoth
<1>2. ASSUME ReduceBoth PROVE Inv'
  <2>1. PICK amount \in Wishes \cup {bal.eeSec * price} :
          Enter("size", Move("reduce_both", amount), <<>>)
    BY <1>2 DEF ReduceBoth
  <2>2. bal.eeSec \in Int /\ price \in Int
    BY OrdersAssumption DEF Inv, TypeOK, Fields
  <2>3. amount \in Int
    BY <2>2, OrdersAssumption
  <2>4. Move("reduce_both", amount).amount \in Int
    BY <2>3 DEF Move
  <2>5. wished' \in 0 .. MaxWishes /\ <<>> \in Seq(Call) /\ pc = "idle"
    BY <1>2, OrdersAssumption DEF ReduceBoth, Inv, TypeOK
  <2> QED
    BY <2>1, <2>4, <2>5, EnterInv
<1>3. ASSUME SizeOrders PROVE Inv'
  <2> DEFINE calls == IF plan.op = "reduce_both" THEN Reduction ELSE Enlargement
  <2>1. calls \in Seq(Call) /\ calls # <<>>
    BY CallsTyping DEF Inv
  <2>2. pc = "size" /\ plan.amount \in Int /\ wished' \in 0 .. MaxWishes
    BY <1>3 DEF SizeOrders, Inv, TypeOK
  <2>3. Enter("book", plan, calls)
    BY <1>3 DEF SizeOrders
  <2> HIDE DEF calls
  <2> QED
    BY <2>1, <2>2, <2>3, EnterInv
<1> QED
  BY <1>1, <1>2, <1>3

-----------------------------------------------------------------------------
(* change_tokens_ex *)

LEMMA BookTyping ==
  ASSUME Inv, pc = "place", Room
  PROVE  /\ Request \in Order /\ Request.status = "open"
         /\ \A o \in orders : o.id # Request.id
         /\ Reserve(Request).prim \in Int /\ Reserve(Request).sec \in Int
         /\ [bal EXCEPT !.eePrim = @ - Reserve(Request).prim,
                        !.eeSec = @ - Reserve(Request).sec] \in [Fields -> Int]
<1>1. task \in Seq(Call) /\ task # <<>> /\ quote \in Prices /\ bal \in [Fields -> Int]
  BY DEF Inv, TypeOK, Tracked
<1>2. /\ Request \in Order /\ Request.status = "open"
      /\ \A o \in orders : o.id # Request.id
      /\ Request.left \in Int /\ Request.limit \in Int
  BY <1>1, RequestTyping
<1>3. Reserve(Request).prim \in Int /\ Reserve(Request).sec \in Int
  BY <1>2, ReserveTyping
<1>4. bal.eePrim - Reserve(Request).prim \in Int /\ bal.eeSec - Reserve(Request).sec \in Int
  BY <1>1, <1>3 DEF Fields
<1> QED
  BY <1>1, <1>2, <1>3, <1>4

LEMMA PlaceInv == Inv /\ Place => Inv'
<1> SUFFICES ASSUME Inv, Place PROVE Inv'
  OBVIOUS
<1>1. /\ Request \in Order /\ Request.status = "open"
      /\ \A o \in orders : o.id # Request.id
      /\ bal' \in [Fields -> Int]
  BY BookTyping DEF Place, Book
<1>2. /\ pc = "place" /\ pc' = "poll" /\ own' = Request.id /\ accepted' = accepted + 1
      /\ orders' = orders \cup {Request} /\ UNCHANGED <<price, plan, task, quote, counters>>
  BY DEF Place, Book
<1>3. Request.id \in Ids /\ Request.id # 0
  BY <1>1 DEF Order, Ids
<1>4. accepted = 0
  BY <1>2 DEF Inv, Tracked
<1> HIDE DEF Request
<1>5. TypeOK'
  BY <1>1, <1>2, <1>3, <1>4 DEF Inv, TypeOK, Steps, counters
<1>6. Tracked'
  BY <1>1, <1>2, <1>4 DEF Inv, TypeOK, Tracked
<1> QED
  BY <1>5, <1>6 DEF Inv

LEMMA EndedInv ==
  ASSUME Inv, Ended, bal' \in [Fields -> Int], faults' \in 0 .. MaxFaults,
         orders' \subseteq Order, \A o, p \in orders' : o.id = p.id => o = p,
         \A o \in orders' : o.status = "filled" => o.left = 0
  PROVE  Inv'
<1>1. TypeOK'
  BY DEF Inv, TypeOK, Ended, Idle, Move
<1>2. Tracked'
  BY DEF Inv, Tracked, Ended
<1> QED
  BY <1>1, <1>2 DEF Inv

LEMMA FaultTyping == Inv /\ Fault => faults' \in 0 .. MaxFaults
BY OrdersAssumption DEF Fault, Inv, TypeOK

LEMMA EndsInv == Inv /\ (Refuse \/ Abort \/ Expire \/ AnswerLost) => Inv'
<1> SUFFICES ASSUME Inv PROVE Refuse \/ Abort \/ Expire \/ AnswerLost => Inv'
  OBVIOUS
<1>1. ASSUME Refuse \/ Abort \/ Expire PROVE Inv'
  <2>1. Ended /\ orders' = Strays(orders) /\ UNCHANGED bal
    BY <1>1 DEF Refuse, Abort, Expire
  <2>2. faults' \in 0 .. MaxFaults
    BY <1>1, FaultTyping DEF Refuse, Abort, Expire, Inv, TypeOK
  <2>3. orders' \subseteq orders
    BY <2>1 DEF Strays
  <2>4. bal' \in [Fields -> Int]
    BY <2>1 DEF Inv, TypeOK
  <2> QED
    BY <2>1, <2>2, <2>3, <2>4, EndedInv DEF Inv, TypeOK, Tracked
<1>2. ASSUME AnswerLost PROVE Inv'
  <2>1. /\ Request \in Order /\ Request.status = "open"
        /\ \A o \in orders : o.id # Request.id
        /\ bal' \in [Fields -> Int]
    BY <1>2, BookTyping DEF AnswerLost
  <2>2. Ended /\ orders' = orders \cup {Request} /\ faults' \in 0 .. MaxFaults
    BY <1>2, FaultTyping DEF AnswerLost
  <2> HIDE DEF Request
  <2> QED
    BY <2>1, <2>2, EndedInv DEF Inv, TypeOK, Tracked
<1> QED
  BY <1>1, <1>2

LEMMA LocalInv ==
  Inv /\ (ReadBook \/ Insufficient \/ Retry \/ Poll \/ Return \/ Resume) => Inv'
<1> SUFFICES ASSUME Inv
             PROVE  ReadBook \/ Insufficient \/ Retry \/ Poll \/ Return \/ Resume => Inv'
  OBVIOUS
<1>1. ASSUME ReadBook PROVE Inv'
  BY <1>1 DEF ReadBook, Inv, TypeOK, Tracked, Steps, history, counters
<1>2. ASSUME Insufficient PROVE Inv'
  <2>1. faults' \in 0 .. MaxFaults
    BY <1>2, FaultTyping DEF Insufficient, Inv, TypeOK
  <2> QED
    BY <1>2, <2>1 DEF Insufficient, Inv, TypeOK, Tracked, Steps, locals, history
<1>3. ASSUME Retry PROVE Inv'
  BY <1>3 DEF Retry, Inv, TypeOK, Tracked, Steps, locals, history, counters
<1>4. ASSUME Poll PROVE Inv'
  <2>1. Own.status = "filled" /\ pc = "poll" /\ pc' = "refresh"
        /\ UNCHANGED <<bal, orders, price, locals, history, counters>>
    BY <1>4 DEF Poll
  <2>2. \A o \in orders : o.id = own => o = Own
    BY <2>1 DEF Inv, Tracked, Own
  <2>3. TypeOK'
    BY <2>1 DEF Inv, TypeOK, Steps, locals, history, counters
  <2>4. Tracked'
    BY <2>1, <2>2 DEF Inv, Tracked, locals, history, counters
  <2> QED
    BY <2>3, <2>4 DEF Inv
<1>5. ASSUME Return PROVE Inv'
  <2>1. /\ pc = "refresh" /\ pc' = (IF Len(task) = 1 THEN "idle" ELSE "book")
        /\ task' = Tail(task) /\ own' = 0 /\ accepted' = 0
        /\ orders' \subseteq orders /\ plan' = (IF Len(task) = 1 THEN Idle ELSE plan)
        /\ UNCHANGED <<bal, price, quote, counters>>
    BY <1>5 DEF Return, Strays
  <2>2. task \in Seq(Call) /\ task # <<>>
    BY <2>1 DEF Inv, TypeOK, Tracked
  <2>3. Tail(task) \in Seq(Call) /\ (Len(task) # 1 => Tail(task) # <<>>)
    <3>1. Len(task) \in Nat /\ Len(task) # 0
      BY <2>2
    <3>2. Tail(task) \in Seq(Call) /\ Len(Tail(task)) = Len(task) - 1
      BY <2>2, <3>1
    <3>3. Len(<<>>) = 0
      OBVIOUS
    <3> QED
      BY <3>1, <3>2, <3>3
  <2>4. TypeOK'
    BY <2>1, <2>3 DEF Inv, TypeOK, Steps, counters, Idle, Move
  <2>5. Tracked'
    BY <2>1, <2>3 DEF Inv, Tracked
  <2> QED
    BY <2>4, <2>5 DEF Inv
<1>6. ASSUME Resume PROVE Inv'
  BY <1>6 DEF Resume, Inv, TypeOK, Tracked, Steps, locals, history, counters
<1> QED
  BY <1>1, <1>2, <1>3, <1>4, <1>5, <1>6

-----------------------------------------------------------------------------
(* The exchanges and the market. *)

(* An order that changes keeps its place. *)
LEMMA BecomesTracked ==
  ASSUME Inv, NEW o \in orders, NEW p \in Order, Becomes(o, p), p.id = o.id,
         o.status = "open", p.status = "filled" => p.left = 0,
         UNCHANGED <<pc, task, own, accepted>>
  PROVE  orders' \subseteq Order /\ Tracked'
<1>1. orders' \subseteq (orders \ {o}) \cup {p}
  BY DEF Becomes
<1>2. o.id = own => p \in orders'
  BY DEF Becomes
<1>3. \A q \in orders : q = o \/ q \in orders'
  BY DEF Becomes
<1>4. orders' \subseteq Order
  BY <1>1 DEF Inv, TypeOK
<1>5. \A q, r \in orders' : q.id = r.id => q = r
  BY <1>1 DEF Inv, Tracked
<1>6. \A q \in orders' : q.status = "filled" => q.left = 0
  BY <1>1 DEF Inv, Tracked
<1>7. pc \in {"poll", "refresh"} => \E q \in orders' : q.id = own
  BY <1>2, <1>3 DEF Inv, Tracked
<1>8. pc = "refresh" => o.id # own
  BY DEF Inv, Tracked
<1>9. pc = "refresh" => \A q \in orders' : q.id = own => q.status = "filled"
  BY <1>1, <1>8 DEF Inv, Tracked
<1> QED
  BY <1>4, <1>5, <1>6, <1>7, <1>9 DEF Inv, Tracked

LEMMA FillInv ==
  ASSUME Inv, NEW o \in orders, NEW part \in Int, Fill(o, part)
  PROVE  Inv'
<1> DEFINE p == [o EXCEPT !.left = @ - part,
                          !.status = IF part = o.left THEN "filled" ELSE "open"]
<1>1. o \in Order /\ bal \in [Fields -> Int] /\ price \in Int
  BY PositivePrices DEF Inv, TypeOK
<1>2. /\ p \in Order /\ p.id = o.id /\ (p.status = "filled" => p.left = 0)
      /\ p.left \in Int /\ p.limit \in Int
  <2>1. o.left \in Int /\ o.left - part \in Int
    BY <1>1 DEF Order
  <2>2. p \in Order /\ p.id = o.id /\ p.left = o.left - part /\ p.limit \in Int
    BY <1>1, <2>1 DEF Order
  <2>3. p.status = "filled" => part = o.left
    BY <1>1 DEF Order
  <2> QED
    BY <2>1, <2>2, <2>3
<1>3. /\ o.status = "open" /\ Becomes(o, p) /\ UNCHANGED <<price, pc, locals, history, counters>>
      /\ bal' = IF o.we = "e1" THEN [bal EXCEPT !.short = @ - Signed(o, part)]
                ELSE [bal EXCEPT
                  !.eePrim = @ + Released(o, p).prim - Signed(o, part) * price,
                  !.eeSec = @ + Released(o, p).sec + Signed(o, part)]
  BY DEF Fill
<1> HIDE DEF p
<1>4. Signed(o, part) \in Int /\ Signed(o, part) * price \in Int
  BY <1>1 DEF Signed
<1>5. Released(o, p).prim \in Int /\ Released(o, p).sec \in Int
  <2>1. o.left \in Int /\ o.limit \in Int
    BY <1>1 DEF Order
  <2> QED
    BY <1>2, <2>1, ReserveTyping DEF Released
<1>6. bal' \in [Fields -> Int]
  <2>1. bal.short \in Int /\ bal.eePrim \in Int /\ bal.eeSec \in Int
    BY <1>1 DEF Fields
  <2>2. /\ bal.short - Signed(o, part) \in Int
        /\ bal.eePrim + Released(o, p).prim - Signed(o, part) * price \in Int
        /\ bal.eeSec + Released(o, p).sec + Signed(o, part) \in Int
    BY <1>4, <1>5, <2>1
  <2> QED
    BY <1>1, <1>3, <2>2
<1>7. orders' \subseteq Order /\ Tracked'
  BY <1>2, <1>3, BecomesTracked DEF locals, history
<1>8. TypeOK'
  BY <1>3, <1>6, <1>7 DEF Inv, TypeOK, locals, history, counters
<1> QED
  BY <1>7, <1>8 DEF Inv

LEMMA CancelInv == Inv /\ Cancel => Inv'
<1> SUFFICES ASSUME Inv, Cancel PROVE Inv'
  OBVIOUS
<1>1. PICK o \in Open :
        /\ Becomes(o, [o EXCEPT !.status = "cancelled"])
        /\ bal' = [bal EXCEPT !.eePrim = @ + Reserve(o).prim, !.eeSec = @ + Reserve(o).sec]
  BY DEF Cancel
<1> DEFINE p == [o EXCEPT !.status = "cancelled"]
<1>2. o \in orders /\ o.status = "open" /\ o \in Order
  BY DEF Open, Inv, TypeOK
<1>3. p \in Order /\ p.id = o.id /\ p.status = "cancelled"
  BY <1>2 DEF Order
<1>4. UNCHANGED <<price, pc, locals, history, moved, wished>> /\ faults' \in 0 .. MaxFaults
  BY FaultTyping DEF Cancel
<1>5. Reserve(o).prim \in Int /\ Reserve(o).sec \in Int
  <2>1. o.left \in Int /\ o.limit \in Int
    BY <1>2 DEF Order
  <2> QED
    BY <2>1, ReserveTyping
<1>6. bal' \in [Fields -> Int]
  <2>1. bal \in [Fields -> Int] /\ bal.eePrim \in Int /\ bal.eeSec \in Int
    BY DEF Inv, TypeOK, Fields
  <2>2. bal.eePrim + Reserve(o).prim \in Int /\ bal.eeSec + Reserve(o).sec \in Int
    BY <1>5, <2>1
  <2> QED
    BY <1>1, <2>1, <2>2
<1>7. Becomes(o, p)
  BY <1>1
<1> HIDE DEF p
<1>8. orders' \subseteq Order /\ Tracked'
  BY <1>2, <1>3, <1>4, <1>7, BecomesTracked DEF locals, history
<1>9. TypeOK'
  BY <1>4, <1>6, <1>8 DEF Inv, TypeOK, locals, history
<1> QED
  BY <1>8, <1>9 DEF Inv

LEMMA PriceMoveInv == Inv /\ PriceMove => Inv'
<1> SUFFICES ASSUME Inv, PriceMove PROVE Inv'
  OBVIOUS
<1>1. PICK p \in Prices : price' = p /\ bal' = [bal EXCEPT !.e1Total = @ - bal.short * (p - price)]
  BY DEF PriceMove
<1>2. bal' \in [Fields -> Int]
  <2>1. bal \in [Fields -> Int] /\ bal.e1Total \in Int /\ bal.short \in Int
    BY DEF Inv, TypeOK, Fields
  <2>2. p \in Int /\ price \in Int
    BY PositivePrices DEF Inv, TypeOK
  <2>3. bal.e1Total - bal.short * (p - price) \in Int
    BY <2>1, <2>2
  <2> QED
    BY <1>1, <2>1, <2>3
<1>3. moved' \in 0 .. MaxPriceMoves
  BY OrdersAssumption DEF PriceMove, Inv, TypeOK
<1>4. UNCHANGED <<orders, pc, locals, history, wished, faults>>
  BY DEF PriceMove
<1>5. TypeOK'
  BY <1>1, <1>2, <1>3, <1>4 DEF Inv, TypeOK, locals, history
<1>6. Tracked'
  BY <1>4 DEF Inv, Tracked, locals, history
<1> QED
  BY <1>5, <1>6 DEF Inv

-----------------------------------------------------------------------------
(* Every step keeps the invariant. *)
LEMMA StepInv == Inv /\ [Next]_vars => Inv'
<1> SUFFICES ASSUME Inv, [Next]_vars PROVE Inv'
  OBVIOUS
<1>1. CASE UNCHANGED vars
  BY <1>1 DEF Inv, TypeOK, Tracked, vars, locals, history, counters
<1>2. CASE Hedge
  BY <1>2, HedgeInv
<1>3. CASE EnlargeBoth \/ ReduceBoth \/ SizeOrders
  BY <1>3, DecisionInv
<1>4. CASE ReadBook \/ Insufficient \/ Retry \/ Poll \/ Return \/ Resume
  BY <1>4, LocalInv
<1>5. CASE Place
  BY <1>5, PlaceInv
<1>6. CASE Refuse \/ Abort \/ Expire \/ AnswerLost
  BY <1>6, EndsInv
<1>7. CASE FillWhole
  <2>1. PICK o \in orders : Fill(o, o.left)
    BY <1>7 DEF FillWhole
  <2>2. o.left \in Int
    BY DEF Inv, TypeOK, Order
  <2> QED
    BY <2>1, <2>2, FillInv
<1>8. CASE FillHalf
  <2>1. PICK o \in orders : Fill(o, Down(o.left \div 2, 10))
    BY <1>8 DEF FillHalf
  <2>2. o.left \in Int
    BY DEF Inv, TypeOK, Order
  <2>3. Down(o.left \div 2, 10) \in Int
    BY <2>2, SMT DEF Down
  <2> QED
    BY <2>1, <2>3, FillInv
<1>9. CASE Cancel
  BY <1>9, CancelInv
<1>10. CASE PriceMove
  BY <1>10, PriceMoveInv
<1> QED
  BY <1>1, <1>2, <1>3, <1>4, <1>5, <1>6, <1>7, <1>8, <1>9, <1>10 DEF Next, Program

THEOREM Invariance == Spec => []Inv
BY OpeningInv, StepInv, PTL DEF Spec

(* Whatever the orders, prices and faults, the state keeps its shape: no   *)
(* more orders than the account may have, a call of change_tokens_ex under *)
(* way whenever an order is polled.                                        *)
THEOREM Typing == Spec => []TypeOK
<1>1. Inv => TypeOK
  BY DEF Inv
<1> QED
  BY <1>1, Invariance, PTL

(* The loop of change_tokens_ex, however often it repeats an order, has at *)
(* most one accepted per call.                                             *)
THEOREM AtMostOneOrder == Spec => []OneOrderPerCall
<1>1. Inv => OneOrderPerCall
  BY DEF Inv, Tracked, OneOrderPerCall
<1> QED
  BY <1>1, Invariance, PTL

(* A call that ends well has its order filled to the last.                 *)
THEOREM EndsWellFilled == Spec => []FilledBeforeReturn
<1>1. Inv => FilledBeforeReturn
  <2> SUFFICES ASSUME Inv, pc = "refresh" PROVE Own.left = 0 /\ accepted = 1
    BY DEF FilledBeforeReturn
  <2>1. \E o \in orders : o.id = own
    BY DEF Inv, Tracked
  <2>2. Own \in orders /\ Own.id = own
    BY <2>1 DEF Own
  <2> QED
    BY <2>2 DEF Inv, Tracked
<1> QED
  BY <1>1, Invariance, PTL

-----------------------------------------------------------------------------
(* The sizes of orders on dYdX: the actions ask for one ATOM at least, and *)
(* one ATOM is a multiple of the step that sizes are rounded down to.      *)

LargeCall == {c \in Call : c.we = "e1" => c.coin = "sec" /\ c.amount >= Atom}
Sized     == task \in Seq(LargeCall) /\ LargeEnough

LEMMA KeepHedgeLarge ==
  ASSUME bal \in [Fields -> Int], price \in Prices, NEW sample \in Samples,
         KeepHedge(bal, Quotes, sample).op \in {"reduce_short", "enlarge_short"}
  PROVE  KeepHedge(bal, Quotes, sample).amount >= Atom
<1>1. price \in Nat /\ price > 0 /\ sample \in Int /\ MaxOrder \in Nat /\ MaxOrderDev \in Nat
  BY PositivePrices, OrdersAssumption, OrderAssumption
<1>2. /\ bal.short \in Int /\ bal.eeSec \in Int /\ bal.staked \in Int
      /\ bal.unstaked \in Int
  BY DEF Fields
<1>3. ShortStakeDelta(bal) \in Int /\ -ShortStakeDelta(bal) \in Int
  BY <1>2, SMT DEF ShortStakeDelta
<1>4. \A x \in Int : OrderSizeSec(sample, x, price) >= Atom
  <2> TAKE x \in Int
  <2>1. OrderSize(sample, x * price) \in Int
    BY <1>1, SMT DEF OrderSize
  <2>2. OrderSize(sample, x * price) \div price \in Int
    BY <1>1, <2>1, SMT
  <2> QED
    BY <2>2, SMT DEF OrderSizeSec, Larger, Atom
<1> QED
  BY <1>3, <1>4 DEF KeepHedge, Move, Quotes, Panic

LEMMA LargeCalls ==
  ASSUME TypeOK
  PROVE  /\ \A x \in Int : x >= Atom => ChangeShort(x) \in Seq(LargeCall)
                                     /\ ChangeShort(-x) \in Seq(LargeCall)
         /\ Reduction \in Seq(LargeCall) /\ Enlargement \in Seq(LargeCall)
<1>1. price \in Nat /\ price > 0 /\ plan.amount \in Int
  BY PositivePrices DEF TypeOK
<1>2. /\ bal.short \in Int /\ bal.eeSec \in Int /\ bal.staked \in Int
      /\ bal.unstaked \in Int /\ bal.e1Total \in Int
  BY DEF TypeOK, Fields
<1>3. /\ \A side \in {"buy", "sell"}, x \in Int :
           x >= Atom => CallOf("e1", side, "sec", x) \in LargeCall
      /\ \A side \in {"buy", "sell"}, coin \in {"prim", "sec"}, x \in Int :
           CallOf("ee", side, coin, x) \in LargeCall
  BY DEF CallOf, Call, LargeCall
<1>4. \A a, b \in LargeCall : /\ <<a>> \in Seq(LargeCall)
                              /\ <<a>> \o <<b>> \in Seq(LargeCall)
                              /\ <<>> \o <<b>> \in Seq(LargeCall)
  OBVIOUS
<1>5. /\ Atom \in Int
      /\ \A x, y \in Int : /\ Larger(x, y) \in Int /\ Smaller(x, y) \in Int
                           /\ Larger(x, y) >= x /\ Larger(x, y) >= y
  BY DEF Larger, Smaller, Atom
<1>6. \A x \in Int : x >= Atom => ChangeShort(x) \in Seq(LargeCall)
                              /\ ChangeShort(-x) \in Seq(LargeCall)
  <2> TAKE x \in Int
  <2> HAVE x >= Atom
  <2>1. x > 0 /\ ~(-x > 0) /\ -(-x) = x
    BY DEF Atom
  <2> QED
    BY <1>3, <1>4, <2>1 DEF ChangeShort
<1>7. SizeToReduce \in Int
  <2>1. plan.amount \div price \in Int
    BY <1>1, SMT
  <2> QED
    BY <2>1, <1>5, Zenon DEF SizeToReduce
<1>8. ReduceOnEe \in Int /\ ReduceOnE1 \in Int /\ ReduceOnE1 >= Atom
  <2>1. Smaller(bal.eeSec, SizeToReduce) \in Int
    BY <1>2, <1>5, <1>7
  <2>2. ReduceOnEe \in Int
    BY <1>2, <2>1 DEF ReduceOnEe
  <2>3. (11 * Atom) \div 10 \in Int /\ (11 * Atom) \div 10 >= Atom
    BY SMT DEF Atom
  <2> DEFINE size == IF bal.short - SizeToReduce < Atom THEN bal.short ELSE SizeToReduce
             least == (11 * Atom) \div 10
  <2>4. size \in Int
    BY <1>2, <1>7
  <2>5. ReduceOnE1 = Larger(size, least)
    BY DEF ReduceOnE1
  <2> HIDE DEF size, least
  <2>6. least \in Int /\ least >= Atom
    BY <2>3 DEF least
  <2>7. Larger(size, least) \in Int /\ Larger(size, least) >= least
    BY <1>5, <2>4, <2>6
  <2> QED
    BY <1>5, <2>2, <2>5, <2>6, <2>7
<1>9. AmountToEnlarge \in Int
  <2>1. (1005 * price) \div 10 \in Int
    BY <1>1, SMT
  <2>2. \A y \in Int : Larger(plan.amount, y) \in Int
    BY <1>1, <1>5
  <2> QED
    BY <2>1, <2>2, Zenon DEF AmountToEnlarge
<1>10. Larger(AmountOnE1 \div price, Atom) \in Int /\ Larger(AmountOnE1 \div price, Atom) >= Atom
  <2>1. 5 * E1Free \in Int
    BY <1>1, <1>2, SMT DEF E1Free, Abs
  <2>2. AmountOnE1 \in Int
    BY <1>5, <1>9, <2>1 DEF AmountOnE1
  <2>3. AmountOnE1 \div price \in Int
    BY <1>1, <2>2, SMT
  <2> QED
    BY <1>5, <2>3, Zenon
<1>11. Reduction \in Seq(LargeCall)
  BY <1>3, <1>4, <1>8 DEF Reduction
<1>12. Enlargement \in Seq(LargeCall)
  BY <1>3, <1>4, <1>9, <1>10 DEF Enlargement
<1> QED
  BY <1>6, <1>11, <1>12

(* Rounded down, an amount of one ATOM or more is still one. *)
LEMMA LargeRequest ==
  ASSUME Inv, Sized, pc = "place"
  PROVE  Request.we = "e1" => Request.size >= Atom
<1>1. task # <<>> /\ task \in Seq(LargeCall)
  BY DEF Inv, Tracked, Sized
<1>2. Current \in LargeCall
  BY <1>1 DEF Current
<1> SUFFICES ASSUME Current.we = "e1" PROVE Request.size >= Atom
  BY DEF Request, RequestAt
<1>3. Current.coin = "sec" /\ Current.amount \in Int /\ Current.amount >= Atom
  BY <1>2 DEF LargeCall, Call
<1>4. Size(Current, quote) = Down(Current.amount, 10)
  BY <1>3 DEF Size, AmountStep
<1>5. \A x \in Int : x >= Atom => Down(x, 10) >= Atom
  BY SMT DEF Down, Atom
<1> QED
  BY <1>3, <1>4, <1>5 DEF Request, RequestAt

LEMMA SizedStep == Inv /\ Sized /\ [Next]_vars => Sized'
<1> SUFFICES ASSUME Inv, Sized, [Next]_vars PROVE Sized'
  OBVIOUS
<1>1. ASSUME orders' \subseteq orders, task' \in Seq(LargeCall) PROVE Sized'
  BY <1>1 DEF Sized, LargeEnough
<1>2. <<>> \in Seq(LargeCall)
  OBVIOUS
<1>3. CASE UNCHANGED vars \/ ReadBook \/ Insufficient \/ Retry \/ Poll \/ Resume \/ PriceMove
  BY <1>1, <1>3 DEF vars, ReadBook, Insufficient, Retry, Poll, Resume, PriceMove, locals, Sized
<1>4. CASE EnlargeBoth \/ ReduceBoth
  BY <1>1, <1>2, <1>4 DEF EnlargeBoth, ReduceBoth, Enter
<1>5. CASE SizeOrders
  <2>1. orders' = orders /\ (task' = Reduction \/ task' = Enlargement)
    BY <1>5 DEF SizeOrders, Enter
  <2> QED
    BY <1>1, <2>1, LargeCalls DEF Inv
<1>6. CASE Hedge
  <2>1. PICK sample \in Samples :
          LET move == KeepHedge(bal, Quotes, sample)
          IN CASE move.op = "reduce_short"  -> Enter("book", move, ChangeShort(-move.amount))
               [] move.op = "enlarge_short" -> Enter("book", move, ChangeShort(move.amount))
               [] OTHER -> UNCHANGED vars
    BY <1>6, Zenon DEF Hedge
  <2> DEFINE move == KeepHedge(bal, Quotes, sample)
  <2>2. move.amount \in Int
    BY KeepHedgeTyping DEF Inv, TypeOK
  <2>3. move.op \in {"reduce_short", "enlarge_short"} => move.amount >= Atom
    BY KeepHedgeLarge DEF Inv, TypeOK
  <2>4. \/ move.op = "reduce_short" /\ Enter("book", move, ChangeShort(-move.amount))
        \/ move.op = "enlarge_short" /\ Enter("book", move, ChangeShort(move.amount))
        \/ UNCHANGED vars
    BY <2>1, Zenon
  <2> HIDE DEF move
  <2>5. CASE UNCHANGED vars
    BY <1>1, <2>5 DEF vars, locals, Sized
  <2>6. CASE \/ move.op = "reduce_short" /\ Enter("book", move, ChangeShort(-move.amount))
             \/ move.op = "enlarge_short" /\ Enter("book", move, ChangeShort(move.amount))
    <3>1. /\ ChangeShort(move.amount) \in Seq(LargeCall)
          /\ ChangeShort(-move.amount) \in Seq(LargeCall)
      BY <2>2, <2>3, <2>6, LargeCalls DEF Inv
    <3>2. orders' = orders
          /\ (task' = ChangeShort(move.amount) \/ task' = ChangeShort(-move.amount))
      BY <2>6 DEF Enter
    <3> QED
      BY <1>1, <3>1, <3>2
  <2> QED
    BY <2>4, <2>5, <2>6
<1>7. CASE Refuse \/ Abort \/ Expire
  BY <1>1, <1>2, <1>7 DEF Refuse, Abort, Expire, Ended, Strays
<1>8. CASE Return
  <2>1. task # <<>> /\ Tail(task) \in Seq(LargeCall)
    BY <1>8 DEF Return, Inv, Tracked, Sized
  <2> QED
    BY <1>1, <1>8, <2>1 DEF Return, Strays
<1>9. CASE Place \/ AnswerLost
  <2>1. Request.we = "e1" => Request.size >= Atom
    BY <1>9, LargeRequest DEF Place, AnswerLost
  <2>2. orders' = orders \cup {Request} /\ task' \in Seq(LargeCall)
    BY <1>2, <1>9 DEF Place, Book, AnswerLost, Ended, Sized
  <2> QED
    BY <2>1, <2>2 DEF Sized, LargeEnough
<1>10. ASSUME NEW o \in orders, NEW p, p.we = o.we, p.size = o.size, Becomes(o, p), task' = task
       PROVE  Sized'
  BY <1>10 DEF Sized, LargeEnough, Becomes
<1>11. ASSUME NEW o \in orders, NEW part, Fill(o, part) PROVE Sized'
  <2> DEFINE p == [o EXCEPT !.left = @ - part,
                            !.status = IF part = o.left THEN "filled" ELSE "open"]
  <2>1. p.we = o.we /\ p.size = o.size
    BY DEF Inv, TypeOK, Order
  <2>2. Becomes(o, p) /\ task' = task
    BY <1>11 DEF Fill, locals
  <2> HIDE DEF p
  <2> QED
    BY <1>10, <2>1, <2>2
<1>12. CASE FillWhole \/ FillHalf
  BY <1>11, <1>12 DEF FillWhole, FillHalf
<1>13. CASE Cancel
  <2>1. PICK o \in orders : Becomes(o, [o EXCEPT !.status = "cancelled"]) /\ task' = task
    BY <1>13 DEF Cancel, Open, locals
  <2>2. [o EXCEPT !.status = "cancelled"].we = o.we /\ [o EXCEPT !.status = "cancelled"].size = o.size
    BY DEF Inv, TypeOK, Order
  <2> QED
    BY <1>10, <2>1, <2>2
<1> QED
  BY <1>3, <1>4, <1>5, <1>6, <1>7, <1>8, <1>9, <1>12, <1>13 DEF Next, Program

(* No order on dYdX is for less than one ATOM, whatever the balances,      *)
(* prices, samples and faults.                                             *)
THEOREM NoSmallOrder == Spec => []LargeEnough
<1>1. Init => Sized
  BY DEF Init, Sized, LargeEnough
<1>2. Sized => LargeEnough
  BY DEF Sized
<1> QED
  BY <1>1, <1>2, Invariance, SizedStep, PTL DEF Spec

-----------------------------------------------------------------------------
(* What an order for USDC may cost. *)

Affordable ==
  pc = "poll" /\ Current.coin = "prim" =>
    \A o \in orders : o.id = own => o.size * o.limit <= 1000 * Current.amount

(* Division and rounding down never exceed what they divide. *)
LEMMA CostWithin ==
  ASSUME NEW c \in Call, NEW p \in Prices, c.coin = "prim"
  PROVE  Size(c, p) * LimitPrice(c, p) <= 1000 * c.amount
<1> DEFINE L == LimitPrice(c, p)
           n == (1000 * c.amount) \div L
<1>1. L \in Int /\ L > 0 /\ c.amount \in Int
  BY SizeTyping DEF Call
<1>2. Size(c, p) = Down(n, AmountStep(c.we))
  BY DEF Size
<1> HIDE DEF L
<1>3. n \in Int /\ n * L <= 1000 * c.amount
  BY <1>1, SMT
<1> HIDE DEF n
<1>4. Down(n, 1) = n /\ Down(n, 10) <= n /\ Down(n, 10) \in Int
  BY <1>3, SMT DEF Down
<1>5. Size(c, p) \in Int /\ Size(c, p) <= n
  BY <1>2, <1>3, <1>4 DEF AmountStep
<1>6. Size(c, p) * L <= n * L
  BY <1>1, <1>3, <1>5, SMT
<1>7. Size(c, p) * L \in Int /\ n * L \in Int /\ 1000 * c.amount \in Int
  BY <1>1, <1>3, <1>5, SMT
<1>8. Size(c, p) * L <= 1000 * c.amount
  BY <1>3, <1>6, <1>7
<1> QED
  BY <1>8 DEF L

LEMMA AffordableStep == Inv /\ Affordable /\ [Next]_vars => Affordable'
<1> SUFFICES ASSUME Inv, Affordable, [Next]_vars PROVE Affordable'
  OBVIOUS
<1>1. CASE UNCHANGED vars \/ PriceMove
  BY <1>1 DEF vars, PriceMove, locals, Affordable, Current
<1>2. CASE pc' # "poll"
  BY <1>2 DEF Affordable
<1>3. ASSUME NEW o \in orders, NEW p, p.id = o.id, p.size = o.size, p.limit = o.limit,
             Becomes(o, p), UNCHANGED <<pc, locals>>
      PROVE  Affordable'
  BY <1>3 DEF Affordable, Becomes, locals, Current
<1>4. CASE Hedge
  <2>1. PICK sample \in Samples :
          LET move == KeepHedge(bal, Quotes, sample)
          IN CASE move.op = "reduce_short"  -> Enter("book", move, ChangeShort(-move.amount))
               [] move.op = "enlarge_short" -> Enter("book", move, ChangeShort(move.amount))
               [] OTHER -> UNCHANGED vars
    BY <1>4, Zenon DEF Hedge
  <2> DEFINE move == KeepHedge(bal, Quotes, sample)
  <2>2. \/ Enter("book", move, ChangeShort(-move.amount))
        \/ Enter("book", move, ChangeShort(move.amount))
        \/ UNCHANGED vars
    BY <2>1, Zenon
  <2>3. pc' \in {"book", pc} /\ pc = "idle"
    BY <1>4, <2>2 DEF Enter, vars, Hedge
  <2> QED
    BY <1>2, <2>3
<1>5. CASE \/ EnlargeBoth \/ ReduceBoth \/ SizeOrders \/ ReadBook \/ Insufficient \/ Retry
           \/ Refuse \/ Abort \/ Expire \/ AnswerLost \/ Poll \/ Return \/ Resume
  <2>1. pc' # "poll"
    BY <1>5 DEF EnlargeBoth, ReduceBoth, SizeOrders, ReadBook, Insufficient, Retry, Refuse,
         Abort, Expire, AnswerLost, Poll, Return, Resume, Enter, Ended
  <2> QED
    BY <1>2, <2>1
<1>6. CASE Place
  <2>1. /\ pc = "place" /\ own' = Request.id /\ orders' = orders \cup {Request}
        /\ task' = task /\ Room
    BY <1>6 DEF Place, Book
  <2>2. Current \in Call /\ quote \in Prices /\ \A o \in orders : o.id # Request.id
    BY <2>1, RequestTyping DEF Inv, TypeOK, Tracked
  <2>3. Current.coin = "prim" => Request.size * Request.limit <= 1000 * Current.amount
    BY <2>2, CostWithin DEF Request, RequestAt
  <2> QED
    BY <2>1, <2>2, <2>3 DEF Affordable, Current
<1>7. ASSUME NEW o \in orders, NEW part, Fill(o, part) PROVE Affordable'
  <2> DEFINE p == [o EXCEPT !.left = @ - part,
                            !.status = IF part = o.left THEN "filled" ELSE "open"]
  <2>1. p.id = o.id /\ p.size = o.size /\ p.limit = o.limit
    BY DEF Inv, TypeOK, Order
  <2>2. Becomes(o, p) /\ UNCHANGED <<pc, locals>>
    BY <1>7 DEF Fill
  <2> HIDE DEF p
  <2> QED
    BY <1>3, <2>1, <2>2
<1>8. CASE FillWhole \/ FillHalf
  BY <1>7, <1>8 DEF FillWhole, FillHalf
<1>9. CASE Cancel
  <2> DEFINE p(o) == [o EXCEPT !.status = "cancelled"]
  <2>1. PICK o \in orders : Becomes(o, p(o)) /\ UNCHANGED <<pc, locals>>
    BY <1>9 DEF Cancel, Open
  <2>2. p(o).id = o.id /\ p(o).size = o.size /\ p(o).limit = o.limit
    BY DEF Inv, TypeOK, Order
  <2> HIDE DEF p
  <2> QED
    BY <1>3, <2>1, <2>2
<1> QED
  BY <1>1, <1>4, <1>5, <1>6, <1>8, <1>9 DEF Next, Program

(* An order for an amount of USDC costs no more than it at its own limit,  *)
(* for all prices and amounts, and however the price moves in between.     *)
THEOREM NeverOverspent == Spec => []WithinAmount
<1>1. Init => Affordable
  BY DEF Init, Affordable
<1>2. Inv /\ Affordable => WithinAmount
  <2> SUFFICES ASSUME Inv, Affordable, pc = "poll", Current.coin = "prim"
               PROVE  Own.size * Own.limit <= 1000 * Current.amount
    BY DEF WithinAmount
  <2>1. \E o \in orders : o.id = own
    BY DEF Inv, Tracked
  <2>2. Own \in orders /\ Own.id = own
    BY <2>1 DEF Own
  <2> QED
    BY <2>2 DEF Affordable
<1> QED
  BY <1>1, <1>2, Invariance, AffordableStep, PTL DEF Spec
=============================================================================
