-------------------------- MODULE Direction_proofs --------------------------
(***************************************************************************)
(* Proofs about the direction of funds: what dYdX has given up is not sent *)
(* back to it, unless so much was withdrawn that dYdX is left with less    *)
(* than its share by the least amount that is moved.                       *)
(***************************************************************************)
EXTENDS Cover_proofs

-----------------------------------------------------------------------------
(* What dYdX lacks, after the balances have changed. *)

Cash(b)  == b.e1Total + b.e2Usdc + b.e2Usd + b.eePrim + b.wallet
Coins(b) == b.eeSec + b.staked + b.unstaked

LEMMA Worth ==
  ASSUME NEW b \in Reading, NEW p \in Price
  PROVE  /\ Cash(b) \in Nat /\ Coins(b) \in Nat /\ p * Coins(b) \in Nat
         /\ Total(b, Quotes(p)) = Cash(b) + p * Coins(b)
<1>1. /\ b.e1Total \in Nat /\ b.e2Usdc \in Nat /\ b.e2Usd \in Nat /\ b.eePrim \in Nat
      /\ b.wallet \in Nat /\ b.eeSec \in Nat /\ b.staked \in Nat /\ b.unstaked \in Nat
  BY DEF Reading, Fields
<1>2. p \in Nat
  BY DEF Price
<1>3. Total(b, Quotes(p)) = b.e1Total + (b.e2Usdc + b.e2Usd + (b.staked + b.unstaked) * p)
                              + (b.wallet + (b.eePrim + b.eeSec * p))
  BY DEF Total, E2Total, EwTotal, EeTotal, Quotes
<1>4. p * Coins(b) = (b.staked + b.unstaked) * p + b.eeSec * p
  BY <1>1, <1>2 DEF Coins
<1>5. (b.staked + b.unstaked) * p \in Nat /\ b.eeSec * p \in Nat
  BY <1>1, <1>2, Products
<1> QED
  BY <1>1, <1>3, <1>4, <1>5 DEF Cash, Coins

(* When nothing is gained, the share of dYdX does not grow. *)
LEMMA LackAfter ==
  ASSUME NEW b \in Reading, NEW c \in Reading, NEW p \in Price,
         Cash(c) + p * Coins(c) <= Cash(b) + p * Coins(b)
  PROVE  E1Lack(c, Quotes(p)) <= E1Lack(b, Quotes(p)) + b.e1Total - c.e1Total
<1> DEFINE s == Total(b, Quotes(p))
           t == Total(c, Quotes(p))
           d == 100 + InitRatio
           x == ExpectedE1(b, Quotes(p))
           y == ExpectedE1(c, Quotes(p))
<1>1. s \in Nat /\ t \in Nat /\ t <= s /\ InitRatio \in Nat /\ d \in Nat \ {0}
  BY Worth, Worths, RatiosAssumption
<1>2. x = (s * InitRatio) \div d /\ y = (t * InitRatio) \div d
  BY DEF ExpectedE1, Share
<1>3. b.e1Total \in Int /\ c.e1Total \in Int
  BY DEF Reading, Fields
<1>4. /\ E1Lack(b, Quotes(p)) = x - b.e1Total
      /\ E1Lack(c, Quotes(p)) = y - c.e1Total
  BY DEF E1Lack
<1> HIDE DEF s, t, d, x, y
<1>5. s * InitRatio \in Int /\ t * InitRatio \in Int /\ t * InitRatio <= s * InitRatio
  <2>1. InitRatio * t <= InitRatio * s /\ InitRatio * t \in Int /\ InitRatio * s \in Int
    BY <1>1, Scaling
  <2>2. InitRatio * t = t * InitRatio /\ InitRatio * s = s * InitRatio
    BY <1>1
  <2> QED
    BY <2>1, <2>2
<1>6. /\ x \in Int /\ s * InitRatio < d * x + d
      /\ y \in Int /\ d * y <= t * InitRatio
  BY <1>1, <1>2, <1>5, Division
<1>7. y <= x
  <2> SUFFICES ASSUME x + 1 <= y PROVE FALSE
    BY <1>6
  <2>1. d * (x + 1) <= d * y /\ d * y \in Int /\ d * x \in Int
    BY <1>1, <1>6, Scaling, Products
  <2>2. d * (x + 1) = d * x + d
    BY <1>1, <1>6
  <2> QED
    BY <1>1, <1>5, <1>6, <2>1, <2>2
<1> QED
  BY <1>3, <1>4, <1>6, <1>7

-----------------------------------------------------------------------------
(* Decisions. *)

(* Funds are sent to dYdX only when it lacks the least amount that is moved. *)
LEMMA NoneForE1 ==
  ASSUME NEW b \in Reading, NEW p \in Price, NEW sample \in Int,
         E1Lack(b, Quotes(p)) < MinLimit(Quotes(p))
  PROVE  Detect(b, Quotes(p), sample).op # "wallet_to_e1"
<1> DEFINE q == Quotes(p)
<1>1. MinLimit(q) \in Int /\ E1Lack(b, q) \in Int /\ EwTotal(b, q) \in Int
  BY Worths, Lacks
<1>2. ~(E1Delta(b, q) >= MinLimit(q)) /\ ~(E1Lack(b, q) > MinLimit(q))
  BY <1>1 DEF E1Delta, Smaller
<1>3. ToE2(b, q, sample).op # "wallet_to_e1" /\ FromE1(b, q, sample).op # "wallet_to_e1"
  BY DEF ToE2, FromE1, Move, NoMove
<1>4. Redistribute(b, q, sample).op # "wallet_to_e1"
  BY <1>2, <1>3 DEF Redistribute, Move, NoMove
<1>5. BalanceExchanges(b, q, sample).op # "wallet_to_e1"
  BY DEF BalanceExchanges, RaiseRatio, LowerRatio, KeepHedge, Move, Panic
<1> QED
  BY <1>4, <1>5 DEF Detect, Panic, Move

LEMMA InsuredGrows ==
  ASSUME NEW x \in Nat
  PROVE  Insured(x) \in Nat /\ Insured(x) >= x
<1>1. \A y \in Nat : /\ PlusCommission(y) \in Nat /\ PlusCommission(y) >= y
                     /\ PlusTolerance(y) \in Nat /\ PlusTolerance(y) >= y
  BY DEF PlusCommission, PlusTolerance
<1> DEFINE y == PlusCommission(x)
           z == PlusCommission(y)
           u == PlusCommission(z)
<1>2. y \in Nat /\ y >= x /\ z \in Nat /\ z >= y /\ u \in Nat /\ u >= z
  BY <1>1
<1>3. Insured(x) = PlusTolerance(u)
  BY DEF Insured
<1> HIDE DEF y, z, u
<1>4. PlusTolerance(u) \in Nat /\ PlusTolerance(u) >= u
  BY <1>1, <1>2
<1> QED
  BY <1>2, <1>3, <1>4

(* What dYdX is told to give up is an amount. *)
LEMMA WithdrawalsAreAmounts ==
  ASSUME NEW b \in Reading, NEW p \in Price, NEW sample \in Int,
         Detect(b, Quotes(p), sample).op = "e1_to_wallet"
  PROVE  Detect(b, Quotes(p), sample).amount \in Nat
<1> DEFINE q     == Quotes(p)
           share == (100 * b.e1Total - InitRatio * E2Total(b, q)) \div (100 + InitRatio)
<1>1. MinLimit(q) \in Nat /\ E1Lack(b, q) \in Int
  BY Worths, Lacks
<1>2. share \in Int
  <2>1. b.e1Total \in Int /\ E2Total(b, q) \in Int /\ InitRatio \in Nat
    BY Worths, RatiosAssumption DEF Fields
  <2>2. 100 * b.e1Total - InitRatio * E2Total(b, q) \in Int /\ 100 + InitRatio \in Nat \ {0}
    BY <2>1, Products
  <2> QED
    BY <2>2, Division
<1>3. LowerRatio(b, q).amount \in Nat
  <2>1. Larger(MinLimit(q), share) \in Nat
    <3> HIDE DEF share
    <3> QED
      BY <1>1, <1>2 DEF Larger
  <2>2. LowerRatio(b, q).amount = Insured(Larger(MinLimit(q), share))
    BY DEF LowerRatio, Insured, Move
  <2> QED
    BY <2>1, <2>2, InsuredGrows
<1>4. /\ ToE1(b, q, sample).op # "e1_to_wallet" /\ ToE2(b, q, sample).op # "e1_to_wallet"
      /\ FillE1(b, q, sample).op # "e1_to_wallet"
  BY DEF ToE1, AllToE1, PartToE1, PartFromEe, ToE2, FillE1, Move, NoMove, Panic
<1>5. /\ -E1Lack(b, q) > MinLimit(q)
      /\ FromE1(b, q, sample).op = "e1_to_wallet"
      => FromE1(b, q, sample).amount \in Nat
  BY <1>1 DEF FromE1, Move
<1>6. CASE Redistribute(b, q, sample) # NoMove
  BY <1>4, <1>5, <1>6 DEF Detect, Redistribute, NoMove, Panic, Move
<1>7. CASE Redistribute(b, q, sample) = NoMove
  <2>1. Detect(b, q, sample) = BalanceExchanges(b, q, sample)
    BY <1>7 DEF Detect, Panic, Move
  <2>2. Detect(b, q, sample) = LowerRatio(b, q)
    BY <2>1 DEF BalanceExchanges, RaiseRatio, KeepHedge, Panic, Move
  <2> QED
    BY <1>3, <2>2
<1> QED
  BY <1>6, <1>7

-----------------------------------------------------------------------------
(* Steps. *)

(* No withdrawal asks for more than the excess on dYdX and the least       *)
(* amount that is moved.                                                   *)
Sparing ==
  misreads = 0 /\ withdrew /\ Planned("e1_to_wallet") =>
    E1Lack(bal, Quotes(price)) + plan.amount < MinLimit(Quotes(price))

(* Once it has withdrawn from dYdX, the strategy sees no reason to send    *)
(* funds to it, because nothing that it does gains anything.               *)
Kept ==
  misreads = 0 /\ withdrew =>
    ~Planned("wallet_to_e1") /\ E1Lack(bal, Quotes(price)) < MinLimit(Quotes(price))

Wealth(b, p) == Cash(b) + p * Coins(b)

(* The end of an operation that takes nothing from dYdX. *)
LEMMA EndKept ==
  ASSUME Inv, Inv', Kept, misreads' = misreads, withdrew' = withdrew, price' = price,
         plan' = Idle \/ plan' = Panic,
         bal.e1Total <= bal'.e1Total, Wealth(bal', price) <= Wealth(bal, price)
  PROVE  Kept'
<1> SUFFICES ASSUME misreads = 0, withdrew
             PROVE  E1Lack(bal', Quotes(price)) < MinLimit(Quotes(price))
  BY DEF Kept, Planned, Idle, Panic, Move
<1>1. bal \in Reading /\ price \in Price /\ bal' \in Reading
  <2>1. bal \in Reading /\ price \in Price
    BY Amounts DEF Inv
  <2>2. TypeOK'
    BY DEF Inv
  <2>3. bal' \in Reading
    BY <2>2 DEF TypeOK, Reading
  <2> QED
    BY <2>1, <2>3
<1>2. E1Lack(bal', Quotes(price)) <= E1Lack(bal, Quotes(price)) + bal.e1Total - bal'.e1Total
  BY <1>1, LackAfter DEF Wealth
<1>3. /\ E1Lack(bal, Quotes(price)) \in Int /\ E1Lack(bal', Quotes(price)) \in Int
      /\ MinLimit(Quotes(price)) \in Int /\ bal.e1Total \in Int /\ bal'.e1Total \in Int
  BY <1>1, Lacks, Worths DEF Reading, Fields
<1>4. E1Lack(bal, Quotes(price)) < MinLimit(Quotes(price))
  BY DEF Kept
<1> QED
  BY <1>2, <1>3, <1>4

LEMMA DecideKept == ASSUME Inv, Kept, Decide, Sparing' PROVE Kept'
<1>1. PICK sample \in Samples : plan' = Detect(bal, Quotes(price), sample)
  BY DEF Decide, DecideFrom
<1>2. /\ sample \in Int /\ bal \in Reading /\ price \in Price
      /\ bal' = bal /\ price' = price /\ misreads' = misreads
      /\ withdrew' = (plan'.op = "e1_to_wallet" \/ (withdrew /\ plan'.op # "monitoring"))
  BY SamplesAssumption, Amounts DEF Inv, Decide, DecideFrom
<1>3. E1Lack(bal, Quotes(price)) \in Int /\ MinLimit(Quotes(price)) \in Int
  BY <1>2, Lacks, Worths
<1> SUFFICES ASSUME misreads = 0, withdrew' PROVE Kept'
  BY <1>2 DEF Kept
<1>4. CASE plan'.op = "e1_to_wallet"
  <2>1. plan'.amount \in Nat
    BY <1>1, <1>2, <1>4, WithdrawalsAreAmounts
  <2>2. E1Lack(bal, Quotes(price)) + plan'.amount < MinLimit(Quotes(price))
    BY <1>2, <1>4 DEF Sparing, Planned
  <2>3. E1Lack(bal, Quotes(price)) < MinLimit(Quotes(price))
    BY <1>3, <2>1, <2>2
  <2> QED
    BY <1>2, <1>4, <2>3 DEF Kept, Planned
<1>5. CASE plan'.op # "e1_to_wallet"
  <2>1. E1Lack(bal, Quotes(price)) < MinLimit(Quotes(price))
    BY <1>2, <1>5 DEF Kept
  <2>2. plan'.op # "wallet_to_e1"
    BY <1>1, <1>2, <2>1, NoneForE1
  <2> QED
    BY <1>2, <2>1, <2>2 DEF Kept, Planned
<1> QED
  BY <1>4, <1>5

(* An operation that is broken off and does not end the process counts as  *)
(* ended; one that does was given an answer in which something is missing. *)
LEMMA BrokenOffKept ==
  ASSUME Inv, BrokenOff
  PROVE  (plan' = Idle /\ misreads' = misreads) \/ Kept'
<1>1. CASE Crashes
  <2>1. misreads' # 0
    BY <1>1, UnreadableCounts DEF Crashes, Inv
  <2> QED
    BY <2>1 DEF Kept
<1> QED
  BY <1>1 DEF BrokenOff

(* What is paid makes nobody richer, and neither does what comes in. *)
LEMMA TransferWealth ==
  ASSUME Inv, NEW op \in TransferOps, Planned(op), Possible(op),
         NEW after, after = Paid(op) \/
           after = [Paid(op) EXCEPT ![Target(op)] = @ + (Sent(op) - Cost(op))]
  PROVE  /\ Wealth(after, price) <= Wealth(bal, price)
         /\ after.e1Total >= IF op = "e1_to_wallet" THEN bal.e1Total - plan.amount
                             ELSE bal.e1Total
<1>1. /\ \A f \in Fields : bal[f] \in Int
      /\ bal \in [Fields -> Int] /\ price \in Nat /\ plan.amount \in Int
      /\ Sent(op) \in Nat /\ Cost(op) \in Nat /\ Cost(op) <= Sent(op)
  BY Amounts, SentBounds DEF Inv, TypeOK, Price
<1>2. Source(op) \in Fields /\ Target(op) \in Fields /\ Source(op) # Target(op)
  BY SentBounds DEF Inv
<1>3. PICK gain \in Nat :
        /\ gain <= Sent(op)
        /\ \A f \in Fields : after[f] = IF f = Source(op) THEN bal[f] - Sent(op)
                                      ELSE IF f = Target(op) THEN bal[f] + gain
                                      ELSE bal[f]
  <2>1. CASE after = Paid(op)
    <3>1. \A f \in Fields : after[f] = IF f = Source(op) THEN bal[f] - Sent(op)
                                      ELSE IF f = Target(op) THEN bal[f] + 0
                                      ELSE bal[f]
      BY <1>1, <1>2, <2>1 DEF Paid
    <3> QED
      BY <1>1, <3>1
  <2>2. CASE after = [Paid(op) EXCEPT ![Target(op)] = @ + (Sent(op) - Cost(op))]
    <3>1. Sent(op) - Cost(op) \in Nat /\ Sent(op) - Cost(op) <= Sent(op)
      BY <1>1
    <3>2. \A f \in Fields : after[f] = IF f = Source(op) THEN bal[f] - Sent(op)
                                      ELSE IF f = Target(op) THEN bal[f] + (Sent(op) - Cost(op))
                                      ELSE bal[f]
      BY <1>1, <1>2, <2>2 DEF Paid
    <3> QED
      BY <3>1, <3>2
  <2> QED
    BY <2>1, <2>2
<1>4. /\ \A f \in Fields : after[f] \in Int
      /\ Coins(after) \in Int /\ Coins(bal) \in Int /\ Cash(after) \in Int /\ Cash(bal) \in Int
  <2>1. \A f \in Fields : after[f] \in Int
    BY <1>1, <1>3
  <2> QED
    BY <1>1, <2>1 DEF Coins, Cash, Fields
<1>5. /\ Cash(after) <= Cash(bal) /\ Coins(after) <= Coins(bal)
      /\ after.e1Total >= IF op = "e1_to_wallet" THEN bal.e1Total - plan.amount
                          ELSE bal.e1Total
  <2>1. CASE op \in {"e1_to_wallet", "ee_to_wallet"}
    <3>1. /\ Source(op) = IF op = "e1_to_wallet" THEN "e1Total" ELSE "eePrim"
          /\ Target(op) = "wallet"
          /\ op = "e1_to_wallet" => Sent(op) = plan.amount
      BY <2>1 DEF Source, Target, Sent
    <3> QED
      BY <1>1, <1>3, <2>1, <3>1 DEF Cash, Coins, Fields
  <2>2. CASE op \in {"wallet_to_e1", "wallet_to_ee"}
    <3>1. /\ Source(op) = "wallet"
          /\ Target(op) = IF op = "wallet_to_e1" THEN "e1Total" ELSE "eePrim"
      BY <2>2 DEF Source, Target
    <3> QED
      BY <1>1, <1>3, <2>2, <3>1 DEF Cash, Coins, Fields
  <2>3. CASE op \in {"ee_to_e2", "e2_to_ee", "stake", "unstake"}
    <3>1. {Source(op), Target(op)} \subseteq {"eeSec", "staked", "unstaked"}
      BY <2>3 DEF Source, Target
    <3> QED
      BY <1>1, <1>2, <1>3, <2>3, <3>1 DEF Cash, Coins, Fields
  <2> QED
    BY <2>1, <2>2, <2>3 DEF TransferOps
<1>6. price * Coins(after) <= price * Coins(bal)
  BY <1>1, <1>4, <1>5, Scaling
<1> QED
  BY <1>1, <1>4, <1>5, <1>6, Products DEF Wealth

LEMMA TransferKept ==
  ASSUME Inv, Inv', Kept, Sparing, NEW op \in TransferOps, Transfer(op) \/ Delay(op)
  PROVE  Kept'
<1>1. bal \in Reading /\ price \in Price /\ plan.amount \in Int /\ Wealth(bal, price) \in Int
  BY Amounts, Worth DEF Inv, Wealth
<1>2. bal.e1Total \in Int /\ bal.wallet \in Int
  BY <1>1 DEF Reading, Fields
<1>4. Planned(op) /\ ~TooLittle(op)
  BY <1>1, <1>2 DEF Transfer, Delay, TooLittle, Planned, Inv, Ready
<1>7. withdrew' = withdrew /\ price' = price /\ (Done(bal') \/ BrokenOff)
  BY <1>4 DEF Transfer, Delay, DoneIf, Done
<1> SUFFICES ASSUME plan' = Idle, misreads' = misreads PROVE Kept'
  <2>1. Done(bal') => plan' = Idle /\ misreads' = misreads
    BY DEF Done, counters
  <2> QED
    BY <1>7, <2>1, BrokenOffKept
<1>3. Planned(op) /\ misreads' = misreads /\ withdrew' = withdrew /\ price' = price
  BY <1>4, <1>7
<1>5. CASE ~Possible(op)
  <2>1. bal' = bal /\ plan' = Idle
    BY <1>4, <1>5 DEF Transfer, Delay, DoneIf, Done
  <2> QED
    BY <1>1, <1>2, <1>3, <2>1, EndKept
<1>6. CASE Possible(op)
  <2>1. /\ plan' = Idle
        /\ \/ bal' = Paid(op)
           \/ bal' = [Paid(op) EXCEPT ![Target(op)] = @ + (Sent(op) - Cost(op))]
    BY <1>4, <1>6 DEF Transfer, Delay, DoneIf, Done
  <2>2. /\ Wealth(bal', price) <= Wealth(bal, price)
        /\ bal'.e1Total >= IF op = "e1_to_wallet" THEN bal.e1Total - plan.amount
                           ELSE bal.e1Total
    BY <1>3, <1>6, <2>1, TransferWealth
  <2>3. CASE op # "e1_to_wallet"
    <3>1. bal.e1Total <= bal'.e1Total
      BY <1>2, <2>2, <2>3
    <3> QED
      BY <1>3, <2>1, <2>2, <3>1, EndKept
  <2>4. CASE op = "e1_to_wallet"
    <3> SUFFICES ASSUME misreads = 0, withdrew
                 PROVE  E1Lack(bal', Quotes(price)) < MinLimit(Quotes(price))
      BY <1>3, <2>1 DEF Kept, Planned, Idle, Move
    <3>1. E1Lack(bal, Quotes(price)) + plan.amount < MinLimit(Quotes(price))
      BY <1>3, <2>4 DEF Sparing
    <3>2. bal' \in Reading
      BY DEF Inv, TypeOK, Reading
    <3>3. E1Lack(bal', Quotes(price))
            <= E1Lack(bal, Quotes(price)) + bal.e1Total - bal'.e1Total
      BY <1>1, <2>2, <3>2, LackAfter DEF Wealth
    <3>4. /\ E1Lack(bal, Quotes(price)) \in Int /\ E1Lack(bal', Quotes(price)) \in Int
          /\ MinLimit(Quotes(price)) \in Int /\ bal'.e1Total \in Int
      BY <1>1, <3>2, Lacks, Worths DEF Reading, Fields
    <3> QED
      BY <1>1, <1>2, <2>2, <2>4, <3>1, <3>3, <3>4
  <2> QED
    BY <2>3, <2>4
<1> QED
  BY <1>5, <1>6

(* Orders fill at the price that all is counted at. *)
LEMMA OrderWealth ==
  ASSUME NEW b \in Reading, price \in Price, NEW size \in Int
  PROVE  /\ Shorten(b, size).e1Total = b.e1Total
         /\ Wealth(Shorten(b, size), price) = Wealth(b, price)
         /\ Lengthen(b, size).e1Total = b.e1Total
         /\ Wealth(Lengthen(b, size), price) = Wealth(b, price)
         /\ Sell(b, size).e1Total = b.e1Total
         /\ Wealth(Sell(b, size), price) = Wealth(b, price)
         /\ Buy(b, size).e1Total = b.e1Total
         /\ Wealth(Buy(b, size), price) = Wealth(b, price)
<1>1. b \in [Fields -> Int] /\ \A f \in Fields : b[f] \in Int
  BY DEF Reading
<1>2. /\ Shorten(b, size).e1Total = b.e1Total
      /\ Cash(Shorten(b, size)) = Cash(b) /\ Coins(Shorten(b, size)) = Coins(b)
      /\ Lengthen(b, size).e1Total = b.e1Total
      /\ Cash(Lengthen(b, size)) = Cash(b) /\ Coins(Lengthen(b, size)) = Coins(b)
  BY <1>1 DEF Shorten, Lengthen, Cash, Coins, Fields
<1>3. price \in Int /\ size * price \in Int /\ size * price = price * size
  BY Products DEF Price
<1>4. /\ Sell(b, size).e1Total = b.e1Total /\ Buy(b, size).e1Total = b.e1Total
      /\ Cash(Sell(b, size)) = Cash(b) + size * price
      /\ Cash(Buy(b, size)) = Cash(b) - size * price
      /\ Coins(Sell(b, size)) = Coins(b) - size /\ Coins(Buy(b, size)) = Coins(b) + size
  BY <1>1, <1>3 DEF Sell, Buy, Cash, Coins, Fields
<1>5. Coins(b) \in Int /\ Cash(b) \in Int
  BY <1>1 DEF Coins, Cash, Fields
<1>6. /\ price * (Coins(b) - size) = price * Coins(b) - price * size
      /\ price * (Coins(b) + size) = price * Coins(b) + price * size
      /\ price * Coins(b) \in Int
  BY <1>3, <1>5
<1> QED
  BY <1>2, <1>3, <1>4, <1>5, <1>6 DEF Wealth

LEMMA TradeKept == ASSUME Inv, Inv', Kept, Trade \/ CutOff PROVE Kept'
<1>1. /\ TypeOK /\ bal \in Reading /\ price \in Price /\ plan.amount \in Int
      /\ bal.e1Total \in Int /\ Wealth(bal, price) \in Int
  BY Amounts, Worth DEF Inv, Wealth, Fields
<1> DEFINE Even(b) == b.e1Total = bal.e1Total /\ Wealth(b, price) = Wealth(bal, price)
           hedged  == Lengthen(bal, EnlargeOnE1)
<1>2. /\ ReduceOnEe \in Nat /\ ReduceOnE1 \in Int /\ Sell(bal, ReduceOnEe) \in Reading
      /\ EnlargeOnE1 \in Int /\ EnlargeOnEe \in Nat /\ hedged \in Reading
  BY <1>1, SizesToReduce, Selling, SizesToEnlarge, ShortOrders
<1>3. /\ Even(bal) /\ Even(Shorten(bal, plan.amount)) /\ Even(Lengthen(bal, plan.amount))
      /\ Even(Sell(bal, ReduceOnEe)) /\ Even(Shorten(Sell(bal, ReduceOnEe), ReduceOnE1))
      /\ Even(hedged) /\ Even(Buy(hedged, EnlargeOnEe))
  BY <1>1, <1>2, OrderWealth
<1> HIDE DEF Even
<1>5. CASE BrokenOff /\ ~(plan' = Idle /\ misreads' = misreads)
  BY <1>5, BrokenOffKept
<1> SUFFICES ASSUME ~BrokenOff \/ (plan' = Idle /\ misreads' = misreads) PROVE Kept'
  BY <1>5
<1>4. /\ Even(bal') /\ (plan' = Idle \/ plan' = Panic)
      /\ misreads' = misreads /\ withdrew' = withdrew /\ price' = price
  <2>1. CASE ReduceShort \/ EnlargeShort
    BY <1>3, <2>1 DEF ReduceShort, EnlargeShort, OnE1, Done, counters
  <2>2. CASE ReduceBoth
    BY <1>3, <2>2 DEF ReduceBoth, OnE1, Panics, Done, counters
  <2>3. CASE EnlargeBoth
    BY <1>3, <2>3 DEF EnlargeBoth, Done, counters
  <2>4. CASE CutOff
    BY <1>3, <2>4 DEF CutOff
  <2> QED
    BY <2>1, <2>2, <2>3, <2>4 DEF Trade
<1> QED
  BY <1>1, <1>4, EndKept DEF Even

LEMMA KeptStep ==
  ASSUME Inv, Inv', Kept, Sparing, Sparing', [Next]_vars PROVE Kept'
<1>1. bal.e1Total \in Int /\ Wealth(bal, price) \in Int
  BY Amounts, Worth DEF Inv, Wealth, Fields
<1>2. CASE Monitor \/ Restart
  BY <1>1, <1>2, EndKept DEF Monitor, Restart, Done, counters
<1>3. CASE DecideMisread
  <2>1. misreads' # 0
    BY <1>3, UnreadableCounts DEF DecideMisread, Inv
  <2> QED
    BY <2>1 DEF Kept
<1>4. CASE Arrive \/ PriceMove
  BY <1>4 DEF Arrive, PriceMove, Kept
<1>5. CASE UNCHANGED vars
  BY <1>5 DEF vars, counters, Kept, Planned
<1>6. CASE Crash
  <2>1. misreads' # 0
    BY <1>6, UnreadableCounts DEF Crash, Crashes, Inv
  <2> QED
    BY <2>1 DEF Kept
<1> QED
  BY <1>2, <1>3, <1>4, <1>5, <1>6, DecideKept, TransferKept, TradeKept DEF Next, Work

(* As long as no withdrawal takes more from dYdX than its excess and the   *)
(* least amount that is moved, nothing of it is sent back at the same      *)
(* price: not after any of the operations in between, failed, cut off or   *)
(* delayed, nor because of what they cost.                                 *)
THEOREM NothingIsThrownBack == Spec /\ []Sparing => []NoThrowBack
<1>1. Init => Kept
  BY DEF Init, Kept
<1>2. Inv /\ Inv' /\ Kept /\ Sparing /\ Sparing' /\ [Next]_vars => Kept'
  BY KeptStep
<1>3. Kept => NoThrowBack
  BY DEF Kept, NoThrowBack
<1> QED
  BY <1>1, <1>2, <1>3, Invariance, PTL DEF Spec
=============================================================================
