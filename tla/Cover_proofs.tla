---------------------------- MODULE Cover_proofs ----------------------------
(***************************************************************************)
(* Proofs about the amounts the strategy decides on: that each is there to *)
(* be spent, after all minima, commissions and insurances, and that the    *)
(* strategy therefore never unstakes the last ATOM it detects by.          *)
(***************************************************************************)
EXTENDS Rebalance_proofs

-----------------------------------------------------------------------------
(* Products with factors that are not constants. *)

LEMMA Scaling ==
  ASSUME NEW k \in Nat, NEW x \in Int, NEW y \in Int, x <= y
  PROVE  k * x \in Int /\ k * y \in Int /\ k * x <= k * y
<1>1. y - x \in Nat
  OBVIOUS
<1>2. k * (y - x) \in Nat
  BY <1>1, Products
<1>3. k * (y - x) = k * y - k * x
  OBVIOUS
<1> QED
  BY <1>2, <1>3, Products

LEMMA Cancelling ==
  ASSUME NEW k \in Nat \ {0}, NEW x \in Int, NEW y \in Int, k * x <= k * y
  PROVE  x <= y
<1> SUFFICES ASSUME y + 1 <= x PROVE FALSE
  OBVIOUS
<1>1. k * (y + 1) <= k * x
  BY Scaling
<1>2. k * (y + 1) = k * y + k
  OBVIOUS
<1> QED
  BY <1>1, <1>2, Products

-----------------------------------------------------------------------------
(* The shares of dYdX and Kraken. *)

(* What Kraken and the rest are to hold together. *)
ExpectedRest(b, q) == (100 * Total(b, q)) \div (100 + InitRatio)

LEMMA Shares ==
  ASSUME NEW b \in Reading, NEW p \in Price
  PROVE  /\ ExpectedE1(b, Quotes(p)) \in Nat
         /\ ExpectedE1Low(b, Quotes(p)) <= ExpectedE1(b, Quotes(p))
         /\ ExpectedE1Low(b, Quotes(p)) \in Int /\ ExpectedE2Low(b, Quotes(p)) \in Int
         /\ ExpectedRest(b, Quotes(p)) \in Int
         /\ ExpectedE1(b, Quotes(p)) + ExpectedRest(b, Quotes(p)) <= Total(b, Quotes(p))
         /\ (100 + InitRatio) * ExpectedE1(b, Quotes(p)) <= InitRatio * Total(b, Quotes(p))
         /\ Moderate => /\ 8 * ExpectedE1(b, Quotes(p)) <= 3 * Total(b, Quotes(p))
                        /\ Total(b, Quotes(p)) <= 6 * ExpectedE1(b, Quotes(p)) + 5
<1> DEFINE t == Total(b, Quotes(p))
           i == InitRatio
           l == LowRatio
           x == ExpectedE1(b, Quotes(p))
           y == ExpectedE1Low(b, Quotes(p))
           r == ExpectedRest(b, Quotes(p))
<1>1. t \in Nat /\ i \in Nat /\ l \in Nat /\ HighRatio \in Nat /\ l <= i
  BY Worths, RatiosAssumption
<1>2. x = (t * i) \div (100 + i) /\ y = (t * l) \div (100 + l) /\ r = (100 * t) \div (100 + i)
  BY DEF ExpectedE1, ExpectedE1Low, ExpectedRest, Share
<1>3. /\ t * i \in Nat /\ t * l \in Nat /\ 100 * t \in Nat
      /\ 100 + i \in Nat \ {0} /\ 100 + l \in Nat \ {0}
  BY <1>1, Products
<1>4. ExpectedE2Low(b, Quotes(p)) \in Int
  <2>1. t * 100 \in Int /\ 100 + HighRatio \in Nat \ {0}
    BY <1>1
  <2> QED
    BY <2>1, Division DEF ExpectedE2Low
<1> HIDE DEF t, i, l, x, y, r
<1>5. /\ x \in Int /\ (100 + i) * x <= t * i /\ t * i < (100 + i) * x + (100 + i)
      /\ y \in Int /\ (100 + l) * y <= t * l
      /\ r \in Int /\ (100 + i) * r <= 100 * t
  <2>1. \A u \in Nat, d \in Nat \ {0} :
          u \div d \in Int /\ d * (u \div d) <= u /\ u < d * (u \div d) + d
    BY Division
  <2> QED
    BY <1>2, <1>3, <2>1
<1>6. x >= 0
  <2> SUFFICES ASSUME x <= -1 PROVE FALSE
    BY <1>5
  <2>1. (100 + i) * x <= (100 + i) * (-1)
    BY <1>1, <1>5, Scaling
  <2> QED
    BY <1>1, <1>3, <1>5, <2>1
<1>7. y <= x
  <2> SUFFICES ASSUME x + 1 <= y PROVE FALSE
    BY <1>5
  <2>1. (100 + i) * (x + 1) <= (100 + i) * y
    BY <1>1, <1>5, Scaling
  <2>2. i * (t - y) < 100 * y /\ 100 * y <= l * (t - y)
    <3>1. /\ (100 + i) * (x + 1) = (100 + i) * x + (100 + i)
          /\ (100 + i) * y = 100 * y + i * y /\ i * (t - y) = t * i - i * y
          /\ (100 + l) * y = 100 * y + l * y /\ l * (t - y) = t * l - l * y
      BY <1>1, <1>5
    <3>2. i * y \in Int /\ l * y \in Int /\ (100 + i) * x \in Int
      BY <1>1, <1>5, Products
    <3> QED
      BY <1>1, <1>3, <1>5, <2>1, <3>1, <3>2
  <2>3. t - y >= 0
    <3> SUFFICES ASSUME t - y <= -1 PROVE FALSE
      BY <1>1, <1>5
    <3>1. l * (t - y) <= l * (-1)
      BY <1>1, <1>5, Scaling
    <3> QED
      BY <1>1, <1>5, <1>6, <2>2, <3>1
  <2>4. (i - l) * (t - y) \in Nat
    BY <1>1, <1>5, <2>3, Products
  <2>5. (i - l) * (t - y) = i * (t - y) - l * (t - y)
    BY <1>1, <1>5
  <2>6. i * (t - y) \in Int /\ l * (t - y) \in Int
    BY <1>1, <1>5, Products
  <2> QED
    BY <1>5, <2>2, <2>4, <2>5, <2>6
<1>8. x + r <= t
  <2>1. (100 + i) * (x + r) <= (100 + i) * t
    <3>1. /\ (100 + i) * (x + r) = (100 + i) * x + (100 + i) * r
          /\ (100 + i) * t = 100 * t + t * i
      BY <1>1, <1>5
    <3>2. (100 + i) * x \in Int /\ (100 + i) * r \in Int
      BY <1>1, <1>5, Products
    <3> QED
      BY <1>1, <1>3, <1>5, <3>1, <3>2
  <2> QED
    BY <1>1, <1>3, <1>5, <2>1, Cancelling
<1>9. ASSUME i \in 20 .. 60 PROVE 8 * x <= 3 * t
  <2> SUFFICES ASSUME 3 * t <= 8 * x - 1 PROVE FALSE
    BY <1>1, <1>5
  <2>1. i * (3 * t) <= i * (8 * x - 1)
    BY <1>1, <1>5, Scaling
  <2>2. x * i <= x * 60
    BY <1>1, <1>6, <1>9, Scaling, <1>5
  <2>3. /\ i * (3 * t) = 3 * (t * i) /\ i * (8 * x - 1) = 8 * (x * i) - i
        /\ (100 + i) * x = 100 * x + x * i /\ x * i \in Int
    BY <1>1, <1>5
  <2> QED
    BY <1>1, <1>3, <1>5, <1>9, <2>1, <2>2, <2>3
<1>10. ASSUME i \in 20 .. 60 PROVE t <= 6 * x + 5
  <2> SUFFICES ASSUME 6 * x + 6 <= t PROVE FALSE
    BY <1>1, <1>5
  <2>1. i * (6 * x + 6) <= i * t
    BY <1>1, <1>5, Scaling
  <2>2. x * 20 <= x * i
    BY <1>1, <1>6, <1>10, Scaling, <1>5
  <2>3. /\ i * (6 * x + 6) = 6 * (x * i) + 6 * i /\ i * t = t * i
        /\ (100 + i) * x = 100 * x + x * i /\ x * i \in Int
    BY <1>1, <1>5
  <2> QED
    BY <1>1, <1>3, <1>5, <1>10, <2>1, <2>2, <2>3
<1>11. (100 + i) * x <= i * t
  BY <1>1, <1>5
<1> QED
  BY <1>4, <1>5, <1>6, <1>7, <1>8, <1>9, <1>10, <1>11 DEF t, i, x, y, r, Moderate

-----------------------------------------------------------------------------
(* When redistribution gives up. *)

(* What Ample asks of balances. *)
Wealthy(b, q) ==
  /\ 30 * MinLimit(q) <= Total(b, q)
  /\ ExpectedE2Low(b, q) + MinLimit(q) < ExpectedRest(b, q)

(* Little is underway, or more than all that is underway is missing on     *)
(* dYdX: Kraken is in no need of it, because its limit is further from its *)
(* share than the least amount that is moved.                              *)
LEMMA GivesUp ==
  ASSUME NEW b \in Reading, NEW p \in Price, NEW sample \in Int,
         Wealthy(b, Quotes(p)), Redistribute(b, Quotes(p), sample) = NoMove
  PROVE  \/ Little(b, Quotes(p))
         \/ E1Lack(b, Quotes(p)) > EwTotal(b, Quotes(p)) + MinLimit(Quotes(p))
<1> DEFINE q    == Quotes(p)
           e1   == b.e1Total
           e2   == E2Total(b, q)
           ew   == EwTotal(b, q)
           m    == MinLimit(q)
           lack == E1Lack(b, q)
           all  == Total(b, q)
<1>1. /\ e1 \in Nat /\ e2 \in Nat /\ ew \in Nat /\ m \in Nat /\ all = e1 + e2 + ew
      /\ lack = ExpectedE1(b, q) - e1 /\ ExpectedE1(b, q) \in Nat
  BY Worths, Shares DEF Total, E1Lack, Reading, Fields
<1>2. CASE EewTransferable(b, q) <= m
  BY <1>2, LittleForE1
<1>3. CASE /\ ~(EewTransferable(b, q) <= m)
           /\ e1 + ew >= ExpectedE1Low(b, q) /\ e2 + ew >= ExpectedE2Low(b, q)
  <2>1. ToE1(b, q, sample) = NoMove \/ ToE2(b, q, sample) = NoMove
    BY <1>3 DEF Redistribute
  <2> QED
    BY <2>1, LittleOnTheWayToE1, LittleForE2
<1>4. CASE /\ ~(EewTransferable(b, q) <= m)
           /\ ~(e1 + ew >= ExpectedE1Low(b, q) /\ e2 + ew >= ExpectedE2Low(b, q))
  <2>1. CASE -lack > m
    <3>1. FromE1(b, q, sample) = NoMove
      BY <1>4, <2>1 DEF Redistribute
    <3>2. Sane(NoMove, b, sample)
      BY <3>1, FromE1Sane
    <3> QED
      BY <3>2 DEF Sane, NoMove, Move, Moves, Ops, TransferOps, TradeOps
  <2>2. CASE lack > m
    <3>1. FillE1(b, q, sample) = NoMove
      BY <1>1, <1>4, <2>2 DEF Redistribute
    <3>2. ew - lack < -m
      BY <3>1 DEF FillE1, NoMove, Move
    <3> QED
      BY <1>1, <3>2
  <2>3. CASE ~(-lack > m) /\ ~(lack > m)
    <3>1. /\ ExpectedE1(b, q) + ExpectedRest(b, q) <= all
          /\ ExpectedE2Low(b, q) + m < ExpectedRest(b, q)
          /\ ExpectedE1Low(b, q) <= ExpectedE1(b, q)
          /\ ExpectedE1Low(b, q) \in Int /\ ExpectedE2Low(b, q) \in Int
          /\ ExpectedRest(b, q) \in Int
      BY Shares DEF Wealthy
    <3> HIDE DEF e1, e2, ew, m, lack, all
    <3>2. e2 + ew >= ExpectedE2Low(b, q)
      BY <1>1, <2>3, <3>1
    <3>3. e1 + ew < ExpectedE1(b, q)
      BY <1>1, <1>4, <3>1, <3>2
    <3>4. ew < m
      BY <1>1, <2>3, <3>3
    <3>5. b.wallet \in Nat /\ b.wallet <= ew
      BY Underway DEF ew
    <3> QED
      BY <1>1, <3>4, <3>5 DEF Little, ew, m
  <2> QED
    BY <2>1, <2>2, <2>3
<1> QED
  BY <1>2, <1>3, <1>4

-----------------------------------------------------------------------------
(* Amounts with three commissions and the insurance. *)

Insured(x) == PlusTolerance(PlusCommission(PlusCommission(PlusCommission(x))))

LEMMA Insurance ==
  ASSUME NEW x \in Int
  PROVE  /\ Insured(x) \in Int
         /\ x >= 0 => 10000 * Insured(x) <= 11166 * x
         /\ x <= 0 => Insured(x) <= 0
<1>1. \A y \in Int : /\ PlusCommission(y) \in Int /\ PlusTolerance(y) \in Int
                     /\ 200 * PlusCommission(y) <= 201 * y
                     /\ 10 * PlusTolerance(y) <= 11 * y
  BY DEF PlusCommission, PlusTolerance
<1> DEFINE y == PlusCommission(x)
           z == PlusCommission(y)
           u == PlusCommission(z)
           v == PlusTolerance(u)
<1>2. /\ y \in Int /\ z \in Int /\ u \in Int /\ v \in Int
      /\ 200 * y <= 201 * x /\ 200 * z <= 201 * y /\ 200 * u <= 201 * z /\ 10 * v <= 11 * u
  BY <1>1
<1>3. Insured(x) = v
  BY DEF Insured
<1> HIDE DEF y, z, u, v
<1> QED
  BY <1>2, <1>3

(* The ratio is too low: Kraken's stake is more than has to be unstaked    *)
(* from it, by some ATOM.                                                  *)
LEMMA StakeSuffices ==
  ASSUME NEW b \in Reading, NEW p \in Price, NEW sample \in Int, Moderate,
         Wealthy(b, Quotes(p)), Redistribute(b, Quotes(p), sample) = NoMove,
         Larger(b.e2Usdc, b.e2Usd) < MinLimit(Quotes(p))
  PROVE  \/ \E a \in Int : RaiseRatio(b, Quotes(p)) = Move("e2_to_ee", a) /\ a <= b.unstaked
         \/ \E a \in Int : /\ RaiseRatio(b, Quotes(p)) = Move("unstake", a)
                          /\ a >= Atom /\ a < b.staked
<1> DEFINE q          == Quotes(p)
           lack       == E1Lack(b, q)
           m          == MinLimit(q)
           worth      == Insured(lack)
           delta      == worth \div p
           toUnstake  == delta - (b.unstaked + b.eeSec)
           part       == Smaller(delta, b.unstaked)
           toTransfer == IF b.unstaked - PlusTolerance(part) < Atom THEN b.unstaked ELSE part
           atLeast    == Larger(Atom, toUnstake)
           fixed      == IF b.staked - atLeast < Atom THEN b.staked ELSE atLeast
<1>1. /\ b.e1Total \in Nat /\ b.staked \in Nat /\ b.unstaked \in Nat /\ b.eeSec \in Nat
      /\ b.e2Usdc \in Nat /\ b.e2Usd \in Nat
  BY DEF Reading, Fields
<1>2. /\ p \in Nat \ {0} /\ m \in Nat /\ m >= 200 * p
      /\ E2Total(b, q) \in Nat /\ EwTotal(b, q) \in Nat /\ Total(b, q) \in Nat
      /\ Total(b, q) = b.e1Total + E2Total(b, q) + EwTotal(b, q)
  BY Worths DEF Price, Total
<1>3. /\ lack \in Int /\ lack = ExpectedE1(b, q) - b.e1Total
      /\ ExpectedE1(b, q) \in Nat /\ 8 * ExpectedE1(b, q) <= 3 * Total(b, q)
  BY Lacks, Shares DEF E1Lack
<1>4. lack > EwTotal(b, q) + m \/ 100 * EwTotal(b, q) <= 301 * m
  BY GivesUp DEF Little
<1> HIDE DEF lack, m
<1>5. /\ worth \in Int
      /\ lack >= 0 => 10000 * worth <= 11166 * lack
      /\ lack <= 0 => worth <= 0
  BY <1>3, Insurance
<1> HIDE DEF worth
<1>6. delta \in Int /\ p * delta <= worth /\ worth < p * delta + p
  BY <1>2, <1>5, Division
<1>7. RaiseRatio(b, q) = IF 3 * toUnstake < Atom THEN Move("e2_to_ee", toTransfer)
                         ELSE Move("unstake", Larger(Atom, fixed))
  BY DEF RaiseRatio, worth, lack, Insured, Quotes
<1> HIDE DEF delta
<1>8. CASE 3 * toUnstake < Atom
  <2>1. toTransfer \in Int /\ toTransfer <= b.unstaked
    BY <1>1, <1>6 DEF Smaller
  <2> QED
    BY <1>7, <1>8, <2>1
<1>9. CASE ~(3 * toUnstake < Atom)
  <2>1. toUnstake \in Int /\ toUnstake > 0
    BY <1>1, <1>6, <1>9 DEF Atom
  <2>2. delta >= 1
    BY <1>1, <1>6, <2>1
  <2>3. p * 1 <= p * delta
    BY <1>2, <1>6, <2>2, Scaling
  <2>4. lack > 0
    BY <1>2, <1>3, <1>5, <1>6, <2>3
  <2>5. E2Total(b, q) >= worth + 6 * m
    <3>1. 30 * m <= Total(b, q)
      BY DEF Wealthy, m
    <3> QED
      BY <1>1, <1>2, <1>3, <1>4, <1>5, <2>4, <3>1
  <2>6. p * (delta + 800) <= p * (b.staked + b.unstaked)
    <3>1. E2Total(b, q) = b.e2Usdc + b.e2Usd + p * (b.staked + b.unstaked)
      BY <1>1, <1>2 DEF E2Total, Quotes
    <3>2. b.e2Usdc < m /\ b.e2Usd < m
      BY <1>1, <1>2 DEF Larger, m
    <3>3. p * (delta + 800) = p * delta + 800 * p
      BY <1>2, <1>6
    <3>4. p * (b.staked + b.unstaked) \in Int /\ p * delta \in Int
      BY <1>1, <1>2, <1>6
    <3> QED
      BY <1>1, <1>2, <1>5, <1>6, <2>5, <3>1, <3>2, <3>3, <3>4
  <2>7. delta + 800 <= b.staked + b.unstaked
    BY <1>1, <1>2, <1>6, <2>6, Cancelling
  <2>8. toUnstake + 800 <= b.staked
    BY <1>1, <1>6, <2>7
  <2> HIDE DEF toUnstake
  <2>9. Larger(Atom, fixed) \in Int /\ Larger(Atom, fixed) >= Atom /\ Larger(Atom, fixed) < b.staked
    BY <1>1, <2>1, <2>8 DEF Larger, Atom
  <2> QED
    BY <1>7, <1>9, <2>9 DEF toUnstake
<1> QED
  BY <1>8, <1>9

-----------------------------------------------------------------------------
(* What dYdX can give up. *)

Free(b, p) == b.e1Total - (Abs(b.short) * p) \div 10

LEMMA FreeBounds ==
  ASSUME NEW b \in Reading, NEW p \in Price
  PROVE  /\ Abs(b.short) * p \in Nat /\ b.e1Total \in Nat /\ Free(b, p) \in Int
         /\ 10 * Free(b, p) >= 10 * b.e1Total - Abs(b.short) * p
<1>1. b.short \in Int /\ b.e1Total \in Nat
  BY DEF Reading, Fields
<1>2. Abs(b.short) \in Nat
  BY <1>1 DEF Abs
<1>3. Abs(b.short) * p \in Nat
  BY <1>2, Products DEF Price
<1> DEFINE x == Abs(b.short) * p
<1>4. x \in Nat
  BY <1>3
<1> HIDE DEF x
<1>5. x \div 10 \in Int /\ 10 * (x \div 10) <= x
  BY <1>4
<1>6. Free(b, p) = b.e1Total - x \div 10
  BY DEF Free, x
<1>7. Free(b, p) \in Int /\ 10 * Free(b, p) >= 10 * b.e1Total - x
  BY <1>1, <1>4, <1>5, <1>6
<1> QED
  BY <1>1, <1>3, <1>7 DEF x

(* What Covered asks of balances. *)
Backed(b, p) ==
  Abs(b.short) * p <= Total(b, Quotes(p)) - b.e1Total + MinLimit(Quotes(p))

(* The ratio is too high: what is to leave dYdX is not bound as margin.    *)
LEMMA MarginSuffices ==
  ASSUME NEW b \in Reading, NEW p \in Price, NEW sample \in Int, Moderate,
         Wealthy(b, Quotes(p)), Redistribute(b, Quotes(p), sample) = NoMove,
         ExRatioHigh(b, Quotes(p)), Backed(b, p)
  PROVE  \E a \in Int : LowerRatio(b, Quotes(p)) = Move("e1_to_wallet", a) /\ a <= Free(b, p)
<1> DEFINE q     == Quotes(p)
           e1    == b.e1Total
           e2    == E2Total(b, q)
           ee    == EeTotal(b, q)
           ew    == EwTotal(b, q)
           m     == MinLimit(q)
           all   == Total(b, q)
           goal  == ExpectedE1(b, q)
           share == (100 * e1 - InitRatio * e2) \div (100 + InitRatio)
           delta == Larger(m, share)
<1>1. /\ e1 \in Nat /\ e2 \in Nat /\ ee \in Nat /\ ew \in Nat /\ m \in Nat /\ m >= 5000
      /\ all = e1 + e2 + ew /\ ew = b.wallet + ee /\ b.wallet \in Nat
  BY Worths DEF Total, EwTotal, Reading, Fields
<1>2. /\ goal \in Nat /\ (100 + InitRatio) * goal <= InitRatio * all /\ all <= 6 * goal + 5
      /\ E1Lack(b, q) = goal - e1
  BY Shares DEF E1Lack
<1>3. InitRatio \in Nat /\ InitRatio >= 20 /\ HighRatio \in Nat /\ InitRatio <= HighRatio
  BY RatiosAssumption DEF Moderate
<1>4. 30 * m <= all
  BY DEF Wealthy
<1>5. Free(b, p) \in Int /\ 10 * Free(b, p) >= 11 * e1 - all - m
  <2> HIDE DEF e2, ew, all
  <2> QED
    BY <1>1, FreeBounds DEF Backed, e1, all, m
<1>6. 100 * (e1 + b.wallet) > HighRatio * (e2 + ee)
  BY DEF ExRatioHigh
<1>7. LowerRatio(b, q) = Move("e1_to_wallet", Insured(delta))
  BY DEF LowerRatio, Insured
<1> HIDE DEF e1, e2, ee, ew, m, all, goal
<1>8. goal <= e1 + b.wallet
  <2>1. (e2 + ee) * InitRatio <= (e2 + ee) * HighRatio
    BY <1>1, <1>3, Scaling
  <2>2. /\ (100 + InitRatio) * (e1 + b.wallet)
              = 100 * (e1 + b.wallet) + InitRatio * (e1 + b.wallet)
        /\ InitRatio * all = InitRatio * (e1 + b.wallet) + (e2 + ee) * InitRatio
        /\ HighRatio * (e2 + ee) = (e2 + ee) * HighRatio
    <3> DEFINE x == e1 + b.wallet
               y == e2 + ee
    <3>1. x \in Int /\ y \in Int /\ all = x + y
      BY <1>1
    <3> HIDE DEF x, y
    <3>2. /\ (100 + InitRatio) * x = 100 * x + InitRatio * x
          /\ InitRatio * (x + y) = InitRatio * x + y * InitRatio
          /\ HighRatio * y = y * HighRatio
      BY <1>3, <3>1
    <3> QED
      BY <3>1, <3>2 DEF x, y
  <2>3. /\ InitRatio * (e1 + b.wallet) \in Int /\ (e2 + ee) * InitRatio \in Int
        /\ (e2 + ee) * HighRatio \in Int /\ (100 + InitRatio) * goal \in Int
    BY <1>1, <1>2, <1>3, Products
  <2>4. (100 + InitRatio) * goal <= (100 + InitRatio) * (e1 + b.wallet)
    BY <1>1, <1>2, <1>6, <2>1, <2>2, <2>3
  <2> QED
    BY <1>1, <1>2, <1>3, <2>4, Cancelling
<1>9. 100 * ew <= 301 * m /\ b.wallet <= m
  <2>1. ~(E1Lack(b, q) > ew + m)
    BY <1>1, <1>2, <1>8
  <2> QED
    BY <2>1, GivesUp DEF Little, ew, m
<1>10. share \in Int /\ 6 * share <= 6 * e1 - (e1 + e2)
  <2> DEFINE x == 100 * e1 - InitRatio * e2
             d == 100 + InitRatio
             s == e1 + e2
  <2>1. x \in Int /\ d \in Nat \ {0} /\ s \in Nat
    BY <1>1, <1>3
  <2>2. share = x \div d
    OBVIOUS
  <2>3. x = d * e1 - InitRatio * s
    BY <1>1, <1>3
  <2>4. s * d <= s * (6 * InitRatio)
    BY <1>1, <1>3, Scaling
  <2>5. s * (6 * InitRatio) = 6 * (InitRatio * s) /\ InitRatio * s \in Int
    BY <1>1, <1>3
  <2>6. d * e1 \in Int /\ s * d \in Int /\ s * d = d * s
    BY <1>1, <1>3
  <2> HIDE DEF x, d, s, share
  <2>7. share \in Int /\ d * share <= x
    BY <2>1, <2>2, Division
  <2>8. d * (6 * share) <= d * (6 * e1 - s)
    <3>1. /\ d * (6 * share) = 6 * (d * share) /\ d * (6 * e1 - s) = 6 * (d * e1) - d * s
          /\ d * share \in Int
      BY <1>1, <2>1, <2>7
    <3> QED
      BY <1>1, <2>1, <2>3, <2>4, <2>5, <2>6, <2>7, <3>1
  <2>9. 6 * share <= 6 * e1 - s
    BY <1>1, <2>1, <2>7, <2>8, Cancelling
  <2> QED
    BY <2>7, <2>9 DEF s
<1> HIDE DEF share
<1>11. /\ delta \in Int /\ delta >= m
       /\ delta = m \/ delta = share
  BY <1>1, <1>10 DEF Larger
<1> HIDE DEF delta
<1>12. Insured(delta) \in Int /\ 10000 * Insured(delta) <= 11166 * delta
  BY <1>1, <1>11, Insurance
<1>13. Insured(delta) <= Free(b, p)
  <2>1. CASE delta = m
    BY <1>1, <1>2, <1>4, <1>5, <1>8, <1>9, <1>12, <2>1
  <2>2. CASE delta = share
    BY <1>1, <1>4, <1>5, <1>9, <1>10, <1>12, <2>2
  <2> QED
    BY <1>11, <2>1, <2>2
<1> QED
  BY <1>7, <1>12, <1>13

(* dYdX has too much while funds are underway: what the rest of its funds  *)
(* does not cover is bought back first.                                    *)
LEMMA ExcessIsFree ==
  ASSUME NEW b \in Reading, NEW p \in Price, NEW sample \in Int, Moderate,
         Wealthy(b, Quotes(p)), -E1Lack(b, Quotes(p)) > MinLimit(Quotes(p)), Backed(b, p),
         FromE1(b, Quotes(p), sample).op = "e1_to_wallet"
  PROVE  FromE1(b, Quotes(p), sample).amount <= Free(b, p)
<1> DEFINE q        == Quotes(p)
           excess   == -E1Lack(b, q)
           toCancel == b.short * p - PlusTolerance((b.e1Total - excess) * 8)
           goal     == ExpectedE1(b, q)
           m        == MinLimit(q)
           all      == Total(b, q)
           bound    == Abs(b.short) * p
<1>1. toCancel <= 0 /\ FromE1(b, q, sample) = Move("e1_to_wallet", excess)
  BY DEF FromE1, Move, Quotes
<1>2. /\ b.e1Total \in Nat /\ b.short \in Int /\ b.short * p \in Int /\ bound \in Nat
      /\ 10 * Free(b, p) >= 10 * b.e1Total - bound /\ Free(b, p) \in Int
  BY FreeBounds, Products DEF Reading, Fields, Price
<1>3. /\ goal \in Nat /\ all <= 6 * goal + 5 /\ excess = b.e1Total - goal /\ excess > m
      /\ m \in Nat /\ m >= 5000 /\ all \in Nat /\ 30 * m <= all
      /\ bound <= all - b.e1Total + m
  BY <1>2, Shares, Worths DEF E1Lack, Wealthy, Backed
<1> HIDE DEF excess, goal, m, all
<1>4. 10 * (b.short * p) <= 88 * goal
  BY <1>1, <1>2, <1>3 DEF PlusTolerance
<1>5. bound <= 10 * goal
  <2>1. CASE b.short >= 0
    <3>1. bound = b.short * p
      BY <1>2, <2>1 DEF Abs
    <3> HIDE DEF bound
    <3> QED
      BY <1>2, <1>3, <1>4, <3>1
  <2>2. CASE b.short < 0
    <3> HIDE DEF bound
    <3> QED
      BY <1>2, <1>3
  <2> QED
    BY <1>2, <2>1, <2>2
<1>6. excess <= Free(b, p)
  <2> HIDE DEF bound
  <2> QED
    BY <1>2, <1>3, <1>5
<1> QED
  BY <1>1, <1>6 DEF Move

-----------------------------------------------------------------------------
(* All decisions. *)

(* What a decision spends is there.  From the wallet, do_wallet_to_e1      *)
(* takes what there is.                                                    *)
Funded(m, b, p) ==
  /\ m.op = "e1_to_wallet" /\ Backed(b, p) => m.amount <= Free(b, p)
  /\ m.op = "ee_to_wallet" => m.amount <= b.eePrim
  /\ m.op = "wallet_to_ee" => m.amount <= b.wallet
  /\ m.op = "ee_to_e2" => m.amount <= b.eeSec
  /\ m.op = "e2_to_ee" => m.amount <= b.unstaked
  /\ m.op = "stake" => Larger(m.amount, Atom) <= b.unstaked
  /\ m.op = "unstake" => Larger(m.amount, Atom) < b.staked

(* Orders are limited when they are made. *)
LEMMA OthersFunded ==
  ASSUME NEW b, NEW p, NEW x,
         NEW op \in TradeOps \cup {"wallet_to_e1", "monitoring", "panic", "none"}
  PROVE  Funded(Move(op, x), b, p)
BY DEF Funded, Move, TradeOps

LEMMA ToE1Funded ==
  ASSUME NEW b \in Reading, NEW p \in Price, NEW sample \in Int
  PROVE  Funded(ToE1(b, Quotes(p), sample), b, p)
<1> DEFINE q          == Quotes(p)
           cover      == E1DeltaWithTol(b, q) - b.wallet
           toTransfer == Larger(EeToWalletMin, cover)
           part       == Smaller(toTransfer, b.eePrim)
           sent       == IF b.eePrim - PlusTolerance(part) < Atom * q.eeBuy
                         THEN b.eePrim ELSE part
<1>1. b.eePrim \in Int /\ b.wallet \in Int /\ E1DeltaWithTol(b, q) \in Int
  BY Lacks DEF Reading, Fields
<1>2. toTransfer \in Int
  BY <1>1 DEF Larger, EeToWalletMin
<1>3. part <= b.eePrim
  <2> HIDE DEF toTransfer
  <2> QED
    BY <1>1, <1>2, Extrema
<1>4. sent <= b.eePrim
  <2> HIDE DEF part
  <2> QED
    BY <1>1, <1>3
<1> HIDE DEF part, sent
<1>5. \A x : x <= b.eePrim => Funded(Move("ee_to_wallet", x), b, p)
  BY DEF Funded, Move
<1>6. Funded(PartFromEe(b, q, sample), b, p)
  BY <1>4, <1>5, OthersFunded DEF PartFromEe, TradeOps, Panic, cover, toTransfer, part, sent
<1>7. Funded(AllToE1(b, q, sample), b, p)
  BY <1>1, <1>5, OthersFunded DEF AllToE1, TradeOps, NoMove
<1> QED
  BY <1>6, <1>7, OthersFunded DEF ToE1, PartToE1

LEMMA ToE2Funded ==
  ASSUME NEW b \in Reading, NEW p \in Price, NEW sample \in Int
  PROVE  Funded(ToE2(b, Quotes(p), sample), b, p)
<1>1. b.wallet \in Int /\ b.eeSec \in Int
  BY DEF Reading, Fields
<1>2. Funded(Move("wallet_to_ee", b.wallet), b, p) /\ Funded(Move("ee_to_e2", b.eeSec), b, p)
  BY <1>1 DEF Funded, Move
<1> QED
  BY <1>2, OthersFunded DEF ToE2, TradeOps, NoMove

LEMMA FillE1Funded ==
  ASSUME NEW b \in Reading, NEW p \in Price, NEW sample \in Int
  PROVE  Funded(FillE1(b, Quotes(p), sample), b, p)
<1> DEFINE q       == Quotes(p)
           eeDelta == Larger(PlusCommission(E1Lack(b, q) - b.wallet), EeToWalletMin)
           sent    == Smaller(eeDelta, b.eePrim)
<1>1. b.eePrim \in Int /\ b.wallet \in Int /\ E1Lack(b, q) \in Int
  BY Lacks DEF Reading, Fields
<1>2. eeDelta \in Int
  <2>1. PlusCommission(E1Lack(b, q) - b.wallet) \in Int
    BY <1>1, Percentages
  <2> QED
    BY <2>1, Extrema DEF EeToWalletMin
<1>3. sent <= b.eePrim
  <2> HIDE DEF eeDelta
  <2> QED
    BY <1>1, <1>2, Extrema
<1> HIDE DEF sent
<1>4. Funded(Move("ee_to_wallet", sent), b, p)
  BY <1>3 DEF Funded, Move
<1> QED
  BY <1>4, OthersFunded DEF FillE1, TradeOps, NoMove, sent

LEMMA DecisionsFunded ==
  ASSUME NEW b \in Reading, NEW p \in Price, NEW sample \in Int, Moderate,
         Wealthy(b, Quotes(p)), Larger(b.e2Usdc, b.e2Usd) < MinLimit(Quotes(p))
  PROVE  Funded(Detect(b, Quotes(p), sample), b, p)
<1> DEFINE q == Quotes(p)
<1>1. CASE E2Total(b, q) = 0
  BY <1>1, OthersFunded DEF Detect, Panic
<1>2. CASE E2Total(b, q) # 0 /\ Redistribute(b, q, sample) # NoMove
  <2>1. -E1Lack(b, q) > MinLimit(q) => Funded(FromE1(b, q, sample), b, p)
    <3> SUFFICES ASSUME -E1Lack(b, q) > MinLimit(q) PROVE Funded(FromE1(b, q, sample), b, p)
      OBVIOUS
    <3>1. FromE1(b, q, sample).op \in {"e1_to_wallet", "reduce_both"}
      BY DEF FromE1, Move
    <3>2. Backed(b, p) /\ FromE1(b, q, sample).op = "e1_to_wallet"
            => FromE1(b, q, sample).amount <= Free(b, p)
      BY ExcessIsFree
    <3> QED
      BY <3>1, <3>2 DEF Funded
  <2>2. Funded(Redistribute(b, q, sample), b, p)
    BY <2>1, ToE1Funded, ToE2Funded, FillE1Funded, OthersFunded DEF Redistribute, NoMove
  <2> QED
    BY <1>2, <2>2 DEF Detect
<1>3. CASE E2Total(b, q) # 0 /\ Redistribute(b, q, sample) = NoMove
  <2>1. Detect(b, q, sample) = BalanceExchanges(b, q, sample)
    BY <1>3 DEF Detect
  <2>2. Funded(RaiseRatio(b, q), b, p)
    <3>1. b.unstaked \in Int /\ b.staked \in Int
      BY DEF Reading, Fields
    <3>2. \A a \in Int : a <= b.unstaked => Funded(Move("e2_to_ee", a), b, p)
      BY DEF Funded, Move
    <3>3. \A a \in Int : a >= Atom /\ a < b.staked => Funded(Move("unstake", a), b, p)
      BY <3>1 DEF Funded, Move, Larger, Atom
    <3> QED
      BY <1>3, <3>2, <3>3, StakeSuffices
  <2>3. ExRatioHigh(b, q) => Funded(LowerRatio(b, q), b, p)
    <3> SUFFICES ASSUME ExRatioHigh(b, q) PROVE Funded(LowerRatio(b, q), b, p)
      OBVIOUS
    <3>1. LowerRatio(b, q).op = "e1_to_wallet"
      BY DEF LowerRatio, Move
    <3>2. Backed(b, p) => LowerRatio(b, q).amount <= Free(b, p)
      BY <1>3, MarginSuffices DEF Move
    <3> QED
      BY <3>1, <3>2 DEF Funded
  <2>4. Funded(KeepHedge(b, q, sample), b, p)
    <3>1. b.unstaked \in Int
      BY DEF Reading, Fields
    <3>2. b.unstaked >= Atom => Funded(Move("stake", b.unstaked), b, p)
      BY <3>1 DEF Funded, Move, Larger, Atom
    <3> QED
      BY <3>2, OthersFunded DEF KeepHedge, TradeOps, Panic
  <2> QED
    BY <2>1, <2>2, <2>3, <2>4 DEF BalanceExchanges
<1> QED
  BY <1>1, <1>2, <1>3

-----------------------------------------------------------------------------
(* Decisions in the running strategy. *)

LEMMA AmpleAccounts ==
  ASSUME Ample
  PROVE  /\ Wealthy(bal, Quotes(price))
         /\ Larger(bal.e2Usdc, bal.e2Usd) < MinLimit(Quotes(price))
BY DEF Ample, Wealthy, ExpectedRest

LEMMA DecidedWithin ==
  ASSUME Inv, Decide, Moderate, Ample, Covered
  PROVE  (\A op \in TransferOps : Planned(op) => Within(op))'
<1>1. PICK sample \in Samples : plan' = Detect(bal, Quotes(price), sample)
  BY DEF Decide, DecideFrom
<1>2. /\ sample \in Int /\ bal \in Reading /\ price \in Price
      /\ bal' = bal /\ price' = price /\ plan'.amount \in Int
  BY SamplesAssumption, Amounts, DecideInv DEF Inv, Decide, DecideFrom, TypeOK
<1>3. Backed(bal, price)
  BY DEF Covered, Backed
<1>4. Funded(plan', bal, price)
  BY <1>1, <1>2, AmpleAccounts, DecisionsFunded
<1>5. plan'.op = "wallet_to_e1" => 10 * bal.wallet >= 9 * plan'.amount
  BY <1>2, DecideInv DEF Inv, Ready
<1>6. /\ bal.wallet \in Nat /\ bal.eePrim \in Nat /\ bal.staked \in Nat /\ E1Free = Free(bal, price)
  BY Amounts DEF Inv, Fields, E1Free, Free
<1> SUFFICES ASSUME NEW op \in TransferOps, plan'.op = op
             PROVE  /\ ~TooLittle(op)'
                    /\ Sent(op)' <= IF op = "e1_to_wallet" THEN E1Free' ELSE bal'[Source(op)]
  BY DEF Planned, Within, TransferOps, Source
<1>7. ~TooLittle(op)'
  BY <1>2, <1>5, <1>6 DEF TooLittle
<1>8. E1Free' = Free(bal, price)
  BY <1>2 DEF E1Free, Free
<1>9. CASE op = "wallet_to_e1"
  <2>1. Sent(op)' <= bal.wallet
    BY <1>2, <1>6, <1>9 DEF Sent
  <2> QED
    BY <1>2, <1>7, <1>9, <2>1 DEF Source
<1>10. CASE op = "ee_to_wallet"
  <2>1. Sent(op)' <= plan'.amount /\ Sent(op)' \in Int /\ plan'.amount <= bal.eePrim
    BY <1>2, <1>4, <1>10 DEF Sent, Funded
  <2> QED
    BY <1>2, <1>6, <1>7, <1>10, <2>1 DEF Source
<1>11. CASE op \in {"stake", "unstake"}
  <2>1. Sent(op)' = Larger(plan'.amount, Atom) /\ Larger(plan'.amount, Atom) \in Int
    BY <1>2, <1>11 DEF Sent, Larger, Atom
  <2> QED
    BY <1>2, <1>4, <1>6, <1>7, <1>11, <2>1 DEF Source, Funded
<1>12. CASE op \in {"e1_to_wallet", "wallet_to_ee", "ee_to_e2", "e2_to_ee"}
  <2>1. Sent(op)' = plan'.amount
    BY <1>12 DEF Sent
  <2> QED
    BY <1>2, <1>3, <1>4, <1>7, <1>8, <1>12, <2>1 DEF Source, Funded
<1> QED
  BY <1>9, <1>10, <1>11, <1>12 DEF TransferOps

(* For any ratios, prices, samples and openings, and whatever came before: *)
(* an account that is ample gives, at each decision, what the decision     *)
(* asks of it, so that no operation is refused for want of funds.          *)
THEOREM DecisionsAreCovered == Spec => MovesAreCovered
<1>1. Inv /\ [Next]_vars
        => [Decide /\ Moderate /\ Ample /\ Covered =>
              (\A op \in TransferOps : Planned(op) => Within(op))']_vars
  BY DecidedWithin
<1> QED
  BY <1>1, Invariance, PTL DEF Spec, MovesAreCovered

-----------------------------------------------------------------------------
(* As long as nothing is misread, Kraken keeps a stake to detect by.       *)

(* The stake only shrinks when it is unstaked, by what was decided on      *)
(* then, and it has not shrunk since.                                      *)
Staked ==
  misreads = 0 =>
    /\ plan # Panic
    /\ bal.staked > 0
    /\ plan.op = "unstake" => Larger(plan.amount, Atom) < bal.staked

LEMMA DecideStaked ==
  ASSUME Inv, Staked, Moderate, Ample, Decide PROVE Staked'
<1> SUFFICES ASSUME misreads = 0 PROVE Staked'
  BY DEF Staked, Decide
<1>1. PICK sample \in Samples : plan' = Detect(bal, Quotes(price), sample)
  BY DEF Decide, DecideFrom
<1>2. sample \in Int /\ bal \in Reading /\ price \in Price /\ bal' = bal
  BY SamplesAssumption, Amounts DEF Inv, Decide, DecideFrom
<1>3. bal.staked > 0
  BY DEF Staked
<1>4. E2Total(bal, Quotes(price)) # 0
  <2>1. /\ bal.e2Usdc \in Nat /\ bal.e2Usd \in Nat
        /\ bal.staked + bal.unstaked \in Nat /\ bal.staked + bal.unstaked >= 1
    BY <1>2, <1>3 DEF Reading, Fields
  <2>2. (bal.staked + bal.unstaked) * price >= 1 /\ (bal.staked + bal.unstaked) * price \in Int
    <3> DEFINE x == bal.staked + bal.unstaked
    <3>1. x \in Int /\ x >= 1 /\ price \in Int /\ price >= 1
      BY <1>2, <2>1 DEF Price
    <3> HIDE DEF x
    <3>2. x * price >= 1 /\ x * price \in Int
      BY <3>1, Positive, Products
    <3> QED
      BY <3>2 DEF x
  <2>3. E2Total(bal, Quotes(price))
          = bal.e2Usdc + bal.e2Usd + (bal.staked + bal.unstaked) * price
    BY DEF E2Total, Quotes
  <2> DEFINE y == (bal.staked + bal.unstaked) * price
  <2> HIDE DEF y
  <2>4. bal.e2Usdc + bal.e2Usd + y # 0
    BY <2>1, <2>2 DEF y
  <2> QED
    BY <2>3, <2>4 DEF y
<1>5. ~(Larger(bal.e2Usdc, bal.e2Usd) >= MinLimit(Quotes(price)))
  <2>1. bal.e2Usdc \in Int /\ bal.e2Usd \in Int /\ MinLimit(Quotes(price)) \in Int
    BY <1>2, Worths DEF Reading, Fields
  <2>2. Larger(bal.e2Usdc, bal.e2Usd) \in Int
    BY <2>1, Extrema
  <2> QED
    BY <2>1, <2>2, AmpleAccounts
<1>6. Sane(plan', bal, sample) \/ plan' = Move("monitoring", 0)
  BY <1>1, <1>2, <1>4, <1>5, Decisions
<1>7. plan' # Panic
  BY <1>6 DEF Sane, Moves, Ops, TransferOps, TradeOps, Move, Panic
<1>8. Funded(plan', bal, price)
  BY <1>1, <1>2, AmpleAccounts, DecisionsFunded
<1> QED
  BY <1>2, <1>3, <1>7, <1>8 DEF Staked, Funded

(* What is paid leaves a stake. *)
LEMMA PaidStaked ==
  ASSUME Inv, Staked, misreads = 0, NEW op \in TransferOps, Planned(op), Possible(op)
  PROVE  Paid(op).staked > 0 /\ Paid(op).staked \in Int /\ Paid(op) \in [Fields -> Int]
<1>1. /\ bal.staked > 0 /\ bal.staked \in Int /\ plan.amount \in Int
      /\ Paid(op) \in [Fields -> Int] /\ bal \in [Fields -> Int]
  BY Amounts, PaidTyping DEF Inv, Staked, Fields, TypeOK
<1>2. CASE op = "unstake"
  <2>1. Sent(op) = Larger(plan.amount, Atom) /\ Source(op) = "staked"
    BY <1>2 DEF Sent, Source
  <2>2. Paid(op).staked = bal.staked - Larger(plan.amount, Atom)
    BY <1>1, <2>1 DEF Paid, Fields
  <2>3. Larger(plan.amount, Atom) < bal.staked /\ Larger(plan.amount, Atom) \in Int
    <3>1. plan.op = "unstake"
      BY <1>2 DEF Planned
    <3>2. Larger(plan.amount, Atom) \in Int
      BY <1>1 DEF Larger, Atom
    <3> QED
      BY <3>1, <3>2 DEF Staked
  <2> QED
    BY <1>1, <2>2, <2>3
<1>3. CASE op # "unstake"
  <2>1. Source(op) # "staked"
    BY <1>3 DEF Source, TransferOps
  <2>2. Paid(op).staked = bal.staked
    BY <1>1, <2>1 DEF Paid, Fields
  <2> QED
    BY <1>1, <2>2
<1> QED
  BY <1>2, <1>3

LEMMA TransferStaked ==
  ASSUME Inv, Staked, NEW op \in TransferOps, Transfer(op) PROVE Staked'
<1>1. Idle # Panic /\ Idle.op # "unstake"
  BY DEF Idle, Panic, Move
<1>2. misreads' = misreads /\ ~TooLittle(op) /\ Planned(op)
  <2>1. bal.wallet \in Int /\ plan.amount \in Int
    BY Amounts DEF Inv, Fields
  <2>2. ~TooLittle(op)
    BY <2>1 DEF Transfer, TooLittle, Planned, Inv, Ready
  <2> QED
    BY <2>2 DEF Transfer, DoneIf, Done, counters
<1> SUFFICES ASSUME misreads = 0 PROVE Staked'
  BY <1>2 DEF Staked
<1>3. CASE ~Possible(op)
  BY <1>1, <1>2, <1>3 DEF Transfer, DoneIf, Done, Staked
<1>4. CASE Possible(op)
  <2> DEFINE after == [Paid(op) EXCEPT ![Target(op)] = @ + (Sent(op) - Cost(op))]
  <2>1. bal' = after /\ plan' = Idle
    BY <1>2, <1>4 DEF Transfer, DoneIf, Done
  <2>2. /\ Paid(op).staked > 0 /\ Paid(op).staked \in Int /\ Paid(op) \in [Fields -> Int]
        /\ Sent(op) - Cost(op) \in Nat
    BY <1>2, <1>4, PaidStaked, PaidTyping DEF Inv
  <2>3. after.staked > 0
    BY <2>2 DEF Fields
  <2> QED
    BY <1>1, <2>1, <2>3 DEF Staked
<1> QED
  BY <1>3, <1>4

LEMMA StakedStep ==
  ASSUME Inv, Staked, Moderate, SamplesArePositive, Ample, [Next]_vars PROVE Staked'
<1>1. Idle # Panic /\ Idle.op # "unstake"
  BY DEF Idle, Panic, Move
<1>2. bal \in [Fields -> Int] /\ bal.staked \in Int
  BY DEF Inv, TypeOK, Fields
<1>3. CASE Decide
  BY <1>3, DecideStaked
<1>4. CASE DecideMisread
  BY <1>4, UnreadableCounts DEF DecideMisread, Staked, Inv
<1>5. CASE \E op \in TransferOps : Transfer(op)
  BY <1>5, TransferStaked
<1>6. ASSUME plan' = Idle, misreads' = misreads, bal'.staked = bal.staked PROVE Staked'
  BY <1>1, <1>6 DEF Staked
<1>7. CASE Monitor \/ Restart
  BY <1>6, <1>7 DEF Monitor, Restart, Done, counters
<1>8. \A x : /\ Shorten(bal, x).staked = bal.staked /\ Lengthen(bal, x).staked = bal.staked
            /\ Sell(bal, x).staked = bal.staked /\ Buy(bal, x).staked = bal.staked
            /\ \A y : /\ Shorten(Sell(bal, x), y).staked = bal.staked
                     /\ Buy(Lengthen(bal, x), y).staked = bal.staked
  BY <1>2 DEF Shorten, Lengthen, Sell, Buy, Fields
<1>9. CASE Trade
  <2>1. CASE ReduceBoth
    <3>1. plan.amount > 0
      BY <2>1 DEF ReduceBoth, Planned, Inv, Ready
    <3> QED
      BY <1>6, <1>8, <2>1, <3>1 DEF ReduceBoth, OnE1, Done, counters
  <2>2. CASE ReduceShort \/ EnlargeShort \/ EnlargeBoth
    BY <1>6, <1>8, <2>2 DEF ReduceShort, EnlargeShort, EnlargeBoth, OnE1, Done, counters
  <2> QED
    BY <1>9, <2>1, <2>2 DEF Trade
<1>16. ASSUME BrokenOff
       PROVE  (plan' = Idle /\ misreads' = misreads) \/ misreads' # 0
  BY <1>16, UnreadableCounts DEF BrokenOff, Crashes, Inv
<1>10. CASE CutOff
  <2>1. bal'.staked = bal.staked /\ BrokenOff
    BY <1>8, <1>10 DEF CutOff
  <2>2. CASE misreads' # 0
    BY <2>2 DEF Staked
  <2> QED
    BY <1>6, <1>16, <2>1, <2>2
<1>11. CASE \E op \in TransferOps : Delay(op)
  <2>1. PICK op \in TransferOps : Delay(op)
    BY <1>11
  <2>2. misreads = 0 => Paid(op).staked > 0
    BY <2>1, PaidStaked DEF Delay
  <2> QED
    BY <1>1, <1>16, <2>1, <2>2 DEF Delay, Staked
<1>12. CASE Arrive
  <2>1. PICK t \in late : bal' = [bal EXCEPT ![t.to] = @ + t.amount]
    BY <1>12 DEF Arrive
  <2>2. t.to \in Fields /\ t.amount \in Nat /\ plan' = plan /\ misreads' = misreads
    BY <1>12 DEF Arrive, Inv, TypeOK, counters
  <2>3. bal'.staked >= bal.staked /\ bal'.staked \in Int
    BY <1>2, <2>1, <2>2 DEF Fields
  <2>4. plan.amount \in Int
    BY Amounts DEF Inv
  <2>5. Larger(plan.amount, Atom) \in Int
    BY <2>4 DEF Larger, Atom
  <2> QED
    BY <1>2, <2>2, <2>3, <2>5 DEF Staked
<1>13. CASE PriceMove
  <2>1. bal'.staked = bal.staked /\ plan' = plan /\ misreads' = misreads
    BY <1>2, <1>13 DEF PriceMove, Fields
  <2> QED
    BY <2>1 DEF Staked
<1>14. CASE UNCHANGED vars
  BY <1>14 DEF vars, counters, Staked
<1>15. CASE Crash
  BY <1>15, UnreadableCounts DEF Crash, Crashes, Staked, Inv
<1> QED
  BY <1>3, <1>4, <1>5, <1>7, <1>9, <1>10, <1>11, <1>12, <1>13, <1>14, <1>15 DEF Next, Work

(* The process does not end: from openings with a stake on Kraken, with    *)
(* positive samples and as long as the account is ample, whatever the      *)
(* price does, whatever operation is cut off and whatever transfer comes   *)
(* in late, no reading but one in which something is missing makes         *)
(* process_state panic.                                                    *)
THEOREM NothingPanics ==
  ASSUME Moderate, SamplesArePositive, \A o \in Openings : o.staked > 0
  PROVE  Spec /\ []Ample => []NoPanic
<1>1. Init => Staked
  BY DEF Init, Staked, Idle, Panic, Move
<1>2. Inv /\ Staked /\ Ample /\ [Next]_vars => Staked'
  BY StakedStep
<1>3. Inv /\ Staked => NoPanic
  BY DEF Inv, Ready, Staked, NoPanic
<1> QED
  BY <1>1, <1>2, <1>3, Invariance, PTL DEF Spec
=============================================================================
