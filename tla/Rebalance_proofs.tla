-------------------------- MODULE Rebalance_proofs --------------------------
(***************************************************************************)
(* Proofs about Rebalance and Decision, for all ratios, prices, samples,   *)
(* openings and bounds: their typing, what the strategy has achieved when  *)
(* it comes to rest, and which decisions can end the process.              *)
(***************************************************************************)
EXTENDS Rebalance, TLAPS

(* What detection may read: no balance but the position is negative. *)
Reading == {b \in [Fields -> Int] : \A f \in Fields \ {"short"} : b[f] >= 0}

Price == Nat \ {0}

-----------------------------------------------------------------------------
(* Arithmetic. *)

LEMMA Division ==
  ASSUME NEW x \in Int, NEW d \in Nat \ {0}
  PROVE  /\ x \div d \in Int
         /\ d * (x \div d) <= x /\ x < d * (x \div d) + d
OBVIOUS

LEMMA Products ==
  /\ \A x, y \in Int : x * y \in Int
  /\ \A x, y \in Nat : x * y \in Nat
OBVIOUS

LEMMA Percentages ==
  ASSUME NEW x \in Int
  PROVE  /\ PlusTolerance(x) \in Int /\ PlusCommission(x) \in Int
         /\ MinusCommission(x) \in Int
         /\ x >= 0 => MinusCommission(x) >= 0 /\ MinusCommission(x) <= x
BY DEF PlusTolerance, PlusCommission, MinusCommission

LEMMA Extrema ==
  ASSUME NEW x \in Int, NEW y \in Int
  PROVE  /\ Larger(x, y) \in Int /\ Larger(x, y) >= x /\ Larger(x, y) >= y
         /\ Smaller(x, y) \in Int /\ Smaller(x, y) <= x /\ Smaller(x, y) <= y
BY DEF Larger, Smaller

LEMMA Positive == \A x, y \in Int : x >= 1 /\ y >= 1 => x * y >= 1
OBVIOUS

-----------------------------------------------------------------------------
(* What the balances are worth. *)

LEMMA Worths ==
  ASSUME NEW b \in Reading, NEW p \in Price
  PROVE  /\ \A f \in Fields : b[f] \in Int
         /\ E2Total(b, Quotes(p)) \in Nat /\ EeTotal(b, Quotes(p)) \in Nat
         /\ EwTotal(b, Quotes(p)) \in Nat /\ Total(b, Quotes(p)) \in Nat
         /\ MinLimit(Quotes(p)) \in Nat
         /\ MinLimit(Quotes(p)) >= 5000 /\ MinLimit(Quotes(p)) >= 200 * p
<1>1. \A f \in Fields : b[f] \in Int
  BY DEF Reading
<1>2. /\ b.e1Total \in Nat /\ b.e2Usdc \in Nat /\ b.e2Usd \in Nat /\ b.staked \in Nat
      /\ b.unstaked \in Nat /\ b.eePrim \in Nat /\ b.eeSec \in Nat /\ b.wallet \in Nat
  BY DEF Reading, Fields
<1>3. (b.staked + b.unstaked) * p \in Nat /\ b.eeSec * p \in Nat
  BY <1>2, Products DEF Price
<1>4. /\ MinLimit(Quotes(p)) \in Nat
      /\ MinLimit(Quotes(p)) >= 5000 /\ MinLimit(Quotes(p)) >= 200 * p
  BY DEF MinLimit, EeToWalletMin, Atom, Quotes, Larger, Price
<1>5. E2Total(b, Quotes(p)) \in Nat
  BY <1>2, <1>3 DEF E2Total, Quotes
<1>6. EeTotal(b, Quotes(p)) \in Nat
  BY <1>2, <1>3 DEF EeTotal, Quotes
<1>7. EwTotal(b, Quotes(p)) \in Nat
  BY <1>2, <1>6 DEF EwTotal
<1>8. Total(b, Quotes(p)) \in Nat
  BY <1>2, <1>5, <1>7 DEF Total
<1> QED
  BY <1>1, <1>4, <1>5, <1>6, <1>7, <1>8

LEMMA Lacks ==
  ASSUME NEW b \in Reading, NEW p \in Price
  PROVE  /\ E1Lack(b, Quotes(p)) \in Int /\ E1Delta(b, Quotes(p)) \in Int
         /\ E1DeltaWithTol(b, Quotes(p)) \in Int
         /\ EewTransferable(b, Quotes(p)) \in Int
         /\ ShortStakeDelta(b) \in Int
<1> DEFINE q == Quotes(p)
<1>1. b.e1Total \in Int /\ EwTotal(b, q) \in Int
  BY Worths DEF Fields
<1>2. ExpectedE1(b, q) \in Int
  <2>1. Total(b, q) * InitRatio \in Int /\ 100 + InitRatio \in Nat \ {0}
    BY Worths, Products, RatiosAssumption
  <2> QED
    BY <2>1, Division DEF ExpectedE1, Share
<1>3. E1Lack(b, q) \in Int
  BY <1>1, <1>2 DEF E1Lack
<1>4. E1Delta(b, q) \in Int
  BY <1>1, <1>3, Extrema DEF E1Delta
<1>5. E1DeltaWithTol(b, q) \in Int
  BY <1>4, Percentages DEF E1DeltaWithTol
<1>6. EewTransferable(b, q) \in Int
  <2>1. b.eePrim \in Int /\ b.wallet \in Int /\ b.eeSec \in Int
    BY Worths DEF Fields
  <2>2. b.eeSec * q.eeSell \in Int
    BY <2>1, Products DEF Quotes, Price
  <2>3. EePrimTransferable(b) \in Int /\ EeExchangable(b, q) \in Int
    BY <2>1, <2>2, Percentages DEF EePrimTransferable, EeExchangable, OrZero
  <2> QED
    BY <2>1, <2>3, Percentages DEF EewTransferable, OrZero
<1>7. ShortStakeDelta(b) \in Int
  BY Worths DEF Fields, ShortStakeDelta
<1> QED
  BY <1>3, <1>4, <1>5, <1>6, <1>7

-----------------------------------------------------------------------------
(* What is decided. *)

Ops == TransferOps \cup TradeOps

Moves == [op : Ops, amount : Int]

(* A decision that can be carried out: do_wallet_to_e1 finds its amount to *)
(* a tenth, and do_reduce_secondary_soft is asked for something, if orders *)
(* are not split or the sample of their size is positive.                  *)
Sane(m, b, sample) ==
  /\ m \in Moves
  /\ m.op = "wallet_to_e1" => 10 * b.wallet >= 9 * m.amount
  /\ m.op = "reduce_both" /\ (MaxOrder = 0 \/ sample > 0) => m.amount > 0

LEMMA OrderSizes ==
  ASSUME NEW sample \in Int, NEW x \in Int
  PROVE  /\ OrderSize(sample, x) \in Int
         /\ (MaxOrder = 0 \/ sample > 0) /\ x > 0 => OrderSize(sample, x) > 0
BY OrderAssumption DEF OrderSize

(* An order of a positive size is sane. *)
LEMMA SaneReduction ==
  ASSUME NEW b \in Reading, NEW sample \in Int, NEW x \in Int, x > 0
  PROVE  Sane(Move("reduce_both", OrderSize(sample, x)), b, sample)
BY OrderSizes DEF Sane, Move, Moves, Ops, TradeOps

(* A transfer or an order of another kind needs an integer, and no more    *)
(* from the wallet than it has and a ninth.                                *)
LEMMA SaneMove ==
  ASSUME NEW b \in Reading, NEW sample \in Int, NEW x \in Int,
         NEW op \in Ops \ {"reduce_both"},
         op = "wallet_to_e1" => 10 * b.wallet >= 9 * x
  PROVE  Sane(Move(op, x), b, sample)
BY DEF Sane, Move, Moves

LEMMA AllToE1Sane ==
  ASSUME NEW b \in Reading, NEW p \in Price, NEW sample \in Int
  PROVE  \/ AllToE1(b, Quotes(p), sample) = NoMove
         \/ Sane(AllToE1(b, Quotes(p), sample), b, sample)
<1>1. b.eeSec \in Int /\ b.eePrim \in Int /\ b.wallet \in Nat
  BY DEF Reading, Fields
<1>2. b.eeSec >= Atom => b.eeSec * p \in Int /\ b.eeSec * p > 0
  BY <1>1, Positive, Products DEF Atom, Price
<1>3. b.eeSec >= Atom => Sane(Move("reduce_both", OrderSize(sample, b.eeSec * p)), b, sample)
  BY <1>2, SaneReduction
<1>4. /\ Sane(Move("ee_to_wallet", b.eePrim), b, sample)
      /\ Sane(Move("wallet_to_e1", b.wallet), b, sample)
  BY <1>1, SaneMove DEF Ops, TransferOps
<1> QED
  BY <1>3, <1>4 DEF AllToE1, Quotes

(* While the wallet lacks what dYdX needs, there is something to cover. *)
LEMMA PartFromEeSane ==
  ASSUME NEW b \in Reading, NEW p \in Price, NEW sample \in Int,
         b.wallet < E1Delta(b, Quotes(p))
  PROVE  Sane(PartFromEe(b, Quotes(p), sample), b, sample)
<1> DEFINE q          == Quotes(p)
           cover      == E1DeltaWithTol(b, q) - b.wallet
           toTransfer == Larger(EeToWalletMin, cover)
           toExchange ==
             IF PlusTolerance(toTransfer) >= b.eeSec * q.eeSell + b.eePrim
             THEN b.eeSec * q.eeSell
             ELSE Larger(toTransfer - b.eePrim, Atom * q.eeSell)
           part       == Smaller(toTransfer, b.eePrim)
           rest       == b.eePrim - PlusTolerance(part)
<1>1. b.eeSec \in Int /\ b.eePrim \in Int /\ b.wallet \in Nat
  BY DEF Reading, Fields
<1>2. cover \in Int /\ cover > 0
  <2> DEFINE d == E1Delta(b, q)
  <2>1. d \in Int /\ d > b.wallet
    BY <1>1, Lacks
  <2>2. cover = PlusTolerance(d) - b.wallet
    BY DEF E1DeltaWithTol
  <2> HIDE DEF d, cover
  <2>3. PlusTolerance(d) \in Int /\ PlusTolerance(d) >= d
    BY <1>1, <2>1 DEF PlusTolerance
  <2> QED
    BY <1>1, <2>1, <2>2, <2>3
<1>3. toTransfer \in Int
  <2> HIDE DEF cover
  <2> QED
    BY <1>2, Extrema DEF EeToWalletMin
<1>4. q.eeSell = p /\ b.eeSec * p \in Int /\ Atom * p \in Int /\ Atom * p > 0
  BY <1>1, Products DEF Quotes, Price, Atom
<1>5. toExchange \in Int
  <2> HIDE DEF toTransfer
  <2> QED
    BY <1>1, <1>3, <1>4 DEF Larger
<1>6. part \in Int
  <2> HIDE DEF toTransfer
  <2> QED
    BY <1>1, <1>3, Extrema
<1> HIDE DEF cover, toTransfer, toExchange, part, q
<1>7. CASE toExchange > Atom * p
  <2>1. Sane(Move("reduce_both", OrderSize(sample, toExchange)), b, sample)
    BY <1>4, <1>5, <1>7, SaneReduction
  <2> QED
    BY <1>4, <1>7, <2>1 DEF PartFromEe, cover, toTransfer, toExchange, part, q
<1>8. CASE ~(toExchange > Atom * p)
  <2>1. \A x \in Int : Sane(Move("ee_to_wallet", x), b, sample)
    BY SaneMove DEF Ops, TransferOps
  <2>2. Sane(Move("ee_to_wallet", IF rest < Atom * q.eeBuy THEN b.eePrim ELSE part), b, sample)
    BY <1>1, <1>6, <2>1
  <2>3. PartFromEe(b, q, sample)
          = Move("ee_to_wallet", IF rest < Atom * q.eeBuy THEN b.eePrim ELSE part)
    BY <1>2, <1>4, <1>8 DEF PartFromEe, cover, toTransfer, toExchange, part
  <2> QED
    BY <2>2, <2>3 DEF q
<1> QED
  BY <1>7, <1>8

LEMMA ToE1Sane ==
  ASSUME NEW b \in Reading, NEW p \in Price, NEW sample \in Int
  PROVE  \/ ToE1(b, Quotes(p), sample) = NoMove
         \/ Sane(ToE1(b, Quotes(p), sample), b, sample)
<1> DEFINE q == Quotes(p)
           x == Smaller(b.wallet, PlusTolerance(E1DeltaWithTol(b, q)))
<1>1. b.wallet \in Nat /\ E1Delta(b, q) \in Int
  BY Lacks DEF Reading, Fields
<1>2. x \in Int /\ x <= b.wallet
  <2> DEFINE y == PlusTolerance(E1DeltaWithTol(b, q))
  <2>1. y \in Int
    BY Lacks, Percentages
  <2> HIDE DEF y
  <2>2. Smaller(b.wallet, y) \in Int /\ Smaller(b.wallet, y) <= b.wallet
    BY <1>1, <2>1 DEF Smaller
  <2> QED
    BY <2>2 DEF y
<1>3. 10 * b.wallet >= 9 * x
  BY <1>1, <1>2
<1> HIDE DEF x
<1>4. Sane(Move("wallet_to_e1", x), b, sample)
  BY <1>2, <1>3, SaneMove DEF Ops, TransferOps
<1>5. Sane(PartToE1(b, q, sample), b, sample)
  BY <1>1, <1>4, PartFromEeSane DEF PartToE1, x
<1> QED
  BY <1>5, AllToE1Sane DEF ToE1

LEMMA ToE2Sane ==
  ASSUME NEW b \in Reading, NEW p \in Price, NEW sample \in Int
  PROVE  \/ ToE2(b, Quotes(p), sample) = NoMove
         \/ Sane(ToE2(b, Quotes(p), sample), b, sample)
<1>1. b.eeSec \in Int /\ b.eePrim \in Int /\ b.wallet \in Int /\ OrderSize(sample, b.eePrim) \in Int
  BY OrderSizes DEF Reading, Fields
<1>2. /\ Sane(Move("wallet_to_ee", b.wallet), b, sample)
      /\ Sane(Move("enlarge_both", OrderSize(sample, b.eePrim)), b, sample)
      /\ Sane(Move("ee_to_e2", b.eeSec), b, sample)
  BY <1>1, SaneMove DEF Ops, TransferOps, TradeOps
<1> QED
  BY <1>2 DEF ToE2

LEMMA FromE1Sane ==
  ASSUME NEW b \in Reading, NEW p \in Price, NEW sample \in Int
  PROVE  Sane(FromE1(b, Quotes(p), sample), b, sample)
<1> DEFINE q        == Quotes(p)
           excess   == -E1Lack(b, q)
           toCancel == b.short * q.e1Buy - PlusTolerance((b.e1Total - excess) * 8)
           least    == PlusTolerance(Atom) * q.e1Buy
<1>1. excess \in Int /\ b.e1Total \in Int /\ b.short \in Int /\ q.e1Buy \in Int
  BY Lacks DEF Reading, Fields, Quotes, Price
<1>2. b.short * q.e1Buy \in Int /\ least \in Int
  BY <1>1, Products, Percentages DEF Atom
<1>3. toCancel \in Int
  BY <1>1, <1>2, Percentages
<1>4. Larger(toCancel, least) \in Int /\ Larger(toCancel, least) >= toCancel
  BY <1>2, <1>3, Extrema
<1> HIDE DEF excess, toCancel, least
<1>5. CASE toCancel <= 0
  <2>1. Sane(Move("e1_to_wallet", excess), b, sample)
    BY <1>1, SaneMove DEF Ops, TransferOps
  <2> QED
    BY <1>5, <2>1 DEF FromE1, excess, toCancel
<1>6. CASE toCancel > 0
  <2>1. Sane(Move("reduce_both", OrderSize(sample, Larger(toCancel, least))), b, sample)
    BY <1>3, <1>4, <1>6, SaneReduction
  <2> QED
    BY <1>3, <1>6, <2>1 DEF FromE1, excess, toCancel, least
<1> QED
  BY <1>3, <1>5, <1>6

LEMMA FillE1Sane ==
  ASSUME NEW b \in Reading, NEW p \in Price, NEW sample \in Int
  PROVE  \/ FillE1(b, Quotes(p), sample) = NoMove
         \/ Sane(FillE1(b, Quotes(p), sample), b, sample)
<1> DEFINE q         == Quotes(p)
           lack      == E1Lack(b, q)
           eeDelta   == Larger(PlusCommission(lack - b.wallet), EeToWalletMin)
           toConvert == Smaller(b.eeSec * q.eeSell, eeDelta - b.eePrim)
           x         == PlusTolerance(Smaller(lack, b.wallet))
<1>1. lack \in Int /\ b.wallet \in Nat /\ b.eePrim \in Int /\ b.eeSec \in Int /\ q.eeSell = p
  BY Lacks DEF Reading, Fields, Quotes
<1>2. eeDelta \in Int
  <2> HIDE DEF lack
  <2>1. PlusCommission(lack - b.wallet) \in Int
    BY <1>1, Percentages
  <2> QED
    BY <2>1, Extrema DEF EeToWalletMin
<1>3. b.eeSec * p \in Int /\ (b.eeSec >= Atom => b.eeSec * p > 0)
  BY <1>1, Products, Positive DEF Price, Atom
<1>4. toConvert \in Int /\ (b.eeSec >= Atom /\ eeDelta > b.eePrim => toConvert > 0)
  BY <1>1, <1>2, <1>3 DEF Smaller
<1>5. x \in Int /\ 10 * b.wallet >= 9 * x
  BY <1>1 DEF PlusTolerance, Smaller
<1>6. Smaller(eeDelta, b.eePrim) \in Int
  BY <1>1, <1>2, Extrema
<1> HIDE DEF lack, eeDelta, toConvert, x
<1>7. /\ Sane(Move("wallet_to_e1", x), b, sample)
      /\ Sane(Move("ee_to_wallet", Smaller(eeDelta, b.eePrim)), b, sample)
  BY <1>5, <1>6, SaneMove DEF Ops, TransferOps
<1>8. b.eeSec >= Atom /\ eeDelta > b.eePrim
        => Sane(Move("reduce_both", OrderSize(sample, toConvert)), b, sample)
  BY <1>4, SaneReduction
<1>9. ~(eeDelta <= b.eePrim \/ b.eeSec < Atom) => b.eeSec >= Atom /\ eeDelta > b.eePrim
  BY <1>1, <1>2 DEF Atom
<1> QED
  BY <1>7, <1>8, <1>9 DEF FillE1, lack, eeDelta, toConvert, x

(* Redistribution moves funds, or leaves the decision to what follows. *)
LEMMA RedistributeSane ==
  ASSUME NEW b \in Reading, NEW p \in Price, NEW sample \in Int
  PROVE  \/ Redistribute(b, Quotes(p), sample) = NoMove
         \/ Sane(Redistribute(b, Quotes(p), sample), b, sample)
BY ToE1Sane, ToE2Sane, FromE1Sane, FillE1Sane DEF Redistribute

LEMMA RaiseRatioSane ==
  ASSUME NEW b \in Reading, NEW p \in Price, NEW sample \in Int
  PROVE  Sane(RaiseRatio(b, Quotes(p)), b, sample)
<1> DEFINE q          == Quotes(p)
           worth      == PlusTolerance(PlusCommission(PlusCommission(PlusCommission(
                           E1Lack(b, q)))))
           delta      == worth \div q.eeSell
           toUnstake  == delta - (b.unstaked + b.eeSec)
           part       == Smaller(delta, b.unstaked)
           toTransfer == IF b.unstaked - PlusTolerance(part) < Atom THEN b.unstaked ELSE part
           atLeast    == Larger(Atom, toUnstake)
           fixed      == IF b.staked - atLeast < Atom THEN b.staked ELSE atLeast
<1>1. b.eeSec \in Int /\ b.unstaked \in Int /\ b.staked \in Int /\ q.eeSell = p
  BY DEF Reading, Fields, Quotes
<1>2. worth \in Int
  <2>1. \A x \in Int : PlusCommission(x) \in Int /\ PlusTolerance(x) \in Int
    BY Percentages
  <2> QED
    BY <2>1, Lacks
<1>3. delta \in Int
  <2> HIDE DEF worth
  <2> QED
    BY <1>1, <1>2, Division DEF Price
<1> HIDE DEF delta
<1>4. toUnstake \in Int /\ toTransfer \in Int
  BY <1>1, <1>3 DEF Smaller
<1>5. Larger(Atom, fixed) \in Int
  <2> HIDE DEF toUnstake
  <2> QED
    BY <1>1, <1>4 DEF Larger, Atom
<1> HIDE DEF toUnstake, toTransfer, fixed
<1>6. /\ Sane(Move("e2_to_ee", toTransfer), b, sample)
      /\ Sane(Move("unstake", Larger(Atom, fixed)), b, sample)
  BY <1>4, <1>5, SaneMove DEF Ops, TransferOps
<1> QED
  BY <1>6 DEF RaiseRatio, delta, toUnstake, toTransfer, fixed

LEMMA LowerRatioSane ==
  ASSUME NEW b \in Reading, NEW p \in Price, NEW sample \in Int
  PROVE  Sane(LowerRatio(b, Quotes(p)), b, sample)
<1> DEFINE q     == Quotes(p)
           share == (100 * b.e1Total - InitRatio * E2Total(b, q)) \div (100 + InitRatio)
           x     == PlusTolerance(PlusCommission(PlusCommission(PlusCommission(
                      Larger(MinLimit(q), share)))))
<1>1. share \in Int
  <2>1. InitRatio * E2Total(b, q) \in Int /\ b.e1Total \in Int
    BY Worths, Products, RatiosAssumption DEF Fields
  <2>2. 100 + InitRatio \in Nat \ {0}
    BY RatiosAssumption
  <2> QED
    BY <2>1, <2>2, Division
<1>2. x \in Int
  <2>1. \A y \in Int : PlusCommission(y) \in Int /\ PlusTolerance(y) \in Int
    BY Percentages
  <2>2. Larger(MinLimit(q), share) \in Int
    <3> HIDE DEF share
    <3> QED
      BY <1>1, Worths DEF Larger
  <2> QED
    BY <2>1, <2>2
<1> HIDE DEF x
<1>3. Sane(Move("e1_to_wallet", x), b, sample)
  BY <1>2, SaneMove DEF Ops, TransferOps
<1> QED
  BY <1>3 DEF LowerRatio, x

(* What keeps the hedge when the ratio is right. *)
LEMMA KeepHedgeMoves ==
  ASSUME NEW b \in Reading, NEW p \in Price, NEW sample \in Int
  PROVE  \/ /\ KeepHedge(b, Quotes(p), sample) = Panic
            /\ Larger(b.e2Usdc, b.e2Usd) >= MinLimit(Quotes(p))
         \/ /\ KeepHedge(b, Quotes(p), sample) = Move("monitoring", 0)
            /\ b.unstaked < Atom
            /\ ShortStakeDelta(b) <= Atom /\ ShortStakeDelta(b) >= -Atom
         \/ Sane(KeepHedge(b, Quotes(p), sample), b, sample)
<1> DEFINE q == Quotes(p)
           size(x) == OrderSizeSec(sample, x, p)
<1>1. /\ b.e2Usdc \in Int /\ b.e2Usd \in Int /\ b.unstaked \in Int
      /\ ShortStakeDelta(b) \in Int /\ MinLimit(q) \in Int
  BY Lacks, Worths DEF Fields
<1>2. \A x \in Int : size(x) \in Int
  <2> SUFFICES ASSUME NEW x \in Int PROVE size(x) \in Int
    OBVIOUS
  <2>1. x * p \in Int
    BY Products DEF Price
  <2>2. OrderSize(sample, x * p) \in Int
    BY <2>1, OrderSizes
  <2>3. OrderSize(sample, x * p) \div p \in Int
    BY <2>2, Division DEF Price
  <2> QED
    BY <2>3 DEF OrderSizeSec, Larger, Atom
<1> HIDE DEF size
<1>3. /\ Sane(Move("stake", b.unstaked), b, sample)
      /\ Sane(Move("reduce_short", size(ShortStakeDelta(b))), b, sample)
      /\ Sane(Move("enlarge_short", size(-ShortStakeDelta(b))), b, sample)
  BY <1>1, <1>2, SaneMove DEF Ops, TransferOps, TradeOps
<1>4. q.eeBuy = p /\ q.eeSell = p
  BY DEF Quotes
<1>5. CASE b.e2Usdc >= MinLimit(q) \/ b.e2Usd >= MinLimit(q)
  <2>1. Larger(b.e2Usdc, b.e2Usd) >= MinLimit(q)
    BY <1>1, <1>5 DEF Larger
  <2> QED
    BY <1>5, <2>1 DEF KeepHedge
<1>6. CASE ~(b.e2Usdc >= MinLimit(q) \/ b.e2Usd >= MinLimit(q))
  <2>1. CASE b.unstaked >= Atom \/ ShortStakeDelta(b) > Atom \/ ShortStakeDelta(b) < -Atom
    BY <1>3, <1>4, <1>6, <2>1 DEF KeepHedge, size
  <2>2. CASE ~(b.unstaked >= Atom \/ ShortStakeDelta(b) > Atom \/ ShortStakeDelta(b) < -Atom)
    BY <1>1, <1>6, <2>2 DEF KeepHedge, Atom
  <2> QED
    BY <2>1, <2>2
<1> QED
  BY <1>5, <1>6

(* A decision is sane; or it is to rest, after the whole chain of branches *)
(* has been passed; or Kraken is in no state to decide anything.           *)
AtRest(b, p, sample) ==
  /\ Redistribute(b, Quotes(p), sample) = NoMove
  /\ ~ExRatioLow(b, Quotes(p)) /\ ~ExRatioHigh(b, Quotes(p))
  /\ b.unstaked < Atom
  /\ ShortStakeDelta(b) <= Atom /\ ShortStakeDelta(b) >= -Atom

LEMMA Decisions ==
  ASSUME NEW b \in Reading, NEW p \in Price, NEW sample \in Int
  PROVE  \/ Sane(Detect(b, Quotes(p), sample), b, sample)
         \/ /\ Detect(b, Quotes(p), sample) = Move("monitoring", 0)
            /\ AtRest(b, p, sample)
         \/ /\ Detect(b, Quotes(p), sample) = Panic
            /\ \/ E2Total(b, Quotes(p)) = 0
               \/ Larger(b.e2Usdc, b.e2Usd) >= MinLimit(Quotes(p))
<1>1. CASE E2Total(b, Quotes(p)) = 0
  BY <1>1 DEF Detect
<1>2. CASE E2Total(b, Quotes(p)) # 0 /\ Redistribute(b, Quotes(p), sample) # NoMove
  BY <1>2, RedistributeSane DEF Detect
<1>3. CASE E2Total(b, Quotes(p)) # 0 /\ Redistribute(b, Quotes(p), sample) = NoMove
  <2>1. Detect(b, Quotes(p), sample) = BalanceExchanges(b, Quotes(p), sample)
    BY <1>3 DEF Detect
  <2>2. CASE ExRatioLow(b, Quotes(p))
    BY <2>1, <2>2, RaiseRatioSane DEF BalanceExchanges
  <2>3. CASE ~ExRatioLow(b, Quotes(p)) /\ ExRatioHigh(b, Quotes(p))
    BY <2>1, <2>3, LowerRatioSane DEF BalanceExchanges
  <2>4. CASE ~ExRatioLow(b, Quotes(p)) /\ ~ExRatioHigh(b, Quotes(p))
    BY <1>3, <2>1, <2>4, KeepHedgeMoves DEF BalanceExchanges, AtRest
  <2> QED
    BY <2>2, <2>3, <2>4
<1> QED
  BY <1>1, <1>2, <1>3

-----------------------------------------------------------------------------
(* What is left between dYdX and Kraken when nothing more is moved. *)

LEMMA BelowQuotient ==
  ASSUME NEW x \in Int, NEW y \in Int, NEW d \in Nat \ {0}, x < y \div d
  PROVE  d * x < y
<1>1. y \div d \in Int /\ d * (y \div d) <= y
  BY Division
<1>2. \A z \in Int : x < z => d * x + d <= d * z
  <2> SUFFICES ASSUME NEW z \in Int, x < z PROVE d * x + d <= d * z
    OBVIOUS
  <2>1. PICK k \in Nat : z = x + 1 + k
    <3>1. z - x - 1 \in Nat /\ z = x + 1 + (z - x - 1)
      OBVIOUS
    <3> QED
      BY <3>1
  <2>2. d * k >= 0 /\ d * z = d * x + d + d * k
    BY <2>1
  <2> QED
    BY <2>2
<1> QED
  BY <1>1, <1>2

(* If even all the funds underway would leave dYdX short of its least      *)
(* share, the ratio is too low as it is; if they would leave Kraken short, *)
(* it is too high.  So redistribution never gives up on a distribution     *)
(* that the next step would find in order.                                 *)
LEMMA GapsClosed ==
  ASSUME NEW b \in Reading, NEW p \in Price,
         ~ExRatioLow(b, Quotes(p)), ~ExRatioHigh(b, Quotes(p))
  PROVE  /\ b.e1Total + EwTotal(b, Quotes(p)) >= ExpectedE1Low(b, Quotes(p))
         /\ E2Total(b, Quotes(p)) + EwTotal(b, Quotes(p)) >= ExpectedE2Low(b, Quotes(p))
<1> DEFINE q  == Quotes(p)
           e1 == b.e1Total
           e2 == E2Total(b, q)
           ee == EeTotal(b, q)
           ew == EwTotal(b, q)
           t  == Total(b, q)
<1>1. /\ e1 \in Nat /\ e2 \in Nat /\ ee \in Nat /\ b.wallet \in Nat /\ ew \in Nat /\ t \in Nat
      /\ ew = b.wallet + ee /\ t = e1 + e2 + ew
  BY Worths DEF EwTotal, Total, Reading, Fields
<1>2. LowRatio \in Nat /\ HighRatio \in Nat
  BY RatiosAssumption
<1> HIDE DEF e1, e2, ee, ew, t
<1>3. ASSUME e1 + ew < ExpectedE1Low(b, q) PROVE FALSE
  <2>1. t * LowRatio \in Int /\ 100 + LowRatio \in Nat \ {0}
    BY <1>1, <1>2
  <2>2. e1 + ew < (t * LowRatio) \div (100 + LowRatio)
    BY <1>3 DEF ExpectedE1Low, Share, t
  <2>3. (100 + LowRatio) * (e1 + ew) < t * LowRatio
    <3> DEFINE x == e1 + ew
               y == t * LowRatio
               d == 100 + LowRatio
    <3>1. x \in Int /\ y \in Int /\ d \in Nat \ {0} /\ x < y \div d
      BY <1>1, <2>1, <2>2
    <3> HIDE DEF x, y, d
    <3>2. d * x < y
      BY <3>1, BelowQuotient
    <3> QED
      BY <3>2 DEF x, y, d
  <2>4. 100 * (e1 + ew) < LowRatio * e2
    BY <1>1, <1>2, <2>3
  <2>5. LowRatio * e2 <= LowRatio * (e2 + ee)
    BY <1>1, <1>2
  <2>6. LowRatio * e2 \in Int /\ LowRatio * (e2 + ee) \in Int
    BY <1>1, <1>2
  <2>7. 100 * (e1 + b.wallet) < LowRatio * (e2 + ee)
    BY <1>1, <2>4, <2>5, <2>6
  <2> QED
    BY <2>7 DEF ExRatioLow, e1, e2, ee
<1>4. ASSUME e2 + ew < ExpectedE2Low(b, q) PROVE FALSE
  <2>1. t * 100 \in Int /\ 100 + HighRatio \in Nat \ {0}
    BY <1>1, <1>2
  <2>2. e2 + ew < (t * 100) \div (100 + HighRatio)
    BY <1>4 DEF ExpectedE2Low, t
  <2>3. (100 + HighRatio) * (e2 + ew) < t * 100
    <3> DEFINE x == e2 + ew
               y == t * 100
               d == 100 + HighRatio
    <3>1. x \in Int /\ y \in Int /\ d \in Nat \ {0} /\ x < y \div d
      BY <1>1, <2>1, <2>2
    <3> HIDE DEF x, y, d
    <3>2. d * x < y
      BY <3>1, BelowQuotient
    <3> QED
      BY <3>2 DEF x, y, d
  <2>4. HighRatio * (e2 + ew) < 100 * e1
    BY <1>1, <1>2, <2>3
  <2>5. HighRatio * (e2 + ee) <= HighRatio * (e2 + ew)
    <3>1. HighRatio * (e2 + ew) = HighRatio * (e2 + ee) + HighRatio * b.wallet
      BY <1>1, <1>2
    <3>2. HighRatio * b.wallet >= 0 /\ HighRatio * (e2 + ee) \in Int
      BY <1>1, <1>2
    <3> QED
      BY <1>1, <1>2, <3>1, <3>2
  <2>6. HighRatio * (e2 + ew) \in Int /\ HighRatio * (e2 + ee) \in Int
    BY <1>1, <1>2
  <2>7. 100 * (e1 + b.wallet) > HighRatio * (e2 + ee)
    BY <1>1, <2>4, <2>5, <2>6
  <2> QED
    BY <2>7 DEF ExRatioHigh, e1, e2, ee
<1>5. ExpectedE1Low(b, q) \in Int /\ ExpectedE2Low(b, q) \in Int
  <2>1. /\ t * LowRatio \in Int /\ 100 + LowRatio \in Nat \ {0}
        /\ t * 100 \in Int /\ 100 + HighRatio \in Nat \ {0}
    BY <1>1, <1>2
  <2> QED
    BY <2>1, Division DEF ExpectedE1Low, ExpectedE2Low, Share, t
<1> QED
  BY <1>1, <1>3, <1>4, <1>5 DEF e1, e2, ew

(* The three places between dYdX and Kraken. *)
LEMMA Underway ==
  ASSUME NEW b \in Reading, NEW p \in Price
  PROVE  /\ b.wallet \in Nat /\ b.eePrim \in Nat /\ b.eeSec \in Nat /\ b.eeSec * p \in Nat
         /\ EwTotal(b, Quotes(p)) = b.wallet + b.eePrim + b.eeSec * p
         /\ b.eeSec < Atom => b.eeSec * p <= 99 * p
<1>1. b.wallet \in Nat /\ b.eePrim \in Nat /\ b.eeSec \in Nat
  BY DEF Reading, Fields
<1>2. b.eeSec * p \in Nat
  BY <1>1, Products DEF Price
<1>3. ASSUME b.eeSec < Atom PROVE b.eeSec * p <= 99 * p
  <2>1. 99 - b.eeSec \in Nat
    BY <1>1, <1>3 DEF Atom
  <2>2. (99 - b.eeSec) * p \in Nat
    BY <2>1, Products DEF Price
  <2>3. (99 - b.eeSec) * p = 99 * p - b.eeSec * p
    BY <1>1 DEF Price
  <2> QED
    BY <1>2, <2>2, <2>3 DEF Price
<1>4. EwTotal(b, Quotes(p)) = b.wallet + b.eePrim + b.eeSec * p
  BY <1>1, <1>2 DEF EwTotal, EeTotal, Quotes
<1> QED
  BY <1>1, <1>2, <1>3, <1>4

Little(b, q) == 100 * EwTotal(b, q) <= 301 * MinLimit(q) /\ b.wallet <= MinLimit(q)

(* Nothing is worth sending on to dYdX: each place is below its own limit. *)
LEMMA LittleForE1 ==
  ASSUME NEW b \in Reading, NEW p \in Price,
         EewTransferable(b, Quotes(p)) <= MinLimit(Quotes(p))
  PROVE  Little(b, Quotes(p))
<1> DEFINE q    == Quotes(p)
           m    == MinLimit(q)
           w    == b.wallet
           prim == b.eePrim
           sec  == b.eeSec * p
           x    == EePrimTransferable(b)
           y    == EeExchangable(b, q)
           z    == MinusCommission(y)
<1>1. /\ w \in Nat /\ prim \in Nat /\ sec \in Nat /\ EwTotal(b, q) = w + prim + sec
      /\ b.eeSec < Atom => sec <= 99 * p
  BY Underway
<1>2. m \in Nat /\ m >= 5000 /\ m >= 200 * p /\ p \in Nat
  BY Worths DEF Price
<1>3. /\ x \in Nat
      /\ \/ prim < 5000 /\ x = 0
         \/ prim >= 5000 /\ 199 * prim < 200 * x + 200
  BY <1>1 DEF EePrimTransferable, OrZero, EeToWalletMin, MinusCommission
<1>4. /\ y \in Nat
      /\ \/ sec <= 99 * p /\ y = 0
         \/ 199 * sec < 200 * y + 200
  <2>1. y = IF b.eeSec >= Atom THEN MinusCommission(sec) ELSE 0
    BY DEF EeExchangable, OrZero, Quotes
  <2>2. b.eeSec \in Nat
    BY DEF Reading, Fields
  <2> HIDE DEF sec, y
  <2> QED
    BY <1>1, <2>1, <2>2 DEF MinusCommission, Atom
<1>5. z \in Nat /\ 199 * y < 200 * z + 200
  <2> HIDE DEF y
  <2> QED
    BY <1>4 DEF MinusCommission
<1>6. w + (IF x + z >= 5000 THEN x + z ELSE 0) <= m
  BY DEF EewTransferable, OrZero, EeToWalletMin
<1> HIDE DEF m, w, prim, sec, x, y, z
<1>7. 100 * (w + prim + sec) <= 301 * m /\ w <= m
  <2>1. CASE x + z >= 5000
    BY <1>1, <1>2, <1>3, <1>4, <1>5, <1>6, <2>1
  <2>2. CASE x + z < 5000
    BY <1>1, <1>2, <1>3, <1>4, <1>5, <1>6, <2>2
  <2> QED
    BY <1>3, <1>5, <2>1, <2>2
<1> QED
  BY <1>1, <1>7 DEF Little, m, w

(* Nothing is worth sending on to Kraken. *)
LEMMA LittleForE2 ==
  ASSUME NEW b \in Reading, NEW p \in Price, NEW sample \in Int,
         ToE2(b, Quotes(p), sample) = NoMove
  PROVE  Little(b, Quotes(p))
<1> DEFINE q    == Quotes(p)
           m    == MinLimit(q)
           lots == b.eePrim \div p
<1>1. /\ b.wallet \in Nat /\ b.eePrim \in Nat /\ b.eeSec \in Nat /\ b.eeSec * p \in Nat
      /\ EwTotal(b, q) = b.wallet + b.eePrim + b.eeSec * p
      /\ b.eeSec < Atom => b.eeSec * p <= 99 * p
  BY Underway
<1>2. m \in Nat /\ m >= 5000 /\ m >= 200 * p /\ p \in Nat /\ p > 0
  BY Worths DEF Price
<1>3. lots \in Int /\ b.eePrim < p * lots + p /\ p * lots <= b.eePrim
  <2> DEFINE x == b.eePrim
  <2>1. x \in Int /\ p \in Nat \ {0}
    BY <1>1 DEF Price
  <2> HIDE DEF x
  <2>2. x \div p \in Int /\ p * (x \div p) <= x /\ x < p * (x \div p) + p
    BY <2>1, Division
  <2> QED
    BY <2>2 DEF x
<1>4. lots <= 100 => b.eePrim < 101 * p
  <2> HIDE DEF lots
  <2> SUFFICES ASSUME lots <= 100 PROVE p * lots <= 100 * p
    BY <1>1, <1>2, <1>3
  <2>1. 100 - lots \in Nat
    BY <1>3
  <2>2. p * (100 - lots) \in Nat
    BY <1>2, <2>1
  <2>3. p * (100 - lots) = 100 * p - p * lots
    BY <1>2, <1>3
  <2> QED
    BY <1>2, <1>3, <2>2, <2>3
<1>5. lots >= 0
  <2> HIDE DEF lots
  <2> SUFFICES ASSUME lots < 0 PROVE FALSE
    BY <1>3
  <2>1. -1 - lots \in Nat
    BY <1>3
  <2>2. p * (-1 - lots) \in Nat /\ p * (-1 - lots) = -p - p * lots
    BY <1>2, <1>3, <2>1
  <2> QED
    BY <1>1, <1>2, <1>3, <2>2
<1>6. q.eeBuy = p
  BY DEF Quotes
<1>7. b.wallet < m /\ lots <= 100 /\ b.eeSec < Atom
  <2>1. CASE EeTransferableToSec(b, q) < Atom
    <3> DEFINE wallets == WalletToSec(b, q)
               others  == MinusCommission(lots)
    <3>1. others \in Nat /\ (others < Atom => lots <= 100)
      <4> HIDE DEF lots
      <4> QED
        BY <1>3, <1>5 DEF MinusCommission, Atom
    <3>2. wallets \in Nat /\ (b.wallet >= m => wallets >= Atom)
      <4> DEFINE c == b.wallet \div p
      <4>1. c \in Int /\ b.wallet < p * c + p
        <5> DEFINE x == b.wallet
        <5>1. x \in Int /\ p \in Nat \ {0}
          BY <1>1 DEF Price
        <5> HIDE DEF x
        <5>2. x \div p \in Int /\ x < p * (x \div p) + p
          BY <5>1, Division
        <5> QED
          BY <5>2 DEF x
      <4>2. c >= 0
        BY <1>1, <1>2
      <4>3. b.wallet >= m => c >= 200
        <5> HIDE DEF c
        <5> SUFFICES ASSUME b.wallet >= m, c <= 199 PROVE FALSE
          BY <4>1
        <5>1. 199 - c \in Nat
          BY <4>1
        <5>2. p * (199 - c) \in Nat /\ p * (199 - c) = 199 * p - p * c
          BY <1>2, <4>1, <5>1
        <5> QED
          BY <1>1, <1>2, <4>1, <5>2
      <4>4. wallets = IF b.wallet >= m THEN MinusCommission(c) ELSE 0
        BY <1>6 DEF WalletToSec, OrZero
      <4> HIDE DEF c, wallets, m
      <4> QED
        BY <1>1, <1>2, <4>1, <4>2, <4>3, <4>4 DEF MinusCommission, Atom
    <3>3. (IF wallets + others >= Atom THEN wallets + others ELSE 0) + b.eeSec < Atom
      BY <1>6, <2>1 DEF EeTransferableToSec, OrZero
    <3> HIDE DEF wallets, others, m, lots
    <3> QED
      BY <1>1, <1>2, <3>1, <3>2, <3>3 DEF Atom
  <2>2. CASE ~(EeTransferableToSec(b, q) < Atom)
    <3>1. ~(b.wallet >= m) /\ ~(lots >= Atom) /\ ~(b.eeSec >= Atom)
      BY <1>6, <2>2 DEF ToE2, NoMove, Move
    <3> HIDE DEF m, lots
    <3> QED
      BY <1>1, <1>2, <1>3, <3>1 DEF Atom
  <2> QED
    BY <2>1, <2>2
<1> HIDE DEF m, lots
<1>8. 100 * EwTotal(b, q) <= 301 * m /\ b.wallet <= m
  BY <1>1, <1>2, <1>4, <1>7
<1> QED
  BY <1>8 DEF Little, m

(* What is bound for dYdX is moved on unless all of it is too little. *)
LEMMA LittleOnTheWayToE1 ==
  ASSUME NEW b \in Reading, NEW p \in Price, NEW sample \in Int,
         ToE1(b, Quotes(p), sample) = NoMove
  PROVE  Little(b, Quotes(p))
<1> DEFINE q == Quotes(p)
           m == MinLimit(q)
<1>1. /\ b.wallet \in Nat /\ b.eePrim \in Nat /\ b.eeSec \in Nat /\ b.eeSec * p \in Nat
      /\ EwTotal(b, q) = b.wallet + b.eePrim + b.eeSec * p
      /\ b.eeSec < Atom => b.eeSec * p <= 99 * p
  BY Underway
<1>2. m \in Nat /\ m >= 5000 /\ m >= 200 * p /\ p \in Nat
  BY Worths DEF Price
<1>3. AllToE1(b, q, sample) = NoMove
  <2>1. PartToE1(b, q, sample) # NoMove
    <3>1. b.wallet >= E1Delta(b, q) => PartToE1(b, q, sample) # NoMove
      BY DEF PartToE1, Move, NoMove
    <3>2. ~(b.wallet >= E1Delta(b, q)) => PartToE1(b, q, sample) # NoMove
      BY <1>1, Lacks, PartFromEeSane DEF PartToE1, Sane, Moves, Move, NoMove, Ops, TransferOps, TradeOps
    <3> QED
      BY <3>1, <3>2
  <2> QED
    BY <2>1 DEF ToE1
<1>4. ~(b.eeSec >= Atom) /\ ~(b.eePrim >= 5000) /\ ~(b.wallet >= m)
  BY <1>3 DEF AllToE1, Move, NoMove, EeToWalletMin
<1> HIDE DEF m
<1>5. 100 * EwTotal(b, q) <= 301 * m /\ b.wallet <= m
  BY <1>1, <1>2, <1>4 DEF Atom
<1> QED
  BY <1>5 DEF Little, m

LEMMA LittleIsLeft ==
  ASSUME NEW b \in Reading, NEW p \in Price, NEW sample \in Int, AtRest(b, p, sample)
  PROVE  Little(b, Quotes(p))
<1> DEFINE q == Quotes(p)
<1>1. CASE EewTransferable(b, q) <= MinLimit(q)
  BY <1>1, LittleForE1
<1>2. CASE ~(EewTransferable(b, q) <= MinLimit(q))
  <2>1. ToE1(b, q, sample) = NoMove \/ ToE2(b, q, sample) = NoMove
    BY <1>2, GapsClosed DEF AtRest, Redistribute
  <2> QED
    BY <2>1, LittleOnTheWayToE1, LittleForE2
<1> QED
  BY <1>1, <1>2

-----------------------------------------------------------------------------
(* Typing, and decisions that can be carried out when their time comes.    *)

Ready ==
  /\ plan.op = "panic" => plan = Panic
  /\ plan.op = "wallet_to_e1" => 10 * bal.wallet >= 9 * plan.amount
  /\ SamplesArePositive /\ plan.op = "reduce_both" => plan.amount > 0

Inv == TypeOK /\ Ready

LEMMA Amounts ==
  ASSUME TypeOK
  PROVE  /\ bal \in Reading /\ price \in Price /\ plan.amount \in Int
         /\ \A f \in Fields : bal[f] \in Int
         /\ \A f \in Fields \ {"short"} : bal[f] \in Nat
         /\ E1Free \in Int /\ E1Free <= bal.e1Total
<1>1. /\ bal \in Reading /\ price \in Price /\ plan.amount \in Int
      /\ \A f \in Fields : bal[f] \in Int
      /\ \A f \in Fields \ {"short"} : bal[f] \in Nat
  BY PricesAssumption DEF TypeOK, Reading, Price
<1>2. bal.short \in Int /\ bal.e1Total \in Int
  BY <1>1 DEF Fields
<1>3. Abs(bal.short) \in Nat
  BY <1>2 DEF Abs
<1>4. Abs(bal.short) * price \in Nat
  BY <1>1, <1>3, Products DEF Price
<1>5. E1Free \in Int /\ E1Free <= bal.e1Total
  <2> DEFINE x == Abs(bal.short) * price
  <2>1. x \in Nat
    BY <1>4
  <2> HIDE DEF x
  <2>2. x \div 10 \in Nat
    BY <2>1
  <2> QED
    BY <1>2, <2>2 DEF E1Free, x
<1> QED
  BY <1>1, <1>5

LEMMA OpeningInv == Init => Inv
<1> SUFFICES ASSUME Init PROVE Inv
  OBVIOUS
<1>1. bal \in [Fields -> Nat]
  BY OpeningsAssumption DEF Init
<1>2. bal \in [Fields -> Int] /\ \A f \in Fields \ {"short"} : bal[f] >= 0
  BY <1>1
<1>3. price \in Prices /\ late = {} /\ withdrew \in BOOLEAN
  BY PricesAssumption DEF Init
<1>4. plan = [op |-> "idle", amount |-> 0]
  BY DEF Init, Idle, Move
<1>5. /\ moved \in 0 .. MaxPriceMoves /\ cutOffs \in 0 .. MaxCutOffs
      /\ delays \in 0 .. MaxDelays /\ misreads \in 0 .. MaxMisreads
  BY BoundsAssumption DEF Init
<1> QED
  BY <1>2, <1>3, <1>4, <1>5 DEF Inv, TypeOK, Ready

(* A step of no decision ends the operation: the types of what is left. *)
LEMMA AfterInv ==
  ASSUME Inv,
         bal' \in [Fields -> Int], \A f \in Fields \ {"short"} : bal'[f] >= 0,
         plan' \in {Idle, Panic, Crashed},
         price' = price, withdrew' = withdrew,
         \A t \in late' : t.to \in Fields /\ t.amount \in Nat,
         counters' = counters \/
           (/\ cutOffs' \in 0 .. MaxCutOffs /\ delays' \in 0 .. MaxDelays
            /\ moved' = moved /\ misreads' \in 0 .. MaxMisreads)
  PROVE  Inv'
<1>1. TypeOK'
  BY DEF Inv, TypeOK, counters, Idle, Panic, Crashed, Move
<1>2. Ready'
  BY DEF Ready, Idle, Panic, Crashed, Move
<1> QED
  BY <1>1, <1>2 DEF Inv

LEMMA DoneInv ==
  ASSUME Inv, NEW after \in [Fields -> Int], \A f \in Fields \ {"short"} : after[f] >= 0,
         Done(after)
  PROVE  Inv'
<1>1. /\ bal' = after /\ plan' = Idle /\ price' = price /\ withdrew' = withdrew
      /\ late' = late /\ counters' = counters
  BY DEF Done
<1>2. \A t \in late' : t.to \in Fields /\ t.amount \in Nat
  BY <1>1 DEF Inv, TypeOK
<1> QED
  BY <1>1, <1>2, AfterInv

LEMMA PanicsInv == Inv /\ Panics => Inv'
<1> SUFFICES ASSUME Inv, Panics PROVE Inv'
  OBVIOUS
<1>1. /\ bal' = bal /\ plan' = Panic /\ price' = price /\ withdrew' = withdrew
      /\ late' = late /\ counters' = counters
  BY DEF Panics
<1>2. /\ bal' \in [Fields -> Int] /\ \A f \in Fields \ {"short"} : bal'[f] >= 0
      /\ \A t \in late' : t.to \in Fields /\ t.amount \in Nat
  BY <1>1 DEF Inv, TypeOK
<1> QED
  BY <1>1, <1>2, AfterInv

(* An answer lacks what an operation unwraps, or it is broken off so. *)
LEMMA UnreadableCounts ==
  ASSUME TypeOK
  PROVE  /\ Unreadable => misreads' \in 0 .. MaxMisreads /\ misreads' # 0
         /\ BrokenOff => plan' \in {Idle, Crashed} /\ misreads' \in 0 .. MaxMisreads
BY BoundsAssumption DEF TypeOK, Unreadable, BrokenOff, Crashes

LEMMA CrashInv == Inv /\ Crash => Inv'
<1> SUFFICES ASSUME Inv, Crash PROVE Inv'
  OBVIOUS
<1>1. plan' = Crashed /\ Unreadable
  BY DEF Crash, Crashes
<1>2. misreads' \in 0 .. MaxMisreads
  BY <1>1, UnreadableCounts DEF Inv
<1>3. UNCHANGED <<bal, price, late, moved, cutOffs, delays, withdrew>>
  BY DEF Crash
<1> QED
  BY <1>1, <1>2, <1>3, AfterInv DEF Inv, TypeOK

(* Detection. *)

(* What is read, rightly or with an asset missing, can be decided on; the  *)
(* wallet is read from the chain and never missing.                        *)
LEMMA Readings ==
  ASSUME TypeOK
  PROVE  /\ bal \in Reading
         /\ \A f \in Fields : Missing(f) \in Reading
         /\ \A f \in Fields \ {"wallet"} : Missing(f).wallet = bal.wallet
BY DEF TypeOK, Reading, Missing, Fields

LEMMA DecideFromInv ==
  ASSUME Inv, NEW reading \in Reading, reading.wallet = bal.wallet,
         DecideFrom(reading), misreads' \in 0 .. MaxMisreads
  PROVE  Inv'
<1> USE DEF Inv
<1>1. PICK sample \in Samples : plan' = Detect(reading, Quotes(price), sample)
  BY DEF DecideFrom
<1>2. sample \in Int /\ price \in Price
  BY SamplesAssumption, Amounts
<1>3. UNCHANGED <<bal, price, late, moved, cutOffs, delays>> /\ withdrew' \in BOOLEAN
  BY DEF DecideFrom, TypeOK
<1>4. \/ Sane(plan', reading, sample)
      \/ plan' = Move("monitoring", 0)
      \/ plan' = Panic
  BY <1>1, <1>2, Decisions
<1>5. plan' \in [op : TransferOps \cup TradeOps \cup {"idle", "monitoring", "panic", "crash"},
                amount : Int]
  BY <1>4 DEF Sane, Moves, Ops, Move, Panic
<1>6. TypeOK'
  BY <1>3, <1>5 DEF TypeOK
<1>7. SamplesArePositive => MaxOrder = 0 \/ sample > 0
  BY DEF SamplesArePositive
<1>8. Ready'
  <2>1. CASE Sane(plan', reading, sample)
    <3>1. plan'.op # "panic"
      BY <2>1 DEF Sane, Moves, Ops, TransferOps, TradeOps
    <3> QED
      BY <1>3, <1>7, <2>1, <3>1 DEF Sane, Ready, SamplesArePositive
  <2>2. CASE plan' = Move("monitoring", 0) \/ plan' = Panic
    BY <2>2 DEF Ready, Move, Panic
  <2> QED
    BY <1>4, <2>1, <2>2
<1> QED
  BY <1>6, <1>8

LEMMA DecideInv == Inv /\ (Decide \/ DecideMisread) => Inv'
<1> SUFFICES ASSUME Inv, Decide \/ DecideMisread PROVE Inv'
  OBVIOUS
<1>1. CASE Decide
  <2>1. bal \in Reading /\ misreads' \in 0 .. MaxMisreads
    BY <1>1, Readings DEF Decide, Inv, TypeOK
  <2> QED
    BY <1>1, <2>1, DecideFromInv DEF Decide
<1>2. CASE DecideMisread
  <2>1. PICK f \in Fields \ {"wallet"} : DecideFrom(Missing(f))
    BY <1>2 DEF DecideMisread
  <2>2. Missing(f) \in Reading /\ Missing(f).wallet = bal.wallet
    BY Readings DEF Inv
  <2>3. misreads' \in 0 .. MaxMisreads
    BY <1>2, UnreadableCounts DEF DecideMisread, Inv
  <2> QED
    BY <2>1, <2>2, <2>3, DecideFromInv
<1> QED
  BY <1>1, <1>2

(* Transfers. *)

(* What is sent is there, and covers its cost. *)
LEMMA SentBounds ==
  ASSUME TypeOK, NEW op \in TransferOps, Planned(op), Possible(op)
  PROVE  /\ Source(op) \in Fields \ {"short"} /\ Target(op) \in Fields \ {"short"}
         /\ Source(op) # Target(op)
         /\ Sent(op) \in Nat /\ Cost(op) \in Nat
         /\ Cost(op) <= Sent(op) /\ Sent(op) <= bal[Source(op)]
<1>1. /\ Source(op) \in Fields \ {"short"} /\ Target(op) \in Fields \ {"short"}
      /\ Source(op) # Target(op)
  BY DEF TransferOps, Source, Target, Fields
<1>2. TransferFee \in Nat /\ TransferFee <= 1000
  BY FeeAssumption DEF LeastWithdrawal
<1>3. Cost(op) \in Nat
  BY <1>2 DEF Cost, TransferOps
<1>4. plan.amount \in Int /\ bal.eePrim \in Int /\ bal.e1Total \in Int /\ bal.wallet \in Int
      /\ E1Free \in Int /\ E1Free <= bal.e1Total
  BY Amounts DEF Fields
<1>5. CASE op = "e1_to_wallet"
  <2>1. Sent(op) = plan.amount /\ Cost(op) = TransferFee /\ Source(op) = "e1Total"
    BY <1>5 DEF Sent, Cost, Source
  <2>2. plan.amount <= E1Free /\ plan.amount >= 1000
    BY <1>5 DEF Possible, Withdrawable, LeastWithdrawal
  <2> QED
    BY <1>1, <1>2, <1>4, <2>1, <2>2
<1>6. CASE op = "ee_to_wallet"
  <2>1. /\ Sent(op) = (plan.amount \div 100) * 100 /\ Cost(op) = TransferFee
        /\ Source(op) = "eePrim"
    BY <1>6 DEF Sent, Cost, Source
  <2>2. plan.amount <= bal.eePrim /\ plan.amount >= 1000
    BY <1>6 DEF Possible, Withdrawable, LeastWithdrawal
  <2>3. /\ (plan.amount \div 100) * 100 \in Nat /\ (plan.amount \div 100) * 100 >= 1000
        /\ (plan.amount \div 100) * 100 <= plan.amount
    BY <1>4, <2>2
  <2> QED
    BY <1>1, <1>2, <1>4, <2>1, <2>2, <2>3
<1>7. CASE op \notin {"e1_to_wallet", "ee_to_wallet"}
  <2>1. Sent(op) <= bal[Source(op)] /\ Sent(op) > Cost(op)
    BY <1>7 DEF Possible
  <2>2. Sent(op) \in Int
    BY <1>4 DEF Sent, Larger, Atom
  <2> QED
    BY <1>1, <1>3, <2>1, <2>2
<1> QED
  BY <1>5, <1>6, <1>7

(* What is paid, and what comes in, are balances. *)
LEMMA PaidTyping ==
  ASSUME TypeOK, NEW op \in TransferOps, Planned(op), Possible(op)
  PROVE  /\ Paid(op) \in [Fields -> Int]
         /\ \A f \in Fields \ {"short"} : Paid(op)[f] >= 0
         /\ Sent(op) - Cost(op) \in Nat
BY SentBounds DEF TypeOK, Paid

LEMMA TransferInv ==
  ASSUME Inv, NEW op \in TransferOps, Transfer(op)
  PROVE  Inv'
<1> USE DEF Inv
<1>1. CASE TooLittle(op)
  BY <1>1, PanicsInv DEF Transfer
<1>2. CASE ~TooLittle(op) /\ ~Possible(op)
  <2>1. Done(bal)
    BY <1>2 DEF Transfer, DoneIf
  <2> QED
    BY <2>1, DoneInv DEF TypeOK
<1>3. CASE ~TooLittle(op) /\ Possible(op)
  <2> DEFINE after == [Paid(op) EXCEPT ![Target(op)] = @ + (Sent(op) - Cost(op))]
  <2>1. Done(after) /\ Planned(op)
    BY <1>3 DEF Transfer, DoneIf
  <2>2. Target(op) \in Fields \ {"short"}
    BY <1>3, <2>1, SentBounds
  <2>3. after \in [Fields -> Int] /\ \A f \in Fields \ {"short"} : after[f] >= 0
    BY <1>3, <2>1, <2>2, PaidTyping
  <2> HIDE DEF after
  <2> QED
    BY <2>1, <2>3, DoneInv
<1> QED
  BY <1>1, <1>2, <1>3

LEMMA DelayInv ==
  ASSUME Inv, NEW op \in TransferOps, Delay(op)
  PROVE  Inv'
<1> USE DEF Inv
<1>1. /\ Planned(op) /\ Possible(op) /\ bal' = Paid(op) /\ BrokenOff
      /\ delays < MaxDelays /\ delays' = delays + 1
      /\ UNCHANGED <<price, moved, cutOffs, withdrew>>
      /\ late' = late \cup
           {[id |-> delays, to |-> Target(op), amount |-> Sent(op) - Cost(op)]}
  BY DEF Delay
<1>2. Target(op) \in Fields
  BY <1>1, SentBounds
<1>3. \A t \in late' : t.to \in Fields /\ t.amount \in Nat
  BY <1>1, <1>2, PaidTyping DEF TypeOK
<1>4. bal' \in [Fields -> Int] /\ \A f \in Fields \ {"short"} : bal'[f] >= 0
  BY <1>1, PaidTyping
<1>5. cutOffs' \in 0 .. MaxCutOffs /\ delays' \in 0 .. MaxDelays
  BY <1>1, BoundsAssumption DEF TypeOK
<1>6. plan' \in {Idle, Crashed} /\ misreads' \in 0 .. MaxMisreads
  BY <1>1, UnreadableCounts
<1> QED
  BY <1>1, <1>3, <1>4, <1>5, <1>6, AfterInv

LEMMA ArriveInv == Inv /\ Arrive => Inv'
<1> SUFFICES ASSUME Inv, Arrive PROVE Inv'
  OBVIOUS
<1> USE DEF Inv
<1>1. PICK t \in late : bal' = [bal EXCEPT ![t.to] = @ + t.amount] /\ late' = late \ {t}
  BY DEF Arrive
<1>2. t.to \in Fields /\ t.amount \in Nat /\ UNCHANGED <<price, plan, counters>> /\ withdrew' = FALSE
  BY DEF Arrive, TypeOK
<1>3. TypeOK'
  <2>1. bal' \in [Fields -> Int] /\ \A f \in Fields \ {"short"} : bal'[f] >= 0
    BY <1>1, <1>2 DEF TypeOK
  <2>2. \A u \in late' : u.to \in Fields /\ u.amount \in Nat
    BY <1>1 DEF TypeOK
  <2>3. /\ price' = price /\ plan' = plan /\ withdrew' \in BOOLEAN
        /\ moved' = moved /\ cutOffs' = cutOffs /\ delays' = delays /\ misreads' = misreads
    BY <1>2 DEF counters
  <2> QED
    BY <2>1, <2>2, <2>3 DEF TypeOK
<1>4. bal'.wallet >= bal.wallet /\ bal'.wallet \in Int /\ bal.wallet \in Int
  BY <1>1, <1>2 DEF TypeOK, Fields
<1>5. Ready'
  BY <1>2, <1>4, Amounts DEF Ready, SamplesArePositive
<1> QED
  BY <1>3, <1>5

(* Orders. *)

LEMMA ShortOrders ==
  ASSUME NEW b \in Reading, NEW size \in Int
  PROVE  Shorten(b, size) \in Reading /\ Lengthen(b, size) \in Reading
<1>1. E1Size(size) \in Int /\ b.short \in Int
  BY Division DEF E1Size, Reading, Fields
<1> QED
  BY <1>1 DEF Shorten, Lengthen, Reading

(* Both sides of an order on Binance. *)
LEMMA BinanceOrders ==
  ASSUME NEW b \in Reading, NEW sec \in Nat, NEW prim \in Nat
  PROVE  [b EXCEPT !.eeSec = sec, !.eePrim = prim] \in Reading
<1> DEFINE c == [b EXCEPT !.eeSec = sec, !.eePrim = prim]
<1>1. b \in [Fields -> Int] /\ \A f \in Fields \ {"short"} : b[f] >= 0
  BY DEF Reading
<1>2. c \in [Fields -> Int]
  <2>1. sec \in Int /\ prim \in Int
    OBVIOUS
  <2>2. [b EXCEPT !.eeSec = sec] \in [Fields -> Int]
    BY <1>1, <2>1
  <2> QED
    BY <2>1, <2>2
<1>3. ASSUME NEW f \in Fields \ {"short"} PROVE c[f] >= 0
  <2>1. c[f] = sec \/ c[f] = prim \/ c[f] = b[f]
    BY <1>1
  <2> QED
    BY <1>1, <2>1
<1> QED
  BY <1>2, <1>3 DEF Reading

LEMMA Selling ==
  ASSUME TypeOK, NEW size \in Nat, size <= bal.eeSec
  PROVE  Sell(bal, size) \in Reading
<1>1. size * price \in Nat
  BY Amounts, Products DEF Price
<1>2. bal.eeSec \in Int /\ bal.eePrim \in Nat /\ bal \in Reading
  BY Amounts DEF Fields
<1> DEFINE sec  == bal.eeSec - size
           prim == bal.eePrim + size * price
<1>3. sec \in Nat /\ prim \in Nat
  BY <1>1, <1>2
<1>4. Sell(bal, size) = [bal EXCEPT !.eeSec = sec, !.eePrim = prim]
  BY DEF Sell
<1> HIDE DEF sec, prim
<1> QED
  BY <1>2, <1>3, <1>4, BinanceOrders

(* An order at a limit price 1% above the market's leaves Binance solvent. *)
LEMMA Buying ==
  ASSUME NEW b \in Reading, NEW size \in Nat, TypeOK,
         101 * price * size <= 100 * b.eePrim
  PROVE  Buy(b, size) \in Reading
<1>1. price \in Nat /\ b.eePrim \in Nat /\ b.eeSec \in Nat
  BY Amounts DEF Price, Reading, Fields
<1>2. size * price \in Nat
  BY <1>1, Products
<1>3. 101 * price * size = 101 * (size * price)
  BY <1>1
<1> DEFINE worth == size * price
<1>4. worth <= b.eePrim
  <2>1. worth \in Nat /\ 101 * worth <= 100 * b.eePrim
    BY <1>2, <1>3
  <2> HIDE DEF worth
  <2> QED
    BY <1>1, <2>1
<1> DEFINE sec  == b.eeSec + size
           prim == b.eePrim - worth
<1>5. sec \in Nat /\ prim \in Nat
  BY <1>1, <1>2, <1>4
<1>6. Buy(b, size) = [b EXCEPT !.eeSec = sec, !.eePrim = prim]
  BY DEF Buy
<1> HIDE DEF sec, prim
<1> QED
  BY <1>5, <1>6, BinanceOrders

LEMMA SizesToReduce ==
  ASSUME TypeOK
  PROVE  /\ ReduceOnEe \in Nat /\ ReduceOnEe <= bal.eeSec
         /\ ReduceOnE1 \in Int
<1>1. bal.eeSec \in Nat /\ bal.short \in Int
  BY Amounts DEF Fields
<1>2. SizeToReduce \in Nat
  <2>1. plan.amount \div price \in Int
    BY Amounts, Division DEF Price
  <2> QED
    BY <2>1 DEF SizeToReduce, Larger, Atom
<1> QED
  BY <1>1, <1>2 DEF ReduceOnEe, ReduceOnE1, Smaller, Larger, Atom

LEMMA SizesToEnlarge ==
  ASSUME TypeOK
  PROVE  EnlargeOnE1 \in Int /\ EnlargeOnEe \in Nat
<1>1. price \in Nat \ {0} /\ plan.amount \in Int /\ E1Free \in Int
  BY Amounts DEF Price
<1>2. AmountToEnlarge \in Nat
  <2>1. (1005 * price) \div 10 \in Nat
    BY <1>1
  <2> QED
    BY <1>1, <2>1 DEF AmountToEnlarge, Larger
<1>3. EnlargeOnE1 \in Int
  <2>1. AmountOnE1 \in Int
    BY <1>1, <1>2 DEF AmountOnE1, Smaller
  <2>2. AmountOnE1 \div price \in Int
    BY <1>1, <2>1, Division
  <2> QED
    BY <2>2 DEF EnlargeOnE1, Larger, Atom
<1>4. EnlargeOnEe \in Nat
  <2> DEFINE x == AmountToEnlarge * 100
             d == 101 * price
  <2>1. x \in Nat /\ d \in Nat \ {0}
    BY <1>1, <1>2
  <2> HIDE DEF x, d
  <2>2. x \div d \in Nat
    BY <2>1
  <2> QED
    BY <2>2 DEF EnlargeOnEe, x, d
<1> QED
  BY <1>3, <1>4

LEMMA ReadingDone ==
  ASSUME Inv, NEW after \in Reading, Done(after)
  PROVE  Inv'
BY DoneInv DEF Reading

LEMMA TradeInv == Inv /\ Trade => Inv'
<1> SUFFICES ASSUME Inv, Trade PROVE Inv'
  OBVIOUS
<1>1. TypeOK /\ bal \in Reading /\ plan.amount \in Int
  BY Amounts DEF Inv
<1>2. CASE ReduceShort \/ EnlargeShort
  <2>1. PICK after \in {Shorten(bal, plan.amount), Lengthen(bal, plan.amount)} :
          Done(OnE1(bal, after))
    BY <1>2 DEF ReduceShort, EnlargeShort
  <2>2. OnE1(bal, after) \in Reading
    BY <1>1, ShortOrders DEF OnE1
  <2> QED
    BY <2>1, <2>2, ReadingDone
<1>4. CASE ReduceBoth
  <2>1. CASE plan.amount > 0
    <3> DEFINE sold  == Sell(bal, ReduceOnEe)
               after == Shorten(sold, ReduceOnE1)
    <3>1. Done(OnE1(sold, after))
      BY <1>4, <2>1 DEF ReduceBoth
    <3>2. sold \in Reading
      BY <1>1, SizesToReduce, Selling
    <3>3. after \in Reading
      BY <1>1, <3>2, SizesToReduce, ShortOrders
    <3> HIDE DEF sold, after
    <3>4. OnE1(sold, after) \in Reading
      BY <3>2, <3>3 DEF OnE1
    <3> QED
      BY <3>1, <3>4, ReadingDone
  <2>2. CASE ~(plan.amount > 0)
    BY <1>4, <2>2, PanicsInv DEF ReduceBoth
  <2> QED
    BY <2>1, <2>2
<1>5. CASE EnlargeBoth
  <2> DEFINE hedged == Lengthen(bal, EnlargeOnE1)
  <2>1. hedged \in Reading /\ EnlargeOnEe \in Nat
    BY <1>1, SizesToEnlarge, ShortOrders
  <2>2. hedged.eePrim = bal.eePrim
    BY <1>1 DEF Lengthen, Reading, Fields
  <2>3. \/ Done(bal) \/ Done(hedged)
        \/ /\ Done(Buy(hedged, EnlargeOnEe))
           /\ ~(101 * price * EnlargeOnEe > 100 * bal.eePrim)
    BY <1>5 DEF EnlargeBoth
  <2> HIDE DEF hedged
  <2>4. CASE Done(bal) \/ Done(hedged)
    BY <1>1, <2>1, <2>4, ReadingDone
  <2>5. CASE /\ Done(Buy(hedged, EnlargeOnEe))
             /\ ~(101 * price * EnlargeOnEe > 100 * bal.eePrim)
    <3>1. 101 * price * EnlargeOnEe \in Int /\ bal.eePrim \in Int
      BY <1>1, <2>1, Amounts, Products DEF Price, Fields
    <3>2. 101 * price * EnlargeOnEe <= 100 * hedged.eePrim
      BY <2>2, <2>5, <3>1
    <3> QED
      BY <1>1, <2>1, <2>5, <3>2, Buying, ReadingDone
  <2> QED
    BY <2>3, <2>4, <2>5
<1> QED
  BY <1>2, <1>4, <1>5 DEF Trade

LEMMA CutOffInv == Inv /\ CutOff => Inv'
<1> SUFFICES ASSUME Inv, CutOff PROVE Inv'
  OBVIOUS
<1>1. TypeOK /\ bal \in Reading
  BY Amounts DEF Inv
<1>2. bal' \in Reading
  BY <1>1, SizesToReduce, Selling, SizesToEnlarge, ShortOrders DEF CutOff
<1>3. /\ BrokenOff /\ cutOffs' \in 0 .. MaxCutOffs
      /\ UNCHANGED <<price, late, moved, delays, withdrew>>
  BY <1>1, BoundsAssumption DEF CutOff, TypeOK
<1>4. plan' \in {Idle, Crashed} /\ misreads' \in 0 .. MaxMisreads
  BY <1>1, <1>3, UnreadableCounts
<1> QED
  BY <1>1, <1>2, <1>3, <1>4, AfterInv DEF Reading, TypeOK

(* The market. *)

LEMMA PriceMoveInv == Inv /\ PriceMove => Inv'
<1> SUFFICES ASSUME Inv, PriceMove PROVE Inv'
  OBVIOUS
<1> USE DEF Inv
<1>1. PICK p \in Prices \ {price} :
        /\ bal' = [bal EXCEPT !.e1Total = @ - bal.short * (p - price)]
        /\ 20 * bal'.e1Total >= Abs(bal.short) * p
        /\ price' = p
  BY DEF PriceMove
<1>2. /\ bal.short \in Int /\ bal.e1Total \in Int /\ price \in Int /\ p \in Nat
      /\ Abs(bal.short) \in Nat
  BY Amounts, PricesAssumption DEF Fields, Price, Abs
<1>3. bal.short * (p - price) \in Int /\ Abs(bal.short) * p \in Nat
  BY <1>2, Products
<1>4. bal'.e1Total \in Int /\ bal'.e1Total >= 0
  <2>1. bal'.e1Total = bal.e1Total - bal.short * (p - price)
    BY <1>1 DEF TypeOK, Fields
  <2> QED
    BY <1>1, <1>2, <1>3, <2>1
<1>5. \A f \in Fields \ {"e1Total"} : bal'[f] = bal[f]
  BY <1>1 DEF TypeOK
<1>6. bal' \in [Fields -> Int] /\ \A f \in Fields \ {"short"} : bal'[f] >= 0
  <2>1. bal' = [f \in Fields |-> bal'[f]]
    BY <1>1 DEF TypeOK
  <2>2. \A f \in Fields : bal'[f] \in Int /\ (f # "short" => bal'[f] >= 0)
    BY <1>4, <1>5 DEF TypeOK
  <2> QED
    BY <2>1, <2>2
<1>7. /\ moved' \in 0 .. MaxPriceMoves /\ withdrew' = FALSE /\ price' \in Prices
      /\ UNCHANGED <<plan, late, cutOffs, delays, misreads>>
  BY <1>1, BoundsAssumption DEF PriceMove, TypeOK
<1>8. TypeOK'
  BY <1>6, <1>7 DEF TypeOK
<1>9. Ready'
  <2>1. bal'.wallet = bal.wallet
    BY <1>5 DEF Fields
  <2> QED
    BY <1>7, <2>1 DEF Ready, SamplesArePositive
<1> QED
  BY <1>8, <1>9

LEMMA StepInv == Inv /\ [Next]_vars => Inv'
<1> SUFFICES ASSUME Inv, [Next]_vars PROVE Inv'
  OBVIOUS
<1>1. bal \in Reading
  BY Amounts DEF Inv
<1>2. CASE Decide \/ DecideMisread
  BY <1>2, DecideInv
<1>3. CASE Monitor \/ Restart
  BY <1>1, <1>3, ReadingDone DEF Monitor, Restart
<1>4. CASE Trade
  BY <1>4, TradeInv
<1>5. CASE \E op \in TransferOps : Transfer(op)
  BY <1>5, TransferInv
<1>6. CASE CutOff
  BY <1>6, CutOffInv
<1>7. CASE Arrive
  BY <1>7, ArriveInv
<1>8. CASE PriceMove
  BY <1>8, PriceMoveInv
<1>9. CASE \E op \in TransferOps : Delay(op)
  BY <1>9, DelayInv
<1>10. CASE UNCHANGED vars
  BY <1>10 DEF vars, counters, Inv, TypeOK, Ready, SamplesArePositive
<1>11. CASE Crash
  BY <1>11, CrashInv
<1> QED
  BY <1>2, <1>3, <1>4, <1>5, <1>6, <1>7, <1>8, <1>9, <1>10, <1>11 DEF Next, Work

-----------------------------------------------------------------------------
(* Each step, and what it does to the plan. *)

LEMMA PanicStep ==
  ASSUME Inv, [Next]_vars, SamplesArePositive, plan # Panic, plan' = Panic
  PROVE  /\ plan = Idle
         /\ KrakenUnfit(bal) \/ \E f \in Fields : KrakenUnfit(Missing(f))
<1>1. Idle # Panic /\ Crashed # Panic
  BY DEF Idle, Panic, Crashed, Move
<1>2. \A after : Done(after) => FALSE
  BY <1>1 DEF Done
<1>3. ASSUME NEW reading \in Reading, DecideFrom(reading)
      PROVE  plan = Idle /\ KrakenUnfit(reading)
  <2>1. PICK sample \in Samples : plan' = Detect(reading, Quotes(price), sample)
    BY <1>3 DEF DecideFrom
  <2>2. sample \in Int /\ price \in Price
    BY SamplesAssumption, Amounts DEF Inv
  <2>3. ~Sane(plan', reading, sample) /\ plan' # Move("monitoring", 0)
    BY DEF Sane, Moves, Ops, TransferOps, TradeOps, Panic, Move
  <2> QED
    BY <1>3, <2>1, <2>2, <2>3, Decisions DEF DecideFrom, KrakenUnfit
<1>4. CASE Decide \/ DecideMisread
  <2>1. CASE Decide
    BY <1>3, <2>1, Readings DEF Decide, Inv
  <2>2. CASE DecideMisread
    <3>1. PICK f \in Fields : DecideFrom(Missing(f))
      BY <2>2 DEF DecideMisread
    <3> QED
      BY <1>3, <3>1, Readings DEF Inv
  <2> QED
    BY <1>4, <2>1, <2>2
<1>5. CASE Monitor \/ Restart
  BY <1>2, <1>5 DEF Monitor, Restart
<1>6. CASE Trade
  <2>1. CASE ReduceBoth
    <3>1. plan.amount > 0
      BY <2>1 DEF ReduceBoth, Planned, Inv, Ready
    <3> QED
      BY <1>2, <2>1, <3>1 DEF ReduceBoth
  <2>2. CASE ReduceShort \/ EnlargeShort \/ EnlargeBoth
    BY <1>2, <2>2 DEF ReduceShort, EnlargeShort, EnlargeBoth, DoneIf
  <2> QED
    BY <1>6, <2>1, <2>2 DEF Trade
<1>7. ASSUME NEW op \in TransferOps, Transfer(op) PROVE FALSE
  <2>1. ~TooLittle(op)
    <3>1. bal.wallet \in Int /\ plan.amount \in Int
      BY Amounts DEF Inv, Fields
    <3> QED
      BY <1>7, <3>1 DEF Transfer, TooLittle, Planned, Inv, Ready
  <2> QED
    BY <1>2, <1>7, <2>1 DEF Transfer, DoneIf
<1>8. CASE Crash \/ CutOff \/ \E op \in TransferOps : Delay(op)
  BY <1>1, <1>8 DEF Crash, Crashes, CutOff, Delay, BrokenOff
<1>9. CASE Arrive \/ PriceMove \/ UNCHANGED vars
  BY <1>9 DEF Arrive, PriceMove, vars
<1> QED
  BY <1>4, <1>5, <1>6, <1>7, <1>8, <1>9 DEF Next, Work

LEMMA RestStep ==
  ASSUME Inv, [Next]_vars, ComesToRest
  PROVE  \E sample \in Int : AtRest(bal, price, sample)
<1>1. plan = Idle /\ plan'.op = "monitoring" /\ misreads' = misreads
  BY DEF ComesToRest
<1>2. plan'.op # "idle" /\ plan'.op # "panic" /\ plan'.op # "crash"
  BY <1>1
<1>3. plan' # Idle /\ plan' # Panic /\ plan' # Crashed
  BY <1>2 DEF Idle, Panic, Crashed, Move
<1>4. (\A after : ~Done(after)) /\ ~Panics
  BY <1>3 DEF Done, Panics
<1>5. CASE Decide
  <2>1. PICK sample \in Samples : plan' = Detect(bal, Quotes(price), sample)
    BY <1>5 DEF Decide, DecideFrom
  <2>2. sample \in Int /\ price \in Price /\ bal \in Reading
    BY SamplesAssumption, Amounts DEF Inv
  <2>3. ~Sane(plan', bal, sample)
    BY <1>1 DEF Sane, Moves, Ops, TransferOps, TradeOps
  <2> QED
    BY <1>3, <2>1, <2>2, <2>3, Decisions
<1>6. CASE DecideMisread
  BY <1>1, <1>6 DEF DecideMisread, Unreadable, Inv, TypeOK
<1>7. CASE Monitor \/ Restart \/ Trade \/ \E op \in TransferOps : Transfer(op)
  BY <1>4, <1>7 DEF Monitor, Restart, Trade, ReduceShort, EnlargeShort, ReduceBoth,
                    EnlargeBoth, Transfer, DoneIf
<1>8. CASE Crash \/ CutOff \/ \E op \in TransferOps : Delay(op)
  BY <1>3, <1>8 DEF Crash, Crashes, CutOff, Delay, BrokenOff
<1>9. CASE Arrive \/ PriceMove \/ UNCHANGED vars
  BY <1>1, <1>3, <1>9 DEF Arrive, PriceMove, vars
<1> QED
  BY <1>5, <1>6, <1>7, <1>8, <1>9 DEF Next, Work

-----------------------------------------------------------------------------
(* The theorems. *)

THEOREM Invariance == Spec => []Inv
BY OpeningInv, StepInv, PTL DEF Spec

(* Balances stay balances, whatever moves, fails or comes in late: no      *)
(* operation spends more than there is, and what it passes on covers its   *)
(* cost.                                                                   *)
THEOREM Typing == Spec => []TypeOK
<1>1. Inv => TypeOK
  BY DEF Inv
<1> QED
  BY <1>1, Invariance, PTL

(* With samples that are positive, do_reduce_secondary_soft never fails    *)
(* its assertion: no branch of detect_current_state asks it for nothing,   *)
(* and no step between the decision and the operation changes that.        *)
THEOREM ReductionsArePositive ==
  ASSUME SamplesArePositive PROVE Spec => []OrdersArePositive
<1>1. Inv => OrdersArePositive
  BY DEF Inv, Ready, OrdersArePositive, Planned
<1> QED
  BY <1>1, Invariance, PTL

(* A todo!(), an assertion or a division by zero ends the process only at  *)
(* a decision, and only because of what Kraken shows: the decisions are    *)
(* exhausted, and the todo!() of do_wallet_to_e1 is out of reach, because  *)
(* the amount is decided on within a tenth of the wallet, which until then *)
(* only grows.  A crash by an unwrap, which may happen in any operation    *)
(* that unwraps an answer, is none of these panics, and leads to none.     *)
THEOREM OwnPanicsAreAboutKraken == Spec => PanicsAreAboutKraken
<1>1. Inv /\ [Next]_vars
        => [SamplesArePositive /\ plan # Panic /\ plan' = Panic =>
              /\ plan = Idle
              /\ KrakenUnfit(bal) \/ \E f \in Fields : KrakenUnfit(Missing(f))]_vars
  BY PanicStep
<1> QED
  BY <1>1, Invariance, PTL DEF Spec, PanicsAreAboutKraken

(* Detection finds nothing to do only within three ATOM of a full hedge:   *)
(* whatever it passes over is ruled out on the way to "monitoring".        *)
THEOREM HedgedToThreeAtoms == Spec => NearlyHedgedAtRest
<1>1. ASSUME Inv, [Next]_vars, ComesToRest
      PROVE  Abs(bal.short - Held(bal)) < 3 * Atom
  <2>1. PICK sample \in Int : AtRest(bal, price, sample)
    BY <1>1, RestStep
  <2>2. /\ bal.short \in Int /\ bal.eeSec \in Nat /\ bal.staked \in Nat
        /\ bal.unstaked \in Nat /\ bal.unstaked < 100
        /\ ShortStakeDelta(bal) <= 100 /\ ShortStakeDelta(bal) >= -100
    BY <1>1, <2>1, Amounts DEF Inv, Fields, AtRest, Atom
  <2>3. bal.short - Held(bal) = ShortStakeDelta(bal) - 2 * bal.unstaked
    BY <2>2 DEF Held, ShortStakeDelta
  <2>4. ShortStakeDelta(bal) \in Int
    BY <2>2 DEF ShortStakeDelta
  <2> DEFINE d == bal.short - Held(bal)
  <2>5. d \in Int /\ d < 300 /\ d > -300
    BY <2>2, <2>3, <2>4
  <2> HIDE DEF d
  <2>6. Abs(d) < 300
    BY <2>5 DEF Abs
  <2> QED
    BY <2>6 DEF d, Atom
<1>2. Inv /\ [Next]_vars => [ComesToRest => Abs(bal.short - Held(bal)) < 3 * Atom]_vars
  BY <1>1
<1> QED
  BY <1>2, Invariance, PTL DEF Spec, NearlyHedgedAtRest

(* ... and only with little left between dYdX and Kraken: redistribution   *)
(* gives up on nothing that balancing the exchanges would not take up, so  *)
(* each of the three places is below the limit that moves it on.           *)
THEOREM LittleStaysUnderway == Spec => LittleIsIdleAtRest
<1>1. ASSUME Inv, [Next]_vars, ComesToRest
      PROVE  100 * EwTotal(bal, Quotes(price)) <= 301 * MinLimit(Quotes(price))
  <2>1. PICK sample \in Int : AtRest(bal, price, sample)
    BY <1>1, RestStep
  <2> QED
    BY <1>1, <2>1, LittleIsLeft, Amounts DEF Inv, Little
<1>2. Inv /\ [Next]_vars
        => [ComesToRest =>
              100 * EwTotal(bal, Quotes(price)) <= 301 * MinLimit(Quotes(price))]_vars
  BY <1>1
<1> QED
  BY <1>2, Invariance, PTL DEF Spec, LittleIsIdleAtRest
=============================================================================
