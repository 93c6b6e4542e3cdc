------------------------------- MODULE Decision -------------------------------
(***************************************************************************)
(* What the strategy decides to do next: detect_current_state in           *)
(* src/src/strategy.rs, as operators over one reading of the balances and  *)
(* of the prices.  The decision is pure; everything the strategy knows of  *)
(* its past is what these balances show.                                   *)
(*                                                                         *)
(* USDC is counted in cents and ATOM in hundredths, and prices in whole    *)
(* USDC, so that hundredths times a price are cents.  Divisions round down *)
(* where the code's decimals keep 28 digits.                               *)
(*                                                                         *)
(* Balances are a record [e1Total, short, e2Usdc, e2Usd, staked, unstaked, *)
(* eePrim, eeSec, wallet]; short is -bal.e1.operational_coins.  Prices are *)
(* a record [e1Buy, e2Sell, eeBuy, eeSell].  e1 is dYdX, e2 Kraken, ee     *)
(* Binance.                                                                *)
(***************************************************************************)
EXTENDS Integers

CONSTANTS
  LowRatio, InitRatio, HighRatio,  \* the strategy's ratios, in percent
  MaxOrder,      \* max_order_usdc, 0 for "the whole amount in one order"
  MaxOrderDev    \* max_order_std_dev_usdc

(* What main asserts of the configuration. *)
ASSUME RatiosAssumption ==
  /\ {LowRatio, InitRatio, HighRatio} \subseteq 0 .. 100
  /\ LowRatio <= InitRatio /\ InitRatio <= HighRatio
ASSUME OrderAssumption == MaxOrder \in Nat /\ MaxOrderDev \in Nat

Atom == 100                  \* ONE_S, OPERATING_COIN_MIN
EeToWalletMin == 50 * 100    \* EE_TO_WALLET_MIN, EE_MIN_PRIMARY_WITHDRAW

Larger(x, y)  == IF x > y THEN x ELSE y
Smaller(x, y) == IF x < y THEN x ELSE y

(* Percentages that stand for commissions and for price changes meanwhile. *)
PlusTolerance(x)   == (x * 11) \div 10       \* * (ONE + TRANSFERS_TOLERANCE)
PlusCommission(x)  == (x * 201) \div 200     \* * (ONE + TRANSFER_COMMISSION)
MinusCommission(x) == (x * 199) \div 200     \* * (ONE - ..._COMMISSION)

Move(op, amount) == [op |-> op, amount |-> amount]

(* "Nothing can be transferred. Continued below." *)
NoMove == Move("none", 0)

(* A division by zero or a failed assertion: the process ends. *)
Panic == Move("panic", 0)

-----------------------------------------------------------------------------
(* Mutant: the last order may exceed what is left. *)
OrderSizeOvershoots(sample, toChange) == IF MaxOrder = 0 THEN toChange ELSE sample

(* Sizes of orders: a sample of a normal distribution around MaxOrder.     *)
OrderSize(sample, toChange) ==
  IF MaxOrder = 0 \/ sample + 2 * MaxOrderDev >= toChange THEN toChange ELSE sample

OrderSizeSec(sample, toChange, price) ==
  Larger(Atom, OrderSize(sample, toChange * price) \div price)

-----------------------------------------------------------------------------
(* What the balances are worth. *)

E2Total(b, q) == b.e2Usdc + b.e2Usd + (b.staked + b.unstaked) * q.e2Sell
EeTotal(b, q) == b.eePrim + b.eeSec * q.e2Sell
EwTotal(b, q) == b.wallet + EeTotal(b, q)
Total(b, q)   == b.e1Total + E2Total(b, q) + EwTotal(b, q)

(* A share of the total that puts x : 100 between dYdX and the rest. *)
Share(b, q, ratio) == (Total(b, q) * ratio) \div (100 + ratio)

ExpectedE1(b, q)    == Share(b, q, InitRatio)
ExpectedE1Low(b, q) == Share(b, q, LowRatio)
ExpectedE2Low(b, q) == (Total(b, q) * 100) \div (100 + HighRatio)

E1Lack(b, q)  == ExpectedE1(b, q) - b.e1Total
E1Delta(b, q) == Smaller(EwTotal(b, q), E1Lack(b, q))
E1DeltaWithTol(b, q) == PlusTolerance(E1Delta(b, q))

(* transferring_coins_min_limit: the greater of 50 USDC and two ATOM. *)
MinLimit(q) == Larger(EeToWalletMin, 2 * Atom * q.eeSell)

(* low_ratio..high_ratio contains part / whole, a half-open range. *)
InRange(part, whole) == LowRatio * whole <= 100 * part /\ 100 * part < HighRatio * whole

(* e1_ex_ratio: dYdX with the wallet against Kraken with Binance. *)
ExRatioLow(b, q) ==
  100 * (b.e1Total + b.wallet) < LowRatio * (E2Total(b, q) + EeTotal(b, q))
ExRatioHigh(b, q) ==
  100 * (b.e1Total + b.wallet) > HighRatio * (E2Total(b, q) + EeTotal(b, q))

-----------------------------------------------------------------------------
(* Funds underway between dYdX and Kraken, as far as it pays to move them. *)

OrZero(condition, amount) == IF condition THEN amount ELSE 0

EePrimTransferable(b) == OrZero(b.eePrim >= EeToWalletMin, MinusCommission(b.eePrim))
EeExchangable(b, q) == OrZero(b.eeSec >= Atom, MinusCommission(b.eeSec * q.eeSell))

EewTransferable(b, q) ==
  LET ee == EePrimTransferable(b) + MinusCommission(EeExchangable(b, q))
  IN b.wallet + OrZero(ee >= EeToWalletMin, ee)

WalletToSec(b, q) ==
  OrZero(b.wallet >= MinLimit(q), MinusCommission(b.wallet \div q.eeBuy))

EeTransferableToSec(b, q) ==
  LET exchangable == WalletToSec(b, q) + MinusCommission(b.eePrim \div q.eeBuy)
  IN OrZero(exchangable >= Atom, exchangable) + b.eeSec

(* Which way the funds were travelling: the direction whose ratio, before  *)
(* they left, lay in the range, if the other's did not.                    *)
FitsE1(b, q) == InRange(b.e1Total + EwTotal(b, q), E2Total(b, q))
FitsE2(b, q) == InRange(b.e1Total, E2Total(b, q) + EwTotal(b, q))
(* Mutant: the earlier versions of the strategy. *)
IsTransferToE2Unknown(b, q) == FALSE

IsTransferToE2(b, q) == FitsE2(b, q) /\ ~FitsE1(b, q)

-----------------------------------------------------------------------------
(* Funds underway are bound for dYdX. *)

(* They do not suffice: all of them go. *)
AllToE1(b, q, sample) ==
  IF b.eeSec >= Atom
  THEN Move("reduce_both", OrderSize(sample, b.eeSec * q.eeSell))
  ELSE IF b.eePrim >= EeToWalletMin THEN Move("ee_to_wallet", b.eePrim)
  ELSE IF b.wallet >= MinLimit(q) THEN Move("wallet_to_e1", b.wallet)
  ELSE NoMove

(* Binance sells enough ATOM, or, once that is done, sends the USDC. *)
PartFromEe(b, q, sample) ==
  LET cover == E1DeltaWithTol(b, q) - b.wallet
      toTransfer == Larger(EeToWalletMin, cover)
      toExchange ==
        IF PlusTolerance(toTransfer) >= b.eeSec * q.eeSell + b.eePrim
        THEN b.eeSec * q.eeSell
        ELSE Larger(toTransfer - b.eePrim, Atom * q.eeSell)
      part == Smaller(toTransfer, b.eePrim)
      rest == b.eePrim - PlusTolerance(part)
  IN IF toExchange > Atom * q.eeSell
     THEN Move("reduce_both", OrderSize(sample, toExchange))
     ELSE IF cover <= 0 THEN Panic
     ELSE Move("ee_to_wallet", IF rest < Atom * q.eeBuy THEN b.eePrim ELSE part)

(* Mutant: not limited to what the wallet holds. *)
PartToE1Unlimited(b, q, sample) ==
  IF b.wallet >= E1Delta(b, q)
  THEN Move("wallet_to_e1", PlusTolerance(E1DeltaWithTol(b, q)))
  ELSE PartFromEe(b, q, sample)

(* They suffice: a part of them goes. *)
PartToE1(b, q, sample) ==
  IF b.wallet >= E1Delta(b, q)
  THEN Move("wallet_to_e1",
            Smaller(b.wallet, PlusTolerance(E1DeltaWithTol(b, q))))
  ELSE PartFromEe(b, q, sample)

ToE1(b, q, sample) ==
  IF EewTransferable(b, q) < E1Delta(b, q)
  THEN AllToE1(b, q, sample) ELSE PartToE1(b, q, sample)

(* Mutant: the wallet is forgotten. *)
ToE2SkipsWallet(b, q, sample) ==
  IF EeTransferableToSec(b, q) < Atom THEN NoMove
  ELSE IF b.eePrim \div q.eeBuy >= Atom
  THEN Move("enlarge_both", OrderSize(sample, b.eePrim))
  ELSE IF b.eeSec >= Atom THEN Move("ee_to_e2", b.eeSec)
  ELSE NoMove

(* Funds underway are bound for Kraken. *)
ToE2(b, q, sample) ==
  IF EeTransferableToSec(b, q) < Atom THEN NoMove
  ELSE IF b.wallet >= MinLimit(q) THEN Move("wallet_to_ee", b.wallet)
  ELSE IF b.eePrim \div q.eeBuy >= Atom
  THEN Move("enlarge_both", OrderSize(sample, b.eePrim))
  ELSE IF b.eeSec >= Atom THEN Move("ee_to_e2", b.eeSec)
  ELSE NoMove

(* The funds underway alone cannot restore the balance, and dYdX has too   *)
(* much: it withdraws, or first closes what the rest could not cover.      *)
FromE1(b, q, sample) ==
  LET excess == -E1Lack(b, q)
      toCancel == b.short * q.e1Buy - PlusTolerance((b.e1Total - excess) * 8)
  IN IF toCancel <= 0 THEN Move("e1_to_wallet", excess)
     ELSE Move("reduce_both",
               OrderSize(sample, Larger(toCancel, PlusTolerance(Atom) * q.e1Buy)))

(* ... or dYdX has too little: the wallet gives, then Binance.             *)
FillE1(b, q, sample) ==
  LET lack == E1Lack(b, q)
      eeDelta == Larger(PlusCommission(lack - b.wallet), EeToWalletMin)
      toConvert == Smaller(b.eeSec * q.eeSell, eeDelta - b.eePrim)
  IN IF b.wallet - lack >= -MinLimit(q)
     THEN Move("wallet_to_e1", PlusTolerance(Smaller(lack, b.wallet)))
     ELSE IF EwTotal(b, q) - lack < -MinLimit(q) THEN NoMove
     ELSE IF eeDelta <= b.eePrim \/ b.eeSec < Atom
     THEN Move("ee_to_wallet", Smaller(eeDelta, b.eePrim))
     ELSE Move("reduce_both", OrderSize(sample, toConvert))

(* Funds underway come first, when there are enough of them. *)
Redistribute(b, q, sample) ==
  IF EewTransferable(b, q) <= MinLimit(q) THEN NoMove
  ELSE IF /\ b.e1Total + EwTotal(b, q) >= ExpectedE1Low(b, q)
          /\ E2Total(b, q) + EwTotal(b, q) >= ExpectedE2Low(b, q)
  THEN IF /\ ~IsTransferToE2(b, q)
          /\ E1Delta(b, q) >= MinLimit(q)
          /\ EewTransferable(b, q) >= MinLimit(q)
       THEN ToE1(b, q, sample) ELSE ToE2(b, q, sample)
  ELSE IF -E1Lack(b, q) > MinLimit(q) THEN FromE1(b, q, sample)
  ELSE IF E1Lack(b, q) > MinLimit(q) THEN FillE1(b, q, sample)
  ELSE NoMove

-----------------------------------------------------------------------------
(* dYdX and Kraken against each other. *)

(* Mutant: not limited to what Kraken holds unstaked. *)
RaiseRatioUnlimited(b, q) ==
  LET delta == PlusTolerance(PlusCommission(PlusCommission(PlusCommission(
                 E1Lack(b, q))))) \div q.eeSell
      toUnstake == delta - (b.unstaked + b.eeSec)
  IN IF 3 * toUnstake < Atom
     THEN Move("e2_to_ee", delta)
     ELSE Move("unstake", Larger(Atom, toUnstake))

(* The ratio is too low: Kraken sends ATOM, or unstakes some to send. *)
RaiseRatio(b, q) ==
  LET delta == PlusTolerance(PlusCommission(PlusCommission(PlusCommission(
                 E1Lack(b, q))))) \div q.eeSell
      toUnstake == delta - (b.unstaked + b.eeSec)
      part == Smaller(delta, b.unstaked)
      toTransfer == IF b.unstaked - PlusTolerance(part) < Atom THEN b.unstaked ELSE part
      atLeast == Larger(Atom, toUnstake)
      fixed == IF b.staked - atLeast < Atom THEN b.staked ELSE atLeast
  IN IF 3 * toUnstake < Atom
     THEN Move("e2_to_ee", toTransfer)
     ELSE Move("unstake", Larger(Atom, fixed))

(* The ratio is too high: dYdX withdraws. *)
LowerRatio(b, q) ==
  LET delta == Larger(MinLimit(q),
                      (100 * b.e1Total - InitRatio * E2Total(b, q)) \div (100 + InitRatio))
  IN Move("e1_to_wallet",
          PlusTolerance(PlusCommission(PlusCommission(PlusCommission(delta)))))

(* short_stake_delta, with the sign of unstaked as the code has it. *)
ShortStakeDelta(b) == b.short - (b.eeSec + b.staked - b.unstaked)

(* Mutant: a short position that is too large stays. *)
KeepHedgeOneSided(b, q, sample) ==
  IF b.unstaked >= Atom THEN Move("stake", b.unstaked)
  ELSE IF ShortStakeDelta(b) < -Atom
  THEN Move("enlarge_short", OrderSizeSec(sample, -ShortStakeDelta(b), q.eeSell))
  ELSE Move("monitoring", 0)

(* The ratio is in the range: stake, and adjust the short position. *)
KeepHedge(b, q, sample) ==
  IF b.e2Usdc >= MinLimit(q) \/ b.e2Usd >= MinLimit(q) THEN Panic
  ELSE IF b.unstaked >= Atom THEN Move("stake", b.unstaked)
  ELSE IF ShortStakeDelta(b) > Atom
  THEN Move("reduce_short", OrderSizeSec(sample, ShortStakeDelta(b), q.eeBuy))
  ELSE IF ShortStakeDelta(b) < -Atom
  THEN Move("enlarge_short", OrderSizeSec(sample, -ShortStakeDelta(b), q.eeSell))
  ELSE Move("monitoring", 0)

BalanceExchanges(b, q, sample) ==
  IF ExRatioLow(b, q) THEN RaiseRatio(b, q)
  ELSE IF ExRatioHigh(b, q) THEN LowerRatio(b, q)
  ELSE KeepHedge(b, q, sample)

(* detect_current_state.  e1_e2_ratio divides by the worth of Kraken. *)
Detect(b, q, sample) ==
  IF E2Total(b, q) = 0 THEN Panic
  ELSE LET first == Redistribute(b, q, sample)
       IN IF first # NoMove THEN first ELSE BalanceExchanges(b, q, sample)
=============================================================================
