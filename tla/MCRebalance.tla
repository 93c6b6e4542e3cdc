----------------------------- MODULE MCRebalance -----------------------------
(***************************************************************************)
(* Balances for the strategy to start from, with ATOM at 10 USDC, so that  *)
(* transferring_coins_min_limit is 50 USDC and ONE_S is worth 10 USDC.     *)
(***************************************************************************)
EXTENDS Rebalance

Portfolio(e1, short, staked, unstaked, eePrim, eeSec, wallet) ==
  [e1Total |-> e1, short |-> short, e2Usdc |-> 0, e2Usd |-> 0,
   staked |-> staked, unstaked |-> unstaked,
   eePrim |-> eePrim, eeSec |-> eeSec, wallet |-> wallet]

Worth(b) == b.e1Total + b.eePrim + b.wallet + OpeningPrice * (b.staked + b.unstaked + b.eeSec)

(* Each account empty, with a trace below its limit, or full; hedged or    *)
(* not; worth 2000 USDC and more, with the margin for the short position.  *)
(* In one, all between dYdX and Kraken is just below what would be moved.  *)
Sound ==
  {Portfolio(50000, 20505, 20000, 0, 4999, 505, 5000)} \cup
  {b \in {Portfolio(e1, h, s, u, ep, es, w) :
            e1 \in {0, 20000, 40000, 150000}, h \in {0, 5000, 16000},
            s \in {200, 4000, 16000}, u \in {0, 60, 3000},
            ep \in {0, 3000, 40000}, es \in {0, 50, 4000},
            w \in {0, 3000, 100000, 250000}} :
     20 * b.e1Total >= b.short * OpeningPrice /\ Worth(b) >= 200000}

(* As the strategy leaves them: a fifth on dYdX, hedged. *)
Hedged(total) ==
  LET atoms == (4 * total) \div (5 * OpeningPrice)
  IN Portfolio(total \div 5, atoms, atoms, 0, 0, 0, 0)

Balanced == {Hedged(500000)}

(* The README's "all tokens in the intermediate wallet". *)
AllInWallet == {Portfolio(0, 0, 0, 0, 0, 0, 200000)}

(* Hedged to half an ATOM, but for 0.9 ATOM that Kraken holds unstaked. *)
WithTrace == {[Hedged(200000) EXCEPT !.short = @ - 50, !.unstaked = 90]}

(* ATOM staked and on Binance, little on dYdX and half an ATOM sold short. *)
BarelyHedged == {Portfolio(2000, 50, 16000, 0, 0, 4000, 0)}

(* A sample 2.3 standard deviations below MaxOrder. *)
LowSamples == {-1000, 20000}
=============================================================================
