------------------------------- MODULE MCOrders -------------------------------
(***************************************************************************)
(* Balances for the orders to start from, with ATOM at 10 USDC.            *)
(***************************************************************************)
EXTENDS Orders

Account(e1, short, staked, eePrim, eeSec) ==
  [e1Total |-> e1, short |-> short, e2Usdc |-> 0, e2Usd |-> 0,
   staked |-> staked, unstaked |-> 0, eePrim |-> eePrim, eeSec |-> eeSec,
   wallet |-> 0]

(* ATOM short and held: as much, less, or more, with some of it on Binance *)
(* and remainders below one ATOM on either exchange; USDC on Binance for   *)
(* one ATOM, until the price rises, when the order for it lacks funds; 2.18*)
(* ATOM on dYdX, or on Binance, of which a reduction by 1.19 leaves just   *)
(* less than one; and hardly any collateral for 1.5 ATOM to buy.           *)
Varied == {Account(50000, 2000, 1500, 0, 500), Account(50000, 1500, 1700, 0, 300),
           Account(50000, 2500, 1200, 0, 800), Account(50000, 2000, 1700, 1003, 300),
           Account(1900, 850, 0, 1500, 799), Account(50000, 105, 0, 0, 105),
           Account(50000, 5, 5, 0, 0), Account(50000, 218, 268, 0, 250),
           Account(50000, 318, 0, 0, 218), Account(5150, 5000, 5000, 1500, 0)}

(* Twice as much is short as is held. *)
Overhedged == {Account(50000, 2000, 800, 0, 0)}
=============================================================================
