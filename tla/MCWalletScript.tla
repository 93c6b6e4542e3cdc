---------------------------- MODULE MCWalletScript ----------------------------
(***************************************************************************)
(* Small instances of WalletScript: dYdX lacks 10 USDC, and the wallet has *)
(* enough for one payment and the tolerance, which do_wallet_to_e1 then    *)
(* takes as a whole, or for two payments.                                  *)
(***************************************************************************)
EXTENDS WalletScript
=============================================================================
