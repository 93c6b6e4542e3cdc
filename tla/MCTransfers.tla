----------------------------- MODULE MCTransfers -----------------------------
(* Small instances of Transfers: a few coins in every account. *)
EXTENDS Transfers

OpeningValue == [c \in Cells |-> 3000]
=============================================================================
