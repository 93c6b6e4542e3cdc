------------------------------- MODULE MCByName -------------------------------
(* A small instance of ByName: traces, or a few coins, in the accounts.    *)
EXTENDS ByName

OpeningValue == [c \in Cells |-> CASE c = "unstaked" -> 1050 [] OTHER -> 3000]
=============================================================================
