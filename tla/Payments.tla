------------------------------- MODULE Payments -------------------------------
(***************************************************************************)
(* What the deposits from the wallet promise, without receipts, errors and *)
(* time limits: money leaves the wallet only for an account, by a payment  *)
(* that was asked for, and at most once for each time it was asked for;    *)
(* before the chain each payment has a place, which it may take from       *)
(* another; and success is reported only after a payment like the one      *)
(* asked for, made since it was decided on.  A payment may be lost or      *)
(* refused at any time, and one that is given up may still be made.        *)
(***************************************************************************)
EXTENDS Integers

CONSTANTS
  Accounts,
  Hands     \* who carries a payment to the chain

VARIABLES
  purse,    \* what the wallet holds
  got,      \* what the accounts were paid
  carried,  \* for each hand the payment in it, or none
  before,   \* the payments before the chain, each with its place
  stage,    \* "rest", "asked" or "done"
  wanted,   \* the payment decided on
  since     \* the payments made since then

Payment == [to : Accounts, amount : Nat]

vars == <<purse, got, carried, before, stage, wanted, since>>

Init ==
  /\ purse \in Nat /\ got = [a \in Accounts |-> 0]
  /\ carried = [h \in Hands |-> {}] /\ before = {}
  /\ stage = "rest" /\ wanted \in Payment /\ since = {}

Decide ==
  /\ stage = "rest"
  /\ wanted' \in Payment
  /\ since' \in {{}, since}        \* a new payment, or another amount for it
  /\ UNCHANGED <<purse, got, carried, before, stage>>

Ask ==
  /\ stage = "rest" /\ stage' = "asked"
  /\ \E h \in Hands :
       /\ carried[h] = {}
       /\ carried' = [carried EXCEPT ![h] = {wanted}]
  /\ UNCHANGED <<purse, got, before, wanted, since>>

(* It may take the place of another one.  The answer may be lost. *)
Present(h) ==
  /\ \E x \in before' :
       /\ x.pay \in carried[h]
       /\ before' = {y \in before : y.at # x.at} \cup {x}
  /\ carried' = [carried EXCEPT ![h] = {}]
  /\ UNCHANGED <<purse, got, stage, wanted, since>>

Make ==
  /\ \E x \in before :
       /\ x.pay.amount <= purse
       /\ purse' = purse - x.pay.amount
       /\ got' = [got EXCEPT ![x.pay.to] = @ + x.pay.amount]
       /\ since' = since \cup {x.pay}
       /\ before' = before \ {x}
  /\ UNCHANGED <<carried, stage, wanted>>

(* Reverted or forgotten. *)
Lose ==
  /\ \E x \in before : before' = before \ {x}
  /\ UNCHANGED <<purse, got, carried, stage, wanted, since>>

Succeed ==
  /\ stage = "asked" /\ stage' = "done"
  /\ wanted \in since
  /\ UNCHANGED <<purse, got, carried, before, wanted, since>>

(* Given up, with the payment in hand or left with it. *)
Drop(h) ==
  /\ carried' = [carried EXCEPT ![h] = {}]
  /\ stage' \in {stage, "rest"}
  /\ UNCHANGED <<purse, got, before, wanted, since>>

End ==
  /\ stage' = "rest"
  /\ UNCHANGED <<purse, got, carried, before, wanted, since>>

Next ==
  \/ Decide \/ Ask \/ Make \/ Lose \/ Succeed \/ End
  \/ \E h \in Hands : Present(h) \/ Drop(h)

Spec == Init /\ [][Next]_vars
=============================================================================
