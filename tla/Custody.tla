------------------------------- MODULE Custody -------------------------------
(***************************************************************************)
(* What the operations that move money promise, without how: an operation  *)
(* has at most one transfer made, however it ends; money leaves an account *)
(* only for a transfer and comes in only from one, once; and an operation  *)
(* that has asked for a transfer reports success only after it has come    *)
(* in, unless something else has changed a balance it compares.  One that  *)
(* is to move less than the least amount may ask for nothing and report    *)
(* success all the same.  An operation may fail at any time; its transfer  *)
(* then still comes in, on nobody's account.                               *)
(***************************************************************************)
EXTENDS Integers

CONSTANTS
  Accounts,
  Drifting,  \* the accounts that change by themselves as well
  Least      \* the least amount that is worth asking for

VARIABLES
  held,      \* what the accounts hold
  transit,   \* transfers that have left one account and not reached another
  stage,     \* "idle" after a success, "failed", or the stage of an operation
  wanted,    \* how much it is to move
  mine,      \* the id of its transfer, 0 for none
  excused    \* success may be reported regardless

vars == <<held, transit, stage, wanted, mine, excused>>

Init ==
  /\ held \in [Accounts -> Nat] /\ transit = {}
  /\ stage = "idle" /\ wanted = 0 /\ mine = 0 /\ excused \in BOOLEAN

Begin ==
  /\ stage = "idle" /\ stage' = "open"
  /\ wanted' \in Nat /\ mine' = 0 /\ excused' \in BOOLEAN
  /\ UNCHANGED <<held, transit>>

(* The amount is adjusted to what there is. *)
Adjust ==
  /\ stage = "open" /\ wanted' \in Nat
  /\ UNCHANGED <<held, transit, stage, mine, excused>>

(* Success without a transfer: too little to ask for. *)
Skip ==
  /\ stage = "open" /\ stage' = "idle"
  /\ wanted < Least
  /\ UNCHANGED <<held, transit, wanted, mine, excused>>

(* Nothing is left to chance but whether the operation hears of it. *)
Ask ==
  /\ stage = "open"
  /\ \E t \in transit' \ transit, c \in Accounts :
       /\ t.id # 0 /\ \A u \in transit : u.id # t.id
       /\ transit' = transit \cup {t}
       /\ 0 < t.amount /\ t.amount <= held[c]
       /\ held' = [held EXCEPT ![c] = @ - t.amount]
       /\ \/ stage' = "asked" /\ mine' = t.id
          \/ stage' = "failed" /\ mine' = mine
  /\ UNCHANGED <<wanted, excused>>

Arrive ==
  /\ stage = "asked" /\ stage' = "done"
  /\ excused \/ \A t \in transit : t.id # mine
  /\ UNCHANGED <<held, transit, wanted, mine, excused>>

(* The report of an operation that has asked. *)
Succeed ==
  /\ stage = "done" /\ stage' = "idle"
  /\ UNCHANGED <<held, transit, wanted, mine, excused>>

Fail ==
  /\ stage \in {"open", "asked", "done"} /\ stage' = "failed"
  /\ UNCHANGED <<held, transit, wanted, mine, excused>>

(* Nothing is remembered of the failure. *)
Recover ==
  /\ stage = "failed" /\ stage' = "idle"
  /\ UNCHANGED <<held, transit, wanted, mine, excused>>

(* A transfer comes in, all of it or less. *)
Land ==
  \E t \in transit :
    LET come == held'[t.to] - held[t.to]
    IN /\ transit' = transit \ {t}
       /\ 0 < come /\ come <= t.amount
       /\ held' = [held EXCEPT ![t.to] = @ + come]
       /\ excused' \in IF t.id = mine THEN {excused} ELSE {excused, TRUE}
       /\ UNCHANGED <<stage, wanted, mine>>

Drift ==
  /\ \E c \in Drifting : held' = [held EXCEPT ![c] = held'[c]]
  /\ excused => excused'
  /\ UNCHANGED <<transit, stage, wanted, mine>>

Next ==
  \/ Begin \/ Adjust \/ Skip \/ Ask \/ Arrive \/ Succeed
  \/ Fail \/ Recover \/ Land \/ Drift

Spec == Init /\ [][Next]_vars
=============================================================================
