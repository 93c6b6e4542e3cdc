-------------------------- MODULE Transfers_proofs --------------------------
(***************************************************************************)
(* Proofs about Transfers, for every choice of its constants: its type     *)
(* invariant, that an operation that reports success has its own money in  *)
(* and counts exactly the fee as its expense unless something else has     *)
(* changed the balances it compares, and that Transfers implements Custody.*)
(***************************************************************************)
EXTENDS Transfers, TLAPS

(* Every operation moves money between two different balances. *)
LEMMA Route ==
  \A k \in Kinds : /\ From(k) \in Cells /\ To(k) \in Cells
                   /\ From(k) # To(k)
                   /\ Commission(k) \in Nat
                   /\ k \in Withdrawals => To(k) = "wallet"
BY SMT DEF Kinds, Withdrawals, Deposits, Shipments, Stakings, Cells,
           From, To, Commission

(* No operation belongs to two of the four classes. *)
LEMMA Classes ==
  \A k \in Kinds :
    /\ k \in Withdrawals \/ k \in Deposits \/ k \in Shipments \/ k \in Stakings
    /\ k \in Deposits => k \notin Withdrawals
    /\ k \in Shipments => k \notin Withdrawals /\ k \notin Deposits
    /\ k \in Stakings => k \notin Withdrawals /\ k \notin Deposits /\ k \notin Shipments
    /\ k \notin Shipments => Commission(k) = 0
BY SMT DEF Kinds, Withdrawals, Deposits, Shipments, Stakings, Commission

(* A request is never for more than the operation's argument, and for      *)
(* exactly it unless Binance is asked for whole USDC.                      *)
LEMMA RequestedBound ==
  ASSUME amount \in Nat
  PROVE  /\ Requested \in Nat /\ Requested <= amount
         /\ kind # "ee_to_wallet" => Requested = amount
BY SMT DEF Requested, Coin

-----------------------------------------------------------------------------
(* Typing: every balance, amount and counter stays a natural number.  For  *)
(* balances this is that no service gives what it does not hold; for the   *)
(* counters, that the code's guards keep negative expenses out.            *)
LEMMA TypingInit == Init => TypeOK
<1>1. "stake" \in Kinds
  BY DEF Kinds, Stakings
<1>2. Init => disturbed \in BOOLEAN
  BY DEF Init
<1> QED
  BY <1>1, <1>2, OpeningAssumption DEF Init, TypeOK

LEMMA TypingStep == TypeOK /\ [Next]_vars => TypeOK'
<1> SUFFICES ASSUME TypeOK, [Next]_vars PROVE TypeOK'
  OBVIOUS
<1> USE Route DEF TypeOK
<1>1. ASSUME NEW k \in Kinds, NEW a \in Amounts, Start(k, a) PROVE TypeOK'
  <2>1. a \in Nat
    BY AmountsAssumption
  <2>2. Argument(k, a) \in Nat
    BY <2>1 DEF Argument, Larger, Coin
  <2>3. Entry(k) \in Steps
    BY DEF Entry, Steps
  <2> QED
    BY <1>1, <2>2, <2>3 DEF Start, services
<1>2. ASSUME Launch
      PROVE  bal' \in [Cells -> Nat] /\ flying' \subseteq Transfer /\ launched' \in Nat
    /\ outside' \in Nat
  <2>1. Requested \in Nat
    BY RequestedBound
  <2>2. bal[From(kind)] - Requested \in Nat
    BY <2>1, <1>2 DEF Launch
  <2>3. [id |-> launched + 1, to |-> To(kind), amount |-> Requested] \in Transfer
    BY <2>1 DEF Transfer
  <2> QED
    BY <1>2, <2>2, <2>3 DEF Launch
<1>3. ASSUME NEW s \in {"wait", "baseline"}, Accepted(s) PROVE TypeOK'
  BY <1>2, <1>3 DEF Accepted, Goto, Steps, history
<1>4. CASE AnswerLost
  BY <1>2, <1>4 DEF AnswerLost, Goto, locals, history
<1>5. CASE Monitoring \/ Abort \/ Resume \/ Restart \/ UnwrapPanic \/ DepositSettleUnpriced
           \/ StakeSettle
  BY <1>5 DEF Monitoring, Abort, Resume, Restart, UnwrapPanic, DepositSettleUnpriced,
              StakeSettle, Goto, vars, services, locals, history
<1>6. CASE WithdrawCheck
  BY <1>6 DEF WithdrawCheck, Goto, Steps, services, history
<1>7. CASE WithdrawBaseline \/ DepositBaseline \/ ShipCheck \/ ShipBaseline \/ StakeBaseline
  BY <1>7 DEF WithdrawBaseline, DepositBaseline, ShipCheck, ShipBaseline, StakeBaseline,
              Goto, Steps, services, history, Cells
<1>8. CASE WalletToE1Check
  BY <1>8 DEF WalletToE1Check, Goto, Steps, services, history, Cells
<1>9. CASE WithdrawSettle
  BY <1>9 DEF WithdrawSettle, Goto, services, locals, history
<1>10. CASE DepositSettle
  <2> DEFINE spent == Larger((src - bal["wallet"]) - (bal[To(kind)] - base), 0)
  <2>1. spent \in Nat
    BY DEF Larger, Cells
  <2> HIDE DEF spent
  <2>2. expense' = [expense EXCEPT ![kind] = @ + spent]
    BY <1>10 DEF DepositSettle, spent
  <2> QED
    BY <1>10, <2>1, <2>2 DEF DepositSettle, Goto, services, locals, history
<1>11. CASE ShipSettle
  BY <1>11 DEF ShipSettle, Goto, services, locals, history
<1>12. CASE Wait
  BY <1>12 DEF Wait, Goto, Steps, services, history
<1>13. ASSUME NEW t \in flying, NEW fee \in Fees, Credit(t, fee) PROVE TypeOK'
  <2>1. t \in Transfer /\ fee \in Nat
    BY FeesAssumption
  <2>2. t.to \in Cells /\ t.amount - fee \in Nat
    BY <1>13, <2>1 DEF Credit, Transfer
  <2> QED
    BY <1>13, <2>2 DEF Credit, locals, IsOwn, Touches, Running
<1>14. CASE PriceMove
  <2>1. PICK free \in {bal["e1Free"] + Shift, bal["e1Free"] - Shift} :
          free >= 0 /\ bal' = [bal EXCEPT !["e1Free"] = free]
    BY <1>14 DEF PriceMove
  <2>2. free \in Nat
    BY <2>1, ShiftAssumption DEF Cells
  <2>3. bal' \in [Cells -> Nat]
    BY <2>1, <2>2
  <2>4. disturbed' \in BOOLEAN /\ outside' \in Nat
    BY <1>14 DEF PriceMove, Touches, Running
  <2>5. UNCHANGED <<flying, launched, pc, locals, expense, landed>>
    BY <1>14 DEF PriceMove
  <2> QED
    BY <2>3, <2>4, <2>5 DEF locals
<1>15. CASE Reward
  BY <1>15 DEF Reward, locals, Cells, Touches, Running
<1>16. CASE UNCHANGED vars
  BY <1>16 DEF vars, services, locals, history
<1> QED
  BY <1>1, <1>3, <1>4, <1>5, <1>6, <1>7, <1>8, <1>9, <1>10, <1>11, <1>12,
     <1>13, <1>14, <1>15, <1>16
  DEF Next, Progress, WithdrawStep, DepositStep, ShipStep, StakeStep,
      WithdrawRequest, DepositRequest, ShipRequest, StakeRequest

(* TypeOK holds of every reachable state. *)
THEOREM Typing == Spec => []TypeOK
BY TypingInit, TypingStep, PTL DEF Spec

-----------------------------------------------------------------------------
(* The inductive invariant behind OkMeansCredited and NoLostArrival.       *)

(* A transfer is known by its id, and the run's own one goes to the place  *)
(* the run watches.                                                        *)
Ids ==
  /\ own <= launched
  /\ \A t \in flying : 1 <= t.id /\ t.id <= launched
  /\ \A t, u \in flying : t.id = u.id => t = u
  /\ own # 0 => \A t \in flying : t.id = own => t.to = To(kind)

(* A run has no transfer of its own before its request; what has landed is *)
(* no longer on its way.                                                   *)
Ownership ==
  /\ pc = "check" \/ pc = "request" => own = 0
  /\ pc = "baseline" /\ kind \notin Shipments => own = 0
  /\ pc = "wait" => own # 0 /\ amount > 0
  /\ pc = "settle" => own # 0
  /\ pc = "baseline" /\ kind \in Shipments => own # 0 /\ amount > 0
  /\ landed > 0 => own # 0 /\ \A t \in flying : t.id # own

(* Undisturbed, the destination has grown by just what has landed since    *)
(* its baseline; a shipment takes its baseline late, and its baseline      *)
(* includes what had landed before.                                        *)
Growth ==
  /\ pc \in {"request", "wait"} /\ ~disturbed /\ kind \notin Shipments
       => bal[To(kind)] = base + landed
  /\ pc = "wait" /\ ~disturbed /\ kind \in Shipments /\ landed = 0
       => bal[To(kind)] = base
  /\ pc = "settle" /\ ~disturbed /\ amount >= Commission(kind) => landed > 0

IInv == TypeOK /\ Ids /\ Ownership /\ Growth

LEMMA IInvInit == Init => IInv
<1> SUFFICES ASSUME Init PROVE IInv
  OBVIOUS
<1>1. TypeOK
  BY TypingInit
<1>2. Ids /\ Ownership /\ Growth
  BY DEF Init, Ids, Ownership, Growth
<1> QED
  BY <1>1, <1>2 DEF IInv

(* While a run waits without its own money and undisturbed, its loop goes  *)
(* on: the condition of each of the four loops needs the money.            *)
LEMMA ArrivedMeansLanded ==
  ASSUME IInv, pc = "wait", Arrived, ~disturbed, amount >= Commission(kind)
  PROVE  landed > 0
<1> USE DEF IInv, TypeOK, Ownership, Growth
<1>1. To(kind) \in Cells /\ Commission(kind) \in Nat
  BY Route
<1>2. SUFFICES ASSUME landed = 0 PROVE FALSE
  OBVIOUS
<1>3. bal[To(kind)] = base /\ base \in Nat /\ amount \in Nat /\ amount > 0
  BY <1>2
<1>4. CASE kind \in Withdrawals /\ WithdrawArrived
  BY <1>3, <1>4, Route DEF WithdrawArrived
<1>5. CASE kind \in Deposits /\ DepositArrived
  BY <1>3, <1>5 DEF DepositArrived
<1>6. CASE kind \in Shipments /\ ShipArrived
  BY <1>1, <1>3, <1>6 DEF ShipArrived
<1>7. CASE kind \in Stakings /\ StakeArrived
  BY <1>3, <1>7 DEF StakeArrived
<1> QED
  BY <1>4, <1>5, <1>6, <1>7 DEF Arrived

(* A request accepted: the new transfer gets a fresh id, and the balance   *)
(* the run watches is not the one the money leaves.                        *)
LEMMA RequestKeepsIInv ==
  ASSUME IInv, TypeOK', NEW s \in {"wait", "baseline"}, Accepted(s),
         s = "baseline" <=> kind \in Shipments
  PROVE  IInv'
<1> USE DEF IInv, TypeOK, Ids, Ownership, Growth
<1>1. /\ pc = "request" /\ pc' = s /\ own = 0 /\ own' = launched + 1
      /\ launched' = launched + 1
      /\ UNCHANGED <<kind, amount, base, landed, disturbed>>
  BY DEF Accepted, Goto, Launch, history
<1>2. landed = 0
  BY <1>1
<1>3. To(kind) \in Cells /\ From(kind) \in Cells /\ From(kind) # To(kind)
  BY Route
<1>4. bal'[To(kind)] = bal[To(kind)]
  BY <1>3 DEF Accepted, Launch
<1>5. amount > 0
  BY RequestedBound DEF Accepted, Launch
<1> DEFINE new == [id |-> launched + 1, to |-> To(kind), amount |-> Requested]
<1>6. flying' = flying \cup {new}
  BY DEF Accepted, Launch
<1>7. new.id = launched + 1 /\ new.to = To(kind)
  OBVIOUS
<1>8. launched \in Nat /\ \A t \in flying : t.id \in Nat /\ t.id <= launched
  BY DEF Transfer
<1> HIDE DEF new
<1>9. Ids'
  BY <1>1, <1>6, <1>7, <1>8
<1>10. Ownership'
  BY <1>1, <1>2, <1>5, <1>8
<1>11. Growth'
  BY <1>1, <1>2, <1>4
<1> QED
  BY <1>9, <1>10, <1>11

(* A transfer credited: it is the run's own, and counts as landed, or it   *)
(* is another one, and either leaves the watched balance alone or disturbs *)
(* the run.                                                                *)
LEMMA CreditKeepsIInv ==
  ASSUME IInv, TypeOK', NEW t \in flying, NEW fee \in Fees, Credit(t, fee)
  PROVE  IInv'
<1> USE DEF IInv, TypeOK
<1>1. /\ UNCHANGED <<launched, pc, kind, amount, base, own>>
      /\ flying' = flying \ {t}
      /\ bal' = [bal EXCEPT ![t.to] = @ + (t.amount - fee)]
      /\ landed' = IF IsOwn(t) THEN t.amount - fee ELSE landed
      /\ disturbed' = (disturbed \/ (~IsOwn(t) /\ Touches(t.to)))
  BY DEF Credit, locals
<1>2. t.to \in Cells /\ t.amount - fee \in Nat /\ t.amount - fee > 0
  BY FeesAssumption DEF Credit, Transfer
<1>3. To(kind) \in Cells
  BY Route
<1>4. Ids'
  BY <1>1 DEF Ids
<1>5. Ownership'
  BY <1>1, <1>2 DEF Ownership, Ids, IsOwn
<1>6. CASE IsOwn(t)
  <2>1. t.to = To(kind) /\ landed = 0
    BY <1>6 DEF IsOwn, Ids, Ownership
  <2>2. bal'[To(kind)] = bal[To(kind)] + landed' /\ landed' > 0
    BY <1>1, <1>2, <1>3, <1>6, <2>1
  <2>3. disturbed' = disturbed
    BY <1>1, <1>6
  <2>4. Growth'
    BY <1>1, <2>1, <2>2, <2>3 DEF Growth
  <2> QED
    BY <1>4, <1>5, <2>4
<1>7. CASE ~IsOwn(t) /\ disturbed'
  BY <1>4, <1>5, <1>7 DEF Growth
<1>8. CASE ~IsOwn(t) /\ ~disturbed'
  <2>1. ~disturbed /\ ~Touches(t.to) /\ landed' = landed
    BY <1>1, <1>8
  <2>2. pc \in Steps => bal'[To(kind)] = bal[To(kind)]
    BY <1>1, <1>2, <1>3, <2>1 DEF Touches, Running
  <2>3. Growth'
    BY <1>1, <2>1, <2>2 DEF Growth, Steps
  <2> QED
    BY <1>4, <1>5, <2>3
<1> QED
  BY <1>6, <1>7, <1>8

(* A price move or a reward leaves the watched balance alone or disturbs   *)
(* the run.                                                                *)
LEMMA OutsideKeepsIInv ==
  ASSUME IInv, TypeOK', PriceMove \/ Reward
  PROVE  IInv'
<1> USE DEF IInv, TypeOK
<1>1. PICK c \in Cells, v \in Int :
        /\ bal' = [bal EXCEPT ![c] = v]
        /\ disturbed' = (disturbed \/ Touches(c))
  BY ShiftAssumption DEF PriceMove, Reward, Cells
<1>2. UNCHANGED <<flying, launched, pc, locals, expense, landed>>
  BY DEF PriceMove, Reward
<1>3. To(kind) \in Cells
  BY Route
<1>4. Ids' /\ Ownership'
  BY <1>2 DEF Ids, Ownership, locals
<1>5. CASE disturbed'
  BY <1>4, <1>5 DEF Growth
<1>6. CASE ~disturbed'
  <2>1. ~disturbed /\ ~Touches(c)
    BY <1>1, <1>6
  <2>2. pc \in Steps => bal'[To(kind)] = bal[To(kind)]
    BY <1>1, <1>3, <2>1 DEF Touches, Running
  <2>3. Growth'
    BY <1>2, <2>1, <2>2 DEF Growth, Steps, locals
  <2> QED
    BY <1>4, <2>3
<1> QED
  BY <1>5, <1>6

(* Every step keeps the invariant. *)
LEMMA IInvStep == IInv /\ [Next]_vars => IInv'
<1> SUFFICES ASSUME IInv, [Next]_vars PROVE IInv'
  OBVIOUS
<1>0. TypeOK'
  BY TypingStep DEF IInv
<1>t. TypeOK /\ Ids /\ Ownership /\ Growth
  BY DEF IInv
<1>k. To(kind) \in Cells
  BY <1>t, Route DEF TypeOK
<1>1. ASSUME NEW k \in Kinds, NEW a \in Amounts, Start(k, a) PROVE IInv'
  <2>1. /\ pc' \in {"check", "baseline"} /\ own' = 0 /\ landed' = 0
        /\ UNCHANGED <<flying, launched>>
        /\ pc' = "baseline" => kind' \notin Shipments
    BY <1>1, Classes DEF Start, Entry, services, Deposits, Shipments
  <2>2. Ids' /\ Ownership' /\ Growth'
    BY <1>t, <2>1 DEF Ids, Ownership, Growth, TypeOK, Transfer
  <2> QED
    BY <1>0, <2>2 DEF IInv
<1>2. CASE AnswerLost
  <2>1. PICK new : /\ flying' = flying \cup {new} /\ new.id = launched + 1
                   /\ launched' = launched + 1
                   /\ pc = "request" /\ pc' = "paused"
                   /\ UNCHANGED <<kind, own, landed>>
    BY <1>2 DEF AnswerLost, Launch, Goto, locals, history
  <2>2. own = 0 /\ landed = 0
    BY <1>t, <2>1 DEF Ownership, TypeOK
  <2>3. Ids' /\ Ownership' /\ Growth'
    BY <1>t, <2>1, <2>2 DEF Ids, Ownership, Growth, TypeOK, Transfer
  <2> QED
    BY <1>0, <2>3 DEF IInv
<1>3. CASE Abort \/ Resume \/ Restart \/ UnwrapPanic \/ DepositSettleUnpriced
           \/ WithdrawSettle \/ DepositSettle \/ ShipSettle \/ StakeSettle
  <2>1. /\ UNCHANGED <<services, locals, history>>
        /\ pc' \in {"idle", "paused", "down"}
    BY <1>3 DEF Abort, Resume, Restart, UnwrapPanic, DepositSettleUnpriced,
                WithdrawSettle, DepositSettle, ShipSettle, StakeSettle, Goto
  <2>2. Ids' /\ Ownership' /\ Growth'
    BY <1>t, <2>1 DEF Ids, Ownership, Growth, services, locals, history
  <2> QED
    BY <1>0, <2>2 DEF IInv
<1>4. CASE Monitoring \/ UNCHANGED vars
  BY <1>4 DEF IInv, Ids, Ownership, Growth, TypeOK, Monitoring, vars, services,
              locals, history
<1>5. CASE WithdrawCheck \/ WalletToE1Check
  <2>1. /\ pc = "check" /\ pc' \in {"baseline", "idle", "paused", "down"}
        /\ kind \notin Shipments
        /\ UNCHANGED <<flying, launched, kind, own, landed>>
    BY <1>5, <1>t, Classes DEF WithdrawCheck, WalletToE1Check, Goto, services, history,
       TypeOK, Deposits
  <2>2. Ids' /\ Ownership' /\ Growth'
    BY <1>t, <2>1 DEF Ids, Ownership, Growth
  <2> QED
    BY <1>0, <2>2 DEF IInv
<1>6. CASE WithdrawBaseline \/ DepositBaseline \/ StakeBaseline
  <2>0. base' = bal[To(kind)]
    BY <1>6, <1>t, Route DEF WithdrawBaseline, DepositBaseline, StakeBaseline, TypeOK
  <2>1. /\ pc = "baseline" /\ pc' = "request" /\ kind \notin Shipments
        /\ base' = bal[To(kind)]
        /\ UNCHANGED <<services, kind, amount, own, landed, disturbed>>
    BY <1>6, <1>t, <2>0, Classes DEF WithdrawBaseline, DepositBaseline, StakeBaseline,
       Goto, TypeOK, history
  <2>2. own = 0 /\ landed = 0
    BY <1>t, <2>1 DEF Ownership, TypeOK
  <2>3. Ids' /\ Ownership' /\ Growth'
    BY <1>t, <1>k, <2>1, <2>2 DEF Ids, Ownership, Growth, TypeOK, services
  <2> QED
    BY <1>0, <2>3 DEF IInv
<1>7. CASE ShipCheck
  <2>1. /\ pc = "check" /\ pc' = "request" /\ kind \in Shipments
        /\ UNCHANGED <<services, kind, amount, own, landed, disturbed>>
    BY <1>7 DEF ShipCheck, Goto, history
  <2>2. Ids' /\ Ownership' /\ Growth'
    BY <1>t, <2>1 DEF Ids, Ownership, Growth, services
  <2> QED
    BY <1>0, <2>2 DEF IInv
<1>8. CASE ShipBaseline
  <2>1. /\ pc = "baseline" /\ pc' = "wait" /\ kind \in Shipments
        /\ base' = bal[To(kind)]
        /\ UNCHANGED <<services, kind, amount, own, landed, disturbed>>
    BY <1>8 DEF ShipBaseline, Goto, history
  <2>2. Ids' /\ Ownership' /\ Growth'
    BY <1>t, <2>1 DEF Ids, Ownership, Growth, services
  <2> QED
    BY <1>0, <2>2 DEF IInv
<1>9. CASE Wait
  <2>1. /\ pc = "wait" /\ pc' = "settle" /\ Arrived
        /\ UNCHANGED <<services, kind, amount, base, own, landed, disturbed>>
    BY <1>9 DEF Wait, Goto, history
  <2>2. ~disturbed /\ amount >= Commission(kind) => landed > 0
    BY <2>1, ArrivedMeansLanded
  <2>3. Ids' /\ Ownership' /\ Growth'
    BY <1>t, <2>1, <2>2 DEF Ids, Ownership, Growth, services
  <2> QED
    BY <1>0, <2>3 DEF IInv
<1>10. CASE WithdrawRequest \/ DepositRequest \/ StakeRequest
  <2>1. kind \notin Shipments /\ Accepted("wait")
    BY <1>10, <1>t, Classes DEF WithdrawRequest, DepositRequest, StakeRequest, TypeOK
  <2> QED
    BY <1>0, <2>1, RequestKeepsIInv
<1>11. CASE ShipRequest
  BY <1>0, <1>11, RequestKeepsIInv DEF ShipRequest
<1> QED
  BY <1>0, <1>1, <1>2, <1>3, <1>4, <1>5, <1>6, <1>7, <1>8, <1>9, <1>10, <1>11,
     CreditKeepsIInv, OutsideKeepsIInv
  DEF Next, Progress, WithdrawStep, DepositStep, ShipStep, StakeStep

THEOREM Invariance == Spec => []IInv
BY IInvInit, IInvStep, PTL DEF Spec

(* An operation that leaves its polling loop has its own money in, unless  *)
(* something else has changed a balance it compares.                       *)
THEOREM Credited == Spec => []OkMeansCredited
<1>1. IInv => OkMeansCredited
  BY DEF IInv, Ownership, Growth, OkMeansCredited, OwnFlying
<1> QED
  BY <1>1, Invariance, PTL

(* An operation whose own money has come in, with less than a tenth kept   *)
(* back, finds its loop's condition true, shipments excepted.              *)
THEOREM NotLost == Spec => []NoLostArrival
<1>1. ASSUME IInv PROVE NoLostArrival
  <2> SUFFICES ASSUME pc = "wait", kind \notin Shipments, ~disturbed, landed > 0,
                      10 * landed > 9 * amount
               PROVE  Arrived
    BY DEF NoLostArrival
  <2>1. bal[To(kind)] = base + landed /\ base \in Nat /\ landed \in Nat /\ amount \in Nat
    BY <1>1 DEF IInv, Growth, TypeOK
  <2>2. kind \in Kinds
    BY <1>1 DEF IInv, TypeOK
  <2>3. CASE kind \in Withdrawals
    BY <2>1, <2>2, <2>3, Route DEF Arrived, WithdrawArrived
  <2>4. CASE kind \in Deposits
    BY <2>1, <2>4 DEF Arrived, DepositArrived
  <2>5. CASE kind \in Stakings
    BY <2>1, <2>5 DEF Arrived, StakeArrived
  <2> QED
    BY <2>2, <2>3, <2>4, <2>5, Classes
<1> QED
  BY <1>1, Invariance, PTL

-----------------------------------------------------------------------------
(* What the code hands to an expense counter, when it hands over anything. *)
LEMMA CounterSteps ==
  ASSUME TypeOK, [Next]_vars
  PROVE  \/ expense' = expense
         \/ \E spent \in Nat :
              /\ expense' = [expense EXCEPT ![kind] = @ + spent]
              /\ UNCHANGED <<locals, history, bal>> /\ pc = "settle"
              /\ \/ kind \in Withdrawals \cup Shipments
                      /\ spent = (src - bal[From(kind)]) - (seen - base)
                 \/ kind \in Deposits
                      /\ spent = Larger((src - bal["wallet"]) - (bal[To(kind)] - base), 0)
<1> USE Route DEF TypeOK
<1>1. CASE WithdrawSettle \/ ShipSettle
  <2> DEFINE spent == (src - bal[From(kind)]) - (seen - base)
  <2>1. spent \in Int
    OBVIOUS
  <2>2. /\ expense' = IF spent >= 0 THEN [expense EXCEPT ![kind] = @ + spent]
                                    ELSE expense
        /\ UNCHANGED <<locals, history, bal>> /\ pc = "settle"
        /\ kind \in Withdrawals \cup Shipments
    BY <1>1, <2>1 DEF WithdrawSettle, ShipSettle, services
  <2>3. CASE spent >= 0
    <3>1. spent \in Nat
      BY <2>1, <2>3
    <3> QED
      BY <2>2, <2>3, <3>1
  <2>4. CASE ~(spent >= 0)
    BY <2>2, <2>4
  <2> QED
    BY <2>3, <2>4
<1>2. CASE DepositSettle
  <2>1. Larger((src - bal["wallet"]) - (bal[To(kind)] - base), 0) \in Nat
    BY DEF Larger, Cells
  <2> QED
    BY <1>2, <2>1 DEF DepositSettle, services
<1>3. CASE UNCHANGED expense
  BY <1>3
<1> QED
  BY <1>1, <1>2, <1>3
  DEF Next, Progress, WithdrawStep, DepositStep, ShipStep, StakeStep, Start,
      Monitoring, Abort, Resume, Restart, AnswerLost, Accepted, WithdrawCheck,
      UnwrapPanic, WithdrawBaseline, WithdrawRequest, WalletToE1Check,
      DepositBaseline, DepositRequest, DepositSettleUnpriced, ShipCheck, ShipRequest,
      ShipBaseline, StakeBaseline, StakeRequest, StakeSettle, Wait, Credit,
      PriceMove, Reward, vars

(* The expense counters never go down.                                     *)
THEOREM Growing == Spec => CountersOnlyGrow
<1>1. ASSUME TypeOK, [Next]_vars PROVE \A k \in Kinds : expense'[k] >= expense[k]
  BY <1>1, CounterSteps DEF TypeOK
<1> QED
  BY <1>1, Typing, PTL DEF Spec, CountersOnlyGrow

-----------------------------------------------------------------------------
(* The books of an undisturbed run: what has left the source since it was  *)
(* first read, and what the destination has gained since its baseline.     *)

SourceRead ==
  /\ kind \notin Stakings
  /\ \/ pc \in {"request", "wait", "settle"}
     \/ pc = "baseline" /\ kind \in Withdrawals \cup Shipments

Taken == IF own = 0 THEN 0 ELSE Requested

(* A shipment reads its baseline late: the own transfer may be in it.      *)
Accounts ==
  /\ ~disturbed /\ SourceRead => bal[From(kind)] + Taken = src
  /\ pc = "wait" /\ kind \in Shipments /\ ~disturbed
       => bal[To(kind)] \in {base, base + landed}
  /\ pc = "settle" /\ ~disturbed /\ amount >= Commission(kind)
       => seen = bal[To(kind)] /\ seen = base + landed
  /\ own # 0 => \A t \in flying : t.id = own => t.amount = Requested
  /\ landed <= Requested

LEMMA AccountsInit == Init => Accounts
<1> SUFFICES ASSUME Init PROVE Accounts
  OBVIOUS
<1>1. Requested \in Nat
  BY RequestedBound DEF Init
<1> QED
  BY <1>1 DEF Init, Accounts, SourceRead

(* The first step of a run, whatever its amount. *)
LEMMA BeginningAccounts ==
  ASSUME TypeOK', own' = 0, landed' = 0, ~SourceRead', pc' \in {"check", "baseline"}
  PROVE  Accounts'
<1>1. Requested' \in Nat
  <2>1. \A a \in Nat : (a \div Coin) * Coin \in Nat
    BY DEF Coin
  <2> QED
    BY <2>1 DEF Requested, TypeOK
<1> QED
  BY <1>1 DEF Accounts

LEMMA RequestKeepsAccounts ==
  ASSUME IInv, Accounts, NEW s \in {"wait", "baseline"}, Accepted(s),
         s = "baseline" <=> kind \in Shipments
  PROVE  Accounts'
<1> USE DEF IInv, TypeOK
<1>1. /\ pc = "request" /\ pc' = s /\ own = 0 /\ own' = launched + 1
      /\ UNCHANGED <<kind, amount, src, base, landed, disturbed>>
  BY DEF Accepted, Goto, history, Ownership
<1>2. Requested \in Nat /\ Requested' = Requested /\ own' # 0
  BY <1>1, RequestedBound DEF Requested
<1>3. bal'[From(kind)] = bal[From(kind)] - Requested /\ bal[From(kind)] \in Nat
  BY Route DEF Accepted, Launch
<1> DEFINE new == [id |-> launched + 1, to |-> To(kind), amount |-> Requested]
<1>4. flying' = flying \cup {new} /\ new.amount = Requested
  BY DEF Accepted, Launch
<1>5. \A t \in flying : t.id # own'
  BY <1>1 DEF Ids, Transfer
<1> HIDE DEF new
<1>6. \A t \in flying' : t.id = own' => t.amount = Requested
  BY <1>4, <1>5
<1>7. ~disturbed /\ SourceRead' => bal'[From(kind)] + Requested = src
  <2>1. SourceRead' => SourceRead
    BY <1>1 DEF SourceRead
  <2>2. Taken = 0
    BY <1>1 DEF Taken
  <2> QED
    BY <1>3, <1>2, <2>1, <2>2 DEF Accounts
<1>8. ~(pc' = "wait" /\ kind' \in Shipments) /\ pc' # "settle"
  BY <1>1
<1> QED
  BY <1>1, <1>2, <1>6, <1>7, <1>8 DEF Accounts, Taken

LEMMA CreditKeepsAccounts ==
  ASSUME IInv, Accounts, NEW t \in flying, NEW fee \in Fees, Credit(t, fee)
  PROVE  Accounts'
<1> USE DEF IInv, TypeOK
<1>1. /\ UNCHANGED <<pc, kind, amount, src, base, seen, own>>
      /\ flying' = flying \ {t}
      /\ bal' = [bal EXCEPT ![t.to] = @ + (t.amount - fee)]
      /\ landed' = IF IsOwn(t) THEN t.amount - fee ELSE landed
      /\ disturbed' = (disturbed \/ (~IsOwn(t) /\ Touches(t.to)))
  BY DEF Credit, locals
<1>2. /\ t.to \in Cells /\ t.amount \in Nat /\ fee \in Nat
      /\ t.amount - fee > 0 /\ t.amount - fee <= t.amount
  BY FeesAssumption DEF Credit, Transfer
<1>3. To(kind) \in Cells /\ From(kind) \in Cells /\ From(kind) # To(kind)
  BY Route
<1>4. Requested' = Requested /\ Requested \in Nat /\ Taken' = Taken /\ SourceRead' = SourceRead
  BY <1>1, RequestedBound DEF Requested, Taken, SourceRead
<1>5. own' # 0 => \A u \in flying' : u.id = own' => u.amount = Requested
  BY <1>1 DEF Accounts
<1>6. CASE IsOwn(t)
  <2>1. t.to = To(kind) /\ landed = 0 /\ t.amount = Requested /\ own # 0
    BY <1>6 DEF IsOwn, Ids, Ownership, Accounts
  <2>2. landed' = t.amount - fee /\ landed' <= Requested /\ disturbed' = disturbed
    BY <1>1, <1>2, <1>6, <2>1
  <2>3. /\ bal'[From(kind)] = bal[From(kind)]
        /\ bal'[To(kind)] = bal[To(kind)] + landed'
    BY <1>1, <1>2, <1>3, <2>1, <2>2
  <2>4. pc = "settle" /\ ~disturbed => amount < Commission(kind)
    BY <1>3, <2>1, Route DEF Growth
  <2>5. pc = "wait" /\ kind \in Shipments /\ ~disturbed => bal'[To(kind)] = base + landed'
    BY <2>1, <2>3 DEF Growth
  <2>6. amount < Commission(kind) => ~(amount >= Commission(kind))
    BY Route
  <2> QED
    BY <1>1, <1>4, <1>5, <2>2, <2>3, <2>4, <2>5, <2>6 DEF Accounts
<1>7. CASE ~IsOwn(t)
  <2>1. landed' = landed /\ landed' <= Requested'
    BY <1>1, <1>4, <1>7 DEF Accounts
  <2>2. ~disturbed' /\ pc \in Steps
          => /\ ~disturbed /\ bal'[From(kind)] = bal[From(kind)] /\ bal'[To(kind)] = bal[To(kind)]
    BY <1>1, <1>2, <1>3, <1>7 DEF Touches, Running
  <2>3. SourceRead => pc \in Steps
    BY DEF SourceRead, Steps
  <2>4. "wait" \in Steps /\ "settle" \in Steps
    BY DEF Steps
  <2> QED
    BY <1>1, <1>4, <1>5, <2>1, <2>2, <2>3, <2>4 DEF Accounts
<1> QED
  BY <1>6, <1>7

LEMMA OutsideKeepsAccounts ==
  ASSUME IInv, Accounts, PriceMove \/ Reward
  PROVE  Accounts'
<1> USE DEF IInv, TypeOK
<1>1. PICK c \in Cells, v \in Int :
        /\ bal' = [bal EXCEPT ![c] = v]
        /\ disturbed' = (disturbed \/ Touches(c))
  BY ShiftAssumption DEF PriceMove, Reward, Cells
<1>2. UNCHANGED <<flying, pc, kind, amount, src, base, seen, own, landed>>
  BY DEF PriceMove, Reward, locals
<1>3. To(kind) \in Cells /\ From(kind) \in Cells
  BY Route
<1>4. Requested' = Requested /\ Taken' = Taken /\ SourceRead' = SourceRead
  BY <1>2 DEF Requested, Taken, SourceRead
<1>5. ~disturbed' /\ pc \in Steps
        => /\ ~disturbed /\ bal'[From(kind)] = bal[From(kind)] /\ bal'[To(kind)] = bal[To(kind)]
  BY <1>1, <1>3 DEF Touches, Running
<1>6. (SourceRead => pc \in Steps) /\ "wait" \in Steps /\ "settle" \in Steps
  BY DEF SourceRead, Steps
<1> QED
  BY <1>2, <1>4, <1>5, <1>6 DEF Accounts

(* The loop ends with the own transfer in, and all of it in the reading. *)
LEMMA WaitKeepsAccounts ==
  ASSUME IInv, Accounts, Wait
  PROVE  Accounts'
<1> USE DEF IInv, TypeOK
<1>1. /\ pc = "wait" /\ pc' = "settle" /\ Arrived /\ seen' = bal[To(kind)]
      /\ UNCHANGED <<bal, flying, kind, amount, src, base, own, landed, disturbed>>
  BY DEF Wait, Goto, services, history
<1>2. Requested' = Requested /\ Taken' = Taken /\ (SourceRead' => SourceRead)
  BY <1>1 DEF Requested, Taken, SourceRead
<1>3. ~disturbed /\ amount >= Commission(kind) => bal[To(kind)] = base + landed
  <2> SUFFICES ASSUME ~disturbed, amount >= Commission(kind)
               PROVE  bal[To(kind)] = base + landed
    OBVIOUS
  <2>1. CASE kind \notin Shipments
    BY <1>1, <2>1 DEF Growth
  <2>2. CASE kind \in Shipments
    <3>1. ShipArrived
      BY <1>1, <2>2, Classes DEF Arrived
    <3>2. bal[To(kind)] # base
      BY <3>1, Route DEF ShipArrived
    <3> QED
      BY <1>1, <2>2, <3>2 DEF Accounts
  <2> QED
    BY <2>1, <2>2
<1> QED
  BY <1>1, <1>2, <1>3 DEF Accounts

LEMMA AccountsStep == IInv /\ IInv' /\ Accounts /\ [Next]_vars => Accounts'
<1> SUFFICES ASSUME IInv, TypeOK', Accounts, [Next]_vars PROVE Accounts'
  BY DEF IInv
<1>k. kind \in Kinds /\ amount \in Nat
  BY DEF IInv, TypeOK
<1>r. Requested \in Nat
  BY <1>k, RequestedBound
<1>1. ASSUME NEW k \in Kinds, NEW a \in Amounts, Start(k, a) PROVE Accounts'
  <2>1. /\ pc' \in {"check", "baseline"} /\ own' = 0 /\ landed' = 0 /\ kind' = k
        /\ pc' = "baseline" => k = "wallet_to_ee" \/ k \in Stakings
    BY <1>1 DEF Start, Entry
  <2>2. ~SourceRead'
    BY <2>1, Classes DEF SourceRead, Deposits
  <2> QED
    BY <2>1, <2>2, BeginningAccounts
<1>2. ASSUME pc' \in {"idle", "paused", "down"}, UNCHANGED <<kind, amount, own, landed>>,
             flying' \subseteq flying \/ own = 0
      PROVE  Accounts'
  <2>1. Requested' = Requested /\ ~SourceRead'
    BY <1>2 DEF Requested, SourceRead
  <2> QED
    BY <1>2, <2>1 DEF Accounts
<1>3. CASE AnswerLost
  <2>1. pc = "request" /\ own = 0
    BY <1>3 DEF AnswerLost, IInv, Ownership
  <2> QED
    BY <1>2, <1>3, <2>1 DEF AnswerLost, Goto, locals, history
<1>4. CASE Abort \/ Resume \/ Restart \/ UnwrapPanic \/ DepositSettleUnpriced
           \/ WithdrawSettle \/ DepositSettle \/ ShipSettle \/ StakeSettle
  BY <1>2, <1>4 DEF Abort, Resume, Restart, UnwrapPanic, DepositSettleUnpriced,
     WithdrawSettle, DepositSettle, ShipSettle, StakeSettle, Goto, services, locals, history
<1>5. CASE Monitoring \/ UNCHANGED vars
  BY <1>5 DEF Accounts, SourceRead, Taken, Requested, Monitoring, vars, services, locals, history
<1>6. CASE WithdrawCheck \/ ShipCheck
  <2>1. /\ pc = "check" /\ src' = bal[From(kind)]
        /\ pc' \in {"baseline", "request", "idle", "paused"}
        /\ UNCHANGED <<bal, flying, kind, amount, own, landed>>
    BY <1>6 DEF WithdrawCheck, ShipCheck, Goto, services, history
  <2>2. own = 0 /\ Requested' = Requested
    BY <2>1 DEF IInv, Ownership, Requested
  <2>3. bal[From(kind)] \in Nat
    BY Route DEF IInv, TypeOK
  <2> QED
    BY <2>1, <2>2, <2>3 DEF Accounts, Taken
<1>7. CASE WalletToE1Check
  <2>1. /\ pc = "check" /\ pc' \in {"baseline", "down"} /\ kind' = kind /\ kind = "wallet_to_e1"
        /\ UNCHANGED <<own, landed>>
    BY <1>7 DEF WalletToE1Check, Goto, history
  <2>2. own = 0 /\ landed = 0
    BY <2>1 DEF IInv, Ownership, TypeOK
  <2>3. ~SourceRead'
    BY <2>1, <1>k, Classes DEF SourceRead, Deposits
  <2>4. CASE pc' = "baseline"
    BY <2>1, <2>2, <2>3, <2>4, BeginningAccounts
  <2>5. CASE pc' = "down"
    <3>1. Requested' \in Nat
      BY <2>1 DEF Requested, TypeOK
    <3> QED
      BY <2>1, <2>2, <2>3, <2>5, <3>1 DEF Accounts
  <2> QED
    BY <2>1, <2>4, <2>5
<1>8. CASE WithdrawBaseline \/ DepositBaseline \/ StakeBaseline
  <2>1. /\ pc = "baseline" /\ pc' = "request" /\ kind \notin Shipments
        /\ UNCHANGED <<bal, flying, kind, amount, own, landed, disturbed>>
        /\ \/ kind \in Stakings
           \/ kind \in Withdrawals /\ src' = src
           \/ kind \in Deposits /\ src' = bal[From(kind)]
    BY <1>8, <1>k, Classes DEF WithdrawBaseline, DepositBaseline, StakeBaseline, Goto,
       services, history, From, Deposits
  <2>2. own = 0 /\ Requested' = Requested /\ Taken = 0 /\ Taken' = 0
    BY <2>1 DEF IInv, Ownership, Requested, Taken
  <2>3. bal[From(kind)] \in Nat
    BY Route DEF IInv, TypeOK
  <2>4. ~disturbed /\ SourceRead' => bal[From(kind)] = src'
    BY <1>k, <2>1, <2>2, <2>3, Classes DEF SourceRead, Accounts
  <2> QED
    BY <2>1, <2>2, <2>3, <2>4 DEF Accounts
<1>9. CASE ShipBaseline
  <2>1. /\ pc = "baseline" /\ pc' = "wait" /\ kind \in Shipments /\ base' = bal[To(kind)]
        /\ UNCHANGED <<bal, flying, kind, amount, src, own, landed, disturbed>>
    BY <1>9 DEF ShipBaseline, Goto, services, history
  <2>2. Requested' = Requested /\ Taken' = Taken /\ (SourceRead' => SourceRead)
    BY <2>1 DEF Requested, Taken, SourceRead
  <2> QED
    BY <2>1, <2>2 DEF Accounts
<1>10. CASE WithdrawRequest \/ DepositRequest \/ StakeRequest
  <2>1. kind \notin Shipments /\ Accepted("wait")
    BY <1>10, <1>k, Classes DEF WithdrawRequest, DepositRequest, StakeRequest
  <2> QED
    BY <2>1, RequestKeepsAccounts
<1>11. CASE ShipRequest
  BY <1>11, RequestKeepsAccounts DEF ShipRequest
<1> QED
  BY <1>1, <1>3, <1>4, <1>5, <1>6, <1>7, <1>8, <1>9, <1>10, <1>11,
     WaitKeepsAccounts, CreditKeepsAccounts, OutsideKeepsAccounts
  DEF Next, Progress, WithdrawStep, DepositStep, ShipStep, StakeStep

(* What is added to a counter is what the service kept back.               *)
LEMMA FeeSteps ==
  ASSUME IInv, Accounts, [Next]_vars, expense' # expense, ~disturbed,
         ~(amount < Commission(kind))
  PROVE  expense'[kind] - expense[kind] = Requested - landed
<1> USE DEF IInv, TypeOK
<1>1. PICK spent \in Nat :
        /\ expense' = [expense EXCEPT ![kind] = @ + spent]
        /\ UNCHANGED <<locals, history, bal>> /\ pc = "settle"
        /\ \/ kind \in Withdrawals \cup Shipments
                /\ spent = (src - bal[From(kind)]) - (seen - base)
           \/ kind \in Deposits
                /\ spent = Larger((src - bal["wallet"]) - (bal[To(kind)] - base), 0)
  BY CounterSteps
<1>2. expense'[kind] - expense[kind] = spent
  BY <1>1
<1>3. /\ amount >= Commission(kind) /\ bal[From(kind)] \in Nat /\ bal[To(kind)] \in Nat
      /\ Requested \in Nat
  BY Route, RequestedBound
<1>4. landed > 0 /\ seen = bal[To(kind)] /\ seen = base + landed /\ landed <= Requested
  BY <1>1, <1>3 DEF Growth, Accounts
<1>5. own # 0 /\ kind \notin Stakings
  BY <1>1, <1>4, Classes DEF Ownership
<1>6. src - bal[From(kind)] = Requested
  BY <1>1, <1>3, <1>5 DEF Accounts, SourceRead, Taken
<1>7. kind \in Deposits => From(kind) = "wallet"
  BY DEF From, Deposits
<1> QED
  BY <1>1, <1>2, <1>3, <1>4, <1>6, <1>7 DEF Larger

(* The expense an undisturbed run records is what the service kept back of *)
(* its own transfer, for all amounts and fees.                             *)
THEOREM ExactExpense == Spec => ExpenseIsTheFee
<1>1. IInv /\ Accounts /\ [Next]_vars
        => [expense' # expense /\ ~disturbed =>
              \/ amount < Commission(kind)
              \/ expense'[kind] - expense[kind] = Requested - landed]_vars
  BY FeeSteps
<1> QED
  BY <1>1, AccountsInit, AccountsStep, Invariance, PTL DEF Spec, ExpenseIsTheFee

-----------------------------------------------------------------------------
(* Transfers implements Custody. *)

LEMMA PromiseInit == Init => Promise!Init
<1> SUFFICES ASSUME Init PROVE Promise!Init
  OBVIOUS
<1>1. Stage = "idle"
  BY DEF Init, Stage, Running, Steps
<1>2. (disturbed \/ amount < Commission(kind)) \in BOOLEAN
  OBVIOUS
<1> QED
  BY <1>1, <1>2, OpeningAssumption DEF Init, Promise!Init

(* A request that is accepted, heard of or not. *)
LEMMA LaunchIsAsk ==
  ASSUME IInv, pc = "request", Launch, UNCHANGED <<kind, amount, disturbed>>,
         \/ pc' \in {"wait", "baseline"} /\ own' = launched + 1
         \/ pc' = "paused" /\ own' = own
  PROVE  Promise!Ask
<1> USE DEF IInv, TypeOK
<1> DEFINE t == [id |-> launched + 1, to |-> To(kind), amount |-> Requested]
<1>1. /\ Requested \in Nat /\ Requested > 0 /\ Requested <= bal[From(kind)]
      /\ bal' = [bal EXCEPT ![From(kind)] = @ - Requested]
      /\ flying' = flying \cup {t} /\ From(kind) \in Cells
  BY RequestedBound, Route DEF Launch
<1>2. t.id # 0 /\ \A u \in flying : u.id # t.id
  BY DEF Ids, Transfer
<1>3. t \in flying' \ flying
  BY <1>1, <1>2
<1>4. own = 0 /\ Stage = "open"
  BY DEF Ownership, Stage, Running, Steps
<1>5. \/ Stage' = "asked" /\ own' = t.id
      \/ Stage' = "failed" /\ own' = own
  BY DEF Stage, Running, Steps
<1>6. UNCHANGED (disturbed \/ amount < Commission(kind))
  OBVIOUS
<1>7. t.amount = Requested
  OBVIOUS
<1> HIDE DEF t
<1> QED
  BY <1>1, <1>2, <1>3, <1>4, <1>5, <1>6, <1>7 DEF Promise!Ask

(* A transfer that is credited, and a balance that changes by itself. *)
LEMMA CreditIsLand ==
  ASSUME IInv, NEW t \in flying, NEW fee \in Fees, Credit(t, fee)
  PROVE  Promise!Land
<1> USE DEF IInv, TypeOK
<1>1. t \in Transfer /\ fee \in Nat /\ fee < t.amount
  BY FeesAssumption DEF Credit
<1>2. /\ bal' = [bal EXCEPT ![t.to] = @ + (t.amount - fee)]
      /\ flying' = flying \ {t} /\ UNCHANGED <<pc, locals>>
      /\ disturbed' = (disturbed \/ (~IsOwn(t) /\ Touches(t.to)))
  BY DEF Credit
<1>3. t.to \in Cells /\ bal[t.to] \in Nat /\ t.amount \in Nat
  BY <1>1 DEF Transfer
<1> DEFINE come == bal'[t.to] - bal[t.to]
<1>4. come = t.amount - fee
  BY <1>1, <1>2, <1>3
<1>5. 0 < come /\ come <= t.amount /\ bal' = [bal EXCEPT ![t.to] = @ + come]
  <2>1. 0 < t.amount - fee /\ t.amount - fee <= t.amount
    BY <1>1, <1>3
  <2> HIDE DEF come
  <2>2. bal' = [bal EXCEPT ![t.to] = @ + come]
    BY <1>2, <1>4
  <2> QED
    BY <1>4, <2>1, <2>2
<1>6. Stage' = Stage /\ own' = own /\ amount' = amount
  BY <1>2 DEF Stage, Running, locals
<1>7. t.id = own => ~(~IsOwn(t) /\ Touches(t.to))
  <2>1. t.id # 0
    BY DEF Ids
  <2> QED
    BY <2>1 DEF IsOwn, Touches
<1> DEFINE excused == disturbed \/ amount < Commission(kind)
<1>8. excused' \in IF t.id = own THEN {excused} ELSE {excused, TRUE}
  <2>1. amount' = amount /\ kind' = kind
    BY <1>2 DEF locals
  <2>2. CASE t.id = own
    <3>1. disturbed' = disturbed
      BY <1>2, <1>7, <2>2
    <3> QED
      BY <2>1, <2>2, <3>1
  <2>3. CASE t.id # own
    <3>1. excused => excused'
      BY <1>2, <2>1
    <3>2. excused \in BOOLEAN /\ excused' \in BOOLEAN
      OBVIOUS
    <3>3. excused' = excused \/ excused' = TRUE
      BY <3>1, <3>2
    <3> QED
      BY <2>3, <3>3
  <2> QED
    BY <2>2, <2>3
<1> HIDE DEF come
<1> QED
  BY <1>2, <1>5, <1>6, <1>8 DEF Promise!Land, come

LEMMA OutsideIsDrift ==
  ASSUME IInv, PriceMove \/ Reward
  PROVE  Promise!Drift
<1> USE DEF IInv, TypeOK
<1>1. PICK c \in {"e1Free", "staked"} : \E v : bal' = [bal EXCEPT ![c] = v]
  BY DEF PriceMove, Reward
<1>2. bal' = [bal EXCEPT ![c] = bal'[c]]
  BY <1>1 DEF Cells
<1>3. UNCHANGED <<flying, pc, locals>> /\ (disturbed => disturbed')
  BY DEF PriceMove, Reward
<1>4. Stage' = Stage /\ own' = own
  BY <1>3 DEF Stage, Running, locals
<1>5. (disturbed \/ amount < Commission(kind)) => (disturbed \/ amount < Commission(kind))'
  BY <1>3 DEF locals
<1>6. amount' = amount
  BY <1>3 DEF locals
<1> QED
  BY <1>2, <1>3, <1>4, <1>5, <1>6 DEF Promise!Drift

(* Steps of the program alone end an operation or are of no account; only  *)
(* one that has its money in, or has asked for none because there was too  *)
(* little to ask for, ends with a success.                                 *)
LEMMA LocalSteps ==
  ASSUME IInv, UNCHANGED <<bal, flying, kind, amount, own, disturbed>>, Running,
         \/ pc' \in {"paused", "down"}
         \/ pc = "settle" /\ pc' = "idle"
         \/ pc = "check" /\ pc' = "idle" /\ amount < WithdrawalMin
         \/ pc # "settle" /\ pc' \in Steps \ {"settle"}
  PROVE  Promise!Next \/ UNCHANGED Promise!vars
<1> USE DEF IInv
<1>1. UNCHANGED (disturbed \/ amount < Commission(kind))
  OBVIOUS
<1>2. CASE pc' \in {"paused", "down"}
  <2>1. Stage \in {"open", "asked", "done"} /\ Stage' = "failed"
    BY <1>2 DEF Stage, Running, Steps
  <2> QED
    BY <1>1, <2>1 DEF Promise!Fail, Promise!Next
<1>3. CASE pc = "settle" /\ pc' = "idle"
  <2>1. Stage = "done" /\ Stage' = "idle"
    BY <1>3 DEF Ownership, Stage, Running, Steps
  <2> QED
    BY <1>1, <2>1 DEF Promise!Succeed, Promise!Next
<1>4. CASE pc = "check" /\ pc' = "idle" /\ amount < WithdrawalMin
  <2>1. Stage = "open" /\ Stage' = "idle"
    BY <1>4 DEF Ownership, Stage, Running, Steps
  <2> QED
    BY <1>1, <1>4, <2>1 DEF Promise!Skip, Promise!Next
<1>5. CASE pc # "settle" /\ pc' \in Steps \ {"settle"}
  <2>1. Stage' = Stage
    BY <1>5 DEF Stage, Running, Steps
  <2> QED
    BY <1>1, <2>1 DEF Promise!vars
<1> QED
  BY <1>2, <1>3, <1>4, <1>5

LEMMA PromiseStep == IInv /\ IInv' /\ [Next]_vars => [Promise!Next]_(Promise!vars)
<1> SUFFICES ASSUME IInv, IInv', [Next]_vars
             PROVE  Promise!Next \/ UNCHANGED Promise!vars
  OBVIOUS
<1> USE DEF IInv
<1>1. ASSUME NEW k \in Kinds, NEW a \in Amounts, Start(k, a) PROVE Promise!Begin
  <2>1. Stage = "idle" /\ Stage' = "open"
    BY <1>1 DEF Start, Stage, Running, Steps, Entry
  <2>2. (disturbed \/ amount < Commission(kind))' \in BOOLEAN /\ amount' \in Nat
    BY DEF TypeOK
  <2> QED
    BY <1>1, <2>1, <2>2 DEF Start, services, Promise!Begin
<1>2. CASE WithdrawRequest \/ DepositRequest \/ ShipRequest \/ StakeRequest \/ AnswerLost
  <2>1. /\ pc = "request" /\ Launch /\ UNCHANGED <<kind, amount, disturbed>>
        /\ \/ pc' \in {"wait", "baseline"} /\ own' = launched + 1
           \/ pc' = "paused" /\ own' = own
    BY <1>2 DEF WithdrawRequest, DepositRequest, ShipRequest, StakeRequest, AnswerLost,
                Accepted, Goto, history, locals
  <2> QED
    BY <2>1, LaunchIsAsk DEF Promise!Next
<1>3. ASSUME NEW t \in flying, NEW fee \in Fees, Credit(t, fee) PROVE Promise!Next
  BY <1>3, CreditIsLand DEF Promise!Next
<1>4. CASE PriceMove \/ Reward
  BY <1>4, OutsideIsDrift DEF Promise!Next
<1>5. CASE Wait
  <2>1. /\ pc = "wait" /\ pc' = "settle" /\ Arrived
        /\ UNCHANGED <<bal, flying, kind, amount, own, disturbed>>
    BY <1>5 DEF Wait, Goto, services, history
  <2>2. own # 0
    BY <2>1 DEF Ownership
  <2>3. Stage = "asked" /\ Stage' = "done"
    BY <2>1, <2>2 DEF Stage, Running, Steps
  <2>4. amount \in Nat /\ Commission(kind) \in Nat
    BY Route DEF TypeOK
  <2>5. disturbed \/ amount < Commission(kind) \/ \A t \in flying : t.id # own
    <3> SUFFICES ASSUME ~disturbed, ~(amount < Commission(kind))
                 PROVE  \A t \in flying : t.id # own
      OBVIOUS
    <3>1. landed > 0
      BY <2>1, <2>4, ArrivedMeansLanded
    <3> QED
      BY <3>1 DEF Ownership
  <2> QED
    BY <2>1, <2>3, <2>5 DEF Promise!Arrive, Promise!Next
<1>6. CASE UNCHANGED vars \/ Monitoring
  <2>1. UNCHANGED <<bal, flying, own, disturbed, amount, kind, pc>>
    BY <1>6 DEF vars, Monitoring, services, locals, history
  <2>2. Stage' = Stage
    BY <2>1 DEF Stage, Running
  <2> QED
    BY <2>1, <2>2 DEF Promise!vars
<1>7. CASE Resume \/ Restart
  <2>1. UNCHANGED <<bal, flying, own, disturbed, amount, kind>>
    BY <1>7 DEF Resume, Restart, services, locals, history
  <2>2. Stage = "failed" /\ Stage' = "idle"
    BY <1>7 DEF Resume, Restart, Goto, Stage, Running, Steps
  <2> QED
    BY <2>1, <2>2 DEF Promise!Recover, Promise!Next
<1>8. CASE WalletToE1Check
  <2>1. kind = "wallet_to_e1" /\ Commission(kind) = 0 /\ amount \in Nat /\ amount' \in Nat
    BY <1>8 DEF WalletToE1Check, Commission, Deposits, TypeOK
  <2>2. /\ UNCHANGED <<bal, flying>> /\ own' = own /\ disturbed' = disturbed /\ kind' = kind
        /\ Running /\ pc = "check"
        /\ pc' = "baseline" \/ (pc' = "down" /\ amount' = amount)
    BY <1>8 DEF WalletToE1Check, Goto, services, history, Running, Steps
  <2>3. CASE pc' = "down" /\ amount' = amount
    BY <2>2, <2>3, LocalSteps
  <2>4. CASE pc' = "baseline"
    <3>1. Stage = "open" /\ Stage' = "open"
      BY <2>2, <2>4 DEF Ownership, Stage, Running, Steps
    <3>2. UNCHANGED (disturbed \/ amount < Commission(kind))
      BY <2>1, <2>2
    <3> QED
      BY <2>1, <2>2, <3>1, <3>2 DEF Promise!Adjust, Promise!Next
  <2> QED
    BY <2>2, <2>3, <2>4
<1>9. CASE \/ WithdrawCheck \/ WithdrawBaseline \/ DepositBaseline \/ ShipCheck
           \/ ShipBaseline \/ StakeBaseline
  <2>1. /\ UNCHANGED <<bal, flying, amount, kind, own, disturbed>>
        /\ pc \in Steps \ {"settle"}
        /\ \/ pc' \in {"paused", "baseline", "request", "wait"}
           \/ pc = "check" /\ pc' = "idle" /\ amount < WithdrawalMin
    BY <1>9 DEF WithdrawCheck, WithdrawBaseline, DepositBaseline, ShipCheck, ShipBaseline,
                StakeBaseline, Goto, services, history, Steps
  <2> QED
    BY <2>1, LocalSteps DEF Running, Steps
<1>10. CASE \/ WithdrawSettle \/ DepositSettle \/ ShipSettle \/ StakeSettle
            \/ DepositSettleUnpriced \/ Abort \/ UnwrapPanic
  <2>1. /\ UNCHANGED <<bal, flying, amount, kind, own, disturbed>>
        /\ pc \in Steps
        /\ pc' \in {"paused", "down"} \/ (pc = "settle" /\ pc' = "idle")
    BY <1>10 DEF WithdrawSettle, DepositSettle, ShipSettle, StakeSettle, DepositSettleUnpriced,
                 Abort, UnwrapPanic, Goto, services, locals, history, Steps, Running
  <2> QED
    BY <2>1, LocalSteps DEF Running
<1> QED
  BY <1>1, <1>2, <1>3, <1>4, <1>5, <1>6, <1>7, <1>8, <1>9, <1>10
  DEF Next, Progress, WithdrawStep, DepositStep, ShipStep, StakeStep, Promise!Next

(* The operations keep the promise of Custody: one transfer at most,       *)
(* credited once; success after a request only when its transfer has come  *)
(* in; and success without a request only of too small an amount.          *)
THEOREM Implementation == Spec => KeepsCustody
BY PromiseInit, PromiseStep, Invariance, PTL DEF Spec, KeepsCustody, Promise!Spec
=============================================================================
