----------------------------- MODULE ByName_proofs -----------------------------
(***************************************************************************)
(* The theorems about Transfers carry over to runs started by name: the    *)
(* only new step keeps the invariant and begins an operation.  An action   *)
(* that reads what it has refreshed moves all that its source holds.       *)
(***************************************************************************)
EXTENDS ByName, Transfers_proofs

(* The amount looked up is a balance or nothing. *)
LEMMA DefaultIsAmount ==
  ASSUME TypeOK, NEW k \in Kinds
  PROVE  /\ DefaultAmount(k) \in Nat
         /\ Argument(k, DefaultAmount(k)) \in Nat
<1>1. Refreshed(k) = HeldBy(EntryRead(k)) => EntryRead(k) \in Cells
  <2>1. EntryRead(k) \in Cells \/ k = "ee_to_wallet"
    BY Route DEF EntryRead
  <2>2. k = "ee_to_wallet" => Refreshed(k) # HeldBy(EntryRead(k))
    BY DEF Refreshed, HeldBy, EntryRead, Deposits, Shipments
  <2> QED
    BY <2>1, <2>2
<1>2. DefaultAmount(k) \in Nat
  BY <1>1 DEF DefaultAmount, Cached, TypeOK
<1>3. Coin \in Nat
  BY DEF Coin
<1> QED
  BY <1>2, <1>3 DEF Argument, Larger

LEMMA StartByNameStep ==
  ASSUME IInv, NEW k \in Kinds, StartByName(k)
  PROVE  IInv' /\ Promise!Begin
<1> USE DEF IInv
<1>1. /\ pc = "idle" /\ pc' \in {"check", "baseline"} /\ kind' = k
      /\ amount' = Argument(k, DefaultAmount(k))
      /\ src' = 0 /\ base' = 0 /\ seen' = 0 /\ own' = 0
      /\ landed' = 0 /\ disturbed' = FALSE
      /\ UNCHANGED <<bal, flying, launched, outside, expense>>
      /\ pc' = "baseline" => kind' \notin Shipments
  BY Classes DEF StartByName, DefaultEntry, Entry, services, Deposits, Shipments
<1>2. TypeOK'
  BY <1>1, DefaultIsAmount DEF TypeOK, Steps
<1>3. Ids'
  BY <1>1 DEF Ids, TypeOK, Transfer
<1>4. Ownership' /\ Growth'
  BY <1>1 DEF Ownership, Growth
<1>5. Stage = "idle" /\ Stage' = "open"
  BY <1>1 DEF Stage, Running, Steps
<1>6. (disturbed \/ amount < Commission(kind))' \in BOOLEAN /\ amount' \in Nat
  BY <1>2 DEF TypeOK
<1>7. Promise!Begin
  BY <1>1, <1>5, <1>6 DEF Promise!Begin
<1> QED
  BY <1>2, <1>3, <1>4, <1>7

(* Every other step is one of Transfers. *)
LEMMA ByNameSteps ==
  [ByNameNext]_byNameVars => [Next]_vars \/ \E k \in Kinds : StartByName(k)
BY DEF ByNameNext, StartGiven, Continue, Stay, byNameVars, Next

LEMMA ByNameKeepsIInv ==
  IInv /\ [ByNameNext]_byNameVars => IInv' /\ [Promise!Next]_(Promise!vars)
<1> SUFFICES ASSUME IInv, [ByNameNext]_byNameVars
             PROVE  IInv' /\ [Promise!Next]_(Promise!vars)
  OBVIOUS
<1>1. CASE [Next]_vars
  BY <1>1, IInvStep, PromiseStep
<1>2. ASSUME NEW k \in Kinds, StartByName(k) PROVE IInv' /\ Promise!Next
  BY <1>2, StartByNameStep DEF Promise!Next
<1> QED
  BY <1>1, <1>2, ByNameSteps

(* Whatever amount an action by name finds, its run keeps the promise of   *)
(* Custody: one transfer at most, credited once, no success after a        *)
(* request before its transfer is in.  The promise leaves room for a       *)
(* success without a request: a withdrawal that finds too small an amount. *)
THEOREM ByNameImplementation == ByNameSpec => KeepsCustody
<1>1. ByNameInit => IInv /\ Promise!Init
  BY IInvInit, PromiseInit DEF ByNameInit
<1> QED
  BY <1>1, ByNameKeepsIInv, PTL DEF ByNameSpec, KeepsCustody, Promise!Spec

(* So whatever the amount is, an undisturbed run that has asked for a      *)
(* transfer leaves its polling loop only with its own money in.            *)
THEOREM ByNameCredited == ByNameSpec => []OkMeansCredited
<1>1. ByNameInit => IInv
  BY IInvInit DEF ByNameInit
<1>2. IInv => OkMeansCredited
  BY DEF IInv, Ownership, Growth, OkMeansCredited, OwnFlying
<1> QED
  BY <1>1, <1>2, ByNameKeepsIInv, PTL DEF ByNameSpec

(* And what an undisturbed run started by name records as its expense is   *)
(* what the service kept back.                                             *)
THEOREM ByNameExpense == ByNameSpec => ExpenseIsTheFee
<1>1. ByNameInit => IInv /\ Accounts
  BY IInvInit, AccountsInit DEF ByNameInit
<1>2. IInv /\ Accounts /\ [ByNameNext]_byNameVars => Accounts'
  <2> SUFFICES ASSUME IInv, Accounts, [ByNameNext]_byNameVars PROVE Accounts'
    OBVIOUS
  <2>1. IInv'
    BY ByNameKeepsIInv
  <2>2. CASE [Next]_vars
    BY <2>1, <2>2, AccountsStep
  <2>3. ASSUME NEW k \in Kinds, StartByName(k) PROVE Accounts'
    <3>1. /\ pc' \in {"check", "baseline"} /\ own' = 0 /\ landed' = 0 /\ kind' = k
          /\ pc' = "baseline" => k \in Deposits \/ k \in Stakings
      BY <2>3 DEF StartByName, DefaultEntry, Entry, Deposits
    <3>2. ~SourceRead'
      BY <3>1, Classes DEF SourceRead
    <3> QED
      BY <2>1, <3>1, <3>2, BeginningAccounts DEF IInv
  <2> QED
    BY <2>2, <2>3, ByNameSteps
<1>3. IInv /\ Accounts /\ [ByNameNext]_byNameVars
        => [expense' # expense /\ ~disturbed =>
              \/ amount < Commission(kind)
              \/ expense'[kind] - expense[kind] = Requested - landed]_vars
  <2> SUFFICES ASSUME IInv, Accounts, [ByNameNext]_byNameVars, expense' # expense, ~disturbed,
                      ~(amount < Commission(kind))
               PROVE  expense'[kind] - expense[kind] = Requested - landed
    OBVIOUS
  <2>1. \A k \in Kinds : ~StartByName(k)
    BY DEF StartByName
  <2> QED
    BY <2>1, ByNameSteps, FeeSteps
<1> QED
  BY <1>1, <1>2, <1>3, ByNameKeepsIInv, PTL DEF ByNameSpec, ExpenseIsTheFee

-----------------------------------------------------------------------------
(* What an action by name asks for. *)

(* The amount of a sighted action is what its source held, and still holds *)
(* if nothing has touched it.                                              *)
Asked ==
  /\ named /\ Running /\ Sighted(kind) /\ held >= WithdrawalMin
     => /\ amount = held
        /\ pc = "check" => kind # "wallet_to_e1"
        /\ ~disturbed /\ own = 0 => bal[From(kind)] = held
  /\ pc = "settle" => own # 0

LEMMA AskedBegins ==
  ASSUME IInv, NEW k \in Kinds, StartByName(k)
  PROVE  Asked'
<1>1. /\ pc' = DefaultEntry(k) /\ kind' = k /\ amount' = Argument(k, DefaultAmount(k))
      /\ held' = bal[From(k)] /\ bal' = bal
  BY DEF StartByName, services
<1>2. pc' \in {"check", "baseline"} /\ (pc' = "check" => k # "wallet_to_e1")
  BY <1>1 DEF DefaultEntry, Entry
<1>3. ASSUME Sighted(k), bal[From(k)] >= WithdrawalMin
      PROVE  Argument(k, DefaultAmount(k)) = bal[From(k)]
  <2>1. DefaultAmount(k) = bal[From(k)] /\ bal[From(k)] \in Nat
    BY <1>3, Route DEF DefaultAmount, Cached, Sighted, IInv, TypeOK
  <2> QED
    BY <1>3, <2>1 DEF Argument, Larger, WithdrawalMin, Coin
<1> QED
  BY <1>1, <1>2, <1>3 DEF Asked

(* The program's own steps after the beginning: what it asks for goes, and *)
(* until then its source is what it was.                                   *)
LEMMA AskedStep ==
  ASSUME IInv, Asked, [Next]_vars, Running, UNCHANGED <<named, held>>
  PROVE  Asked'
<1> USE DEF IInv, TypeOK
<1>1. pc # "idle" /\ pc # "paused" /\ pc # "down"
  BY DEF Running, Steps
<1>2. CASE pc' \in {"idle", "paused", "down"}
  BY <1>2 DEF Asked, Running, Steps
<1>3. ASSUME UNCHANGED <<bal, kind, amount, own, disturbed>>,
             pc' = "check" => pc = "check", pc' = "settle" => pc \in {"wait", "settle"}
      PROVE  Asked'
  BY <1>3 DEF Asked, Running, Ownership
<1>4. CASE UNCHANGED vars \/ WithdrawCheck \/ WithdrawBaseline \/ DepositBaseline
           \/ ShipCheck \/ ShipBaseline \/ StakeBaseline \/ Wait
  BY <1>2, <1>3, <1>4 DEF vars, WithdrawCheck, WithdrawBaseline, DepositBaseline, ShipCheck,
     ShipBaseline, StakeBaseline, Wait, Goto, services, locals, history
<1>5. CASE WalletToE1Check
  <2>1. /\ pc = "check" /\ kind = "wallet_to_e1" /\ kind' = kind /\ own' = own
        /\ pc' \in {"baseline", "down"}
    BY <1>5 DEF WalletToE1Check, Goto
  <2> QED
    BY <1>5, <2>1 DEF Asked, Running, Steps
<1>6. ASSUME NEW s \in {"wait", "baseline"}, Accepted(s) PROVE Asked'
  <2>1. own' = launched + 1 /\ pc' = s /\ UNCHANGED <<kind, amount>>
    BY <1>6 DEF Accepted, Goto
  <2>2. own' # 0
    BY <2>1
  <2>3. pc = "request"
    BY <1>6 DEF Accepted
  <2> QED
    BY <1>1, <2>1, <2>2, <2>3 DEF Asked, Running, Steps
<1>7. ASSUME NEW c \in Cells, \E v : bal' = [bal EXCEPT ![c] = v],
             UNCHANGED <<pc, locals>>,
             \/ disturbed' = (disturbed \/ Touches(c))
             \/ disturbed' = disturbed /\ own # 0
      PROVE  Asked'
  <2>1. From(kind) \in Cells
    BY Route
  <2>2. ~disturbed' /\ own = 0 => ~disturbed /\ bal'[From(kind)] = bal[From(kind)]
    BY <1>7, <2>1 DEF Touches
  <2> QED
    BY <1>7, <2>2 DEF Asked, Running, locals
<1>8. ASSUME NEW t \in flying, NEW fee \in Fees, Credit(t, fee) PROVE Asked'
  <2>1. /\ bal' = [bal EXCEPT ![t.to] = @ + (t.amount - fee)] /\ UNCHANGED <<pc, locals>>
        /\ disturbed' = (disturbed \/ (~IsOwn(t) /\ Touches(t.to)))
    BY <1>8 DEF Credit
  <2>2. t.to \in Cells
    BY DEF Transfer
  <2>3. IsOwn(t) => own # 0
    BY DEF IsOwn
  <2> QED
    BY <1>7, <2>1, <2>2, <2>3
<1>9. CASE PriceMove \/ Reward
  <2>1. PICK c \in {"e1Free", "staked"} :
          /\ \E v : bal' = [bal EXCEPT ![c] = v]
          /\ disturbed' = (disturbed \/ Touches(c)) /\ UNCHANGED <<pc, locals>>
    BY <1>9 DEF PriceMove, Reward
  <2> QED
    BY <1>7, <2>1 DEF Cells
<1>10. CASE Abort \/ UnwrapPanic \/ DepositSettleUnpriced \/ AnswerLost
            \/ WithdrawSettle \/ DepositSettle \/ ShipSettle \/ StakeSettle
  BY <1>2, <1>10 DEF Abort, UnwrapPanic, DepositSettleUnpriced, AnswerLost,
     WithdrawSettle, DepositSettle, ShipSettle, StakeSettle, Goto
<1>11. ~(Monitoring \/ Resume \/ Restart) /\ \A k \in Kinds, a \in Amounts : ~Start(k, a)
  BY <1>1 DEF Monitoring, Resume, Restart, Start
<1> QED
  BY <1>4, <1>5, <1>6, <1>8, <1>9, <1>10, <1>11
  DEF Next, Progress, WithdrawStep, DepositStep, ShipStep, StakeStep,
      WithdrawRequest, DepositRequest, ShipRequest, StakeRequest

LEMMA AskedKept == IInv /\ Asked /\ [ByNameNext]_byNameVars => Asked'
<1> SUFFICES ASSUME IInv, Asked, [ByNameNext]_byNameVars PROVE Asked'
  OBVIOUS
<1>1. ASSUME NEW k \in Kinds, StartByName(k) PROVE Asked'
  BY <1>1, AskedBegins
<1>2. CASE StartGiven
  BY <1>2 DEF StartGiven, Start, Entry, Asked
<1>3. CASE Continue \/ Stay \/ UNCHANGED byNameVars
  <2>1. [Next]_vars /\ UNCHANGED <<named, held>>
    BY <1>3 DEF Continue, Stay, byNameVars, Next
  <2>2. ASSUME ~Running PROVE ~Running'
    BY <1>3, <2>2 DEF Continue, Stay, byNameVars, vars, locals, Monitoring, Running, Steps,
       Progress, WithdrawStep, DepositStep, ShipStep, StakeStep, WithdrawCheck,
       WithdrawBaseline, WithdrawRequest, WithdrawSettle, WalletToE1Check, DepositBaseline,
       DepositRequest, DepositSettle, ShipCheck, ShipRequest, ShipBaseline, ShipSettle,
       StakeBaseline, StakeRequest, StakeSettle, Wait, Resume, Abort, Restart, AnswerLost,
       UnwrapPanic, DepositSettleUnpriced, Credit, PriceMove, Reward, Accepted, Goto
  <2>3. CASE ~Running
    BY <2>2, <2>3 DEF Asked, Running, Steps
  <2> QED
    BY <2>1, <2>3, AskedStep
<1> QED
  BY <1>1, <1>2, <1>3 DEF ByNameNext

(* An action by name whose amount comes from an entry it has refreshed     *)
(* does not return well without a request, and asks for all there is.      *)
THEOREM ByNameAsksForAll == ByNameSpec => AsksForAll
<1>1. ByNameInit => IInv /\ Asked
  BY IInvInit DEF ByNameInit, Init, Asked
<1>2. IInv /\ Asked /\ [ByNameNext]_byNameVars
        => [named /\ Sighted(kind) /\ held >= WithdrawalMin =>
              /\ Running /\ pc' = "idle" => own # 0
              /\ Running /\ own' # own /\ ~disturbed => bal'[From(kind)] < Coin]_byNameVars
  <2> SUFFICES ASSUME IInv, Asked, [Next]_vars, named, Sighted(kind), held >= WithdrawalMin,
                      Running
               PROVE  /\ pc' = "idle" => own # 0
                      /\ own' # own /\ ~disturbed => bal'[From(kind)] < Coin
    BY ByNameSteps DEF StartByName, Running, Steps
  <2>1. amount = held /\ (~disturbed /\ own = 0 => bal[From(kind)] = held)
    BY DEF Asked
  <2>2. pc' = "idle" => own # 0
    <3>1. ASSUME pc' = "idle" PROVE pc = "settle" \/ amount < WithdrawalMin
      BY <3>1 DEF Running, Steps, Next, Progress, WithdrawStep, DepositStep, ShipStep, StakeStep,
         Start, WithdrawCheck, WithdrawBaseline, WithdrawRequest, WithdrawSettle,
         WalletToE1Check, DepositBaseline, DepositRequest, DepositSettle, ShipCheck,
         ShipRequest, ShipBaseline, ShipSettle, StakeBaseline, StakeRequest, StakeSettle,
         Wait, Resume, Monitoring, Abort, Restart, AnswerLost, UnwrapPanic,
         DepositSettleUnpriced, Credit, PriceMove, Reward, Accepted, Goto, vars, locals
    <3>2. held \in Nat
      BY <2>1 DEF IInv, TypeOK
    <3> QED
      BY <2>1, <3>1, <3>2 DEF Asked, WithdrawalMin, Coin
  <2>3. ASSUME own' # own, ~disturbed PROVE bal'[From(kind)] < Coin
    <3>1. (\E s \in {"wait", "baseline"} : Accepted(s)) /\ own = 0
      BY <2>3 DEF Running, Steps, Next, Progress, WithdrawStep, DepositStep, ShipStep, StakeStep,
         Start, WithdrawCheck, WithdrawBaseline, WithdrawRequest, WithdrawSettle,
         WalletToE1Check, DepositBaseline, DepositRequest, DepositSettle, ShipCheck,
         ShipRequest, ShipBaseline, ShipSettle, StakeBaseline, StakeRequest, StakeSettle,
         Wait, Resume, Monitoring, Abort, Restart, AnswerLost, UnwrapPanic,
         DepositSettleUnpriced, Credit, PriceMove, Reward, Accepted, Goto, vars, locals,
         IInv, Ownership
    <3>2. kind # "ee_to_wallet"
      BY DEF Sighted, EntryRead, From, Deposits
    <3>3. Requested = amount /\ amount \in Nat
      BY <3>2, RequestedBound DEF IInv, TypeOK
    <3>4. bal'[From(kind)] = bal[From(kind)] - Requested
      BY <3>1, Route DEF Accepted, Launch, IInv, TypeOK
    <3>5. bal'[From(kind)] = 0
      BY <2>1, <2>3, <3>1, <3>3, <3>4
    <3> QED
      BY <3>5 DEF Coin
  <2> QED
    BY <2>2, <2>3
<1> QED
  BY <1>1, <1>2, AskedKept, ByNameKeepsIInv, PTL DEF ByNameSpec, AsksForAll
=============================================================================
