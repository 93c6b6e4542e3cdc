------------------------- MODULE WalletScript_proofs -------------------------
(***************************************************************************)
(* Proofs about WalletScript, for all its constants: that a payment to     *)
(* Binance is always the next to be mined, that success means that the     *)
(* payment asked for was made, that dYdX is paid too much only after a     *)
(* decision to pay it again, and the refinement of Payments.               *)
(***************************************************************************)
EXTENDS WalletScript, FiniteSetTheorems, TLAPS

(* The pool holds one payment for a nonce, and no nonce is used up; a      *)
(* payment to Binance has the next nonce, or, in a script, an old one; a   *)
(* script that reports success has its payment in the chain; and the       *)
(* caller's own script pays what the caller decided.                       *)
Numbered ==
  /\ IsFiniteSet(chain)
  /\ \A c \in chain : c.tx.nonce < Mined
  /\ \A t \in pool : t.nonce >= Mined
  /\ \A t \in pool : t.to = "3" => t.nonce = Mined
  /\ \A t, u \in pool : t.nonce = u.nonce => t = u

Dated ==
  /\ plan.mined <= Mined
  /\ \A s \in Slots : scripts[s].tx.to = "3" => scripts[s].tx.nonce <= Mined
  /\ pc = "script" /\ scripts[mine].step \in {"send", "receipt", "ok"} =>
        plan.mined <= scripts[mine].tx.nonce

Paid ==
  /\ \A s \in Slots : scripts[s].step = "ok" =>
                        \E c \in chain : c.ok /\ c.tx = scripts[s].tx
  /\ pc = "script" => /\ scripts[mine].tx.to = plan.to
                      /\ scripts[mine].tx.amount = plan.amount

Inv == TypeOK /\ Numbered /\ Dated /\ Paid

LEMMA Blank == NoTx \in Tx /\ NoScript \in Script /\ NoPlan \in Payment
BY DEF Accounts, NoTx, NoScript, NoPlan, Tx, Script, Payment

LEMMA Counted == IsFiniteSet(chain) => Mined \in Nat
BY FS_CardinalityType DEF Mined

LEMMA OpeningInv == Init => Inv
<1> SUFFICES ASSUME Init PROVE Inv
  OBVIOUS
<1>1. IsFiniteSet(chain) /\ Mined = 0
  BY FS_EmptySet DEF Init, Mined
<1>2. 1 \in Slots
  BY BoundsAssumption DEF Slots
<1>3. TypeOK
  <2>1. wallet \in Nat /\ got \in [Accounts -> Nat] /\ scripts \in [Slots -> Script]
    BY Blank, NeedAssumption DEF Init
  <2>2. faults \in 0 .. MaxFaults /\ kills \in 0 .. MaxKills
    BY BoundsAssumption DEF Init
  <2>3. hasty \in BOOLEAN /\ base \in Nat /\ plan \in Payment /\ chain = {} /\ pool = {}
    BY Blank, Zenon DEF Init
  <2>4. mine \in Slots /\ pc = "idle"
    BY <1>2 DEF Init
  <2> QED
    BY <2>1, <2>2, <2>3, <2>4 DEF TypeOK
<1>4. Numbered
  BY <1>1 DEF Init, Numbered
<1>5. Dated
  BY <1>1 DEF Init, Dated, NoScript, NoPlan, NoTx
<1>6. Paid
  BY DEF Init, Paid, NoScript
<1> QED
  BY <1>3, <1>4, <1>5, <1>6 DEF Inv

-----------------------------------------------------------------------------
(* Steps that leave the chain and the pool alone. *)

LEMMA QuietInv ==
  ASSUME Inv, TypeOK', UNCHANGED ether, Dated', Paid'
  PROVE  Inv'
<1>1. Numbered'
  BY DEF Inv, Numbered, Mined, ether
<1> QED
  BY <1>1 DEF Inv

(* Amounts are decided on within the tolerance. *)
LEMMA Decided ==
  ASSUME TypeOK
  PROVE  /\ Lack \in Nat
         /\ \A x \in AmountsToE1 : x \in Nat /\ 100 * x <= 121 * Lack
<1>1. Lack \in Nat
  BY NeedAssumption DEF TypeOK, Accounts, Lack
<1> DEFINE twice == (121 * Lack) \div 100
           once  == (11 * Smaller(Lack, wallet)) \div 10
<1>2. twice \in Nat /\ 100 * twice <= 121 * Lack
  BY <1>1
<1>3. once \in Nat /\ 10 * once <= 11 * Lack
  <2>1. Smaller(Lack, wallet) \in Nat /\ Smaller(Lack, wallet) <= Lack
    BY <1>1 DEF Smaller, TypeOK
  <2> DEFINE y == 11 * Smaller(Lack, wallet)
  <2>2. y \in Nat /\ y <= 11 * Lack
    BY <1>1, <2>1
  <2> HIDE DEF y
  <2>3. y \div 10 \in Nat /\ 10 * (y \div 10) <= y
    BY <2>2
  <2> QED
    BY <1>1, <2>2, <2>3 DEF y
<1>4. AmountsToE1 = {Smaller(wallet, twice), once}
  BY DEF AmountsToE1
<1> HIDE DEF twice, once
<1>5. Smaller(wallet, twice) \in Nat /\ Smaller(wallet, twice) <= twice
  BY <1>2 DEF Smaller, TypeOK
<1> QED
  BY <1>1, <1>2, <1>3, <1>4, <1>5

LEMMA CallerInv == Inv /\ (Caller \/ Monitoring \/ Kill) => Inv'
<1> SUFFICES ASSUME Inv PROVE Caller \/ Monitoring \/ Kill => Inv'
  OBVIOUS
<1> USE Blank, Counted DEF Inv, TypeOK
<1>0. Mined \in Nat
  BY DEF Numbered
<1>1. ASSUME Detect PROVE Inv'
  <2>1. /\ plan'.mined = Mined /\ pc' \in {"check", "call"} /\ plan' \in Payment
        /\ hasty' \in BOOLEAN /\ UNCHANGED <<ether, scripts, mine, base, bounds>>
    <3>1. CASE DetectToE1
      <4>1. /\ pc' = "check" /\ hasty' = (hasty \/ UnderWay)
            /\ UNCHANGED <<ether, scripts, mine, base, bounds>>
        BY <3>1 DEF DetectToE1
      <4>2. PICK x \in AmountsToE1 : plan' = [to |-> "1", amount |-> x, mined |-> Mined]
        BY <3>1 DEF DetectToE1
      <4>3. plan' \in Payment /\ plan'.mined = Mined
        BY <1>0, <4>2, Decided DEF Payment, Accounts
      <4>4. hasty' \in BOOLEAN
        BY <4>1, Zenon DEF UnderWay
      <4> QED
        BY <4>1, <4>3, <4>4
    <3>2. CASE DetectToEe
      BY <1>0, <3>2 DEF DetectToEe, Payment, Accounts
    <3> QED
      BY <1>1, <3>1, <3>2 DEF Detect
  <2>2. Mined' = Mined
    BY <2>1 DEF Mined, ether
  <2>3. TypeOK'
    BY <2>1 DEF ether, bounds
  <2>4. Dated' /\ Paid'
    BY <1>0, <2>1, <2>2 DEF Dated, Paid, ether
  <2> QED
    BY <2>1, <2>3, <2>4, QuietInv
<1>2. ASSUME Check PROVE Inv'
  <2>1. /\ pc' \in {"down", "call"} /\ plan' \in Payment /\ plan'.mined = plan.mined
        /\ UNCHANGED <<ether, scripts, mine, base, hasty, bounds>>
    BY <1>2 DEF Check, Payment
  <2>2. Mined' = Mined
    BY <2>1 DEF ether, Mined
  <2>3. TypeOK'
    BY <2>1 DEF ether, bounds
  <2>4. Dated' /\ Paid'
    BY <2>1, <2>2 DEF Dated, Paid, ether
  <2> QED
    BY <2>1, <2>3, <2>4, QuietInv
<1>3. ASSUME Call PROVE Inv'
  <2>1. PICK s \in Slots :
          /\ mine' = s
          /\ scripts' = [scripts EXCEPT ![s] =
               [step |-> "nonce",
                tx |-> [nonce |-> 0, to |-> plan.to, amount |-> plan.amount]]]
    BY <1>3 DEF Call
  <2>2. /\ pc' = "script" /\ base' = got[plan.to]
        /\ UNCHANGED <<ether, plan, hasty, bounds>> /\ Mined' = Mined
    BY <1>3 DEF Call, ether, Mined
  <2>3. scripts' \in [Slots -> Script] /\ base' \in Nat
    BY <2>1, <2>2 DEF Script, Tx, Payment
  <2>4. TypeOK'
    BY <2>1, <2>2, <2>3 DEF ether, bounds
  <2>5. Dated'
    BY <1>0, <2>1, <2>2 DEF Dated
  <2>6. Paid'
    BY <2>1, <2>2 DEF Paid, ether
  <2> QED
    BY <2>2, <2>4, <2>5, <2>6, QuietInv
<1>4. ASSUME Answer PROVE Inv'
  <2>1. /\ pc' \in {"poll", "paused"} /\ scripts' = [scripts EXCEPT ![mine] = NoScript]
        /\ UNCHANGED <<ether, decision, hasty, bounds>> /\ Mined' = Mined
    BY <1>4 DEF Answer, ether, Mined
  <2>2. TypeOK'
    BY <2>1 DEF ether, decision, bounds
  <2>3. Dated' /\ Paid'
    BY <1>0, <2>1 DEF Dated, Paid, decision, ether, NoScript, NoTx
  <2> QED
    BY <2>1, <2>2, <2>3, QuietInv
<1>5. ASSUME Poll \/ Resume \/ Restart \/ Monitoring \/ Abort PROVE Inv'
  <2>1. /\ pc' \in {"idle", "paused"} /\ faults' \in 0 .. MaxFaults
        /\ UNCHANGED <<ether, scripts, decision, hasty, kills>>
    BY <1>5, BoundsAssumption DEF Poll, Resume, Restart, Monitoring, Abort, Fault, vars, bounds
  <2>2. Mined' = Mined
    BY <2>1 DEF ether, Mined
  <2>3. TypeOK'
    BY <2>1 DEF ether, decision
  <2>4. Dated' /\ Paid'
    BY <2>1, <2>2 DEF Dated, Paid, decision, ether
  <2> QED
    BY <2>1, <2>3, <2>4, QuietInv
<1>6. ASSUME Kill PROVE Inv'
  <2>1. /\ pc' = "down" /\ kills' \in 0 .. MaxKills
        /\ scripts' = scripts \/ scripts' = [scripts EXCEPT ![mine] = NoScript]
        /\ UNCHANGED <<ether, decision, hasty, faults>> /\ Mined' = Mined
    BY <1>6, BoundsAssumption DEF Kill, ether, Mined
  <2>2. TypeOK'
    BY <2>1 DEF ether, decision
  <2>3. Dated' /\ Paid'
    BY <1>0, <2>1 DEF Dated, Paid, decision, ether, NoScript, NoTx
  <2> QED
    BY <2>1, <2>2, <2>3, QuietInv
<1> QED
  BY <1>1, <1>2, <1>3, <1>4, <1>5, <1>6 DEF Caller

LEMMA FaultTyping == TypeOK /\ (Fault \/ UNCHANGED bounds) => faults' \in 0 .. MaxFaults /\ kills' = kills
BY BoundsAssumption DEF Fault, TypeOK, bounds

(* A script that ends: its caller learns how, or nobody does. *)
LEMMA ExitInv ==
  ASSUME Inv, NEW s \in Slots, NEW step \in {"ok", "error"}, Exit(s, step),
         step = "ok" => /\ scripts[s].step = "receipt"
                        /\ \E c \in chain : c.ok /\ c.tx = scripts[s].tx,
         UNCHANGED <<chain, pc, decision>>
  PROVE  scripts' \in [Slots -> Script] /\ Dated' /\ Paid'
<1> USE Blank, Counted DEF Inv, TypeOK
<1>1. Mined' = Mined /\ Mined \in Nat
  BY DEF Mined, Numbered
<1>2. CASE pc = "script" /\ s = mine
  <2>1. scripts' = [scripts EXCEPT ![s].step = step]
    BY <1>2 DEF Exit, Step
  <2>2. scripts' \in [Slots -> Script]
    BY <2>1 DEF Script
  <2>3. Dated'
    BY <1>1, <2>1 DEF Dated, decision, Script
  <2>4. Paid'
    BY <2>1 DEF Paid, decision, Script
  <2> QED
    BY <2>2, <2>3, <2>4
<1>3. CASE ~(pc = "script" /\ s = mine)
  <2>1. scripts' = [scripts EXCEPT ![s] = NoScript]
    BY <1>3 DEF Exit
  <2>2. scripts' \in [Slots -> Script]
    BY <2>1
  <2>3. Dated'
    BY <1>1, <2>1 DEF Dated, decision, NoScript, NoTx
  <2>4. Paid'
    BY <1>3, <2>1 DEF Paid, decision, NoScript
  <2> QED
    BY <2>2, <2>3, <2>4
<1> QED
  BY <1>2, <1>3

(* What the node takes has a nonce that is not used up, and its place. *)
LEMMA TakenNumbered ==
  ASSUME Inv, NEW s \in Slots, Taken(s), UNCHANGED chain
  PROVE  Numbered' /\ pool' \subseteq Tx
<1> USE Counted DEF Inv, TypeOK
<1> DEFINE tx == scripts[s].tx
<1>1. tx \in Tx /\ Mined \in Nat /\ Mined' = Mined /\ \A t \in pool : t.nonce \in Nat
  BY DEF Numbered, Script, Tx, Mined
<1>2. tx.nonce >= Mined /\ pool' = (pool \ Rivals(s)) \cup {tx}
  BY DEF Taken
<1>3. tx.to = "3" => tx.nonce = Mined
  BY <1>1, <1>2 DEF Dated, Tx
<1>4. \A t \in pool \ Rivals(s) : t.nonce # tx.nonce
  BY DEF Rivals
<1> QED
  BY <1>1, <1>2, <1>3, <1>4 DEF Numbered

(* The nonce is the chain's count, or, for dYdX only, the next one. *)
LEMMA Renumbered ==
  ASSUME TypeOK, Mined \in Nat, NEW s \in Slots, GetNonce(s) \/ NextNonce(s)
  PROVE  \E nonce \in Nat :
           /\ scripts'[s] = [step |-> "send", tx |-> [scripts[s].tx EXCEPT !.nonce = nonce]]
           /\ scripts' = [scripts EXCEPT ![s] = scripts'[s]]
           /\ nonce = Mined \/ (nonce = scripts[s].tx.nonce + 1 /\ scripts[s].tx.to = "1"
                                 /\ scripts[s].step = "send")
<1> USE DEF TypeOK
<1>1. scripts[s] = [step |-> scripts[s].step, tx |-> scripts[s].tx] /\ scripts[s].tx \in Tx
  BY DEF Script
<1>2. CASE GetNonce(s)
  <2>1. scripts' = [scripts EXCEPT ![s].step = "send", ![s].tx.nonce = Mined]
    BY <1>2 DEF GetNonce, TakesNonce
  <2>2. scripts'[s] = [step |-> "send", tx |-> [scripts[s].tx EXCEPT !.nonce = Mined]]
    BY <1>1, <2>1
  <2>3. scripts' = [scripts EXCEPT ![s] = scripts'[s]]
    BY <2>1
  <2> QED
    BY <2>2, <2>3
<1>3. CASE NextNonce(s)
  <2>1. scripts' = [scripts EXCEPT ![s].tx.nonce = @ + 1]
        /\ scripts[s].step = "send" /\ scripts[s].tx.to = "1"
    BY <1>3 DEF NextNonce, Refused
  <2>2. /\ scripts'[s] = [step |-> "send",
                         tx |-> [scripts[s].tx EXCEPT !.nonce = scripts[s].tx.nonce + 1]]
        /\ scripts' = [scripts EXCEPT ![s] = scripts'[s]]
    BY <1>1, <2>1
  <2>3. scripts[s].tx.nonce + 1 \in Nat
    BY <1>1 DEF Tx
  <2> QED
    BY <2>1, <2>2, <2>3
<1> QED
  BY <1>2, <1>3

LEMMA ScriptInv ==
  ASSUME Inv, NEW s \in Slots, Run(s) \/ SendLost(s) \/ Fail(s)
  PROVE  Inv'
<1> USE Counted DEF Inv, TypeOK
<1>0. Mined \in Nat
  BY DEF Numbered
<1>1. CASE GetNonce(s) \/ NextNonce(s)
  <2>1. /\ UNCHANGED <<ether, pc, decision, hasty, bounds>> /\ Mined' = Mined
    BY <1>1 DEF GetNonce, TakesNonce, NextNonce, Mined, ether
  <2>2. PICK nonce \in Nat :
          /\ scripts'[s] = [step |-> "send", tx |-> [scripts[s].tx EXCEPT !.nonce = nonce]]
          /\ scripts' = [scripts EXCEPT ![s] = scripts'[s]]
          /\ nonce = Mined \/ (nonce = scripts[s].tx.nonce + 1 /\ scripts[s].tx.to = "1"
                                /\ scripts[s].step = "send")
    BY <1>0, <1>1, Renumbered
  <2>3. scripts'[s] \in Script /\ scripts'[s].tx.nonce = nonce
        /\ scripts'[s].tx.to = scripts[s].tx.to /\ scripts'[s].tx.amount = scripts[s].tx.amount
        /\ scripts'[s].step = "send"
    BY <2>2 DEF Script, Tx
  <2>4. /\ scripts' \in [Slots -> Script]
        /\ \A u \in Slots \ {s} : scripts'[u] = scripts[u]
    BY <2>2, <2>3
  <2>5. TypeOK'
    BY <2>1, <2>4 DEF ether, decision, bounds
  <2>6. Dated'
    <3>1. scripts[s].tx.to = "3" => nonce = Mined
      BY <2>2
    <3>2. pc = "script" /\ s = mine => plan.mined <= nonce
      BY <1>0, <2>2 DEF Dated, Payment, Script, Tx
    <3> QED
      BY <1>0, <2>1, <2>3, <2>4, <3>1, <3>2 DEF Dated, decision
  <2>7. Paid'
    BY <2>1, <2>3, <2>4 DEF Paid, decision, ether
  <2> QED
    BY <2>1, <2>5, <2>6, <2>7, QuietInv
<1>2. CASE Send(s)
  <2>1. /\ Taken(s) /\ scripts[s].step = "send"
        /\ scripts' = [scripts EXCEPT ![s].step = "receipt"]
        /\ UNCHANGED <<wallet, got, chain, pc, decision, hasty, bounds>> /\ Mined' = Mined
    BY <1>2 DEF Send, Step, Mined
  <2>2. Numbered' /\ pool' \subseteq Tx
    BY <2>1, TakenNumbered
  <2>3. scripts' \in [Slots -> Script]
    BY <2>1 DEF Script
  <2>4. TypeOK'
    BY <2>1, <2>2, <2>3 DEF decision, bounds
  <2>5. Dated'
    BY <2>1 DEF Dated, decision, Script
  <2>6. Paid'
    BY <2>1 DEF Paid, decision, Script
  <2> QED
    BY <2>2, <2>4, <2>5, <2>6
<1>3. CASE SendLost(s)
  <2>1. Taken(s) /\ Exit(s, "error") /\ UNCHANGED <<wallet, got, chain, pc, decision, hasty>>
    BY <1>3 DEF SendLost
  <2>2. Numbered' /\ pool' \subseteq Tx
    BY <2>1, TakenNumbered
  <2>3. scripts' \in [Slots -> Script] /\ Dated' /\ Paid'
    BY <2>1, ExitInv
  <2>4. faults' \in 0 .. MaxFaults /\ kills' = kills
    BY <1>3, FaultTyping DEF SendLost
  <2>5. TypeOK'
    BY <2>1, <2>2, <2>3, <2>4 DEF decision
  <2> QED
    BY <2>2, <2>3, <2>5
<1>4. CASE Reject(s) \/ Fail(s) \/ Expire(s) \/ Receipt(s)
  <2>1. /\ UNCHANGED <<ether, pc, decision, hasty>>
        /\ Fault \/ UNCHANGED bounds
    BY <1>4 DEF Reject, Fail, Expire, Receipt
  <2>2. PICK step \in {"ok", "error"} :
          /\ Exit(s, step)
          /\ step = "ok" => /\ scripts[s].step = "receipt"
                            /\ \E c \in chain : c.ok /\ c.tx = scripts[s].tx
    BY <1>4 DEF Reject, Fail, Expire, Receipt
  <2>3. UNCHANGED <<chain, pc, decision>>
    BY <2>1 DEF ether
  <2>4. scripts' \in [Slots -> Script] /\ Dated' /\ Paid'
    BY <2>2, <2>3, ExitInv
  <2>5. faults' \in 0 .. MaxFaults /\ kills' = kills
    BY <2>1, FaultTyping
  <2>6. TypeOK'
    BY <2>1, <2>4, <2>5 DEF ether, decision
  <2> QED
    BY <2>1, <2>4, <2>6, QuietInv
<1> QED
  BY <1>1, <1>2, <1>3, <1>4 DEF Run

-----------------------------------------------------------------------------
(* The chain. *)

(* The transaction mined is new to the chain, and the pool is empty after. *)
LEMMA MineInv ==
  ASSUME Inv, NEW t \in pool, Mine(t)
  PROVE  Inv'
<1> USE Counted DEF Inv, TypeOK
<1> DEFINE c == [tx |-> t, ok |-> t.amount <= wallet]
<1>1. /\ t.nonce = Mined /\ pool' = pool \ {t} /\ chain' = chain \cup {c}
      /\ UNCHANGED <<scripts, pc, decision, hasty, bounds>>
  BY DEF Mine
<1>2. c \notin chain /\ Mined \in Nat
  BY <1>1 DEF Numbered
<1>3. IsFiniteSet(chain') /\ Mined' = Mined + 1
  BY <1>1, <1>2, FS_AddElement DEF Numbered, Mined
<1>4. c \in [tx : Tx, ok : BOOLEAN] /\ c.tx = t /\ t.nonce \in Nat /\ t.amount \in Nat /\ t.to \in Accounts
  BY DEF Tx
<1>5. wallet' \in Nat /\ got' \in [Accounts -> Nat]
  BY <1>4 DEF Mine
<1> HIDE DEF c
<1>6. TypeOK'
  BY <1>1, <1>4, <1>5 DEF decision, bounds
<1>7. \A u \in pool' : u.nonce \in Nat /\ u.nonce >= Mined + 1 /\ u.to # "3"
  <2> SUFFICES ASSUME NEW u \in pool' PROVE u.nonce \in Nat /\ u.nonce >= Mined + 1 /\ u.to # "3"
    OBVIOUS
  <2>1. u \in pool /\ u # t /\ u.nonce \in Nat
    BY <1>1 DEF Tx
  <2>2. u.nonce # t.nonce /\ u.nonce >= Mined
    BY <2>1 DEF Numbered
  <2> QED
    BY <1>1, <1>2, <2>1, <2>2 DEF Numbered
<1>8. \A d \in chain' : d.tx.nonce < Mined'
  <2> SUFFICES ASSUME NEW d \in chain' PROVE d.tx.nonce < Mined'
    OBVIOUS
  <2>1. CASE d = c
    BY <1>1, <1>2, <1>3, <1>4, <2>1
  <2>2. CASE d \in chain
    <3>1. d.tx.nonce \in Nat /\ d.tx.nonce < Mined
      BY <2>2 DEF Numbered, Tx
    <3> QED
      BY <1>2, <1>3, <3>1
  <2> QED
    BY <1>1, <2>1, <2>2
<1>9. Numbered'
  BY <1>1, <1>3, <1>7, <1>8 DEF Numbered
<1>10. Dated'
  <2>1. plan.mined \in Nat /\ \A s \in Slots : scripts[s].tx.nonce \in Nat
    BY DEF Payment, Script, Tx
  <2> QED
    BY <1>1, <1>2, <1>3, <2>1 DEF Dated, decision
<1>11. Paid'
  BY <1>1 DEF Paid, decision
<1> QED
  BY <1>6, <1>9, <1>10, <1>11

LEMMA ForgetInv == Inv /\ Forget => Inv'
<1> SUFFICES ASSUME Inv, Forget PROVE Inv'
  OBVIOUS
<1>1. pool' \subseteq pool /\ UNCHANGED <<wallet, got, chain, scripts, pc, decision, hasty>>
  BY DEF Forget
<1>2. faults' \in 0 .. MaxFaults /\ kills' = kills
  BY FaultTyping DEF Forget, Inv
<1>3. TypeOK'
  BY <1>1, <1>2 DEF Inv, TypeOK, decision
<1>4. Numbered' /\ Dated' /\ Paid'
  BY <1>1 DEF Inv, Numbered, Dated, Paid, Mined, decision
<1> QED
  BY <1>3, <1>4 DEF Inv

LEMMA StepInv == Inv /\ [Next]_vars => Inv'
<1> SUFFICES ASSUME Inv, [Next]_vars PROVE Inv'
  OBVIOUS
<1>1. CASE Caller \/ Monitoring \/ Kill
  BY <1>1, CallerInv
<1>2. CASE \E s \in Slots : Run(s) \/ SendLost(s) \/ Fail(s)
  BY <1>2, ScriptInv
<1>3. CASE Mining \/ Forget
  BY <1>3, MineInv, ForgetInv DEF Mining
<1>4. CASE UNCHANGED vars
  <2>1. UNCHANGED <<ether, scripts, pc, decision, hasty, bounds>>
    BY <1>4 DEF vars
  <2> QED
    BY <2>1 DEF Inv, TypeOK, Numbered, Dated, Paid, Mined, ether, decision, bounds
<1> QED
  BY <1>1, <1>2, <1>3, <1>4 DEF Next

THEOREM Invariance == Spec => []Inv
BY OpeningInv, StepInv, PTL DEF Spec

(* Amounts and balances are never negative: the chain reverts what the     *)
(* wallet cannot pay.                                                      *)
THEOREM Typing == Spec => []TypeOK
<1>1. Inv => TypeOK
  BY DEF Inv
<1> QED
  BY <1>1, Invariance, PTL

(* A payment to Binance is the next to be mined, for any number of kills,  *)
(* faults and orphans, and however many deposits to dYdX wait.             *)
THEOREM NextIsBinance == Spec => []BinanceIsNext
<1>1. Inv => BinanceIsNext
  BY DEF Inv, Numbered, BinanceIsNext
<1> QED
  BY <1>1, Invariance, PTL

(* Success is reported for the payment that was decided, once it is mined  *)
(* and not reverted, and not for an earlier one like it.                   *)
THEOREM SuccessMeansPaid == Spec => []OkMeansPaid
<1>1. ASSUME Inv PROVE OkMeansPaid
  <2> SUFFICES ASSUME pc = "script", scripts[mine].step = "ok"
               PROVE  \E c \in chain : /\ c.ok /\ c.tx.to = plan.to
                                       /\ c.tx.amount = plan.amount
                                       /\ c.tx.nonce >= plan.mined
    BY DEF OkMeansPaid
  <2>1. mine \in Slots /\ plan.mined \in Nat /\ scripts[mine].tx.nonce \in Nat
    BY <1>1 DEF Inv, TypeOK, Payment, Script, Tx
  <2>2. PICK c \in chain : c.ok /\ c.tx = scripts[mine].tx
    BY <1>1, <2>1 DEF Inv, Paid
  <2>3. plan.mined <= scripts[mine].tx.nonce
    BY <1>1 DEF Inv, Dated
  <2> QED
    BY <1>1, <2>1, <2>2, <2>3 DEF Inv, Paid
<1> QED
  BY <1>1, Invariance, PTL
-----------------------------------------------------------------------------
(* dYdX is not paid twice. *)

(* With this payment dYdX has no more than it lacked and the tolerances. *)
Fits(amount) == 1000 * amount <= 1331 * (Need - got["1"])

(* While no payment to dYdX was decided on with another under way, one of  *)
(* them at most is decided on, in a script's hands or in the pool, and it  *)
(* fits what dYdX has.                                                     *)
Alone ==
  ~hasty =>
    /\ 1000 * got["1"] <= 1331 * Need
    /\ pc = "check" => plan.to = "1" /\ 100 * plan.amount <= 121 * (Need - got["1"])
    /\ pc = "call" /\ plan.to = "1" => Fits(plan.amount)
    /\ pc \in {"check", "call"} /\ plan.to = "1" => ~UnderWay
    /\ \A s \in InHand : Fits(scripts[s].tx.amount) /\ InPool = {} /\ InHand = {s}
    /\ \A t \in InPool : Fits(t.amount) /\ InHand = {} /\ InPool = {t}

LEMMA Nothing ==
  ASSUME TypeOK PROVE got["1"] \in Nat /\ Need \in Nat /\ plan.amount \in Nat
BY NeedAssumption DEF TypeOK, Accounts, Payment

LEMMA OpeningAlone == Init => Alone
<1> SUFFICES ASSUME Init PROVE Alone
  OBVIOUS
<1>1. got["1"] = 0 /\ Need \in Nat
  BY NeedAssumption DEF Init, Accounts
<1>2. InHand = {} /\ InPool = {}
  BY DEF Init, InHand, InPool, NoScript
<1> QED
  BY <1>1, <1>2 DEF Init, Alone

(* Payments under way may go, and the caller turn to something else. *)
LEMMA FewerAlone ==
  ASSUME Alone, UNCHANGED <<got, hasty>>,
         InPool' \subseteq InPool, InHand' \subseteq InHand,
         \A s \in InHand' : scripts'[s].tx.amount = scripts[s].tx.amount,
         UNCHANGED <<pc, plan>> \/ pc' \notin {"check", "call"}
  PROVE  Alone'
<1> SUFFICES ASSUME ~hasty PROVE Alone'
  BY DEF Alone
<1>1. \A s \in InHand' : Fits(scripts[s].tx.amount)' /\ InPool' = {} /\ InHand' = {s}
  <2> SUFFICES ASSUME NEW s \in InHand'
               PROVE  Fits(scripts[s].tx.amount)' /\ InPool' = {} /\ InHand' = {s}
    OBVIOUS
  <2>1. s \in InHand
    OBVIOUS
  <2>2. Fits(scripts[s].tx.amount) /\ InPool = {} /\ InHand = {s}
    BY <2>1 DEF Alone
  <2> QED
    BY <2>2 DEF Fits
<1>2. \A t \in InPool' : Fits(t.amount)' /\ InHand' = {} /\ InPool' = {t}
  <2> SUFFICES ASSUME NEW t \in InPool'
               PROVE  Fits(t.amount)' /\ InHand' = {} /\ InPool' = {t}
    OBVIOUS
  <2>1. Fits(t.amount) /\ InHand = {} /\ InPool = {t}
    BY DEF Alone
  <2> QED
    BY <2>1 DEF Fits
<1>3. ~UnderWay => ~UnderWay'
  BY DEF UnderWay
<1> QED
  BY <1>1, <1>2, <1>3 DEF Alone, Fits

(* A step of the caller adds a payment that fits, or none. *)
LEMMA CallerAlone ==
  ASSUME Inv, Alone, Caller \/ Monitoring \/ Kill
  PROVE  Alone'
<1> USE DEF Inv
<1>0. InPool' = InPool /\ got' = got
  BY DEF Caller, Monitoring, Kill, Detect, DetectToE1, DetectToEe, Check, Call, Answer,
     Poll, Abort, Resume, Restart, ether, vars, InPool
<1>1. got["1"] \in Nat /\ Need \in Nat /\ plan.amount \in Nat
  BY Nothing
<1>2. ASSUME scripts' = scripts PROVE InHand' = InHand
  BY <1>2 DEF InHand
<1>3. CASE DetectToE1
  <2>1. /\ hasty' = (hasty \/ UnderWay) /\ scripts' = scripts /\ Lack >= Least
        /\ pc' = "check"
    BY <1>3 DEF DetectToE1
  <2>2. PICK x \in AmountsToE1 : plan' = [to |-> "1", amount |-> x, mined |-> Mined]
    BY <1>3 DEF DetectToE1
  <2>3. Lack = Need - got["1"]
    BY <2>1 DEF Lack, Least
  <2>4. x \in Nat /\ 100 * x <= 121 * (Need - got["1"])
    BY <2>3, Decided
  <2>5. InHand' = InHand
    BY <1>2, <2>1
  <2> SUFFICES ASSUME ~hasty, ~UnderWay PROVE Alone'
    BY <2>1 DEF Alone
  <2>6. InPool' = {} /\ InHand' = {}
    BY <1>0, <2>5 DEF UnderWay
  <2>7. 1000 * got["1"] <= 1331 * Need
    BY DEF Alone
  <2> QED
    BY <1>0, <2>1, <2>2, <2>4, <2>6, <2>7 DEF Alone, UnderWay
<1>4. CASE DetectToEe
  <2>1. UNCHANGED <<scripts, hasty>> /\ pc' = "call" /\ plan'.to = "3"
    BY <1>4 DEF DetectToEe
  <2>2. InHand' = InHand
    BY <1>2, <2>1
  <2> SUFFICES ASSUME ~hasty PROVE Alone'
    BY <2>1 DEF Alone
  <2> QED
    BY <1>0, <2>1, <2>2 DEF Alone, Fits, InHand
<1>5. CASE Check
  <2>1. UNCHANGED <<scripts, hasty>> /\ pc = "check" /\ pc' \in {"down", "call"}
    BY <1>5 DEF Check
  <2>2. /\ plan'.to = plan.to /\ plan'.amount \in Nat
        /\ pc' = "call" => 10 * plan'.amount <= 11 * plan.amount
    BY <1>5 DEF Check, TypeOK, Payment
  <2>3. InHand' = InHand
    BY <1>2, <2>1
  <2> SUFFICES ASSUME ~hasty PROVE Alone'
    BY <2>1 DEF Alone
  <2>4. plan.to = "1" /\ 100 * plan.amount <= 121 * (Need - got["1"]) /\ ~UnderWay
    BY <2>1 DEF Alone
  <2>5. pc' = "call" => 1000 * plan'.amount <= 1331 * (Need - got["1"])
    BY <1>1, <2>2, <2>4
  <2>6. InPool' = {} /\ InHand' = {}
    BY <1>0, <2>3, <2>4 DEF UnderWay
  <2>7. 1000 * got["1"] <= 1331 * Need
    BY DEF Alone
  <2> QED
    BY <1>0, <2>1, <2>5, <2>6, <2>7 DEF Alone, Fits, UnderWay
<1>6. CASE Call
  <2>1. PICK s \in Slots :
          /\ scripts[s].step = "none"
          /\ scripts' = [scripts EXCEPT ![s] =
               [step |-> "nonce",
                tx |-> [nonce |-> 0, to |-> plan.to, amount |-> plan.amount]]]
    BY <1>6 DEF Call
  <2>2. pc = "call" /\ pc' = "script" /\ UNCHANGED <<plan, hasty>>
    BY <1>6 DEF Call
  <2>3. /\ scripts'[s] = [step |-> "nonce",
                         tx |-> [nonce |-> 0, to |-> plan.to, amount |-> plan.amount]]
        /\ \A r \in Slots \ {s} : scripts'[r] = scripts[r]
    BY <2>1 DEF TypeOK
  <2>4. CASE plan.to = "1"
    <3> SUFFICES ASSUME ~hasty PROVE Alone'
      BY <2>2 DEF Alone
    <3>1. Fits(plan.amount) /\ InPool = {} /\ InHand = {}
      BY <2>2, <2>4 DEF Alone, UnderWay
    <3>2. InHand' = {s}
      BY <2>3, <2>4, <3>1 DEF InHand
    <3>3. scripts'[s].tx.amount = plan.amount
      BY <2>3
    <3> QED
      BY <1>0, <2>2, <3>1, <3>2, <3>3 DEF Alone, Fits
  <2>5. CASE plan.to # "1"
    <3>1. InHand' = InHand /\ s \notin InHand
      BY <2>1, <2>3, <2>5 DEF InHand
    <3> QED
      BY <1>0, <2>2, <2>3, <3>1, FewerAlone DEF InHand
  <2> QED
    BY <2>4, <2>5
<1>7. CASE Answer \/ Poll \/ Abort \/ Resume \/ Restart \/ Kill
  <2>1. /\ pc' \notin {"check", "call"} /\ hasty' = hasty
        /\ scripts' = scripts \/ scripts' = [scripts EXCEPT ![mine] = NoScript]
    BY <1>7 DEF Answer, Poll, Abort, Resume, Restart, Kill
  <2>2. InHand' \subseteq InHand /\ \A s \in InHand' : scripts'[s] = scripts[s]
    BY <2>1 DEF InHand, NoScript, TypeOK
  <2> QED
    BY <1>0, <2>1, <2>2, FewerAlone
<1>8. CASE Monitoring
  <2>1. UNCHANGED <<scripts, hasty, pc, plan>>
    BY <1>8 DEF Monitoring, vars, decision
  <2> QED
    BY <1>0, <1>2, <2>1, FewerAlone
<1> QED
  BY <1>3, <1>4, <1>5, <1>6, <1>7, <1>8 DEF Caller, Detect

(* What the node takes goes from the script's hands into the pool. *)
LEMMA TakenAlone ==
  ASSUME Inv, Alone, NEW s \in Slots, Taken(s), scripts[s].step = "send",
         scripts'[s].step \in {"receipt", "error", "none"},
         \A r \in Slots \ {s} : scripts'[r] = scripts[r],
         UNCHANGED <<got, hasty, pc, plan>>
  PROVE  Alone'
<1> USE DEF Inv
<1> DEFINE tx == scripts[s].tx
<1>1. InHand' = InHand \ {s}
  BY DEF InHand
<1>2. pool' = (pool \ Rivals(s)) \cup {tx}
  BY DEF Taken
<1>3. CASE tx.to # "1"
  <2>1. InPool' \subseteq InPool
    BY <1>2, <1>3 DEF InPool
  <2>2. InHand' \subseteq InHand /\ s \notin InHand'
    BY <1>1
  <2>3. \A r \in InHand' : scripts'[r].tx.amount = scripts[r].tx.amount
    BY <2>2 DEF InHand
  <2> QED
    BY <2>1, <2>2, <2>3, FewerAlone
<1>4. CASE tx.to = "1"
  <2> SUFFICES ASSUME ~hasty PROVE Alone'
    BY DEF Alone
  <2>1. s \in InHand
    BY <1>4 DEF InHand
  <2>2. Fits(tx.amount) /\ InPool = {} /\ InHand = {s}
    BY <2>1 DEF Alone
  <2>3. UnderWay
    BY <2>1 DEF UnderWay
  <2>4. InHand' = {} /\ InPool' = {tx}
    <3>1. InPool' = {tx}
      BY <1>2, <1>4, <2>2 DEF InPool
    <3> QED
      BY <1>1, <2>2, <3>1
  <2>5. ~(pc \in {"check", "call"} /\ plan.to = "1")
    BY <2>3 DEF Alone
  <2> HIDE DEF tx
  <2>6. 1000 * got["1"] <= 1331 * Need /\ (pc = "check" => plan.to = "1")
    BY DEF Alone
  <2> QED
    BY <2>2, <2>4, <2>5, <2>6 DEF Alone, Fits
<1> QED
  BY <1>3, <1>4

LEMMA ScriptAlone ==
  ASSUME Inv, Alone, NEW s \in Slots, Run(s) \/ SendLost(s) \/ Fail(s)
  PROVE  Alone'
<1> USE DEF Inv
<1>0. UNCHANGED <<got, hasty, pc, plan>>
  BY DEF Run, GetNonce, TakesNonce, NextNonce, Send, Reject, Receipt, Expire, SendLost, Fail,
     ether, decision
<1>1. CASE GetNonce(s) \/ NextNonce(s)
  <2>1. /\ scripts'[s].tx.to = scripts[s].tx.to /\ scripts'[s].tx.amount = scripts[s].tx.amount
        /\ scripts'[s].step = "send" /\ scripts[s].step \in {"nonce", "send"}
        /\ \A r \in Slots \ {s} : scripts'[r] = scripts[r]
        /\ pool' = pool
    BY <1>1 DEF GetNonce, TakesNonce, NextNonce, Refused, TypeOK, Script, Tx, ether
  <2>2. InHand' = InHand /\ InPool' = InPool
    BY <2>1 DEF InHand, InPool
  <2>3. \A r \in Slots : scripts'[r].tx.amount = scripts[r].tx.amount
    BY <2>1
  <2> QED
    BY <1>0, <2>2, <2>3, FewerAlone DEF InHand
<1>2. CASE Send(s)
  <2>1. scripts' = [scripts EXCEPT ![s].step = "receipt"] /\ Taken(s) /\ scripts[s].step = "send"
    BY <1>2 DEF Send, Step
  <2>2. scripts'[s].step = "receipt" /\ \A r \in Slots \ {s} : scripts'[r] = scripts[r]
    BY <2>1 DEF TypeOK, Script
  <2> QED
    BY <1>0, <2>1, <2>2, TakenAlone
<1>3. CASE SendLost(s) \/ Reject(s) \/ Receipt(s) \/ Expire(s) \/ Fail(s)
  <2>1. /\ scripts'[s].step \in {"ok", "error", "none"}
        /\ SendLost(s) => scripts'[s].step \in {"error", "none"}
        /\ \A r \in Slots \ {s} : scripts'[r] = scripts[r]
    BY <1>3 DEF SendLost, Reject, Receipt, Expire, Fail, Exit, Step, NoScript, TypeOK, Script
  <2>2. CASE SendLost(s)
    BY <1>0, <2>1, <2>2, TakenAlone DEF SendLost
  <2>3. CASE ~SendLost(s)
    <3>1. InPool' = InPool
      BY <1>3, <2>3 DEF Reject, Receipt, Expire, Fail, ether, InPool
    <3>2. InHand' \subseteq InHand /\ \A r \in InHand' : scripts'[r] = scripts[r]
      BY <2>1 DEF InHand
    <3> QED
      BY <1>0, <3>1, <3>2, FewerAlone
  <2> QED
    BY <2>2, <2>3
<1> QED
  BY <1>1, <1>2, <1>3 DEF Run

(* What is mined was alone, and it fits. *)
LEMMA MineAlone ==
  ASSUME Inv, Alone, NEW t \in pool, Mine(t)
  PROVE  Alone'
<1> USE DEF Inv
<1>1. /\ UNCHANGED <<scripts, pc, plan, hasty>> /\ pool' = pool \ {t}
      /\ got' = got \/ got' = [got EXCEPT ![t.to] = @ + t.amount]
  BY DEF Mine, decision
<1>2. InHand' = InHand /\ InPool' = InPool \ {t}
  BY <1>1 DEF InHand, InPool
<1>3. got["1"] \in Nat /\ Need \in Nat /\ t.amount \in Nat /\ t.to \in Accounts
  BY Nothing DEF TypeOK, Tx
<1>4. CASE t.to = "1"
  <2> SUFFICES ASSUME ~hasty PROVE Alone'
    BY <1>1 DEF Alone
  <2>1. t \in InPool
    BY <1>4 DEF InPool
  <2>2. Fits(t.amount) /\ InHand = {} /\ InPool = {t} /\ 1000 * got["1"] <= 1331 * Need
    BY <2>1 DEF Alone
  <2>3. ~(pc \in {"check", "call"} /\ plan.to = "1") /\ pc # "check"
    BY <2>1 DEF Alone, UnderWay
  <2>4. got'["1"] = got["1"] \/ got'["1"] = got["1"] + t.amount
    BY <1>1, <1>4 DEF TypeOK, Accounts
  <2>5. 1000 * got'["1"] <= 1331 * Need
    BY <1>3, <2>2, <2>4 DEF Fits
  <2>6. InHand' = {} /\ InPool' = {}
    BY <1>2, <2>2
  <2> QED
    BY <1>1, <2>3, <2>5, <2>6 DEF Alone
<1>5. CASE t.to # "1"
  <2>1. got'["1"] = got["1"] /\ InPool' = InPool
    BY <1>1, <1>2, <1>5 DEF TypeOK, Accounts, InPool
  <2> QED
    BY <1>1, <1>2, <2>1 DEF Alone, Fits, UnderWay
<1> QED
  BY <1>4, <1>5

LEMMA StepAlone == Inv /\ Alone /\ [Next]_vars => Alone'
<1> SUFFICES ASSUME Inv, Alone, [Next]_vars PROVE Alone'
  OBVIOUS
<1>1. CASE Caller \/ Monitoring \/ Kill
  BY <1>1, CallerAlone
<1>2. CASE \E s \in Slots : Run(s) \/ SendLost(s) \/ Fail(s)
  BY <1>2, ScriptAlone
<1>3. CASE Mining
  BY <1>3, MineAlone DEF Mining
<1>4. CASE Forget \/ UNCHANGED vars
  <2>1. pool' \subseteq pool /\ UNCHANGED <<got, scripts, pc, plan, hasty>>
    BY <1>4 DEF Forget, vars, ether, decision
  <2>2. InPool' \subseteq InPool /\ InHand' = InHand
    BY <2>1 DEF InPool, InHand
  <2> QED
    BY <2>1, <2>2, FewerAlone
<1> QED
  BY <1>1, <1>2, <1>3, <1>4 DEF Next

(* dYdX is paid no more than it lacks and the tolerances, for any number   *)
(* of kills, orphans, faults and repetitions, unless the strategy decides  *)
(* on a deposit while an earlier one is still under way; in that case dYdX *)
(* may be paid by both.                                                    *)
THEOREM NoSecondPayment == Spec => []PaidOnce
<1>1. Spec => []Alone
  BY OpeningAlone, StepAlone, Invariance, PTL DEF Spec
<1>2. Alone => PaidOnce
  BY DEF Alone, PaidOnce
<1> QED
  BY <1>1, <1>2, PTL

-----------------------------------------------------------------------------
(* WalletScript implements Payments, step by step. *)

(* A payment before the chain, and its place. *)
Item(t) == [at |-> t.nonce, pay |-> Content(t)]

LEMMA Removed ==
  ASSUME Inv, NEW t \in pool, pool' = pool \ {t}
  PROVE  Item(t) \in Before /\ Before' = Before \ {Item(t)}
<1>1. Before = {Item(u) : u \in pool} /\ Before' = {Item(u) : u \in pool'}
  BY DEF Before, Item
<1>2. \A u \in pool : Item(u) = Item(t) => u = t
  BY DEF Item, Inv, Numbered
<1> QED
  BY <1>1, <1>2

LEMMA PromiseInit == Init => Promise!Init
<1> SUFFICES ASSUME Init PROVE Promise!Init
  OBVIOUS
<1>1. Carried = [s \in Slots |-> {}] /\ Before = {} /\ Since = {}
  BY DEF Init, NoScript, Carried, Before, Since
<1>2. Stage = "rest" /\ wallet \in Nat /\ got = [a \in Accounts |-> 0]
  BY NeedAssumption DEF Init, Stage
<1>3. Wanted \in Promise!Payment
  BY Blank DEF Init, Wanted, Content, Payment, Promise!Payment
<1> QED
  BY <1>1, <1>2, <1>3 DEF Promise!Init

(* The caller decides, asks, hears of the end, or is killed. *)
LEMMA CallerKeepsPromise ==
  ASSUME Inv, Caller \/ Monitoring \/ Kill
  PROVE  [Promise!Next]_(Promise!vars)
<1> USE DEF Inv, TypeOK
<1>0. /\ UNCHANGED ether /\ Before' = Before
      /\ plan' = plan => Wanted' = Wanted /\ Since' = Since
      /\ scripts' = scripts => Carried' = Carried
  BY DEF Caller, Monitoring, Kill, Detect, DetectToE1, DetectToEe, Check, Call, Answer, Poll,
     Abort, Resume, Restart, ether, vars, Before, Wanted, Since, Carried
<1>1. CASE Detect \/ Check
  <2>1. /\ Stage = "rest" /\ Stage' = "rest" /\ Carried' = Carried
        /\ UNCHANGED <<wallet, got>>
    BY <1>0, <1>1 DEF Detect, DetectToE1, DetectToEe, Check, Stage, ether
  <2>2. Since' \in {{}, Since}
    <3>1. CASE Detect
      <4>1. plan'.mined = Mined /\ chain' = chain /\ Mined \in Nat
        BY <3>1, Counted DEF Detect, DetectToE1, DetectToEe, ether, Numbered
      <4>2. \A c \in chain : c.tx.nonce \in Nat /\ c.tx.nonce < Mined
        BY DEF Numbered, Tx
      <4> QED
        BY <4>1, <4>2 DEF Since
    <3>2. CASE Check
      <4>1. plan'.mined = plan.mined /\ chain' = chain
        BY <3>2 DEF Check, ether, Payment
      <4> QED
        BY <4>1 DEF Since
    <3> QED
      BY <1>1, <3>1, <3>2
  <2>3. plan' \in Payment
    BY <1>1, CallerInv DEF Caller
  <2>4. Wanted' \in Promise!Payment
    BY <2>3 DEF Wanted, Content, Payment, Promise!Payment
  <2>5. Promise!Decide
    BY <1>0, <2>1, <2>2, <2>4 DEF Promise!Decide
  <2> QED
    BY <2>5 DEF Promise!Next
<1>2. CASE Call
  <2>1. PICK s \in Slots :
          /\ scripts[s].step = "none" /\ mine' = s
          /\ scripts' = [scripts EXCEPT ![s] =
               [step |-> "nonce",
                tx |-> [nonce |-> 0, to |-> plan.to, amount |-> plan.amount]]]
    BY <1>2 DEF Call
  <2>2. pc = "call" /\ pc' = "script" /\ plan' = plan /\ UNCHANGED <<wallet, got>>
    BY <1>2 DEF Call, ether
  <2>3. Stage = "rest" /\ Stage' = "asked"
    BY <2>1, <2>2 DEF Stage
  <2>4. Carried[s] = {} /\ Carried' = [Carried EXCEPT ![s] = {Wanted}]
    BY <2>1 DEF Carried, Wanted, Content
  <2>5. Promise!Ask
    BY <1>0, <2>2, <2>3, <2>4 DEF Promise!Ask
  <2> QED
    BY <2>5 DEF Promise!Next
<1>3. CASE Answer
  <2>1. /\ pc = "script" /\ scripts[mine].step \in {"ok", "error"}
        /\ pc' \in {"poll", "paused"} /\ plan' = plan
        /\ scripts' = [scripts EXCEPT ![mine] = NoScript] /\ UNCHANGED <<wallet, got>>
    BY <1>3 DEF Answer, decision, ether
  <2>2. Carried' = Carried
    BY <2>1 DEF Carried, NoScript
  <2>3. Stage' = "rest"
    BY <2>1 DEF Stage
  <2>4. Promise!End
    BY <1>0, <2>1, <2>2, <2>3 DEF Promise!End
  <2> QED
    BY <2>4 DEF Promise!Next
<1>4. CASE Poll \/ Abort \/ Resume \/ Restart \/ Monitoring
  <2>1. /\ pc # "script" /\ pc' # "script"
        /\ UNCHANGED <<wallet, got, scripts, plan>>
    BY <1>4 DEF Poll, Abort, Resume, Restart, Monitoring, decision, ether, vars
  <2>2. Stage' = Stage
    BY <2>1 DEF Stage
  <2> QED
    BY <1>0, <2>1, <2>2 DEF Promise!vars
<1>5. CASE Kill
  <2>1. /\ pc' = "down" /\ UNCHANGED <<wallet, got, plan>>
        /\ scripts' = scripts \/ scripts' = [scripts EXCEPT ![mine] = NoScript]
    BY <1>5 DEF Kill, decision, ether
  <2>2. Stage' = "rest"
    BY <2>1 DEF Stage
  <2>3. CASE scripts' = scripts
    <3>1. Promise!End
      BY <1>0, <2>1, <2>2, <2>3 DEF Promise!End
    <3> QED
      BY <3>1 DEF Promise!Next
  <2>4. CASE scripts' = [scripts EXCEPT ![mine] = NoScript]
    <3>1. Carried' = [Carried EXCEPT ![mine] = {}]
      BY <2>4 DEF Carried, NoScript
    <3>2. Promise!Drop(mine)
      BY <1>0, <2>1, <2>2, <3>1 DEF Promise!Drop
    <3> QED
      BY <3>2 DEF Promise!Next
  <2> QED
    BY <2>1, <2>3, <2>4
<1> QED
  BY <1>1, <1>2, <1>3, <1>4, <1>5 DEF Caller

(* A script that ends with an error has nothing in hand any more. *)
LEMMA ExitDrops ==
  ASSUME Inv, NEW s \in Slots, Exit(s, "error"), scripts[s].step # "ok", UNCHANGED <<pc, mine>>
  PROVE  /\ Carried' = [Carried EXCEPT ![s] = {}]
         /\ Stage' = Stage
<1> USE DEF Inv, TypeOK
<1>1. \/ /\ pc = "script" /\ s = mine
         /\ scripts' = [scripts EXCEPT ![s].step = "error"]
      \/ /\ ~(pc = "script" /\ s = mine)
         /\ scripts' = [scripts EXCEPT ![s] = NoScript]
  BY DEF Exit, Step
<1>2. scripts'[s].step \in {"error", "none"} /\ \A r \in Slots \ {s} : scripts'[r] = scripts[r]
  BY <1>1 DEF NoScript, Script
<1>3. Carried' = [Carried EXCEPT ![s] = {}]
  BY <1>2 DEF Carried
<1>4. Stage' = Stage
  BY <1>1, <1>2 DEF Stage
<1> QED
  BY <1>3, <1>4

(* What the node takes is what was in hand, in the place of what had its   *)
(* nonce.                                                                  *)
LEMMA TakenIsPresented ==
  ASSUME Inv, NEW s \in Slots, Taken(s), scripts[s].step = "send"
  PROVE  \E x \in Before' : /\ x.pay \in Carried[s]
                            /\ Before' = {y \in Before : y.at # x.at} \cup {x}
<1> DEFINE tx == scripts[s].tx
           x  == Item(tx)
<1>1. Before = {Item(u) : u \in pool} /\ Before' = {Item(u) : u \in pool'}
  BY DEF Before, Item
<1>2. pool' = {u \in pool : u.nonce # tx.nonce} \cup {tx}
  BY DEF Taken, Rivals
<1>3. x.at = tx.nonce /\ x.pay = Content(tx) /\ \A u : Item(u).at = u.nonce
  BY DEF Item
<1>4. x.pay \in Carried[s]
  BY <1>3 DEF Carried
<1>5. x \in Before' /\ Before' = {y \in Before : y.at # x.at} \cup {x}
  <2> HIDE DEF tx
  <2>1. Before' = {Item(u) : u \in {v \in pool : v.nonce # tx.nonce}} \cup {Item(tx)}
    BY <1>1, <1>2
  <2>2. {y \in Before : y.at # tx.nonce} = {Item(u) : u \in {v \in pool : v.nonce # tx.nonce}}
    BY <1>1, <1>3
  <2> QED
    BY <1>3, <2>1, <2>2
<1> QED
  BY <1>4, <1>5

LEMMA ScriptKeepsPromise ==
  ASSUME Inv, NEW s \in Slots, Run(s) \/ SendLost(s) \/ Fail(s)
  PROVE  [Promise!Next]_(Promise!vars)
<1> USE DEF Inv, TypeOK
<1>0. UNCHANGED <<wallet, got, pc, mine, Wanted, Since>>
  BY DEF Run, GetNonce, TakesNonce, NextNonce, Send, Reject, Receipt, Expire, SendLost, Fail,
     ether, decision, Wanted, Since
<1>1. CASE GetNonce(s) \/ NextNonce(s)
  <2>1. scripts[s].step \in {"nonce", "send"} /\ pool' = pool
    BY <1>1 DEF GetNonce, TakesNonce, NextNonce, Refused, ether
  <2>2. /\ scripts'[s].step = "send" /\ scripts'[s].tx.to = scripts[s].tx.to
        /\ scripts'[s].tx.amount = scripts[s].tx.amount
        /\ \A r \in Slots \ {s} : scripts'[r] = scripts[r]
    BY <1>1 DEF GetNonce, TakesNonce, NextNonce, Refused, Script, Tx
  <2>3. Content(scripts'[s].tx) = Content(scripts[s].tx)
    BY <2>2 DEF Content
  <2>4. Carried' = Carried
    BY <2>1, <2>2, <2>3 DEF Carried
  <2>5. Before' = Before /\ Stage' = Stage
    BY <1>0, <2>1, <2>2 DEF Before, Stage
  <2> QED
    BY <1>0, <2>4, <2>5 DEF Promise!vars
<1>2. CASE Send(s) \/ SendLost(s)
  <2>1. \E x \in Before' : /\ x.pay \in Carried[s]
                           /\ Before' = {y \in Before : y.at # x.at} \cup {x}
    BY <1>2, TakenIsPresented DEF Send, SendLost
  <2>2. Carried' = [Carried EXCEPT ![s] = {}] /\ Stage' = Stage
    <3>1. CASE Send(s)
      <4>1. scripts' = [scripts EXCEPT ![s].step = "receipt"] /\ scripts[s].step = "send"
        BY <3>1 DEF Send, Step
      <4>2. scripts'[s].step = "receipt" /\ \A r \in Slots \ {s} : scripts'[r] = scripts[r]
        BY <4>1 DEF Script
      <4> QED
        BY <1>0, <4>1, <4>2 DEF Carried, Stage
    <3>2. CASE SendLost(s)
      BY <1>0, <3>2, ExitDrops DEF SendLost
    <3> QED
      BY <1>2, <3>1, <3>2
  <2>3. Promise!Present(s)
    BY <1>0, <2>1, <2>2 DEF Promise!Present
  <2> QED
    BY <2>3 DEF Promise!Next
<1>3. CASE Reject(s) \/ Fail(s) \/ Expire(s) \/ (Receipt(s) /\ Exit(s, "error"))
  <2>1. Exit(s, "error") /\ scripts[s].step # "ok" /\ pool' = pool
    BY <1>3 DEF Reject, Refused, Fail, Expire, Receipt, ether
  <2>2. Carried' = [Carried EXCEPT ![s] = {}] /\ Stage' = Stage
    BY <1>0, <2>1, ExitDrops
  <2>3. Before' = Before
    BY <2>1 DEF Before
  <2>4. Promise!Drop(s)
    BY <1>0, <2>2, <2>3 DEF Promise!Drop
  <2> QED
    BY <2>4 DEF Promise!Next
<1>4. CASE Receipt(s) /\ ~Exit(s, "error")
  <2>1. PICK c \in chain : c.tx = scripts[s].tx /\ c.ok /\ Exit(s, "ok")
    BY <1>4 DEF Receipt
  <2>2. scripts[s].step = "receipt" /\ pool' = pool
    BY <1>4 DEF Receipt, ether
  <2>3. Before' = Before
    BY <2>2 DEF Before
  <2>4. CASE pc = "script" /\ s = mine
    <3>1. scripts' = [scripts EXCEPT ![s].step = "ok"]
      BY <2>1, <2>4 DEF Exit, Step
    <3>2. scripts'[s].step = "ok" /\ \A r \in Slots \ {s} : scripts'[r] = scripts[r]
      BY <3>1 DEF Script
    <3>3. Carried' = Carried /\ Stage = "asked" /\ Stage' = "done"
      BY <1>0, <2>2, <2>4, <3>2 DEF Carried, Stage
    <3>4. Wanted \in Since
      <4>1. c.ok /\ c.tx.to = plan.to /\ c.tx.amount = plan.amount
        BY <2>1, <2>4 DEF Paid
      <4>2. c.tx.nonce >= plan.mined
        BY <2>1, <2>2, <2>4 DEF Paid, Dated, Script, Tx, Payment
      <4> QED
        BY <4>1, <4>2 DEF Wanted, Since, Content
    <3>5. Promise!Succeed
      BY <1>0, <2>3, <3>3, <3>4 DEF Promise!Succeed
    <3> QED
      BY <3>5 DEF Promise!Next
  <2>5. CASE ~(pc = "script" /\ s = mine)
    <3>1. scripts' = [scripts EXCEPT ![s] = NoScript]
      BY <2>1, <2>5 DEF Exit
    <3>2. Carried' = Carried /\ Stage' = Stage
      BY <1>0, <2>2, <2>5, <3>1 DEF Carried, Stage, NoScript
    <3> QED
      BY <1>0, <2>3, <3>2 DEF Promise!vars
  <2> QED
    BY <2>4, <2>5
<1> QED
  BY <1>1, <1>2, <1>3, <1>4 DEF Run

(* What is mined is paid or reverted; either way its place is free. *)
LEMMA MineKeepsPromise ==
  ASSUME Inv, NEW t \in pool, Mine(t)
  PROVE  [Promise!Next]_(Promise!vars)
<1> USE DEF Inv, TypeOK
<1> DEFINE c     == [tx |-> t, ok |-> t.amount <= wallet]
           after == {d \in chain : d.ok /\ d.tx.nonce >= plan.mined}
<1>1. /\ t.nonce = Mined /\ pool' = pool \ {t} /\ chain' = chain \cup {c}
      /\ UNCHANGED <<scripts, pc, decision>>
  BY DEF Mine
<1>2. Before' = Before \ {Item(t)} /\ UNCHANGED <<Carried, Stage, Wanted>>
  BY <1>1, Removed DEF Carried, Stage, Wanted, decision
<1>3. /\ Item(t) \in Before /\ Item(t).pay = Content(t)
      /\ Content(t).to = t.to /\ Content(t).amount = t.amount
  BY <1>1, Removed DEF Item, Content
<1>4. plan' = plan /\ t.nonce >= plan.mined
  BY <1>1, Counted DEF decision, Dated, Numbered, Payment
<1>5. CASE t.amount <= wallet
  <2>1. Since' = Since \cup {Content(t)}
    <3>1. c.ok /\ c.tx = t
      BY <1>5
    <3> HIDE DEF c
    <3>2. after' = after \cup {c}
      BY <1>1, <1>4, <3>1
    <3> HIDE DEF after
    <3>3. {Content(d.tx) : d \in after \cup {c}} = {Content(d.tx) : d \in after} \cup {Content(c.tx)}
      OBVIOUS
    <3> QED
      BY <3>1, <3>2, <3>3 DEF Since, after
  <2>2. wallet' = wallet - t.amount /\ got' = [got EXCEPT ![t.to] = @ + t.amount]
    BY <1>5 DEF Mine
  <2>3. Promise!Make
    BY <1>2, <1>3, <1>5, <2>1, <2>2, Zenon DEF Promise!Make
  <2> QED
    BY <2>3 DEF Promise!Next
<1>6. CASE ~(t.amount <= wallet)
  <2>1. Since' = Since /\ UNCHANGED <<wallet, got>>
    <3>1. ~c.ok
      BY <1>6
    <3> HIDE DEF c
    <3>2. after' = after
      BY <1>1, <1>4, <3>1
    <3>3. Since' = Since
      BY <3>2 DEF Since
    <3> QED
      BY <1>6, <3>3 DEF Mine
  <2>2. Promise!Lose
    BY <1>2, <1>3, <2>1 DEF Promise!Lose
  <2> QED
    BY <2>2 DEF Promise!Next
<1> QED
  BY <1>5, <1>6

LEMMA PromiseStep == Inv /\ [Next]_vars => [Promise!Next]_(Promise!vars)
<1> SUFFICES ASSUME Inv, [Next]_vars PROVE [Promise!Next]_(Promise!vars)
  OBVIOUS
<1>1. CASE Caller \/ Monitoring \/ Kill
  BY <1>1, CallerKeepsPromise
<1>2. CASE \E s \in Slots : Run(s) \/ SendLost(s) \/ Fail(s)
  BY <1>2, ScriptKeepsPromise
<1>3. CASE Mining
  BY <1>3, MineKeepsPromise DEF Mining
<1>4. CASE Forget
  <2>1. PICK t \in pool :
          pool' = pool \ {t} /\ UNCHANGED <<wallet, got, chain, scripts, pc, decision>>
    BY <1>4 DEF Forget
  <2>2. Item(t) \in Before /\ Before' = Before \ {Item(t)}
    BY <2>1, Removed
  <2>3. UNCHANGED <<Carried, Stage, Wanted, Since>>
    BY <2>1 DEF Carried, Stage, Wanted, Since, decision
  <2>4. Promise!Lose
    BY <2>1, <2>2, <2>3 DEF Promise!Lose
  <2> QED
    BY <2>4 DEF Promise!Next
<1>5. CASE UNCHANGED vars
  BY <1>5 DEF vars, ether, decision, Promise!vars, Carried, Before, Stage, Wanted, Since
<1> QED
  BY <1>1, <1>2, <1>3, <1>4, <1>5 DEF Next

(* The deposits keep the promise of Payments: for any number of kills,     *)
(* faults, orphans and refused nonces, each call of the script has at most *)
(* one payment made, it takes one place before the chain, and success is   *)
(* reported for a payment that was made.                                   *)
THEOREM PaymentsKept == Spec => KeepsPayments
<1>1. Spec => []Inv
  BY Invariance
<1> QED
  BY <1>1, PromiseInit, PromiseStep, PTL DEF Spec, KeepsPayments, Promise!Spec
=============================================================================
