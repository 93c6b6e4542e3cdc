----------------------------- MODULE WalletScript -----------------------------
(***************************************************************************)
(* A deposit from the wallet, from the strategy's reading of the balances  *)
(* to the transaction in the chain: run_script in src/src/helpers.rs and   *)
(* the script it calls, src/misc/eth-operations.py.  For Binance the       *)
(* script itself takes the number of the wallet's mined transactions for   *)
(* its nonce and sends; for dYdX it leaves both to the library dydx3,      *)
(* which begins with the same nonce and, when the node refuses it as too   *)
(* low or the fee as too little to replace another transaction, tries the  *)
(* next one.  Either way it waits ten minutes at most for a receipt, and   *)
(* exits with an error whatever goes wrong.  The caller is blocked         *)
(* meanwhile: operations_timeout cannot interrupt it, but the process may  *)
(* be killed and the script live on.  An error says nothing of the         *)
(* payment, which may be sent, or even mined.                              *)
(*                                                                         *)
(* The chain, its nodes and dydx3 are external.  A transaction is its      *)
(* content: to send it twice is to send the same one.  Amounts are USDC.   *)
(***************************************************************************)
EXTENDS Integers, FiniteSets

CONSTANTS
  Need,       \* what dYdX lacks in the beginning
  Openings,   \* USDC in the wallet
  MaxPending, \* bound: nonces that deposits to dYdX are decided on for
  MaxFaults,  \* bound: errors of the nodes, transactions they forget
  MaxKills    \* bound

Least == 1      \* detection moves no less

ASSUME NeedAssumption   == Need \in Nat /\ Openings \subseteq Nat
ASSUME BoundsAssumption == {MaxPending, MaxFaults, MaxKills} \subseteq Nat

VARIABLES
  wallet,   \* USDC the chain has for the wallet
  got,      \* what has come in
  chain,    \* mined transactions of the wallet, each with its status
  pool,     \* transactions that wait to be mined
  scripts,  \* the scripts that run: the caller's, and what kills have left
  pc,       \* where the caller is
  plan,     \* what it has decided to pay
  mine,     \* which of the scripts is its own
  base,     \* what the destination had before
  hasty,    \* history: dYdX was to be paid while an earlier payment to it
            \* was still under way
  faults, kills \* how often each of the bounded things happened

ether    == <<wallet, got, chain, pool>>
decision == <<plan, mine, base>>
bounds   == <<faults, kills>>
vars     == <<ether, scripts, pc, decision, hasty, bounds>>

Accounts == {"1", "3"}    \* dYdX and Binance

Slots   == 1 .. MaxKills + 1
Tx      == [nonce : Nat, to : Accounts, amount : Nat]
Payment == [to : Accounts, amount : Nat, mined : Nat]
Script  == [step : {"none", "nonce", "send", "receipt", "ok", "error"},
            tx : Tx]

TypeOK ==
  /\ wallet \in Nat /\ got \in [Accounts -> Nat]
  /\ pool \subseteq Tx /\ chain \subseteq [tx : Tx, ok : BOOLEAN]
  /\ scripts \in [Slots -> Script]
  /\ pc \in {"idle", "check", "call", "script", "poll", "paused", "down"}
  /\ plan \in Payment /\ mine \in Slots /\ base \in Nat
  /\ hasty \in BOOLEAN /\ faults \in 0 .. MaxFaults /\ kills \in 0 .. MaxKills

NoTx     == [nonce |-> 0, to |-> "1", amount |-> 0]
NoScript == [step |-> "none", tx |-> NoTx]
NoPlan   == [to |-> "1", amount |-> 0, mined |-> 0]

Init ==
  /\ wallet \in Openings /\ got = [a \in Accounts |-> 0]
  /\ chain = {} /\ pool = {} /\ scripts = [s \in Slots |-> NoScript]
  /\ pc = "idle" /\ plan = NoPlan /\ mine = 1 /\ base = 0
  /\ hasty = FALSE /\ faults = 0 /\ kills = 0

Mined == Cardinality(chain)
Fault == faults < MaxFaults /\ faults' = faults + 1 /\ UNCHANGED kills

-----------------------------------------------------------------------------
(* The caller. *)

Lack == IF got["1"] < Need THEN Need - got["1"] ELSE 0

Smaller(x, y) == IF x < y THEN x ELSE y

(* What is decided on for dYdX: what it lacks with the tolerance of a      *)
(* tenth twice (strategy.rs 540, 625), as far as the wallet has it; or the *)
(* smaller of the two with the tolerance (732), more than there may be.    *)
AmountsToE1 == {Smaller(wallet, (121 * Lack) \div 100), (11 * Smaller(Lack, wallet)) \div 10}

(* Payments to dYdX that may still be made. *)
InPool == {t \in pool : t.to = "1"}
InHand == {s \in Slots : scripts[s].step \in {"nonce", "send"} /\ scripts[s].tx.to = "1"}
UnderWay == InPool # {} \/ InHand # {}

Room == \E n \in Mined .. Mined + MaxPending - 1 : \A t \in pool : t.nonce # n

(* detect_current_state; what try_join reads is taken as one reading.      *)
(* Whether dYdX or Kraken is to have the money depends on the price.       *)
DetectToE1 ==
  /\ pc = "idle" /\ wallet >= Least /\ Lack >= Least /\ Room
  /\ \E x \in AmountsToE1 : plan' = [to |-> "1", amount |-> x, mined |-> Mined]
  /\ pc' = "check"
  /\ hasty' = (hasty \/ UnderWay)
  /\ UNCHANGED <<ether, scripts, mine, base, bounds>>

(* For Kraken the whole wallet goes to Binance. *)
DetectToEe ==
  /\ pc = "idle" /\ wallet >= Least
  /\ plan' = [to |-> "3", amount |-> wallet, mined |-> Mined]
  /\ pc' = "call"
  /\ UNCHANGED <<ether, scripts, mine, base, hasty, bounds>>

Detect == DetectToE1 \/ DetectToEe

Monitoring == pc = "idle" /\ UNCHANGED vars

(* do_wallet_to_e1 reads the wallet again. *)
Check ==
  /\ pc = "check"
  /\ pc' = IF 10 * wallet < 9 * plan.amount THEN "down" ELSE "call"
  /\ plan' = IF 10 * wallet < 9 * plan.amount \/ 10 * wallet > 11 * plan.amount
             THEN plan ELSE [plan EXCEPT !.amount = wallet]
  /\ UNCHANGED <<ether, scripts, mine, base, hasty, bounds>>

(* internal_do_deposit's own reading, and the start of the script. *)
Call ==
  /\ pc = "call" /\ pc' = "script"
  /\ base' = got[plan.to]
  /\ \E s \in Slots :
       /\ scripts[s].step = "none" /\ \A t \in Slots : scripts[t].step = "none" => s <= t
       /\ mine' = s
       /\ scripts' = [scripts EXCEPT ![s] =
            [step |-> "nonce",
             tx |-> [nonce |-> 0, to |-> plan.to, amount |-> plan.amount]]]
  /\ UNCHANGED <<ether, plan, hasty, bounds>>

(* cmd.output() returns; the exit status and stderr tell an error. *)
Answer ==
  /\ pc = "script" /\ scripts[mine].step \in {"ok", "error"}
  /\ pc' = IF scripts[mine].step = "ok" THEN "poll" ELSE "paused"
  /\ scripts' = [scripts EXCEPT ![mine] = NoScript]
  /\ UNCHANGED <<ether, decision, hasty, bounds>>

Arrived == 10 * (got[plan.to] - base) >= 9 * plan.amount

Poll ==
  /\ pc = "poll" /\ Arrived
  /\ pc' = "idle"
  /\ UNCHANGED <<ether, scripts, decision, hasty, bounds>>

(* operations_timeout, or an error of another request. *)
Abort ==
  /\ \/ pc \in {"check", "call"} /\ Fault
     \/ pc = "poll" /\ ~Arrived /\ UNCHANGED bounds
  /\ pc' = "paused"
  /\ UNCHANGED <<ether, scripts, decision, hasty>>

Resume ==
  /\ pc = "paused" /\ pc' = "idle"
  /\ UNCHANGED <<ether, scripts, decision, hasty, bounds>>

(* The process goes, and its script with it or not. *)
Kill ==
  /\ pc # "down" /\ kills < MaxKills /\ kills' = kills + 1
  /\ pc' = "down"
  /\ scripts' \in {scripts, [scripts EXCEPT ![mine] = NoScript]}
  /\ UNCHANGED <<ether, decision, hasty, faults>>

Restart ==
  /\ pc = "down" /\ pc' = "idle"
  /\ UNCHANGED <<ether, scripts, decision, hasty, bounds>>

-----------------------------------------------------------------------------
(* The script. *)

Step(s, step) == scripts' = [scripts EXCEPT ![s].step = step]
Exit(s, step) ==
  IF pc = "script" /\ s = mine THEN Step(s, step)
  ELSE scripts' = [scripts EXCEPT ![s] = NoScript]   \* nobody listens

TakesNonce(s, nonce) ==
  /\ scripts[s].step = "nonce"
  /\ scripts' = [scripts EXCEPT ![s].step = "send", ![s].tx.nonce = nonce]
  /\ UNCHANGED <<ether, pc, decision, hasty, bounds>>

(* Mutant: transactions that are not yet mined are counted as well. *)
GetNoncePending(s) == TakesNonce(s, Mined + Cardinality(pool))

(* Mutant: the number of the last transaction, not of the next one. *)
GetNonceLast(s) == TakesNonce(s, Mined - 1)

(* getTransactionCount: the mined ones. *)
GetNonce(s) == TakesNonce(s, Mined)

Rivals(s) == {t \in pool : t.nonce = scripts[s].tx.nonce}
Known(s)  == scripts[s].tx \in pool

(* The node takes the transaction: its nonce is not used up, and one with  *)
(* the same nonce is replaced if more is offered for gas.  The fees of     *)
(* transfers to Binance are fixed, those of dydx3 follow the market.       *)
Replaceable(s) == ~Known(s) /\ \A t \in Rivals(s) : ~(t.to = "3" /\ scripts[s].tx.to = "3")
Taken(s) ==
  /\ scripts[s].tx.nonce >= Mined
  /\ Replaceable(s)
  /\ pool' = (pool \ Rivals(s)) \cup {scripts[s].tx}

Send(s) ==
  /\ scripts[s].step = "send"
  /\ Taken(s) /\ Step(s, "receipt")
  /\ UNCHANGED <<wallet, got, chain, pc, decision, hasty, bounds>>

(* Nonce too low, or replacement underpriced: send_raw_transaction raises  *)
(* an error, and so it does for a transaction that is known.               *)
Refused(s) == scripts[s].step = "send" /\ (scripts[s].tx.nonce < Mined \/ Rivals(s) # {})

Reject(s) ==
  /\ Refused(s) /\ (scripts[s].tx.to = "1" => Known(s))
  /\ Exit(s, "error")
  /\ UNCHANGED <<ether, pc, decision, hasty, bounds>>

(* dydx3's deposit_to_exchange then tries the next nonce. *)
NextNonce(s) ==
  /\ Refused(s) /\ scripts[s].tx.to = "1"
  /\ scripts' = [scripts EXCEPT ![s].tx.nonce = @ + 1]
  /\ UNCHANGED <<ether, pc, decision, hasty, bounds>>

(* Mutant: the script tries again, with a nonce of its own each time.      *)
SendLostRetried(s) ==
  /\ scripts[s].step = "send" /\ Fault
  /\ Taken(s) /\ Step(s, "nonce")
  /\ UNCHANGED <<wallet, got, chain, pc, decision, hasty>>

(* The node takes the transaction, and its answer is an error. *)
SendLost(s) ==
  /\ scripts[s].step = "send" /\ Fault
  /\ Taken(s) /\ Exit(s, "error")
  /\ UNCHANGED <<wallet, got, chain, pc, decision, hasty>>

(* Any request fails: `except` prints the error and exits. *)
Fail(s) ==
  /\ scripts[s].step \in {"nonce", "send", "receipt"} /\ Fault
  /\ Exit(s, "error")
  /\ UNCHANGED <<ether, pc, decision, hasty>>

(* Mutant: the status of the receipt is not looked at. *)
ReceiptAnyStatus(s) ==
  /\ scripts[s].step = "receipt"
  /\ \E c \in chain : c.tx = scripts[s].tx /\ Exit(s, "ok")
  /\ UNCHANGED <<ether, pc, decision, hasty, bounds>>

Receipt(s) ==
  /\ scripts[s].step = "receipt"
  /\ \E c \in chain : c.tx = scripts[s].tx /\ Exit(s, IF c.ok THEN "ok" ELSE "error")
  /\ UNCHANGED <<ether, pc, decision, hasty, bounds>>

NoReceipt(s) == \A c \in chain : c.tx # scripts[s].tx

(* Mutant: only a transaction that is still in the pool is given up. *)
ExpireInPool(s) ==
  /\ scripts[s].step = "receipt" /\ NoReceipt(s) /\ scripts[s].tx \in pool
  /\ Exit(s, "error")
  /\ UNCHANGED <<ether, pc, decision, hasty, bounds>>

(* wait_for_transaction_receipt, after ten minutes. *)
Expire(s) ==
  /\ scripts[s].step = "receipt" /\ NoReceipt(s)
  /\ Exit(s, "error")
  /\ UNCHANGED <<ether, pc, decision, hasty, bounds>>

-----------------------------------------------------------------------------
(* The chain. *)

(* A transfer of more than the wallet holds is mined too, and reverted. *)
Mine(t) ==
  /\ t \in pool /\ t.nonce = Mined
  /\ pool' = pool \ {t}
  /\ chain' = chain \cup {[tx |-> t, ok |-> t.amount <= wallet]}
  /\ IF t.amount <= wallet
     THEN /\ wallet' = wallet - t.amount
          /\ got' = [got EXCEPT ![t.to] = @ + t.amount]
     ELSE UNCHANGED <<wallet, got>>
  /\ UNCHANGED <<scripts, pc, decision, hasty, bounds>>

Forget ==
  /\ Fault /\ \E t \in pool : pool' = pool \ {t}
  /\ UNCHANGED <<wallet, got, chain, scripts, pc, decision, hasty>>

-----------------------------------------------------------------------------
Caller == Detect \/ Check \/ Call \/ Answer \/ Poll \/ Abort \/ Resume \/ Restart

Run(s) == GetNonce(s) \/ Send(s) \/ Reject(s) \/ NextNonce(s) \/ Receipt(s) \/ Expire(s)

Mining == \E t \in pool : Mine(t)

Next ==
  \/ Caller \/ Monitoring \/ Kill
  \/ \E s \in Slots : Run(s) \/ SendLost(s) \/ Fail(s)
  \/ Mining \/ Forget

Spec == Init /\ [][Next]_vars

(* The scripts run; no promise is made about the chain. *)
ScriptSpec == Spec /\ WF_vars(Caller) /\ \A s \in Slots : WF_vars(Run(s))

-----------------------------------------------------------------------------
(* Properties. *)

(* However many payments are given up, repeated or left behind by a kill,  *)
(* no payment to Binance waits behind a deposit to dYdX, nor two of them   *)
(* one behind the other: the one that waits is the next to be mined.       *)
(* (Deposits to dYdX may wait one behind the other.)                       *)
BinanceIsNext == \A t \in pool : t.to = "3" => t.nonce = Mined

(* The script never reports success for a payment that was not made, nor   *)
(* an old one's for the one it was asked for.                              *)
OkMeansPaid ==
  pc = "script" /\ scripts[mine].step = "ok" =>
    \E c \in chain : /\ c.ok /\ c.tx.to = plan.to /\ c.tx.amount = plan.amount
                     /\ c.tx.nonce >= plan.mined

(* dYdX is paid no more than it lacks, with the tolerance that is added    *)
(* three times on the way (strategy.rs 540, 625, do_wallet_to_e1), as long *)
(* as it is not to be paid again while a payment to it may still be made.  *)
(* Nothing is remembered of a payment that was sent and given up after ten *)
(* minutes, by an error or by a kill: then a second one is decided on, is  *)
(* sent with the next nonce, and both are made.                            *)
PaidOnce == ~hasty => 1000 * got["1"] <= 1331 * Need

(* Script, pool and chain keep the promise of module Payments: a payment   *)
(* is in a script's hands until it is sent, then in the pool, with a place *)
(* of its own there, and no call of the script leads to more than one,     *)
(* whatever is refused, sent again with the next nonce, replaced,          *)
(* forgotten or left behind by a kill.                                     *)
Content(x) == [to |-> x.to, amount |-> x.amount]

Carried ==
  [s \in Slots |-> IF scripts[s].step \in {"nonce", "send"}
                  THEN {Content(scripts[s].tx)} ELSE {}]
Before == {[at |-> t.nonce, pay |-> Content(t)] : t \in pool}
Stage  == IF pc # "script" THEN "rest"
          ELSE IF scripts[mine].step = "ok" THEN "done" ELSE "asked"
Wanted == Content(plan)
Since  == {Content(c.tx) : c \in {d \in chain : d.ok /\ d.tx.nonce >= plan.mined}}

Promise == INSTANCE Payments WITH
  Hands <- Slots, purse <- wallet, carried <- Carried, before <- Before,
  stage <- Stage, wanted <- Wanted, since <- Since

KeepsPayments == Promise!Spec

(* A call of the script ends, whatever the chain does: it is this, and not *)
(* operations_timeout, that gives the loop back to the strategy.           *)
CallEnds == pc = "script" ~> pc # "script"

(* What is in the wallet does not stay there, whatever becomes of single   *)
(* payments, if what can be mined is mined some day.                       *)
NeedsMet == WF_vars(Mining) => <>(wallet < Least)
=============================================================================
