---------------------------- MODULE BatchExchange ----------------------------
(***************************************************************************)
(* The part of the Gnosis Protocol exchange (BatchExchange and its base    *)
(* contract EpochTokenLocker) that the liquidity scripts rely on.  The     *)
(* contract is a dependency, not part of this repository: it is modelled   *)
(* from the calls the scripts make and from what they expect of them.      *)
(*                                                                         *)
(* An account is the state the exchange keeps for one user and one token.  *)
(* The contract compares batch numbers only with the current one, so an    *)
(* account keeps what the comparison tells apart instead of the number:    *)
(*   bal       the balance that can be used in this batch                  *)
(*   dep       deposited in this batch, part of the balance from the next  *)
(*   wd        amount of the withdraw request (0: there is none)           *)
(*   wdFresh   the request was made in this batch and is not yet valid     *)
(*   credited  bought tokens in this batch while a request was valid, which*)
(*             blocks withdrawals until the batch ends                     *)
(***************************************************************************)
EXTENDS Integers

Min2(x, y) == IF x <= y THEN x ELSE y

Account == [bal : Nat, dep : Nat, wd : Nat, wdFresh : BOOLEAN, credited : BOOLEAN]

AccountWith(n) ==
    [bal |-> n, dep |-> 0, wd |-> 0, wdFresh |-> FALSE, credited |-> FALSE]

HasValidRequest(acc) == acc.wd > 0 /\ ~acc.wdFresh

(* What a call of withdraw sends to the user.                              *)
Withdrawable(acc) == Min2(acc.wd, acc.bal)

(* getWithdrawableAmount of the exchange's JavaScript package.             *)
GetWithdrawableAmount(acc) == IF acc.wdFresh THEN 0 ELSE Withdrawable(acc)

(* getBalance: what the account may sell in this batch.                    *)
GetBalance(acc) == acc.bal - GetWithdrawableAmount(acc)

Deposit(acc, n) == [acc EXCEPT !.dep = @ + n]

CanWithdraw(acc) == ~acc.wdFresh /\ ~acc.credited

Withdraw(acc) == [acc EXCEPT !.bal = @ - Withdrawable(acc), !.wd = 0]

(* requestWithdraw first pays out an earlier request that became valid.    *)
CanRequest(acc) == HasValidRequest(acc) => CanWithdraw(acc)

PaidByRequest(acc) == IF HasValidRequest(acc) THEN Withdrawable(acc) ELSE 0

Request(acc, n) ==
    [acc EXCEPT !.bal = @ - PaidByRequest(acc), !.wd = n, !.wdFresh = TRUE]

Sell(acc, n) == [acc EXCEPT !.bal = @ - n]

Buy(acc, n) ==
    [acc EXCEPT !.bal = @ + n, !.credited = @ \/ HasValidRequest(acc)]

(* The batch number advances, every five minutes.                          *)
NextBatchOf(acc) ==
    [acc EXCEPT !.bal = @ + acc.dep, !.dep = 0, !.wdFresh = FALSE, !.credited = FALSE]
=============================================================================
