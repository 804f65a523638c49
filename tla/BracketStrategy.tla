---------------------------- MODULE BracketStrategy ----------------------------
(***************************************************************************)
(* Which bracket gets which token, at which limit prices: the part of a    *)
(* liquidity provision that decides what the market maker offers.          *)
(*                                                                         *)
(* The limit prices of the brackets are a geometric sequence from the      *)
(* lowest to the highest limit.  The model takes logarithms: the lowest    *)
(* limit is 0, one step multiplies the price by Step units, and bracket i  *)
(* buys base tokens at i steps and sells them at i + 1 steps.  A price may *)
(* be any number of units, so also in the middle between two limits.       *)
(***************************************************************************)
EXTENDS Integers, Sequences

CONSTANTS
    MaxBrackets,  \* most brackets of one provision
    Steps,        \* distances of two limits, in units
    Prices,       \* current prices, in units above the lowest limit
    Amounts       \* amounts of tokens to invest

ASSUME StrategyAssumption ==
    /\ MaxBrackets \in Nat
    /\ Steps \subseteq Nat \ {0}
    /\ Prices \subseteq Int
    /\ Amounts \subseteq Nat

VARIABLES
    args,      \* what the user asked for
    index,     \* bracketIndexAtCurrentPrice
    deposits,  \* the list of deposits, as far as it is built
    funded,    \* deposits of the list that were made
    master,    \* what the master Safe holds
    balance,   \* what each bracket holds on the exchange
    pc

vars == <<args, index, deposits, funded, master, balance, pc>>

Tokens == {"quote", "base"}

Arguments == [brackets : 1..MaxBrackets, step : Steps, price : Prices,
              quote : Amounts, base : Amounts]

Brackets == 0..(args.brackets - 1)
-----------------------------------------------------------------------------
(* Mutants of NearestLimit: the price is rounded down, or up.              *)
LimitBelow(a) == a.price \div a.step
LimitAbove(a) == (a.price + a.step - 1) \div a.step

(* Math.round: a price in the middle between two limits goes to the higher.*)
NearestLimit(a) == (2 * a.price + a.step) \div (2 * a.step)

(* A mutant: prices out of the bounds are not brought back to them.        *)
Unclamped(a) == NearestLimit(a)

BracketIndex(a) ==
    IF NearestLimit(a) > a.brackets THEN a.brackets
    ELSE IF NearestLimit(a) < 0 THEN 0 ELSE NearestLimit(a)

(* The limit prices of the orders of bracket i.                            *)
LowerLimit(i) == i * args.step
UpperLimit(i) == LowerLimit(i) + args.step

(* Mutants of Share: the amounts are divided by the number of all brackets,*)
(* or rounded up.                                                          *)
ShareOfAll(a, k, token) ==
    IF token = "quote" THEN a.quote \div a.brackets ELSE a.base \div a.brackets

ShareRoundedUp(a, k, token) ==
    IF token = "quote" THEN (a.quote + k - 1) \div k ELSE (a.base + k - 1) \div k

(* One of k brackets that share an amount.                                 *)
Share(a, k, token) == IF token = "quote" THEN a.quote \div k ELSE a.base \div k
-----------------------------------------------------------------------------
TypeOK ==
    /\ args \in Arguments
    /\ pc \in {"build", "run"}
    /\ index \in 0..args.brackets
    /\ deposits \in Seq([bracket : Brackets, token : Tokens, amount : Nat])
    /\ Len(deposits) <= args.brackets
    /\ funded \in 0..Len(deposits)
    /\ master \in [Tokens -> Nat]
    /\ balance \in [Brackets -> [Tokens -> Nat]]

(* The scripts check that the master Safe holds what is to be invested; in *)
(* the worst case it holds no more.                                        *)
Init ==
    /\ args \in Arguments
    /\ index = BracketIndex(args)
    /\ deposits = <<>> /\ funded = 0
    /\ master = [t \in Tokens |-> IF t = "quote" THEN args.quote ELSE args.base]
    /\ balance = [i \in Brackets |-> [t \in Tokens |-> 0]]
    /\ pc = "build"

(* The two loops that build the list.                                      *)
AddQuoteDeposit ==
    /\ pc = "build" /\ Len(deposits) < index
    /\ deposits' = Append(deposits, [bracket |-> Len(deposits), token |-> "quote",
                                     amount |-> Share(args, index, "quote")])
    /\ UNCHANGED <<args, index, funded, master, balance, pc>>

(* A mutant: the second loop starts again with the first bracket.          *)
BaseDepositFromFirst ==
    /\ pc = "build" /\ index <= Len(deposits) /\ Len(deposits) < args.brackets
    /\ deposits' = Append(deposits, [bracket |-> Len(deposits) - index, token |-> "base",
                                     amount |-> Share(args, args.brackets - index, "base")])
    /\ UNCHANGED <<args, index, funded, master, balance, pc>>

AddBaseDeposit ==
    /\ pc = "build" /\ index <= Len(deposits) /\ Len(deposits) < args.brackets
    /\ deposits' = Append(deposits, [bracket |-> Len(deposits), token |-> "base",
                                     amount |-> Share(args, args.brackets - index, "base")])
    /\ UNCHANGED <<args, index, funded, master, balance, pc>>

FinishBuilding ==
    /\ pc = "build" /\ Len(deposits) = args.brackets
    /\ pc' = "run"
    /\ UNCHANGED <<args, index, deposits, funded, master, balance>>

(* One transfer to a bracket and the bracket's deposit.                    *)
MakeDeposit ==
    /\ pc = "run" /\ funded < Len(deposits)
    /\ LET d == deposits[funded + 1] IN
          /\ d.amount <= master[d.token]
          /\ master'  = [master EXCEPT ![d.token] = @ - d.amount]
          /\ balance' = [balance EXCEPT ![d.bracket][d.token] = @ + d.amount]
    /\ funded' = funded + 1
    /\ UNCHANGED <<args, index, deposits, pc>>

Done == pc = "run" /\ funded = Len(deposits)

Next == AddQuoteDeposit \/ AddBaseDeposit \/ FinishBuilding \/ MakeDeposit

Spec == Init /\ [][Next]_vars
-----------------------------------------------------------------------------
(***************************************************************************)
(* Properties.                                                             *)
(***************************************************************************)
(* No funded order can be taken at a profit at the current price: brackets *)
(* that buy do so at least half a step below it, brackets that sell at     *)
(* least half a step above it, wherever the price is.                      *)
HalfStepMargin ==
    \A j \in DOMAIN deposits :
        LET i == deposits[j].bracket IN
        IF deposits[j].token = "quote" THEN 2 * (args.price - LowerLimit(i)) >= args.step
                                       ELSE 2 * (UpperLimit(i) - args.price) >= args.step

(* The list of deposits can be made with what the scripts checked to be    *)
(* there: the bundle does not fail for lack of funds half way.             *)
NeverRunsShort ==
    pc = "run" /\ funded < Len(deposits) =>
        deposits[funded + 1].amount <= master[deposits[funded + 1].token]

(* What checkCorrectnessOfDeposits accepts of bracket i, if each bracket is*)
(* expected to hold a share of what was to be invested (scripts/utils/     *)
(* price_utils.js:15-67).                                                  *)
CorrectBalance(i) ==
    LET onlyQuote == /\ index > 0 /\ balance[i]["base"] = 0
                     /\ balance[i]["quote"] = Share(args, index, "quote")
        onlyBase  == /\ index < args.brackets /\ balance[i]["quote"] = 0
                     /\ balance[i]["base"] = Share(args, args.brackets - index, "base")
    IN  CASE UpperLimit(i) < args.price -> onlyQuote
          [] LowerLimit(i) > args.price -> onlyBase
          [] OTHER -> onlyQuote \/ onlyBase

(* When all deposits are made the repository's own check accepts them.     *)
DepositsAreCorrect == Done => \A i \in Brackets : CorrectBalance(i)

(* What the comment at scripts/utils/trading_strategy_helpers.js:723 says: *)
(* if the price is at the limit of two brackets, only the first is funded. *)
OnlyFirstAtLimit ==
    Done => \A i \in Brackets \ {0} :
              LowerLimit(i) = args.price => \A t \in Tokens : balance[i][t] = 0

(* Of a token that goes to k brackets less than k units are left over, and *)
(* a token stays with the master Safe only if no bracket trades it.        *)
OnlyDustIsLeft ==
    Done => /\ index > 0 => master["quote"] < index
            /\ index < args.brackets => master["base"] < args.brackets - index
=============================================================================
