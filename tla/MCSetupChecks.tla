---------------------------- MODULE MCSetupChecks ----------------------------
(* A strategy on one pair, and a token that is not traded.                  *)
EXTENDS SetupChecks

CONSTANTS b1, b2, t1, t2, usdc

(* One unit of t1 is worth 2^10 units of t2 and of USDC.                    *)
Market == t1 :> 10 @@ t2 :> 0 @@ usdc :> 0

Sell(limit, size) == [sell |-> t1, buy |-> t2, limit |-> limit, size |-> size]
Buy(limit, size)  == [sell |-> t2, buy |-> t1, limit |-> limit, size |-> size]

(* As placed; without gain; attractive but of little value; attractive once *)
(* the market moves, or from the start; two in one direction; none.         *)
Lists ==
    {<<Sell(12, 3), Buy(-8, 0)>>, <<Sell(12, 3), Buy(-12, 0)>>,
     <<Sell(9, -11), Buy(-8, 0)>>, <<Buy(-8, 0), Sell(11, 3)>>, <<Buy(-8, 0), Sell(9, 3)>>,
     <<Sell(12, 3), Sell(12, 3)>>, <<>>}

Chain(list, wrong, approved, allowed) ==
    [orders |-> [b \in Brackets |-> list], wrong |-> wrong, approved |-> approved, allowed |-> allowed]

AsPlaced == <<Sell(12, 3), Buy(-8, 0)>>

(* Any orders, or one thing wrong: a Safe, or an approval.                  *)
OneFlaw ==
    {Chain(list, {}, {}, {}) : list \in Lists}
    \cup {Chain(AsPlaced, {trait}, {}, {}) : trait \in Traits}
    \cup {Chain(AsPlaced, {}, {<<a, t1, p>>}, {<<a, t1, p>>}) : a \in ToSet(Accounts), p \in Spenders}

None == {NothingStored}

NoneOrOne == None \cup {Key(t1, t2) :> Number(10)}

OneBracket  == <<b1>>
TwoBrackets == <<b1, b2>>

Setting(price, lowest, highest) == [price |-> price, lowest |-> lowest, highest |-> highest]

SomeSettings == {Setting(p, l, h) : p \in {7, 9, 11}, l \in {4, 8}, h \in {9, 12}}
=============================================================================
