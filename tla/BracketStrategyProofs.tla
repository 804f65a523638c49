------------------------ MODULE BracketStrategyProofs ------------------------
(***************************************************************************)
(* Theorems about BracketStrategy, for every number of brackets, distance  *)
(* of limits, price and amount.                                            *)
(***************************************************************************)
EXTENDS BracketStrategy, SequenceTheorems, TLAPS

(* Multiplication by a positive number is monotone.                        *)
LEMMA TimesMonotone ==
    ASSUME NEW i \in Int, NEW j \in Int, i <= j, NEW s \in Nat
    PROVE  i * s <= j * s
<1>1. (j - i) * s >= 0
  BY Z3
<1>2. (j - i) * s = j * s - i * s
  BY Z3
<1>3. i * s \in Int /\ j * s \in Int
  OBVIOUS
<1>4. QED
  BY <1>1, <1>2, <1>3

(* The nearest limit is at most half a step from the price.                *)
LEMMA NearestLimitBounds ==
    ASSUME NEW a \in Arguments
    PROVE  /\ a.price \in Int /\ a.step \in Nat \ {0} /\ a.brackets \in Nat
           /\ NearestLimit(a) \in Int
           /\ 2 * (NearestLimit(a) * a.step) <= 2 * a.price + a.step
           /\ 2 * a.price + a.step < 2 * (NearestLimit(a) * a.step) + 2 * a.step
<1>1. a.price \in Int /\ a.step \in Nat \ {0} /\ a.brackets \in Nat
  <2>1. a.price \in Prices /\ a.step \in Steps /\ a.brackets \in 1..MaxBrackets
    BY DEF Arguments
  <2>2. a.price \in Int /\ a.step \in Nat \ {0}
    BY <2>1, StrategyAssumption, Zenon
  <2>3. a.brackets \in Nat
    BY <2>1, StrategyAssumption
  <2>4. QED
    BY <2>2, <2>3
<1> DEFINE x == 2 * a.price + a.step
           d == 2 * a.step
           q == x \div d
<1>2. x \in Int /\ d \in Nat /\ d > 0
  BY <1>1
<1>3. q \in Int /\ d * q <= x /\ x < d * q + d
  <2> HIDE DEF x, d
  <2>1. QED
    BY <1>2, Z3
<1>4. d * q = 2 * (q * a.step)
  <2> HIDE DEF q
  <2>1. QED
    BY <1>1, <1>3, Z3
<1>5. NearestLimit(a) = q
  BY DEF NearestLimit
<1> HIDE DEF q
<1>6. QED
  BY <1>1, <1>3, <1>4, <1>5
-----------------------------------------------------------------------------
(* A bracket below the index buys, one from the index on sells, and both at*)
(* least half a step away from the price: also if the nearest limit is out *)
(* of the bounds and the index was brought back to them.                   *)
LEMMA IndexMargin ==
    ASSUME NEW a \in Arguments, NEW i \in 0..(a.brackets - 1)
    PROVE  /\ i < BracketIndex(a) => 2 * (a.price - i * a.step) >= a.step
           /\ i >= BracketIndex(a) => 2 * (i * a.step + a.step - a.price) >= a.step
<1> DEFINE n == NearestLimit(a)
<1>1. /\ a.price \in Int /\ a.step \in Nat /\ a.brackets \in Nat /\ n \in Int
      /\ 2 * (n * a.step) <= 2 * a.price + a.step
      /\ 2 * a.price + a.step < 2 * (n * a.step) + 2 * a.step
  BY NearestLimitBounds
<1>2. BracketIndex(a) = IF n > a.brackets THEN a.brackets ELSE IF n < 0 THEN 0 ELSE n
  BY DEF BracketIndex
<1> HIDE DEF n
<1>3. i \in Int /\ i < a.brackets /\ 0 <= i
  BY <1>1
<1>4. /\ i * a.step \in Int /\ n * a.step \in Int
      /\ (i + 1) * a.step = i * a.step + a.step
  BY <1>1, <1>3, Z3
<1>5. ASSUME i < BracketIndex(a)
      PROVE  2 * (a.price - i * a.step) >= a.step
  <2>1. i + 1 <= n
    BY <1>1, <1>2, <1>3, <1>5
  <2>2. (i + 1) * a.step <= n * a.step
    BY <1>1, <1>3, <2>1, TimesMonotone
  <2>3. QED
    BY <1>1, <1>4, <2>2
<1>6. ASSUME i >= BracketIndex(a)
      PROVE  2 * (i * a.step + a.step - a.price) >= a.step
  <2>1. n <= i
    BY <1>1, <1>2, <1>3, <1>6
  <2>2. n * a.step <= i * a.step
    BY <1>1, <1>3, <2>1, TimesMonotone
  <2>3. QED
    BY <1>1, <1>4, <2>2
<1>7. QED
  BY <1>5, <1>6

(* The inductive invariant: the list has one deposit per bracket, in the   *)
(* order of the brackets, with the token the index assigns to it.          *)
DepositsByIndex ==
    /\ args \in Arguments
    /\ index = BracketIndex(args)
    /\ deposits \in Seq([bracket : Int, token : Tokens, amount : Int])
    /\ Len(deposits) <= args.brackets
    /\ \A j \in 1..Len(deposits) :
          /\ deposits[j].bracket = j - 1
          /\ deposits[j].token = "quote" <=> j - 1 < index

(* Extending the list by the deposit of the next bracket.                  *)
LEMMA AppendDeposit ==
    ASSUME DepositsByIndex, NEW token \in Tokens, NEW amount \in Int,
           Len(deposits) < args.brackets,
           token = "quote" <=> Len(deposits) < index,
           deposits' = Append(deposits, [bracket |-> Len(deposits), token |-> token,
                                         amount |-> amount]),
           UNCHANGED <<args, index>>
    PROVE  DepositsByIndex'
<1> DEFINE D == [bracket : Int, token : Tokens, amount : Int]
           d == [bracket |-> Len(deposits), token |-> token, amount |-> amount]
<1>1. /\ deposits \in Seq(D) /\ Len(deposits) \in Nat /\ args \in Arguments
      /\ index = BracketIndex(args) /\ args.brackets \in Nat
      /\ \A j \in 1..Len(deposits) :
            /\ deposits[j].bracket = j - 1
            /\ deposits[j].token = "quote" <=> j - 1 < index
  BY LenProperties, NearestLimitBounds DEF DepositsByIndex
<1>2. d \in D /\ d.bracket = Len(deposits) /\ d.token = token
  BY <1>1
<1> HIDE DEF D, d
<1>3. deposits' = Append(deposits, d)
  BY DEF d
<1>4. /\ deposits' \in Seq(D) /\ Len(deposits') = Len(deposits) + 1
      /\ \A j \in 1..Len(deposits) : deposits'[j] = deposits[j]
      /\ deposits'[Len(deposits) + 1] = d
  BY <1>1, <1>2, <1>3, AppendProperties
<1>5. \A j \in 1..Len(deposits') :
        /\ deposits'[j].bracket = j - 1
        /\ deposits'[j].token = "quote" <=> j - 1 < index
  <2> TAKE j \in 1..Len(deposits')
  <2>1. CASE j \in 1..Len(deposits)
    BY <1>1, <1>4, <2>1
  <2>2. CASE j = Len(deposits) + 1
    BY <1>1, <1>2, <1>4, <2>2
  <2>3. QED
    BY <1>1, <1>4, <2>1, <2>2
<1>6. Len(deposits') <= args.brackets
  BY <1>1, <1>4
<1>7. QED
  BY <1>1, <1>4, <1>5, <1>6 DEF DepositsByIndex, D

LEMMA InitDepositsByIndex == Init => DepositsByIndex
<1> SUFFICES ASSUME Init PROVE DepositsByIndex
  OBVIOUS
<1>1. args \in Arguments /\ index = BracketIndex(args) /\ deposits = <<>>
  BY DEF Init
<1>2. 0 <= args.brackets
  BY <1>1, NearestLimitBounds
<1>3. <<>> \in Seq([bracket : Int, token : Tokens, amount : Int]) /\ Len(<<>>) = 0
  BY EmptySeq
<1>4. QED
  BY <1>1, <1>2, <1>3 DEF DepositsByIndex

LEMMA StepDepositsByIndex == DepositsByIndex /\ [Next]_vars => DepositsByIndex'
<1> SUFFICES ASSUME DepositsByIndex, [Next]_vars PROVE DepositsByIndex'
  OBVIOUS
<1>1. /\ args \in Arguments /\ args.brackets \in Nat /\ Len(deposits) \in Nat
      /\ args.quote \in Int /\ args.base \in Int
  <2>1. args \in Arguments /\ args.quote \in Amounts /\ args.base \in Amounts
    BY DEF DepositsByIndex, Arguments
  <2>2. args.quote \in Nat /\ args.base \in Nat
    BY <2>1, StrategyAssumption, Zenon
  <2>3. args.brackets \in Nat
    BY <2>1, NearestLimitBounds
  <2>4. Len(deposits) \in Nat
    BY LenProperties DEF DepositsByIndex
  <2>5. QED
    BY <2>1, <2>2, <2>3, <2>4
<1>2. index \in 0..args.brackets
  BY <1>1, NearestLimitBounds DEF DepositsByIndex, BracketIndex
<1>3. CASE AddQuoteDeposit
  <2>1. Share(args, index, "quote") \in Int
    BY <1>1, <1>2, <1>3 DEF AddQuoteDeposit, Share
  <2>2. QED
    BY <1>1, <1>2, <1>3, <2>1, AppendDeposit DEF AddQuoteDeposit, Tokens
<1>4. CASE AddBaseDeposit
  <2>1. Share(args, args.brackets - index, "base") \in Int
    BY <1>1, <1>2, <1>4 DEF AddBaseDeposit, Share
  <2>2. QED
    BY <1>1, <1>2, <1>4, <2>1, AppendDeposit DEF AddBaseDeposit, Tokens
<1>5. CASE FinishBuilding \/ MakeDeposit \/ UNCHANGED vars
  BY <1>5 DEF FinishBuilding, MakeDeposit, vars, DepositsByIndex
<1>6. QED
  BY <1>3, <1>4, <1>5 DEF Next

LEMMA DepositsByIndexMargin == DepositsByIndex => HalfStepMargin
<1> SUFFICES ASSUME DepositsByIndex, NEW j \in DOMAIN deposits
             PROVE  IF deposits[j].token = "quote"
                    THEN 2 * (args.price - LowerLimit(deposits[j].bracket)) >= args.step
                    ELSE 2 * (UpperLimit(deposits[j].bracket) - args.price) >= args.step
  BY DEF HalfStepMargin
<1> DEFINE i == deposits[j].bracket
<1>1. args \in Arguments /\ index = BracketIndex(args) /\ args.brackets \in Nat
  BY NearestLimitBounds DEF DepositsByIndex
<1>2. j \in 1..Len(deposits) /\ Len(deposits) \in Nat
  BY LenProperties DEF DepositsByIndex
<1>3. i = j - 1 /\ (deposits[j].token = "quote" <=> j - 1 < index)
  BY <1>2 DEF DepositsByIndex
<1>4. i \in 0..(args.brackets - 1)
  BY <1>1, <1>2, <1>3 DEF DepositsByIndex
<1>5. index \in Int
  BY <1>1, NearestLimitBounds DEF BracketIndex
<1> HIDE DEF i
<1>6. (i < index) \/ (i >= index)
  BY <1>4, <1>5
<1>7. /\ i < index => 2 * (args.price - i * args.step) >= args.step
      /\ i >= index => 2 * (i * args.step + args.step - args.price) >= args.step
  BY <1>1, <1>4, IndexMargin
<1>8. deposits[j].token = "quote" <=> i < index
  BY <1>3
<1>9. /\ i < index => 2 * (args.price - LowerLimit(i)) >= args.step
      /\ i >= index => 2 * (UpperLimit(i) - args.price) >= args.step
  <2>1. LowerLimit(i) = i * args.step /\ UpperLimit(i) = i * args.step + args.step
    BY DEF LowerLimit, UpperLimit
  <2>2. args.step \in Nat /\ args.price \in Int /\ i \in Int
    BY <1>1, <1>4, NearestLimitBounds
  <2>3. i * args.step \in Int
    BY <2>2
  <2>4. QED
    BY <1>5, <1>7, <2>1, <2>2, <2>3
<1>10. ASSUME deposits[j].token = "quote"
       PROVE  2 * (args.price - LowerLimit(i)) >= args.step
  BY <1>8, <1>9, <1>10
<1>11. ASSUME deposits[j].token # "quote"
       PROVE  2 * (UpperLimit(i) - args.price) >= args.step
  BY <1>6, <1>8, <1>9, <1>11
<1>12. QED
  BY <1>10, <1>11, Zenon DEF i

(* However many brackets, wherever the bounds and the price: no funded     *)
(* order is closer to the current price than half a step of the strategy.  *)
THEOREM NoFundedOrderNearThePrice == Spec => []HalfStepMargin
  BY InitDepositsByIndex, StepDepositsByIndex, DepositsByIndexMargin, PTL DEF Spec
-----------------------------------------------------------------------------
(***************************************************************************)
(* The deposits as the bundle makes them.                                  *)
(***************************************************************************)
(* What a bracket of either side gets, and how many of each side have it.  *)
QuoteShare == Share(args, index, "quote")
BaseShare  == Share(args, args.brackets - index, "base")
QuoteMade  == IF funded <= index THEN funded ELSE index
BaseMade   == IF funded <= index THEN 0 ELSE funded - index

(* A share times the number of those that share is what there is, up to    *)
(* less than one unit for each.                                            *)
LEMMA ShareBounds ==
    ASSUME NEW x \in Nat, NEW k \in Nat \ {0}
    PROVE  x \div k \in Nat /\ k * (x \div k) <= x /\ x < k * (x \div k) + k
<1>1. x \div k \in Int /\ k * (x \div k) <= x /\ x < k * (x \div k) + k
  BY Z3
<1>2. x \div k >= 0
  BY Z3
<1>3. QED
  BY <1>1, <1>2

(* The number of brackets, the index and the amounts are naturals.         *)
LEMMA ArgumentTypes ==
    ASSUME args \in Arguments, index = BracketIndex(args)
    PROVE  /\ args.brackets \in Nat /\ index \in 0..args.brackets
           /\ args.quote \in Nat /\ args.base \in Nat
           /\ index > 0 => /\ QuoteShare \in Nat /\ index * QuoteShare <= args.quote
                           /\ args.quote < index * QuoteShare + index
           /\ index < args.brackets =>
                LET k == args.brackets - index
                IN  /\ BaseShare \in Nat /\ k * BaseShare <= args.base
                    /\ args.base < k * BaseShare + k
<1>1. args.quote \in Amounts /\ args.base \in Amounts
  BY DEF Arguments
<1>2. args.quote \in Nat /\ args.base \in Nat
  BY <1>1, StrategyAssumption, Zenon
<1>3. args.brackets \in Nat /\ index \in 0..args.brackets
  BY NearestLimitBounds DEF BracketIndex
<1>4. ASSUME index > 0
      PROVE  /\ QuoteShare \in Nat /\ index * QuoteShare <= args.quote
             /\ args.quote < index * QuoteShare + index
  <2>1. index \in Nat \ {0}
    BY <1>3, <1>4
  <2>2. QuoteShare = args.quote \div index
    BY DEF QuoteShare, Share
  <2>3. QED
    BY <1>2, <2>1, <2>2, ShareBounds, Zenon
<1>5. ASSUME index < args.brackets
      PROVE  LET k == args.brackets - index
             IN  /\ BaseShare \in Nat /\ k * BaseShare <= args.base
                 /\ args.base < k * BaseShare + k
  <2> DEFINE k == args.brackets - index
  <2>1. k \in Nat \ {0}
    BY <1>3, <1>5
  <2>2. BaseShare = args.base \div k
    BY DEF BaseShare, Share
  <2> HIDE DEF k
  <2>3. /\ BaseShare \in Nat /\ k * BaseShare <= args.base
        /\ args.base < k * BaseShare + k
    BY <1>2, <2>1, <2>2, ShareBounds, Zenon
  <2>4. QED
    BY <2>3 DEF k
<1>6. QED
  BY <1>2, <1>3, <1>4, <1>5

(* What was deposited is what the list says: every bracket up to the one   *)
(* that is next has its share, and the master Safe has the rest.           *)
Spent(made, share) == IF made = 0 THEN 0 ELSE made * share

BalanceOf(i, t) ==
    IF i < funded /\ (t = "quote" <=> i < index)
    THEN IF t = "quote" THEN QuoteShare ELSE BaseShare
    ELSE 0

DepositsMade ==
    /\ pc \in {"build", "run"}
    /\ funded \in 0..Len(deposits)
    /\ pc = "build" => funded = 0
    /\ pc = "run" => Len(deposits) = args.brackets
    /\ \A j \in 1..Len(deposits) :
          deposits[j].amount = IF deposits[j].token = "quote" THEN QuoteShare ELSE BaseShare
    /\ master = [t \in Tokens |-> IF t = "quote" THEN args.quote - Spent(QuoteMade, QuoteShare)
                                                 ELSE args.base - Spent(BaseMade, BaseShare)]
    /\ balance = [i \in Brackets |-> [t \in Tokens |-> BalanceOf(i, t)]]

SInv == DepositsByIndex /\ DepositsMade


(* The shares depend on the arguments only, and a longer list agrees with  *)
(* the shorter one where that is defined.                                  *)
LEMMA BuildDepositsMade ==
    ASSUME SInv, NEW token \in Tokens, NEW amount, pc = "build",
           token = "quote" <=> Len(deposits) < index,
           amount = IF token = "quote" THEN QuoteShare ELSE BaseShare,
           amount \in Int,
           deposits' = Append(deposits, [bracket |-> Len(deposits), token |-> token,
                                         amount |-> amount]),
           UNCHANGED <<args, index, funded, master, balance, pc>>
    PROVE  DepositsMade'
<1> DEFINE D == [bracket : Int, token : Tokens, amount : Int]
           d == [bracket |-> Len(deposits), token |-> token, amount |-> amount]
<1>1. deposits \in Seq(D) /\ Len(deposits) \in Nat /\ DepositsMade
  BY LenProperties DEF SInv, DepositsByIndex
<1>2. d \in D /\ d.token = token /\ d.amount = amount
  BY <1>1
<1> HIDE DEF D, d
<1>3. /\ Len(deposits') = Len(deposits) + 1
      /\ \A j \in 1..Len(deposits) : deposits'[j] = deposits[j]
      /\ deposits'[Len(deposits) + 1] = d
  BY <1>1, <1>2, AppendProperties DEF d
<1>4. QuoteShare' = QuoteShare /\ BaseShare' = BaseShare
  BY DEF QuoteShare, BaseShare, Share
<1>5. \A j \in 1..Len(deposits') :
        deposits'[j].amount = IF deposits'[j].token = "quote" THEN QuoteShare ELSE BaseShare
  <2> TAKE j \in 1..Len(deposits')
  <2>1. CASE j \in 1..Len(deposits)
    BY <1>1, <1>3, <2>1 DEF DepositsMade
  <2>2. CASE j = Len(deposits) + 1
    BY <1>2, <1>3, <2>2
  <2>3. QED
    BY <1>1, <1>3, <2>1, <2>2
<1>6. funded' \in 0..Len(deposits') /\ funded' = 0
  BY <1>1, <1>3 DEF DepositsMade
<1>7. master' = master /\ balance' = balance /\ Brackets' = Brackets
  BY DEF Brackets
<1>8. QuoteMade' = QuoteMade /\ BaseMade' = BaseMade
  BY DEF QuoteMade, BaseMade
<1>9. \A i, t : BalanceOf(i, t)' = BalanceOf(i, t)
  BY <1>4 DEF BalanceOf
<1>10. /\ master' = [t \in Tokens |-> IF t = "quote" THEN args'.quote - Spent(QuoteMade', QuoteShare')
                                                    ELSE args'.base - Spent(BaseMade', BaseShare')]
       /\ balance' = [i \in Brackets' |-> [t \in Tokens |-> BalanceOf(i, t)']]
  BY <1>1, <1>4, <1>7, <1>8, <1>9, Zenon DEF DepositsMade
<1>11. QED
  BY <1>1, <1>4, <1>5, <1>6, <1>10 DEF DepositsMade, Spent

LEMMA InitSInv == Init => SInv
<1> SUFFICES ASSUME Init PROVE SInv
  OBVIOUS
<1>1. DepositsByIndex
  BY InitDepositsByIndex
<1>2. /\ pc = "build" /\ funded = 0 /\ deposits = <<>> /\ Len(deposits) = 0
      /\ master = [t \in Tokens |-> IF t = "quote" THEN args.quote ELSE args.base]
      /\ balance = [i \in Brackets |-> [t \in Tokens |-> 0]]
      /\ args \in Arguments /\ index = BracketIndex(args)
  BY EmptySeq DEF Init
<1>3. index \in Nat /\ args.quote \in Nat /\ args.base \in Nat
  BY <1>2, ArgumentTypes
<1>4. QuoteMade = 0 /\ BaseMade = 0
  BY <1>2, <1>3 DEF QuoteMade, BaseMade
<1>5. \A i \in Brackets : \A t \in Tokens : BalanceOf(i, t) = 0
  BY <1>2, NearestLimitBounds DEF BalanceOf, Brackets
<1>6. balance = [i \in Brackets |-> [t \in Tokens |-> BalanceOf(i, t)]]
  BY <1>2, <1>5
<1>7. master = [t \in Tokens |-> IF t = "quote" THEN args.quote - Spent(QuoteMade, QuoteShare)
                                                 ELSE args.base - Spent(BaseMade, BaseShare)]
  BY <1>2, <1>3, <1>4 DEF Spent
<1>8. DepositsMade
  BY <1>2, <1>6, <1>7 DEF DepositsMade
<1>9. QED
  BY <1>1, <1>8 DEF SInv

(* What the next deposit is, and that the master Safe has it.              *)
LEMMA NextDeposit ==
    ASSUME SInv, pc = "run", funded < Len(deposits)
    PROVE  LET d == deposits[funded + 1]
           IN  /\ d.bracket = funded /\ d.token \in Tokens
               /\ d.token = "quote" <=> funded < index
               /\ d.token = "quote" => d.amount = QuoteShare /\ funded < index
               /\ d.token = "base" => d.amount = BaseShare /\ index <= funded
               /\ d.amount \in Nat /\ d.amount <= master[d.token]
               /\ funded \in Nat /\ funded < args.brackets
<1> DEFINE d == deposits[funded + 1]
<1>1. /\ args \in Arguments /\ index = BracketIndex(args) /\ Len(deposits) = args.brackets
      /\ funded \in 0..Len(deposits)
      /\ deposits \in Seq([bracket : Int, token : Tokens, amount : Int])
  BY DEF SInv, DepositsByIndex, DepositsMade
<1>2. /\ args.brackets \in Nat /\ index \in 0..args.brackets
      /\ args.quote \in Nat /\ args.base \in Nat
  BY <1>1, ArgumentTypes
<1>3. funded + 1 \in 1..Len(deposits) /\ funded \in Nat /\ funded < args.brackets
  BY <1>1, <1>2
<1>4. d.token \in Tokens
  <2> DEFINE D == [bracket : Int, token : Tokens, amount : Int]
  <2>1. \A x \in D : x.token \in Tokens
    OBVIOUS
  <2>2. deposits \in Seq(D)
    BY <1>1
  <2> HIDE DEF D
  <2>3. d \in D
    BY <1>3, <2>2, ElementOfSeq
  <2>4. QED
    BY <2>1, <2>3
<1>5. d.bracket = funded /\ (d.token = "quote" <=> funded < index)
  BY <1>3 DEF SInv, DepositsByIndex
<1>6. d.amount = IF d.token = "quote" THEN QuoteShare ELSE BaseShare
  BY <1>3 DEF SInv, DepositsMade
<1>7. /\ master["quote"] = args.quote - Spent(QuoteMade, QuoteShare)
      /\ master["base"] = args.base - Spent(BaseMade, BaseShare)
  BY DEF SInv, DepositsMade, Tokens
<1>8. ASSUME d.token = "quote"
      PROVE  d.amount \in Nat /\ d.amount <= master["quote"]
  <2>1. /\ funded < index /\ QuoteMade = funded /\ d.amount = QuoteShare
        /\ QuoteShare \in Nat /\ index * QuoteShare <= args.quote
    BY <1>1, <1>2, <1>3, <1>5, <1>6, <1>8, ArgumentTypes DEF QuoteMade
  <2> HIDE DEF d
  <2>2. (funded + 1) * QuoteShare <= index * QuoteShare
    BY <1>2, <1>3, <2>1, TimesMonotone
  <2>3. (funded + 1) * QuoteShare = funded * QuoteShare + QuoteShare
    BY <1>3, <2>1, Z3
  <2>4. Spent(funded, QuoteShare) = funded * QuoteShare /\ funded * QuoteShare \in Nat
    BY <1>3, <2>1, Z3 DEF Spent
  <2>5. index * QuoteShare \in Nat
    BY <1>2, <2>1, Z3
  <2> DEFINE used == funded * QuoteShare
             most == index * QuoteShare
  <2>6. /\ used \in Nat /\ most \in Nat /\ most <= args.quote /\ used + QuoteShare <= most
        /\ master["quote"] = args.quote - used
    BY <1>7, <2>1, <2>2, <2>3, <2>4, <2>5
  <2> HIDE DEF used, most
  <2>7. QED
    BY <1>2, <2>1, <2>6
<1>9. ASSUME d.token # "quote"
      PROVE  d.amount \in Nat /\ d.amount <= master["base"]
  <2> DEFINE k == args.brackets - index
             m == funded - index
  <2>1. index <= funded /\ d.amount = BaseShare
    BY <1>2, <1>3, <1>5, <1>6, <1>9
  <2>2. k \in Nat /\ m \in Nat /\ m + 1 <= k /\ index < args.brackets
    BY <1>2, <1>3, <2>1
  <2>3. BaseMade = m
    BY <1>2, <1>3, <2>1 DEF BaseMade
  <2>4. BaseShare \in Nat /\ k * BaseShare <= args.base
    BY <1>1, <2>2, ArgumentTypes
  <2>5. /\ index <= funded /\ d.amount = BaseShare /\ k \in Nat /\ m \in Nat /\ m + 1 <= k
        /\ BaseMade = m /\ BaseShare \in Nat /\ k * BaseShare <= args.base
    BY <2>1, <2>2, <2>3, <2>4
  <2> HIDE DEF d, k, m
  <2>6. (m + 1) * BaseShare <= k * BaseShare
    BY <2>5, TimesMonotone
  <2>7. (m + 1) * BaseShare = m * BaseShare + BaseShare
    BY <2>5, Z3
  <2>8. Spent(m, BaseShare) = m * BaseShare /\ m * BaseShare \in Nat
    BY <2>5, Z3 DEF Spent
  <2>9. k * BaseShare \in Nat
    BY <2>5, Z3
  <2> DEFINE used == m * BaseShare
             most == k * BaseShare
  <2>10. /\ used \in Nat /\ most \in Nat /\ most <= args.base /\ used + BaseShare <= most
         /\ master["base"] = args.base - used
    BY <1>7, <2>5, <2>6, <2>7, <2>8, <2>9
  <2> HIDE DEF used, most
  <2>11. QED
    BY <1>2, <2>5, <2>10
<1> HIDE DEF d
<1>10. d.amount \in Nat /\ d.amount <= master[d.token]
  BY <1>4, <1>8, <1>9 DEF Tokens
<1>11. d.token = "base" => index <= funded
  BY <1>2, <1>3, <1>5
<1>12. QED
  BY <1>3, <1>4, <1>5, <1>6, <1>10, <1>11 DEF d

(* One more deposit: what was spent and what the brackets hold go up by it.*)
LEMMA MakeDepositMade ==
    ASSUME SInv, MakeDeposit
    PROVE  DepositsMade'
<1> DEFINE d == deposits[funded + 1]
<1>1. /\ pc = "run" /\ funded < Len(deposits)
      /\ master'  = [master EXCEPT ![d.token] = @ - d.amount]
      /\ balance' = [balance EXCEPT ![d.bracket][d.token] = @ + d.amount]
      /\ funded' = funded + 1
      /\ args' = args /\ index' = index /\ deposits' = deposits /\ pc' = pc
  BY DEF MakeDeposit
<1>2. /\ d.bracket = funded /\ d.token \in Tokens
      /\ d.token = "quote" <=> funded < index
      /\ d.token = "quote" => d.amount = QuoteShare /\ funded < index
      /\ d.token = "base" => d.amount = BaseShare /\ index <= funded
      /\ d.amount \in Nat
      /\ funded \in Nat /\ funded < args.brackets
  BY <1>1, NextDeposit
<1>3. /\ args \in Arguments /\ index = BracketIndex(args) /\ Len(deposits) = args.brackets
      /\ master = [t \in Tokens |-> IF t = "quote" THEN args.quote - Spent(QuoteMade, QuoteShare)
                                                   ELSE args.base - Spent(BaseMade, BaseShare)]
      /\ balance = [i \in Brackets |-> [t \in Tokens |-> BalanceOf(i, t)]]
  BY <1>1 DEF SInv, DepositsByIndex, DepositsMade
<1>4. /\ args.brackets \in Nat /\ index \in 0..args.brackets
      /\ args.quote \in Nat /\ args.base \in Nat
  BY <1>3, ArgumentTypes
<1> HIDE DEF d
<1>5. QuoteShare' = QuoteShare /\ BaseShare' = BaseShare /\ Brackets' = Brackets
  BY <1>1 DEF QuoteShare, BaseShare, Share, Brackets
<1>6. /\ master["quote"] = args.quote - Spent(QuoteMade, QuoteShare)
      /\ master["base"] = args.base - Spent(BaseMade, BaseShare)
      /\ DOMAIN master = Tokens /\ "quote" \in Tokens /\ "base" \in Tokens
  BY <1>3 DEF Tokens
<1>7. master' = [t \in Tokens |-> IF t = "quote" THEN args'.quote - Spent(QuoteMade', QuoteShare')
                                                ELSE args'.base - Spent(BaseMade', BaseShare')]
  <2>1. CASE d.token = "quote"
    <3>1. /\ QuoteMade = funded /\ QuoteMade' = funded + 1
          /\ BaseMade = 0 /\ BaseMade' = 0
      BY <1>1, <1>2, <1>4, <2>1 DEF QuoteMade, BaseMade
    <3>2. d.amount = QuoteShare /\ QuoteShare \in Nat
      BY <1>2, <2>1
    <3>3. Spent(funded + 1, QuoteShare) = Spent(funded, QuoteShare) + QuoteShare
      <4>1. (funded + 1) * QuoteShare = funded * QuoteShare + QuoteShare
        BY <1>2, <3>2, Z3
      <4>2. funded = 0 => funded * QuoteShare = 0
        BY <3>2, Z3
      <4>3. QED
        BY <1>2, <4>1, <4>2 DEF Spent
    <3>4. Spent(funded, QuoteShare) \in Int
      BY <1>2, <3>2, Z3 DEF Spent
    <3>5. master["quote"] - d.amount = args.quote - Spent(funded + 1, QuoteShare)
      BY <1>4, <1>6, <3>1, <3>2, <3>3, <3>4
    <3>6. Spent(0, BaseShare) = 0 /\ master["base"] = args.base - Spent(0, BaseShare)
      BY <1>6, <3>1 DEF Spent
    <3>7. master' = [t \in Tokens |-> IF t = "quote" THEN args.quote - Spent(funded + 1, QuoteShare)
                                                     ELSE args.base - Spent(0, BaseShare)]
      BY <1>1, <1>6, <2>1, <3>5, <3>6 DEF Tokens
    <3>8. QED
      BY <1>1, <1>5, <3>1, <3>7
  <2>2. CASE d.token = "base"
    <3>1. /\ QuoteMade = index /\ QuoteMade' = index
          /\ BaseMade = funded - index /\ BaseMade' = funded - index + 1
      BY <1>1, <1>2, <1>4, <2>2 DEF QuoteMade, BaseMade
    <3>2. d.amount = BaseShare /\ BaseShare \in Nat /\ funded - index \in Nat
      BY <1>2, <1>4, <2>2
    <3>3. Spent(funded - index + 1, BaseShare) = Spent(funded - index, BaseShare) + BaseShare
      <4> DEFINE m == funded - index
      <4>1. (m + 1) * BaseShare = m * BaseShare + BaseShare
        BY <3>2, Z3
      <4>2. m = 0 => m * BaseShare = 0
        BY <3>2, Z3
      <4> HIDE DEF m
      <4>3. m \in Nat
        BY <3>2 DEF m
      <4>4. Spent(m + 1, BaseShare) = Spent(m, BaseShare) + BaseShare
        BY <3>2, <4>1, <4>2, <4>3 DEF Spent
      <4>5. QED
        BY <4>4 DEF m
    <3>4. Spent(funded - index, BaseShare) \in Int
      BY <3>2, Z3 DEF Spent
    <3>5. master["base"] - d.amount = args.base - Spent(funded - index + 1, BaseShare)
      BY <1>4, <1>6, <3>1, <3>2, <3>3, <3>4
    <3>6. master["quote"] = args.quote - Spent(index, QuoteShare)
      BY <1>6, <3>1
    <3>7. master' = [t \in Tokens |-> IF t = "quote" THEN args.quote - Spent(index, QuoteShare)
                                                     ELSE args.base - Spent(funded - index + 1, BaseShare)]
      BY <1>1, <1>6, <2>2, <3>5, <3>6 DEF Tokens
    <3>8. QED
      BY <1>1, <1>5, <3>1, <3>7
  <2>3. QED
    BY <1>2, <2>1, <2>2 DEF Tokens
<1>8. balance' = [i \in Brackets |-> [t \in Tokens |-> BalanceOf(i, t)']]
  <2>1. funded \in Brackets /\ DOMAIN balance = Brackets /\ DOMAIN balance[funded] = Tokens
    BY <1>2, <1>3, <1>4 DEF Brackets
  <2>2. balance[funded][d.token] = 0
    BY <1>2, <1>3, <2>1 DEF BalanceOf
  <2>3. balance' = [balance EXCEPT ![funded] = [@ EXCEPT ![d.token] = d.amount]]
    <3>1. balance' = [balance EXCEPT ![funded] =
                        [balance[funded] EXCEPT ![d.token] = balance[funded][d.token] + d.amount]]
      <4>1. balance' = [balance EXCEPT ![funded][d.token] = @ + d.amount]
        BY <1>1, <1>2, Zenon
      <4>2. QED
        BY <4>1, <1>2, <2>1, Zenon
    <3>2. balance[funded][d.token] + d.amount = d.amount
      BY <1>2, <2>2
    <3>3. QED
      BY <3>1, <3>2, Zenon
  <2>4. ASSUME NEW i \in Brackets, NEW t \in Tokens
        PROVE  BalanceOf(i, t)' = balance'[i][t]
    <3>1. BalanceOf(i, t)' = IF i < funded + 1 /\ (t = "quote" <=> i < index)
                             THEN IF t = "quote" THEN QuoteShare ELSE BaseShare
                             ELSE 0
      BY <1>1, <1>5 DEF BalanceOf
    <3>2. balance[i][t] = BalanceOf(i, t) /\ i \in Int
      BY <1>3, <1>4 DEF Brackets
    <3>3. CASE i = funded /\ t = d.token
      <4>1. balance'[i][t] = d.amount
        BY <2>1, <2>3, <3>3
      <4>2. t = "quote" <=> i < index
        BY <1>2, <3>3
      <4>3. d.amount = IF t = "quote" THEN QuoteShare ELSE BaseShare
        BY <1>2, <3>3 DEF Tokens
      <4>4. i < funded + 1
        BY <1>2, <3>3
      <4>5. QED
        BY <3>1, <4>1, <4>2, <4>3, <4>4
    <3>4. CASE i = funded /\ t # d.token
      <4>1. balance'[i][t] = balance[i][t]
        BY <2>1, <2>3, <3>4
      <4>2. ~(t = "quote" <=> i < index)
        BY <1>2, <3>4 DEF Tokens
      <4>3. QED
        BY <3>1, <3>2, <4>1, <4>2 DEF BalanceOf
    <3>5. CASE i # funded
      <4>1. balance'[i][t] = balance[i][t]
        BY <2>1, <2>3, <3>5
      <4>2. i < funded + 1 <=> i < funded
        BY <1>2, <3>2, <3>5
      <4>3. QED
        BY <3>1, <3>2, <4>1, <4>2 DEF BalanceOf
    <3>6. QED
      BY <3>3, <3>4, <3>5
  <2>5. balance' = [i \in Brackets |-> [t \in Tokens |-> balance'[i][t]]]
    <3>1. balance \in [Brackets -> [Tokens -> {balance[i][t] : i \in Brackets, t \in Tokens}]]
      BY <1>3
    <3>2. DOMAIN balance' = Brackets /\ \A i \in Brackets : DOMAIN balance'[i] = Tokens
      BY <1>3, <2>1, <2>3
    <3>3. balance' = [i \in Brackets |-> balance'[i]]
      BY <1>3, <2>3
    <3>4. \A i \in Brackets : balance'[i] = [t \in Tokens |-> balance'[i][t]]
      BY <1>3, <2>1, <2>3
    <3>5. QED
      BY <3>3, <3>4
  <2>6. QED
    BY <2>4, <2>5
<1>9. /\ pc' \in {"build", "run"} /\ funded' \in 0..Len(deposits') /\ pc' # "build"
      /\ Len(deposits') = args'.brackets
  BY <1>1, <1>2, <1>3, <1>4
<1>10. \A j \in 1..Len(deposits') :
         deposits'[j].amount = IF deposits'[j].token = "quote" THEN QuoteShare' ELSE BaseShare'
  BY <1>1, <1>5 DEF SInv, DepositsMade
<1>11. QED
  BY <1>5, <1>7, <1>8, <1>9, <1>10 DEF DepositsMade

LEMMA StepSInv == SInv /\ [Next]_vars => SInv'
<1> SUFFICES ASSUME SInv, [Next]_vars PROVE SInv'
  OBVIOUS
<1>1. DepositsByIndex'
  BY StepDepositsByIndex DEF SInv
<1>2. args \in Arguments /\ index = BracketIndex(args) /\ Len(deposits) \in Nat
  BY LenProperties DEF SInv, DepositsByIndex
<1>3. args.brackets \in Nat /\ index \in 0..args.brackets
  BY <1>2, ArgumentTypes
<1>4. CASE AddQuoteDeposit
  <2>1. index > 0 /\ Len(deposits) < index
    BY <1>2, <1>3, <1>4 DEF AddQuoteDeposit
  <2>2. QuoteShare \in Int /\ QuoteShare = Share(args, index, "quote")
    BY <1>2, <2>1, ArgumentTypes DEF QuoteShare
  <2>3. DepositsMade'
    BY <1>4, <2>1, <2>2, BuildDepositsMade DEF AddQuoteDeposit, Tokens
  <2>4. QED
    BY <1>1, <2>3 DEF SInv
<1>5. CASE AddBaseDeposit
  <2>1. index < args.brackets /\ ~(Len(deposits) < index)
    BY <1>2, <1>3, <1>5 DEF AddBaseDeposit
  <2>2. BaseShare \in Int /\ BaseShare = Share(args, args.brackets - index, "base")
    BY <1>2, <2>1, ArgumentTypes DEF BaseShare
  <2>3. DepositsMade'
    BY <1>5, <2>1, <2>2, BuildDepositsMade DEF AddBaseDeposit, Tokens
  <2>4. QED
    BY <1>1, <2>3 DEF SInv
<1>6. CASE FinishBuilding \/ UNCHANGED vars
  <2>1. /\ UNCHANGED <<args, index, deposits, funded, master, balance>>
        /\ pc' \in {"build", "run"} /\ (pc' = "build" => funded = 0)
        /\ pc' = "run" => Len(deposits) = args.brackets
    BY <1>6 DEF FinishBuilding, vars, SInv, DepositsMade
  <2>2. QuoteShare' = QuoteShare /\ BaseShare' = BaseShare /\ Brackets' = Brackets
    BY <2>1 DEF QuoteShare, BaseShare, Share, Brackets
  <2>3. QuoteMade' = QuoteMade /\ BaseMade' = BaseMade
    BY <2>1 DEF QuoteMade, BaseMade
  <2>4. \A i, t : BalanceOf(i, t)' = BalanceOf(i, t)
    BY <2>1, <2>2 DEF BalanceOf
  <2>5. /\ master = [t \in Tokens |-> IF t = "quote" THEN args.quote - Spent(QuoteMade, QuoteShare)
                                                     ELSE args.base - Spent(BaseMade, BaseShare)]
        /\ balance = [i \in Brackets |-> [t \in Tokens |-> BalanceOf(i, t)]]
    BY DEF SInv, DepositsMade
  <2>6. /\ master' = [t \in Tokens |-> IF t = "quote" THEN args'.quote - Spent(QuoteMade', QuoteShare')
                                                      ELSE args'.base - Spent(BaseMade', BaseShare')]
        /\ balance' = [i \in Brackets' |-> [t \in Tokens |-> BalanceOf(i, t)']]
    BY <2>1, <2>2, <2>3, <2>4, <2>5, Zenon
  <2>7. /\ funded' \in 0..Len(deposits')
        /\ \A j \in 1..Len(deposits') :
              deposits'[j].amount = IF deposits'[j].token = "quote" THEN QuoteShare' ELSE BaseShare'
    BY <2>1, <2>2 DEF SInv, DepositsMade
  <2>8. DepositsMade'
    BY <2>1, <2>6, <2>7 DEF DepositsMade
  <2>9. QED
    BY <1>1, <2>8 DEF SInv
<1>7. CASE MakeDeposit
  BY <1>1, <1>7, MakeDepositMade DEF SInv
<1>8. QED
  BY <1>4, <1>5, <1>6, <1>7 DEF Next
-----------------------------------------------------------------------------
(***************************************************************************)
(* What the invariant says of each state.                                  *)
(***************************************************************************)
(* The master Safe never spends more than there is.                        *)
LEMMA SpentBounds ==
    ASSUME SInv
    PROVE  /\ Spent(QuoteMade, QuoteShare) \in Nat /\ Spent(QuoteMade, QuoteShare) <= args.quote
           /\ Spent(BaseMade, BaseShare) \in Nat /\ Spent(BaseMade, BaseShare) <= args.base
<1>1. /\ args \in Arguments /\ index = BracketIndex(args)
      /\ Len(deposits) <= args.brackets /\ funded \in 0..Len(deposits) /\ Len(deposits) \in Nat
  BY LenProperties DEF SInv, DepositsByIndex, DepositsMade
<1>2. /\ args.brackets \in Nat /\ index \in 0..args.brackets
      /\ args.quote \in Nat /\ args.base \in Nat /\ funded \in Nat /\ funded <= args.brackets
  BY <1>1, ArgumentTypes
<1>3. Spent(QuoteMade, QuoteShare) \in Nat /\ Spent(QuoteMade, QuoteShare) <= args.quote
  <2>1. CASE QuoteMade = 0
    BY <1>2, <2>1 DEF Spent
  <2>2. CASE QuoteMade # 0
    <3>1. QuoteMade \in Nat /\ QuoteMade <= index /\ index > 0
      BY <1>2, <2>2 DEF QuoteMade
    <3>2. QuoteShare \in Nat /\ index * QuoteShare <= args.quote
      BY <1>1, <3>1, ArgumentTypes
    <3>3. QuoteMade * QuoteShare <= index * QuoteShare
      BY <1>2, <3>1, <3>2, TimesMonotone
    <3>4. QuoteMade * QuoteShare \in Nat /\ index * QuoteShare \in Nat
      BY <1>2, <3>1, <3>2, Z3
    <3>5. QED
      BY <1>2, <2>2, <3>2, <3>3, <3>4 DEF Spent
  <2>3. QED
    BY <2>1, <2>2
<1>4. Spent(BaseMade, BaseShare) \in Nat /\ Spent(BaseMade, BaseShare) <= args.base
  <2>1. CASE BaseMade = 0
    BY <1>2, <2>1 DEF Spent
  <2>2. CASE BaseMade # 0
    <3> DEFINE k == args.brackets - index
    <3>1. BaseMade \in Nat /\ BaseMade <= k /\ index < args.brackets /\ k \in Nat
      BY <1>2, <2>2 DEF BaseMade
    <3>2. BaseShare \in Nat /\ k * BaseShare <= args.base
      BY <1>1, <3>1, ArgumentTypes
    <3> HIDE DEF k
    <3>3. BaseMade * BaseShare <= k * BaseShare
      BY <3>1, <3>2, TimesMonotone
    <3>4. BaseMade * BaseShare \in Nat /\ k * BaseShare \in Nat
      BY <3>1, <3>2, Z3
    <3>5. QED
      BY <1>2, <2>2, <3>2, <3>3, <3>4 DEF Spent
  <2>3. QED
    BY <2>1, <2>2
<1>5. QED
  BY <1>3, <1>4

LEMMA SInvTypeOK == SInv => TypeOK
<1> SUFFICES ASSUME SInv PROVE TypeOK
  OBVIOUS
<1> DEFINE D == [bracket : Int, token : Tokens, amount : Int]
           E == [bracket : Brackets, token : Tokens, amount : Nat]
<1>1. /\ args \in Arguments /\ index = BracketIndex(args) /\ pc \in {"build", "run"}
      /\ Len(deposits) <= args.brackets /\ funded \in 0..Len(deposits) /\ Len(deposits) \in Nat
      /\ deposits \in [1..Len(deposits) -> D]
  BY LenProperties DEF SInv, DepositsByIndex, DepositsMade
<1>2. /\ args.brackets \in Nat /\ index \in 0..args.brackets
      /\ args.quote \in Nat /\ args.base \in Nat /\ funded \in Nat /\ funded <= args.brackets
  BY <1>1, ArgumentTypes
<1>3. deposits \in Seq(E)
  <2>1. ASSUME NEW j \in 1..Len(deposits)
        PROVE  deposits[j] \in E
    <3>1. /\ deposits[j] \in D /\ deposits[j].bracket = j - 1
          /\ deposits[j].token = "quote" <=> j - 1 < index
          /\ deposits[j].amount = IF deposits[j].token = "quote" THEN QuoteShare ELSE BaseShare
      BY <1>1 DEF SInv, DepositsByIndex, DepositsMade
    <3>2. deposits[j].bracket \in Brackets
      BY <1>1, <1>2, <3>1 DEF Brackets
    <3>3. deposits[j].amount \in Nat
      <4>1. CASE j - 1 < index
        BY <1>1, <1>2, <2>1, <3>1, <4>1, ArgumentTypes
      <4>2. CASE ~(j - 1 < index)
        <5>1. index < args.brackets
          BY <1>1, <1>2, <4>2
        <5>2. BaseShare \in Nat
          BY <1>1, <5>1, ArgumentTypes
        <5>3. QED
          BY <3>1, <4>2, <5>2
      <4>3. QED
        BY <4>1, <4>2
    <3>4. \A x \in D : x.bracket \in Brackets /\ x.amount \in Nat => x \in E
      OBVIOUS
    <3> HIDE DEF D, E
    <3>5. QED
      BY <3>1, <3>2, <3>3, <3>4
  <2> HIDE DEF D, E
  <2>2. deposits \in [1..Len(deposits) -> E]
    BY <1>1, <2>1
  <2>3. QED
    BY <1>1, <2>2, SeqDef
<1>4. master \in [Tokens -> Nat]
  <2>1. /\ args.quote - Spent(QuoteMade, QuoteShare) \in Nat
        /\ args.base - Spent(BaseMade, BaseShare) \in Nat
    BY <1>2, SpentBounds
  <2>2. QED
    BY <2>1 DEF SInv, DepositsMade
<1>5. balance \in [Brackets -> [Tokens -> Nat]]
  <2>1. ASSUME NEW i \in Brackets, NEW t \in Tokens
        PROVE  BalanceOf(i, t) \in Nat
    <3>1. i \in 0..(args.brackets - 1)
      BY DEF Brackets
    <3>2. i < index => QuoteShare \in Nat
      BY <1>1, <1>2, <3>1, ArgumentTypes
    <3>3. ~(i < index) => BaseShare \in Nat
      <4>1. ~(i < index) => index < args.brackets
        BY <1>2, <3>1
      <4>2. QED
        BY <1>1, <4>1, ArgumentTypes
    <3>4. QED
      BY <3>2, <3>3 DEF BalanceOf
  <2>2. QED
    BY <2>1 DEF SInv, DepositsMade
<1>6. QED
  BY <1>1, <1>2, <1>3, <1>4, <1>5 DEF TypeOK

LEMMA SInvNeverRunsShort == SInv => NeverRunsShort
<1> SUFFICES ASSUME SInv, pc = "run", funded < Len(deposits)
             PROVE  deposits[funded + 1].amount <= master[deposits[funded + 1].token]
  BY DEF NeverRunsShort
<1>1. QED
  BY NextDeposit

(* When all deposits are made, every bracket has its share.                *)
LEMMA WhenDone ==
    ASSUME SInv, Done
    PROVE  /\ args \in Arguments /\ index = BracketIndex(args) /\ funded = args.brackets
           /\ args.brackets \in Nat /\ index \in 0..args.brackets
           /\ args.quote \in Nat /\ args.base \in Nat
           /\ master["quote"] = args.quote - Spent(QuoteMade, QuoteShare)
           /\ master["base"] = args.base - Spent(BaseMade, BaseShare)
           /\ \A i \in Brackets :
                 /\ i < index => balance[i]["quote"] = QuoteShare /\ balance[i]["base"] = 0
                 /\ ~(i < index) => balance[i]["base"] = BaseShare /\ balance[i]["quote"] = 0
<1>1. /\ args \in Arguments /\ index = BracketIndex(args) /\ funded = args.brackets
      /\ master["quote"] = args.quote - Spent(QuoteMade, QuoteShare)
      /\ master["base"] = args.base - Spent(BaseMade, BaseShare)
      /\ balance = [i \in Brackets |-> [t \in Tokens |-> BalanceOf(i, t)]]
  BY DEF SInv, DepositsByIndex, DepositsMade, Done, Tokens
<1>2. /\ args.brackets \in Nat /\ index \in 0..args.brackets
      /\ args.quote \in Nat /\ args.base \in Nat
  BY <1>1, ArgumentTypes
<1>3. ASSUME NEW i \in Brackets
      PROVE  /\ i < index => balance[i]["quote"] = QuoteShare /\ balance[i]["base"] = 0
             /\ ~(i < index) => balance[i]["base"] = BaseShare /\ balance[i]["quote"] = 0
  <2>1. i < funded
    BY <1>1, <1>2 DEF Brackets
  <2>2. balance[i]["quote"] = BalanceOf(i, "quote") /\ balance[i]["base"] = BalanceOf(i, "base")
    BY <1>1 DEF Tokens
  <2>3. QED
    BY <2>1, <2>2 DEF BalanceOf
<1>4. QED
  BY <1>1, <1>2, <1>3

LEMMA SInvOnlyDustIsLeft == SInv => OnlyDustIsLeft
<1> SUFFICES ASSUME SInv, Done
             PROVE  /\ index > 0 => master["quote"] < index
                    /\ index < args.brackets => master["base"] < args.brackets - index
  BY DEF OnlyDustIsLeft
<1>1. ASSUME index > 0
      PROVE  master["quote"] < index
  <2>1. QuoteMade = index /\ index \in Nat
    BY <1>1, WhenDone DEF QuoteMade
  <2>2. QuoteShare \in Nat /\ args.quote < index * QuoteShare + index
    BY <1>1, WhenDone, ArgumentTypes
  <2>3. index * QuoteShare \in Nat
    BY <2>1, <2>2, Z3
  <2>4. Spent(index, QuoteShare) = index * QuoteShare
    BY <1>1 DEF Spent
  <2>5. master["quote"] = args.quote - index * QuoteShare /\ args.quote \in Nat
    BY <2>1, <2>4, WhenDone
  <2>6. QED
    BY <2>1, <2>2, <2>3, <2>5
<1>2. ASSUME index < args.brackets
      PROVE  master["base"] < args.brackets - index
  <2> DEFINE k == args.brackets - index
  <2>1. BaseMade = k /\ k \in Nat /\ k # 0
    BY <1>2, WhenDone DEF BaseMade
  <2>2. BaseShare \in Nat /\ args.base < k * BaseShare + k
    BY <1>2, WhenDone, ArgumentTypes
  <2> HIDE DEF k
  <2>3. k * BaseShare \in Nat
    BY <2>1, <2>2, Z3
  <2>4. Spent(k, BaseShare) = k * BaseShare
    BY <2>1 DEF Spent
  <2>5. master["base"] = args.base - k * BaseShare /\ args.base \in Nat
    BY <2>1, <2>4, WhenDone
  <2>6. master["base"] < k
    BY <2>1, <2>2, <2>3, <2>5
  <2>7. QED
    BY <2>6 DEF k
<1>3. QED
  BY <1>1, <1>2

LEMMA SInvDepositsAreCorrect == SInv => DepositsAreCorrect
<1> SUFFICES ASSUME SInv, Done, NEW i \in Brackets
             PROVE  CorrectBalance(i)
  BY DEF DepositsAreCorrect
<1>1. /\ args \in Arguments /\ index = BracketIndex(args) /\ i \in 0..(args.brackets - 1)
      /\ args.brackets \in Nat /\ index \in 0..args.brackets /\ i \in Nat /\ i < args.brackets
  BY WhenDone DEF Brackets
<1>2. args.price \in Int /\ args.step \in Nat \ {0}
  BY <1>1, NearestLimitBounds
<1>3. /\ i < index => 2 * (args.price - i * args.step) >= args.step
      /\ i >= index => 2 * (i * args.step + args.step - args.price) >= args.step
  BY <1>1, IndexMargin
<1>4. i * args.step \in Int
  BY <1>1, <1>2
<1>5. LowerLimit(i) = i * args.step /\ UpperLimit(i) = i * args.step + args.step
  BY DEF LowerLimit, UpperLimit
<1>6. UpperLimit(i) < args.price => i < index
  <2> DEFINE low == i * args.step
  <2>1. low \in Int /\ (i >= index => 2 * (low + args.step - args.price) >= args.step)
    BY <1>3, <1>4
  <2>2. UpperLimit(i) = low + args.step
    BY <1>5
  <2> HIDE DEF low
  <2>3. QED
    BY <1>1, <1>2, <2>1, <2>2
<1>7. LowerLimit(i) > args.price => ~(i < index)
  <2> DEFINE low == i * args.step
  <2>1. low \in Int /\ (i < index => 2 * (args.price - low) >= args.step) /\ LowerLimit(i) = low
    BY <1>3, <1>4, <1>5
  <2> HIDE DEF low
  <2>2. QED
    BY <1>2, <2>1
<1>8. ~(UpperLimit(i) < args.price /\ LowerLimit(i) > args.price)
  BY <1>6, <1>7
<1> DEFINE onlyQuote == /\ index > 0 /\ balance[i]["base"] = 0
                        /\ balance[i]["quote"] = Share(args, index, "quote")
           onlyBase  == /\ index < args.brackets /\ balance[i]["quote"] = 0
                        /\ balance[i]["base"] = Share(args, args.brackets - index, "base")
<1>9. i < index => onlyQuote
  BY <1>1, WhenDone DEF QuoteShare
<1>10. ~(i < index) => onlyBase
  <2>1. ~(i < index) => index < args.brackets
    BY <1>1
  <2>2. QED
    BY <2>1, WhenDone DEF BaseShare
<1>11. CASE UpperLimit(i) < args.price
  BY <1>6, <1>8, <1>9, <1>11 DEF CorrectBalance
<1>12. CASE LowerLimit(i) > args.price
  BY <1>7, <1>8, <1>10, <1>12 DEF CorrectBalance
<1>13. CASE ~(UpperLimit(i) < args.price) /\ ~(LowerLimit(i) > args.price)
  BY <1>9, <1>10, <1>13 DEF CorrectBalance
<1>14. QED
  BY <1>11, <1>12, <1>13
-----------------------------------------------------------------------------
(* Types are right: in particular no amount is ever negative, neither that *)
(* of a deposit nor what the master Safe is left with.                     *)
THEOREM TypesAreRight == Spec => []TypeOK
  BY InitSInv, StepSInv, SInvTypeOK, PTL DEF Spec

(* The master Safe has every deposit of the list when the bundle makes it, *)
(* whatever is left over by the divisions.                                 *)
THEOREM BundleNeverRunsShort == Spec => []NeverRunsShort
  BY InitSInv, StepSInv, SInvNeverRunsShort, PTL DEF Spec

(* Fewer units of a token stay behind than brackets have got of it.        *)
THEOREM LessThanAUnitEachIsLeft == Spec => []OnlyDustIsLeft
  BY InitSInv, StepSInv, SInvOnlyDustIsLeft, PTL DEF Spec

(* checkCorrectnessOfDeposits accepts what the deposits make of the        *)
(* brackets, at any price and with any number of brackets.                 *)
THEOREM DepositsPassTheirCheck == Spec => []DepositsAreCorrect
  BY InitSInv, StepSInv, SInvDepositsAreCorrect, PTL DEF Spec
=============================================================================
