--------------------------- MODULE SetupChecksProofs ---------------------------
(***************************************************************************)
(* Theorems about SetupChecks, for any brackets, orders, chains and prices.*)
(***************************************************************************)
EXTENDS SetupChecks, SumTheorems

(***************************************************************************)
(* Lists of orders, put together.                                          *)
(***************************************************************************)
(* What FlattenSeq computes for the first m of the sequences.              *)
IsFlat(f, seqs, m) == f = [i \in 1..m |-> IF i = 1 THEN seqs[i] ELSE f[i-1] \o seqs[i]]

LEMMA FlatExists ==
    ASSUME NEW seqs, NEW n \in Nat
    PROVE  \E f : IsFlat(f, seqs, n)
<1> DEFINE Bad == {m \in Nat : ~\E f : IsFlat(f, seqs, m)}
<1>1. SUFFICES ASSUME Bad # {} PROVE FALSE
  OBVIOUS
<1>2. PICK m \in Bad : \A k \in Bad : m <= k
  BY <1>1, SmallestNumber
<1>3. CASE m = 0
  <2>1. IsFlat([i \in 1..0 |-> 0], seqs, 0)
    BY DEF IsFlat
  <2>2. QED
    BY <1>3, <2>1
<1>4. CASE m # 0
  <2>1. m - 1 \in Nat /\ m - 1 \notin Bad
    BY <1>2, <1>4
  <2>2. PICK f : IsFlat(f, seqs, m - 1)
    BY <2>1
  <2> DEFINE g == [i \in 1..m |-> IF i = 1 THEN seqs[i] ELSE f[i-1] \o seqs[i]]
  <2>3. ASSUME NEW i \in 1..m, i # 1
        PROVE  g[i-1] = f[i-1]
    <3>1. i - 1 \in 1..(m-1) /\ i - 1 \in 1..m
      BY <1>2, <2>3
    <3>2. f[i-1] = IF i - 1 = 1 THEN seqs[i-1] ELSE f[(i-1)-1] \o seqs[i-1]
      BY <2>2, <3>1 DEF IsFlat
    <3>3. QED
      BY <3>1, <3>2
  <2> HIDE DEF g
  <2>4. g = [i \in 1..m |-> IF i = 1 THEN seqs[i] ELSE g[i-1] \o seqs[i]]
    <3>1. \A i \in 1..m : (IF i = 1 THEN seqs[i] ELSE f[i-1] \o seqs[i])
                            = (IF i = 1 THEN seqs[i] ELSE g[i-1] \o seqs[i])
      BY <2>3
    <3>2. g = [i \in 1..m |-> IF i = 1 THEN seqs[i] ELSE f[i-1] \o seqs[i]]
      BY DEF g
    <3>3. QED
      BY <3>1, <3>2
  <2>5. QED
    BY <2>4 DEF IsFlat
<1>5. QED
  BY <1>3, <1>4

(* A flattened sequence has the elements of its parts and no others.       *)
HasAll(S, seqs, m, r) ==
    /\ r \in Seq(S)
    /\ \A i \in 1..m : \A k \in DOMAIN seqs[i] : \E j \in DOMAIN r : r[j] = seqs[i][k]
    /\ \A j \in DOMAIN r : \E i \in 1..m : \E k \in DOMAIN seqs[i] : r[j] = seqs[i][k]

LEMMA Flattened ==
    ASSUME NEW S, NEW seqs \in Seq(Seq(S))
    PROVE  HasAll(S, seqs, Len(seqs), FlattenSeq(seqs))
<1>0. DOMAIN seqs = 1..Len(seqs) /\ Len(seqs) \in Nat
  OBVIOUS
<1>1. CASE Len(seqs) = 0
  <2>1. FlattenSeq(seqs) = seqs /\ seqs = <<>>
    BY <1>1 DEF FlattenSeq
  <2>2. QED
    BY <1>1, <2>1 DEF HasAll
<1>2. CASE Len(seqs) # 0
  <2> DEFINE n == Len(seqs)
             flatten == CHOOSE f : IsFlat(f, seqs, n)
             Good(m) == HasAll(S, seqs, m, flatten[m])
  <2>1. IsFlat(flatten, seqs, n)
    <3>1. \E f : IsFlat(f, seqs, n)
      BY <1>0, FlatExists
    <3>2. QED
      BY <3>1
  <2>2. FlattenSeq(seqs) = flatten[n]
    BY <1>2 DEF FlattenSeq, IsFlat
  <2> HIDE DEF flatten
  <2>3. \A m \in 1..n : flatten[m] = IF m = 1 THEN seqs[m] ELSE flatten[m-1] \o seqs[m]
    BY <2>1 DEF IsFlat
  <2>4. \A m \in 1..n : seqs[m] \in Seq(S)
    BY <1>0
  <2>5. ASSUME NEW m \in 1..n, m = 1 \/ Good(m-1)
        PROVE  Good(m)
    <3>1. CASE m = 1
      <4>1. flatten[m] = seqs[m]
        BY <2>3, <3>1
      <4>2. 1..m = {m}
        BY <3>1
      <4>3. QED
        BY <2>4, <4>1, <4>2 DEF HasAll
    <3>2. CASE m # 1
      <4> DEFINE s == flatten[m-1]
                 t == seqs[m]
      <4>1. flatten[m] = s \o t /\ s \in Seq(S) /\ t \in Seq(S)
        BY <2>3, <2>4, <2>5, <3>2 DEF HasAll
      <4>2. m \in Nat /\ m - 1 \in Nat /\ 1..m = (1..(m-1)) \cup {m}
        BY <3>2
      <4>3. /\ \A i \in 1..(m-1) : \A k \in DOMAIN seqs[i] : \E j \in DOMAIN s : s[j] = seqs[i][k]
            /\ \A j \in DOMAIN s : \E i \in 1..(m-1) : \E k \in DOMAIN seqs[i] : s[j] = seqs[i][k]
        BY <2>5, <3>2 DEF HasAll
      <4> HIDE DEF s
      <4>4. \A j \in DOMAIN s : j \in DOMAIN (s \o t) /\ (s \o t)[j] = s[j]
        BY <4>1
      <4>5. \A k \in DOMAIN t : Len(s) + k \in DOMAIN (s \o t) /\ (s \o t)[Len(s) + k] = t[k]
        BY <4>1
      <4>6. ASSUME NEW j \in DOMAIN (s \o t)
            PROVE  (j \in DOMAIN s /\ (s \o t)[j] = s[j]) \/ \E k \in DOMAIN t : (s \o t)[j] = t[k]
        <5>1. j \in 1..(Len(s) + Len(t)) /\ Len(s) \in Nat /\ Len(t) \in Nat
          BY <4>1
        <5>2. CASE j <= Len(s)
          BY <4>1, <5>1, <5>2
        <5>3. CASE j > Len(s)
          <6>1. j - Len(s) \in DOMAIN t /\ (s \o t)[j] = t[j - Len(s)]
            BY <4>1, <5>1, <5>3
          <6>2. QED
            BY <6>1
        <5>4. QED
          BY <5>1, <5>2, <5>3
      <4>7. s \o t \in Seq(S)
        BY <4>1
      <4>8. PICK r : r = s \o t
        OBVIOUS
      <4>9. ASSUME NEW i \in 1..m, NEW k \in DOMAIN seqs[i]
            PROVE  \E j \in DOMAIN r : r[j] = seqs[i][k]
        <5>1. CASE i = m
          BY <4>5, <4>8, <5>1
        <5>2. CASE i # m
          <6>1. i \in 1..(m-1)
            BY <4>2, <5>2
          <6>2. PICK j \in DOMAIN s : s[j] = seqs[i][k]
            BY <4>3, <6>1
          <6>3. QED
            BY <4>4, <4>8, <6>2
        <5>3. QED
          BY <5>1, <5>2
      <4>10. ASSUME NEW j \in DOMAIN r
             PROVE  \E i \in 1..m : \E k \in DOMAIN seqs[i] : r[j] = seqs[i][k]
        <5>1. CASE j \in DOMAIN s /\ r[j] = s[j]
          BY <4>2, <4>3, <5>1, SMTT(30)
        <5>2. CASE \E k \in DOMAIN t : r[j] = t[k]
          BY <5>2
        <5>3. QED
          BY <4>6, <4>8, <5>1, <5>2
      <4>11. flatten[m] = r
        BY <4>1, <4>8
      <4>12. HasAll(S, seqs, m, r)
        BY <4>7, <4>8, <4>9, <4>10 DEF HasAll
      <4>13. QED
        BY <4>11, <4>12
    <3>3. QED
      BY <3>1, <3>2
  <2> HIDE DEF Good
  <2>6. Good(n)
    <3> DEFINE Bad == {m \in 1..n : ~Good(m)}
    <3>1. CASE Bad = {}
      BY <1>0, <1>2, <3>1
    <3>2. CASE Bad # {}
      <4>1. Bad \in SUBSET Nat
        OBVIOUS
      <4>2. PICK m \in Bad : \A k \in Bad : m <= k
        BY <3>2, <4>1, SmallestNumber
      <4>3. m \in 1..n /\ ~Good(m)
        OBVIOUS
      <4>4. m = 1 \/ (m - 1 \in 1..n /\ m - 1 \notin Bad)
        BY <1>0, <4>2, <4>3
      <4>5. QED
        BY <2>5, <4>3, <4>4
    <3>3. QED
      BY <3>1, <3>2
  <2>7. QED
    BY <2>2, <2>6 DEF Good
<1>3. QED
  BY <1>1, <1>2
-----------------------------------------------------------------------------
(***************************************************************************)
(* The inductive invariant: what a check knows was so at some moment.  The *)
(* predicates are about a check c, the moments S and the stored prices st. *)
(***************************************************************************)
RelevantIn(c) == FlattenSeq([i \in DOMAIN BracketList |-> c.orders[BracketList[i]]])
OrderIn(c)    == RelevantIn(c)[c.next]
TradedIn(c)   == TokensOf(RelevantIn(c))

PriceBy(st, s, base, quote) ==
    IF Key(base, quote) \in DOMAIN st THEN st[Key(base, quote)].log
    ELSE IF Key(quote, base) \in DOMAIN st THEN -st[Key(quote, base)].log
    ELSE MarketPrice(s.market, base, quote)

AttractiveBy(st, s, order) ==
    /\ PriceBy(st, s, order.sell, order.buy) >= order.limit
    /\ PriceBy(st, s, order.sell, USDC) + order.size >= 0

OrdersSeen(S, b, list)              == \E s \in S : s.chain.orders[b] = list
TraitSeen(S, trait)                 == \E s \in S : trait \notin s.chain.wrong
PriceSeen(S, st, price, base, quote) == \E s \in S : price = PriceBy(st, s, base, quote)
Judged(S, st, order)                == \E s \in S : ~AttractiveBy(st, s, order)
Absent(S, account, t, p) ==
    \E s \in S : <<account, t, p>> \notin Unlawful(s, account, {t})

AfterProfit == {"allowances", "passed"}
AfterLists  == {"profit"} \cup AfterProfit
AfterShape  == {"lists"} \cup AfterLists
AfterOrders == {"prices", "shape"} \cup AfterShape

OrdersRead(c, S) ==
    c.pc \in {"orders"} \cup AfterOrders =>
        \A b \in Brackets : (c.pc = "orders" /\ b \in c.left) \/ OrdersSeen(S, b, c.orders[b])

TraitsRead(c, S) ==
    /\ c.pc = "shape" =>
          /\ c.next \in DOMAIN Phases /\ c.left \subseteq Phases[c.next]
          /\ \A q \in 1..(c.next - 1) : \A trait \in Phases[q] : TraitSeen(S, trait)
          /\ \A trait \in Phases[c.next] \ c.left : TraitSeen(S, trait)
    /\ c.pc \in AfterShape => \A trait \in Traits : TraitSeen(S, trait)

ListsRight(c) ==
    c.pc \in AfterLists => \A b \in Brackets : BackAndForth(c.orders[b]) /\ Gains(c.orders[b])

(* The server gave no price for the order, or it was unattractive once.    *)
Cleared(unpriced, S, st, order) == order \in unpriced \/ Judged(S, st, order)

OrdersJudged(c, S, st) ==
    /\ c.pc = "profit" =>
          \A j \in 1..(c.next - 1) : Cleared(c.unpriced, S, st, RelevantIn(c)[j])
    /\ c.pc = "profit" /\ c.usd =>
          PriceSeen(S, st, c.price, OrderIn(c).sell, OrderIn(c).buy)
    /\ c.pc \in AfterProfit =>
          \A j \in DOMAIN RelevantIn(c) : Cleared(c.unpriced, S, st, RelevantIn(c)[j])

(* The accounts before the current one are done; of the current one it     *)
(* remains to read events, then what spenders are allowed.                 *)
AllowancesRead(c, S) ==
    /\ c.pc = "allowances" =>
          /\ c.next \in DOMAIN Accounts
          /\ c.left \subseteq ({Accounts[c.next]} \X TradedIn(c))
                                \cup ({Accounts[c.next]} \X TradedIn(c) \X Spenders)
          /\ \A j \in 1..(c.next - 1) : \A t \in TradedIn(c), p \in Spenders :
                Absent(S, Accounts[j], t, p)
          /\ \A t \in TradedIn(c), p \in Spenders :
                \/ <<Accounts[c.next], t>> \in c.left \/ <<Accounts[c.next], t, p>> \in c.left
                \/ Absent(S, Accounts[c.next], t, p)
    /\ c.pc = "passed" =>
          \A account \in ToSet(Accounts), t \in TradedIn(c), p \in Spenders :
             Absent(S, account, t, p)

Verified(c, S, st) ==
    /\ OrdersRead(c, S) /\ TraitsRead(c, S) /\ ListsRight(c)
    /\ OrdersJudged(c, S, st) /\ AllowancesRead(c, S)

(* The price the user named was near the market's at some moment.          *)
PriceIsNear(c, S) ==
    c.pc = "bounds" /\ ~c.confirmed /\ c.quoted =>
        \E s \in S : Abs(MarketPrice(s.market, Base, Quote) - c.setting.price) < Tolerance

VerifyStages    == {"prices", "lists", "profit", "passed", "refused", "broken"} \cup Reading
ProvisionStages == {"price", "bounds", "passed", "refused", "broken"}

Items == Brackets \cup Traits \cup (ToSet(Accounts) \X Tokens) \cup Allowances

CheckRecords ==
    [kind : {"none", "verify", "provision"},
     pc : {"idle"} \cup VerifyStages \cup ProvisionStages, left : SUBSET Items, next : Nat,
     orders : [Brackets -> OrderLists \cup {<<>>}], usd : BOOLEAN, price : Int,
     unpriced : SUBSET Orders, setting : Settings \cup {AnySetting},
     quoted : BOOLEAN, confirmed : BOOLEAN]

CheckTypes(c) ==
    /\ c \in CheckRecords
    /\ c.kind = "none" => c.pc = "idle"
    /\ c.kind = "verify" => c.pc \in VerifyStages
    /\ c.kind = "provision" => c.pc \in ProvisionStages /\ c.setting \in Settings
    /\ c.pc = "idle" => c = NoCheck
    /\ c.pc \in Reading => c.left # {}
    /\ c.pc = "orders" => c.left \subseteq Brackets /\ c.next = 1
    /\ c.pc \in {"prices", "profit"} => c.next \in DOMAIN RelevantIn(c)
    /\ c.pc \in {"orders", "shape", "lists", "allowances"} => ~c.usd

(* A query is about the order or the strategy whose price is needed now.   *)
QueryFits(c, q) ==
    /\ c.pc \in {"prices", "profit"} /\ q.pc # "none" =>
          /\ q.base = OrderIn(c).sell
          /\ q.quote = IF c.usd THEN USDC ELSE OrderIn(c).buy
    /\ c.pc = "price" => q.base = Base /\ q.quote = Quote
    /\ c.pc \notin {"prices", "profit", "price", "passed", "refused", "broken"} => q.pc = "none"

(* Its answer was right at some moment.                                    *)
AnswerSeen(q, S, st) ==
    /\ q.pc = "asking" =>
          Key(q.base, q.quote) \notin DOMAIN st /\ Key(q.quote, q.base) \notin DOMAIN st
    /\ q.pc = "answered" /\ q.slice.kind = "number"
          => PriceSeen(S, st, q.slice.log, q.base, q.quote)

NothingOf(st) == \A t, u \in Tokens : Key(t, u) \notin DOMAIN st

Moments == [chain : {c \in ChainStates : c.allowed \subseteq c.approved},
            market : [Tokens -> Int]]

SeenOK ==
    /\ Now \in Moments
    /\ changes \in 0..MaxChanges
    /\ OracleTypeOK
    /\ seen \subseteq Moments
    /\ check.pc # "idle" => Now \in seen

CorrectBy(st, s) ==
    /\ s.chain.wrong = {}
    /\ \A b \in Brackets :
          /\ BackAndForth(s.chain.orders[b]) /\ Gains(s.chain.orders[b])
          /\ \A k \in {1, 2} : ~AttractiveBy(st, s, s.chain.orders[b][k])
    /\ \A account \in ToSet(Accounts) : Unlawful(s, account, Tokens) = {}

(* NoFalseAlarm and LimitsAreNearMarket.                                   *)
WasUnpriced(c) == c.usd /\ OrderIn(c) \in c.unpriced

Justified(c, S, st) ==
    c.pc = "refused" => WasUnpriced(c) \/ \A s \in S : S = {s} => ~CorrectBy(st, s)

LimitsNear(c, S) ==
    c.pc = "passed" /\ ~c.confirmed =>
        /\ c.setting.price - Spread < c.setting.lowest /\ c.setting.lowest < c.setting.price
        /\ c.setting.price < c.setting.highest /\ c.setting.highest < c.setting.price + Spread
        /\ c.quoted => \E s \in S : \A limit \in {c.setting.lowest, c.setting.highest} :
              Abs(MarketPrice(s.market, Base, Quote) - limit) < Spread + Tolerance

Sound(c, q, S, st) ==
    /\ CheckTypes(c)
    /\ c.kind = "verify" => Verified(c, S, st) /\ Justified(c, S, st)
    /\ c.kind = "provision" => PriceIsNear(c, S) /\ LimitsNear(c, S) /\ NothingOf(st)
    /\ QueryFits(c, q) /\ AnswerSeen(q, S, st)

IInv == SeenOK /\ Sound(check, query, seen, storage)
-----------------------------------------------------------------------------
(***************************************************************************)
(* What the lookups of prices see does not change when a price is stored.  *)
(***************************************************************************)
SameLookups(st, st2) ==
    \A t, u : /\ Key(t, u) \in DOMAIN st <=> Key(t, u) \in DOMAIN st2
              /\ Key(t, u) \in DOMAIN st => st2[Key(t, u)] = st[Key(t, u)]

LEMMA LookupsStay ==
    ASSUME NEW st, NEW slice,
           NEW st2, st2 = [key \in DOMAIN st \cup {ObjectKey} |->
                              IF key = ObjectKey THEN slice ELSE st[key]]
    PROVE  SameLookups(st, st2)
<1>1. \A t, u : Key(t, u) # ObjectKey
  BY DEF Key, ObjectKey
<1>2. QED
  BY <1>1 DEF SameLookups

LEMMA SamePrices ==
    ASSUME NEW st, NEW st2, SameLookups(st, st2), NEW s, NEW t, NEW u
    PROVE  PriceBy(st, s, t, u) = PriceBy(st2, s, t, u)
BY DEF SameLookups, PriceBy

(* What was so at some moment stays so, whatever happens later.            *)
LEMMA AtomsGrow ==
    ASSUME NEW S, NEW S2, S \subseteq S2, NEW st, NEW st2, SameLookups(st, st2)
    PROVE  /\ \A b, list : OrdersSeen(S, b, list) => OrdersSeen(S2, b, list)
           /\ \A trait : TraitSeen(S, trait) => TraitSeen(S2, trait)
           /\ \A price, t, u : PriceSeen(S, st, price, t, u) => PriceSeen(S2, st2, price, t, u)
           /\ \A order : Judged(S, st, order) => Judged(S2, st2, order)
           /\ \A unpriced, order : Cleared(unpriced, S, st, order) => Cleared(unpriced, S2, st2, order)
           /\ \A account, t, p : Absent(S, account, t, p) => Absent(S2, account, t, p)
<1>1. \A s, t, u : PriceBy(st, s, t, u) = PriceBy(st2, s, t, u)
  BY SamePrices
<1>2. \A s, order : AttractiveBy(st, s, order) = AttractiveBy(st2, s, order)
  BY <1>1 DEF AttractiveBy
<1>3. \A price, t, u : PriceSeen(S, st, price, t, u) => PriceSeen(S2, st2, price, t, u)
  BY <1>1 DEF PriceSeen
<1>4. \A order : Judged(S, st, order) => Judged(S2, st2, order)
  BY <1>2 DEF Judged
<1>5. QED
  BY <1>3, <1>4 DEF OrdersSeen, TraitSeen, Absent, Cleared

LEMMA VerifiedGrows ==
    ASSUME NEW S, NEW S2, S \subseteq S2, NEW st, NEW st2, SameLookups(st, st2),
           NEW c, Verified(c, S, st)
    PROVE  Verified(c, S2, st2)
<1>1. OrdersRead(c, S2)
  BY AtomsGrow, Zenon DEF Verified, OrdersRead
<1>2. TraitsRead(c, S2)
  BY AtomsGrow, Zenon DEF Verified, TraitsRead
<1>3. OrdersJudged(c, S2, st2)
  BY AtomsGrow, Zenon DEF Verified, OrdersJudged
<1>4. AllowancesRead(c, S2)
  BY AtomsGrow, Zenon DEF Verified, AllowancesRead
<1>5. QED
  BY <1>1, <1>2, <1>3, <1>4 DEF Verified

(* The same of the price that was named and of the answer to a query.      *)
LEMMA OthersGrow ==
    ASSUME NEW S, NEW S2, S \subseteq S2, NEW st, NEW st2, SameLookups(st, st2)
    PROVE  /\ \A c : PriceIsNear(c, S) => PriceIsNear(c, S2)
           /\ \A q : AnswerSeen(q, S, st) => AnswerSeen(q, S2, st2)
           /\ NothingOf(st) => NothingOf(st2)
<1>1. \A c : PriceIsNear(c, S) => PriceIsNear(c, S2)
  BY DEF PriceIsNear
<1>2. \A q : AnswerSeen(q, S, st) => AnswerSeen(q, S2, st2)
  BY AtomsGrow DEF AnswerSeen, SameLookups
<1>3. QED
  BY <1>1, <1>2 DEF NothingOf, SameLookups
-----------------------------------------------------------------------------
(***************************************************************************)
(* What the constants are.                                                 *)
(***************************************************************************)
LEMMA BracketsListed ==
    /\ DOMAIN BracketList = 1..Len(BracketList) /\ Len(BracketList) \in Nat \ {0}
    /\ \A i \in DOMAIN BracketList : BracketList[i] \in Brackets
    /\ \A b \in Brackets : \E i \in DOMAIN BracketList : BracketList[i] = b
    /\ \E b : b \in Brackets
<1>1. /\ DOMAIN BracketList = 1..Len(BracketList) /\ Len(BracketList) \in Nat \ {0}
      /\ \A i \in DOMAIN BracketList : BracketList[i] \in Brackets
      /\ \A b \in Brackets : \E i \in DOMAIN BracketList : BracketList[i] = b
  BY SetupAssumption DEF Brackets, ToSet
<1>2. BracketList[1] \in Brackets
  BY <1>1
<1>3. QED
  BY <1>1, <1>2

LEMMA AccountsListed ==
    /\ DOMAIN Accounts = 1..Len(Accounts) /\ Len(Accounts) \in Nat \ {0}
    /\ Accounts[1] = Master
    /\ \A i \in DOMAIN Accounts : Accounts[i] \in ToSet(Accounts)
    /\ \A account \in ToSet(Accounts) : \E i \in DOMAIN Accounts : Accounts[i] = account
<1>1. BracketList \in Seq(Brackets \cup {Master})
  BY SetupAssumption
<1>2. Accounts \in Seq(Brackets \cup {Master}) /\ Len(Accounts) = Len(BracketList) + 1
  BY <1>1 DEF Accounts
<1>3. Accounts[1] = Master
  BY <1>1 DEF Accounts
<1>4. QED
  BY <1>2, <1>3, BracketsListed DEF ToSet

LEMMA PhasesListed ==
    /\ DOMAIN Phases = 1..6
    /\ Phases[1] = Brackets \X {"bytecode"} /\ Phases[1] # {}
    /\ \A p \in 1..6 : Phases[p] \subseteq Traits
    /\ \A trait \in Traits : \E p \in 1..6 : trait \in Phases[p]
<1>1. DOMAIN Phases = 1..6 /\ Phases[1] = Brackets \X {"bytecode"}
  BY DEF Phases
<1>2. <<BracketList[1], "bytecode">> \in Brackets \X {"bytecode"}
  BY BracketsListed
<1>3. Phases[1] # {}
  BY <1>1, <1>2
<1>4. QED
  BY <1>1, <1>3 DEF Traits, ToSet

LEMMA ListsAreSequences ==
    \A list \in OrderLists \cup {<<>>} : list \in Seq(Orders)
<1>1. <<>> \in Seq(Orders)
  OBVIOUS
<1>2. OrderLists \subseteq Seq(Orders)
  BY SetupAssumption
<1>3. QED
  BY <1>1, <1>2

(* What the relevant orders of a check are.                                *)
RelevantRight(c) ==
    /\ RelevantIn(c) \in Seq(Orders)
    /\ \A b \in Brackets : \A k \in DOMAIN c.orders[b] :
          \E j \in DOMAIN RelevantIn(c) : RelevantIn(c)[j] = c.orders[b][k]
    /\ \A j \in DOMAIN RelevantIn(c) : \E b \in Brackets : \E k \in DOMAIN c.orders[b] :
          RelevantIn(c)[j] = c.orders[b][k]

LEMMA RelevantOrders ==
    ASSUME NEW c \in CheckRecords
    PROVE  RelevantRight(c)
<1> DEFINE lists == [i \in DOMAIN BracketList |-> c.orders[BracketList[i]]]
<1>1. c.orders \in [Brackets -> Seq(Orders)]
  <2>1. c.orders \in [Brackets -> OrderLists \cup {<<>>}]
    BY DEF CheckRecords
  <2>2. OrderLists \cup {<<>>} \subseteq Seq(Orders)
    BY ListsAreSequences
  <2>3. QED
    BY <2>1, <2>2
<1>2. lists \in Seq(Seq(Orders)) /\ Len(lists) = Len(BracketList)
  BY <1>1, BracketsListed
<1>3. HasAll(Orders, lists, Len(lists), FlattenSeq(lists))
  BY <1>2, Flattened
<1>4. PICK r : r = RelevantIn(c)
  OBVIOUS
<1>5. HasAll(Orders, lists, Len(BracketList), r)
  BY <1>2, <1>3, <1>4 DEF RelevantIn
<1>6. \A i \in 1..Len(BracketList) : lists[i] = c.orders[BracketList[i]]
  BY BracketsListed
<1> HIDE DEF lists
<1>7. r \in Seq(Orders)
  BY <1>5 DEF HasAll
<1>8. ASSUME NEW b \in Brackets, NEW k \in DOMAIN c.orders[b]
      PROVE  \E j \in DOMAIN r : r[j] = c.orders[b][k]
  <2>1. PICK i \in 1..Len(BracketList) : BracketList[i] = b
    BY BracketsListed
  <2>2. lists[i] = c.orders[b]
    BY <1>6, <2>1
  <2>3. QED
    BY <1>5, <1>8, <2>2 DEF HasAll
<1>9. ASSUME NEW j \in DOMAIN r
      PROVE  \E b \in Brackets : \E k \in DOMAIN c.orders[b] : r[j] = c.orders[b][k]
  <2>1. PICK i \in 1..Len(BracketList) : \E k \in DOMAIN lists[i] : r[j] = lists[i][k]
    BY <1>5, <1>9 DEF HasAll
  <2>2. BracketList[i] \in Brackets
    BY <2>1, BracketsListed
  <2>3. QED
    BY <1>6, <2>1, <2>2
<1>10. QED
  BY <1>4, <1>7, <1>8, <1>9 DEF RelevantRight

(* When all lists are right there are relevant orders.                     *)
LEMMA RelevantExist ==
    ASSUME NEW c \in CheckRecords,
           \E b \in Brackets : c.orders[b] # <<>>
    PROVE  /\ DOMAIN RelevantIn(c) = 1..Len(RelevantIn(c)) /\ Len(RelevantIn(c)) \in Nat \ {0}
           /\ 1 \in DOMAIN RelevantIn(c)
           /\ \E t : t \in TradedIn(c)
<1>1. PICK b \in Brackets : c.orders[b] # <<>>
  OBVIOUS
<1>2. c.orders[b] \in Seq(Orders)
  <2>1. c.orders[b] \in OrderLists \cup {<<>>}
    BY DEF CheckRecords
  <2>2. QED
    BY <2>1, ListsAreSequences
<1>3. 1 \in DOMAIN c.orders[b]
  BY <1>1, <1>2
<1>4. PICK r : r = RelevantIn(c)
  OBVIOUS
<1>5. r \in Seq(Orders) /\ \E j \in DOMAIN r : TRUE
  BY <1>3, <1>4, RelevantOrders DEF RelevantRight
<1>6. DOMAIN r = 1..Len(r) /\ Len(r) \in Nat \ {0} /\ 1 \in DOMAIN r
  BY <1>5
<1>7. r[1].sell \in TokensOf(r)
  BY <1>6 DEF TokensOf
<1>8. QED
  BY <1>4, <1>6, <1>7 DEF TradedIn

LEMMA TradedAreTokens ==
    ASSUME NEW c \in CheckRecords
    PROVE  /\ TradedIn(c) \subseteq Tokens
           /\ \A b \in Brackets : TokensOf(c.orders[b]) \subseteq TradedIn(c)
<1>1. PICK r : r = RelevantIn(c)
  OBVIOUS
<1>2. r \in Seq(Orders)
  BY <1>1, RelevantOrders DEF RelevantRight
<1>3. \A j \in DOMAIN r : r[j].sell \in Tokens /\ r[j].buy \in Tokens
  <2>1. \A j \in DOMAIN r : r[j] \in Orders
    BY <1>2
  <2>2. QED
    BY <2>1 DEF Orders
<1>4. TokensOf(r) \subseteq Tokens
  BY <1>3 DEF TokensOf
<1>5. ASSUME NEW b \in Brackets, NEW t \in TokensOf(c.orders[b])
      PROVE  t \in TokensOf(r)
  <2>1. PICK k \in DOMAIN c.orders[b] : t \in {c.orders[b][k].sell, c.orders[b][k].buy}
    BY <1>5 DEF TokensOf
  <2>2. PICK j \in DOMAIN r : r[j] = c.orders[b][k]
    BY <1>1, RelevantOrders DEF RelevantRight
  <2>3. QED
    BY <2>1, <2>2 DEF TokensOf
<1>6. QED
  BY <1>1, <1>4, <1>5 DEF TradedIn
-----------------------------------------------------------------------------
(***************************************************************************)
(* Steps of a check.                                                       *)
(***************************************************************************)
LEMMA CorrectStays ==
    ASSUME NEW st, NEW st2, SameLookups(st, st2), NEW s, CorrectBy(st2, s)
    PROVE  CorrectBy(st, s)
<1>1. \A t, u : PriceBy(st, s, t, u) = PriceBy(st2, s, t, u)
  BY SamePrices
<1>2. \A order : AttractiveBy(st, s, order) = AttractiveBy(st2, s, order)
  BY <1>1 DEF AttractiveBy
<1>3. QED
  BY <1>2 DEF CorrectBy

(* Nothing is lost when the chain, the market or the stored prices change. *)
LEMMA SoundGrows ==
    ASSUME NEW S, NEW S2, S \subseteq S2, NEW st, NEW st2, SameLookups(st, st2),
           NEW c, NEW q, Sound(c, q, S, st), c.pc = "refused" => S2 = S
    PROVE  Sound(c, q, S2, st2)
<1>1. CheckTypes(c) /\ QueryFits(c, q)
  BY DEF Sound
<1>2. AnswerSeen(q, S2, st2)
  BY OthersGrow DEF Sound
<1>3. ASSUME c.kind = "verify" PROVE Verified(c, S2, st2)
  BY <1>3, VerifiedGrows DEF Sound
<1>4. ASSUME c.kind = "verify" PROVE Justified(c, S2, st2)
  <2>1. c.pc = "refused" => WasUnpriced(c) \/ \A s \in S : S = {s} => ~CorrectBy(st, s)
    BY <1>4 DEF Sound, Justified
  <2>2. \A s : CorrectBy(st2, s) => CorrectBy(st, s)
    BY CorrectStays
  <2>3. QED
    BY <2>1, <2>2, Zenon DEF Justified
<1>5. ASSUME c.kind = "provision"
      PROVE  PriceIsNear(c, S2) /\ LimitsNear(c, S2) /\ NothingOf(st2)
  <2>1. PriceIsNear(c, S) /\ LimitsNear(c, S) /\ NothingOf(st)
    BY <1>5 DEF Sound
  <2>2. PriceIsNear(c, S2) /\ NothingOf(st2)
    BY <2>1, OthersGrow
  <2>3. LimitsNear(c, S2)
    BY <2>1, Zenon DEF LimitsNear
  <2>4. QED
    BY <2>2, <2>3
<1>6. QED
  BY <1>1, <1>2, <1>3, <1>4, <1>5 DEF Sound

LEMMA SameRelevant ==
    ASSUME NEW c, NEW d, d.orders = c.orders
    PROVE  RelevantIn(d) = RelevantIn(c) /\ TradedIn(d) = TradedIn(c)
BY DEF RelevantIn, TradedIn

(* The kind of a check by its stage.                                       *)
LEMMA KindByStage ==
    ASSUME NEW c, CheckTypes(c)
    PROVE  /\ c.pc \in {"prices", "lists", "profit"} \cup Reading => c.kind = "verify"
           /\ c.pc \in {"price", "bounds"} => c.kind = "provision"
           /\ c.pc # "idle" => c.kind \in {"verify", "provision"}
<1>1. c.kind \in {"none", "verify", "provision"}
  BY DEF CheckTypes, CheckRecords
<1>2. QED
  BY <1>1 DEF CheckTypes, VerifyStages, ProvisionStages, Reading

(* A check ends early.                                                     *)
EndOf(c, pc) == [c EXCEPT !.pc = pc, !.left = {}]

(* The order at hand is noted as one whose price is not known.             *)
Noted(c) == [c EXCEPT !.unpriced = @ \cup {OrderIn(c)}]

LEMMA NotedIs ==
    ASSUME NEW c \in CheckRecords, OrderIn(c) \in Orders
    PROVE  /\ Noted(c) \in CheckRecords
           /\ Noted(c).unpriced = c.unpriced \cup {OrderIn(c)}
           /\ Noted(c).kind = c.kind /\ Noted(c).pc = c.pc /\ Noted(c).next = c.next
           /\ Noted(c).orders = c.orders /\ Noted(c).usd = c.usd /\ Noted(c).setting = c.setting
           /\ OrderIn(Noted(c)) = OrderIn(c)
<1>1. PICK more : more = c.unpriced \cup {OrderIn(c)}
  OBVIOUS
<1>2. Noted(c) = [c EXCEPT !.unpriced = more] /\ more \in SUBSET Orders
  BY <1>1 DEF Noted, CheckRecords
<1>3. /\ Noted(c) \in CheckRecords /\ Noted(c).unpriced = more
      /\ Noted(c).kind = c.kind /\ Noted(c).pc = c.pc /\ Noted(c).next = c.next
      /\ Noted(c).orders = c.orders /\ Noted(c).usd = c.usd /\ Noted(c).setting = c.setting
  BY <1>2 DEF CheckRecords
<1>4. OrderIn(Noted(c)) = OrderIn(c)
  BY <1>3, SameRelevant, ZenonT(30) DEF OrderIn
<1>5. QED
  BY <1>1, <1>3, <1>4

LEMMA EndsEarly ==
    ASSUME NEW c, NEW d, NEW q, NEW q2, NEW S, NEW st, Sound(c, q, S, st), c.pc # "idle",
           \/ d = EndOf(c, "broken")
           \/ /\ d = EndOf(c, "refused")
              /\ c.kind = "verify" => \A s \in S : S = {s} => ~CorrectBy(st, s)
           \/ /\ c.usd /\ OrderIn(c) \in Orders
              /\ d = EndOf(Noted(c), "refused"),
           q2 = q \/ q2 = NoQuery
    PROVE  Sound(d, q2, S, st)
<1>1. c \in CheckRecords /\ CheckTypes(c)
  BY DEF Sound, CheckTypes
<1> DEFINE Facts == /\ d.pc \in {"broken", "refused"} /\ d.kind = c.kind
                    /\ d.setting = c.setting /\ d \in CheckRecords
<1>2. Facts
  <2>1. ASSUME NEW pc \in {"broken", "refused"}, NEW e \in CheckRecords
        PROVE  /\ EndOf(e, pc) \in CheckRecords /\ EndOf(e, pc).pc = pc
               /\ EndOf(e, pc).kind = e.kind /\ EndOf(e, pc).setting = e.setting
    BY DEF EndOf, CheckRecords, ProvisionStages
  <2>2. CASE d = EndOf(c, "broken") \/ d = EndOf(c, "refused")
    BY <1>1, <2>1, <2>2
  <2>3. CASE OrderIn(c) \in Orders /\ d = EndOf(Noted(c), "refused")
    BY <1>1, <2>1, <2>3, NotedIs
  <2>4. QED
    BY <2>2, <2>3
<1>3. d \in CheckRecords
  BY <1>2
<1>4. CheckTypes(d)
  <2>1. c.kind # "none"
    BY <1>1, KindByStage
  <2>2. QED
    BY <1>1, <1>2, <1>3, <2>1 DEF CheckTypes, VerifyStages, ProvisionStages, Reading
<1>5. Verified(d, S, st)
  BY <1>2 DEF Verified, OrdersRead, TraitsRead, ListsRight, OrdersJudged, AllowancesRead,
              AfterOrders, AfterShape, AfterLists, AfterProfit
<1>6. d.kind = "verify" => Justified(d, S, st)
  <2>1. CASE d = EndOf(c, "broken")
    <3>1. d.pc # "refused"
      BY <2>1, <1>1 DEF EndOf, CheckRecords
    <3>2. QED
      BY <3>1 DEF Justified
  <2>2. CASE /\ c.usd /\ OrderIn(c) \in Orders
             /\ d = EndOf(Noted(c), "refused")
    <3>1. PICK e : e = Noted(c)
      OBVIOUS
    <3>2. e \in CheckRecords /\ e.usd /\ OrderIn(e) \in e.unpriced
      BY <1>1, <2>2, <3>1, NotedIs
    <3>3. d.usd /\ d.unpriced = e.unpriced /\ d.orders = e.orders /\ d.next = e.next
      BY <2>2, <3>1, <3>2 DEF EndOf, CheckRecords
    <3>4. OrderIn(d) = OrderIn(e)
      BY <3>3, SameRelevant, ZenonT(30) DEF OrderIn
    <3>5. QED
      BY <3>2, <3>3, <3>4 DEF Justified, WasUnpriced
  <2>3. CASE d = EndOf(c, "refused") /\ (c.kind = "verify" => \A s \in S : S = {s} => ~CorrectBy(st, s))
    BY <1>2, <2>3 DEF Justified
  <2>4. QED
    BY <2>1, <2>2, <2>3
<1>7. d.kind = "provision" => PriceIsNear(d, S) /\ LimitsNear(d, S) /\ NothingOf(st)
  BY <1>2 DEF PriceIsNear, LimitsNear, Sound
<1>8. QueryFits(d, q2)
  BY <1>2 DEF QueryFits
<1>9. AnswerSeen(q2, S, st)
  BY DEF AnswerSeen, NoQuery, Sound
<1>10. QED
  BY <1>4, <1>5, <1>6, <1>7, <1>8, <1>9 DEF Sound

(* Lists of orders are read.                                               *)
ReadBy(c, b, list) == [c EXCEPT !.orders[b] = list, !.left = @ \ {b}]

OnceRead(r) ==
    IF r.left # {} THEN r
    ELSE IF \A x \in Brackets : r.orders[x] = <<>> THEN ToShape(r)
    ELSE [r EXCEPT !.pc = "prices"]

LEMMA OrdersAreRead ==
    ASSUME NEW c, NEW d, NEW q, NEW S \in SUBSET Moments, NEW st, NEW m \in S, Sound(c, q, S, st),
           c.pc = "orders", NEW b \in c.left, NEW r, r = ReadBy(c, b, m.chain.orders[b]),
           d = OnceRead(r)
    PROVE  Sound(d, q, S, st)
<1>0. /\ r = [c EXCEPT !.orders[b] = m.chain.orders[b], !.left = @ \ {b}]
      /\ d = IF r.left # {} THEN r
             ELSE IF \A x \in Brackets : r.orders[x] = <<>> THEN ToShape(r)
             ELSE [r EXCEPT !.pc = "prices"]
  BY DEF ReadBy, OnceRead
<1>1. c \in CheckRecords /\ CheckTypes(c) /\ c.kind = "verify"
  BY KindByStage DEF Sound, CheckTypes, Reading
<1>2. b \in Brackets /\ c.left \subseteq Brackets /\ c.next = 1 /\ ~c.usd
  BY <1>1 DEF CheckTypes
<1>3. m.chain.orders[b] \in OrderLists
  BY <1>2 DEF Moments, ChainStates
<1>4. /\ r.kind = "verify" /\ r.pc = "orders" /\ r.left = c.left \ {b} /\ r.next = 1
      /\ r.orders = [c.orders EXCEPT ![b] = m.chain.orders[b]] /\ ~r.usd
      /\ r.setting = c.setting /\ r.unpriced = c.unpriced /\ r.confirmed = c.confirmed
  BY <1>0, <1>1, <1>2 DEF CheckRecords
<1>5. r.orders \in [Brackets -> OrderLists \cup {<<>>}]
  BY <1>1, <1>2, <1>3, <1>4 DEF CheckRecords
<1>6. r \in CheckRecords
  BY <1>0, <1>1, <1>5 DEF CheckRecords
<1>7. \A x \in Brackets : x \in r.left \/ OrdersSeen(S, x, r.orders[x])
  <2>1. TAKE x \in Brackets
  <2>2. CASE x = b
    <3>1. r.orders[x] = m.chain.orders[x]
      BY <1>1, <1>4, <2>2 DEF CheckRecords
    <3>2. QED
      BY <3>1 DEF OrdersSeen
  <2>3. CASE x # b
    <3>1. r.orders[x] = c.orders[x]
      BY <1>1, <1>4, <2>3 DEF CheckRecords
    <3>2. x \in c.left \/ OrdersSeen(S, x, c.orders[x])
      BY <1>1 DEF Sound, Verified, OrdersRead
    <3>3. QED
      BY <1>4, <2>3, <3>1, <3>2
  <2>4. QED
    BY <2>2, <2>3
<1>8. d \in CheckRecords /\ d.kind = "verify" /\ d.next = 1 /\ ~d.usd /\ d.orders = r.orders
  <2>1. CASE d = r
    BY <1>4, <1>6, <2>1, SMTT(30)
  <2>2. CASE d = [r EXCEPT !.pc = "prices"]
    BY <1>4, <1>6, <2>2 DEF CheckRecords, VerifyStages
  <2>3. CASE d = ToShape(r)
    <3>1. Phases[1] \subseteq Items
      BY PhasesListed DEF Items
    <3>2. QED
      BY <1>4, <1>6, <2>3, <3>1 DEF CheckRecords, VerifyStages, Reading, ToShape
  <2>4. QED
    BY <1>0, <2>1, <2>2, <2>3
<1>9. \/ d.pc = "orders" /\ d.left = r.left /\ r.left # {}
      \/ d.pc = "prices" /\ r.left = {} /\ \E x \in Brackets : d.orders[x] # <<>>
      \/ d.pc = "shape" /\ r.left = {} /\ d.left = Phases[1]
  <2>1. CASE r.left # {}
    BY <1>0, <1>4, <2>1
  <2>2. CASE r.left = {} /\ \A x \in Brackets : r.orders[x] = <<>>
    BY <1>0, <1>6, <2>2 DEF ToShape, CheckRecords
  <2>3. CASE r.left = {} /\ ~\A x \in Brackets : r.orders[x] = <<>>
    <3>1. d = [r EXCEPT !.pc = "prices"]
      BY <1>0, <2>3, Zenon
    <3>2. d.pc = "prices"
      BY <1>6, <3>1 DEF CheckRecords
    <3>3. QED
      BY <1>8, <2>3, <3>2
  <2>4. QED
    BY <2>1, <2>2, <2>3
<1>10. CheckTypes(d)
  <2>1. d.pc = "prices" => 1 \in DOMAIN RelevantIn(d)
    BY <1>8, <1>9, RelevantExist, SMTT(30)
  <2>2. d.left # {} \/ d.pc = "prices"
    BY <1>9, PhasesListed
  <2>3. d.pc \in {"orders", "prices", "shape"}
    BY <1>9
  <2>4. d.pc = "orders" => d.left \subseteq Brackets
    BY <1>2, <1>4, <1>9
  <2>5. QED
    BY <1>8, <2>1, <2>2, <2>3, <2>4 DEF CheckTypes, VerifyStages, Reading
<1>11. OrdersRead(d, S)
  BY <1>7, <1>8, <1>9, Zenon DEF OrdersRead
<1>12. TraitsRead(d, S)
  <2>1. d.pc \notin AfterShape
    BY <1>9 DEF AfterShape, AfterLists, AfterProfit
  <2>2. d.pc = "shape" => d.left = Phases[d.next] /\ d.next = 1
    BY <1>8, <1>9
  <2>3. 1 \in DOMAIN Phases /\ 1..(1 - 1) = {}
    <3>1. 1..(1 - 1) = {}
      OBVIOUS
    <3>2. QED
      BY <3>1, PhasesListed
  <2>4. QED
    BY <2>1, <2>2, <2>3 DEF TraitsRead
<1>13. ListsRight(d) /\ OrdersJudged(d, S, st) /\ AllowancesRead(d, S) /\ Justified(d, S, st)
  BY <1>9, Zenon DEF ListsRight, OrdersJudged, AllowancesRead, Justified, AfterLists, AfterProfit
<1>14. q.pc = "none"
  BY DEF Sound, QueryFits
<1>15. QueryFits(d, q)
  BY <1>9, <1>14 DEF QueryFits
<1>16. QED
  BY <1>8, <1>10, <1>11, <1>12, <1>13, <1>15 DEF Sound, Verified

LEMMA NextCounts ==
    ASSUME NEW c \in CheckRecords
    PROVE  [c EXCEPT !.next = @ + 1] \in CheckRecords
<1>1. c.next + 1 \in Nat
  BY DEF CheckRecords
<1>2. \A n \in Nat : [c EXCEPT !.next = n] \in CheckRecords
  BY DEF CheckRecords
<1>3. QED
  BY <1>1, <1>2

(* The price of the order at hand arrives before anything is read.         *)
WithoutUSD(c) == [c EXCEPT !.usd = FALSE]

UpfrontBy(c, asked) ==
    IF ~c.usd THEN [c EXCEPT !.usd = TRUE]
    ELSE IF c.next = Len(RelevantIn(c)) THEN ToShape(asked)
    ELSE [asked EXCEPT !.next = @ + 1]

LEMMA PriceComesUpfront ==
    ASSUME NEW c, NEW d, NEW q, NEW S, NEW st, Sound(c, q, S, st), c.pc = "prices",
           NEW asked, asked = WithoutUSD(c), d = UpfrontBy(c, asked)
    PROVE  Sound(d, NoQuery, S, st)
<1>0. /\ asked = [c EXCEPT !.usd = FALSE]
      /\ d = IF ~c.usd THEN [c EXCEPT !.usd = TRUE]
             ELSE IF c.next = Len(RelevantIn(c)) THEN ToShape(asked)
             ELSE [asked EXCEPT !.next = @ + 1]
  BY DEF WithoutUSD, UpfrontBy
<1>1. c \in CheckRecords /\ CheckTypes(c) /\ c.kind = "verify"
  BY KindByStage DEF Sound, CheckTypes
<1>2. /\ DOMAIN RelevantIn(c) = 1..Len(RelevantIn(c)) /\ Len(RelevantIn(c)) \in Nat
      /\ c.next \in DOMAIN RelevantIn(c)
  <2>1. RelevantIn(c) \in Seq(Orders)
    BY <1>1, RelevantOrders DEF RelevantRight
  <2>2. QED
    BY <1>1, <2>1 DEF CheckTypes
<1>3. asked \in CheckRecords /\ asked.orders = c.orders /\ ~asked.usd /\ asked.kind = "verify"
      /\ asked.next = c.next /\ asked.pc = "prices"
  BY <1>0, <1>1 DEF CheckRecords
<1>4. d \in CheckRecords /\ d.kind = "verify" /\ d.orders = c.orders
  <2>1. CASE d = [c EXCEPT !.usd = TRUE]
    <3>1. d.kind = "verify" /\ d.orders = c.orders
      BY <1>1, <2>1 DEF CheckRecords
    <3>2. [c EXCEPT !.usd = TRUE] \in CheckRecords
      BY <1>1 DEF CheckRecords
    <3>3. QED
      BY <2>1, <3>1, <3>2
  <2>2. CASE d = [asked EXCEPT !.next = @ + 1]
    <3>1. d.kind = "verify" /\ d.orders = c.orders
      BY <1>3, <2>2 DEF CheckRecords
    <3>2. [asked EXCEPT !.next = @ + 1] \in CheckRecords
      BY <1>3, NextCounts
    <3>3. QED
      BY <2>2, <3>1, <3>2
  <2>3. CASE d = ToShape(asked)
    <3>1. Phases[1] \subseteq Items
      BY PhasesListed DEF Items
    <3>2. d.kind = "verify" /\ d.orders = c.orders
      BY <1>3, <2>3 DEF CheckRecords, ToShape
    <3>3. ToShape(asked) \in CheckRecords
      BY <1>3, <3>1 DEF CheckRecords, VerifyStages, Reading, ToShape
    <3>4. QED
      BY <2>3, <3>2, <3>3
  <2>4. QED
    BY <1>0, <2>1, <2>2, <2>3
<1>5. \/ d.pc = "prices" /\ d.next \in DOMAIN RelevantIn(c)
      \/ d.pc = "shape" /\ d.left = Phases[1] /\ d.next = 1 /\ ~d.usd
  <2>1. CASE ~c.usd
    BY <1>0, <1>1, <1>2, <2>1 DEF CheckRecords
  <2>2. CASE c.usd /\ c.next = Len(RelevantIn(c))
    BY <1>0, <1>3, <2>2 DEF CheckRecords, ToShape
  <2>3. CASE c.usd /\ c.next # Len(RelevantIn(c))
    <3>0. d = [asked EXCEPT !.next = @ + 1]
      BY <1>0, <2>3
    <3>1. d.pc = "prices" /\ d.next = c.next + 1
      BY <1>3, <3>0 DEF CheckRecords
    <3>2. QED
      BY <1>2, <2>3, <3>1
  <2>4. QED
    BY <2>1, <2>2, <2>3
<1>6. RelevantIn(d) = RelevantIn(c)
  BY <1>4, SameRelevant
<1>7. CheckTypes(d)
  <2>1. d.left # {} \/ d.pc = "prices"
    BY <1>5, PhasesListed
  <2>2. d.pc = "prices" => d.next \in DOMAIN RelevantIn(d)
    BY <1>5, <1>6
  <2>3. QED
    BY <1>4, <1>5, <2>1, <2>2 DEF CheckTypes, VerifyStages, Reading
<1>8. OrdersRead(d, S)
  <2>1. \A b \in Brackets : OrdersSeen(S, b, c.orders[b])
    BY <1>1 DEF Sound, Verified, OrdersRead, AfterOrders
  <2>2. QED
    BY <1>4, <2>1 DEF OrdersRead
<1>9. TraitsRead(d, S)
  <2>1. d.pc \notin AfterShape
    BY <1>5 DEF AfterShape, AfterLists, AfterProfit
  <2>2. d.pc = "shape" => d.left = Phases[d.next] /\ d.next = 1
    BY <1>5
  <2>3. 1 \in DOMAIN Phases /\ 1..(1 - 1) = {}
    BY PhasesListed
  <2>4. QED
    BY <2>1, <2>2, <2>3 DEF TraitsRead
<1>10. ListsRight(d) /\ OrdersJudged(d, S, st) /\ AllowancesRead(d, S) /\ Justified(d, S, st)
  BY <1>5 DEF ListsRight, OrdersJudged, AllowancesRead, Justified, AfterLists, AfterProfit
<1>11. QueryFits(d, NoQuery) /\ AnswerSeen(NoQuery, S, st)
  BY <1>5 DEF QueryFits, AnswerSeen, NoQuery
<1>12. QED
  BY <1>4, <1>7, <1>8, <1>9, <1>10, <1>11 DEF Sound, Verified

LEMMA NextPhaseIs ==
    ASSUME NEW p, NextPhase(p) # {}
    PROVE  /\ Min(NextPhase(p)) \in DOMAIN Phases /\ Min(NextPhase(p)) > p
           /\ Phases[Min(NextPhase(p))] # {}
           /\ \A x \in DOMAIN Phases : x > p /\ x < Min(NextPhase(p)) => Phases[x] = {}
<1>1. NextPhase(p) \in SUBSET Nat /\ NextPhase(p) \subseteq 1..6
  BY PhasesListed DEF NextPhase
<1>2. \E x \in NextPhase(p) : \A y \in NextPhase(p) : x <= y
  BY <1>1, SmallestNumber
<1>3. PICK n : n = Min(NextPhase(p))
  OBVIOUS
<1>4. n \in NextPhase(p) /\ \A y \in NextPhase(p) : n <= y
  BY <1>2, <1>3 DEF Min
<1>5. ASSUME NEW x \in DOMAIN Phases, x > p, x < n
      PROVE  Phases[x] = {}
  <2>1. x \notin NextPhase(p)
    BY <1>1, <1>4, <1>5, PhasesListed
  <2>2. QED
    BY <1>5, <2>1 DEF NextPhase
<1>6. QED
  BY <1>3, <1>4, <1>5 DEF NextPhase

(* A property of a Safe is read and found right.                           *)
LEMMA TraitIsRead ==
    ASSUME NEW c, NEW d, NEW q, NEW S, NEW st, NEW m \in S, Sound(c, q, S, st),
           c.pc = "shape", NEW trait \in c.left, trait \notin m.chain.wrong,
           NEW p, p = Min(NextPhase(c.next)),
           d = IF c.left # {trait} THEN [c EXCEPT !.left = @ \ {trait}]
               ELSE IF NextPhase(c.next) = {} THEN EndOf(c, "lists")
               ELSE [c EXCEPT !.next = p, !.left = Phases[p]]
    PROVE  Sound(d, q, S, st)
<1>1. c \in CheckRecords /\ CheckTypes(c) /\ c.kind = "verify" /\ ~c.usd
  <2>1. CheckTypes(c)
    BY DEF Sound
  <2>2. QED
    BY <2>1, KindByStage DEF CheckTypes, Reading
<1>2. /\ c.next \in DOMAIN Phases /\ c.left \subseteq Phases[c.next]
      /\ \A x \in 1..(c.next - 1) : \A t \in Phases[x] : TraitSeen(S, t)
      /\ \A t \in Phases[c.next] \ c.left : TraitSeen(S, t)
  BY <1>1 DEF Sound, Verified, TraitsRead
<1>3. TraitSeen(S, trait)
  BY DEF TraitSeen
<1>4. \A b \in Brackets : OrdersSeen(S, b, c.orders[b])
  BY <1>1 DEF Sound, Verified, OrdersRead, AfterOrders
<1>5. q.pc = "none" /\ AnswerSeen(q, S, st)
  BY DEF Sound, QueryFits
<1>6. SUFFICES /\ d \in CheckRecords /\ d.kind = "verify" /\ d.orders = c.orders /\ ~d.usd
               /\ \/ d.pc = "shape" /\ d.left # {}
                  \/ d.pc = "lists"
               /\ TraitsRead(d, S)
  <2>1. CheckTypes(d)
    BY <1>6 DEF CheckTypes, VerifyStages, Reading
  <2>2. OrdersRead(d, S)
    BY <1>4, <1>6 DEF OrdersRead
  <2>3. ListsRight(d) /\ OrdersJudged(d, S, st) /\ AllowancesRead(d, S) /\ Justified(d, S, st)
    BY <1>6 DEF ListsRight, OrdersJudged, AllowancesRead, Justified, AfterLists, AfterProfit
  <2>4. QueryFits(d, q)
    BY <1>5, <1>6 DEF QueryFits
  <2>5. QED
    BY <1>5, <1>6, <2>1, <2>2, <2>3, <2>4 DEF Sound, Verified
<1>7. CASE c.left # {trait}
  <2>1. d = [c EXCEPT !.left = @ \ {trait}]
    BY <1>7
  <2>2. d \in CheckRecords
    BY <1>1, <2>1 DEF CheckRecords
  <2>3. /\ d.kind = "verify" /\ d.orders = c.orders /\ ~d.usd /\ d.pc = "shape"
        /\ d.left = c.left \ {trait} /\ d.next = c.next
    BY <1>1, <2>1 DEF CheckRecords
  <2>4. TraitsRead(d, S)
    <3>1. d.pc \notin AfterShape
      BY <2>3 DEF AfterShape, AfterLists, AfterProfit
    <3>2. \A t \in Phases[d.next] \ d.left : TraitSeen(S, t)
      BY <1>2, <1>3, <2>3
    <3>3. QED
      BY <1>2, <2>3, <3>1, <3>2 DEF TraitsRead
  <2>5. QED
    BY <1>7, <2>2, <2>3, <2>4
<1>8. CASE c.left = {trait} /\ NextPhase(c.next) = {}
  <2>1. d = EndOf(c, "lists")
    BY <1>8
  <2>2. d \in CheckRecords
    BY <1>1, <2>1 DEF CheckRecords, EndOf, VerifyStages
  <2>3. d.kind = "verify" /\ d.orders = c.orders /\ ~d.usd /\ d.pc = "lists"
    BY <1>1, <2>1 DEF CheckRecords, EndOf
  <2>4. ASSUME NEW t \in Traits
        PROVE  TraitSeen(S, t)
    <3>1. PICK x \in 1..6 : t \in Phases[x]
      BY PhasesListed
    <3>2. x \notin NextPhase(c.next)
      BY <1>8
    <3>3. x <= c.next
      BY <1>2, <3>1, <3>2, PhasesListed DEF NextPhase
    <3>4. CASE x = c.next
      BY <1>2, <1>3, <1>8, <3>1, <3>4
    <3>5. CASE x < c.next
      <4>1. x \in 1..(c.next - 1)
        BY <1>2, <3>5, PhasesListed
      <4>2. QED
        BY <1>2, <3>1, <4>1
    <3>6. QED
      BY <1>2, <3>3, <3>4, <3>5, PhasesListed
  <2>5. TraitsRead(d, S)
    BY <2>3, <2>4 DEF TraitsRead
  <2>6. QED
    BY <2>2, <2>3, <2>5
<1>9. CASE c.left = {trait} /\ NextPhase(c.next) # {}
  <2>1. d = [c EXCEPT !.next = p, !.left = Phases[p]]
    BY <1>9
  <2>2. p \in 1..6 /\ p > c.next /\ Phases[p] # {}
        /\ \A x \in 1..6 : x > c.next /\ x < p => Phases[x] = {}
    BY <1>9, NextPhaseIs, PhasesListed
  <2>3. d \in CheckRecords
    <3>1. p \in Nat /\ Phases[p] \subseteq Items
      BY <2>2, PhasesListed DEF Items
    <3>2. QED
      BY <1>1, <2>1, <3>1 DEF CheckRecords
  <2>4. /\ d.kind = "verify" /\ d.orders = c.orders /\ ~d.usd /\ d.pc = "shape"
        /\ d.left = Phases[p] /\ d.next = p
    BY <1>1, <2>1 DEF CheckRecords
  <2>5. ASSUME NEW x \in 1..(p - 1), NEW t \in Phases[x]
        PROVE  TraitSeen(S, t)
    <3>1. x \in 1..6 /\ x < p
      BY <2>2
    <3>2. x <= c.next
      BY <1>2, <2>2, <2>5, <3>1, PhasesListed
    <3>3. CASE x = c.next
      BY <1>2, <1>3, <1>9, <3>3
    <3>4. CASE x < c.next
      <4>1. x \in 1..(c.next - 1)
        BY <1>2, <3>4, PhasesListed
      <4>2. QED
        BY <1>2, <4>1
    <3>5. QED
      BY <1>2, <3>2, <3>3, <3>4, PhasesListed
  <2>6. TraitsRead(d, S)
    <3>1. d.pc \notin AfterShape
      BY <2>4 DEF AfterShape, AfterLists, AfterProfit
    <3>2. QED
      BY <2>2, <2>4, <2>5, <3>1, PhasesListed DEF TraitsRead
  <2>7. QED
    BY <2>2, <2>3, <2>4, <2>6
<1>10. QED
  BY <1>7, <1>8, <1>9

LEMMA RightListsAreOrders ==
    ASSUME NEW list, BackAndForth(list)
    PROVE  list # <<>>
<1>1. Len(list) = 2 /\ Len(<<>>) = 0
  BY DEF BackAndForth
<1>2. QED
  BY <1>1

(* The lists of orders are found right.                                    *)
LEMMA ListsAreChecked ==
    ASSUME NEW c, NEW d, NEW q, NEW S, NEW st, Sound(c, q, S, st), c.pc = "lists",
           \A b \in Brackets : BackAndForth(c.orders[b]) /\ Gains(c.orders[b]),
           d = [c EXCEPT !.pc = "profit", !.next = 1]
    PROVE  Sound(d, q, S, st)
<1>1. c \in CheckRecords /\ CheckTypes(c) /\ c.kind = "verify" /\ ~c.usd
  <2>1. CheckTypes(c)
    BY DEF Sound
  <2>2. QED
    BY <2>1, KindByStage DEF CheckTypes
<1>2. d \in CheckRecords
  BY <1>1 DEF CheckRecords, VerifyStages
<1>3. /\ d.pc = "profit" /\ d.next = 1 /\ d.kind = "verify" /\ d.orders = c.orders /\ ~d.usd
      /\ d.unpriced = c.unpriced
  BY <1>1 DEF CheckRecords
<1>4. 1 \in DOMAIN RelevantIn(d)
  <2>1. PICK b : b \in Brackets
    BY BracketsListed
  <2>2. c.orders[b] # <<>>
    BY <2>1, RightListsAreOrders
  <2>3. d.orders[b] # <<>>
    BY <1>3, <2>2
  <2>4. QED
    BY <1>2, <2>1, <2>3, RelevantExist
<1>5. CheckTypes(d)
  BY <1>2, <1>3, <1>4 DEF CheckTypes, VerifyStages, Reading
<1>6. OrdersRead(d, S)
  <2>1. \A b \in Brackets : OrdersSeen(S, b, c.orders[b])
    BY <1>1 DEF Sound, Verified, OrdersRead, AfterOrders, AfterShape
  <2>2. QED
    BY <1>3, <2>1 DEF OrdersRead
<1>7. TraitsRead(d, S)
  <2>1. \A t \in Traits : TraitSeen(S, t)
    BY <1>1 DEF Sound, Verified, TraitsRead, AfterShape
  <2>2. QED
    BY <1>3, <2>1 DEF TraitsRead
<1>8. ListsRight(d) /\ AllowancesRead(d, S) /\ Justified(d, S, st)
  BY <1>3 DEF ListsRight, AllowancesRead, Justified
<1>9. OrdersJudged(d, S, st)
  <2>1. 1..(d.next - 1) = {}
    BY <1>3
  <2>2. QED
    BY <1>3, <2>1 DEF OrdersJudged, AfterProfit
<1>10. q.pc = "none" /\ AnswerSeen(q, S, st)
  BY DEF Sound, QueryFits
<1>11. QueryFits(d, q)
  BY <1>10, <1>3 DEF QueryFits
<1>12. QED
  BY <1>3, <1>5, <1>6, <1>7, <1>8, <1>9, <1>10, <1>11 DEF Sound, Verified

(* What is known while the offers are checked.                             *)
LEMMA WhileProfit ==
    ASSUME NEW c, NEW q, NEW S, NEW st, Sound(c, q, S, st), c.pc = "profit"
    PROVE  /\ c \in CheckRecords /\ CheckTypes(c) /\ c.kind = "verify"
           /\ c.next \in DOMAIN RelevantIn(c)
           /\ DOMAIN RelevantIn(c) = 1..Len(RelevantIn(c)) /\ Len(RelevantIn(c)) \in Nat
           /\ \A b \in Brackets : OrdersSeen(S, b, c.orders[b])
           /\ \A t \in Traits : TraitSeen(S, t)
           /\ \A b \in Brackets : BackAndForth(c.orders[b]) /\ Gains(c.orders[b])
           /\ \A j \in 1..(c.next - 1) : Cleared(c.unpriced, S, st, RelevantIn(c)[j])
           /\ c.usd => PriceSeen(S, st, c.price, OrderIn(c).sell, OrderIn(c).buy)
<1>1. c \in CheckRecords /\ CheckTypes(c) /\ c.kind = "verify"
  <2>1. CheckTypes(c)
    BY DEF Sound
  <2>2. QED
    BY <2>1, KindByStage DEF CheckTypes
<1>2. Verified(c, S, st)
  BY <1>1 DEF Sound
<1>3. RelevantIn(c) \in Seq(Orders)
  BY <1>1, RelevantOrders DEF RelevantRight
<1>4. c.next \in DOMAIN RelevantIn(c)
  BY <1>1 DEF CheckTypes
<1>5. DOMAIN RelevantIn(c) = 1..Len(RelevantIn(c)) /\ Len(RelevantIn(c)) \in Nat
  BY <1>3
<1>6. \A b \in Brackets : OrdersSeen(S, b, c.orders[b])
  BY <1>2 DEF Verified, OrdersRead, AfterOrders, AfterShape, AfterLists
<1>7. \A t \in Traits : TraitSeen(S, t)
  BY <1>2 DEF Verified, TraitsRead, AfterShape, AfterLists
<1>8. \A b \in Brackets : BackAndForth(c.orders[b]) /\ Gains(c.orders[b])
  BY <1>2 DEF Verified, ListsRight, AfterLists
<1>9. /\ \A j \in 1..(c.next - 1) : Cleared(c.unpriced, S, st, RelevantIn(c)[j])
      /\ c.usd => PriceSeen(S, st, c.price, OrderIn(c).sell, OrderIn(c).buy)
  BY <1>2 DEF Verified, OrdersJudged
<1>10. QED
  BY <1>1, <1>4, <1>5, <1>6, <1>7, <1>8, <1>9

(* The order at hand is judged; the next one follows, or the allowances.   *)
NextOrderBy(c, e) ==
    IF c.next # Len(RelevantIn(c)) THEN [e EXCEPT !.next = @ + 1, !.usd = FALSE]
    ELSE [e EXCEPT !.pc = "allowances", !.next = 1, !.usd = FALSE,
                   !.left = ApprovalsOf(Master, TradedIn(c))]

LEMMA OrderIsJudged ==
    ASSUME NEW c, NEW d, NEW q, NEW S, NEW st, Sound(c, q, S, st), c.pc = "profit",
           NEW e, \/ e = c /\ Judged(S, st, OrderIn(c))
                  \/ e = Noted(c) /\ OrderIn(c) \in Orders,
           d = NextOrderBy(c, e)
    PROVE  Sound(d, NoQuery, S, st)
<1>1. /\ c \in CheckRecords /\ CheckTypes(c) /\ c.kind = "verify"
      /\ c.next \in DOMAIN RelevantIn(c)
      /\ DOMAIN RelevantIn(c) = 1..Len(RelevantIn(c)) /\ Len(RelevantIn(c)) \in Nat
      /\ \A b \in Brackets : OrdersSeen(S, b, c.orders[b])
      /\ \A t \in Traits : TraitSeen(S, t)
      /\ \A b \in Brackets : BackAndForth(c.orders[b]) /\ Gains(c.orders[b])
  BY WhileProfit
<1>2. e \in CheckRecords
  BY <1>1, NotedIs
<1>3. e.kind = "verify" /\ e.next = c.next /\ e.orders = c.orders /\ e.pc = "profit"
  BY <1>1, NotedIs
<1>4. \A j \in 1..c.next : Cleared(e.unpriced, S, st, RelevantIn(c)[j])
  <2>1. /\ c.unpriced \subseteq e.unpriced
        /\ Cleared(e.unpriced, S, st, OrderIn(c))
    BY <1>1, NotedIs DEF Cleared
  <2>2. QED
    <3>1. \A j \in 1..(c.next - 1) : Cleared(c.unpriced, S, st, RelevantIn(c)[j])
      BY WhileProfit
    <3>2. \A j \in 1..c.next : j = c.next \/ j \in 1..(c.next - 1)
      BY <1>1
    <3>3. QED
      BY <2>1, <3>1, <3>2 DEF OrderIn, Cleared
<1>5. \E t : t \in TradedIn(c)
  <2>1. PICK b : b \in Brackets
    BY BracketsListed
  <2>2. c.orders[b] # <<>>
    BY <1>1, <2>1, RightListsAreOrders
  <2>3. QED
    BY <1>1, <2>1, <2>2, RelevantExist
<1>6. TradedIn(c) \subseteq Tokens
  BY <1>1, TradedAreTokens
<1>7. ApprovalsOf(Master, TradedIn(c)) \subseteq Items /\ ApprovalsOf(Master, TradedIn(c)) # {}
  <2>1. Master \in ToSet(Accounts)
    BY AccountsListed
  <2>2. PICK t : t \in TradedIn(c)
    BY <1>5
  <2>3. <<Master, t>> \in {Master} \X TradedIn(c)
    BY <2>2
  <2>4. {Master} \X TradedIn(c) \subseteq ToSet(Accounts) \X Tokens
    BY <1>6, <2>1
  <2>5. QED
    BY <2>3, <2>4 DEF ApprovalsOf, Items
<1>8. CASE c.next # Len(RelevantIn(c))
  <2>1. d = [e EXCEPT !.next = @ + 1, !.usd = FALSE]
    BY <1>8 DEF NextOrderBy
  <2>2. d \in CheckRecords
    <3>1. [e EXCEPT !.next = @ + 1] \in CheckRecords
      BY <1>2, NextCounts
    <3>2. PICK f : f = [e EXCEPT !.next = @ + 1]
      OBVIOUS
    <3>3. d = [f EXCEPT !.usd = FALSE]
      BY <1>2, <2>1, <3>2 DEF CheckRecords
    <3>4. QED
      BY <3>1, <3>2, <3>3 DEF CheckRecords
  <2>3. /\ d.kind = "verify" /\ d.next = c.next + 1 /\ d.orders = c.orders /\ d.pc = "profit"
        /\ ~d.usd /\ d.unpriced = e.unpriced
    BY <1>2, <1>3, <2>1 DEF CheckRecords
  <2>4. RelevantIn(d) = RelevantIn(c)
    BY <2>3, SameRelevant
  <2>5. CheckTypes(d)
    <3>1. d.next \in DOMAIN RelevantIn(d)
      BY <1>1, <1>8, <2>3, <2>4
    <3>2. QED
      BY <2>2, <2>3, <3>1 DEF CheckTypes, VerifyStages, Reading
  <2>6. OrdersRead(d, S) /\ TraitsRead(d, S) /\ ListsRight(d) /\ AllowancesRead(d, S)
    BY <1>1, <2>3 DEF OrdersRead, TraitsRead, ListsRight, AllowancesRead
  <2>7. OrdersJudged(d, S, st)
    <3>1. 1..(d.next - 1) = 1..c.next
      BY <1>1, <2>3
    <3>2. QED
      BY <1>4, <2>3, <2>4, <3>1 DEF OrdersJudged, AfterProfit
  <2>8. Justified(d, S, st) /\ QueryFits(d, NoQuery) /\ AnswerSeen(NoQuery, S, st)
    BY <2>3 DEF Justified, QueryFits, AnswerSeen, NoQuery
  <2>9. QED
    BY <2>3, <2>5, <2>6, <2>7, <2>8 DEF Sound, Verified
<1>9. CASE c.next = Len(RelevantIn(c))
  <2>1. d = [e EXCEPT !.pc = "allowances", !.next = 1, !.usd = FALSE,
                      !.left = ApprovalsOf(Master, TradedIn(c))]
    BY <1>9 DEF NextOrderBy
  <2>2. d \in CheckRecords
    <3>1. "allowances" \in VerifyStages
      BY DEF VerifyStages, Reading
    <3>2. [e EXCEPT !.pc = "allowances", !.next = 1, !.usd = FALSE,
                    !.left = ApprovalsOf(Master, TradedIn(c))] \in CheckRecords
      BY <1>2, <1>7, <3>1 DEF CheckRecords
    <3>3. QED
      BY <2>1, <3>2
  <2>3. /\ d.kind = "verify" /\ d.next = 1 /\ d.orders = c.orders /\ d.pc = "allowances"
        /\ ~d.usd /\ d.unpriced = e.unpriced /\ d.left = ApprovalsOf(Master, TradedIn(c))
    BY <1>2, <1>3, <2>1 DEF CheckRecords
  <2>4. RelevantIn(d) = RelevantIn(c) /\ TradedIn(d) = TradedIn(c)
    BY <2>3, SameRelevant
  <2>5. CheckTypes(d)
    BY <1>7, <2>2, <2>3 DEF CheckTypes, VerifyStages, Reading
  <2>6. OrdersRead(d, S) /\ TraitsRead(d, S) /\ ListsRight(d)
    BY <1>1, <2>3 DEF OrdersRead, TraitsRead, ListsRight
  <2>7. OrdersJudged(d, S, st)
    <3>1. DOMAIN RelevantIn(c) = 1..c.next
      BY <1>1, <1>9
    <3>2. QED
      BY <1>4, <2>3, <2>4, <3>1 DEF OrdersJudged
  <2>8. AllowancesRead(d, S)
    <3>1. d.next \in DOMAIN Accounts /\ Accounts[d.next] = Master /\ 1..(d.next - 1) = {}
      BY <2>3, AccountsListed
    <3>2. \A t \in TradedIn(d) : <<Master, t>> \in d.left
      BY <2>3, <2>4 DEF ApprovalsOf
    <3>3. d.left = {Accounts[d.next]} \X TradedIn(d)
      BY <2>3, <2>4, <3>1 DEF ApprovalsOf
    <3>4. QED
      BY <2>3, <3>1, <3>2, <3>3 DEF AllowancesRead
  <2>9. Justified(d, S, st) /\ QueryFits(d, NoQuery) /\ AnswerSeen(NoQuery, S, st)
    BY <2>3 DEF Justified, QueryFits, AnswerSeen, NoQuery
  <2>10. QED
    BY <2>3, <2>5, <2>6, <2>7, <2>8, <2>9 DEF Sound, Verified
<1>10. QED
  BY <1>8, <1>9

(* The price of an order is known, now it is asked for in USDC.            *)
LEMMA PriceIsKnown ==
    ASSUME NEW c, NEW d, NEW q, NEW S, NEW st, Sound(c, q, S, st), c.pc = "profit", ~c.usd,
           q.pc = "answered", q.slice.kind = "number", q.slice.log \in Int,
           d = [c EXCEPT !.usd = TRUE, !.price = q.slice.log]
    PROVE  Sound(d, NoQuery, S, st)
<1>1. /\ c \in CheckRecords /\ CheckTypes(c) /\ c.kind = "verify"
      /\ c.next \in DOMAIN RelevantIn(c)
      /\ \A b \in Brackets : OrdersSeen(S, b, c.orders[b])
      /\ \A t \in Traits : TraitSeen(S, t)
      /\ \A b \in Brackets : BackAndForth(c.orders[b]) /\ Gains(c.orders[b])
      /\ \A j \in 1..(c.next - 1) : Cleared(c.unpriced, S, st, RelevantIn(c)[j])
  BY WhileProfit
<1>2. d \in CheckRecords
  <2>1. [c EXCEPT !.usd = TRUE, !.price = q.slice.log] \in CheckRecords
    BY <1>1 DEF CheckRecords
  <2>2. QED
    BY <2>1
<1>3. /\ d.kind = "verify" /\ d.next = c.next /\ d.orders = c.orders /\ d.pc = "profit"
      /\ d.usd /\ d.unpriced = c.unpriced /\ d.price = q.slice.log
  BY <1>1 DEF CheckRecords
<1>4. RelevantIn(d) = RelevantIn(c) /\ OrderIn(d) = OrderIn(c)
  BY <1>3, SameRelevant, ZenonT(60) DEF OrderIn
<1>5. CheckTypes(d)
  BY <1>1, <1>2, <1>3, <1>4 DEF CheckTypes, VerifyStages, Reading
<1>6. OrdersRead(d, S) /\ TraitsRead(d, S) /\ ListsRight(d) /\ AllowancesRead(d, S)
  BY <1>1, <1>3 DEF OrdersRead, TraitsRead, ListsRight, AllowancesRead
<1>7. PriceSeen(S, st, d.price, OrderIn(d).sell, OrderIn(d).buy)
  <2>1. q.base = OrderIn(c).sell /\ q.quote = OrderIn(c).buy
    BY DEF Sound, QueryFits
  <2>2. PriceSeen(S, st, q.slice.log, q.base, q.quote)
    BY DEF Sound, AnswerSeen
  <2>3. QED
    BY <1>3, <1>4, <2>1, <2>2
<1>8. OrdersJudged(d, S, st)
  BY <1>1, <1>3, <1>4, <1>7 DEF OrdersJudged, AfterProfit
<1>9. Justified(d, S, st) /\ QueryFits(d, NoQuery) /\ AnswerSeen(NoQuery, S, st)
  BY <1>3 DEF Justified, QueryFits, AnswerSeen, NoQuery
<1>10. QED
  BY <1>3, <1>5, <1>6, <1>8, <1>9 DEF Sound, Verified

LEMMA OrderAtHand ==
    ASSUME NEW c, NEW q, NEW S, NEW st, Sound(c, q, S, st), c.pc = "profit"
    PROVE  /\ OrderIn(c) \in Orders
           /\ \E b \in Brackets : \E k \in {1, 2} : OrderIn(c) = c.orders[b][k]
<1>1. /\ c \in CheckRecords /\ c.next \in DOMAIN RelevantIn(c)
      /\ \A b \in Brackets : BackAndForth(c.orders[b]) /\ Gains(c.orders[b])
  BY WhileProfit
<1>2. PICK r : r = RelevantIn(c)
  OBVIOUS
<1>3. /\ r \in Seq(Orders)
      /\ \A j \in DOMAIN r : \E b \in Brackets : \E k \in DOMAIN c.orders[b] : r[j] = c.orders[b][k]
  BY <1>1, <1>2, RelevantOrders DEF RelevantRight
<1>4. OrderIn(c) = r[c.next] /\ c.next \in DOMAIN r
  BY <1>1, <1>2 DEF OrderIn
<1>5. r[c.next] \in Orders
  BY <1>3, <1>4
<1>6. PICK b \in Brackets : \E k \in DOMAIN c.orders[b] : r[c.next] = c.orders[b][k]
  BY <1>3, <1>4
<1>7. DOMAIN c.orders[b] = {1, 2}
  <2>1. c.orders[b] \in Seq(Orders)
    <3>1. c.orders[b] \in OrderLists \cup {<<>>}
      BY <1>1 DEF CheckRecords
    <3>2. QED
      BY <3>1, ListsAreSequences
  <2>2. Len(c.orders[b]) = 2
    BY <1>1 DEF BackAndForth
  <2>3. QED
    BY <2>1, <2>2
<1>8. QED
  BY <1>4, <1>5, <1>6, <1>7

(* An order of no value or without profit was so at some moment.           *)
LEMMA Harmless ==
    ASSUME NEW c, NEW q, NEW S, NEW st, Sound(c, q, S, st), c.pc = "profit", c.usd,
           \/ q.pc = "answered" /\ q.slice.kind = "number" /\ q.slice.log \in Int
              /\ Negligible(OrderIn(c), q.slice.log)
           \/ Unprofitable(OrderIn(c), c.price)
    PROVE  Judged(S, st, OrderIn(c))
<1>1. PICK o : o = OrderIn(c)
  OBVIOUS
<1>2. o \in Orders
  BY <1>1, OrderAtHand
<1>3. o.size \in Int /\ o.limit \in Int
  BY <1>2 DEF Orders
<1>4. CASE q.pc = "answered" /\ q.slice.kind = "number" /\ q.slice.log \in Int
           /\ Negligible(o, q.slice.log)
  <2>1. q.base = o.sell /\ q.quote = USDC
    BY <1>1, <1>4 DEF Sound, QueryFits
  <2>2. PriceSeen(S, st, q.slice.log, q.base, q.quote)
    BY <1>4 DEF Sound, AnswerSeen
  <2>3. PICK s \in S : q.slice.log = PriceBy(st, s, o.sell, USDC)
    BY <2>1, <2>2 DEF PriceSeen
  <2>4. ~(PriceBy(st, s, o.sell, USDC) + o.size >= 0)
    BY <1>3, <1>4, <2>3 DEF Negligible
  <2>5. QED
    BY <1>1, <2>4 DEF Judged, AttractiveBy
<1>5. CASE Unprofitable(o, c.price)
  <2>1. PriceSeen(S, st, c.price, o.sell, o.buy)
    BY <1>1, WhileProfit
  <2>2. PICK s \in S : c.price = PriceBy(st, s, o.sell, o.buy)
    BY <2>1 DEF PriceSeen
  <2>3. c.price \in Int
    BY WhileProfit DEF CheckRecords
  <2>4. ~(PriceBy(st, s, o.sell, o.buy) >= o.limit)
    BY <1>3, <1>5, <2>2, <2>3 DEF Unprofitable
  <2>5. QED
    BY <1>1, <2>4 DEF Judged, AttractiveBy
<1>6. QED
  BY <1>1, <1>4, <1>5

(* An order that is worth something and profitable is no false alarm.      *)
LEMMA Harmful ==
    ASSUME NEW c, NEW q, NEW S, NEW st, Sound(c, q, S, st), c.pc = "profit", c.usd,
           q.pc = "answered", q.slice.kind = "number", q.slice.log \in Int,
           ~Negligible(OrderIn(c), q.slice.log), ~Unprofitable(OrderIn(c), c.price),
           NEW s, S = {s}
    PROVE  ~CorrectBy(st, s)
<1>1. PICK o : o = OrderIn(c)
  OBVIOUS
<1>2. o.size \in Int /\ o.limit \in Int
  BY <1>1, OrderAtHand DEF Orders
<1>3. q.slice.log = PriceBy(st, s, o.sell, USDC)
  <2>1. q.base = o.sell /\ q.quote = USDC
    BY <1>1 DEF Sound, QueryFits
  <2>2. PriceSeen(S, st, q.slice.log, q.base, q.quote)
    BY DEF Sound, AnswerSeen
  <2>3. QED
    BY <2>1, <2>2 DEF PriceSeen
<1>4. c.price = PriceBy(st, s, o.sell, o.buy) /\ c.price \in Int
  <2>1. PriceSeen(S, st, c.price, o.sell, o.buy)
    BY <1>1, WhileProfit
  <2>2. QED
    BY <2>1, WhileProfit DEF PriceSeen, CheckRecords
<1>5. AttractiveBy(st, s, o)
  <2>1. q.slice.log + o.size >= 0
    BY <1>1, <1>2 DEF Negligible
  <2>2. c.price >= o.limit
    BY <1>1, <1>2, <1>4 DEF Unprofitable
  <2>3. QED
    BY <1>3, <1>4, <2>1, <2>2 DEF AttractiveBy
<1>6. PICK b \in Brackets : \E k \in {1, 2} : o = c.orders[b][k]
  BY <1>1, OrderAtHand
<1>7. OrdersSeen(S, b, c.orders[b])
  BY WhileProfit
<1>8. s.chain.orders[b] = c.orders[b]
  BY <1>7 DEF OrdersSeen
<1>9. QED
  BY <1>5, <1>6, <1>8 DEF CorrectBy

(* What is known while the allowances are read.                            *)
LEMMA WhileAllowances ==
    ASSUME NEW c, NEW q, NEW S, NEW st, Sound(c, q, S, st), c.pc = "allowances"
    PROVE  /\ c \in CheckRecords /\ CheckTypes(c) /\ c.kind = "verify" /\ ~c.usd
           /\ \A b \in Brackets : OrdersSeen(S, b, c.orders[b])
           /\ \A t \in Traits : TraitSeen(S, t)
           /\ \A b \in Brackets : BackAndForth(c.orders[b]) /\ Gains(c.orders[b])
           /\ \A j \in DOMAIN RelevantIn(c) : Cleared(c.unpriced, S, st, RelevantIn(c)[j])
           /\ TradedIn(c) \subseteq Tokens /\ \E t : t \in TradedIn(c)
           /\ q.pc = "none" /\ AnswerSeen(q, S, st)
<1>1. c \in CheckRecords /\ CheckTypes(c) /\ c.kind = "verify" /\ ~c.usd
  <2>1. CheckTypes(c)
    BY DEF Sound
  <2>2. QED
    BY <2>1, KindByStage DEF CheckTypes, Reading
<1>2. Verified(c, S, st)
  BY <1>1 DEF Sound
<1>3. \A b \in Brackets : OrdersSeen(S, b, c.orders[b])
  BY <1>2 DEF Verified, OrdersRead, AfterOrders, AfterShape, AfterLists, AfterProfit
<1>4. \A t \in Traits : TraitSeen(S, t)
  BY <1>2 DEF Verified, TraitsRead, AfterShape, AfterLists, AfterProfit
<1>5. \A b \in Brackets : BackAndForth(c.orders[b]) /\ Gains(c.orders[b])
  BY <1>2 DEF Verified, ListsRight, AfterLists, AfterProfit
<1>6. \A j \in DOMAIN RelevantIn(c) : Cleared(c.unpriced, S, st, RelevantIn(c)[j])
  BY <1>2 DEF Verified, OrdersJudged, AfterProfit
<1>7. \E t : t \in TradedIn(c)
  <2>1. PICK b : b \in Brackets
    BY BracketsListed
  <2>2. c.orders[b] # <<>>
    BY <1>5, <2>1, RightListsAreOrders
  <2>3. QED
    BY <1>1, <2>1, <2>2, RelevantExist
<1>8. q.pc = "none" /\ AnswerSeen(q, S, st)
  BY DEF Sound, QueryFits
<1>9. QED
  BY <1>1, <1>3, <1>4, <1>5, <1>6, <1>7, <1>8, TradedAreTokens

(* Something about the allowances of an account is read.                   *)
AfterReadingBy(c, left) ==
    IF left # {} THEN [c EXCEPT !.left = left]
    ELSE IF c.next = Len(Accounts) THEN EndOf(c, "passed")
    ELSE [c EXCEPT !.next = @ + 1, !.left = ApprovalsOf(Accounts[c.next + 1], TradedIn(c))]

LEMMA AllowancesAreRead ==
    ASSUME NEW c, NEW d, NEW q, NEW S, NEW st, Sound(c, q, S, st), c.pc = "allowances",
           NEW account, account = Accounts[c.next],
           NEW left, left \subseteq ({account} \X TradedIn(c))
                                      \cup ({account} \X TradedIn(c) \X Spenders),
           \A t \in TradedIn(c), p \in Spenders :
              <<account, t>> \in left \/ <<account, t, p>> \in left \/ Absent(S, account, t, p),
           d = AfterReadingBy(c, left)
    PROVE  Sound(d, q, S, st)
<1>1. /\ c \in CheckRecords /\ CheckTypes(c) /\ c.kind = "verify" /\ ~c.usd
      /\ \A b \in Brackets : OrdersSeen(S, b, c.orders[b])
      /\ \A t \in Traits : TraitSeen(S, t)
      /\ \A b \in Brackets : BackAndForth(c.orders[b]) /\ Gains(c.orders[b])
      /\ \A j \in DOMAIN RelevantIn(c) : Cleared(c.unpriced, S, st, RelevantIn(c)[j])
      /\ TradedIn(c) \subseteq Tokens /\ \E t : t \in TradedIn(c)
      /\ q.pc = "none" /\ AnswerSeen(q, S, st)
  BY WhileAllowances
<1>2. /\ c.next \in DOMAIN Accounts
      /\ \A j \in 1..(c.next - 1) : \A t \in TradedIn(c), p \in Spenders :
            Absent(S, Accounts[j], t, p)
  BY <1>1 DEF Sound, Verified, AllowancesRead
<1>3. SUFFICES /\ d \in CheckRecords /\ d.kind = "verify" /\ d.orders = c.orders /\ ~d.usd
               /\ d.unpriced = c.unpriced
               /\ \/ d.pc = "allowances" /\ d.left # {}
                  \/ d.pc = "passed"
               /\ AllowancesRead(d, S)
  <2>1. CheckTypes(d)
    BY <1>3 DEF CheckTypes, VerifyStages, Reading
  <2>2. OrdersRead(d, S) /\ TraitsRead(d, S) /\ ListsRight(d)
    BY <1>1, <1>3 DEF OrdersRead, TraitsRead, ListsRight
  <2>3. RelevantIn(d) = RelevantIn(c)
    BY <1>3, SameRelevant
  <2>4. OrdersJudged(d, S, st)
    BY <1>1, <1>3, <2>3 DEF OrdersJudged
  <2>5. QueryFits(d, q) /\ Justified(d, S, st)
    BY <1>1, <1>3 DEF QueryFits, Justified
  <2>6. QED
    BY <1>1, <1>3, <2>1, <2>2, <2>4, <2>5 DEF Sound, Verified
<1>4. account \in ToSet(Accounts)
  BY <1>2, AccountsListed
<1>5. CASE left # {}
  <2>1. d = [c EXCEPT !.left = left]
    BY <1>5 DEF AfterReadingBy
  <2>2. left \subseteq Items
    <3>1. {account} \X TradedIn(c) \subseteq ToSet(Accounts) \X Tokens
      BY <1>1, <1>4
    <3>2. {account} \X TradedIn(c) \X Spenders \subseteq Allowances
      BY <1>1, <1>4 DEF Allowances
    <3>3. QED
      BY <3>1, <3>2 DEF Items
  <2>3. d \in CheckRecords
    BY <1>1, <2>1, <2>2 DEF CheckRecords
  <2>4. /\ d.kind = "verify" /\ d.orders = c.orders /\ ~d.usd /\ d.unpriced = c.unpriced
        /\ d.pc = "allowances" /\ d.left = left /\ d.next = c.next
    BY <1>1, <2>1 DEF CheckRecords
  <2>5. TradedIn(d) = TradedIn(c)
    BY <2>4, SameRelevant
  <2>6. AllowancesRead(d, S)
    BY <1>2, <2>4, <2>5 DEF AllowancesRead
  <2>7. QED
    BY <1>5, <2>3, <2>4, <2>6
<1>6. ASSUME left = {}, NEW t \in TradedIn(c), NEW p \in Spenders, NEW j \in 1..c.next
      PROVE  Absent(S, Accounts[j], t, p)
  <2>1. Absent(S, account, t, p)
    BY <1>6
  <2>2. j = c.next \/ j \in 1..(c.next - 1)
    BY <1>2, AccountsListed
  <2>3. QED
    BY <1>2, <2>1, <2>2
<1>7. CASE left = {} /\ c.next = Len(Accounts)
  <2>1. d = EndOf(c, "passed")
    BY <1>7 DEF AfterReadingBy
  <2>2. d \in CheckRecords
    BY <1>1, <2>1 DEF CheckRecords, EndOf, VerifyStages
  <2>3. /\ d.kind = "verify" /\ d.orders = c.orders /\ ~d.usd /\ d.unpriced = c.unpriced
        /\ d.pc = "passed"
    BY <1>1, <2>1 DEF CheckRecords, EndOf
  <2>4. TradedIn(d) = TradedIn(c)
    BY <2>3, SameRelevant
  <2>5. ASSUME NEW a \in ToSet(Accounts), NEW t \in TradedIn(d), NEW p \in Spenders
        PROVE  Absent(S, a, t, p)
    <3>1. PICK j \in 1..c.next : Accounts[j] = a
      BY <1>7, AccountsListed
    <3>2. QED
      BY <1>6, <1>7, <2>4, <3>1
  <2>6. AllowancesRead(d, S)
    BY <2>3, <2>5 DEF AllowancesRead
  <2>7. QED
    BY <2>2, <2>3, <2>6
<1>8. CASE left = {} /\ c.next # Len(Accounts)
  <2> DEFINE then == ApprovalsOf(Accounts[c.next + 1], TradedIn(c))
  <2>1. d = [c EXCEPT !.next = @ + 1, !.left = then]
    BY <1>8 DEF AfterReadingBy
  <2>2. c.next + 1 \in DOMAIN Accounts /\ Accounts[c.next + 1] \in ToSet(Accounts)
    BY <1>2, <1>8, AccountsListed
  <2>3. then \subseteq Items /\ then # {}
    <3>1. PICK t : t \in TradedIn(c)
      BY <1>1
    <3>2. <<Accounts[c.next + 1], t>> \in {Accounts[c.next + 1]} \X TradedIn(c)
      BY <3>1
    <3>3. {Accounts[c.next + 1]} \X TradedIn(c) \subseteq ToSet(Accounts) \X Tokens
      BY <1>1, <2>2
    <3>4. QED
      BY <3>2, <3>3 DEF ApprovalsOf, Items
  <2>4. then = {Accounts[c.next + 1]} \X TradedIn(c)
    BY DEF ApprovalsOf
  <2> HIDE DEF then
  <2>5. d \in CheckRecords
    <3>1. PICK f : f = [c EXCEPT !.next = @ + 1]
      OBVIOUS
    <3>2. f \in CheckRecords
      BY <1>1, <3>1, NextCounts
    <3>3. d = [f EXCEPT !.left = then]
      BY <1>1, <2>1, <3>1 DEF CheckRecords
    <3>4. [f EXCEPT !.left = then] \in CheckRecords
      BY <2>3, <3>2 DEF CheckRecords
    <3>5. QED
      BY <3>3, <3>4
  <2>6. /\ d.kind = "verify" /\ d.orders = c.orders /\ ~d.usd /\ d.unpriced = c.unpriced
        /\ d.pc = "allowances" /\ d.left = then /\ d.next = c.next + 1
    BY <1>1, <2>1 DEF CheckRecords
  <2>7. TradedIn(d) = TradedIn(c)
    BY <2>6, SameRelevant
  <2>8. AllowancesRead(d, S)
    <3>1. 1..(d.next - 1) = 1..c.next
      BY <1>2, <2>6, AccountsListed
    <3>2. \A t \in TradedIn(d) : <<Accounts[d.next], t>> \in d.left
      BY <2>4, <2>6, <2>7
    <3>3. d.left = {Accounts[d.next]} \X TradedIn(d)
      BY <2>4, <2>6, <2>7
    <3>4. QED
      BY <1>6, <1>8, <2>2, <2>6, <2>7, <3>1, <3>2, <3>3 DEF AllowancesRead
  <2>9. QED
    BY <2>3, <2>5, <2>6, <2>8
<1>9. QED
  BY <1>5, <1>7, <1>8

(* What is left to read is an event or an allowance of the account.        *)
LEMMA WhatIsLeft ==
    ASSUME NEW c, NEW q, NEW S, NEW st, Sound(c, q, S, st), c.pc = "allowances",
           NEW account, account = Accounts[c.next]
    PROVE  /\ account \in ToSet(Accounts)
           /\ c.left \subseteq ({account} \X TradedIn(c))
                                  \cup ({account} \X TradedIn(c) \X Spenders)
           /\ \A t \in TradedIn(c), p \in Spenders :
                 \/ <<account, t>> \in c.left \/ <<account, t, p>> \in c.left
                 \/ Absent(S, account, t, p)
           /\ \A item \in c.left : Len(item) = 2 =>
                 \E t \in TradedIn(c) : item = <<account, t>>
           /\ \A item \in c.left : Len(item) = 3 =>
                 \E t \in TradedIn(c), p \in Spenders : item = <<account, t, p>>
<1>1. c.kind = "verify"
  BY WhileAllowances
<1>2. /\ c.next \in DOMAIN Accounts
      /\ c.left \subseteq ({account} \X TradedIn(c))
                             \cup ({account} \X TradedIn(c) \X Spenders)
      /\ \A t \in TradedIn(c), p \in Spenders :
            \/ <<account, t>> \in c.left \/ <<account, t, p>> \in c.left
            \/ Absent(S, account, t, p)
  BY <1>1 DEF Sound, Verified, AllowancesRead
<1>3. account \in ToSet(Accounts)
  BY <1>2, AccountsListed
<1>4. ASSUME NEW item \in c.left
      PROVE  /\ Len(item) = 2 => \E t \in TradedIn(c) : item = <<account, t>>
             /\ Len(item) = 3 => \E t \in TradedIn(c), p \in Spenders : item = <<account, t, p>>
  <2>1. CASE item \in {account} \X TradedIn(c)
    BY <2>1
  <2>2. CASE item \in {account} \X TradedIn(c) \X Spenders
    BY <2>2
  <2>3. QED
    BY <1>2, <2>1, <2>2
<1>5. QED
  BY <1>2, <1>3, <1>4

LEMMA EventsAreRead ==
    ASSUME NEW c, NEW d, NEW q, NEW S \in SUBSET Moments, NEW st, NEW m \in S, Sound(c, q, S, st),
           c.pc = "allowances", NEW item \in c.left, Len(item) = 2, NEW spenders,
           spenders = {a \in m.chain.approved : a[1] = item[1] /\ a[2] = item[2]},
           d = AfterReadingBy(c, (c.left \ {item}) \cup spenders)
    PROVE  Sound(d, q, S, st)
<1>1. PICK account : account = Accounts[c.next]
  OBVIOUS
<1>2. PICK left : left = (c.left \ {item}) \cup spenders
  OBVIOUS
<1>3. PICK token \in TradedIn(c) : item = <<account, token>>
  BY <1>1, WhatIsLeft
<1>4. account \in ToSet(Accounts) /\ TradedIn(c) \subseteq Tokens
  BY <1>1, WhatIsLeft, WhileAllowances
<1>5. m.chain.approved \subseteq Allowances /\ m.chain.allowed \subseteq m.chain.approved
  BY DEF Moments, ChainStates
<1>6. ASSUME NEW a \in spenders
      PROVE  a \in {account} \X TradedIn(c) \X Spenders
  <2>1. a \in ToSet(Accounts) \X Tokens \X Spenders /\ a[1] = account /\ a[2] = token
    BY <1>3, <1>5 DEF Allowances
  <2>2. QED
    BY <2>1
<1>7. left \subseteq ({account} \X TradedIn(c)) \cup ({account} \X TradedIn(c) \X Spenders)
  <2>1. c.left \subseteq ({account} \X TradedIn(c)) \cup ({account} \X TradedIn(c) \X Spenders)
    BY <1>1, WhatIsLeft
  <2>2. QED
    BY <1>2, <1>6, <2>1
<1>8. ASSUME NEW t \in TradedIn(c), NEW p \in Spenders
      PROVE  <<account, t>> \in left \/ <<account, t, p>> \in left \/ Absent(S, account, t, p)
  <2>1. <<account, t>> \in c.left \/ <<account, t, p>> \in c.left \/ Absent(S, account, t, p)
    BY <1>1, WhatIsLeft
  <2>2. CASE <<account, t>> # item
    <3>1. <<account, t, p>> # item
      BY <1>3
    <3>2. QED
      BY <1>2, <2>1, <2>2, <3>1
  <2>3. CASE <<account, t>> = item
    <3>1. CASE <<account, t, p>> \in m.chain.approved
      <4>1. <<account, t, p>> \in spenders
        BY <2>3, <3>1
      <4>2. QED
        BY <1>2, <4>1
    <3>2. CASE <<account, t, p>> \notin m.chain.approved
      <4>1. <<account, t, p>> \notin m.chain.allowed
        BY <1>5, <3>2
      <4>2. QED
        BY <4>1 DEF Absent, Unlawful
    <3>3. QED
      BY <3>1, <3>2
  <2>4. QED
    BY <2>2, <2>3
<1>9. d = AfterReadingBy(c, left)
  BY <1>2
<1>10. QED
  BY <1>1, <1>7, <1>8, <1>9, AllowancesAreRead

LEMMA AllowanceIsRead ==
    ASSUME NEW c, NEW d, NEW q, NEW S, NEW st, NEW m \in S, Sound(c, q, S, st),
           c.pc = "allowances", NEW item \in c.left, Len(item) = 3,
           ~(item \in m.chain.allowed /\ item[3] \notin Excepted(item[1])),
           d = AfterReadingBy(c, c.left \ {item})
    PROVE  Sound(d, q, S, st)
<1>1. PICK account : account = Accounts[c.next]
  OBVIOUS
<1>2. PICK left : left = c.left \ {item}
  OBVIOUS
<1>3. PICK token \in TradedIn(c), spender \in Spenders : item = <<account, token, spender>>
  BY <1>1, WhatIsLeft
<1>4. Absent(S, account, token, spender)
  <2>1. item \notin Unlawful(m, account, {token})
    BY <1>3 DEF Unlawful, Excepted
  <2>2. QED
    BY <1>3, <2>1 DEF Absent
<1>5. left \subseteq ({account} \X TradedIn(c)) \cup ({account} \X TradedIn(c) \X Spenders)
  BY <1>1, <1>2, WhatIsLeft
<1>6. ASSUME NEW t \in TradedIn(c), NEW p \in Spenders
      PROVE  <<account, t>> \in left \/ <<account, t, p>> \in left \/ Absent(S, account, t, p)
  <2>1. <<account, t>> \in c.left \/ <<account, t, p>> \in c.left \/ Absent(S, account, t, p)
    BY <1>1, WhatIsLeft
  <2>2. <<account, t>> # item
    BY <1>3
  <2>3. CASE <<account, t, p>> = item
    BY <1>3, <1>4, <2>3
  <2>4. CASE <<account, t, p>> # item
    BY <1>2, <2>1, <2>2, <2>4
  <2>5. QED
    BY <2>3, <2>4
<1>7. d = AfterReadingBy(c, left)
  BY <1>2
<1>8. QED
  BY <1>1, <1>5, <1>6, <1>7, AllowancesAreRead

(* An allowance that is not excepted is no false alarm.                    *)
LEMMA AllowanceIsWrong ==
    ASSUME NEW c, NEW q, NEW S, NEW st, NEW m \in S, Sound(c, q, S, st),
           c.pc = "allowances", NEW item \in c.left, Len(item) = 3,
           item \in m.chain.allowed, item[3] \notin Excepted(item[1])
    PROVE  ~CorrectBy(st, m)
<1>1. PICK account : account = Accounts[c.next]
  OBVIOUS
<1>2. PICK token \in TradedIn(c), spender \in Spenders : item = <<account, token, spender>>
  BY <1>1, WhatIsLeft
<1>3. account \in ToSet(Accounts) /\ token \in Tokens
  BY <1>1, <1>2, WhatIsLeft, WhileAllowances
<1>4. item \in Unlawful(m, account, Tokens)
  BY <1>2, <1>3 DEF Unlawful, Excepted
<1>5. QED
  BY <1>3, <1>4 DEF CorrectBy

(***************************************************************************)
(* Steps before a deployment.                                              *)
(***************************************************************************)
OncePriced(c, slice) == [c EXCEPT !.pc = "bounds", !.quoted = slice.kind = "number"]

LEMMA PriceIsChecked ==
    ASSUME NEW c, NEW d, NEW q, NEW S, NEW st, Sound(c, q, S, st), c.pc = "price",
           q.pc = "answered", q.slice \in Slices,
           NEW e, e = OncePriced(c, q.slice),
           \/ IsPriceReasonable(q.slice, c.setting.price) /\ d = e
           \/ d = [e EXCEPT !.confirmed = TRUE]
    PROVE  Sound(d, NoQuery, S, st)
<1>1. c \in CheckRecords /\ CheckTypes(c) /\ c.kind = "provision"
  <2>1. CheckTypes(c)
    BY DEF Sound
  <2>2. QED
    BY <2>1, KindByStage DEF CheckTypes
<1>2. e \in CheckRecords
  BY <1>1 DEF CheckRecords, ProvisionStages, OncePriced
<1>3. /\ e.kind = "provision" /\ e.pc = "bounds" /\ e.setting = c.setting
      /\ e.quoted <=> q.slice.kind = "number"
  BY <1>1 DEF CheckRecords, OncePriced
<1>4. d \in CheckRecords
  <2>1. [e EXCEPT !.confirmed = TRUE] \in CheckRecords
    BY <1>2 DEF CheckRecords
  <2>2. QED
    BY <1>2, <2>1
<1>5. d.kind = "provision" /\ d.pc = "bounds" /\ d.setting = c.setting
  BY <1>2, <1>3 DEF CheckRecords
<1>6. CheckTypes(d)
  BY <1>1, <1>4, <1>5 DEF CheckTypes, ProvisionStages, Reading
<1>7. NothingOf(st)
  BY <1>1 DEF Sound
<1>8. ASSUME ~d.confirmed, d.quoted
      PROVE  \E s \in S : Abs(MarketPrice(s.market, Base, Quote) - c.setting.price) < Tolerance
  <2>1. d = e /\ IsPriceReasonable(q.slice, c.setting.price)
    <3>1. [e EXCEPT !.confirmed = TRUE].confirmed = TRUE
      BY <1>2 DEF CheckRecords
    <3>2. QED
      BY <1>8, <3>1
  <2>2. q.slice.kind = "number"
    BY <1>3, <1>8, <2>1
  <2>3. Abs(q.slice.log - c.setting.price) < Tolerance
    BY <2>1, <2>2 DEF IsPriceReasonable
  <2>4. q.base = Base /\ q.quote = Quote /\ PriceSeen(S, st, q.slice.log, q.base, q.quote)
    BY <2>2 DEF Sound, QueryFits, AnswerSeen
  <2>5. PICK s \in S : q.slice.log = PriceBy(st, s, Base, Quote)
    BY <2>4 DEF PriceSeen
  <2>6. PriceBy(st, s, Base, Quote) = MarketPrice(s.market, Base, Quote)
    BY <1>7, SetupAssumption DEF PriceBy, NothingOf
  <2>7. QED
    BY <2>3, <2>5, <2>6
<1>9. PriceIsNear(d, S)
  BY <1>5, <1>8 DEF PriceIsNear
<1>10. LimitsNear(d, S) /\ QueryFits(d, NoQuery) /\ AnswerSeen(NoQuery, S, st)
  BY <1>5 DEF LimitsNear, QueryFits, AnswerSeen, NoQuery
<1>11. QED
  BY <1>5, <1>6, <1>7, <1>9, <1>10 DEF Sound

LEMMA TriangleInequality ==
    ASSUME NEW m \in Int, NEW p \in Int, NEW limit \in Int, NEW k \in Int, NEW n \in Int,
           Abs(m - p) < k, p - limit < n, limit - p < n
    PROVE  Abs(m - limit) < n + k
BY DEF Abs

LEMMA BoundsAreChecked ==
    ASSUME NEW c, NEW d, NEW q, NEW S \in SUBSET Moments, NEW st, Sound(c, q, S, st),
           c.pc = "bounds",
           \/ AreBoundsReasonable(c.setting) /\ d = EndOf(c, "passed")
           \/ d = [EndOf(c, "passed") EXCEPT !.confirmed = TRUE]
    PROVE  Sound(d, q, S, st)
<1>1. c \in CheckRecords /\ CheckTypes(c) /\ c.kind = "provision" /\ c.setting \in Settings
  <2>1. CheckTypes(c)
    BY DEF Sound
  <2>2. QED
    BY <2>1, KindByStage DEF CheckTypes
<1>2. PICK e : e = EndOf(c, "passed")
  OBVIOUS
<1>3. e \in CheckRecords
  BY <1>1, <1>2 DEF CheckRecords, EndOf, ProvisionStages
<1>4. /\ e.kind = "provision" /\ e.pc = "passed" /\ e.setting = c.setting
      /\ e.quoted = c.quoted /\ e.confirmed = c.confirmed
  BY <1>1, <1>2 DEF CheckRecords, EndOf
<1>5. \/ AreBoundsReasonable(c.setting) /\ d = e
      \/ d = [e EXCEPT !.confirmed = TRUE]
  BY <1>2
<1>6. d \in CheckRecords
  <2>1. [e EXCEPT !.confirmed = TRUE] \in CheckRecords
    BY <1>3 DEF CheckRecords
  <2>2. QED
    BY <1>3, <1>5, <2>1
<1>7. /\ d.kind = "provision" /\ d.pc = "passed" /\ d.setting = c.setting
      /\ d.quoted = c.quoted
  BY <1>3, <1>4, <1>5 DEF CheckRecords
<1>8. CheckTypes(d)
  BY <1>1, <1>6, <1>7 DEF CheckTypes, ProvisionStages, Reading
<1>9. PriceIsNear(d, S) /\ NothingOf(st)
  BY <1>1, <1>7 DEF PriceIsNear, Sound
<1>10. LimitsNear(d, S)
  <2>1. SUFFICES ASSUME ~d.confirmed
                 PROVE  /\ c.setting.price - Spread < c.setting.lowest
                        /\ c.setting.lowest < c.setting.price
                        /\ c.setting.price < c.setting.highest
                        /\ c.setting.highest < c.setting.price + Spread
                        /\ c.quoted => \E s \in S : \A limit \in {c.setting.lowest, c.setting.highest} :
                              Abs(MarketPrice(s.market, Base, Quote) - limit) < Spread + Tolerance
    BY <1>7 DEF LimitsNear
  <2>2. d = e /\ AreBoundsReasonable(c.setting) /\ ~c.confirmed
    <3>1. [e EXCEPT !.confirmed = TRUE].confirmed = TRUE
      BY <1>3 DEF CheckRecords
    <3>2. QED
      BY <1>4, <1>5, <2>1, <3>1
  <2>3. c.setting \in [price : Int, lowest : Int, highest : Int] /\ Spread \in Int /\ Tolerance \in Int
    BY <1>1, SetupAssumption
  <2>4. ASSUME c.quoted
        PROVE  \E s \in S : \A limit \in {c.setting.lowest, c.setting.highest} :
                  Abs(MarketPrice(s.market, Base, Quote) - limit) < Spread + Tolerance
    <3>1. PICK s \in S :
             Abs(MarketPrice(s.market, Base, Quote) - c.setting.price) < Tolerance
      BY <1>1, <2>2, <2>4 DEF Sound, PriceIsNear
    <3>2. MarketPrice(s.market, Base, Quote) \in Int
      BY SetupAssumption DEF Moments, MarketPrice
    <3>3. ASSUME NEW limit \in {c.setting.lowest, c.setting.highest}
          PROVE  Abs(MarketPrice(s.market, Base, Quote) - limit) < Spread + Tolerance
      <4>1. /\ limit \in Int /\ c.setting.price \in Int
            /\ c.setting.price - limit < Spread /\ limit - c.setting.price < Spread
        BY <2>2, <2>3 DEF AreBoundsReasonable
      <4>2. QED
        BY <2>3, <3>1, <3>2, <4>1, TriangleInequality
    <3>4. QED
      BY <3>3
  <2>5. QED
    BY <2>2, <2>3, <2>4 DEF AreBoundsReasonable
<1>11. QueryFits(d, q) /\ AnswerSeen(q, S, st)
  BY <1>7 DEF QueryFits, Sound
<1>12. QED
  BY <1>7, <1>8, <1>9, <1>10, <1>11 DEF Sound

(***************************************************************************)
(* Queries for prices.                                                     *)
(***************************************************************************)
Queries ==
    [pc : {"none", "asking", "answered", "threw", "hanging"}, base : Tokens, quote : Tokens,
     tries : 0..(Tries - 1), slice : Slices]

AskedBy(st, base, quote) ==
    IF Key(base, quote) \in DOMAIN st THEN Answered(Asking(base, quote), st[Key(base, quote)])
    ELSE IF Key(quote, base) \in DOMAIN st
    THEN Answered(Asking(base, quote), Inverted(st[Key(quote, base)]))
    ELSE Asking(base, quote)

LEMMA AskingIs ==
    ASSUME NEW base \in Tokens, NEW quote \in Tokens
    PROVE  /\ Asking(base, quote) \in Queries /\ Asking(base, quote).pc = "asking"
           /\ Asking(base, quote).base = base /\ Asking(base, quote).quote = quote
BY DEF Asking, Queries, Undefined, Slices, Tries

LEMMA AnsweredIs ==
    ASSUME NEW q \in Queries, NEW slice \in Slices
    PROVE  /\ Answered(q, slice) \in Queries /\ Answered(q, slice).pc = "answered"
           /\ Answered(q, slice).base = q.base /\ Answered(q, slice).quote = q.quote
           /\ Answered(q, slice).slice = slice
BY DEF Answered, Queries

LEMMA InvertedIs ==
    ASSUME NEW slice \in Slices
    PROVE  /\ Inverted(slice) \in Slices
           /\ Inverted(slice).kind = "number" => Inverted(slice).log = -slice.log
BY DEF Inverted, Slices, Number, NaN

LEMMA NoQueryIs == NoQuery \in Queries /\ NoQuery.pc = "none"
BY OracleAssumption DEF NoQuery, Queries, Undefined, Slices, Tries

(* A query that is answered at once has the price a caller stored.         *)
LEMMA AskedIs ==
    ASSUME NEW st, \A key \in DOMAIN st : st[key] \in Slices,
           NEW base \in Tokens, NEW quote \in Tokens, NEW q, q = AskedBy(st, base, quote),
           NEW S, NEW m \in S
    PROVE  q \in Queries /\ q.base = base /\ q.quote = quote /\ AnswerSeen(q, S, st)
<1>1. CASE Key(base, quote) \in DOMAIN st
  <2>1. PICK slice \in Slices : slice = st[Key(base, quote)]
    BY <1>1
  <2>2. q = Answered(Asking(base, quote), slice)
    BY <1>1, <2>1 DEF AskedBy
  <2>3. /\ q \in Queries /\ q.base = base /\ q.quote = quote /\ q.pc = "answered"
        /\ q.slice = slice
    BY <2>2, AskingIs, AnsweredIs
  <2>4. slice.log = PriceBy(st, m, base, quote)
    BY <1>1, <2>1 DEF PriceBy
  <2>5. QED
    BY <2>3, <2>4 DEF AnswerSeen, PriceSeen
<1>2. CASE Key(base, quote) \notin DOMAIN st /\ Key(quote, base) \in DOMAIN st
  <2>1. PICK stored \in Slices : stored = st[Key(quote, base)]
    BY <1>2
  <2>2. PICK slice \in Slices : slice = Inverted(stored)
    BY InvertedIs
  <2>3. q = Answered(Asking(base, quote), slice)
    BY <1>2, <2>1, <2>2 DEF AskedBy
  <2>4. /\ q \in Queries /\ q.base = base /\ q.quote = quote /\ q.pc = "answered"
        /\ q.slice = slice
    BY <2>3, AskingIs, AnsweredIs
  <2>5. slice.kind = "number" => slice.log = PriceBy(st, m, base, quote)
    BY <1>2, <2>1, <2>2, InvertedIs DEF PriceBy
  <2>6. QED
    BY <2>4, <2>5 DEF AnswerSeen, PriceSeen
<1>3. CASE Key(base, quote) \notin DOMAIN st /\ Key(quote, base) \notin DOMAIN st
  <2>1. q = Asking(base, quote)
    BY <1>3 DEF AskedBy
  <2>2. q \in Queries /\ q.base = base /\ q.quote = quote /\ q.pc = "asking"
    BY <2>1, AskingIs
  <2>3. QED
    BY <1>3, <2>2 DEF AnswerSeen
<1>4. QED
  BY <1>1, <1>2, <1>3

(* What a query is about stays, whatever the server answers.               *)
LEMMA QueryStays ==
    ASSUME NEW c, NEW q, NEW q2, NEW S, NEW st, Sound(c, q, S, st), q.pc # "none",
           q2.base = q.base, q2.quote = q.quote, AnswerSeen(q2, S, st)
    PROVE  Sound(c, q2, S, st)
<1>1. QueryFits(c, q2)
  BY DEF Sound, QueryFits
<1>2. QED
  BY <1>1 DEF Sound

(* The prices stored once the server has answered.                         *)
StoredBy(st, slice) ==
    [key \in DOMAIN st \cup {ObjectKey} |-> IF key = ObjectKey THEN slice ELSE st[key]]

LEMMA AnswerArrives ==
    ASSUME NEW c, NEW q \in Queries, NEW S, NEW st, NEW m \in S, Sound(c, q, S, st),
           q.pc = "asking", NEW slice \in Slices, NEW q2, q2 = Answered(q, slice),
           slice.kind = "number" => slice.log = MarketPrice(m.market, q.base, q.quote),
           NEW st2, st2 = StoredBy(st, slice)
    PROVE  Sound(c, q2, S, st2) /\ q2 \in Queries
<1>1. /\ q2 \in Queries /\ q2.pc = "answered" /\ q2.base = q.base /\ q2.quote = q.quote
      /\ q2.slice = slice
  BY AnsweredIs
<1>2. Key(q.base, q.quote) \notin DOMAIN st /\ Key(q.quote, q.base) \notin DOMAIN st
  BY DEF Sound, AnswerSeen
<1>3. AnswerSeen(q2, S, st)
  BY <1>1, <1>2 DEF AnswerSeen, PriceSeen, PriceBy
<1>4. Sound(c, q2, S, st)
  BY <1>1, <1>3, QueryStays
<1>5. SameLookups(st, st2)
  BY LookupsStay DEF StoredBy
<1>6. Sound(c, q2, S, st2)
  BY <1>4, <1>5, SoundGrows
<1>7. QED
  BY <1>1, <1>6
-----------------------------------------------------------------------------
(***************************************************************************)
(* Every step keeps the invariant.                                         *)
(***************************************************************************)
LEMMA MomentNow ==
    ASSUME IInv, check.pc # "idle"
    PROVE  /\ seen \in SUBSET Moments /\ Now \in seen
           /\ query \in Queries /\ \A key \in DOMAIN storage : storage[key] \in Slices
           /\ Sound(check, query, seen, storage) /\ check \in CheckRecords
BY DEF IInv, SeenOK, OracleTypeOK, Queries, Sound, CheckTypes

(* The chain and the market stay.                                          *)
LEMMA StepCarries ==
    ASSUME IInv, Unchanged, check.pc # "idle", UNCHANGED storage, query' \in Queries,
           Sound(check', query', seen, storage)
    PROVE  IInv'
<1>1. SeenOK'
  BY DEF IInv, SeenOK, Unchanged, Now, OracleTypeOK, Queries
<1>2. Sound(check', query', seen', storage')
  BY DEF Unchanged
<1>3. QED
  BY <1>1, <1>2 DEF IInv

LEMMA LocalCarries ==
    ASSUME IInv, Local, check.pc # "idle", Sound(check', query, seen, storage)
    PROVE  IInv'
<1>1. query' \in Queries
  BY MomentNow DEF Local
<1>2. Sound(check', query', seen, storage)
  BY DEF Local
<1>3. QED
  BY <1>1, <1>2, StepCarries DEF Local

LEMMA ReadOrdersStep ==
    ASSUME IInv, NEW b, ReadOrders(b)
    PROVE  IInv'
<1>1. PICK c : c = check
  OBVIOUS
<1>2. PICK d : d = check'
  OBVIOUS
<1>3. PICK r : r = ReadBy(c, b, Now.chain.orders[b])
  OBVIOUS
<1>4. c.pc = "orders" /\ b \in c.left /\ c.pc # "idle" /\ Local
  BY <1>1 DEF ReadOrders
<1>5. d = OnceRead(r)
  BY <1>1, <1>2, <1>3 DEF ReadOrders, Now, OnceRead, ReadBy
<1>6. PICK m : m = Now
  OBVIOUS
<1>7. seen \in SUBSET Moments /\ m \in seen /\ Sound(c, query, seen, storage)
  BY <1>1, <1>4, <1>6, MomentNow
<1>8. r = ReadBy(c, b, m.chain.orders[b])
  BY <1>3, <1>6
<1>9. Sound(d, query, seen, storage)
  BY <1>4, <1>5, <1>7, <1>8, OrdersAreRead
<1>10. QED
  BY <1>1, <1>2, <1>4, <1>9, LocalCarries

LEMMA ReadTraitStep ==
    ASSUME IInv, NEW trait, ReadTrait(trait)
    PROVE  IInv'
<1>1. PICK c : c = check
  OBVIOUS
<1>2. PICK d : d = check'
  OBVIOUS
<1>3. PICK m : m = Now
  OBVIOUS
<1>4. c.pc = "shape" /\ trait \in c.left /\ c.pc # "idle" /\ Local
  BY <1>1 DEF ReadTrait
<1>5. seen \in SUBSET Moments /\ m \in seen /\ Sound(c, query, seen, storage)
      /\ m.chain = chain
  BY <1>1, <1>3, <1>4, MomentNow DEF Now
<1>6. PICK p : p = Min(NextPhase(c.next))
  OBVIOUS
<1>7. CASE trait \in chain.wrong
  <2>1. d = EndOf(c, "refused")
    BY <1>1, <1>2, <1>7 DEF ReadTrait, Ending, EndOf
  <2>2. ~CorrectBy(storage, m)
    BY <1>5, <1>7 DEF CorrectBy
  <2>3. \A s \in seen : seen = {s} => ~CorrectBy(storage, s)
    BY <1>5, <2>2
  <2>4. Sound(d, query, seen, storage)
    BY <1>4, <1>5, <2>1, <2>3, EndsEarly
  <2>5. QED
    BY <1>1, <1>2, <1>4, <2>4, LocalCarries
<1>8. CASE trait \notin chain.wrong
  <2>1. d = IF c.left # {trait} THEN [c EXCEPT !.left = @ \ {trait}]
            ELSE IF NextPhase(c.next) = {} THEN EndOf(c, "lists")
            ELSE [c EXCEPT !.next = p, !.left = Phases[p]]
    BY <1>1, <1>2, <1>6, <1>8 DEF ReadTrait, Ending, EndOf
  <2>2. Sound(d, query, seen, storage)
    BY <1>4, <1>5, <1>6, <1>8, <2>1, TraitIsRead
  <2>3. QED
    BY <1>1, <1>2, <1>4, <2>2, LocalCarries
<1>9. QED
  BY <1>7, <1>8

LEMMA CheckListsStep ==
    ASSUME IInv, CheckLists
    PROVE  IInv'
<1>1. PICK c : c = check
  OBVIOUS
<1>2. PICK d : d = check'
  OBVIOUS
<1>3. c.pc = "lists" /\ c.pc # "idle" /\ Local
  BY <1>1 DEF CheckLists
<1>4. Sound(c, query, seen, storage)
  BY <1>1, <1>3, MomentNow
<1>5. CASE \A b \in Brackets : BackAndForth(c.orders[b]) /\ Gains(c.orders[b])
  <2>1. d = [c EXCEPT !.pc = "profit", !.next = 1]
    BY <1>1, <1>2, <1>5 DEF CheckLists
  <2>2. Sound(d, query, seen, storage)
    BY <1>3, <1>4, <1>5, <2>1, ListsAreChecked
  <2>3. QED
    BY <1>1, <1>2, <1>3, <2>2, LocalCarries
<1>6. CASE ~\A b \in Brackets : BackAndForth(c.orders[b]) /\ Gains(c.orders[b])
  <2>1. d = EndOf(c, "refused")
    BY <1>1, <1>2, <1>6 DEF CheckLists, Ending, EndOf
  <2>2. PICK b \in Brackets : ~(BackAndForth(c.orders[b]) /\ Gains(c.orders[b]))
    BY <1>6
  <2>3. OrdersSeen(seen, b, c.orders[b])
    <3>1. c.kind = "verify"
      BY <1>3, <1>4, KindByStage DEF Sound
    <3>2. QED
      BY <1>3, <1>4, <3>1 DEF Sound, Verified, OrdersRead, AfterOrders, AfterShape
  <2>4. \A s \in seen : seen = {s} => ~CorrectBy(storage, s)
    BY <2>2, <2>3 DEF OrdersSeen, CorrectBy
  <2>5. Sound(d, query, seen, storage)
    BY <1>3, <1>4, <2>1, <2>4, EndsEarly
  <2>6. QED
    BY <1>1, <1>2, <1>3, <2>5, LocalCarries
<1>7. QED
  BY <1>5, <1>6

LEMMA ReadEventsStep ==
    ASSUME IInv, NEW item, ReadEvents(item)
    PROVE  IInv'
<1>1. PICK c : c = check
  OBVIOUS
<1>2. PICK d : d = check'
  OBVIOUS
<1>3. PICK m : m = Now
  OBVIOUS
<1>4. c.pc = "allowances" /\ item \in c.left /\ Len(item) = 2 /\ c.pc # "idle" /\ Local
  BY <1>1 DEF ReadEvents
<1>5. seen \in SUBSET Moments /\ m \in seen /\ Sound(c, query, seen, storage)
      /\ m.chain = chain
  BY <1>1, <1>3, <1>4, MomentNow DEF Now
<1>6. PICK spenders : spenders = {a \in m.chain.approved : a[1] = item[1] /\ a[2] = item[2]}
  OBVIOUS
<1>7. d = AfterReadingBy(c, (c.left \ {item}) \cup spenders)
  <2>1. d = AfterReading((check.left \ {item}) \cup SpendersOf(item))
    BY <1>2 DEF ReadEvents
  <2>2. SpendersOf(item) = spenders
    BY <1>5, <1>6 DEF SpendersOf
  <2>3. TokensOf(Relevant) = TradedIn(c)
    BY <1>1 DEF Relevant, RelevantIn, TradedIn
  <2>4. \A left : AfterReading(left) = AfterReadingBy(c, left)
    BY <1>1, <2>3 DEF AfterReading, AfterReadingBy, Ending, EndOf
  <2>5. QED
    BY <1>1, <2>1, <2>2, <2>4
<1>8. Sound(d, query, seen, storage)
  <2>1. PICK S \in SUBSET Moments : S = seen
    BY <1>5
  <2>2. m \in S /\ Sound(c, query, S, storage)
    BY <1>5, <2>1
  <2>3. Sound(d, query, S, storage)
    BY <1>4, <1>6, <1>7, <2>2, EventsAreRead, ZenonT(60)
  <2>4. QED
    BY <2>1, <2>3
<1>9. QED
  BY <1>1, <1>2, <1>4, <1>8, LocalCarries

LEMMA ReadAllowanceStep ==
    ASSUME IInv, NEW item, ReadAllowance(item)
    PROVE  IInv'
<1>1. PICK c : c = check
  OBVIOUS
<1>2. PICK d : d = check'
  OBVIOUS
<1>3. PICK m : m = Now
  OBVIOUS
<1>4. c.pc = "allowances" /\ item \in c.left /\ Len(item) = 3 /\ c.pc # "idle" /\ Local
  BY <1>1 DEF ReadAllowance
<1>5. seen \in SUBSET Moments /\ m \in seen /\ Sound(c, query, seen, storage)
      /\ m.chain = chain
  BY <1>1, <1>3, <1>4, MomentNow DEF Now
<1>6. CASE item \in m.chain.allowed /\ item[3] \notin Excepted(item[1])
  <2>1. d = EndOf(c, "refused")
    BY <1>1, <1>2, <1>5, <1>6 DEF ReadAllowance, Ending, EndOf
  <2>2. ~CorrectBy(storage, m)
    BY <1>4, <1>5, <1>6, AllowanceIsWrong
  <2>3. \A s \in seen : seen = {s} => ~CorrectBy(storage, s)
    BY <1>5, <2>2
  <2>4. Sound(d, query, seen, storage)
    BY <1>4, <1>5, <2>1, <2>3, EndsEarly
  <2>5. QED
    BY <1>1, <1>2, <1>4, <2>4, LocalCarries
<1>7. CASE ~(item \in m.chain.allowed /\ item[3] \notin Excepted(item[1]))
  <2>1. d = AfterReading(check.left \ {item})
    BY <1>2, <1>5, <1>7 DEF ReadAllowance
  <2>2. TokensOf(Relevant) = TradedIn(c)
    BY <1>1 DEF Relevant, RelevantIn, TradedIn
  <2>3. \A left : AfterReading(left) = AfterReadingBy(c, left)
    BY <1>1, <2>2 DEF AfterReading, AfterReadingBy, Ending, EndOf
  <2>4. d = AfterReadingBy(c, c.left \ {item})
    BY <1>1, <2>1, <2>3
  <2>5. Sound(d, query, seen, storage)
    BY <1>4, <1>5, <1>7, <2>4, AllowanceIsRead
  <2>6. QED
    BY <1>1, <1>2, <1>4, <2>5, LocalCarries
<1>8. QED
  BY <1>6, <1>7

LEMMA OrderOf ==
    ASSUME NEW c, c = check
    PROVE  Order = OrderIn(c) /\ Len(Relevant) = Len(RelevantIn(c)) /\ TokensOf(Relevant) = TradedIn(c)
BY DEF Order, Relevant, OrderIn, RelevantIn, TradedIn

LEMMA AskPriceStep ==
    ASSUME IInv, AskPrice
    PROVE  IInv'
<1>1. PICK c : c = check
  OBVIOUS
<1>2. PICK m : m = Now
  OBVIOUS
<1>3. PICK base : base = OrderIn(c).sell
  OBVIOUS
<1>4. PICK quote : quote = IF c.usd THEN USDC ELSE OrderIn(c).buy
  OBVIOUS
<1>5. c.pc \in {"prices", "profit"} /\ query.pc = "none" /\ c.pc # "idle"
      /\ Unchanged /\ UNCHANGED <<check, storage>>
  BY <1>1 DEF AskPrice
<1>6. PICK q : q = query'
  OBVIOUS
<1>7. q = AskedBy(storage, base, quote)
  BY <1>1, <1>3, <1>4, <1>6, OrderOf DEF AskPrice, Ask, AskedBy
<1>8. m \in seen /\ Sound(c, query, seen, storage) /\ c \in CheckRecords
      /\ \A key \in DOMAIN storage : storage[key] \in Slices
  BY <1>1, <1>2, <1>5, MomentNow
<1>9. base \in Tokens /\ quote \in Tokens
  <2>1. c.next \in DOMAIN RelevantIn(c)
    BY <1>5, <1>8 DEF Sound, CheckTypes
  <2>2. RelevantIn(c) \in Seq(Orders)
    BY <1>8, RelevantOrders DEF RelevantRight
  <2>3. OrderIn(c) \in Orders
    BY <2>1, <2>2 DEF OrderIn
  <2>4. QED
    BY <1>3, <1>4, <2>3, OracleAssumption DEF Orders
<1>10. q \in Queries /\ q.base = base /\ q.quote = quote /\ AnswerSeen(q, seen, storage)
  BY <1>7, <1>8, <1>9, AskedIs
<1>11. QueryFits(c, q)
  BY <1>3, <1>4, <1>5, <1>10 DEF QueryFits
<1>12. Sound(c, q, seen, storage)
  BY <1>8, <1>10, <1>11 DEF Sound
<1>13. QED
  BY <1>1, <1>5, <1>6, <1>10, <1>12, StepCarries

(* A step that takes the answer to a query.                                *)
LEMMA AnswerCarries ==
    ASSUME IInv, Unchanged, UNCHANGED storage, check.pc # "idle", query' = NoQuery,
           Sound(check', NoQuery, seen, storage)
    PROVE  IInv'
BY NoQueryIs, StepCarries

LEMMA UpfrontPriceStep ==
    ASSUME IInv, UpfrontPrice
    PROVE  IInv'
<1>1. PICK c : c = check
  OBVIOUS
<1>2. PICK d : d = check'
  OBVIOUS
<1>3. PICK asked : asked = WithoutUSD(c)
  OBVIOUS
<1>4. c.pc = "prices" /\ c.pc # "idle" /\ query' = NoQuery /\ Unchanged /\ UNCHANGED storage
  BY <1>1 DEF UpfrontPrice, PriceKnown
<1>5. d = UpfrontBy(c, asked)
  BY <1>1, <1>2, <1>3, OrderOf DEF UpfrontPrice, LastOrder, WithoutUSD, UpfrontBy
<1>6. Sound(c, query, seen, storage)
  BY <1>1, <1>4, MomentNow
<1>7. Sound(d, NoQuery, seen, storage)
  BY <1>3, <1>4, <1>5, <1>6, PriceComesUpfront
<1>8. QED
  BY <1>1, <1>2, <1>4, <1>7, AnswerCarries

LEMMA NextOrderIs ==
    ASSUME NEW c, c = check, NEW e
    PROVE  NextOrder(e) = NextOrderBy(c, e)
<1>1. LastOrder <=> c.next = Len(RelevantIn(c))
  BY OrderOf DEF LastOrder
<1>2. QED
  BY <1>1, OrderOf DEF NextOrder, NextOrderBy

LEMMA PairPriceStep ==
    ASSUME IInv, PairPrice
    PROVE  IInv'
<1>1. PICK c : c = check
  OBVIOUS
<1>2. PICK d : d = check'
  OBVIOUS
<1>3. /\ c.pc = "profit" /\ c.pc # "idle" /\ ~c.usd /\ query.pc = "answered"
      /\ query' = NoQuery /\ Unchanged /\ UNCHANGED storage
  BY <1>1 DEF PairPrice, PriceKnown
<1>4. Sound(c, query, seen, storage) /\ query.slice.log \in Int
  BY <1>1, <1>3, MomentNow DEF Queries, Slices
<1>5. CASE query.slice.kind = "number"
  <2>1. d = [c EXCEPT !.usd = TRUE, !.price = query.slice.log]
    BY <1>1, <1>2, <1>5 DEF PairPrice
  <2>2. Sound(d, NoQuery, seen, storage)
    BY <1>3, <1>4, <1>5, <2>1, PriceIsKnown
  <2>3. QED
    BY <1>1, <1>2, <1>3, <2>2, AnswerCarries
<1>6. CASE query.slice.kind # "number"
  <2>1. PICK e : e = Noted(c)
    OBVIOUS
  <2>2. d = NextOrderBy(c, e)
    BY <1>1, <1>2, <1>6, <2>1, NextOrderIs, OrderOf DEF PairPrice, Unpriced, Noted
  <2>3. Sound(d, NoQuery, seen, storage)
    BY <1>3, <1>4, <2>1, <2>2, OrderIsJudged, OrderAtHand
  <2>4. QED
    BY <1>1, <1>2, <1>3, <2>3, AnswerCarries
<1>7. QED
  BY <1>5, <1>6

LEMMA ValuePriceStep ==
    ASSUME IInv, ValuePrice
    PROVE  IInv'
<1>1. PICK c : c = check
  OBVIOUS
<1>2. PICK d : d = check'
  OBVIOUS
<1>3. /\ c.pc = "profit" /\ c.pc # "idle" /\ c.usd /\ query.pc = "answered"
      /\ query' = NoQuery /\ Unchanged /\ UNCHANGED storage
  BY <1>1 DEF ValuePrice, PriceKnown
<1>4. Sound(c, query, seen, storage) /\ query.slice.log \in Int
  BY <1>1, <1>3, MomentNow DEF Queries, Slices
<1>5. PICK o : o = OrderIn(c)
  OBVIOUS
<1>6. SUFFICES Sound(d, NoQuery, seen, storage)
  BY <1>1, <1>2, <1>3, AnswerCarries
<1>7. ASSUME Judged(seen, storage, o), d = NextOrderBy(c, c)
      PROVE  Sound(d, NoQuery, seen, storage)
  BY <1>3, <1>4, <1>5, <1>7, OrderIsJudged
<1>8. CASE query.slice.kind = "number"
  <2>1. CASE Negligible(o, query.slice.log) \/ Unprofitable(o, c.price)
    <3>1. Judged(seen, storage, o)
      BY <1>3, <1>4, <1>5, <1>8, <2>1, Harmless
    <3>2. d = NextOrderBy(c, c)
      BY <1>1, <1>2, <1>5, <1>8, <2>1, OrderOf, NextOrderIs DEF ValuePrice, Judge
    <3>3. QED
      BY <1>7, <3>1, <3>2
  <2>2. CASE ~(Negligible(o, query.slice.log) \/ Unprofitable(o, c.price))
    <3>1. d = EndOf(c, "refused")
      BY <1>1, <1>2, <1>5, <1>8, <2>2, OrderOf DEF ValuePrice, Judge, Ending, EndOf
    <3>2. \A s : seen = {s} => ~CorrectBy(storage, s)
      BY <1>3, <1>4, <1>5, <1>8, <2>2, Harmful
    <3>3. QED
      BY <1>3, <1>4, <3>1, <3>2, EndsEarly
  <2>3. QED
    BY <2>1, <2>2
<1>9. CASE query.slice.kind # "number"
  <2>1. \/ check' = NextOrder(Unpriced)
        \/ check' = IF Unprofitable(Order, check.price)
                    THEN NextOrder(check) ELSE [Unpriced EXCEPT !.pc = "refused", !.left = {}]
        \/ check' = Ending("broken")
    BY <1>9 DEF ValuePrice
  <2>2. CASE check' = NextOrder(Unpriced)
    <3>1. PICK e : e = Noted(c)
      OBVIOUS
    <3>2. d = NextOrderBy(c, e)
      BY <1>1, <1>2, <2>2, <3>1, NextOrderIs, OrderOf DEF Unpriced, Noted
    <3>3. QED
      BY <1>3, <1>4, <3>1, <3>2, OrderIsJudged, OrderAtHand
  <2>3. CASE check' = IF Unprofitable(Order, check.price)
                      THEN NextOrder(check) ELSE [Unpriced EXCEPT !.pc = "refused", !.left = {}]
    <3>1. CASE Unprofitable(o, c.price)
      <4>1. Judged(seen, storage, o)
        BY <1>3, <1>4, <1>5, <3>1, Harmless
      <4>2. d = NextOrderBy(c, c)
        BY <1>1, <1>2, <1>5, <2>3, <3>1, OrderOf, NextOrderIs
      <4>3. QED
        BY <1>7, <4>1, <4>2
    <3>2. CASE ~Unprofitable(o, c.price)
      <4>1. d = EndOf(Noted(c), "refused")
        BY <1>1, <1>2, <1>5, <2>3, <3>2, OrderOf DEF Unpriced, Noted, EndOf
      <4>2. OrderIn(c) \in Orders
        BY <1>3, <1>4, OrderAtHand
      <4>3. QED
        BY <1>3, <1>4, <4>1, <4>2, EndsEarly
    <3>3. QED
      BY <3>1, <3>2
  <2>4. CASE check' = Ending("broken")
    <3>1. d = EndOf(c, "broken")
      BY <1>1, <1>2, <2>4 DEF Ending, EndOf
    <3>2. QED
      BY <1>3, <1>4, <3>1, EndsEarly
  <2>5. QED
    BY <2>1, <2>2, <2>3, <2>4
<1>10. QED
  BY <1>8, <1>9

LEMMA CheckPriceStep ==
    ASSUME IInv, CheckPrice
    PROVE  IInv'
<1>1. PICK c : c = check
  OBVIOUS
<1>2. PICK d : d = check'
  OBVIOUS
<1>3. /\ c.pc = "price" /\ c.pc # "idle" /\ query.pc = "answered"
      /\ query' = NoQuery /\ Unchanged /\ UNCHANGED storage
  BY <1>1 DEF CheckPrice, PriceKnown
<1>4. Sound(c, query, seen, storage) /\ query.slice \in Slices
  BY <1>1, <1>3, MomentNow DEF Queries
<1>5. PICK e : e = OncePriced(c, query.slice)
  OBVIOUS
<1>6. \/ IsPriceReasonable(query.slice, c.setting.price) /\ d = e
      \/ d = [e EXCEPT !.confirmed = TRUE]
      \/ d = EndOf(c, "refused")
  BY <1>1, <1>2, <1>5 DEF CheckPrice, ProceedIf, Ending, EndOf, OncePriced
<1>7. Sound(d, NoQuery, seen, storage)
  <2>1. CASE d = EndOf(c, "refused")
    <3>1. c.kind # "verify"
      BY <1>3, <1>4, KindByStage DEF Sound
    <3>2. QED
      BY <1>3, <1>4, <2>1, <3>1, EndsEarly
  <2>2. CASE \/ IsPriceReasonable(query.slice, c.setting.price) /\ d = e
             \/ d = [e EXCEPT !.confirmed = TRUE]
    BY <1>3, <1>4, <1>5, <2>2, PriceIsChecked
  <2>3. QED
    BY <1>6, <2>1, <2>2
<1>8. QED
  BY <1>1, <1>2, <1>3, <1>7, AnswerCarries

LEMMA CheckBoundsStep ==
    ASSUME IInv, CheckBounds
    PROVE  IInv'
<1>1. PICK c : c = check
  OBVIOUS
<1>2. PICK d : d = check'
  OBVIOUS
<1>3. c.pc = "bounds" /\ c.pc # "idle" /\ Local
  BY <1>1 DEF CheckBounds
<1>4. PICK S \in SUBSET Moments : S = seen
  BY <1>1, <1>3, MomentNow
<1>5. Sound(c, query, S, storage)
  BY <1>1, <1>3, <1>4, MomentNow
<1>6. \/ AreBoundsReasonable(c.setting) /\ d = EndOf(c, "passed")
      \/ d = [EndOf(c, "passed") EXCEPT !.confirmed = TRUE]
      \/ d = EndOf(c, "refused")
  BY <1>1, <1>2 DEF CheckBounds, ProceedIf, Ending, EndOf
<1>7. Sound(d, query, S, storage)
  <2>1. CASE d = EndOf(c, "refused")
    <3>1. c.kind # "verify"
      BY <1>3, <1>5, KindByStage DEF Sound
    <3>2. QED
      BY <1>3, <1>5, <2>1, <3>1, EndsEarly
  <2>2. CASE \/ AreBoundsReasonable(c.setting) /\ d = EndOf(c, "passed")
             \/ d = [EndOf(c, "passed") EXCEPT !.confirmed = TRUE]
    BY <1>3, <1>5, <2>2, BoundsAreChecked
  <2>3. QED
    BY <1>6, <2>1, <2>2
<1>8. QED
  BY <1>1, <1>2, <1>3, <1>4, <1>7, LocalCarries

(* An error ends a check.                                                  *)
LEMMA BreakStep ==
    ASSUME IInv, check.pc # "idle", check' = Ending("broken"), Local
    PROVE  IInv'
<1>1. PICK c : c = check
  OBVIOUS
<1>2. PICK d : d = check'
  OBVIOUS
<1>3. d = EndOf(c, "broken")
  BY <1>1, <1>2 DEF Ending, EndOf
<1>4. Sound(c, query, seen, storage)
  BY <1>1, MomentNow
<1>5. Sound(d, query, seen, storage)
  BY <1>1, <1>3, <1>4, EndsEarly
<1>6. QED
  BY <1>2, <1>5, LocalCarries

LEMMA PriceThrowsStep ==
    ASSUME IInv, PriceThrows
    PROVE  IInv'
<1>1. check.pc # "idle"
  <2>1. CASE check.pc = "idle"
    <3>1. query.pc = "none"
      BY <2>1 DEF IInv, Sound, QueryFits
    <3>2. QED
      BY <3>1 DEF PriceThrows
  <2>2. QED
    BY <2>1
<1>2. QED
  BY <1>1, BreakStep DEF PriceThrows

LEMMA NodeFailsStep ==
    ASSUME IInv, NodeFails
    PROVE  IInv'
BY BreakStep DEF NodeFails, Reading

(* What a reply of the server does to the query and the stored prices.     *)
LEMMA ReplyIs ==
    ASSUME query \in Queries, market \in [Tokens -> Int], Reply
    PROVE  /\ query.pc = "asking"
           /\ \/ \E slice \in Slices :
                    /\ query' = Answered(query, slice) /\ storage' = StoredBy(storage, slice)
                    /\ slice.kind = "number" =>
                          slice.log = MarketPrice(market, query.base, query.quote)
              \/ /\ UNCHANGED storage /\ query' \in Queries
                 /\ query'.pc \in {"asking", "threw", "hanging"}
                 /\ query'.base = query.base /\ query'.quote = query.quote
                 /\ query'.pc = "asking" => query.pc = "asking"
<1> DEFINE Got ==
             \E slice \in Slices :
                /\ query' = Answered(query, slice) /\ storage' = StoredBy(storage, slice)
                /\ slice.kind = "number" =>
                      slice.log = MarketPrice(market, query.base, query.quote)
<1>1. query.pc = "asking"
  BY DEF Reply, ServerQuotes, AnswersNoQuote, ServerRefuses, ConnectionFails, ServerHangs
<1>2. ASSUME NEW slice \in Slices, GotPrice(slice),
             slice.kind = "number" => slice.log = MarketPrice(market, query.base, query.quote)
      PROVE  Got
  BY <1>2, Zenon DEF GotPrice, Store, StoredBy
<1>3. ASSUME Retry, ~LastTry
      PROVE  /\ UNCHANGED storage /\ query' \in Queries /\ query'.pc = "asking"
             /\ query'.base = query.base /\ query'.quote = query.quote
  <2>1. query.tries + 1 \in 0..(Tries - 1)
    BY <1>3 DEF LastTry, Queries, Tries
  <2>2. PICK n : n = query.tries + 1
    OBVIOUS
  <2>3. query' = [query EXCEPT !.tries = n] /\ n \in 0..(Tries - 1)
    BY <1>3, <2>1, <2>2 DEF Retry
  <2>4. QED
    BY <1>1, <1>3, <2>3 DEF Queries, Retry
<1>4. CASE ServerQuotes
  <2>1. PICK slice : slice = Number(MarketPrice(market, query.base, query.quote))
    OBVIOUS
  <2>2. /\ slice \in Slices
        /\ slice.log = MarketPrice(market, query.base, query.quote)
    BY <2>1 DEF Number, Slices, MarketPrice, Queries
  <2>3. Got
    BY <1>2, <1>4, <2>1, <2>2 DEF ServerQuotes
  <2>4. QED
    BY <1>1, <2>3
<1>5. CASE AnswersNoQuote
  <2>1. NaN \in Slices /\ NaN.kind # "number"
    BY DEF NaN, Slices
  <2>2. Got
    BY <1>2, <1>5, <2>1 DEF AnswersNoQuote
  <2>3. QED
    BY <1>1, <2>2
<1>6. CASE ServerRefuses
  <2>1. Undefined \in Slices /\ Undefined.kind # "number"
    BY DEF Undefined, Slices
  <2>2. CASE LastTry
    <3>1. Got
      BY <1>2, <1>6, <2>1, <2>2 DEF ServerRefuses
    <3>2. QED
      BY <1>1, <3>1
  <2>3. CASE ~LastTry
    BY <1>1, <1>3, <1>6, <2>3 DEF ServerRefuses
  <2>4. QED
    BY <2>2, <2>3
<1>7. CASE ConnectionFails
  <2>1. CASE LastTry
    <3>1. query' = [query EXCEPT !.pc = "threw"] /\ UNCHANGED storage
      BY <1>7, <2>1 DEF ConnectionFails
    <3>2. QED
      BY <1>1, <3>1 DEF Queries
  <2>2. CASE ~LastTry
    BY <1>1, <1>3, <1>7, <2>2 DEF ConnectionFails
  <2>3. QED
    BY <2>1, <2>2
<1>8. CASE ServerHangs
  <2>1. query' = [query EXCEPT !.pc = "hanging"] /\ UNCHANGED storage
    BY <1>8 DEF ServerHangs
  <2>2. QED
    BY <1>1, <2>1 DEF Queries
<1>9. QED
  BY <1>4, <1>5, <1>6, <1>7, <1>8 DEF Reply

LEMMA PriceReplyStep ==
    ASSUME IInv, PriceReply
    PROVE  IInv'
<1>1. query \in Queries /\ market \in [Tokens -> Int]
  BY DEF IInv, SeenOK, OracleTypeOK, Queries
<1>2. query.pc = "asking"
  BY <1>1, ReplyIs DEF PriceReply
<1>3. check.pc # "idle"
  BY <1>2 DEF IInv, Sound, QueryFits
<1>4. /\ Now \in seen /\ Sound(check, query, seen, storage) /\ Now.market = market
      /\ \A key \in DOMAIN storage : storage[key] \in Slices
  BY <1>3, MomentNow DEF Now
<1>5. UNCHANGED <<check, chain, seen, changes, market>>
  BY DEF PriceReply
<1>6. SUFFICES OracleTypeOK' /\ Sound(check, query', seen, storage')
  <2>1. SeenOK'
    BY <1>5, <1>6 DEF IInv, SeenOK, Now
  <2>2. Sound(check', query', seen', storage')
    BY <1>5, <1>6
  <2>3. QED
    BY <2>1, <2>2 DEF IInv
<1>7. PICK q2 : q2 = query'
  OBVIOUS
<1>8. CASE \E slice \in Slices :
              /\ query' = Answered(query, slice) /\ storage' = StoredBy(storage, slice)
              /\ slice.kind = "number" =>
                    slice.log = MarketPrice(market, query.base, query.quote)
  <2>1. PICK slice \in Slices :
              /\ query' = Answered(query, slice) /\ storage' = StoredBy(storage, slice)
              /\ slice.kind = "number" =>
                    slice.log = MarketPrice(market, query.base, query.quote)
    BY <1>8
  <2>2. PICK st2 : st2 = StoredBy(storage, slice)
    OBVIOUS
  <2>3. Sound(check, q2, seen, st2) /\ q2 \in Queries
    BY <1>1, <1>2, <1>4, <1>7, <2>1, <2>2, AnswerArrives
  <2>4. DOMAIN st2 \subseteq (Tokens \X Tokens) \cup {ObjectKey}
        /\ \A key \in DOMAIN st2 : st2[key] \in Slices
    BY <1>4, <2>2 DEF StoredBy, IInv, SeenOK, OracleTypeOK
  <2>5. storage' = st2 /\ query' = q2
    BY <1>7, <2>1, <2>2
  <2>6. OracleTypeOK'
    BY <1>1, <1>5, <2>3, <2>4, <2>5 DEF OracleTypeOK, Queries
  <2>7. QED
    BY <2>3, <2>5, <2>6
<1>9. CASE /\ UNCHANGED storage /\ query' \in Queries
           /\ query'.pc \in {"asking", "threw", "hanging"}
           /\ query'.base = query.base /\ query'.quote = query.quote
  <2>1. q2.base = query.base /\ q2.quote = query.quote /\ q2.pc \in {"asking", "threw", "hanging"}
    BY <1>7, <1>9
  <2>2. AnswerSeen(q2, seen, storage)
    BY <1>2, <1>4, <2>1 DEF Sound, AnswerSeen
  <2>3. Sound(check, q2, seen, storage)
    BY <1>2, <1>4, <2>1, <2>2, QueryStays
  <2>4. OracleTypeOK'
    BY <1>1, <1>5, <1>9 DEF OracleTypeOK, Queries, IInv, SeenOK
  <2>5. QED
    BY <1>7, <1>9, <2>3, <2>4
<1>10. QED
  BY <1>1, <1>8, <1>9, ReplyIs DEF PriceReply

(* A check starts.                                                         *)
LEMMA StartVerifyStep ==
    ASSUME IInv, NEW preset \in Presets, StartVerify(preset)
    PROVE  IInv'
<1>1. PICK d : d = check'
  OBVIOUS
<1>2. check = NoCheck /\ query.pc = "none"
  BY DEF StartVerify, IInv, Sound, CheckTypes, QueryFits
<1>3. NoCheck \in CheckRecords
  BY <1>2 DEF IInv, Sound, CheckTypes
<1>4. d = [NoCheck EXCEPT !.kind = "verify", !.pc = "orders", !.left = Brackets]
  BY <1>1, <1>2 DEF StartVerify
<1>5. d \in CheckRecords
  <2>1. Brackets \subseteq Items /\ "orders" \in VerifyStages
    BY DEF Items, VerifyStages, Reading
  <2>2. [NoCheck EXCEPT !.kind = "verify", !.pc = "orders", !.left = Brackets] \in CheckRecords
    BY <1>3, <2>1 DEF CheckRecords
  <2>3. QED
    BY <1>4, <2>2
<1>6. d.kind = "verify" /\ d.pc = "orders" /\ d.left = Brackets /\ d.next = 1 /\ ~d.usd
  BY <1>4 DEF NoCheck
<1>7. CheckTypes(d)
  <2>1. Brackets # {}
    BY BracketsListed
  <2>2. QED
    BY <1>5, <1>6, <2>1 DEF CheckTypes, VerifyStages, Reading
<1>8. Verified(d, {Now}, preset) /\ Justified(d, {Now}, preset)
  BY <1>6 DEF Verified, OrdersRead, TraitsRead, ListsRight, OrdersJudged, AllowancesRead,
              Justified, AfterShape, AfterLists, AfterProfit
<1>9. QueryFits(d, query) /\ AnswerSeen(query, {Now}, preset)
  BY <1>2, <1>6 DEF QueryFits, AnswerSeen
<1>10. Sound(d, query, {Now}, preset)
  BY <1>6, <1>7, <1>8, <1>9 DEF Sound
<1>11. /\ check' = d /\ query' = query /\ seen' = {Now} /\ storage' = preset
       /\ UNCHANGED <<chain, changes, market>>
  BY <1>1 DEF StartVerify
<1>12. Now' = Now
  BY <1>11 DEF Now
<1>13. SeenOK'
  <2>1. Now \in Moments /\ changes \in 0..MaxChanges
    BY DEF IInv, SeenOK
  <2>2. OracleTypeOK'
    <3>1. DOMAIN preset \subseteq Tokens \X Tokens /\ \A key \in DOMAIN preset : preset[key] \in Slices
      BY PresetAssumption
    <3>2. QED
      BY <1>11, <3>1 DEF OracleTypeOK, IInv, SeenOK
  <2>3. QED
    BY <1>11, <1>12, <2>1, <2>2 DEF SeenOK
<1>14. QED
  BY <1>10, <1>11, <1>13 DEF IInv

LEMMA StartProvisionStep ==
    ASSUME IInv, NEW setting \in Settings, StartProvision(setting)
    PROVE  IInv'
<1>1. PICK d : d = check'
  OBVIOUS
<1>2. check = NoCheck
  BY DEF StartProvision, IInv, Sound, CheckTypes
<1>3. NoCheck \in CheckRecords
  BY <1>2 DEF IInv, Sound, CheckTypes
<1>4. d = [NoCheck EXCEPT !.kind = "provision", !.pc = "price", !.setting = setting]
  BY <1>1, <1>2 DEF StartProvision
<1>5. d \in CheckRecords
  <2>1. [NoCheck EXCEPT !.kind = "provision", !.pc = "price", !.setting = setting] \in CheckRecords
    BY <1>3 DEF CheckRecords, ProvisionStages
  <2>2. QED
    BY <1>4, <2>1
<1>6. d.kind = "provision" /\ d.pc = "price" /\ d.setting = setting
  BY <1>4 DEF NoCheck
<1>7. CheckTypes(d)
  BY <1>5, <1>6 DEF CheckTypes, ProvisionStages, Reading
<1>8. PICK q : q = Asking(Base, Quote)
  OBVIOUS
<1>9. q \in Queries /\ q.base = Base /\ q.quote = Quote /\ q.pc = "asking"
  BY <1>8, SetupAssumption, AskingIs
<1>10. PICK st : st = NothingStored
  OBVIOUS
<1>11. DOMAIN st = {}
  BY <1>10 DEF NothingStored
<1>12. QueryFits(d, q) /\ AnswerSeen(q, {Now}, st) /\ NothingOf(st)
  BY <1>6, <1>9, <1>11 DEF QueryFits, AnswerSeen, NothingOf
<1>13. PriceIsNear(d, {Now}) /\ LimitsNear(d, {Now})
  BY <1>6 DEF PriceIsNear, LimitsNear
<1>14. Sound(d, q, {Now}, st)
  BY <1>6, <1>7, <1>12, <1>13 DEF Sound
<1>15. /\ check' = d /\ query' = q /\ seen' = {Now} /\ storage' = st
       /\ UNCHANGED <<chain, changes, market>>
  BY <1>1, <1>8, <1>10 DEF StartProvision
<1>16. Now' = Now
  BY <1>15 DEF Now
<1>17. SeenOK'
  <2>1. Now \in Moments /\ changes \in 0..MaxChanges
    BY DEF IInv, SeenOK
  <2>2. OracleTypeOK'
    BY <1>9, <1>11, <1>15 DEF OracleTypeOK, Queries, IInv, SeenOK
  <2>3. QED
    BY <1>15, <1>16, <2>1, <2>2 DEF SeenOK
<1>18. QED
  BY <1>14, <1>15, <1>17 DEF IInv

(* The chain or the market changes while a check goes on.                  *)
LEMMA ChangeCarries ==
    ASSUME IInv, Changing, [chain |-> chain', market |-> market'] \in Moments
    PROVE  IInv'
<1>1. PICK now : now = [chain |-> chain', market |-> market']
  OBVIOUS
<1>2. PICK S : S = seen \cup {now}
  OBVIOUS
<1>3. /\ check.pc # "idle" /\ check.pc # "refused" /\ seen' = S /\ changes' = changes + 1
      /\ changes < MaxChanges /\ UNCHANGED <<check, storage, query>>
  BY <1>1, <1>2 DEF Changing, Ended
<1>4. Sound(check, query, seen, storage)
  BY <1>3, MomentNow
<1>5. SameLookups(storage, storage)
  BY DEF SameLookups
<1>6. PICK c : c = check
  OBVIOUS
<1>7. Sound(c, query, S, storage)
  BY <1>2, <1>3, <1>4, <1>5, <1>6, SoundGrows
<1>8. Sound(check', query', seen', storage')
  BY <1>3, <1>6, <1>7
<1>9. SeenOK'
  <2>1. now \in Moments /\ now.market = market' /\ market' \in [Tokens -> Int]
    BY <1>1 DEF Moments
  <2>2. changes' \in 0..MaxChanges
    BY <1>3, SetupAssumption DEF IInv, SeenOK
  <2>3. seen' \subseteq Moments /\ Now' \in seen'
    BY <1>1, <1>2, <1>3, <2>1 DEF IInv, SeenOK, Now
  <2>4. OracleTypeOK'
    BY <1>3, <2>1 DEF IInv, SeenOK, OracleTypeOK
  <2>5. QED
    BY <2>2, <2>3, <2>4 DEF SeenOK
<1>10. QED
  BY <1>8, <1>9 DEF IInv

LEMMA ChangingStep ==
    ASSUME IInv,
           \/ \E b \in Brackets, list \in OrderLists : Reorder(b, list)
           \/ \E trait \in Traits : Alter(trait)
           \/ \E allowance \in Allowances : Approve(allowance) \/ Revoke(allowance)
           \/ \E t \in Tokens \ {USDC}, step \in Steps : MarketMoves(t, step)
    PROVE  IInv'
<1>1. /\ chain \in ChainStates /\ chain.allowed \subseteq chain.approved
      /\ market \in [Tokens -> Int]
  BY DEF IInv, SeenOK, Now, Moments
<1>2. ASSUME chain' \in ChainStates, chain'.allowed \subseteq chain'.approved,
             market' \in [Tokens -> Int], Changing
      PROVE  IInv'
  <2>1. [chain |-> chain', market |-> market'] \in Moments
    BY <1>2 DEF Moments
  <2>2. QED
    BY <1>2, <2>1, ChangeCarries
<1>3. ASSUME NEW b \in Brackets, NEW list \in OrderLists, Reorder(b, list)
      PROVE  IInv'
  <2>1. chain' = [chain EXCEPT !.orders = [@ EXCEPT ![b] = list]] /\ market' = market /\ Changing
    BY <1>3 DEF Reorder
  <2>2. [chain.orders EXCEPT ![b] = list] \in [Brackets -> OrderLists]
    BY <1>1 DEF ChainStates
  <2>3. chain' \in ChainStates /\ chain'.allowed \subseteq chain'.approved
    BY <1>1, <2>1, <2>2 DEF ChainStates
  <2>4. QED
    BY <1>1, <1>2, <2>1, <2>3
<1>4. ASSUME NEW trait \in Traits, Alter(trait)
      PROVE  IInv'
  <2>1. PICK wrong : wrong = SymDiff(chain.wrong, {trait})
    OBVIOUS
  <2>2. wrong \in SUBSET Traits
    BY <1>1, <2>1 DEF SymDiff, ChainStates
  <2>3. chain' = [chain EXCEPT !.wrong = wrong] /\ market' = market /\ Changing
    BY <1>4, <2>1 DEF Alter
  <2>4. chain' \in ChainStates /\ chain'.allowed \subseteq chain'.approved
    BY <1>1, <2>2, <2>3 DEF ChainStates
  <2>5. QED
    BY <1>1, <1>2, <2>3, <2>4
<1>5. ASSUME NEW allowance \in Allowances, Approve(allowance)
      PROVE  IInv'
  <2>1. chain' = [chain EXCEPT !.approved = chain.approved \cup {allowance},
                               !.allowed = chain.allowed \cup {allowance}]
        /\ market' = market /\ Changing
    BY <1>5 DEF Approve
  <2>2. chain' \in ChainStates /\ chain'.allowed \subseteq chain'.approved
    BY <1>1, <2>1 DEF ChainStates
  <2>3. QED
    BY <1>1, <1>2, <2>1, <2>2
<1>6. ASSUME NEW allowance \in Allowances, Revoke(allowance)
      PROVE  IInv'
  <2>1. chain' = [chain EXCEPT !.allowed = chain.allowed \ {allowance}]
        /\ market' = market /\ Changing
    BY <1>6 DEF Revoke
  <2>2. chain' \in ChainStates /\ chain'.allowed \subseteq chain'.approved
    BY <1>1, <2>1 DEF ChainStates
  <2>3. QED
    BY <1>1, <1>2, <2>1, <2>2
<1>7. ASSUME NEW t \in Tokens \ {USDC}, NEW step \in Steps, MarketMoves(t, step)
      PROVE  IInv'
  <2>1. market' \in [Tokens -> Int]
    BY <1>1, <1>7, SetupAssumption DEF MarketMoves
  <2>2. chain' = chain /\ Changing
    BY <1>7 DEF MarketMoves
  <2>3. QED
    BY <1>1, <1>2, <2>1, <2>2
<1>8. QED
  BY <1>3, <1>4, <1>5, <1>6, <1>7

LEMMA NextKeepsIInv ==
    ASSUME IInv, [Next]_vars
    PROVE  IInv'
<1>1. CASE UNCHANGED vars
  <2>1. Now' = Now
    BY <1>1 DEF vars, Now
  <2>2. SeenOK'
    BY <1>1, <2>1 DEF vars, IInv, SeenOK, OracleTypeOK
  <2>3. Sound(check', query', seen', storage')
    BY <1>1 DEF vars, IInv
  <2>4. QED
    BY <2>2, <2>3 DEF IInv
<1>2. CASE CheckStep
  <2>1. CASE \E b \in Brackets : ReadOrders(b)
    BY <2>1, ReadOrdersStep
  <2>2. CASE AskPrice
    BY <2>2, AskPriceStep
  <2>3. CASE UpfrontPrice
    BY <2>3, UpfrontPriceStep
  <2>4. CASE CheckLists
    BY <2>4, CheckListsStep
  <2>5. CASE PairPrice
    BY <2>5, PairPriceStep
  <2>6. CASE ValuePrice
    BY <2>6, ValuePriceStep
  <2>7. CASE \E item \in check.left : ReadTrait(item) \/ ReadEvents(item) \/ ReadAllowance(item)
    BY <2>7, ReadTraitStep, ReadEventsStep, ReadAllowanceStep
  <2>8. CASE CheckPrice
    BY <2>8, CheckPriceStep
  <2>9. CASE CheckBounds
    BY <2>9, CheckBoundsStep
  <2>10. CASE PriceReply
    BY <2>10, PriceReplyStep
  <2>11. CASE PriceThrows
    BY <2>11, PriceThrowsStep
  <2>12. QED
    BY <1>2, <2>1, <2>2, <2>3, <2>4, <2>5, <2>6, <2>7, <2>8, <2>9, <2>10, <2>11 DEF CheckStep
<1>3. CASE \E preset \in Presets : StartVerify(preset)
  BY <1>3, StartVerifyStep
<1>4. CASE \E setting \in Settings : StartProvision(setting)
  BY <1>4, StartProvisionStep
<1>5. CASE NodeFails
  BY <1>5, NodeFailsStep
<1>6. CASE \/ \E b \in Brackets, list \in OrderLists : Reorder(b, list)
           \/ \E trait \in Traits : Alter(trait)
           \/ \E allowance \in Allowances : Approve(allowance) \/ Revoke(allowance)
           \/ \E t \in Tokens \ {USDC}, step \in Steps : MarketMoves(t, step)
  BY <1>6, ChangingStep
<1>7. QED
  BY <1>1, <1>2, <1>3, <1>4, <1>5, <1>6 DEF Next

LEMMA InitIInv ==
    ASSUME Init
    PROVE  IInv
<1>1. PICK c : c = check
  OBVIOUS
<1>2. c = NoCheck /\ c.pc = "idle" /\ c.kind = "none"
  BY <1>1 DEF Init, NoCheck
<1>3. c \in CheckRecords
  <2>1. NothingRead \in [Brackets -> OrderLists \cup {<<>>}]
    BY DEF NothingRead
  <2>2. QED
    BY <1>2, <2>1 DEF NoCheck, CheckRecords
<1>4. CheckTypes(c)
  BY <1>2, <1>3 DEF CheckTypes, Reading
<1>5. query = NoQuery /\ query.pc = "none" /\ query \in Queries
  BY NoQueryIs DEF Init, OracleInit
<1>6. QueryFits(c, query) /\ AnswerSeen(query, seen, storage)
  BY <1>2, <1>5 DEF QueryFits, AnswerSeen
<1>7. Sound(c, query, seen, storage)
  BY <1>2, <1>4, <1>6 DEF Sound
<1>8. chain \in ChainStates /\ chain.allowed \subseteq chain.approved
  BY ChainAssumption DEF Init
<1>9. market \in [Tokens -> Int]
  BY OracleAssumption DEF Init, OracleInit
<1>10. Now \in Moments
  BY <1>8, <1>9 DEF Now, Moments
<1>11. OracleTypeOK
  BY <1>5, <1>9 DEF OracleTypeOK, Queries, Init, OracleInit, NothingStored
<1>12. changes \in 0..MaxChanges /\ seen = {}
  BY SetupAssumption DEF Init
<1>13. SeenOK
  BY <1>1, <1>2, <1>10, <1>11, <1>12 DEF SeenOK
<1>14. QED
  BY <1>1, <1>7, <1>13 DEF IInv

(* Whatever a check has read was so at some moment since it started.       *)
THEOREM Invariance == Spec => []IInv
<1>1. Init => IInv
  BY InitIInv
<1>2. IInv /\ [Next]_vars => IInv'
  BY NextKeepsIInv
<1>3. QED
  BY <1>1, <1>2, PTL DEF Spec
-----------------------------------------------------------------------------
(***************************************************************************)
(* What follows from the invariant.                                        *)
(***************************************************************************)
LEMMA SamePrice ==
    /\ \A s, t, u : PriceAt(s, t, u) = PriceBy(storage, s, t, u)
    /\ \A s, order : Attractive(s, order) <=> AttractiveBy(storage, s, order)
BY DEF PriceAt, PriceBy, Attractive, AttractiveBy

LEMMA TypesHold ==
    ASSUME IInv
    PROVE  TypeOK
<1>1. CheckTypes(check) /\ check \in CheckRecords
  BY DEF IInv, Sound, CheckTypes
<1>2. check.pc \in {"idle", "price", "bounds", "prices", "lists", "profit"} \cup Reading \/ Ended
  BY <1>1 DEF CheckRecords, VerifyStages, ProvisionStages, Ended
<1>3. check.pc \in {"prices", "profit"} => check.next \in DOMAIN Relevant
  BY <1>1 DEF CheckTypes, Relevant, RelevantIn
<1>4. \A b \in Brackets : check.orders[b] \in OrderLists \cup {<<>>}
  BY <1>1 DEF CheckRecords
<1>5. chain \in ChainStates /\ changes \in 0..MaxChanges /\ OracleTypeOK
  BY DEF IInv, SeenOK, Now, Moments
<1>6. QED
  BY <1>1, <1>2, <1>3, <1>4, <1>5 DEF TypeOK, CheckTypes

LEMMA PassesHold ==
    ASSUME IInv
    PROVE  PassIsSound
<1>1. SUFFICES ASSUME check.kind = "verify", check.pc = "passed"
               PROVE  /\ \A trait \in Traits : \E s \in seen : trait \notin s.chain.wrong
                      /\ \A b \in Brackets : \E s \in seen :
                            LET list == s.chain.orders[b]
                            IN  /\ BackAndForth(list) /\ Gains(list)
                                /\ \A k \in {1, 2} :
                                      list[k] \in check.unpriced \/ \E m \in seen : ~Attractive(m, list[k])
                                /\ \A account \in ToSet(Accounts), t \in TokensOf(list), p \in Spenders :
                                      \E m \in seen : <<account, t, p>> \notin Unlawful(m, account, {t})
  BY DEF PassIsSound
<1>2. PICK c : c = check
  OBVIOUS
<1>3. c \in CheckRecords /\ c.pc = "passed" /\ Verified(c, seen, storage)
  BY <1>1, <1>2 DEF IInv, Sound, CheckTypes
<1>4. \A trait \in Traits : TraitSeen(seen, trait)
  BY <1>3 DEF Verified, TraitsRead, AfterShape, AfterLists, AfterProfit
<1>5. \A b \in Brackets : OrdersSeen(seen, b, c.orders[b])
  BY <1>3 DEF Verified, OrdersRead, AfterOrders, AfterShape, AfterLists, AfterProfit
<1>6. \A b \in Brackets : BackAndForth(c.orders[b]) /\ Gains(c.orders[b])
  BY <1>3 DEF Verified, ListsRight, AfterLists, AfterProfit
<1>7. \A j \in DOMAIN RelevantIn(c) : Cleared(c.unpriced, seen, storage, RelevantIn(c)[j])
  BY <1>3 DEF Verified, OrdersJudged, AfterProfit
<1>8. \A account \in ToSet(Accounts), t \in TradedIn(c), p \in Spenders :
         Absent(seen, account, t, p)
  BY <1>3 DEF Verified, AllowancesRead
<1>9. ASSUME NEW b \in Brackets
      PROVE  \E s \in seen :
                LET list == s.chain.orders[b]
                IN  /\ BackAndForth(list) /\ Gains(list)
                    /\ \A k \in {1, 2} :
                          list[k] \in check.unpriced \/ \E m \in seen : ~Attractive(m, list[k])
                    /\ \A account \in ToSet(Accounts), t \in TokensOf(list), p \in Spenders :
                          \E m \in seen : <<account, t, p>> \notin Unlawful(m, account, {t})
  <2>1. PICK list : list = c.orders[b]
    OBVIOUS
  <2>2. PICK s \in seen : s.chain.orders[b] = list
    BY <1>5, <2>1 DEF OrdersSeen
  <2>3. BackAndForth(list) /\ Gains(list)
    BY <1>6, <2>1
  <2>4. list \in Seq(Orders) /\ DOMAIN list = {1, 2}
    <3>1. list \in OrderLists \cup {<<>>}
      BY <1>3, <2>1 DEF CheckRecords
    <3>2. list \in Seq(Orders)
      BY <3>1, ListsAreSequences
    <3>3. Len(list) = 2
      BY <2>3 DEF BackAndForth
    <3>4. QED
      BY <3>2, <3>3
  <2>5. ASSUME NEW k \in {1, 2}
        PROVE  list[k] \in c.unpriced \/ \E m \in seen : ~Attractive(m, list[k])
    <3>1. PICK j \in DOMAIN RelevantIn(c) : RelevantIn(c)[j] = list[k]
      BY <1>3, <2>1, <2>4, RelevantOrders DEF RelevantRight
    <3>2. Cleared(c.unpriced, seen, storage, list[k])
      BY <1>7, <3>1
    <3>3. QED
      BY <3>2, SamePrice DEF Cleared, Judged
  <2>6. ASSUME NEW account \in ToSet(Accounts), NEW t \in TokensOf(list), NEW p \in Spenders
        PROVE  \E m \in seen : <<account, t, p>> \notin Unlawful(m, account, {t})
    <3>1. t \in TradedIn(c)
      BY <1>3, <2>1, TradedAreTokens
    <3>2. QED
      BY <1>8, <3>1 DEF Absent
  <2>7. QED
    BY <1>2, <2>2, <2>3, <2>5, <2>6
<1>10. QED
  BY <1>4, <1>9 DEF TraitSeen

LEMMA AlarmsHold ==
    ASSUME IInv
    PROVE  NoFalseAlarm
<1>1. SUFFICES ASSUME NEW s \in seen, check.kind = "verify", check.pc = "refused",
                      seen = {s}, Correct(s)
               PROVE  check.usd /\ Order \in check.unpriced
  BY DEF NoFalseAlarm
<1>2. Justified(check, seen, storage)
  BY <1>1 DEF IInv, Sound
<1>3. CorrectBy(storage, s)
  BY <1>1, SamePrice DEF Correct, CorrectBy
<1>4. WasUnpriced(check)
  BY <1>1, <1>2, <1>3 DEF Justified
<1>5. QED
  BY <1>4, OrderOf DEF WasUnpriced

LEMMA LimitsHold ==
    ASSUME IInv
    PROVE  LimitsAreNearMarket
BY DEF IInv, Sound, LimitsNear, LimitsAreNearMarket

(* Every state of a check, of what it has read and of its queries has the  *)
(* shape the scripts rely on: there is something left to read while it is  *)
(* read, and an order at hand while prices are asked for.                  *)
THEOREM ChecksAreTyped == Spec => []TypeOK
BY Invariance, TypesHold, PTL

(* A setup that verify_correctness.js accepts had, at some moment of the   *)
(* check each, every property it is accepted for.  Only the orders whose   *)
(* own price the server did not give go unjudged.                          *)
THEOREM AcceptedSetupsAreSound == Spec => []PassIsSound
BY Invariance, PassesHold, PTL

(* A correct setup that stays as it is is not refused, but for an order    *)
(* whose own price in dollars the server did not give.                     *)
THEOREM CorrectSetupsAreAccepted == Spec => []NoFalseAlarm
BY Invariance, AlarmsHold, PTL

(* A strategy that is deployed without asking the user has its limits on   *)
(* either side of the price the user named and near it, and near the       *)
(* market's price if the server gave one.                                  *)
THEOREM UnaskedLimitsAreNear == Spec => []LimitsAreNearMarket
BY Invariance, LimitsHold, PTL
=============================================================================
