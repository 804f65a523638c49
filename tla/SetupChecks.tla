------------------------------ MODULE SetupChecks ------------------------------
(***************************************************************************)
(* The checks that guard a strategy.  Before it is deployed, a script      *)
(* compares the price the user names with a server's and with the bounds,  *)
(* and asks the user if they disagree (kind "provision").  Once it is      *)
(* deployed, verify_correctness.js reads the Safes, the orders, the prices *)
(* and the allowances one after the other and stops at the first thing     *)
(* that is wrong (kind "verify").  The chain and the market change while   *)
(* the checks go on: what a check says holds of the moment it read.        *)
(***************************************************************************)
EXTENDS PriceOracle, Sequences, SequencesExt, FiniteSetsExt, Functions

CONSTANTS
    BracketList,    \* the brackets the user names, in their order
    Master,         \* the master Safe
    Spenders,       \* accounts that may be allowed to spend tokens
    Exceptions,     \* allowanceExceptions
    OwnersNamed,    \* whether the user names the owners of the master Safe
    OrderLists,     \* lists of orders that a bracket may have
    Chains,         \* states of the chain that a check may find when it starts
    Presets,        \* values of globalPriceStorage that a caller may hand over
    Base, Quote,    \* the pair of a strategy to be deployed
    Settings,        \* prices and bounds that a user may choose for it
    Tolerance,      \* log of the accepted deviation of the price
    Spread,         \* log of 1.5
    MaxChanges,     \* bound on the changes of the chain and the market during a check
    Steps           \* by how much the log of a price changes

Brackets == ToSet(BracketList)

Accounts == <<Master>> \o BracketList

Orders == [sell : Tokens, buy : Tokens, limit : Int, size : Int]

ASSUME SetupAssumption ==
    /\ BracketList \in Seq(Brackets) /\ BracketList # <<>>
    /\ Master \notin Brackets /\ Exceptions \subseteq Spenders /\ OwnersNamed \in BOOLEAN
    /\ OrderLists \subseteq Seq(Orders)
    /\ Base \in Tokens /\ Quote \in Tokens
    /\ Settings \subseteq [price : Int, lowest : Int, highest : Int]
    /\ {Tolerance, Spread, MaxChanges} \subseteq Nat /\ Steps \subseteq Int

(* What verifyBracketsWellFormed looks at, one phase after the other.      *)
Phases ==
    <<Brackets \X {"bytecode"},
      IF OwnersNamed THEN {<<Master, "owners">>} ELSE {},
      Brackets \X {"owners"},
      Brackets \X {"masterCopy"},
      ToSet(Accounts) \X {"modules"},
      Brackets \X {"fallbackHandler"}>>

Traits == UNION ToSet(Phases)

Allowances == ToSet(Accounts) \X Tokens \X Spenders

ChainStates ==
    [orders : [Brackets -> OrderLists], wrong : SUBSET Traits,
     approved : SUBSET Allowances, allowed : SUBSET Allowances]

(* Whatever is allowed was approved once.                                  *)
ASSUME ChainAssumption ==
    Chains \subseteq {c \in ChainStates : c.allowed \subseteq c.approved}

ASSUME PresetAssumption ==
    \A preset \in Presets :
        /\ DOMAIN preset \subseteq Tokens \X Tokens
        /\ \A key \in DOMAIN preset : preset[key] \in Slices

VARIABLES
    chain,     \* orders of brackets, what is wrong with Safes, approvals ever made and in force
    check,     \* the check that runs, and what it read
    seen,      \* chain and market at the moments since it started
    changes    \* number of changes so far

vars == <<chain, check, seen, changes, market, storage, query>>

NothingRead == [b \in Brackets |-> <<>>]

AnySetting == CHOOSE setting \in Settings : TRUE

NoCheck == [kind |-> "none", pc |-> "idle", left |-> {}, next |-> 1, orders |-> NothingRead,
            usd |-> FALSE, price |-> 0, unpriced |-> {},
            setting |-> AnySetting, quoted |-> FALSE, confirmed |-> FALSE]

Reading == {"orders", "shape", "allowances"}
Ended   == check.pc \in {"passed", "refused", "broken"}

(* relevantOrders of the orders read.                                      *)
Relevant == FlattenSeq([i \in DOMAIN BracketList |-> check.orders[BracketList[i]]])

TokensOf(list) == UNION {{list[k].sell, list[k].buy} : k \in DOMAIN list}

TypeOK ==
    /\ chain \in ChainStates
    /\ check.pc \in {"idle", "price", "bounds", "prices", "lists", "profit"} \cup Reading
       \/ Ended
    /\ check.pc \in Reading => check.left # {}
    /\ check.pc \in {"prices", "profit"} => check.next \in DOMAIN Relevant
    /\ \A b \in Brackets : check.orders[b] \in OrderLists \cup {<<>>}
    /\ changes \in 0..MaxChanges
    /\ OracleTypeOK

Init ==
    /\ chain \in Chains
    /\ check = NoCheck /\ seen = {} /\ changes = 0
    /\ OracleInit
-----------------------------------------------------------------------------
Now == [chain |-> chain, market |-> market]

Unchanged == UNCHANGED <<chain, seen, changes, market>>

Local == Unchanged /\ UNCHANGED <<storage, query>>

Ending(pc) == [check EXCEPT !.pc = pc, !.left = {}]

(* verifyCorrectSetup starts; brackets are read concurrently.              *)
StartVerify(preset) ==
    /\ check.pc = "idle"
    /\ check' = [check EXCEPT !.kind = "verify", !.pc = "orders", !.left = Brackets]
    /\ storage' = preset
    /\ seen' = {Now}
    /\ UNCHANGED <<chain, changes, market, query>>

ToShape(c) == [c EXCEPT !.pc = "shape", !.next = 1, !.left = Phases[1]]

(* A mutant: the first order's price is asked for without looking whether  *)
(* there is one.                                                           *)
ReadOrdersThenAsk(b) ==
    /\ check.pc = "orders" /\ b \in check.left
    /\ check' = [check EXCEPT !.orders[b] = chain.orders[b], !.left = @ \ {b},
                              !.pc = IF check.left = {b} THEN "prices" ELSE @]
    /\ Local

(* After the last bracket's orders come the prices, if there are orders.   *)
ReadOrders(b) ==
    /\ check.pc = "orders" /\ b \in check.left
    /\ LET read == [check EXCEPT !.orders[b] = chain.orders[b], !.left = @ \ {b}]
       IN  check' = IF read.left # {} THEN read
                    ELSE IF \A c \in Brackets : read.orders[c] = <<>> THEN ToShape(read)
                    ELSE [read EXCEPT !.pc = "prices"]
    /\ Local

Order == Relevant[check.next]

LastOrder == check.next = Len(Relevant)

AskPrice ==
    /\ check.pc \in {"prices", "profit"} /\ query.pc = "none"
    /\ Ask(Order.sell, IF check.usd THEN USDC ELSE Order.buy)
    /\ UNCHANGED <<check, storage>> /\ Unchanged

PriceKnown(pc) == check.pc = pc /\ query.pc = "answered" /\ query' = NoQuery

(* Prices are asked for upfront: of the pair of each order, and in USDC.   *)
UpfrontPrice ==
    /\ PriceKnown("prices")
    /\ check' = IF ~check.usd THEN [check EXCEPT !.usd = TRUE]
                ELSE LET asked == [check EXCEPT !.usd = FALSE]
                     IN  IF LastOrder THEN ToShape(asked) ELSE [asked EXCEPT !.next = @ + 1]
    /\ UNCHANGED storage /\ Unchanged

NextPhase(p) == {q \in DOMAIN Phases : q > p /\ Phases[q] # {}}

(* The phases of verifyBracketsWellFormed.                                 *)
ReadTrait(trait) ==
    /\ check.pc = "shape" /\ trait \in check.left
    /\ check' = IF trait \in chain.wrong THEN Ending("refused")
                ELSE IF check.left # {trait} THEN [check EXCEPT !.left = @ \ {trait}]
                ELSE IF NextPhase(check.next) = {} THEN Ending("lists")
                ELSE LET p == Min(NextPhase(check.next))
                     IN  [check EXCEPT !.next = p, !.left = Phases[p]]
    /\ Local

BackAndForth(list) ==
    /\ Len(list) = 2
    /\ list[1].buy = list[2].sell /\ list[1].sell = list[2].buy

(* The product of the two limits is more than 1.                           *)
Gains(list) == list[1].limit + list[2].limit > 0

CheckLists ==
    /\ check.pc = "lists"
    /\ check' = IF \A b \in Brackets : BackAndForth(check.orders[b]) /\ Gains(check.orders[b])
                THEN [check EXCEPT !.pc = "profit", !.next = 1]
                ELSE Ending("refused")
    /\ Local

(* getAllowances of an account: the approvals of each traded token.        *)
ApprovalsOf(account, tokens) == {account} \X tokens

NextOrder(c) ==
    IF ~LastOrder THEN [c EXCEPT !.next = @ + 1, !.usd = FALSE]
    ELSE [c EXCEPT !.pc = "allowances", !.next = 1, !.usd = FALSE,
                   !.left = ApprovalsOf(Master, TokensOf(Relevant))]

(* A mutant: after a price that is not known no order is checked any more. *)
PairPriceOrNone ==
    /\ PriceKnown("profit") /\ ~check.usd
    /\ check' = IF query.slice.kind = "number"
                THEN [check EXCEPT !.usd = TRUE, !.price = query.slice.log]
                ELSE [check EXCEPT !.unpriced = @ \cup {Order}, !.pc = "allowances", !.next = 1,
                                   !.left = ApprovalsOf(Master, TokensOf(Relevant))]
    /\ UNCHANGED storage /\ Unchanged

(* The check remembers the orders for which a price was not known.         *)
Unpriced == [check EXCEPT !.unpriced = @ \cup {Order}]

(* checkNoProfitableOffer: without a price nothing can be checked.         *)
PairPrice ==
    /\ PriceKnown("profit") /\ ~check.usd
    /\ check' = IF query.slice.kind = "number"
                THEN [check EXCEPT !.usd = TRUE, !.price = query.slice.log]
                ELSE NextOrder(Unpriced)
    /\ UNCHANGED storage /\ Unchanged

Unprofitable(order, price) == price < order.limit

(* Less than one dollar is sold.                                           *)
Negligible(order, usdPrice) == usdPrice + order.size < 0

Judge(negligible) ==
    check' = IF negligible \/ Unprofitable(Order, check.price) THEN NextOrder(check)
             ELSE Ending("refused")

(* What becomes of an order whose value is not a number is the library's:  *)
(* it is taken for little or for much, or the library throws.              *)
ValuePrice ==
    /\ PriceKnown("profit") /\ check.usd
    /\ IF query.slice.kind = "number" THEN Judge(Negligible(Order, query.slice.log))
       ELSE \/ check' = NextOrder(Unpriced)
            \/ check' = IF Unprofitable(Order, check.price)
                        THEN NextOrder(check) ELSE [Unpriced EXCEPT !.pc = "refused", !.left = {}]
            \/ check' = Ending("broken")
    /\ UNCHANGED storage /\ Unchanged

Excepted(account) == IF account = Master THEN Exceptions ELSE {}

(* What is left to read once the events of one token are known.            *)
SpendersOf(item) == {a \in chain.approved : a[1] = item[1] /\ a[2] = item[2]}

(* assertNoAllowances of one account after the other: the spenders of each *)
(* token by the events, then what each is allowed.                         *)
AfterReading(left) ==
    IF left # {} THEN [check EXCEPT !.left = left]
    ELSE IF check.next = Len(Accounts) THEN Ending("passed")
    ELSE [check EXCEPT !.next = @ + 1,
                       !.left = ApprovalsOf(Accounts[check.next + 1], TokensOf(Relevant))]

ReadEvents(item) ==
    /\ check.pc = "allowances" /\ item \in check.left /\ Len(item) = 2
    /\ check' = AfterReading((check.left \ {item}) \cup SpendersOf(item))
    /\ Local

ReadAllowance(item) ==
    /\ check.pc = "allowances" /\ item \in check.left /\ Len(item) = 3
    /\ check' = IF item \in chain.allowed /\ item[3] \notin Excepted(item[1])
                THEN Ending("refused")
                ELSE AfterReading(check.left \ {item})
    /\ Local
-----------------------------------------------------------------------------
(* A strategy is to be deployed.  This caller has no stored prices.        *)
StartProvision(setting) ==
    /\ check.pc = "idle"
    /\ check' = [check EXCEPT !.kind = "provision", !.pc = "price", !.setting = setting]
    /\ query' = Asking(Base, Quote)
    /\ storage' = NothingStored
    /\ seen' = {Now}
    /\ UNCHANGED <<chain, changes, market>>

Abs(n) == IF n < 0 THEN -n ELSE n

(* A mutant: only a price above the server's is suspicious.                *)
IsNotTooHigh(slice, price) == slice.kind = "nan" \/ price - slice.log < Tolerance

(* isPriceReasonable: no price is suspicious, one that is not a number has *)
(* no deviation that could be too large.                                   *)
IsPriceReasonable(slice, price) ==
    \/ slice.kind = "nan"
    \/ slice.kind = "number" /\ Abs(slice.log - price) < Tolerance

AreBoundsReasonable(s) ==
    /\ s.price - s.lowest < Spread /\ s.highest - s.price < Spread
    /\ s.lowest < s.price /\ s.price < s.highest

(* The user is asked only if a check fails, and may proceed anyway.        *)
ProceedIf(reasonable, then) ==
    \/ reasonable /\ check' = then
    \/ ~reasonable /\ check' = [then EXCEPT !.confirmed = TRUE]
    \/ ~reasonable /\ check' = Ending("refused")

CheckPrice ==
    /\ PriceKnown("price")
    /\ ProceedIf(IsPriceReasonable(query.slice, check.setting.price),
                 [check EXCEPT !.pc = "bounds", !.quoted = query.slice.kind = "number"])
    /\ UNCHANGED storage /\ Unchanged

CheckBounds ==
    /\ check.pc = "bounds"
    /\ ProceedIf(AreBoundsReasonable(check.setting), Ending("passed"))
    /\ Local
-----------------------------------------------------------------------------
PriceReply == Reply /\ UNCHANGED <<check, chain, seen, changes, market>>

(* An error ends the script.                                               *)
PriceThrows ==
    /\ query.pc = "threw" /\ ~Ended
    /\ check' = Ending("broken")
    /\ Local

NodeFails ==
    /\ check.pc \in Reading
    /\ check' = Ending("broken")
    /\ Local

Changing ==
    /\ check.pc # "idle" /\ ~Ended /\ changes < MaxChanges
    /\ changes' = changes + 1
    /\ seen' = seen \cup {[chain |-> chain', market |-> market']}
    /\ UNCHANGED <<check, storage, query>>

Reorder(b, list) ==
    /\ list # chain.orders[b]
    /\ chain' = [chain EXCEPT !.orders[b] = list]
    /\ UNCHANGED market /\ Changing

Alter(trait) ==
    /\ chain' = [chain EXCEPT !.wrong = SymDiff(@, {trait})]
    /\ UNCHANGED market /\ Changing

Approve(allowance) ==
    /\ allowance \notin chain.allowed
    /\ chain' = [chain EXCEPT !.approved = @ \cup {allowance}, !.allowed = @ \cup {allowance}]
    /\ UNCHANGED market /\ Changing

Revoke(allowance) ==
    /\ allowance \in chain.allowed
    /\ chain' = [chain EXCEPT !.allowed = @ \ {allowance}]
    /\ UNCHANGED market /\ Changing

MarketMoves(t, step) ==
    /\ market' = [market EXCEPT ![t] = @ + step]
    /\ UNCHANGED chain /\ Changing

CheckStep ==
    \/ \E b \in Brackets : ReadOrders(b)
    \/ AskPrice \/ UpfrontPrice \/ CheckLists \/ PairPrice \/ ValuePrice
    \/ \E item \in check.left : ReadTrait(item) \/ ReadEvents(item) \/ ReadAllowance(item)
    \/ CheckPrice \/ CheckBounds
    \/ PriceReply \/ PriceThrows

Next ==
    \/ \E preset \in Presets : StartVerify(preset)
    \/ \E setting \in Settings : StartProvision(setting)
    \/ CheckStep \/ NodeFails
    \/ \E b \in Brackets, list \in OrderLists : Reorder(b, list)
    \/ \E trait \in Traits : Alter(trait)
    \/ \E allowance \in Allowances : Approve(allowance) \/ Revoke(allowance)
    \/ \E t \in Tokens \ {USDC}, step \in Steps : MarketMoves(t, step)

Spec == Init /\ [][Next]_vars

(* The node and the user answer, or fail in one of the ways above, and the *)
(* server does one of the things above, of which one is to do nothing more.*)
FairSpec == Spec /\ WF_vars(CheckStep)
-----------------------------------------------------------------------------
(***************************************************************************)
(* Properties.                                                             *)
(***************************************************************************)
Started == check.pc # "idle"

(* The price a caller stored, or else that of the market.                  *)
PriceAt(s, base, quote) ==
    IF Key(base, quote) \in DOMAIN storage THEN storage[Key(base, quote)].log
    ELSE IF Key(quote, base) \in DOMAIN storage THEN -storage[Key(quote, base)].log
    ELSE MarketPrice(s.market, base, quote)

Attractive(s, order) ==
    /\ PriceAt(s, order.sell, order.buy) >= order.limit
    /\ PriceAt(s, order.sell, USDC) + order.size >= 0

Unlawful(s, account, tokens) ==
    {a \in s.chain.allowed : a[1] = account /\ a[2] \in tokens
                              /\ (account = Master => a[3] \notin Exceptions)}

(* A setup that passes had, for every bracket, two orders back and forth   *)
(* with a gain; every order was unattractive at some moment of the check,  *)
(* except those for which the server gave no price, whatever it gave for   *)
(* others; every property of every Safe held at some moment, and so did    *)
(* the absence of every allowance for the traded tokens.  No moment has to *)
(* have it all (verify_scripts.js:99-167).                                 *)
PassIsSound ==
    check.kind = "verify" /\ check.pc = "passed" =>
        /\ \A trait \in Traits : \E s \in seen : trait \notin s.chain.wrong
        /\ \A b \in Brackets : \E s \in seen :
              LET list == s.chain.orders[b]
              IN  /\ BackAndForth(list) /\ Gains(list)
                  /\ \A k \in {1, 2} : list[k] \in check.unpriced \/ \E m \in seen : ~Attractive(m, list[k])
                  /\ \A account \in ToSet(Accounts), t \in TokensOf(list), p \in Spenders :
                        \E m \in seen : <<account, t, p>> \notin Unlawful(m, account, {t})

Correct(s) ==
    /\ s.chain.wrong = {}
    /\ \A b \in Brackets :
          LET list == s.chain.orders[b]
          IN  BackAndForth(list) /\ Gains(list) /\ \A k \in {1, 2} : ~Attractive(s, list[k])
    /\ \A account \in ToSet(Accounts) : Unlawful(s, account, Tokens) = {}

(* There is no false alarm: a correct setup that nothing happens to while  *)
(* it is checked is not refused, unless for the very order whose price in  *)
(* dollars the server did not give: one of little value is then not told   *)
(* from others.                                                            *)
NoFalseAlarm ==
    \A s \in seen : check.kind = "verify" /\ check.pc = "refused" /\ seen = {s} /\ Correct(s)
                       => check.usd /\ Order \in check.unpriced

(* A strategy is only deployed without asking the user if every limit is   *)
(* on its side of the price the user named and close to it; and if the     *)
(* server gave a price, not far from the market during the check either.   *)
LimitsAreNearMarket ==
    check.kind = "provision" /\ check.pc = "passed" /\ ~check.confirmed =>
        LET s == check.setting IN
        /\ s.price - Spread < s.lowest /\ s.lowest < s.price
        /\ s.price < s.highest /\ s.highest < s.price + Spread
        /\ check.quoted =>
              \E m \in seen : \A limit \in {s.lowest, s.highest} :
                  Abs(MarketPrice(m.market, Base, Quote) - limit) < Spread + Tolerance

(* What scripts/utils/price_utils.js:110 promises, "price information (if  *)
(* available, undefined otherwise)", is what the caller relies on to ask   *)
(* the user: no strategy is deployed unasked if the price is not available.*)
UnavailableIsNoticed ==
    check.kind = "provision" /\ check.pc = "passed" /\ ~check.quoted => check.confirmed

(* Every check that is started comes to an end, whatever the server answers*)
(* and however often it has to be asked, but for one that is left without  *)
(* an answer: nothing ends that request (scripts/utils/price_utils.js:148).*)
EveryCheckEnds == Started ~> (Ended \/ query.pc = "hanging")
=============================================================================
