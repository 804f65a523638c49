---------------------------- MODULE LiquidityFunds ----------------------------
(***************************************************************************)
(* The funds of a market maker and the scripts that move them: a master    *)
(* Safe owns a fleet of bracket Safes, and every script builds one bundle  *)
(* of calls that the master Safe executes later.                           *)
(*                                                                         *)
(*   script  the script that runs now: it reads the chain one request at a *)
(*           time, while trades, batches and executions go on, then offers *)
(*           a bundle                                                      *)
(*   queue   bundles on the Safe server, in nonce order                    *)
(*   mode,   the virtual machine that runs a bundle on `work`, a copy of   *)
(*   todo,   the ledger, call by call: to estimate the gas it needs, where *)
(*   work,   the copy is thrown away, or to execute it, where it becomes   *)
(*   failed  the ledger if the bundle succeeds                             *)
(*   ledger  the chain: token balances, allowances, exchange accounts      *)
(***************************************************************************)
EXTENDS BatchExchange, FiniteSets, Sequences, Functions

CONSTANTS
    Brackets,       \* the bracket Safes, all owned by the master Safe
    Master,         \* the master Safe
    Exchange,       \* the address of BatchExchange, as a token holder
    Base, Quote,    \* the two tokens the strategy trades
    N,              \* number of pairs of a bracket and a token
    Listing,        \* the pairs, in the order bundles name them in
    MaxAmount,      \* MAXUINT256: more than there is of any token
    Dust,           \* least amount that is worth one dollar
    MasterFunds,    \* initial funds of the master Safe, in each token
    BracketFunds,   \* initial exchange balance of each bracket
    MarketFunds,    \* exchange balance of all other traders
    ListAmounts,    \* amounts that deposit and withdrawal files name
    TradeSizes,     \* amounts one trade can move
    Kinds,          \* the scripts the operator uses
    MaxScripts,     \* bound: scripts started
    MaxTrades       \* bound: trades

Tokens   == {Base, Quote}
Other(t) == IF t = Base THEN Quote ELSE Base
Holders  == Brackets \cup {Master, Exchange}
Entry    == 1..N

AllKinds == {"orders", "fund", "deposit", "request", "requestAll",
             "claim", "claimTransfer", "transfer"}

ASSUME FundsAssumption ==
    /\ Base # Quote /\ IsFiniteSet(Brackets)
    /\ Master # Exchange /\ Master \notin Brackets /\ Exchange \notin Brackets
    /\ N \in Nat
    /\ Listing \in [Entry -> Brackets \X Tokens]
    /\ MaxAmount \in Nat \ {0} /\ Dust \in Nat \ {0}
    /\ MasterFunds \in Nat /\ BracketFunds \in Nat /\ MarketFunds \in Nat
    /\ ListAmounts \subseteq Nat /\ TradeSizes \subseteq Nat
    /\ Kinds \subseteq AllKinds
    /\ MaxScripts \in Nat /\ MaxTrades \in Nat

BracketOf(e) == Listing[e][1]
TokenOf(e)   == Listing[e][2]

Ledgers == [wallet    : [Holders -> [Tokens -> Nat]],
            allowance : [Brackets -> [Tokens -> Nat]],
            exch      : [Brackets -> [Tokens -> Account]],
            market    : [Tokens -> Nat],
            orders    : SUBSET (Brackets \X Tokens)]

(* A bundle as a script builds it.  An entry with amount 0 has no call in  *)
(* the bundle; `asked` are the entries the user named, `read` tells whether*)
(* their amounts were read from the chain or listed in a file.  `started`  *)
(* and `estimated` are the number of bundles that had been executed when   *)
(* the script started and when it estimated the gas.                       *)
Bundles == [kind : AllKinds, asked : SUBSET Entry, amount : [Entry -> Nat],
            read : BOOLEAN, started : Nat, estimated : Nat]

NoBundle == [kind |-> "orders", asked |-> {}, amount |-> [e \in Entry |-> 0],
             read |-> FALSE, started |-> 0, estimated |-> 0]

VARIABLES
    ledger, script, queue, mode, todo, work, failed,
    counts,  \* scripts started, bundles executed, trades: bounds the state space
    halted   \* per entry, what the user was told of a request and what became of it

(* From the next batch after a request is executed the user is told that   *)
(* trading has halted; the request was made, or the script left it out, or *)
(* the exchange refused it.                                                *)
Halts == [told : {"no", "asked", "yes"}, request : {"none", "skipped", "refused", "made"}]

NotHalted == [told |-> "no", request |-> "none"]

vmVars == <<mode, todo, work, failed>>
vars   == <<ledger, script, queue, mode, todo, work, failed, counts, halted>>
-----------------------------------------------------------------------------
(***************************************************************************)
(* The calls of a bundle.                                                  *)
(***************************************************************************)
Transferred(wallet, from, to, t, n) ==
    LET paid == [wallet EXCEPT ![from][t] = @ - n]
    IN  [paid EXCEPT ![to][t] = @ + n]

Move(L, from, to, t, n)   == [L EXCEPT !.wallet = Transferred(@, from, to, t, n)]
SetAccount(L, b, t, acc)  == [L EXCEPT !.exch[b][t] = acc]
Approve(L, b, t, n)       == [L EXCEPT !.allowance[b][t] = n]

CanDeposit(L, b, t, n) == n <= L.allowance[b][t] /\ n <= L.wallet[b][t]

(* A mutant: the allowance is not used up.                                 *)
DepositKeepingAllowance(L, b, t, n) ==
    SetAccount(Move(L, b, Exchange, t, n), b, t, Deposit(L.exch[b][t], n))

DepositCall(L, b, t, n) ==
    SetAccount(Approve(Move(L, b, Exchange, t, n), b, t, L.allowance[b][t] - n),
               b, t, Deposit(L.exch[b][t], n))

RequestCall(L, b, t, n) ==
    SetAccount(Move(L, Exchange, b, t, PaidByRequest(L.exch[b][t])),
               b, t, Request(L.exch[b][t], n))

WithdrawCall(L, b, t) ==
    SetAccount(Move(L, Exchange, b, t, Withdrawable(L.exch[b][t])),
               b, t, Withdraw(L.exch[b][t]))

(* What each call requires of the ledger, and what it does to it.  Approve *)
(* and deposit are bundled by a nested MultiSend of the bracket, which     *)
(* fails as a whole.                                                       *)
CallSucceeds(op, L, b, t, n) ==
    CASE op = "placeOrder"      -> TRUE
      [] op = "toBracket"       -> n <= L.wallet[Master][t]
      [] op = "approveDeposit"  -> CanDeposit(Approve(L, b, t, n), b, t, n)
      [] op = "requestWithdraw" -> /\ CanRequest(L.exch[b][t])
                                   /\ PaidByRequest(L.exch[b][t]) <= L.wallet[Exchange][t]
      [] op = "withdraw"        -> /\ CanWithdraw(L.exch[b][t])
                                   /\ Withdrawable(L.exch[b][t]) <= L.wallet[Exchange][t]
      [] op = "toMaster"        -> n <= L.wallet[b][t]

CallEffect(op, L, b, t, n) ==
    CASE op = "placeOrder"      -> [L EXCEPT !.orders = @ \cup {<<b, t>>}]
      [] op = "toBracket"       -> Move(L, Master, b, t, n)
      [] op = "approveDeposit"  -> DepositCall(Approve(L, b, t, n), b, t, n)
      [] op = "requestWithdraw" -> RequestCall(L, b, t, n)
      [] op = "withdraw"        -> WithdrawCall(L, b, t)
      [] op = "toMaster"        -> Move(L, b, Master, t, n)

Listed(amount) == {e \in Entry : amount[e] > 0}

(* Mutants of Calls: the forwarding transfers are numbered one too high,   *)
(* and a funding bundle lacks the deposits.                                *)
CallsOffByOne(bundle) ==
    LET listed == Listed(bundle.amount)
    IN  IF bundle.kind = "claimTransfer" THEN listed \cup {N + e + 1 : e \in listed}
                                         ELSE listed

CallsWithoutDeposits(bundle) ==
    IF bundle.kind = "fund" THEN {2*e - 1 : e \in Listed(bundle.amount)}
                            ELSE Listed(bundle.amount)

(* The calls of a bundle are numbered in the order it makes them: claims   *)
(* that forward to the master Safe make all withdrawals before all         *)
(* transfers, and a funding bundle alternates a transfer to a bracket and  *)
(* the bracket's deposit.                                                  *)
Calls(bundle) ==
    LET listed == Listed(bundle.amount)
    IN  CASE bundle.kind = "claimTransfer" -> listed \cup {N + e : e \in listed}
          [] bundle.kind = "fund" -> {2*e - 1 : e \in listed} \cup {2*e : e \in listed}
          [] OTHER -> listed

EntryOf(kind, k) ==
    CASE kind = "claimTransfer" -> IF k <= N THEN k ELSE k - N
      [] kind = "fund"          -> (k + 1) \div 2
      [] OTHER                  -> k

(* A mutant of OpOf: a claim forwards before it withdraws.                 *)
ForwardFirst(kind, k) ==
    CASE kind = "claimTransfer"              -> IF k <= N THEN "toMaster" ELSE "withdraw"
      [] kind = "claim"                      -> "withdraw"
      [] kind \in {"request", "requestAll"}  -> "requestWithdraw"
      [] OTHER                               -> "toMaster"

OpOf(kind, k) ==
    CASE kind = "orders"                     -> "placeOrder"
      [] kind = "deposit"                    -> "approveDeposit"
      [] kind = "fund"                       -> IF k % 2 = 1 THEN "toBracket" ELSE "approveDeposit"
      [] kind \in {"request", "requestAll"}  -> "requestWithdraw"
      [] kind = "claim"                      -> "withdraw"
      [] kind = "claimTransfer"              -> IF k <= N THEN "withdraw" ELSE "toMaster"
      [] kind = "transfer"                   -> "toMaster"
-----------------------------------------------------------------------------
TypeOK ==
    /\ ledger \in Ledgers
    /\ script \in [pc : {"idle", "read", "limit", "send"},
                   unread : SUBSET Entry, bundle : Bundles]
    /\ queue \in Seq(Bundles)
    /\ mode \in {"idle", "estimate", "execute"}
    /\ (mode = "execute") => (queue # <<>>)
    /\ todo \in SUBSET (1..2*N)
    /\ work \in Ledgers
    /\ failed \in BOOLEAN
    /\ counts \in [scripts : Nat, executed : Nat, trades : Nat]
    /\ halted \in [Entry -> Halts]

IdleScript == [pc |-> "idle", unread |-> {}, bundle |-> NoBundle]

(* The fleet exists and its orders are placed if its brackets hold funds   *)
(* on the exchange; nothing has been proposed yet.                         *)
Init ==
    /\ ledger =
        [wallet    |-> [h \in Holders |-> [t \in Tokens |->
                          CASE h = Master   -> MasterFunds
                            [] h = Exchange -> MarketFunds + BracketFunds * Cardinality(Brackets)
                            [] OTHER        -> 0]],
         allowance |-> [b \in Brackets |-> [t \in Tokens |-> 0]],
         exch      |-> [b \in Brackets |-> [t \in Tokens |-> AccountWith(BracketFunds)]],
         market    |-> [t \in Tokens |-> MarketFunds],
         orders    |-> IF BracketFunds = 0 THEN {} ELSE Brackets \X Tokens]
    /\ script = IdleScript
    /\ queue = <<>>
    /\ mode = "idle" /\ todo = {} /\ work = ledger /\ failed = FALSE
    /\ counts = [scripts |-> 0, executed |-> 0, trades |-> 0]
    /\ halted = [e \in Entry |-> NotHalted]
-----------------------------------------------------------------------------
(***************************************************************************)
(* The scripts.  A call of the chain's API is one step.                    *)
(***************************************************************************)
Start(kind, asked, amount, pc, unread) ==
    /\ mode = "idle" /\ script.pc = "idle" /\ counts.scripts < MaxScripts
    /\ script' = [pc |-> pc, unread |-> unread,
                  bundle |-> [kind |-> kind, asked |-> asked, amount |-> amount,
                              read |-> pc = "read", started |-> counts.executed,
                              estimated |-> 0]]
    /\ counts' = [counts EXCEPT !.scripts = @ + 1]
    /\ UNCHANGED <<ledger, queue, mode, todo, work, failed, halted>>

(* --brackets: the amounts are read from the chain.                        *)
StartReading(kind, asked) ==
    /\ kind \in {"request", "requestAll", "claim", "claimTransfer", "transfer"}
    /\ asked # {}
    /\ Start(kind, asked, [e \in Entry |-> 0], "read", asked)

(* Orders for all brackets; --depositFile and --withdrawalFile: the amounts*)
(* are the user's.  Only transfers to the master Safe look at the chain.   *)
StartListed(kind, amount) ==
    /\ kind = "orders" <=> amount = [e \in Entry |-> MaxAmount]
    /\ Listed(amount) # {}
    /\ IF kind = "transfer"
       THEN Start(kind, Listed(amount), amount, "limit", Listed(amount))
       ELSE Start(kind, Listed(amount), amount, "send", {})

(* Mutants of AmountRead: a request for the balance instead of MAXUINT256, *)
(* a transfer that reads what a claim reads, and a claim that also forwards*)
(* what the bracket's wallet holds.                                        *)
RequestsBalance(kind, e) ==
    LET acc == ledger.exch[BracketOf(e)][TokenOf(e)]
    IN  CASE kind \in {"request", "requestAll"} -> GetBalance(acc)
          [] kind \in {"claim", "claimTransfer"} -> GetWithdrawableAmount(acc)
          [] OTHER -> ledger.wallet[BracketOf(e)][TokenOf(e)]

TransfersWithdrawable(kind, e) ==
    LET acc == ledger.exch[BracketOf(e)][TokenOf(e)]
    IN  CASE kind = "requestAll" -> MaxAmount
          [] kind = "request"    -> IF GetBalance(acc) >= Dust THEN MaxAmount ELSE 0
          [] OTHER               -> GetWithdrawableAmount(acc)

ForwardsWallet(kind, e) ==
    IF kind = "requestAll" THEN MaxAmount
    ELSE GetWithdrawableAmount(ledger.exch[BracketOf(e)][TokenOf(e)])
           + ledger.wallet[BracketOf(e)][TokenOf(e)]

(* What the script reads for entry e, and the amount it makes of it.       *)
AmountRead(kind, e) ==
    LET acc == ledger.exch[BracketOf(e)][TokenOf(e)]
    IN  CASE kind = "requestAll" -> MaxAmount
          [] kind = "request"    -> IF GetBalance(acc) >= Dust THEN MaxAmount ELSE 0
          [] kind \in {"claim", "claimTransfer"} -> GetWithdrawableAmount(acc)
          [] OTHER -> ledger.wallet[BracketOf(e)][TokenOf(e)]

(* The amounts of all pairs are requested at once and arrive in any order. *)
ReadAmount(e) ==
    /\ mode = "idle" /\ script.pc = "read" /\ e \in script.unread
    /\ script' = [script EXCEPT !.unread = @ \ {e},
                                !.bundle.amount[e] = AmountRead(script.bundle.kind, e)]
    /\ UNCHANGED <<ledger, queue, mode, todo, work, failed, counts, halted>>

(* Entries with amount 0 are left out; nothing left is an error.           *)
FinishReading ==
    /\ mode = "idle" /\ script.pc = "read" /\ script.unread = {}
    /\ LET listed == Listed(script.bundle.amount)
       IN  script' = IF listed = {} THEN IdleScript
                     ELSE IF script.bundle.kind = "transfer"
                          THEN [script EXCEPT !.pc = "limit", !.unread = listed]
                          ELSE [script EXCEPT !.pc = "send"]
    /\ UNCHANGED <<ledger, queue, mode, todo, work, failed, counts, halted>>

(* Transfers to the master Safe are limited to what each bracket holds now.*)
LimitAmount(e) ==
    /\ mode = "idle" /\ script.pc = "limit" /\ e \in script.unread
    /\ script' = [script EXCEPT
                    !.unread = @ \ {e},
                    !.bundle.amount[e] = Min2(@, ledger.wallet[BracketOf(e)][TokenOf(e)]),
                    !.pc = IF script.unread = {e} THEN "send" ELSE @]
    /\ UNCHANGED <<ledger, queue, mode, todo, work, failed, counts, halted>>

(* The user answers no when asked whether to send the transaction.         *)
Decline ==
    /\ mode = "idle" /\ script.pc = "send"
    /\ script' = IdleScript
    /\ UNCHANGED <<ledger, queue, mode, todo, work, failed, counts, halted>>
-----------------------------------------------------------------------------
(***************************************************************************)
(* Running a bundle.  Nothing else happens on the chain while mode # "idle"*)
(***************************************************************************)
Running == IF mode = "estimate" THEN script.bundle ELSE Head(queue)

Load(m, bundle) ==
    /\ mode = "idle"
    /\ mode' = m /\ todo' = Calls(bundle) /\ work' = ledger
    /\ UNCHANGED failed

Unload == mode' = "idle" /\ todo' = {} /\ work' = ledger' /\ failed' = FALSE

StartEstimate ==
    /\ script.pc = "send"
    /\ Load("estimate", script.bundle)
    /\ UNCHANGED <<ledger, script, queue, counts, halted>>

(* The owners sign and execute the bundle with the next nonce.             *)
StartExecute ==
    /\ queue # <<>>
    /\ Load("execute", Head(queue))
    /\ UNCHANGED <<ledger, script, queue, counts, halted>>

(* A failing call of the master Safe itself fails the bundle.  What a      *)
(* bracket Safe executes may fail without that: execTransaction, which is  *)
(* called with safeTxGas and gasPrice 0, then emits ExecutionFailure and   *)
(* returns, and the bundle goes on.                                        *)
RunCall ==
    /\ mode # "idle" /\ ~failed
    /\ \E k \in todo :
        LET e  == EntryOf(Running.kind, k)
            op == OpOf(Running.kind, k)
            b  == BracketOf(e)
            t  == TokenOf(e)
            n  == Running.amount[e]
        IN  /\ \A j \in todo : k <= j
            /\ todo' = todo \ {k}
            /\ \/ /\ CallSucceeds(op, work, b, t, n)
                  /\ work' = CallEffect(op, work, b, t, n)
                  /\ UNCHANGED failed
               \/ /\ ~CallSucceeds(op, work, b, t, n)
                  /\ failed' = (op = "toBracket")
                  /\ UNCHANGED work
    /\ UNCHANGED <<ledger, script, queue, mode, counts, halted>>

Done == failed \/ todo = {}

(* A mutant: the bundle is proposed although its estimate failed.          *)
ProposeUnestimated ==
    /\ mode = "estimate" /\ Done
    /\ queue' = Append(queue, [script.bundle EXCEPT !.estimated = counts.executed])
    /\ script' = IdleScript
    /\ ledger' = ledger
    /\ Unload
    /\ UNCHANGED <<counts, halted>>

(* signAndSend proposes the bundle if its gas can be estimated.            *)
FinishEstimate ==
    /\ mode = "estimate" /\ Done
    /\ queue' = IF failed THEN queue
                ELSE Append(queue, [script.bundle EXCEPT !.estimated = counts.executed])
    /\ script' = IdleScript
    /\ ledger' = ledger
    /\ Unload
    /\ UNCHANGED <<counts, halted>>

AccountOf(e) == ledger.exch[BracketOf(e)][TokenOf(e)]

RequestOf(bundle, e) ==
    IF bundle.amount[e] = 0 THEN "skipped"
    ELSE IF CanRequest(AccountOf(e)) THEN "made" ELSE "refused"

(* After a request with --brackets the user counts on trading to halt, for *)
(* every pair it named, from the next batch until the funds are claimed.   *)
HaltedBy(bundle) ==
    [e \in Entry |->
        CASE e \notin bundle.asked -> halted[e]
          [] e \in bundle.asked /\ bundle.kind \in {"request", "requestAll"} ->
                IF bundle.read THEN [told |-> "asked", request |-> RequestOf(bundle, e)]
                               ELSE NotHalted
          [] e \in bundle.asked /\ bundle.kind \in {"claim", "claimTransfer"} -> NotHalted
          [] OTHER -> halted[e]]

(* The nonce is used up whether or not the bundle succeeds.                *)
FinishExecute ==
    /\ mode = "execute" /\ Done
    /\ ledger' = IF failed THEN ledger ELSE work
    /\ halted' = IF failed THEN halted ELSE HaltedBy(Head(queue))
    /\ queue' = Tail(queue)
    /\ counts' = [counts EXCEPT !.executed = @ + 1]
    /\ Unload
    /\ UNCHANGED script
-----------------------------------------------------------------------------
(***************************************************************************)
(* The exchange.                                                           *)
(***************************************************************************)
(* One order of bracket b is matched: it sells n of t for as much of the   *)
(* other token (amounts are in units of equal value).                      *)
Trade(b, t, n) ==
    /\ mode = "idle" /\ counts.trades < MaxTrades
    /\ <<b, t>> \in ledger.orders
    /\ n <= GetBalance(ledger.exch[b][t]) /\ n <= ledger.market[Other(t)]
    /\ ledger' = [ledger EXCEPT !.exch[b][t]        = Sell(@, n),
                                !.exch[b][Other(t)] = Buy(@, n),
                                !.market[t]         = @ + n,
                                !.market[Other(t)]  = @ - n]
    /\ work' = ledger'
    /\ counts' = [counts EXCEPT !.trades = @ + 1]
    /\ UNCHANGED <<script, queue, mode, todo, failed, halted>>

NextBatch ==
    /\ mode = "idle"
    /\ ledger' = [ledger EXCEPT !.exch = [b \in Brackets |-> [t \in Tokens |-> NextBatchOf(@[b][t])]]]
    /\ work' = ledger'
    /\ halted' = [e \in Entry |-> IF halted[e].told = "asked" THEN [halted[e] EXCEPT !.told = "yes"]
                                                              ELSE halted[e]]
    /\ UNCHANGED <<script, queue, mode, todo, failed, counts>>
-----------------------------------------------------------------------------
Next ==
    \/ \E kind \in Kinds, asked \in SUBSET Entry : StartReading(kind, asked)
    \/ \E kind \in Kinds :
         \E amount \in {[e \in Entry |-> MaxAmount]} \cup [Entry -> ListAmounts] :
            StartListed(kind, amount)
    \/ \E e \in Entry : ReadAmount(e) \/ LimitAmount(e)
    \/ FinishReading
    \/ Decline
    \/ StartEstimate
    \/ StartExecute
    \/ RunCall
    \/ FinishEstimate
    \/ FinishExecute
    \/ \E b \in Brackets, t \in Tokens, n \in TradeSizes : Trade(b, t, n)
    \/ NextBatch

Spec == Init /\ [][Next]_vars
-----------------------------------------------------------------------------
(***************************************************************************)
(* Properties.                                                             *)
(***************************************************************************)
(* Between two transactions no bracket leaves an allowance to the exchange *)
(* behind: every deposit the scripts build uses up what it approves, also  *)
(* if it fails in a bundle that goes on (scripts/utils/                    *)
(* trading_strategy_helpers.js, approve and deposit of the same amount).   *)
NoAllowanceLeft == \A b \in Brackets, t \in Tokens : ledger.allowance[b][t] = 0

(* The step that ends the execution of the bundle at the queue's head.     *)
Executed == mode = "execute" /\ mode' = "idle"

(* No other bundle was executed since the script that built it started.    *)
InTime(bundle) == bundle.started = counts.executed

(* The gas estimate is a promise: a bundle that was estimated, and executed*)
(* before any other, does not fail, however many trades and batches come   *)
(* in between (scripts/utils/internals.js estimateGas,                     *)
(* gnosis_safe_server_interactions.js signAndSend).                        *)
EstimateIsReliable ==
    [][ Executed /\ failed => Head(queue).estimated # counts.executed ]_vars

(* The estimate says nothing of the calls that brackets execute, which may *)
(* fail without failing the bundle.  What a script read from the chain     *)
(* still arrives at the master Safe, unless the account bought tokens in   *)
(* the very batch in which its claim is executed: no trade, batch or       *)
(* credit in between takes from it (scripts/wrapper/withdraw.js and the    *)
(* bundles it builds).                                                     *)
SumOf(bundle, t, entries) ==
    SumFunction([e \in Entry |-> IF TokenOf(e) = t /\ e \in entries THEN bundle.amount[e] ELSE 0])

Payable(bundle) == {e \in Entry : bundle.kind = "transfer" \/ ~AccountOf(e).credited}

WhatIsReadArrives ==
    [][ Executed /\ Head(queue).kind \in {"claimTransfer", "transfer"}
          /\ Head(queue).read /\ InTime(Head(queue))
          => \A t \in Tokens :
                LET gain == ledger'.wallet[Master][t] - ledger.wallet[Master][t]
                IN  /\ gain >= SumOf(Head(queue), t, Payable(Head(queue)))
                    /\ gain <= SumOf(Head(queue), t, Entry) ]_vars

(* claim_withdraw.js forwards the amounts it read when it was started, but *)
(* the exchange pays what is there when the bundle is executed.  A bundle  *)
(* no other one overtook takes from a bracket's own wallet more than the   *)
(* claim put there only if the claim is refused, because the account bought*)
(* tokens in the batch in which it is executed.                            *)
ClaimSparesWallets ==
    [][ Executed /\ Head(queue).kind = "claimTransfer"
          /\ Head(queue).read /\ InTime(Head(queue))
          => \A b \in Brackets, t \in Tokens :
                \/ ledger'.wallet[b][t] >= ledger.wallet[b][t]
                \/ ledger.exch[b][t].credited ]_vars

SellsNothing(e) == ledger'.exch[BracketOf(e)][TokenOf(e)].bal >= AccountOf(e).bal

(* Once a request for a pair has been made and its batch is over, the      *)
(* bracket sells nothing of that token until a claim or another request,   *)
(* even if its orders are still up (scripts/README.md:134).                *)
TradingHalts ==
    [][ mode = "idle" =>
          \A e \in Entry :
             halted[e].told = "yes" /\ halted[e].request = "made" => SellsNothing(e) ]_vars

(* What scripts/README.md:134 says of the script: it halts all trading of  *)
(* the brackets and tokens that the user names.                            *)
CommandHaltsTrading ==
    [][ mode = "idle" => \A e \in Entry : halted[e].told = "yes" => SellsNothing(e) ]_vars

(* The same of the requests that the script does not leave out.            *)
SentRequestsHalt ==
    [][ mode = "idle" =>
          \A e \in Entry : halted[e].told = "yes" /\ halted[e].request # "skipped"
                             => SellsNothing(e) ]_vars

(* What scripts/utils/trading_strategy_helpers.js:838 says of claims: if a *)
(* call of the bundle fails, no funds are withdrawn from the exchange.     *)
Refused(bundle) == {e \in Listed(bundle.amount) : ~CanWithdraw(AccountOf(e))}

ClaimIsAllOrNothing ==
    [][ Executed /\ Head(queue).kind \in {"claim", "claimTransfer"} /\ Refused(Head(queue)) # {}
          => ledger'.wallet[Exchange] = ledger.wallet[Exchange] ]_vars

(* A funding bundle that succeeds moves every listed amount from the master*)
(* Safe through the bracket into its exchange account: what the bracket's  *)
(* wallet holds is neither used nor added to.                              *)
FundingReachesExchange ==
    [][ Executed /\ ~failed /\ Head(queue).kind = "fund" =>
          /\ \A b \in Brackets, t \in Tokens : ledger'.wallet[b][t] = ledger.wallet[b][t]
          /\ \A t \in Tokens :
                ledger.wallet[Master][t] - ledger'.wallet[Master][t] =
                  SumFunction([e \in Entry |-> IF TokenOf(e) = t THEN Head(queue).amount[e] ELSE 0])
      ]_vars
=============================================================================
