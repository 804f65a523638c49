------------------------- MODULE LiquidityFundsProofs -------------------------
(***************************************************************************)
(* Theorems about LiquidityFunds and FundsReturn, for every fleet, listing *)
(* and amount.                                                             *)
(***************************************************************************)
EXTENDS FundsReturn, SumTheorems, SequenceTheorems

(* What a call is asked to move is there.                                  *)
LEMMA AccountFacts ==
    ASSUME NEW acc \in Account
    PROVE  /\ Withdrawable(acc) \in Nat /\ Withdrawable(acc) <= acc.bal
           /\ GetWithdrawableAmount(acc) \in Nat
           /\ GetBalance(acc) \in Nat /\ GetBalance(acc) <= acc.bal
           /\ PaidByRequest(acc) \in Nat /\ PaidByRequest(acc) <= acc.bal
  BY DEF Account, Withdrawable, GetWithdrawableAmount, GetBalance, PaidByRequest, Min2

(* The exchange's operations keep accounts well formed.                    *)
LEMMA AccountTypes ==
    ASSUME NEW acc \in Account, NEW n \in Nat
    PROVE  /\ Deposit(acc, n) \in Account
           /\ Withdraw(acc) \in Account
           /\ Request(acc, n) \in Account
           /\ n <= acc.bal => Sell(acc, n) \in Account
           /\ Buy(acc, n) \in Account
           /\ NextBatchOf(acc) \in Account
           /\ AccountWith(n) \in Account
<1>1. /\ acc.dep + n \in Nat /\ acc.bal + n \in Nat /\ acc.bal + acc.dep \in Nat
      /\ acc.bal - Withdrawable(acc) \in Nat
      /\ acc.bal - PaidByRequest(acc) \in Nat
      /\ n <= acc.bal => acc.bal - n \in Nat
      /\ 0 \in Nat
  BY AccountFacts DEF Account
<1>2. (acc.credited \/ HasValidRequest(acc)) \in BOOLEAN
  BY DEF Account, HasValidRequest
<1>3. Deposit(acc, n) \in Account
  BY <1>1, Zenon DEF Account, Deposit
<1>4. Withdraw(acc) \in Account
  BY <1>1, Zenon DEF Account, Withdraw
<1>5. Request(acc, n) \in Account
  BY <1>1, Zenon DEF Account, Request
<1>6. n <= acc.bal => Sell(acc, n) \in Account
  BY <1>1, Zenon DEF Account, Sell
<1>7. Buy(acc, n) \in Account
  BY <1>1, <1>2, Zenon DEF Account, Buy
<1>8. NextBatchOf(acc) \in Account
  BY <1>1, Zenon DEF Account, NextBatchOf
<1>9. AccountWith(n) \in Account
  BY DEF Account, AccountWith
<1>10. QED
  BY <1>3, <1>4, <1>5, <1>6, <1>7, <1>8, <1>9
-----------------------------------------------------------------------------
(***************************************************************************)
(* Ledgers without a pending allowance, and what the calls do to them.     *)
(***************************************************************************)
Clean(L) == /\ L \in Ledgers
            /\ \A b \in Brackets, t \in Tokens : L.allowance[b][t] = 0

(* Moving what a holder has keeps the ledger well formed.                  *)
LEMMA MoveType ==
    ASSUME NEW L \in Ledgers, NEW from \in Holders, NEW to \in Holders,
           NEW t \in Tokens, NEW n \in Nat, n <= L.wallet[from][t]
    PROVE  /\ Move(L, from, to, t, n) \in Ledgers
           /\ Move(L, from, to, t, n).allowance = L.allowance
           /\ Move(L, from, to, t, n).exch = L.exch
<1> DEFINE w == Transferred(L.wallet, from, to, t, n)
<1>1. w \in [Holders -> [Tokens -> Nat]]
  <2> DEFINE paid == [L.wallet EXCEPT ![from][t] = L.wallet[from][t] - n]
  <2>1. paid \in [Holders -> [Tokens -> Nat]]
    BY DEF Ledgers
  <2>2. w = [paid EXCEPT ![to][t] = paid[to][t] + n]
    BY DEF Transferred
  <2> HIDE DEF paid, w
  <2>3. paid[to][t] + n \in Nat
    BY <2>1
  <2>4. QED
    BY <2>1, <2>2, <2>3
<1>2. Move(L, from, to, t, n) = [L EXCEPT !.wallet = w]
  BY DEF Move
<1> HIDE DEF w
<1>3. QED
  BY <1>1, <1>2, Zenon DEF Ledgers

(* Replacing one account by another keeps the ledger well formed.          *)
LEMMA SetAccountType ==
    ASSUME NEW L \in Ledgers, NEW b \in Brackets, NEW t \in Tokens, NEW acc \in Account
    PROVE  /\ SetAccount(L, b, t, acc) \in Ledgers
           /\ SetAccount(L, b, t, acc).allowance = L.allowance
<1>1. [L.exch EXCEPT ![b][t] = acc] \in [Brackets -> [Tokens -> Account]]
  BY DEF Ledgers
<1>2. SetAccount(L, b, t, acc) = [L EXCEPT !.exch = [L.exch EXCEPT ![b][t] = acc]]
  BY DEF SetAccount
<1>3. QED
  BY <1>1, <1>2, Zenon DEF Ledgers

(* An allowance is a number.                                               *)
LEMMA ApproveType ==
    ASSUME NEW L \in Ledgers, NEW b \in Brackets, NEW t \in Tokens, NEW n \in Nat
    PROVE  /\ Approve(L, b, t, n) \in Ledgers
           /\ Approve(L, b, t, n).allowance = [L.allowance EXCEPT ![b][t] = n]
           /\ Approve(L, b, t, n).allowance[b][t] = n
           /\ Approve(L, b, t, n).exch = L.exch
           /\ Approve(L, b, t, n).wallet = L.wallet
<1>1. [L.allowance EXCEPT ![b][t] = n] \in [Brackets -> [Tokens -> Nat]]
  BY DEF Ledgers
<1>2. Approve(L, b, t, n) = [L EXCEPT !.allowance = [L.allowance EXCEPT ![b][t] = n]]
  BY DEF Approve
<1>3. [L.allowance EXCEPT ![b][t] = n][b][t] = n
  BY DEF Ledgers
<1>4. QED
  BY <1>1, <1>2, <1>3, Zenon DEF Ledgers

Ops == {"placeOrder", "toBracket", "approveDeposit", "requestWithdraw", "withdraw", "toMaster"}

(* A call that succeeds leads from a clean ledger to a clean one: only     *)
(* approveDeposit touches an allowance, and uses up what it approves.      *)
LEMMA CallClean ==
    ASSUME NEW op \in Ops, NEW L, Clean(L), NEW b \in Brackets, NEW t \in Tokens,
           NEW n \in Nat, CallSucceeds(op, L, b, t, n)
    PROVE  Clean(CallEffect(op, L, b, t, n))
<1>1. /\ L \in Ledgers
      /\ b \in Holders /\ Master \in Holders /\ Exchange \in Holders
  BY DEF Holders, Clean
<1>2. L.exch[b][t] \in Account
  BY <1>1 DEF Ledgers
<1>3. CASE op = "placeOrder"
  <2>1. L.orders \cup {<<b, t>>} \in SUBSET (Brackets \X Tokens)
    BY <1>1 DEF Ledgers
  <2>2. CallEffect(op, L, b, t, n) = [L EXCEPT !.orders = L.orders \cup {<<b, t>>}]
    BY <1>3 DEF CallEffect
  <2>3. CallEffect(op, L, b, t, n) \in Ledgers /\ CallEffect(op, L, b, t, n).allowance = L.allowance
    BY <1>1, <2>1, <2>2, Zenon DEF Ledgers
  <2>4. QED
    BY <2>3 DEF Clean
<1>4. CASE op = "toBracket"
  <2>1. n <= L.wallet[Master][t]
    BY <1>4 DEF CallSucceeds
  <2>2. QED
    BY <1>1, <1>4, <2>1, MoveType DEF CallEffect, Clean
<1>5. CASE op = "toMaster"
  <2>1. n <= L.wallet[b][t]
    BY <1>5 DEF CallSucceeds
  <2>2. QED
    BY <1>1, <1>5, <2>1, MoveType DEF CallEffect, Clean
<1>6. CASE op = "approveDeposit"
  <2> DEFINE A == Approve(L, b, t, n)
             M == Move(A, b, Exchange, t, n)
             Z == Approve(M, b, t, A.allowance[b][t] - n)
  <2>1. A \in Ledgers /\ A.allowance = [L.allowance EXCEPT ![b][t] = n]
        /\ A.allowance[b][t] = n /\ A.exch = L.exch
    BY <1>1, ApproveType
  <2>2. n <= A.wallet[b][t]
    BY <1>6 DEF CallSucceeds, CanDeposit
  <2> HIDE DEF A
  <2>3. M \in Ledgers /\ M.allowance = A.allowance
    BY <1>1, <2>1, <2>2, MoveType
  <2>4. A.allowance[b][t] - n = 0
    BY <2>1
  <2> HIDE DEF M
  <2>5. Z \in Ledgers /\ Z.allowance = [A.allowance EXCEPT ![b][t] = 0]
    BY <2>3, <2>4, ApproveType
  <2>6. Deposit(A.exch[b][t], n) \in Account
    BY <1>2, <2>1, AccountTypes
  <2>7. CallEffect(op, L, b, t, n) = SetAccount(Z, b, t, Deposit(A.exch[b][t], n))
    BY <1>6, Zenon DEF CallEffect, DepositCall, A, M
  <2> HIDE DEF Z
  <2>8. \A c \in Brackets, u \in Tokens : Z.allowance[c][u] = 0
    <3>1. L.allowance \in [Brackets -> [Tokens -> Nat]]
      BY <1>1 DEF Ledgers
    <3>2. QED
      BY <3>1, <2>1, <2>5 DEF Clean
  <2> DEFINE D == Deposit(A.exch[b][t], n)
  <2> HIDE DEF D
  <2>9. /\ SetAccount(Z, b, t, D) \in Ledgers
        /\ SetAccount(Z, b, t, D).allowance = Z.allowance
    BY <2>5, <2>6, SetAccountType DEF D
  <2>10. QED
    BY <2>7, <2>8, <2>9 DEF Clean, D
<1>7. CASE op = "requestWithdraw"
  <2> DEFINE p == PaidByRequest(L.exch[b][t])
             M == Move(L, Exchange, b, t, p)
  <2>1. p \in Nat /\ p <= L.wallet[Exchange][t]
    BY <1>2, <1>7, AccountFacts DEF CallSucceeds
  <2>2. M \in Ledgers /\ M.allowance = L.allowance
    BY <1>1, <2>1, MoveType
  <2>3. Request(L.exch[b][t], n) \in Account
    BY <1>2, AccountTypes
  <2>4. CallEffect(op, L, b, t, n) = SetAccount(M, b, t, Request(L.exch[b][t], n))
    BY <1>7 DEF CallEffect, RequestCall
  <2> HIDE DEF M
  <2>5. QED
    BY <2>2, <2>3, <2>4, SetAccountType DEF Clean
<1>8. CASE op = "withdraw"
  <2> DEFINE p == Withdrawable(L.exch[b][t])
             M == Move(L, Exchange, b, t, p)
  <2>1. p \in Nat /\ p <= L.wallet[Exchange][t]
    BY <1>2, <1>8, AccountFacts DEF CallSucceeds
  <2>2. M \in Ledgers /\ M.allowance = L.allowance
    BY <1>1, <2>1, MoveType
  <2>3. Withdraw(L.exch[b][t]) \in Account
    BY <1>2, AccountTypes
  <2>4. CallEffect(op, L, b, t, n) = SetAccount(M, b, t, Withdraw(L.exch[b][t]))
    BY <1>8 DEF CallEffect, WithdrawCall
  <2> HIDE DEF M
  <2>5. QED
    BY <2>2, <2>3, <2>4, SetAccountType DEF Clean
<1>9. QED
  BY <1>3, <1>4, <1>5, <1>6, <1>7, <1>8 DEF Ops
-----------------------------------------------------------------------------
(***************************************************************************)
(* The inductive invariant: types, no allowance on the chain or on the copy*)
(* a bundle works on, and a running bundle makes only its own calls.       *)
(***************************************************************************)
Loaded == mode # "idle" => todo \subseteq Calls(Running)

IInv == /\ TypeOK
        /\ Clean(ledger)
        /\ Clean(work)
        /\ Loaded

(* The entry and the operation of every call of a bundle exist.            *)
LEMMA CallsType ==
    ASSUME NEW bundle \in Bundles, NEW k \in Calls(bundle)
    PROVE  /\ k \in 1..2*N
           /\ EntryOf(bundle.kind, k) \in Entry
           /\ OpOf(bundle.kind, k) \in Ops
<1>0. N \in Nat /\ bundle.kind \in AllKinds
  BY FundsAssumption DEF Bundles
<1>1. CASE bundle.kind = "claimTransfer"
  <2>1. k \in Entry \/ \E e \in Entry : k = N + e
    BY <1>1 DEF Calls, Listed
  <2>2. k \in 1..2*N /\ EntryOf(bundle.kind, k) \in Entry
    BY <1>0, <1>1, <2>1 DEF EntryOf, Entry
  <2>3. OpOf(bundle.kind, k) \in Ops
    BY <1>1 DEF OpOf, Ops
  <2>4. QED
    BY <2>2, <2>3
<1>2. CASE bundle.kind = "fund"
  <2>1. PICK e \in Entry : k = 2*e - 1 \/ k = 2*e
    BY <1>2 DEF Calls, Listed
  <2>2. e \in Nat /\ e >= 1 /\ e <= N
    BY <1>0 DEF Entry
  <2>3. (k + 1) \div 2 = e /\ k \in 1..2*N
    BY <1>0, <2>1, <2>2
  <2>4. EntryOf(bundle.kind, k) = (k + 1) \div 2
    BY <1>2 DEF EntryOf
  <2>5. OpOf(bundle.kind, k) \in Ops
    BY <1>2 DEF OpOf, Ops
  <2>6. QED
    BY <2>3, <2>4, <2>5
<1>3. CASE bundle.kind \notin {"claimTransfer", "fund"}
  <2>1. k \in Entry
    BY <1>0, <1>3 DEF Calls, Listed, AllKinds
  <2>2. EntryOf(bundle.kind, k) = k
    BY <1>0, <1>3 DEF EntryOf, AllKinds
  <2>3. OpOf(bundle.kind, k) \in Ops
    BY <1>0, <1>3 DEF OpOf, Ops, AllKinds
  <2>4. QED
    BY <1>0, <2>1, <2>2, <2>3 DEF Entry
<1>4. QED
  BY <1>1, <1>2, <1>3

(* The bundle being run exists.                                            *)
LEMMA RunningType == TypeOK /\ mode # "idle" => Running \in Bundles
<1> SUFFICES ASSUME TypeOK, mode # "idle" PROVE Running \in Bundles
  OBVIOUS
<1>1. script.bundle \in Bundles
  BY DEF TypeOK
<1>2. mode = "execute" => Head(queue) \in Bundles
  BY HeadTailProperties DEF TypeOK
<1>3. QED
  BY <1>1, <1>2 DEF Running, TypeOK

LEMMA InitIInv == Init => IInv
<1> SUFFICES ASSUME Init PROVE IInv
  OBVIOUS
<1>1. /\ MasterFunds \in Nat /\ BracketFunds \in Nat /\ MarketFunds \in Nat
      /\ MarketFunds + BracketFunds * Cardinality(Brackets) \in Nat
  BY FundsAssumption, FS_CardinalityType
<1>2. ledger \in Ledgers
  <2>1. ledger.wallet \in [Holders -> [Tokens -> Nat]]
    <3> DEFINE funds(h) == CASE h = Master   -> MasterFunds
                             [] h = Exchange -> MarketFunds + BracketFunds * Cardinality(Brackets)
                             [] OTHER        -> 0
    <3>1. \A h \in Holders : funds(h) \in Nat
      BY <1>1, FundsAssumption
    <3>2. ledger.wallet = [h \in Holders |-> [t \in Tokens |-> funds(h)]]
      BY DEF Init
    <3> HIDE DEF funds
    <3>3. QED
      BY <3>1, <3>2
  <2>2. ledger.exch \in [Brackets -> [Tokens -> Account]]
    <3>1. AccountWith(BracketFunds) \in Account
      BY <1>1 DEF AccountWith, Account
    <3>2. ledger.exch = [b \in Brackets |-> [t \in Tokens |-> AccountWith(BracketFunds)]]
      BY DEF Init
    <3>3. QED
      BY <3>1, <3>2
  <2>3. /\ ledger.allowance \in [Brackets -> [Tokens -> Nat]]
        /\ ledger.market \in [Tokens -> Nat]
        /\ ledger.orders \in SUBSET (Brackets \X Tokens)
    BY <1>1 DEF Init
  <2>4. ledger = [wallet |-> ledger.wallet, allowance |-> ledger.allowance,
                  exch |-> ledger.exch, market |-> ledger.market, orders |-> ledger.orders]
    BY DEF Init
  <2>5. QED
    BY <2>1, <2>2, <2>3, <2>4 DEF Ledgers
<1>3. Clean(ledger)
  BY <1>2 DEF Init, Clean
<1>4. script \in [pc : {"idle", "read", "limit", "send"}, unread : SUBSET Entry, bundle : Bundles]
  BY DEF Init, IdleScript, NoBundle, Bundles, AllKinds
<1>5. /\ queue \in Seq(Bundles) /\ mode = "idle" /\ failed \in BOOLEAN
      /\ todo \in SUBSET (1..2*N)
      /\ counts \in [scripts : Nat, executed : Nat, trades : Nat]
      /\ halted \in [Entry -> Halts]
  <2>1. queue = <<>> /\ mode = "idle" /\ failed = FALSE /\ todo = {}
    BY DEF Init
  <2>2. counts \in [scripts : Nat, executed : Nat, trades : Nat]
    BY DEF Init
  <2>3. halted \in [Entry -> Halts]
    BY DEF Init, Halts, NotHalted
  <2>4. <<>> \in Seq(Bundles)
    OBVIOUS
  <2>5. QED
    BY <2>1, <2>2, <2>3, <2>4
<1>6. work = ledger
  BY DEF Init
<1>7. TypeOK
  BY <1>2, <1>4, <1>5, <1>6 DEF TypeOK
<1>8. QED
  BY <1>3, <1>5, <1>6, <1>7 DEF IInv, Loaded
-----------------------------------------------------------------------------
(* The scripts change neither the chain nor the virtual machine.           *)
ScriptSteps ==
    \/ \E kind \in Kinds, asked \in SUBSET Entry : StartReading(kind, asked)
    \/ \E kind \in Kinds :
         \E amount \in {[e \in Entry |-> MaxAmount]} \cup [Entry -> ListAmounts] :
            StartListed(kind, amount)
    \/ \E e \in Entry : ReadAmount(e) \/ LimitAmount(e)
    \/ FinishReading
    \/ Decline

(* What a script reads is an amount.                                       *)
LEMMA AmountReadType ==
    ASSUME TypeOK, NEW kind, NEW e \in Entry
    PROVE  AmountRead(kind, e) \in Nat
<1>1. BracketOf(e) \in Brackets /\ TokenOf(e) \in Tokens /\ MaxAmount \in Nat
  BY FundsAssumption DEF BracketOf, TokenOf
<1>2. /\ ledger.exch[BracketOf(e)][TokenOf(e)] \in Account
      /\ ledger.wallet[BracketOf(e)][TokenOf(e)] \in Nat
  BY <1>1 DEF TypeOK, Ledgers, Holders
<1>3. GetWithdrawableAmount(ledger.exch[BracketOf(e)][TokenOf(e)]) \in Nat
  BY <1>2, AccountFacts
<1>4. QED
  BY <1>1, <1>2, <1>3 DEF AmountRead

LEMMA StartType ==
    ASSUME TypeOK, NEW kind \in AllKinds, NEW asked \in SUBSET Entry,
           NEW amount \in [Entry -> Nat], NEW pc \in {"read", "limit", "send"},
           NEW unread \in SUBSET Entry, Start(kind, asked, amount, pc, unread)
    PROVE  TypeOK'
<1>1. (pc = "read") \in BOOLEAN /\ counts.executed \in Nat /\ 0 \in Nat
  BY DEF TypeOK
<1>2. script'.bundle \in Bundles
  BY <1>1, Zenon DEF Start, Bundles
<1>3. script' \in [pc : {"idle", "read", "limit", "send"}, unread : SUBSET Entry, bundle : Bundles]
  BY <1>2 DEF Start
<1>4. counts' \in [scripts : Nat, executed : Nat, trades : Nat]
  BY SMTT(30) DEF Start, TypeOK
<1>5. QED
  BY <1>3, <1>4 DEF Start, TypeOK

LEMMA ScriptStepsType == TypeOK /\ ScriptSteps => TypeOK'
<1> SUFFICES ASSUME TypeOK, ScriptSteps PROVE TypeOK'
  OBVIOUS
<1> USE DEF ScriptSteps
<1>0. /\ Kinds \subseteq AllKinds /\ MaxAmount \in Nat /\ ListAmounts \subseteq Nat
      /\ script.bundle \in Bundles /\ script.unread \in SUBSET Entry
      /\ script.bundle.amount \in [Entry -> Nat]
  BY FundsAssumption DEF TypeOK, Bundles
<1>1. ASSUME NEW kind \in Kinds, NEW asked \in SUBSET Entry, StartReading(kind, asked)
      PROVE  TypeOK'
  BY <1>0, <1>1, StartType DEF StartReading
<1>2. ASSUME NEW kind \in Kinds,
             NEW amount \in {[e \in Entry |-> MaxAmount]} \cup [Entry -> ListAmounts],
             StartListed(kind, amount)
      PROVE  TypeOK'
  <2>1. amount \in [Entry -> Nat] /\ Listed(amount) \in SUBSET Entry
    BY <1>0 DEF Listed
  <2>2. QED
    BY <1>0, <1>2, <2>1, StartType DEF StartListed
<1>3. ASSUME NEW e \in Entry, NEW n \in Nat, NEW unread \in SUBSET Entry,
             NEW pc \in {"read", "limit", "send"},
             script' = [script EXCEPT !.pc = pc, !.unread = unread, !.bundle.amount[e] = n],
             UNCHANGED <<ledger, queue, mode, todo, work, failed, counts, halted>>
      PROVE  TypeOK'
  <2> DEFINE amount == [script.bundle.amount EXCEPT ![e] = n]
             bundle == [script.bundle EXCEPT !.amount = amount]
  <2>1. amount \in [Entry -> Nat]
    BY <1>0
  <2>2. bundle \in Bundles
    BY <1>0, <2>1, Zenon DEF Bundles
  <2>3. script' = [script EXCEPT !.pc = pc, !.unread = unread, !.bundle = bundle]
    BY <1>3, Zenon
  <2> HIDE DEF bundle
  <2>4. script' \in [pc : {"idle", "read", "limit", "send"}, unread : SUBSET Entry, bundle : Bundles]
    BY <2>2, <2>3, Zenon DEF TypeOK
  <2>5. QED
    BY <1>3, <2>4 DEF TypeOK
<1>4. ASSUME NEW e \in Entry, ReadAmount(e) PROVE TypeOK'
  <2>1. AmountRead(script.bundle.kind, e) \in Nat
    BY AmountReadType
  <2>2. script.unread \ {e} \in SUBSET Entry /\ script.pc = "read"
    BY <1>0, <1>4 DEF ReadAmount
  <2>3. script' = [script EXCEPT !.pc = "read", !.unread = script.unread \ {e},
                                 !.bundle.amount[e] = AmountRead(script.bundle.kind, e)]
    <3>1. script = [script EXCEPT !.pc = "read"]
      BY <2>2 DEF TypeOK
    <3>2. QED
      BY <1>4, <2>2, <3>1 DEF ReadAmount, TypeOK
  <2>4. UNCHANGED <<ledger, queue, mode, todo, work, failed, counts, halted>>
    BY <1>4 DEF ReadAmount
  <2>5. QED
    BY <1>3, <2>1, <2>2, <2>3, <2>4
<1>5. ASSUME NEW e \in Entry, LimitAmount(e) PROVE TypeOK'
  <2> DEFINE limit == Min2(script.bundle.amount[e], ledger.wallet[BracketOf(e)][TokenOf(e)])
             pc == IF script.unread = {e} THEN "send" ELSE script.pc
  <2>1. ledger.wallet[BracketOf(e)][TokenOf(e)] \in Nat
    <3>1. BracketOf(e) \in Holders /\ TokenOf(e) \in Tokens
      BY FundsAssumption DEF Holders, BracketOf, TokenOf
    <3>2. ledger.wallet \in [Holders -> [Tokens -> Nat]]
      BY DEF TypeOK, Ledgers
    <3>3. QED
      BY <3>1, <3>2
  <2>2. limit \in Nat
    BY <1>0, <2>1 DEF Min2
  <2>3. pc \in {"read", "limit", "send"} /\ script.unread \ {e} \in SUBSET Entry
    <3>1. script.pc = "limit"
      BY <1>5, Zenon DEF LimitAmount
    <3>2. QED
      BY <1>0, <3>1
  <2>4. script' = [script EXCEPT !.pc = pc, !.unread = script.unread \ {e},
                                 !.bundle.amount[e] = limit]
    BY <1>5, Zenon DEF LimitAmount
  <2>5. UNCHANGED <<ledger, queue, mode, todo, work, failed, counts, halted>>
    BY <1>5, Zenon DEF LimitAmount
  <2> HIDE DEF limit, pc
  <2>6. QED
    BY <1>3, <2>2, <2>3, <2>4, <2>5
<1>6. CASE FinishReading
  <2>1. Listed(script.bundle.amount) \in SUBSET Entry
    BY DEF Listed
  <2>2. IdleScript \in [pc : {"idle", "read", "limit", "send"}, unread : SUBSET Entry, bundle : Bundles]
    BY DEF IdleScript, NoBundle, Bundles, AllKinds
  <2>3. script' \in [pc : {"idle", "read", "limit", "send"}, unread : SUBSET Entry, bundle : Bundles]
    BY <1>6, <2>1, <2>2 DEF FinishReading, TypeOK
  <2>4. QED
    BY <1>6, <2>3 DEF FinishReading, TypeOK
<1>7. CASE Decline
  <2>1. IdleScript \in [pc : {"idle", "read", "limit", "send"}, unread : SUBSET Entry, bundle : Bundles]
    BY DEF IdleScript, NoBundle, Bundles, AllKinds
  <2>2. QED
    BY <1>7, <2>1 DEF Decline, TypeOK
<1>8. QED
  BY <1>1, <1>2, <1>4, <1>5, <1>6, <1>7
-----------------------------------------------------------------------------
(* A step of a script leaves the chain and the machine alone.              *)
LEMMA ScriptStepsIInv == IInv /\ ScriptSteps => IInv'
<1> SUFFICES ASSUME IInv, ScriptSteps PROVE IInv'
  OBVIOUS
<1>1. TypeOK'
  BY ScriptStepsType DEF IInv
<1>2. UNCHANGED <<ledger, mode, work>> /\ mode = "idle"
  BY DEF ScriptSteps, StartReading, StartListed, Start, ReadAmount, LimitAmount,
         FinishReading, Decline
<1>3. QED
  BY <1>1, <1>2 DEF IInv, Clean, Loaded

(* A bundle is loaded with all its calls and a copy of the ledger.         *)
LEMMA LoadIInv ==
    ASSUME IInv, NEW m \in {"estimate", "execute"}, NEW bundle \in Bundles,
           Load(m, bundle), UNCHANGED <<ledger, script, queue, counts, halted>>,
           m = "execute" => queue # <<>>, Running' = bundle
    PROVE  IInv'
<1>1. Calls(bundle) \in SUBSET (1..2*N)
  BY CallsType
<1>2. TypeOK'
  BY <1>1 DEF IInv, TypeOK, Load
<1>3. Clean(ledger)' /\ Clean(work)'
  BY DEF IInv, Load, Clean
<1>4. Loaded'
  BY DEF Load, Loaded
<1>5. QED
  BY <1>2, <1>3, <1>4 DEF IInv

LEMMA RunCallIInv == IInv /\ RunCall => IInv'
<1> SUFFICES ASSUME IInv, RunCall PROVE IInv'
  OBVIOUS
<1>1. TypeOK /\ mode # "idle" /\ Running \in Bundles /\ todo \subseteq Calls(Running)
  BY RunningType DEF IInv, RunCall, Loaded
<1> DEFINE ent(k) == EntryOf(Running.kind, k)
           op(k)  == OpOf(Running.kind, k)
           ok(k)  == CallSucceeds(op(k), work, BracketOf(ent(k)), TokenOf(ent(k)), Running.amount[ent(k)])
           eff(k) == CallEffect(op(k), work, BracketOf(ent(k)), TokenOf(ent(k)), Running.amount[ent(k)])
<1>2. PICK k \in todo :
        /\ todo' = todo \ {k}
        /\ \/ ok(k) /\ work' = eff(k) /\ UNCHANGED failed
           \/ ~ok(k) /\ failed' = (op(k) = "toBracket") /\ UNCHANGED work
  BY DEF RunCall
<1>3. UNCHANGED <<ledger, script, queue, mode, counts, halted>>
  BY DEF RunCall
<1>4. ent(k) \in Entry /\ op(k) \in Ops
  BY <1>1, CallsType
<1>5. /\ BracketOf(ent(k)) \in Brackets /\ TokenOf(ent(k)) \in Tokens
      /\ Running.amount[ent(k)] \in Nat
  BY <1>1, <1>4, FundsAssumption DEF Bundles, BracketOf, TokenOf
<1>6. Clean(work)
  BY DEF IInv
<1>7. ok(k) => Clean(eff(k))
  BY <1>4, <1>5, <1>6, CallClean
<1>8. Clean(work')
  BY <1>2, <1>6, <1>7
<1>9. failed' \in BOOLEAN
  <2>1. (op(k) = "toBracket") \in BOOLEAN /\ failed \in BOOLEAN
    BY <1>1, FundsAssumption DEF TypeOK
  <2>2. QED
    BY <1>2, <2>1
<1>10. todo' \subseteq todo
  BY <1>2
<1> HIDE DEF ent, op, ok, eff
<1>11. TypeOK'
  <2>1. work' \in Ledgers
    BY <1>8 DEF Clean
  <2>2. todo' \in SUBSET (1..2*N)
    BY <1>1, <1>10 DEF TypeOK
  <2>3. QED
    BY <1>1, <1>3, <1>9, <2>1, <2>2 DEF TypeOK
<1>12. Clean(ledger)'
  BY <1>3 DEF IInv, Clean
<1>13. Loaded'
  BY <1>1, <1>3, <1>10 DEF Loaded, Running
<1>14. QED
  BY <1>8, <1>11, <1>12, <1>13 DEF IInv, Clean

LEMMA FinishEstimateIInv == IInv /\ FinishEstimate => IInv'
<1> SUFFICES ASSUME IInv, FinishEstimate PROVE IInv'
  OBVIOUS
<1> DEFINE bundle == [script.bundle EXCEPT !.estimated = counts.executed]
<1>1. bundle \in Bundles
  <2>1. counts.executed \in Nat /\ script.bundle \in Bundles
    BY DEF IInv, TypeOK
  <2>2. QED
    BY <2>1, Zenon DEF Bundles
<1> HIDE DEF bundle
<1>2. queue' \in Seq(Bundles)
  <2>1. queue' = queue \/ queue' = Append(queue, bundle)
    BY DEF FinishEstimate, bundle
  <2>2. queue \in Seq(Bundles)
    BY DEF IInv, TypeOK
  <2>3. Append(queue, bundle) \in Seq(Bundles)
    BY <1>1, <2>2, AppendProperties
  <2>4. QED
    BY <2>1, <2>2, <2>3
<1>3. script' \in [pc : {"idle", "read", "limit", "send"}, unread : SUBSET Entry, bundle : Bundles]
  BY DEF FinishEstimate, IdleScript, NoBundle, Bundles, AllKinds
<1>4. /\ ledger' = ledger /\ work' = ledger /\ mode' = "idle" /\ todo' = {}
      /\ failed' = FALSE /\ UNCHANGED <<counts, halted>>
  BY DEF FinishEstimate, Unload
<1>5. TypeOK'
  BY <1>2, <1>3, <1>4 DEF IInv, TypeOK
<1>6. QED
  BY <1>4, <1>5 DEF IInv, Clean, Loaded

(* What a bundle leaves of the requests is one of the declared cases.      *)
LEMMA HaltedByType ==
    ASSUME TypeOK, NEW bundle
    PROVE  HaltedBy(bundle) \in [Entry -> Halts]
<1>1. ASSUME NEW e \in Entry
      PROVE  HaltedBy(bundle)[e] \in Halts
  <2>1. halted[e] \in Halts /\ NotHalted \in Halts
    BY DEF TypeOK, Halts, NotHalted
  <2>2. [told |-> "asked", request |-> RequestOf(bundle, e)] \in Halts
    BY DEF RequestOf, Halts
  <2>3. HaltedBy(bundle)[e] \in {halted[e], NotHalted,
                                 [told |-> "asked", request |-> RequestOf(bundle, e)]}
    BY DEF HaltedBy
  <2>4. QED
    BY <2>1, <2>2, <2>3
<1>2. HaltedBy(bundle) = [e \in Entry |-> HaltedBy(bundle)[e]]
  BY DEF HaltedBy
<1>3. QED
  BY <1>1, <1>2

LEMMA FinishExecuteIInv == IInv /\ FinishExecute => IInv'
<1> SUFFICES ASSUME IInv, FinishExecute PROVE IInv'
  OBVIOUS
<1>1. queue \in Seq(Bundles) /\ queue # <<>>
  BY DEF IInv, TypeOK, FinishExecute
<1>2. queue' \in Seq(Bundles)
  BY <1>1, HeadTailProperties DEF FinishExecute
<1>3. counts' \in [scripts : Nat, executed : Nat, trades : Nat]
  BY SMTT(30) DEF FinishExecute, IInv, TypeOK
<1>4. halted' \in [Entry -> Halts]
  BY HaltedByType DEF FinishExecute, IInv, TypeOK
<1>5. Clean(ledger')
  BY DEF FinishExecute, IInv
<1>6. /\ work' = ledger' /\ mode' = "idle" /\ todo' = {} /\ failed' = FALSE
      /\ script' = script
  BY DEF FinishExecute, Unload
<1>7. TypeOK'
  BY <1>2, <1>3, <1>4, <1>5, <1>6 DEF IInv, TypeOK, Clean
<1>8. QED
  BY <1>5, <1>6, <1>7 DEF IInv, Clean, Loaded

LEMMA TradeIInv ==
    ASSUME IInv, NEW b \in Brackets, NEW t \in Tokens, NEW n \in Nat, Trade(b, t, n)
    PROVE  IInv'
<1> DEFINE sold   == Sell(ledger.exch[b][t], n)
           bought == Buy(ledger.exch[b][Other(t)], n)
           exch   == [[ledger.exch EXCEPT ![b][t] = sold] EXCEPT ![b][Other(t)] = bought]
           market == [[ledger.market EXCEPT ![t] = @ + n] EXCEPT ![Other(t)] = @ - n]
<1>1. Other(t) \in Tokens /\ Other(t) # t
  BY FundsAssumption DEF Tokens, Other
<1>2. /\ ledger \in Ledgers
      /\ ledger.exch[b][t] \in Account /\ ledger.exch[b][Other(t)] \in Account
  <2>1. ledger \in Ledgers
    BY DEF IInv, TypeOK
  <2>2. ledger.exch \in [Brackets -> [Tokens -> Account]]
    BY <2>1 DEF Ledgers
  <2>3. QED
    BY <1>1, <2>1, <2>2
<1>3. n <= ledger.exch[b][t].bal
  BY <1>2, AccountFacts DEF Trade, Account
<1>4. sold \in Account /\ bought \in Account
  BY <1>2, <1>3, AccountTypes
<1>5. exch \in [Brackets -> [Tokens -> Account]]
  <2> HIDE DEF sold, bought
  <2>1. QED
    BY <1>2, <1>4 DEF Ledgers
<1>6. market \in [Tokens -> Nat]
  BY <1>1, <1>2 DEF Trade, Ledgers
<1>7. ledger' = [ledger EXCEPT !.exch = exch, !.market = market]
  <2>1. ledger.exch[b][Other(t)] = [ledger.exch EXCEPT ![b][t] = sold][b][Other(t)]
    BY <1>1, <1>2, Zenon DEF Ledgers
  <2>2. QED
    BY <1>1, <1>2, <2>1, Zenon DEF Trade, Ledgers
<1> HIDE DEF exch, market
<1>8. ledger' \in Ledgers /\ ledger'.allowance = ledger.allowance
  BY <1>2, <1>5, <1>6, <1>7, Zenon DEF Ledgers
<1>9. Clean(ledger')
  BY <1>8 DEF IInv, Clean
<1>10. counts' \in [scripts : Nat, executed : Nat, trades : Nat]
  BY SMTT(30) DEF Trade, IInv, TypeOK
<1>11. /\ work' = ledger' /\ UNCHANGED <<script, queue, mode, todo, failed, halted>>
       /\ mode = "idle"
  BY DEF Trade
<1>12. TypeOK'
  BY <1>8, <1>10, <1>11 DEF IInv, TypeOK
<1>13. QED
  BY <1>9, <1>11, <1>12 DEF IInv, Clean, Loaded

LEMMA NextBatchIInv == IInv /\ NextBatch => IInv'
<1> SUFFICES ASSUME IInv, NextBatch PROVE IInv'
  OBVIOUS
<1> DEFINE exch == [b \in Brackets |-> [t \in Tokens |-> NextBatchOf(ledger.exch[b][t])]]
<1>1. ledger \in Ledgers
  BY DEF IInv, TypeOK
<1>2. exch \in [Brackets -> [Tokens -> Account]]
  BY <1>1, AccountTypes DEF Ledgers
<1>3. ledger' = [ledger EXCEPT !.exch = exch]
  BY DEF NextBatch
<1> HIDE DEF exch
<1>4. ledger' \in Ledgers /\ ledger'.allowance = ledger.allowance
  BY <1>1, <1>2, <1>3, Zenon DEF Ledgers
<1>5. Clean(ledger')
  BY <1>4 DEF IInv, Clean
<1>6. halted' \in [Entry -> Halts]
  <2>1. \A e \in Entry : halted[e] \in Halts /\ [halted[e] EXCEPT !.told = "yes"] \in Halts
    BY DEF IInv, TypeOK, Halts
  <2>2. QED
    BY <2>1 DEF NextBatch
<1>7. work' = ledger' /\ UNCHANGED <<script, queue, mode, todo, failed, counts>> /\ mode = "idle"
  BY DEF NextBatch
<1>8. TypeOK'
  BY <1>4, <1>6, <1>7 DEF IInv, TypeOK
<1>9. QED
  BY <1>5, <1>7, <1>8 DEF IInv, Clean, Loaded
-----------------------------------------------------------------------------
(* Every step preserves the invariant.                                     *)
LEMMA StepIInv == IInv /\ [Next]_vars => IInv'
<1> SUFFICES ASSUME IInv, [Next]_vars PROVE IInv'
  OBVIOUS
<1>1. CASE ScriptSteps
  BY <1>1, ScriptStepsIInv
<1>2. CASE StartEstimate
  <2>1. script.bundle \in Bundles
    BY DEF IInv, TypeOK
  <2>2. Running' = script.bundle
    BY <1>2 DEF StartEstimate, Load, Running
  <2>3. QED
    BY <1>2, <2>1, <2>2, LoadIInv DEF StartEstimate
<1>3. CASE StartExecute
  <2>1. queue # <<>> /\ Head(queue) \in Bundles
    BY <1>3, HeadTailProperties DEF IInv, TypeOK, StartExecute
  <2>2. Running' = Head(queue)
    BY <1>3 DEF StartExecute, Load, Running
  <2>3. QED
    BY <1>3, <2>1, <2>2, LoadIInv DEF StartExecute
<1>4. CASE RunCall
  BY <1>4, RunCallIInv
<1>5. CASE FinishEstimate
  BY <1>5, FinishEstimateIInv
<1>6. CASE FinishExecute
  BY <1>6, FinishExecuteIInv
<1>7. CASE \E b \in Brackets, t \in Tokens, n \in TradeSizes : Trade(b, t, n)
  BY <1>7, TradeIInv, FundsAssumption
<1>8. CASE NextBatch
  BY <1>8, NextBatchIInv
<1>9. CASE UNCHANGED vars
  <2>1. TypeOK'
    BY <1>9 DEF IInv, TypeOK, vars
  <2>2. QED
    BY <1>9, <2>1 DEF IInv, Clean, Loaded, Running, vars
<1>10. QED
  BY <1>1, <1>2, <1>3, <1>4, <1>5, <1>6, <1>7, <1>8, <1>9 DEF Next, ScriptSteps

(* The state of the model is what it is declared to be: in particular no   *)
(* call ever moves more than its source has, and no bundle's call is about *)
(* a pair that does not exist.                                             *)
THEOREM TypeCorrect == Spec => []TypeOK
<1>1. IInv => TypeOK
  BY DEF IInv
<1>2. QED
  BY InitIInv, StepIInv, <1>1, PTL DEF Spec

(* Between two transactions no bracket ever leaves an allowance to the     *)
(* exchange behind, whatever bundles ran, failed or were overtaken.        *)
THEOREM NoAllowanceLeftOver == Spec => []NoAllowanceLeft
<1>1. IInv => NoAllowanceLeft
  BY DEF IInv, Clean, NoAllowanceLeft
<1>2. QED
  BY InitIInv, StepIInv, <1>1, PTL DEF Spec
-----------------------------------------------------------------------------
(***************************************************************************)
(* The exchange owes what it holds.  What it owes the brackets is a sum    *)
(* over all of them; no step changes what it owes more than one of them.   *)
(***************************************************************************)
Credit(acc)  == acc.bal + acc.dep
Held(L, t)   == [b \in Brackets |-> L.exch[b][t].bal + L.exch[b][t].dep]
Covers(L, t) == L.wallet[Exchange][t] = L.market[t] + SumFunctionOnSet(Held(L, t), Brackets)
Solvent(L)   == \A t \in Tokens : Covers(L, t)

(* What the accounts of two ledgers differ in, for one token.              *)
SameOthers(L, M, b, t) ==
    \A c \in Brackets \ {b} : Credit(M.exch[c][t]) = Credit(L.exch[c][t])

LEMMA CreditType ==
    ASSUME NEW L \in Ledgers, NEW b \in Brackets, NEW t \in Tokens
    PROVE  /\ L.exch[b][t] \in Account
           /\ Credit(L.exch[b][t]) \in Int
           /\ Held(L, t)[b] = Credit(L.exch[b][t])
           /\ L.wallet[Exchange][t] \in Int /\ L.market[t] \in Int
<1>1. L.exch[b][t] \in Account
  BY DEF Ledgers
<1>2. Credit(L.exch[b][t]) \in Int
  BY <1>1 DEF Account, Credit
<1>3. Held(L, t)[b] = Credit(L.exch[b][t])
  BY DEF Held, Credit
<1>4. L.wallet[Exchange][t] \in Int /\ L.market[t] \in Int
  BY DEF Ledgers, Holders
<1>5. QED
  BY <1>1, <1>2, <1>3, <1>4

(* The exchange holds more by what the other traders and one bracket have  *)
(* more: it still holds what it owes.                                      *)
LEMMA CoversStill ==
    ASSUME NEW L \in Ledgers, NEW M \in Ledgers, NEW t \in Tokens, NEW b \in Brackets,
           Covers(L, t), SameOthers(L, M, b, t),
           M.wallet[Exchange][t] - L.wallet[Exchange][t]
             = (M.market[t] - L.market[t]) + (Credit(M.exch[b][t]) - Credit(L.exch[b][t]))
    PROVE  Covers(M, t)
<1> DEFINE f == Held(L, t)
           g == Held(M, t)
<1>1. \A c \in Brackets : /\ f[c] = Credit(L.exch[c][t]) /\ f[c] \in Int
                          /\ g[c] = Credit(M.exch[c][t]) /\ g[c] \in Int
  BY CreditType
<1>2. \A c \in Brackets \ {b} : g[c] = f[c]
  BY <1>1 DEF SameOthers
<1>3. IsFiniteSet(Brackets)
  BY FundsAssumption
<1> HIDE DEF f, g
<1>4. SumFunctionOnSet(g, Brackets) = SumFunctionOnSet(f, Brackets) + (g[b] - f[b])
  BY <1>1, <1>2, <1>3, SumChange
<1>5. SumFunctionOnSet(f, Brackets) \in Int
  BY <1>1, <1>3, SumInteger
<1>6. /\ L.wallet[Exchange][t] \in Int /\ M.wallet[Exchange][t] \in Int
      /\ L.market[t] \in Int /\ M.market[t] \in Int
  BY CreditType
<1>7. L.wallet[Exchange][t] = L.market[t] + SumFunctionOnSet(f, Brackets)
  BY DEF Covers, f
<1>8. M.wallet[Exchange][t] - L.wallet[Exchange][t] = (M.market[t] - L.market[t]) + (g[b] - f[b])
  BY <1>1
<1>9. f[b] \in Int /\ g[b] \in Int
  BY <1>1
<1>10. M.wallet[Exchange][t] = M.market[t] + SumFunctionOnSet(g, Brackets)
  BY <1>4, <1>5, <1>6, <1>7, <1>8, <1>9
<1>11. QED
  BY <1>10 DEF Covers, g

(* Nothing the exchange holds or owes of a token is touched.               *)
LEMMA CoversSame ==
    ASSUME NEW L \in Ledgers, NEW M \in Ledgers, NEW t \in Tokens, Covers(L, t),
           \A c \in Brackets : Credit(M.exch[c][t]) = Credit(L.exch[c][t]),
           M.wallet[Exchange][t] = L.wallet[Exchange][t], M.market[t] = L.market[t]
    PROVE  Covers(M, t)
<1>1. \A c \in Brackets : Held(M, t)[c] = Held(L, t)[c]
  BY CreditType
<1>2. SumFunctionOnSet(Held(M, t), Brackets) = SumFunctionOnSet(Held(L, t), Brackets)
  BY <1>1, FundsAssumption, SumSame
<1>3. QED
  BY <1>2 DEF Covers

(* One account and what the exchange holds change by the same amount.      *)
LEMMA SolventStill ==
    ASSUME NEW L \in Ledgers, NEW M \in Ledgers, NEW b \in Brackets, NEW t \in Tokens, NEW d \in Int,
           Solvent(L), M.market = L.market,
           \A c \in Brackets, u \in Tokens :
              <<c, u>> # <<b, t>> => M.exch[c][u] = L.exch[c][u],
           Credit(M.exch[b][t]) = Credit(L.exch[b][t]) + d,
           \A u \in Tokens : M.wallet[Exchange][u] = L.wallet[Exchange][u] + (IF u = t THEN d ELSE 0)
    PROVE  Solvent(M)
<1>1. ASSUME NEW u \in Tokens, u # t
      PROVE  Covers(M, u)
  <2>1. \A c \in Brackets : Credit(M.exch[c][u]) = Credit(L.exch[c][u])
    BY <1>1
  <2>2. L.wallet[Exchange][u] \in Int
    BY CreditType
  <2>3. M.wallet[Exchange][u] = L.wallet[Exchange][u]
    BY <1>1, <2>2
  <2>4. QED
    BY <2>1, <2>3, CoversSame DEF Solvent
<1>2. Covers(M, t)
  <2>1. SameOthers(L, M, b, t)
    BY DEF SameOthers
  <2>2. /\ L.wallet[Exchange][t] \in Int /\ L.market[t] \in Int /\ Credit(L.exch[b][t]) \in Int
    BY CreditType
  <2>3. M.wallet[Exchange][t] = L.wallet[Exchange][t] + d
    OBVIOUS
  <2>4. M.wallet[Exchange][t] - L.wallet[Exchange][t]
          = (M.market[t] - L.market[t]) + (Credit(M.exch[b][t]) - Credit(L.exch[b][t]))
    BY <2>2, <2>3
  <2>5. QED
    BY <2>1, <2>4, CoversStill DEF Solvent
<1>3. QED
  BY <1>1, <1>2 DEF Solvent

(* What a transfer changes.                                                *)
Shift(h, u, from, to, t, n) ==
    IF u # t THEN 0 ELSE IF h = from THEN -n ELSE IF h = to THEN n ELSE 0

LEMMA MoveEffect ==
    ASSUME NEW L \in Ledgers, NEW from \in Holders, NEW to \in Holders, from # to,
           NEW t \in Tokens, NEW n \in Nat
    PROVE  /\ Move(L, from, to, t, n).exch = L.exch
           /\ Move(L, from, to, t, n).market = L.market
           /\ \A h \in Holders, u \in Tokens :
                 Move(L, from, to, t, n).wallet[h][u]
                   = L.wallet[h][u] + Shift(h, u, from, to, t, n)
<1> DEFINE paid == [L.wallet EXCEPT ![from][t] = L.wallet[from][t] - n]
           w == [paid EXCEPT ![to][t] = paid[to][t] + n]
<1>1. Move(L, from, to, t, n) = [L EXCEPT !.wallet = w]
  BY DEF Move, Transferred
<1>2. L.wallet \in [Holders -> [Tokens -> Nat]]
  BY DEF Ledgers
<1>3. paid \in [Holders -> [Tokens -> Int]] /\ w \in [Holders -> [Tokens -> Int]]
  <2>1. paid \in [Holders -> [Tokens -> Int]]
    BY <1>2
  <2> HIDE DEF paid
  <2>2. QED
    BY <2>1
<1>4. ASSUME NEW h \in Holders, NEW u \in Tokens
      PROVE  w[h][u] = L.wallet[h][u] + Shift(h, u, from, to, t, n)
  <2>1. paid[h][u] = IF from = h /\ u = t THEN L.wallet[h][u] - n
                                          ELSE L.wallet[h][u]
    BY <1>2
  <2>2. w[h][u] = IF to = h /\ u = t THEN paid[h][u] + n
                                     ELSE paid[h][u]
    <3> HIDE DEF paid
    <3>1. QED
      BY <1>2, <1>3
  <2>3. L.wallet[h][u] \in Int
    BY <1>2
  <2> HIDE DEF paid, w
  <2>4. QED
    BY <2>1, <2>2, <2>3 DEF Shift
<1> HIDE DEF w
<1>5. [L EXCEPT !.wallet = w].wallet = w
  BY Zenon DEF Ledgers
<1>6. QED
  BY <1>1, <1>4, <1>5

(* What replacing an account changes.                                      *)
LEMMA SetAccountEffect ==
    ASSUME NEW L \in Ledgers, NEW b \in Brackets, NEW t \in Tokens, NEW acc
    PROVE  /\ SetAccount(L, b, t, acc).wallet = L.wallet
           /\ SetAccount(L, b, t, acc).market = L.market
           /\ SetAccount(L, b, t, acc).exch[b][t] = acc
           /\ \A c \in Brackets, u \in Tokens :
                 <<c, u>> # <<b, t>> => SetAccount(L, b, t, acc).exch[c][u] = L.exch[c][u]
<1> DEFINE x == [L.exch EXCEPT ![b][t] = acc]
<1>1. SetAccount(L, b, t, acc) = [L EXCEPT !.exch = x]
  BY DEF SetAccount
<1>2. L.exch \in [Brackets -> [Tokens -> Account]]
  BY DEF Ledgers
<1>3. x[b][t] = acc
  BY <1>2
<1>4. \A c \in Brackets, u \in Tokens : <<c, u>> # <<b, t>> => x[c][u] = L.exch[c][u]
  BY <1>2
<1> HIDE DEF x
<1>5. [L EXCEPT !.exch = x].exch = x
  BY Zenon DEF Ledgers
<1>6. QED
  BY <1>1, <1>3, <1>4, <1>5

LEMMA ApproveEffect ==
    ASSUME NEW L \in Ledgers, NEW b \in Brackets, NEW t \in Tokens, NEW n
    PROVE  /\ Approve(L, b, t, n).wallet = L.wallet
           /\ Approve(L, b, t, n).market = L.market
           /\ Approve(L, b, t, n).exch = L.exch
BY DEF Approve

LEMMA ApprovedAmount ==
    ASSUME NEW L \in Ledgers, NEW b \in Brackets, NEW t \in Tokens, NEW n \in Nat
    PROVE  Approve(L, b, t, n).allowance[b][t] = n
<1>1. /\ Approve(L, b, t, n) \in Ledgers
      /\ Approve(L, b, t, n).allowance = [L.allowance EXCEPT ![b][t] = n]
      /\ Approve(L, b, t, n).allowance[b][t] = n
  BY ApproveType
<1>2. QED
  BY <1>1

(* What the exchange's operations change in what it owes.                  *)
LEMMA CreditChanges ==
    ASSUME NEW acc \in Account, NEW n \in Nat
    PROVE  /\ Credit(Deposit(acc, n)) = Credit(acc) + n
           /\ Credit(Request(acc, n)) = Credit(acc) - PaidByRequest(acc)
           /\ Credit(Withdraw(acc)) = Credit(acc) - Withdrawable(acc)
           /\ Credit(Sell(acc, n)) = Credit(acc) - n
           /\ Credit(Buy(acc, n)) = Credit(acc) + n
           /\ Credit(NextBatchOf(acc)) = Credit(acc)
           /\ Credit(AccountWith(n)) = n
<1>1. /\ acc.bal \in Int /\ acc.dep \in Int
      /\ PaidByRequest(acc) \in Int /\ Withdrawable(acc) \in Int
  BY AccountFacts DEF Account
<1>2. /\ Deposit(acc, n).bal = acc.bal /\ Deposit(acc, n).dep = acc.dep + n
  BY DEF Account, Deposit
<1>3. /\ Request(acc, n).bal = acc.bal - PaidByRequest(acc) /\ Request(acc, n).dep = acc.dep
  BY Zenon DEF Account, Request
<1>4. /\ Withdraw(acc).bal = acc.bal - Withdrawable(acc) /\ Withdraw(acc).dep = acc.dep
  BY Zenon DEF Account, Withdraw
<1>5. /\ Sell(acc, n).bal = acc.bal - n /\ Sell(acc, n).dep = acc.dep
  BY DEF Account, Sell
<1>6. /\ Buy(acc, n).bal = acc.bal + n /\ Buy(acc, n).dep = acc.dep
  BY Zenon DEF Account, Buy
<1>7. /\ NextBatchOf(acc).bal = acc.bal + acc.dep /\ NextBatchOf(acc).dep = 0
  BY Zenon DEF Account, NextBatchOf
<1>8. /\ AccountWith(n).bal = n /\ AccountWith(n).dep = 0
  BY DEF AccountWith
<1>9. QED
  BY <1>1, <1>2, <1>3, <1>4, <1>5, <1>6, <1>7, <1>8 DEF Credit

(* No call that succeeds makes the exchange owe more or less than it holds:*)
(* a deposit brings what it credits, a withdrawal and a request pay what   *)
(* they deduct, and the other calls do not reach the exchange's tokens.    *)
LEMMA CallSolvent ==
    ASSUME NEW op \in Ops, NEW L, Clean(L), Solvent(L), NEW b \in Brackets, NEW t \in Tokens,
           NEW n \in Nat, CallSucceeds(op, L, b, t, n),
           NEW M, M = CallEffect(op, L, b, t, n)
    PROVE  Solvent(M)
<1>1. /\ L \in Ledgers /\ M \in Ledgers
      /\ b \in Holders /\ Master \in Holders /\ Exchange \in Holders
      /\ b # Exchange /\ b # Master /\ Master # Exchange
  BY CallClean, FundsAssumption DEF Holders, Clean
<1>2. L.exch[b][t] \in Account
  BY <1>1 DEF Ledgers
<1>3. \A u \in Tokens : L.wallet[Exchange][u] \in Int
  BY <1>1, CreditType
<1>4. ASSUME M.exch = L.exch, M.market = L.market,
             \A u \in Tokens : M.wallet[Exchange][u] = L.wallet[Exchange][u]
      PROVE  Solvent(M)
  <2>1. \A u \in Tokens : Covers(M, u)
    BY <1>1, <1>4, CoversSame DEF Solvent
  <2>2. QED
    BY <2>1 DEF Solvent
<1>5. ASSUME NEW from \in Holders, NEW to \in Holders, from # to,
             from # Exchange, to # Exchange, M = Move(L, from, to, t, n)
      PROVE  Solvent(M)
  <2>1. /\ M.exch = L.exch /\ M.market = L.market
        /\ \A u \in Tokens : M.wallet[Exchange][u] = L.wallet[Exchange][u]
    <3>1. /\ M.exch = L.exch /\ M.market = L.market
          /\ \A u \in Tokens : M.wallet[Exchange][u]
                 = L.wallet[Exchange][u] + Shift(Exchange, u, from, to, t, n)
      BY <1>1, <1>5, MoveEffect, SMTT(30)
    <3>2. \A u \in Tokens : Shift(Exchange, u, from, to, t, n) = 0
      BY <1>5 DEF Shift
    <3>3. QED
      BY <1>3, <3>1, <3>2
  <2>2. QED
    BY <1>4, <2>1
<1>6. CASE op = "placeOrder"
  <2>1. M = [L EXCEPT !.orders = L.orders \cup {<<b, t>>}]
    BY <1>6 DEF CallEffect
  <2>2. M.exch = L.exch /\ M.market = L.market /\ M.wallet = L.wallet
    BY <1>1, <2>1, Zenon DEF Ledgers
  <2>3. QED
    BY <1>4, <2>2
<1>7. CASE op = "toBracket"
  <2>1. M = Move(L, Master, b, t, n)
    BY <1>7 DEF CallEffect
  <2>2. QED
    BY <1>1, <1>5, <2>1
<1>8. CASE op = "toMaster"
  <2>1. M = Move(L, b, Master, t, n)
    BY <1>8 DEF CallEffect
  <2>2. QED
    BY <1>1, <1>5, <2>1
<1>9. ASSUME NEW Y \in Ledgers, NEW acc, M = SetAccount(Y, b, t, acc), Y.exch = L.exch,
             Y.market = L.market, NEW d \in Int, Credit(acc) = Credit(L.exch[b][t]) + d,
             \A u \in Tokens :
                Y.wallet[Exchange][u] = L.wallet[Exchange][u] + (IF u = t THEN d ELSE 0)
      PROVE  Solvent(M)
  <2>1. /\ M.wallet = Y.wallet /\ M.market = L.market /\ M.exch[b][t] = acc
        /\ \A c \in Brackets, u \in Tokens : <<c, u>> # <<b, t>> => M.exch[c][u] = L.exch[c][u]
    BY <1>9, SetAccountEffect
  <2>2. Credit(M.exch[b][t]) = Credit(L.exch[b][t]) + d
    BY <1>9, <2>1, Zenon
  <2>3. \A u \in Tokens :
           M.wallet[Exchange][u] = L.wallet[Exchange][u] + (IF u = t THEN d ELSE 0)
    BY <1>9, <2>1, Zenon
  <2>4. QED
    BY <1>1, <2>1, <2>2, <2>3, SolventStill
<1>10. CASE op = "approveDeposit"
  <2> DEFINE A == Approve(L, b, t, n)
             P == Move(A, b, Exchange, t, n)
             Z == Approve(P, b, t, A.allowance[b][t] - n)
             acc == Deposit(A.exch[b][t], n)
  <2>1. A \in Ledgers /\ A.exch = L.exch /\ A.market = L.market /\ A.wallet = L.wallet
        /\ A.allowance[b][t] = n
    <3>1. L \in Ledgers
      BY <1>1
    <3>2. /\ A \in Ledgers
          /\ A.allowance = [L.allowance EXCEPT ![b][t] = n]
          /\ A.allowance[b][t] = n
      BY <3>1, ApproveType
    <3>3. A.exch = L.exch /\ A.wallet = L.wallet /\ A.market = L.market
      BY <3>1, ApproveEffect, ZenonT(60)
    <3>4. QED
      BY <3>2, <3>3
  <2>2. n <= A.wallet[b][t]
    BY <1>10 DEF CallSucceeds, CanDeposit
  <2>3. M = SetAccount(Z, b, t, acc)
    BY <1>10, Zenon DEF CallEffect, DepositCall
  <2>4. Credit(acc) = Credit(L.exch[b][t]) + n
    BY <1>2, <2>1, CreditChanges
  <2> HIDE DEF A, acc
  <2>5. P \in Ledgers
    BY <1>1, <2>1, <2>2, MoveType
  <2>6. /\ P.exch = L.exch /\ P.market = L.market
        /\ \A u \in Tokens :
              P.wallet[Exchange][u] = L.wallet[Exchange][u] + (IF u = t THEN n ELSE 0)
    BY <1>1, <2>1, MoveEffect DEF Shift
  <2>7. A.allowance[b][t] - n = 0
    BY <2>1
  <2> HIDE DEF P
  <2>8. Z \in Ledgers /\ Z.exch = P.exch /\ Z.market = P.market /\ Z.wallet = P.wallet
    <3>1. Z = Approve(P, b, t, 0)
      BY <2>7
    <3>2. Approve(P, b, t, 0) \in Ledgers
      BY <2>5, ApproveType
    <3>3. LET X == Approve(P, b, t, 0)
          IN  X.exch = P.exch /\ X.market = P.market /\ X.wallet = P.wallet
      BY <2>5, ApproveEffect, ZenonT(60)
    <3> HIDE DEF Z
    <3>4. QED
      BY <3>1, <3>2, <3>3, Zenon
  <2> HIDE DEF Z
  <2>9. \A u \in Tokens :
           Z.wallet[Exchange][u] = L.wallet[Exchange][u] + (IF u = t THEN n ELSE 0)
    BY <2>6, <2>8
  <2>10. QED
    BY <1>9, <2>3, <2>4, <2>6, <2>8, <2>9
<1>11. ASSUME NEW p \in Nat, NEW acc, p <= L.wallet[Exchange][t],
              M = SetAccount(Move(L, Exchange, b, t, p), b, t, acc),
              Credit(acc) = Credit(L.exch[b][t]) - p
       PROVE  Solvent(M)
  <2> DEFINE Y == Move(L, Exchange, b, t, p)
             d == -p
  <2>1. Y \in Ledgers
    BY <1>1, <1>11, MoveType
  <2>2. /\ Y.exch = L.exch /\ Y.market = L.market
        /\ \A u \in Tokens :
              Y.wallet[Exchange][u] = L.wallet[Exchange][u] + (IF u = t THEN d ELSE 0)
    BY <1>1, MoveEffect DEF Shift
  <2>3. d \in Int /\ Credit(acc) = Credit(L.exch[b][t]) + d
    BY <1>1, <1>11, CreditType
  <2> HIDE DEF d, Y
  <2>4. M = SetAccount(Y, b, t, acc)
    BY <1>11 DEF Y
  <2>5. QED
    BY <1>9, <2>1, <2>2, <2>3, <2>4
<1>12. CASE op = "requestWithdraw"
  <2> DEFINE p == PaidByRequest(L.exch[b][t])
             acc == Request(L.exch[b][t], n)
  <2>1. p \in Nat /\ p <= L.wallet[Exchange][t]
    BY <1>2, <1>12, AccountFacts DEF CallSucceeds
  <2>2. M = SetAccount(Move(L, Exchange, b, t, p), b, t, acc)
    BY <1>12 DEF CallEffect, RequestCall
  <2>3. Credit(acc) = Credit(L.exch[b][t]) - p
    BY <1>2, CreditChanges
  <2> HIDE DEF p, acc
  <2>4. QED
    BY <1>11, <2>1, <2>2, <2>3
<1>13. CASE op = "withdraw"
  <2> DEFINE p == Withdrawable(L.exch[b][t])
             acc == Withdraw(L.exch[b][t])
  <2>1. p \in Nat /\ p <= L.wallet[Exchange][t]
    BY <1>2, <1>13, AccountFacts DEF CallSucceeds
  <2>2. M = SetAccount(Move(L, Exchange, b, t, p), b, t, acc)
    BY <1>13 DEF CallEffect, WithdrawCall
  <2>3. Credit(acc) = Credit(L.exch[b][t]) - p
    BY <1>2, CreditChanges
  <2> HIDE DEF p, acc
  <2>4. QED
    BY <1>11, <2>1, <2>2, <2>3
<1>14. QED
  BY <1>6, <1>7, <1>8, <1>10, <1>12, <1>13 DEF Ops

(* A trade moves as much between a bracket and the other traders, in both  *)
(* tokens; what the exchange holds stays.                                  *)
LEMMA TradeSolvent ==
    ASSUME IInv, Solvent(ledger), NEW b \in Brackets, NEW t \in Tokens, NEW n \in Nat,
           Trade(b, t, n), ledger' \in Ledgers
    PROVE  Solvent(ledger')
<1> DEFINE o == Other(t)
           x == ledger.exch
           y == [[x EXCEPT ![b][t] = Sell(x[b][t], n)] EXCEPT ![b][o] = Buy(x[b][o], n)]
           m == [[ledger.market EXCEPT ![t] = @ + n] EXCEPT ![o] = @ - n]
<1>1. o \in Tokens /\ o # t /\ Tokens = {t, o}
  BY FundsAssumption DEF Tokens, Other
<1>2. /\ ledger \in Ledgers /\ x \in [Brackets -> [Tokens -> Account]]
      /\ ledger.market \in [Tokens -> Nat]
  BY DEF IInv, TypeOK, Ledgers
<1>3. ledger'.exch = y /\ ledger'.market = m /\ ledger'.wallet = ledger.wallet
  <2>1. x[b][o] = [x EXCEPT ![b][t] = Sell(x[b][t], n)][b][o]
    BY <1>1, <1>2, Zenon
  <2>2. ledger' = [ledger EXCEPT !.exch = y, !.market = m]
    BY <1>1, <1>2, <2>1, Zenon DEF Trade, Ledgers
  <2> HIDE DEF y, m
  <2>3. QED
    BY <1>2, <2>2, Zenon DEF Ledgers
<1>4. /\ y[b][t] = Sell(x[b][t], n) /\ y[b][o] = Buy(x[b][o], n)
      /\ \A c \in Brackets \ {b} : y[c] = x[c]
  BY <1>1, <1>2
<1>5. m[t] = ledger.market[t] + n /\ m[o] = ledger.market[o] - n
  BY <1>1, <1>2
<1>6. /\ Credit(y[b][t]) = Credit(x[b][t]) - n
      /\ Credit(y[b][o]) = Credit(x[b][o]) + n
  BY <1>1, <1>2, <1>4, CreditChanges
<1>7. ASSUME NEW u \in {t, o}
      PROVE  SameOthers(ledger, ledger', b, u)
  BY <1>3, <1>4, Zenon DEF SameOthers
<1> HIDE DEF y, m, o
<1>8. ASSUME NEW u \in Tokens, NEW d \in Int, ledger'.market[u] = ledger.market[u] + d,
             Credit(y[b][u]) = Credit(x[b][u]) - d
      PROVE  Covers(ledger', u)
  <2>1. SameOthers(ledger, ledger', b, u)
    BY <1>1, <1>7
  <2>2. /\ ledger.market[u] \in Int /\ Credit(x[b][u]) \in Int
        /\ ledger.wallet[Exchange][u] \in Int
    BY <1>2, CreditType
  <2>3. ledger'.wallet[Exchange][u] - ledger.wallet[Exchange][u]
          = (ledger'.market[u] - ledger.market[u])
              + (Credit(ledger'.exch[b][u]) - Credit(ledger.exch[b][u]))
    BY <1>3, <1>8, <2>2
  <2>4. Covers(ledger, u)
    BY DEF Solvent
  <2>5. QED
    BY <1>2, <2>1, <2>3, <2>4, CoversStill
<1>9. Covers(ledger', t)
  BY <1>3, <1>5, <1>6, <1>8
<1>10. Covers(ledger', o)
  <2> DEFINE d == -n
  <2>1. /\ ledger.market[o] \in Int /\ Credit(x[b][o]) \in Int
    BY <1>1, <1>2, CreditType
  <2>2. /\ d \in Int /\ ledger'.market[o] = ledger.market[o] + d
        /\ Credit(y[b][o]) = Credit(x[b][o]) - d
    BY <1>3, <1>5, <1>6, <2>1
  <2> HIDE DEF d
  <2>3. QED
    BY <1>1, <1>8, <2>2
<1>11. QED
  BY <1>1, <1>9, <1>10 DEF Solvent

(* When a batch ends the deposits of every account join its balance.       *)
LEMMA NextBatchSolvent ==
    ASSUME IInv, Solvent(ledger), NextBatch, ledger' \in Ledgers
    PROVE  Solvent(ledger')
<1> DEFINE x == [b \in Brackets |-> [t \in Tokens |-> NextBatchOf(ledger.exch[b][t])]]
<1>1. ledger \in Ledgers /\ ledger.exch \in [Brackets -> [Tokens -> Account]]
  BY DEF IInv, TypeOK, Ledgers
<1>2. ledger' = [ledger EXCEPT !.exch = x]
  BY DEF NextBatch
<1>3. \A b \in Brackets, t \in Tokens : Credit(x[b][t]) = Credit(ledger.exch[b][t])
  <2>1. ASSUME NEW b \in Brackets, NEW t \in Tokens
        PROVE  Credit(NextBatchOf(ledger.exch[b][t])) = Credit(ledger.exch[b][t])
    <3>1. ledger.exch[b][t] \in Account /\ 0 \in Nat
      BY <1>1
    <3>2. QED
      BY <3>1, CreditChanges
  <2>2. QED
    BY <2>1
<1> HIDE DEF x
<1>4. ledger'.exch = x /\ ledger'.wallet = ledger.wallet /\ ledger'.market = ledger.market
  BY <1>1, <1>2, Zenon DEF Ledgers
<1>5. ASSUME NEW t \in Tokens
      PROVE  Covers(ledger', t)
  <2>1. \A b \in Brackets : Credit(ledger'.exch[b][t]) = Credit(ledger.exch[b][t])
    BY <1>3, <1>4
  <2>2. Covers(ledger, t)
    BY DEF Solvent
  <2>3. QED
    BY <1>1, <1>4, <2>1, <2>2, CoversSame
<1>6. QED
  BY <1>5 DEF Solvent

LEMMA InitSolvent == Init => Solvent(ledger) /\ Solvent(work)
<1> SUFFICES ASSUME Init PROVE Solvent(ledger)
  BY DEF Init
<1>1. ASSUME NEW t \in Tokens
      PROVE  Covers(ledger, t)
  <2>1. \A b \in Brackets : Held(ledger, t)[b] = BracketFunds
    BY FundsAssumption DEF Init, Held, AccountWith
  <2>2. SumFunctionOnSet(Held(ledger, t), Brackets) = BracketFunds * Cardinality(Brackets)
    BY <2>1, SumConstant, FundsAssumption
  <2>3. ledger.wallet[Exchange][t] = MarketFunds + BracketFunds * Cardinality(Brackets)
    <3>1. /\ Exchange \in Holders /\ Exchange # Master
      BY FundsAssumption DEF Holders
    <3>2. ledger.wallet = [h \in Holders |-> [u \in Tokens |->
                              CASE h = Master   -> MasterFunds
                                [] h = Exchange -> MarketFunds + BracketFunds * Cardinality(Brackets)
                                [] OTHER        -> 0]]
      BY DEF Init
    <3>3. QED
      BY <3>1, <3>2
  <2>4. ledger.market[t] = MarketFunds
    BY DEF Init
  <2>5. QED
    BY <2>2, <2>3, <2>4 DEF Covers
<1>2. QED
  BY <1>1 DEF Solvent

(* Both the chain and the copy a bundle runs on stay solvent.              *)
LEMMA StepSolvent ==
    IInv /\ IInv' /\ Solvent(ledger) /\ Solvent(work) /\ [Next]_vars
        => (Solvent(ledger) /\ Solvent(work))'
<1> SUFFICES ASSUME IInv, IInv', Solvent(ledger), Solvent(work), [Next]_vars
             PROVE  Solvent(ledger') /\ Solvent(work')
  BY DEF Solvent, Covers, Held
<1>0. ledger' \in Ledgers
  BY DEF IInv, TypeOK
<1>1. CASE ScriptSteps
  <2>1. UNCHANGED <<ledger, work>>
    BY <1>1 DEF ScriptSteps, StartReading, StartListed, Start, ReadAmount, LimitAmount,
                FinishReading, Decline
  <2>2. QED
    BY <2>1
<1>2. CASE StartEstimate \/ StartExecute
  <2>1. ledger' = ledger /\ work' = ledger
    BY <1>2 DEF StartEstimate, StartExecute, Load
  <2>2. QED
    BY <2>1
<1>3. CASE RunCall
  <2>1. TypeOK /\ mode # "idle" /\ Running \in Bundles /\ todo \subseteq Calls(Running)
    BY <1>3, RunningType DEF IInv, RunCall, Loaded
  <2> DEFINE ent(k) == EntryOf(Running.kind, k)
             op(k)  == OpOf(Running.kind, k)
             ok(k)  == CallSucceeds(op(k), work, BracketOf(ent(k)), TokenOf(ent(k)), Running.amount[ent(k)])
             eff(k) == CallEffect(op(k), work, BracketOf(ent(k)), TokenOf(ent(k)), Running.amount[ent(k)])
  <2>2. PICK k \in todo : (ok(k) /\ work' = eff(k)) \/ UNCHANGED work
    BY <1>3 DEF RunCall
  <2>3. ent(k) \in Entry /\ op(k) \in Ops
    BY <2>1, CallsType
  <2>4. /\ BracketOf(ent(k)) \in Brackets /\ TokenOf(ent(k)) \in Tokens
        /\ Running.amount[ent(k)] \in Nat
    BY <2>1, <2>3, FundsAssumption DEF Bundles, BracketOf, TokenOf
  <2>5. Clean(work)
    BY DEF IInv
  <2>6. ok(k) => Solvent(eff(k))
    BY <2>3, <2>4, <2>5, CallSolvent
  <2>7. UNCHANGED ledger
    BY <1>3 DEF RunCall
  <2> HIDE DEF ok, eff
  <2>8. QED
    BY <2>2, <2>6, <2>7
<1>4. CASE FinishEstimate
  <2>1. ledger' = ledger /\ work' = ledger
    BY <1>4 DEF FinishEstimate, Unload
  <2>2. QED
    BY <2>1
<1>5. CASE FinishExecute
  <2>1. ledger' \in {ledger, work} /\ work' = ledger'
    BY <1>5 DEF FinishExecute, Unload
  <2>2. QED
    BY <2>1
<1>6. ASSUME NEW b \in Brackets, NEW t \in Tokens, NEW n \in TradeSizes, Trade(b, t, n)
      PROVE  Solvent(ledger') /\ Solvent(work')
  <2>1. Solvent(ledger')
    BY <1>0, <1>6, TradeSolvent, FundsAssumption
  <2>2. work' = ledger'
    BY <1>6 DEF Trade
  <2>3. QED
    BY <2>1, <2>2
<1>7. CASE NextBatch
  <2>1. Solvent(ledger')
    BY <1>0, <1>7, NextBatchSolvent
  <2>2. work' = ledger'
    BY <1>7 DEF NextBatch
  <2>3. QED
    BY <2>1, <2>2
<1>8. CASE UNCHANGED vars
  BY <1>8 DEF vars
<1>9. QED
  BY <1>1, <1>2, <1>3, <1>4, <1>5, <1>6, <1>7, <1>8 DEF Next, ScriptSteps

-----------------------------------------------------------------------------
(***************************************************************************)
(* What a call changes, account by account.                                *)
(***************************************************************************)
(* What the pair's wallet gains, what the master Safe's wallet loses, and  *)
(* the pair's account afterwards.                                          *)
Gain(op, acc, n) ==
    CASE op = "placeOrder"      -> 0
      [] op = "toBracket"       -> n
      [] op = "approveDeposit"  -> -n
      [] op = "requestWithdraw" -> PaidByRequest(acc)
      [] op = "withdraw"        -> Withdrawable(acc)
      [] op = "toMaster"        -> -n

Spent(op, n) ==
    CASE op = "toBracket" -> n
      [] op = "toMaster"  -> -n
      [] op \in {"placeOrder", "approveDeposit", "requestWithdraw", "withdraw"} -> 0

AccountAfter(op, acc, n) ==
    CASE op = "approveDeposit"  -> Deposit(acc, n)
      [] op = "requestWithdraw" -> Request(acc, n)
      [] op = "withdraw"        -> Withdraw(acc)
      [] op \in {"placeOrder", "toBracket", "toMaster"} -> acc

(* M differs from L in one pair and in the master Safe's wallet only.      *)
Differs(L, M, b, t, acc, gain, spent) ==
    /\ M.exch[b][t] = acc
    /\ M.wallet[b][t] = L.wallet[b][t] + gain
    /\ M.wallet[Master][t] = L.wallet[Master][t] - spent
    /\ \A u \in Tokens \ {t} : M.wallet[Master][u] = L.wallet[Master][u]
    /\ \A c \in Brackets, u \in Tokens : <<c, u>> # <<b, t>> =>
          M.exch[c][u] = L.exch[c][u] /\ M.wallet[c][u] = L.wallet[c][u]

LEMMA MoveDiffers ==
    ASSUME NEW L \in Ledgers, NEW b \in Brackets, NEW t \in Tokens, NEW n \in Nat
    PROVE  /\ Differs(L, Move(L, Master, b, t, n), b, t, L.exch[b][t], n, n)
           /\ Differs(L, Move(L, b, Master, t, n), b, t, L.exch[b][t], -n, -n)
           /\ Differs(L, Move(L, b, Exchange, t, n), b, t, L.exch[b][t], -n, 0)
           /\ Differs(L, Move(L, Exchange, b, t, n), b, t, L.exch[b][t], n, 0)
<1>1. /\ Master # Exchange /\ b # Master /\ b # Exchange
      /\ Brackets \subseteq Holders /\ Master \in Holders /\ Exchange \in Holders
      /\ \A c \in Brackets : c # Master /\ c # Exchange
  BY FundsAssumption DEF Holders
<1>2. \A h \in Holders, u \in Tokens : L.wallet[h][u] \in Int
  BY DEF Ledgers
<1>3. ASSUME NEW from \in {b, Master, Exchange}, NEW to \in {b, Master, Exchange}, from # to,
             NEW M, M = Move(L, from, to, t, n), b \in {from, to}
      PROVE  Differs(L, M, b, t, L.exch[b][t], IF to = b THEN n ELSE -n,
                     IF from = Master THEN n ELSE IF to = Master THEN -n ELSE 0)
  <2>1. /\ M.exch = L.exch
        /\ \A h \in Holders, u \in Tokens :
              M.wallet[h][u] = L.wallet[h][u] + Shift(h, u, from, to, t, n)
    BY <1>1, <1>3, MoveEffect
  <2>2. M.wallet[b][t] = L.wallet[b][t] + IF to = b THEN n ELSE -n
    BY <1>1, <1>3, <2>1 DEF Shift
  <2>3. M.wallet[Master][t]
           = L.wallet[Master][t] - IF from = Master THEN n ELSE IF to = Master THEN -n ELSE 0
    <3>1. Shift(Master, t, from, to, t, n)
            = IF from = Master THEN -n ELSE IF to = Master THEN n ELSE 0
      BY <1>1, <1>3 DEF Shift
    <3>2. L.wallet[Master][t] \in Int
      BY <1>1, <1>2
    <3>3. M.wallet[Master][t] = L.wallet[Master][t] + Shift(Master, t, from, to, t, n)
      BY <1>1, <2>1
    <3>4. QED
      BY <3>1, <3>2, <3>3
  <2>4. \A u \in Tokens \ {t} : M.wallet[Master][u] = L.wallet[Master][u]
    BY <1>1, <1>2, <2>1 DEF Shift
  <2>5. ASSUME NEW c \in Brackets, NEW u \in Tokens, <<c, u>> # <<b, t>>
        PROVE  M.exch[c][u] = L.exch[c][u] /\ M.wallet[c][u] = L.wallet[c][u]
    <3>1. Shift(c, u, from, to, t, n) = 0
      BY <1>1, <1>3, <2>5 DEF Shift
    <3>2. QED
      BY <1>1, <1>2, <2>1, <3>1
  <2>6. QED
    BY <2>1, <2>2, <2>3, <2>4, <2>5 DEF Differs
<1>4. QED
  BY <1>1, <1>3

LEMMA CallDiffers ==
    ASSUME NEW op \in Ops, NEW L, Clean(L), NEW b \in Brackets, NEW t \in Tokens,
           NEW n \in Nat, CallSucceeds(op, L, b, t, n),
           NEW M, M = CallEffect(op, L, b, t, n)
    PROVE  Differs(L, M, b, t, AccountAfter(op, L.exch[b][t], n),
                   Gain(op, L.exch[b][t], n), Spent(op, n))
<1> DEFINE acc == L.exch[b][t]
<1>1. L \in Ledgers /\ acc \in Account
  BY DEF Clean, Ledgers
<1>2. \A h \in Holders, u \in Tokens : L.wallet[h][u] \in Int
  BY <1>1 DEF Ledgers
<1>3. ASSUME NEW Y \in Ledgers, NEW g, NEW s, Differs(L, Y, b, t, acc, g, s),
             NEW a, M = SetAccount(Y, b, t, a)
      PROVE  Differs(L, M, b, t, a, g, s)
  <2>1. /\ M.wallet = Y.wallet /\ M.exch[b][t] = a
        /\ \A c \in Brackets, u \in Tokens : <<c, u>> # <<b, t>> => M.exch[c][u] = Y.exch[c][u]
    BY <1>3, SetAccountEffect
  <2>2. QED
    BY <1>3, <2>1 DEF Differs
<1>4. CASE op = "placeOrder"
  <2>1. M = [L EXCEPT !.orders = L.orders \cup {<<b, t>>}]
    BY <1>4 DEF CallEffect
  <2>2. M.exch = L.exch /\ M.wallet = L.wallet
    BY <1>1, <2>1, Zenon DEF Ledgers
  <2>3. /\ AccountAfter(op, acc, n) = acc /\ Gain(op, acc, n) = 0 /\ Spent(op, n) = 0
    BY <1>4 DEF AccountAfter, Gain, Spent
  <2>4. /\ L.wallet[b][t] \in Int /\ L.wallet[Master][t] \in Int
    BY <1>2 DEF Holders
  <2>5. Differs(L, M, b, t, acc, 0, 0)
    BY <2>2, <2>4 DEF Differs
  <2>6. QED
    BY <2>3, <2>5
<1>5. CASE op = "toBracket"
  <2>1. M = Move(L, Master, b, t, n)
    BY <1>5 DEF CallEffect
  <2>2. /\ AccountAfter(op, acc, n) = acc /\ Gain(op, acc, n) = n /\ Spent(op, n) = n
    BY <1>5 DEF AccountAfter, Gain, Spent
  <2>3. QED
    BY <1>1, <2>1, <2>2, MoveDiffers
<1>6. CASE op = "toMaster"
  <2>1. M = Move(L, b, Master, t, n)
    BY <1>6 DEF CallEffect
  <2>2. /\ AccountAfter(op, acc, n) = acc /\ Gain(op, acc, n) = -n /\ Spent(op, n) = -n
    BY <1>6 DEF AccountAfter, Gain, Spent
  <2>3. QED
    BY <1>1, <2>1, <2>2, MoveDiffers
<1>7. CASE op = "approveDeposit"
  <2> DEFINE A == Approve(L, b, t, n)
             P == Move(A, b, Exchange, t, n)
             Z == Approve(P, b, t, A.allowance[b][t] - n)
             a == Deposit(A.exch[b][t], n)
  <2>1. A \in Ledgers /\ A.allowance[b][t] = n
    <3>1. A \in Ledgers
      BY <1>1, ApproveType
    <3>2. A.allowance[b][t] = n
      BY <1>1, ApprovedAmount
    <3>3. QED
      BY <3>1, <3>2
  <2>2. A.exch = L.exch /\ A.wallet = L.wallet
    BY <1>1, ApproveEffect, ZenonT(60)
  <2>3. n <= A.wallet[b][t]
    BY <1>7 DEF CallSucceeds, CanDeposit
  <2>4. M = SetAccount(Z, b, t, a)
    BY <1>7, Zenon DEF CallEffect, DepositCall
  <2>5. a = Deposit(acc, n)
    BY <2>2
  <2> HIDE DEF A, a
  <2>6. P \in Ledgers
    BY <2>1, <2>3, MoveType DEF Holders
  <2>7. Differs(A, P, b, t, A.exch[b][t], -n, 0)
    BY <2>1, MoveDiffers
  <2>8. A.allowance[b][t] - n = 0
    BY <2>1
  <2> HIDE DEF P
  <2>9. Z \in Ledgers /\ Z.exch = P.exch /\ Z.wallet = P.wallet
    <3>1. Z = Approve(P, b, t, 0)
      BY <2>8
    <3>2. Approve(P, b, t, 0) \in Ledgers
      BY <2>6, ApproveType
    <3>3. Approve(P, b, t, 0).exch = P.exch /\ Approve(P, b, t, 0).wallet = P.wallet
      BY <2>6, ApproveEffect, ZenonT(60)
    <3> HIDE DEF Z
    <3>4. QED
      BY <3>1, <3>2, <3>3
  <2> HIDE DEF Z
  <2>10. Differs(L, Z, b, t, acc, -n, 0)
    BY <2>2, <2>7, <2>9 DEF Differs
  <2>11. /\ AccountAfter(op, acc, n) = Deposit(acc, n) /\ Gain(op, acc, n) = -n /\ Spent(op, n) = 0
    BY <1>7 DEF AccountAfter, Gain, Spent
  <2>12. QED
    BY <1>3, <2>4, <2>5, <2>9, <2>10, <2>11
<1>8. ASSUME NEW p \in Nat, NEW a, p <= L.wallet[Exchange][t],
             M = SetAccount(Move(L, Exchange, b, t, p), b, t, a)
      PROVE  Differs(L, M, b, t, a, p, 0)
  <2>1. Move(L, Exchange, b, t, p) \in Ledgers
    BY <1>1, <1>8, MoveType DEF Holders
  <2>2. Differs(L, Move(L, Exchange, b, t, p), b, t, acc, p, 0)
    BY <1>1, MoveDiffers
  <2>3. QED
    BY <1>3, <1>8, <2>1, <2>2
<1>9. CASE op = "requestWithdraw"
  <2>1. PaidByRequest(acc) \in Nat /\ PaidByRequest(acc) <= L.wallet[Exchange][t]
    BY <1>1, <1>9, AccountFacts DEF CallSucceeds
  <2>2. M = SetAccount(Move(L, Exchange, b, t, PaidByRequest(acc)), b, t, Request(acc, n))
    BY <1>9 DEF CallEffect, RequestCall
  <2>3. /\ AccountAfter(op, acc, n) = Request(acc, n) /\ Gain(op, acc, n) = PaidByRequest(acc)
        /\ Spent(op, n) = 0
    BY <1>9 DEF AccountAfter, Gain, Spent
  <2>4. QED
    BY <1>8, <2>1, <2>2, <2>3
<1>10. CASE op = "withdraw"
  <2>1. Withdrawable(acc) \in Nat /\ Withdrawable(acc) <= L.wallet[Exchange][t]
    BY <1>1, <1>10, AccountFacts DEF CallSucceeds
  <2>2. M = SetAccount(Move(L, Exchange, b, t, Withdrawable(acc)), b, t, Withdraw(acc))
    BY <1>10 DEF CallEffect, WithdrawCall
  <2>3. /\ AccountAfter(op, acc, n) = Withdraw(acc) /\ Gain(op, acc, n) = Withdrawable(acc)
        /\ Spent(op, n) = 0
    BY <1>10 DEF AccountAfter, Gain, Spent
  <2>4. QED
    BY <1>8, <2>1, <2>2, <2>3
<1>11. QED
  BY <1>4, <1>5, <1>6, <1>7, <1>9, <1>10 DEF Ops
-----------------------------------------------------------------------------
(***************************************************************************)
(* There is never more of a token than there was at the start, so MaxAmount*)
(* can stand for more than any balance.                                    *)
(***************************************************************************)
Total == MasterFunds + MarketFunds + BracketFunds * Cardinality(Brackets)

Wallets(L, t) == [h \in Holders |-> L.wallet[h][t]]
Supply(L, t)  == SumFunctionOnSet(Wallets(L, t), Holders)
Conserved(L)  == \A t \in Tokens : Supply(L, t) = Total

LEMMA HoldersFinite == IsFiniteSet(Holders)
<1>1. IsFiniteSet(Brackets \cup {Master})
  BY FundsAssumption, FS_AddElement
<1>2. IsFiniteSet((Brackets \cup {Master}) \cup {Exchange})
  BY <1>1, FS_AddElement
<1>3. Holders = (Brackets \cup {Master}) \cup {Exchange}
  BY DEF Holders
<1>4. QED
  BY <1>2, <1>3

(* A transfer keeps the supply.                                            *)
LEMMA MoveConserves ==
    ASSUME NEW L \in Ledgers, NEW from \in Holders, NEW to \in Holders, from # to,
           NEW t \in Tokens, NEW n \in Nat, Conserved(L),
           NEW M, M.wallet = Move(L, from, to, t, n).wallet
    PROVE  Conserved(M)
<1>1. \A h \in Holders, u \in Tokens : /\ L.wallet[h][u] \in Int
                                       /\ Shift(h, u, from, to, t, n) \in Int
  BY DEF Ledgers, Shift
<1>2. \A h \in Holders, u \in Tokens :
         M.wallet[h][u] = L.wallet[h][u] + Shift(h, u, from, to, t, n)
  <2>1. \A h \in Holders, u \in Tokens :
         Move(L, from, to, t, n).wallet[h][u] = L.wallet[h][u] + Shift(h, u, from, to, t, n)
    BY MoveEffect
  <2>2. QED
    BY <2>1, Zenon
<1>3. ASSUME NEW u \in Tokens
      PROVE  Supply(M, u) = Supply(L, u)
  <2> DEFINE f == Wallets(L, u)
             g == Wallets(M, u)
             p == [h \in Holders |-> IF h = from THEN g[h] ELSE f[h]]
  <2>1. \A h \in Holders : /\ f[h] = L.wallet[h][u] /\ f[h] \in Int
                           /\ g[h] = f[h] + Shift(h, u, from, to, t, n) /\ g[h] \in Int
    BY <1>1, <1>2 DEF Wallets
  <2> HIDE DEF f, g
  <2>2. \A h \in Holders : p[h] \in Int
    BY <2>1
  <2>3. /\ p[from] = g[from] /\ p[to] = f[to]
        /\ \A h \in Holders \ {from} : p[h] = f[h]
        /\ \A h \in Holders \ {to} : g[h] = p[h]
    <3>1. \A h \in Holders \ {from, to} : g[h] = f[h]
      BY <2>1 DEF Shift
    <3>2. QED
      BY <3>1
  <2>4. (p[from] - f[from]) + (g[to] - p[to]) = 0
    BY <2>1, <2>3 DEF Shift
  <2>5. /\ p[from] \in Int /\ f[from] \in Int /\ g[to] \in Int /\ p[to] \in Int
    BY <2>1, <2>2
  <2> HIDE DEF p
  <2>6. SumFunctionOnSet(p, Holders) = SumFunctionOnSet(f, Holders) + (p[from] - f[from])
    BY <2>1, <2>2, <2>3, HoldersFinite, SumChange
  <2>7. SumFunctionOnSet(g, Holders) = SumFunctionOnSet(p, Holders) + (g[to] - p[to])
    BY <2>1, <2>2, <2>3, HoldersFinite, SumChange
  <2>8. SumFunctionOnSet(f, Holders) \in Int
    BY <2>1, HoldersFinite, SumInteger
  <2>9. SumFunctionOnSet(g, Holders) = SumFunctionOnSet(f, Holders)
    BY <2>4, <2>5, <2>6, <2>7, <2>8
  <2>10. QED
    BY <2>9 DEF Supply, f, g
<1>4. QED
  BY <1>3 DEF Conserved

LEMMA WalletConserves ==
    ASSUME NEW L, NEW M, M.wallet = L.wallet, Conserved(L)
    PROVE  Conserved(M)
  BY DEF Conserved, Supply, Wallets

(* Every call transfers at most once.                                      *)
LEMMA CallConserves ==
    ASSUME NEW op \in Ops, NEW L, Clean(L), NEW b \in Brackets, NEW t \in Tokens,
           NEW n \in Nat, CallSucceeds(op, L, b, t, n), Conserved(L),
           NEW M, M = CallEffect(op, L, b, t, n)
    PROVE  Conserved(M)
<1>1. /\ L \in Ledgers /\ L.exch[b][t] \in Account
      /\ Master # Exchange /\ b # Master /\ b # Exchange
      /\ b \in Holders /\ Master \in Holders /\ Exchange \in Holders
  BY FundsAssumption DEF Holders, Clean, Ledgers
<1>2. CASE op = "placeOrder"
  <2>1. M = [L EXCEPT !.orders = L.orders \cup {<<b, t>>}]
    BY <1>2 DEF CallEffect
  <2>2. M.wallet = L.wallet
    BY <1>1, <2>1, Zenon DEF Ledgers
  <2>3. QED
    BY <2>2, WalletConserves
<1>3. CASE op = "toBracket"
  <2>1. M.wallet = Move(L, Master, b, t, n).wallet
    BY <1>3 DEF CallEffect
  <2>2. QED
    BY <1>1, <2>1, MoveConserves
<1>4. CASE op = "toMaster"
  <2>1. M.wallet = Move(L, b, Master, t, n).wallet
    BY <1>4 DEF CallEffect
  <2>2. QED
    BY <1>1, <2>1, MoveConserves
<1>5. CASE op = "approveDeposit"
  <2> DEFINE A == Approve(L, b, t, n)
             P == Move(A, b, Exchange, t, n)
             Z == Approve(P, b, t, A.allowance[b][t] - n)
  <2>1. M = SetAccount(Z, b, t, Deposit(A.exch[b][t], n))
    BY <1>5, Zenon DEF CallEffect, DepositCall
  <2>2. A \in Ledgers /\ A.allowance[b][t] = n
    <3>1. A \in Ledgers
      BY <1>1, ApproveType
    <3>2. A.allowance[b][t] = n
      BY <1>1, ApprovedAmount
    <3>3. QED
      BY <3>1, <3>2
  <2>3. A.wallet = L.wallet
    BY <1>1, ApproveEffect, Zenon
  <2>4. n <= A.wallet[b][t]
    BY <1>5 DEF CallSucceeds, CanDeposit
  <2> HIDE DEF A
  <2>5. Conserved(P)
    <3>1. Conserved(A)
      BY <2>3, WalletConserves
    <3>2. QED
      BY <1>1, <2>2, <3>1, MoveConserves
  <2>6. P \in Ledgers
    BY <1>1, <2>2, <2>4, MoveType
  <2>7. A.allowance[b][t] - n = 0
    BY <2>2
  <2> HIDE DEF P
  <2>8. Z \in Ledgers /\ Z.wallet = P.wallet
    <3>1. Z = Approve(P, b, t, 0)
      BY <2>7
    <3>2. Approve(P, b, t, 0) \in Ledgers
      BY <2>6, ApproveType
    <3>3. Approve(P, b, t, 0).wallet = P.wallet
      BY <2>6, ApproveEffect, Zenon
    <3> HIDE DEF Z
    <3>4. QED
      BY <3>1, <3>2, <3>3
  <2> HIDE DEF Z
  <2>9. M.wallet = Z.wallet
    BY <2>1, <2>8, SetAccountEffect
  <2>10. M.wallet = P.wallet
    BY <2>8, <2>9
  <2>11. QED
    BY <2>5, <2>10, WalletConserves
<1>6. ASSUME NEW p \in Nat, NEW a, p <= L.wallet[Exchange][t],
             M = SetAccount(Move(L, Exchange, b, t, p), b, t, a)
      PROVE  Conserved(M)
  <2>1. Move(L, Exchange, b, t, p) \in Ledgers
    BY <1>1, <1>6, MoveType
  <2>2. M.wallet = Move(L, Exchange, b, t, p).wallet
    BY <1>6, <2>1, SetAccountEffect
  <2>3. QED
    BY <1>1, <2>2, MoveConserves
<1>7. CASE op = "requestWithdraw"
  <2>1. PaidByRequest(L.exch[b][t]) \in Nat /\ PaidByRequest(L.exch[b][t]) <= L.wallet[Exchange][t]
    BY <1>1, <1>7, AccountFacts DEF CallSucceeds
  <2>2. M = SetAccount(Move(L, Exchange, b, t, PaidByRequest(L.exch[b][t])), b, t,
                       Request(L.exch[b][t], n))
    BY <1>7 DEF CallEffect, RequestCall
  <2>3. QED
    BY <1>6, <2>1, <2>2
<1>8. CASE op = "withdraw"
  <2>1. Withdrawable(L.exch[b][t]) \in Nat /\ Withdrawable(L.exch[b][t]) <= L.wallet[Exchange][t]
    BY <1>1, <1>8, AccountFacts DEF CallSucceeds
  <2>2. M = SetAccount(Move(L, Exchange, b, t, Withdrawable(L.exch[b][t])), b, t,
                       Withdraw(L.exch[b][t]))
    BY <1>8 DEF CallEffect, WithdrawCall
  <2>3. QED
    BY <1>6, <2>1, <2>2
<1>9. QED
  BY <1>2, <1>3, <1>4, <1>5, <1>7, <1>8 DEF Ops
-----------------------------------------------------------------------------
(* The call a bundle makes next: what it is about, and how it ends.        *)
EntryAt(k)   == EntryOf(Running.kind, k)
OpAt(k)      == OpOf(Running.kind, k)
BracketAt(k) == BracketOf(EntryAt(k))
TokenAt(k)   == TokenOf(EntryAt(k))
AmountAt(k)  == Running.amount[EntryAt(k)]

SucceedsAt(k) == CallSucceeds(OpAt(k), work, BracketAt(k), TokenAt(k), AmountAt(k))
EffectAt(k)   == CallEffect(OpAt(k), work, BracketAt(k), TokenAt(k), AmountAt(k))

Exists(k) == /\ k \in Calls(Running) /\ EntryAt(k) \in Entry /\ OpAt(k) \in Ops
             /\ BracketAt(k) \in Brackets /\ TokenAt(k) \in Tokens /\ AmountAt(k) \in Nat

LEMMA RunCallFacts ==
    ASSUME IInv, RunCall
    PROVE  /\ mode # "idle" /\ ~failed /\ Running \in Bundles
           /\ UNCHANGED <<ledger, script, queue, mode, counts, halted>>
           /\ \E k \in todo :
                 /\ Exists(k) /\ todo' = todo \ {k} /\ \A j \in todo : k <= j
                 /\ \/ SucceedsAt(k) /\ work' = EffectAt(k) /\ UNCHANGED failed
                    \/ /\ ~SucceedsAt(k) /\ UNCHANGED work
                       /\ failed' = (OpAt(k) = "toBracket")
<1>1. /\ mode # "idle" /\ ~failed /\ Running \in Bundles /\ todo \subseteq Calls(Running)
      /\ UNCHANGED <<ledger, script, queue, mode, counts, halted>>
  BY RunningType DEF IInv, RunCall, Loaded
<1>2. PICK k \in todo :
        /\ todo' = todo \ {k} /\ \A j \in todo : k <= j
        /\ \/ SucceedsAt(k) /\ work' = EffectAt(k) /\ UNCHANGED failed
           \/ /\ ~SucceedsAt(k) /\ UNCHANGED work
              /\ failed' = (OpAt(k) = "toBracket")
  BY DEF RunCall, SucceedsAt, EffectAt, OpAt, BracketAt, TokenAt, AmountAt, EntryAt
<1>3. k \in Calls(Running) /\ EntryAt(k) \in Entry /\ OpAt(k) \in Ops
  BY <1>1, CallsType DEF EntryAt, OpAt
<1>4. BracketAt(k) \in Brackets /\ TokenAt(k) \in Tokens /\ AmountAt(k) \in Nat
  BY <1>1, <1>3, FundsAssumption DEF Bundles, BracketOf, TokenOf, BracketAt, TokenAt, AmountAt
<1>5. QED
  BY <1>1, <1>2, <1>3, <1>4 DEF Exists

LEMMA InitConserved == Init => Conserved(ledger) /\ Conserved(work)
<1> SUFFICES ASSUME Init PROVE Conserved(ledger)
  BY DEF Init
<1> DEFINE E == MarketFunds + BracketFunds * Cardinality(Brackets)
<1>1. /\ MasterFunds \in Nat /\ E \in Nat
      /\ Master # Exchange /\ Master \notin Brackets /\ Exchange \notin Brackets
      /\ Master \in Holders /\ Exchange \in Holders
  <2>1. Cardinality(Brackets) \in Nat
    BY FundsAssumption, FS_CardinalityType
  <2>2. QED
    BY <2>1, FundsAssumption DEF Holders
<1>2. MasterFunds + E = Total
  <2>1. BracketFunds * Cardinality(Brackets) \in Nat
    BY FundsAssumption, FS_CardinalityType
  <2>2. QED
    BY <2>1, FundsAssumption DEF Total
<1> HIDE DEF E
<1>3. ASSUME NEW t \in Tokens
      PROVE  Supply(ledger, t) = Total
  <2> DEFINE f == Wallets(ledger, t)
             z == [h \in Holders |-> 0]
             m == [h \in Holders |-> IF h = Master THEN MasterFunds ELSE 0]
  <2>1. f = [h \in Holders |-> CASE h = Master   -> MasterFunds
                                 [] h = Exchange -> E
                                 [] OTHER        -> 0]
    BY DEF Init, Wallets, E
  <2> HIDE DEF f
  <2>2. /\ f[Exchange] = E
        /\ \A h \in Holders : f[h] \in Int /\ m[h] \in Int /\ z[h] \in Int /\ z[h] = 0
        /\ \A h \in Holders \ {Exchange} : f[h] = m[h]
        /\ \A h \in Holders \ {Master} : m[h] = z[h]
        /\ m[Master] = MasterFunds /\ m[Exchange] = 0
    BY <1>1, <2>1
  <2> HIDE DEF z, m
  <2>3. SumFunctionOnSet(z, Holders) = 0
    BY <2>2, HoldersFinite, SumZero
  <2>4. SumFunctionOnSet(m, Holders) = SumFunctionOnSet(z, Holders) + (m[Master] - z[Master])
    <3>1. \A h \in Holders : z[h] \in Int /\ m[h] \in Int
      BY <2>2
    <3>2. \A h \in Holders \ {Master} : m[h] = z[h]
      BY <2>2
    <3>3. QED
      BY <1>1, <3>1, <3>2, HoldersFinite, SumChange
  <2>5. SumFunctionOnSet(f, Holders) = SumFunctionOnSet(m, Holders) + (f[Exchange] - m[Exchange])
    <3>1. \A h \in Holders : m[h] \in Int /\ f[h] \in Int
      BY <2>2
    <3>2. \A h \in Holders \ {Exchange} : f[h] = m[h]
      BY <2>2
    <3>3. QED
      BY <1>1, <3>1, <3>2, HoldersFinite, SumChange
  <2>6. SumFunctionOnSet(f, Holders) = MasterFunds + E
    BY <1>1, <2>2, <2>3, <2>4, <2>5
  <2>7. QED
    BY <1>2, <2>6 DEF Supply, f
<1>4. QED
  BY <1>3 DEF Conserved

LEMMA StepConserved ==
    IInv /\ Conserved(ledger) /\ Conserved(work) /\ [Next]_vars
        => (Conserved(ledger) /\ Conserved(work))'
<1> SUFFICES ASSUME IInv, Conserved(ledger), Conserved(work), [Next]_vars
             PROVE  Conserved(ledger') /\ Conserved(work')
  BY DEF Conserved, Supply, Wallets
<1>1. CASE ScriptSteps \/ UNCHANGED vars
  <2>1. UNCHANGED <<ledger, work>>
    BY <1>1 DEF ScriptSteps, StartReading, StartListed, Start, ReadAmount, LimitAmount,
                FinishReading, Decline, vars
  <2>2. QED
    BY <2>1, SMTT(30)
<1>2. CASE StartEstimate \/ StartExecute \/ FinishEstimate \/ FinishExecute
  <2>1. ledger' \in {ledger, work} /\ work' \in {ledger, ledger'}
    BY <1>2 DEF StartEstimate, StartExecute, Load, FinishEstimate, FinishExecute, Unload
  <2>2. QED
    BY <2>1
<1>3. CASE RunCall
  <2>1. PICK k \in todo : Exists(k) /\ ((SucceedsAt(k) /\ work' = EffectAt(k)) \/ UNCHANGED work)
    BY <1>3, RunCallFacts
  <2>2. SucceedsAt(k) => Conserved(EffectAt(k))
    BY <2>1, CallConserves DEF Exists, SucceedsAt, EffectAt, IInv
  <2>3. UNCHANGED ledger
    BY <1>3 DEF RunCall
  <2>4. QED
    BY <2>1, <2>2, <2>3
<1>4. ASSUME NEW b \in Brackets, NEW t \in Tokens, NEW n \in TradeSizes, Trade(b, t, n)
      PROVE  Conserved(ledger') /\ Conserved(work')
  <2>1. ledger'.wallet = ledger.wallet /\ work' = ledger'
    BY <1>4, Zenon DEF Trade, IInv, TypeOK, Ledgers
  <2>2. QED
    BY <2>1, WalletConserves
<1>5. CASE NextBatch
  <2>1. ledger'.wallet = ledger.wallet /\ work' = ledger'
    BY <1>5, Zenon DEF NextBatch, IInv, TypeOK, Ledgers
  <2>2. QED
    BY <2>1, WalletConserves
<1>6. QED
  BY <1>1, <1>2, <1>3, <1>4, <1>5 DEF Next, ScriptSteps

(* What the exchange owes one bracket is there.                            *)
LEMMA ExchangePays ==
    ASSUME NEW L \in Ledgers, Solvent(L), NEW b \in Brackets, NEW t \in Tokens
    PROVE  L.exch[b][t].bal <= L.wallet[Exchange][t]
<1> DEFINE f == Held(L, t)
<1>1. \A c \in Brackets : f[c] \in Int /\ f[c] >= 0
  <2>1. ASSUME NEW c \in Brackets
        PROVE  f[c] \in Int /\ f[c] >= 0
    <3>1. L.exch[c][t] \in Account
      BY DEF Ledgers
    <3>2. QED
      BY <3>1 DEF Held, Account
  <2>2. QED
    BY <2>1
<1>2. L.exch[b][t].bal <= f[b] /\ L.exch[b][t].bal \in Int
  <2>1. L.exch[b][t] \in Account
    BY DEF Ledgers
  <2>2. QED
    BY <2>1 DEF Held, Account
<1> HIDE DEF f
<1>3. /\ SumFunctionOnSet(f, Brackets) = f[b] + SumFunctionOnSet(f, Brackets \ {b})
      /\ SumFunctionOnSet(f, Brackets \ {b}) \in Int /\ SumFunctionOnSet(f, Brackets \ {b}) >= 0
  <2>1. IsFiniteSet(Brackets) /\ IsFiniteSet(Brackets \ {b})
    BY FundsAssumption, FS_Subset
  <2>2. (\A c \in Brackets \ {b} : f[c] \in Int) /\ (\A c \in Brackets \ {b} : f[c] >= 0)
    BY <1>1
  <2>3. SumFunctionOnSet(f, Brackets) = f[b] + SumFunctionOnSet(f, Brackets \ {b})
    BY <1>1, <2>1, SumRemove
  <2>4. QED
    BY <2>1, <2>2, <2>3, SumInteger
<1>4. L.wallet[Exchange][t] = L.market[t] + SumFunctionOnSet(f, Brackets)
  BY DEF Solvent, Covers, f
<1>5. L.market[t] \in Int /\ L.market[t] >= 0 /\ f[b] \in Int
  BY <1>1 DEF Ledgers
<1>6. QED
  BY <1>2, <1>3, <1>4, <1>5

(* So no account has more than there is.                                   *)
LEMMA BalanceBound ==
    ASSUME NEW L \in Ledgers, Solvent(L), Conserved(L), NEW b \in Brackets, NEW t \in Tokens
    PROVE  L.exch[b][t].bal <= Total
<1> DEFINE w == Wallets(L, t)
<1>1. \A h \in Holders : w[h] \in Int /\ w[h] >= 0
  BY DEF Wallets, Ledgers
<1>2. w[Exchange] = L.wallet[Exchange][t] /\ Exchange \in Holders
  BY DEF Wallets, Holders
<1> HIDE DEF w
<1>3. /\ SumFunctionOnSet(w, Holders) = w[Exchange] + SumFunctionOnSet(w, Holders \ {Exchange})
      /\ SumFunctionOnSet(w, Holders \ {Exchange}) \in Int
      /\ SumFunctionOnSet(w, Holders \ {Exchange}) >= 0
  <2>1. IsFiniteSet(Holders \ {Exchange})
    BY HoldersFinite, FS_Subset
  <2>2. (\A h \in Holders \ {Exchange} : w[h] \in Int) /\ (\A h \in Holders \ {Exchange} : w[h] >= 0)
    BY <1>1
  <2>3. SumFunctionOnSet(w, Holders) = w[Exchange] + SumFunctionOnSet(w, Holders \ {Exchange})
    BY <1>1, <1>2, HoldersFinite, SumRemove
  <2>4. QED
    BY <2>1, <2>2, <2>3, SumInteger
<1>4. SumFunctionOnSet(w, Holders) = Total
  BY DEF Conserved, Supply, w
<1>5. L.exch[b][t].bal \in Int /\ L.exch[b][t].bal <= w[Exchange]
  <2>1. L.exch[b][t] \in Account
    BY DEF Ledgers
  <2>2. QED
    BY <1>2, <2>1, ExchangePays DEF Account
<1>6. w[Exchange] \in Int
  BY <1>1, <1>2
<1>7. QED
  BY <1>3, <1>4, <1>5, <1>6

(* The calls of a bundle are about the entries it lists; which calls they  *)
(* are depends on its kind.                                                *)
LEMMA CallKinds ==
    ASSUME NEW bundle \in Bundles, NEW k \in Calls(bundle)
    PROVE  /\ EntryOf(bundle.kind, k) \in Listed(bundle.amount)
           /\ OpOf(bundle.kind, k) = "requestWithdraw" => bundle.kind \in {"request", "requestAll"}
           /\ OpOf(bundle.kind, k) = "withdraw" => bundle.kind \in {"claim", "claimTransfer"}
           /\ bundle.kind \in {"request", "requestAll"} =>
                 OpOf(bundle.kind, k) = "requestWithdraw" /\ EntryOf(bundle.kind, k) = k
<1>0. N \in Nat /\ bundle.kind \in AllKinds
  BY FundsAssumption DEF Bundles
<1>1. CASE bundle.kind = "claimTransfer"
  <2>1. PICK e \in Listed(bundle.amount) : k = e \/ k = N + e
    BY <1>1 DEF Calls
  <2>2. e \in 1..N
    BY DEF Listed, Entry
  <2>3. EntryOf(bundle.kind, k) = e
    BY <1>0, <1>1, <2>1, <2>2 DEF EntryOf
  <2>4. OpOf(bundle.kind, k) # "requestWithdraw"
    BY <1>1 DEF OpOf
  <2>5. QED
    BY <1>1, <2>3, <2>4
<1>2. CASE bundle.kind = "fund"
  <2>1. PICK e \in Listed(bundle.amount) : k = 2*e - 1 \/ k = 2*e
    BY <1>2 DEF Calls
  <2>2. e \in Nat
    BY <1>0 DEF Listed, Entry
  <2>3. (k + 1) \div 2 = e
    BY <2>1, <2>2
  <2>4. EntryOf(bundle.kind, k) = e
    BY <1>2, <2>3 DEF EntryOf
  <2>5. OpOf(bundle.kind, k) \notin {"requestWithdraw", "withdraw"}
    BY <1>2 DEF OpOf
  <2>6. QED
    BY <1>2, <2>4, <2>5
<1>3. CASE bundle.kind \notin {"claimTransfer", "fund"}
  <2>1. k \in Listed(bundle.amount) /\ EntryOf(bundle.kind, k) = k
    BY <1>3 DEF Calls, EntryOf
  <2>2. /\ OpOf(bundle.kind, k) = "requestWithdraw" => bundle.kind \in {"request", "requestAll"}
        /\ OpOf(bundle.kind, k) = "withdraw" => bundle.kind = "claim"
        /\ bundle.kind \in {"request", "requestAll"} => OpOf(bundle.kind, k) = "requestWithdraw"
    BY <1>0, <1>3 DEF OpOf, AllKinds
  <2>3. QED
    BY <2>1, <2>2
<1>4. QED
  BY <1>1, <1>2, <1>3

AccountIn(L, e) == L.exch[BracketOf(e)][TokenOf(e)]
WalletIn(L, e)  == L.wallet[BracketOf(e)][TokenOf(e)]

LEMMA PairTypes ==
    ASSUME NEW L \in Ledgers, NEW e \in Entry
    PROVE  /\ BracketOf(e) \in Brackets /\ TokenOf(e) \in Tokens
           /\ AccountIn(L, e) \in Account /\ WalletIn(L, e) \in Nat
<1>1. BracketOf(e) \in Brackets /\ TokenOf(e) \in Tokens
  BY FundsAssumption DEF BracketOf, TokenOf
<1>2. AccountIn(L, e) \in Account
  BY <1>1 DEF AccountIn, Ledgers
<1>3. WalletIn(L, e) \in Nat
  BY <1>1 DEF WalletIn, Ledgers, Holders
<1>4. QED
  BY <1>1, <1>2, <1>3

(* What a trade does to each account.                                      *)
LEMMA TradeAccounts ==
    ASSUME ledger \in Ledgers, NEW b \in Brackets, NEW t \in Tokens, NEW n, Trade(b, t, n),
           NEW c \in Brackets, NEW u \in Tokens
    PROVE  /\ ledger'.wallet = ledger.wallet
           /\ ledger'.exch[c][u] =
                 IF c # b THEN ledger.exch[c][u]
                 ELSE IF u = t THEN Sell(ledger.exch[c][u], n) ELSE Buy(ledger.exch[c][u], n)
<1> DEFINE o == Other(t)
           x == ledger.exch
           y == [[x EXCEPT ![b][t] = Sell(x[b][t], n)] EXCEPT ![b][o] = Buy(x[b][o], n)]
           m == [[ledger.market EXCEPT ![t] = @ + n] EXCEPT ![o] = @ - n]
<1>1. o \in Tokens /\ o # t /\ Tokens = {t, o}
  BY FundsAssumption DEF Tokens, Other
<1>2. x \in [Brackets -> [Tokens -> Account]]
  BY DEF Ledgers
<1>3. ledger'.exch = y /\ ledger'.wallet = ledger.wallet
  <2>1. x[b][o] = [x EXCEPT ![b][t] = Sell(x[b][t], n)][b][o]
    BY <1>1, <1>2, Zenon
  <2>2. ledger' = [ledger EXCEPT !.exch = y, !.market = m]
    BY <1>1, <1>2, <2>1, Zenon DEF Trade, Ledgers
  <2> HIDE DEF y, m
  <2>3. QED
    BY <1>2, <2>2, Zenon DEF Ledgers
<1>4. y[c][u] = IF c # b THEN x[c][u]
                ELSE IF u = t THEN Sell(x[c][u], n) ELSE Buy(x[c][u], n)
  BY <1>1, <1>2
<1>5. QED
  BY <1>3, <1>4

(* No pair is named twice in a bundle.                                     *)
OneEntryPerPair == \A e, f \in Entry : Listing[e] = Listing[f] => e = f

(* So a call changes nothing of any other entry.                           *)
OneChanges(L, M, e, acc, gain) ==
    /\ AccountIn(M, e) = acc
    /\ WalletIn(M, e) = WalletIn(L, e) + gain
    /\ \A f \in Entry \ {e} : AccountIn(M, f) = AccountIn(L, f) /\ WalletIn(M, f) = WalletIn(L, f)

LEMMA CallOfOneEntry ==
    ASSUME OneEntryPerPair, NEW L, Clean(L), NEW M, NEW op \in Ops, NEW e \in Entry, NEW n \in Nat,
           CallSucceeds(op, L, BracketOf(e), TokenOf(e), n),
           M = CallEffect(op, L, BracketOf(e), TokenOf(e), n)
    PROVE  OneChanges(L, M, e, AccountAfter(op, AccountIn(L, e), n), Gain(op, AccountIn(L, e), n))
<1> DEFINE b == BracketOf(e)
           t == TokenOf(e)
<1>1. b \in Brackets /\ t \in Tokens
  BY FundsAssumption DEF BracketOf, TokenOf
<1>2. Differs(L, M, b, t, AccountAfter(op, L.exch[b][t], n), Gain(op, L.exch[b][t], n), Spent(op, n))
  BY <1>1, CallDiffers
<1>3. ASSUME NEW f \in Entry \ {e}
      PROVE  /\ BracketOf(f) \in Brackets /\ TokenOf(f) \in Tokens
             /\ <<BracketOf(f), TokenOf(f)>> # <<b, t>>
  <2>1. \A g \in Entry : /\ BracketOf(g) \in Brackets /\ TokenOf(g) \in Tokens
                         /\ Listing[g] = <<BracketOf(g), TokenOf(g)>>
    BY FundsAssumption DEF BracketOf, TokenOf
  <2>2. Listing[f] # Listing[e]
    BY DEF OneEntryPerPair
  <2>3. QED
    BY <2>1, <2>2, Zenon
<1>4. \A f \in Entry \ {e} : AccountIn(M, f) = AccountIn(L, f) /\ WalletIn(M, f) = WalletIn(L, f)
  BY <1>2, <1>3 DEF Differs, AccountIn, WalletIn
<1>5. QED
  BY <1>2, <1>4 DEF OneChanges, Differs, AccountIn, WalletIn
-----------------------------------------------------------------------------
(***************************************************************************)
(* Requests halt trading.                                                  *)
(***************************************************************************)
(* A bundle calls about nothing that was not asked for, and a request whose*)
(* amounts were read is for everything or is left out.                     *)
AsksAll(bundle) ==
    /\ Listed(bundle.amount) \subseteq bundle.asked
    /\ (bundle.kind \in {"request", "requestAll"} /\ bundle.read)
         => (\A e \in Entry : bundle.amount[e] \in {0, MaxAmount})

ScriptAsks ==
    /\ mode = "estimate" => script.pc = "send"
    /\ script.pc = "read" => script.unread \subseteq script.bundle.asked
    /\ script.pc = "limit" => script.bundle.kind = "transfer"
    /\ script.pc # "idle" => AsksAll(script.bundle)

QueueAsks == \A i \in 1..Len(queue) : AsksAll(queue[i])

SameRequest(acc, acc2) == acc.wd = acc2.wd /\ acc.wdFresh = acc2.wdFresh

(* While a bundle is executed: it has requested what it should, unless the *)
(* exchange had to refuse, or has not come to it yet; requests that it does*)
(* not withdraw are as they were.                                          *)
Requests(bundle, e) == bundle.kind \in {"request", "requestAll"} /\ e \in bundle.asked
Claims(bundle, e)   == bundle.kind \in {"claim", "claimTransfer"} /\ e \in bundle.asked

Requested(bundle, e) ==
    IF e \in todo THEN AccountIn(work, e) = AccountIn(ledger, e)
    ELSE CanRequest(AccountIn(ledger, e)) => AccountIn(work, e).wd = MaxAmount

RequestKept(bundle, e) ==
    /\ (Requests(bundle, e) /\ bundle.read /\ bundle.amount[e] > 0) => Requested(bundle, e)
    /\ (~Requests(bundle, e) /\ ~Claims(bundle, e))
         => SameRequest(AccountIn(work, e), AccountIn(ledger, e))

RequestsKept == mode = "execute" /\ ~failed => \A e \in Entry : RequestKept(Head(queue), e)

(* What halts trading is a valid request for more than there is.           *)
Upheld(acc, h) == h.request = "made" =>
                    acc.wd = MaxAmount /\ (h.told = "yes" => ~acc.wdFresh)

AllHalted == \A e \in Entry : Upheld(AccountIn(ledger, e), halted[e])

HInv == ScriptAsks /\ QueueAsks /\ RequestsKept /\ AllHalted

LEMMA InitHInv == Init => HInv
<1> SUFFICES ASSUME Init PROVE HInv
  OBVIOUS
<1>1. script.pc = "idle" /\ mode = "idle" /\ queue = <<>>
  BY DEF Init, IdleScript
<1>2. QueueAsks
  BY <1>1 DEF QueueAsks
<1>3. AllHalted
  BY DEF Init, AllHalted, Upheld, NotHalted
<1>4. QED
  BY <1>1, <1>2, <1>3 DEF HInv, ScriptAsks, RequestsKept

(* How the scripts build what they ask for.                                *)
LEMMA ScriptStepsHInv ==
    ASSUME IInv, HInv, ScriptSteps
    PROVE  HInv'
<1> USE DEF ScriptSteps
<1>1. mode = "idle" /\ UNCHANGED <<ledger, queue, mode, work, halted>>
  BY DEF StartReading, StartListed, Start, ReadAmount, LimitAmount, FinishReading, Decline
<1>2. script \in [pc : {"idle", "read", "limit", "send"}, unread : SUBSET Entry, bundle : Bundles]
      /\ script.bundle \in Bundles /\ script.bundle.amount \in [Entry -> Nat]
      /\ script.unread \in SUBSET Entry
  BY DEF IInv, TypeOK, Bundles
<1>3. ASSUME NEW kind \in Kinds, NEW asked \in SUBSET Entry, StartReading(kind, asked)
      PROVE  ScriptAsks'
  <2> DEFINE amount == [e \in Entry |-> 0]
  <2>1. /\ script'.pc = "read" /\ script'.unread = asked /\ script'.bundle.asked = asked
        /\ script'.bundle.kind = kind /\ script'.bundle.amount = amount
    BY <1>3, Zenon DEF StartReading, Start
  <2>2. Listed(amount) = {} /\ \A e \in Entry : amount[e] \in {0, MaxAmount}
    BY DEF Listed
  <2> HIDE DEF amount
  <2>3. AsksAll(script'.bundle)
    BY <2>1, <2>2 DEF AsksAll
  <2>4. QED
    BY <1>1, <2>1, <2>3 DEF ScriptAsks
<1>4. ASSUME NEW kind \in Kinds, NEW amount, StartListed(kind, amount)
      PROVE  ScriptAsks'
  <2>1. /\ script'.pc \in {"limit", "send"}
        /\ script'.pc = "limit" => kind = "transfer"
        /\ script'.bundle.asked = Listed(amount)
        /\ script'.bundle.kind = kind /\ script'.bundle.amount = amount
        /\ ~script'.bundle.read
    <3>1. ASSUME NEW pc \in {"limit", "send"}, NEW unread,
                 Start(kind, Listed(amount), amount, pc, unread)
          PROVE  /\ script'.pc = pc /\ script'.bundle.asked = Listed(amount)
                 /\ script'.bundle.kind = kind /\ script'.bundle.amount = amount
                 /\ script'.bundle.read = (pc = "read")
      BY <3>1, Zenon DEF Start
    <3>2. CASE kind = "transfer"
      BY <1>4, <3>1, <3>2 DEF StartListed
    <3>3. CASE kind # "transfer"
      BY <1>4, <3>1, <3>3 DEF StartListed
    <3>4. QED
      BY <3>2, <3>3
  <2>2. AsksAll(script'.bundle)
    BY <2>1 DEF AsksAll
  <2>3. QED
    BY <1>1, <2>1, <2>2 DEF ScriptAsks
<1>5. ASSUME NEW e \in Entry, ReadAmount(e) PROVE ScriptAsks'
  <2> DEFINE n == AmountRead(script.bundle.kind, e)
  <2>1. /\ script.pc = "read" /\ e \in script.unread
        /\ script'.pc = "read" /\ script'.unread = script.unread \ {e}
        /\ script'.bundle.kind = script.bundle.kind /\ script'.bundle.asked = script.bundle.asked
        /\ script'.bundle.read = script.bundle.read
        /\ script'.bundle.amount = [script.bundle.amount EXCEPT ![e] = n]
    BY <1>2, <1>5, Zenon DEF ReadAmount, Bundles
  <2>2. AsksAll(script.bundle) /\ script.unread \subseteq script.bundle.asked
    BY <2>1 DEF HInv, ScriptAsks
  <2>3. script.bundle.kind \in {"request", "requestAll"} => n \in {0, MaxAmount}
    BY DEF AmountRead
  <2> HIDE DEF n
  <2>4. Listed(script'.bundle.amount) \subseteq script.bundle.asked
    BY <1>2, <2>1, <2>2 DEF AsksAll, Listed
  <2>5. script.bundle.kind \in {"request", "requestAll"} /\ script.bundle.read =>
           \A f \in Entry : script'.bundle.amount[f] \in {0, MaxAmount}
    BY <1>2, <2>1, <2>2, <2>3 DEF AsksAll
  <2>6. AsksAll(script'.bundle)
    BY <2>1, <2>2, <2>4, <2>5 DEF AsksAll
  <2>7. QED
    BY <1>1, <2>1, <2>2, <2>6 DEF ScriptAsks
<1>6. ASSUME NEW e \in Entry, LimitAmount(e) PROVE ScriptAsks'
  <2> DEFINE n == Min2(script.bundle.amount[e], ledger.wallet[BracketOf(e)][TokenOf(e)])
  <2>1. /\ script.pc = "limit" /\ script'.pc \in {"limit", "send"}
        /\ script'.bundle.kind = script.bundle.kind /\ script'.bundle.asked = script.bundle.asked
        /\ script'.bundle.amount = [script.bundle.amount EXCEPT ![e] = n]
    BY <1>2, <1>6, Zenon DEF LimitAmount, Bundles
  <2>2. AsksAll(script.bundle) /\ script.bundle.kind = "transfer"
    BY <2>1 DEF HInv, ScriptAsks
  <2>3. n > 0 => script.bundle.amount[e] > 0
    <3>1. ledger.wallet[BracketOf(e)][TokenOf(e)] \in Nat
      BY PairTypes DEF WalletIn, IInv, TypeOK
    <3>2. QED
      BY <1>2, <3>1 DEF Min2
  <2> HIDE DEF n
  <2>4. Listed(script'.bundle.amount) \subseteq Listed(script.bundle.amount)
    BY <1>2, <2>1, <2>3 DEF Listed
  <2>5. AsksAll(script'.bundle)
    BY <2>1, <2>2, <2>4 DEF AsksAll
  <2>6. QED
    BY <1>1, <2>1, <2>2, <2>5 DEF ScriptAsks
<1>7. ASSUME FinishReading PROVE ScriptAsks'
  <2>1. script.pc = "read" /\ script.unread = {} /\ AsksAll(script.bundle)
    BY <1>7 DEF FinishReading, HInv, ScriptAsks
  <2>2. CASE script' = IdleScript
    BY <1>1, <2>2 DEF ScriptAsks, IdleScript
  <2>3. CASE script' # IdleScript
    <3>1. /\ script'.bundle = script.bundle /\ script'.pc \in {"limit", "send"}
          /\ script'.pc = "limit" => script.bundle.kind = "transfer"
      BY <1>2, <1>7, <2>3, Zenon DEF FinishReading
    <3>2. QED
      BY <1>1, <2>1, <3>1 DEF ScriptAsks
  <2>4. QED
    BY <2>2, <2>3
<1>8. ASSUME Decline PROVE ScriptAsks'
  BY <1>1, <1>8 DEF Decline, ScriptAsks, IdleScript
<1>9. ScriptAsks'
  BY <1>3, <1>4, <1>5, <1>6, <1>7, <1>8
<1>10. QueueAsks' /\ RequestsKept' /\ AllHalted'
  BY <1>1 DEF HInv, QueueAsks, RequestsKept, AllHalted, AccountIn
<1>11. QED
  BY <1>9, <1>10, SMTT(30) DEF HInv

(* An account that accepts requests is paid by a solvent exchange.         *)
LEMMA RequestSucceeds ==
    ASSUME NEW L \in Ledgers, Solvent(L), NEW e \in Entry, NEW n \in Nat,
           CanRequest(AccountIn(L, e))
    PROVE  CallSucceeds("requestWithdraw", L, BracketOf(e), TokenOf(e), n)
<1> DEFINE acc == AccountIn(L, e)
           held == L.wallet[Exchange][TokenOf(e)]
<1>1. /\ BracketOf(e) \in Brackets /\ TokenOf(e) \in Tokens /\ acc \in Account
  BY PairTypes
<1>2. acc.bal <= held
  BY <1>1, ExchangePays DEF AccountIn
<1>3. PaidByRequest(acc) \in Nat /\ PaidByRequest(acc) <= acc.bal
  BY <1>1, AccountFacts
<1>4. acc.bal \in Nat /\ held \in Nat
  BY <1>1 DEF Account, Ledgers, Holders
<1> HIDE DEF held
<1>5. PaidByRequest(acc) <= held
  BY <1>2, <1>3, <1>4
<1>6. QED
  BY <1>5 DEF CallSucceeds, AccountIn, held

(* What a call does to the requests, also one that fails and is passed     *)
(* over: only the exchange's refusal keeps a request from being made.      *)
LEMMA RunCallHInv ==
    ASSUME IInv, HInv, Solvent(work), RunCall, OneEntryPerPair
    PROVE  HInv'
<1>1. /\ mode # "idle" /\ ~failed /\ Running \in Bundles
      /\ UNCHANGED <<ledger, script, queue, mode, counts, halted>>
  BY RunCallFacts
<1>2. ScriptAsks' /\ QueueAsks' /\ AllHalted'
  BY <1>1 DEF HInv, ScriptAsks, QueueAsks, AllHalted, AccountIn
<1>3. ASSUME mode = "execute"
      PROVE  \A e \in Entry : RequestKept(Head(queue), e)'
  <2>0. PICK bundle : bundle = Head(queue)
    OBVIOUS
  <2>1. PICK k \in todo :
           /\ Exists(k) /\ todo' = todo \ {k}
           /\ \/ SucceedsAt(k) /\ work' = EffectAt(k)
              \/ ~SucceedsAt(k) /\ UNCHANGED work
    BY RunCallFacts
  <2>2. Running = bundle /\ bundle \in Bundles
    BY <1>1, <1>3, <2>0 DEF Running
  <2>3. AsksAll(bundle)
    <3>1. queue \in Seq(Bundles) /\ queue # <<>>
      BY <1>3 DEF IInv, TypeOK
    <3>2. bundle = queue[1] /\ 1 \in 1..Len(queue)
      BY <2>0, <3>1
    <3>3. QED
      BY <3>2 DEF HInv, QueueAsks
  <2>4. PICK g : g = EntryAt(k)
    OBVIOUS
  <2> DEFINE acc == AccountIn(work, g)
  <2>5. g \in Entry /\ OpAt(k) \in Ops /\ AmountAt(k) \in Nat /\ k \in Calls(bundle)
    BY <2>1, <2>2, <2>4 DEF Exists
  <2>6. /\ AccountIn(work', g) \in {acc, AccountAfter(OpAt(k), acc, AmountAt(k))}
        /\ SucceedsAt(k) => AccountIn(work', g) = AccountAfter(OpAt(k), acc, AmountAt(k))
        /\ \A f \in Entry \ {g} : AccountIn(work', f) = AccountIn(work, f)
    <3>1. CASE SucceedsAt(k)
      <4>1. Clean(work)
        BY DEF IInv
      <4>2. /\ CallSucceeds(OpAt(k), work, BracketOf(g), TokenOf(g), AmountAt(k))
            /\ work' = CallEffect(OpAt(k), work, BracketOf(g), TokenOf(g), AmountAt(k))
        BY <2>1, <2>4, <3>1 DEF SucceedsAt, EffectAt, BracketAt, TokenAt
      <4>3. OneChanges(work, work', g, AccountAfter(OpAt(k), AccountIn(work, g), AmountAt(k)),
                       Gain(OpAt(k), AccountIn(work, g), AmountAt(k)))
        BY <2>5, <4>1, <4>2, CallOfOneEntry, Zenon
      <4>4. QED
        BY <4>3 DEF OneChanges
    <3>2. CASE ~SucceedsAt(k)
      BY <2>1, <3>2
    <3>3. QED
      BY <3>1, <3>2
  <2>7. g \in bundle.asked
    BY <2>2, <2>3, <2>4, <2>5, CallKinds DEF AsksAll, EntryAt
  <2>8. /\ OpAt(k) = "requestWithdraw" => bundle.kind \in {"request", "requestAll"}
        /\ OpAt(k) = "withdraw" => bundle.kind \in {"claim", "claimTransfer"}
        /\ bundle.kind \in {"request", "requestAll"} => OpAt(k) = "requestWithdraw" /\ g = k
        /\ bundle.amount[g] > 0
    BY <2>2, <2>4, <2>5, CallKinds DEF OpAt, EntryAt, Listed
  <2>9. acc \in Account /\ work \in Ledgers
    BY <2>5, PairTypes DEF IInv, TypeOK
  <2>10. RequestKept(bundle, g)
    BY <1>1, <1>3, <2>0, <2>5 DEF HInv, RequestsKept
  <2>11. ASSUME Requests(bundle, g), bundle.read, CanRequest(AccountIn(ledger, g))
         PROVE  AccountIn(work', g).wd = MaxAmount
    <3>1. OpAt(k) = "requestWithdraw" /\ g = k
      BY <2>8, <2>11 DEF Requests
    <3>2. AmountAt(k) = MaxAmount
      <4>1. AmountAt(k) = bundle.amount[g] /\ bundle.amount[g] \in {0, MaxAmount}
        BY <2>2, <2>3, <2>4, <2>5, <2>11 DEF AsksAll, AmountAt, Requests
      <4>2. QED
        BY <2>8, <4>1
    <3>3. acc = AccountIn(ledger, g)
      BY <2>8, <2>10, <2>11, <3>1 DEF RequestKept, Requested
    <3>4. SucceedsAt(k)
      <4>1. CallSucceeds("requestWithdraw", work, BracketOf(g), TokenOf(g), AmountAt(k))
        BY <2>5, <2>9, <2>11, <3>3, RequestSucceeds
      <4>2. QED
        BY <2>4, <3>1, <4>1 DEF SucceedsAt, BracketAt, TokenAt
    <3>5. AccountIn(work', g) = Request(acc, MaxAmount)
      BY <2>6, <3>1, <3>2, <3>4 DEF AccountAfter
    <3>6. QED
      BY <2>9, <3>5, Zenon DEF Request, Account
  <2>12. ASSUME ~Requests(bundle, g), ~Claims(bundle, g)
         PROVE  SameRequest(AccountIn(work', g), AccountIn(ledger, g))
    <3>1. OpAt(k) \notin {"requestWithdraw", "withdraw"}
      BY <2>7, <2>8, <2>12 DEF Requests, Claims
    <3>2. AccountIn(work', g) \in {acc, Deposit(acc, AmountAt(k))}
      BY <2>5, <2>6, <3>1 DEF AccountAfter, Ops
    <3>3. SameRequest(AccountIn(work', g), acc)
      BY <2>9, <3>2, Zenon DEF SameRequest, Deposit, Account
    <3>4. SameRequest(acc, AccountIn(ledger, g))
      BY <2>10, <2>12 DEF RequestKept
    <3>5. QED
      BY <3>3, <3>4 DEF SameRequest
  <2>13. RequestKept(bundle, g)'
    <3>1. Requests(bundle, g) => g \notin todo'
      BY <2>1, <2>8 DEF Requests
    <3>2. UNCHANGED ledger
      BY <1>1
    <3> HIDE DEF acc
    <3>3. QED
      BY <2>11, <2>12, <3>1, <3>2 DEF RequestKept, Requested, AccountIn
  <2>14. ASSUME NEW f \in Entry, f # g
         PROVE  RequestKept(bundle, f)'
    <3>1. AccountIn(work', f) = AccountIn(work, f)
      BY <2>6, <2>14
    <3>2. Requests(bundle, f) => (f \in todo' <=> f \in todo)
      BY <2>1, <2>8, <2>14 DEF Requests
    <3>3. RequestKept(bundle, f)
      BY <1>1, <1>3, <2>0 DEF HInv, RequestsKept
    <3>4. UNCHANGED ledger
      BY <1>1
    <3>5. QED
      BY <3>1, <3>2, <3>3, <3>4 DEF RequestKept, Requested, AccountIn
  <2>15. Head(queue') = bundle
    BY <1>1, <2>0
  <2>16. QED
    BY <2>13, <2>14, <2>15, Zenon
<1>4. RequestsKept'
  BY <1>1, <1>3 DEF RequestsKept
<1>5. QED
  BY <1>2, <1>4 DEF HInv

LEMMA FinishExecuteHInv ==
    ASSUME IInv, HInv, FinishExecute
    PROVE  HInv'
<1> DEFINE bundle == Head(queue)
<1>1. /\ queue \in Seq(Bundles) /\ queue # <<>> /\ bundle \in Bundles
      /\ halted \in [Entry -> Halts]
  BY HeadTailProperties DEF IInv, TypeOK, FinishExecute
<1>2. mode' = "idle" /\ mode = "execute" /\ UNCHANGED script
  BY DEF FinishExecute, Unload
<1>3. ScriptAsks' /\ RequestsKept'
  BY <1>2 DEF HInv, ScriptAsks, RequestsKept
<1>4. QueueAsks'
  <2>1. queue' = Tail(queue)
    BY DEF FinishExecute
  <2>2. \A i \in 1..Len(queue') : i + 1 \in 1..Len(queue) /\ queue'[i] = queue[i + 1]
    BY <1>1, <2>1
  <2>3. QED
    BY <2>2 DEF HInv, QueueAsks
<1>5. AllHalted'
  <2>1. CASE failed
    BY <2>1 DEF FinishExecute, HInv, AllHalted, AccountIn
  <2>2. CASE ~failed
    <3>1. ledger' = work /\ halted' = HaltedBy(bundle) /\ todo = {}
      BY <2>2 DEF FinishExecute, Done
    <3> HIDE DEF bundle
    <3>2. ASSUME NEW e \in Entry
          PROVE  Upheld(AccountIn(work, e), HaltedBy(bundle)[e])
      <4>1. RequestKept(bundle, e)
        BY <1>2, <2>2, Zenon DEF HInv, RequestsKept, bundle
      <4>2. Upheld(AccountIn(ledger, e), halted[e])
        BY DEF HInv, AllHalted
      <4>3. CASE Requests(bundle, e) /\ bundle.read
        <5>1. HaltedBy(bundle)[e] = [told |-> "asked", request |-> RequestOf(bundle, e)]
          BY <4>3 DEF HaltedBy, Requests
        <5>2. ASSUME RequestOf(bundle, e) = "made"
              PROVE  AccountIn(work, e).wd = MaxAmount
          <6>1. CanRequest(AccountIn(ledger, e)) /\ bundle.amount[e] # 0
            BY <5>2 DEF RequestOf, AccountOf, AccountIn
          <6>2. bundle.amount[e] > 0
            BY <1>1, <6>1 DEF Bundles
          <6>3. QED
            BY <3>1, <4>1, <4>3, <6>1, <6>2 DEF RequestKept, Requested
        <5>3. QED
          BY <5>1, <5>2 DEF Upheld
      <4>5. CASE Claims(bundle, e) \/ (Requests(bundle, e) /\ ~bundle.read)
        <5>1. HaltedBy(bundle)[e] = NotHalted
          BY <4>5 DEF HaltedBy, Claims, Requests
        <5>2. QED
          BY <5>1 DEF Upheld, NotHalted
      <4>6. CASE ~Requests(bundle, e) /\ ~Claims(bundle, e)
        <5>1. SameRequest(AccountIn(work, e), AccountIn(ledger, e))
          BY <4>1, <4>6 DEF RequestKept
        <5>2. HaltedBy(bundle)[e] = halted[e]
          BY <4>6 DEF HaltedBy, Requests, Claims
        <5>3. QED
          BY <4>2, <5>1, <5>2 DEF Upheld, SameRequest
      <4>7. QED
        BY <4>3, <4>5, <4>6
    <3>3. QED
      BY <3>1, <3>2 DEF AllHalted, AccountIn
  <2>3. QED
    BY <2>1, <2>2
<1>6. QED
  BY <1>3, <1>4, <1>5 DEF HInv

(* Trades and batches leave requests alone, except that they become valid. *)
LEMMA ExchangeHInv ==
    ASSUME IInv, HInv,
           NextBatch \/ \E b \in Brackets, t \in Tokens, n \in TradeSizes : Trade(b, t, n)
    PROVE  HInv'
<1>1. mode = "idle" /\ UNCHANGED <<script, queue, mode>>
  <2>1. CASE NextBatch
    BY <2>1 DEF NextBatch
  <2>2. ASSUME NEW b \in Brackets, NEW t \in Tokens, NEW n \in TradeSizes, Trade(b, t, n)
        PROVE  mode = "idle" /\ UNCHANGED <<script, queue, mode>>
    BY <2>2 DEF Trade
  <2>3. QED
    BY <2>1, <2>2
<1>2. ScriptAsks' /\ QueueAsks' /\ RequestsKept'
  BY <1>1 DEF HInv, ScriptAsks, QueueAsks, RequestsKept
<1>3. ledger \in Ledgers /\ halted \in [Entry -> Halts]
  BY DEF IInv, TypeOK
<1>4. ASSUME NextBatch PROVE AllHalted'
  <2>1. ASSUME NEW e \in Entry
        PROVE  Upheld(AccountIn(ledger', e), halted'[e])
    <3>1. AccountIn(ledger', e) = NextBatchOf(AccountIn(ledger, e))
      <4>1. ledger'.exch = [b \in Brackets |-> [t \in Tokens |-> NextBatchOf(ledger.exch[b][t])]]
        BY <1>3, <1>4, Zenon DEF NextBatch, Ledgers
      <4>2. QED
        BY <1>3, <4>1, PairTypes DEF AccountIn
    <3>2. AccountIn(ledger, e) \in Account
      BY <1>3, PairTypes
    <3>3. /\ NextBatchOf(AccountIn(ledger, e)).wd = AccountIn(ledger, e).wd
          /\ NextBatchOf(AccountIn(ledger, e)).wdFresh = FALSE
      BY <3>2, Zenon DEF NextBatchOf, Account
    <3>4. halted'[e].request = halted[e].request
      <4>1. halted'[e] \in {halted[e], [halted[e] EXCEPT !.told = "yes"]} /\ halted[e] \in Halts
        BY <1>3, <1>4 DEF NextBatch
      <4>2. QED
        BY <4>1, Zenon DEF Halts
    <3>5. Upheld(AccountIn(ledger, e), halted[e])
      BY DEF HInv, AllHalted
    <3>6. QED
      BY <3>1, <3>3, <3>4, <3>5 DEF Upheld
  <2>2. QED
    BY <2>1 DEF AllHalted, AccountIn
<1>5. ASSUME NEW b \in Brackets, NEW t \in Tokens, NEW n \in TradeSizes, Trade(b, t, n)
      PROVE  AllHalted'
  <2>1. ASSUME NEW e \in Entry
        PROVE  SameRequest(AccountIn(ledger', e), AccountIn(ledger, e))
    <3>1. AccountIn(ledger', e) \in {AccountIn(ledger, e), Sell(AccountIn(ledger, e), n),
                                     Buy(AccountIn(ledger, e), n)}
      BY <1>3, <1>5, PairTypes, TradeAccounts DEF AccountIn
    <3>2. AccountIn(ledger, e) \in Account
      BY <1>3, PairTypes
    <3>3. /\ SameRequest(Sell(AccountIn(ledger, e), n), AccountIn(ledger, e))
          /\ SameRequest(Buy(AccountIn(ledger, e), n), AccountIn(ledger, e))
      BY <3>2, Zenon DEF SameRequest, Sell, Buy, Account
    <3>4. QED
      BY <3>1, <3>3, Zenon DEF SameRequest
  <2>2. halted' = halted
    BY <1>5 DEF Trade
  <2>3. QED
    BY <2>1, <2>2 DEF HInv, AllHalted, Upheld, SameRequest, AccountIn
<1>6. AllHalted'
  BY <1>4, <1>5
<1>7. QED
  BY <1>2, <1>6 DEF HInv

LEMMA StepHInv ==
    ASSUME OneEntryPerPair
    PROVE  IInv /\ HInv /\ Solvent(work) /\ [Next]_vars => HInv'
<1> SUFFICES ASSUME IInv, HInv, Solvent(work), [Next]_vars PROVE HInv'
  OBVIOUS
<1>1. CASE ScriptSteps
  BY <1>1, ScriptStepsHInv
<1>2. CASE StartEstimate
  <2>1. /\ mode' = "estimate" /\ script.pc = "send"
        /\ UNCHANGED <<ledger, script, queue, counts, halted>>
    BY <1>2 DEF StartEstimate, Load
  <2>2. QED
    BY <2>1 DEF HInv, ScriptAsks, QueueAsks, RequestsKept, AllHalted, AccountIn
<1>3. CASE StartExecute
  <2>1. PICK bundle : bundle = Head(queue)
    OBVIOUS
  <2>2. /\ mode' = "execute" /\ todo' = Calls(bundle) /\ work' = ledger /\ queue # <<>>
        /\ UNCHANGED <<ledger, script, queue, counts, halted>>
    BY <1>3, <2>1 DEF StartExecute, Load
  <2>3. bundle \in Bundles /\ AsksAll(bundle)
    <3>1. queue \in Seq(Bundles)
      BY DEF IInv, TypeOK
    <3>2. bundle = queue[1] /\ 1 \in 1..Len(queue)
      BY <2>1, <2>2, <3>1
    <3>3. QED
      BY <3>1, <3>2 DEF HInv, QueueAsks
  <2>4. ASSUME NEW e \in Entry
        PROVE  RequestKept(bundle, e)'
    <3>1. (Requests(bundle, e) /\ bundle.amount[e] > 0) => e \in todo'
      BY <2>2, <2>3 DEF Calls, Listed, Requests
    <3>2. QED
      BY <2>2, <3>1 DEF RequestKept, Requested, SameRequest, AccountIn
  <2>5. Head(queue') = bundle
    BY <2>1, <2>2
  <2>6. RequestsKept'
    BY <2>4, <2>5, Zenon DEF RequestsKept
  <2>7. mode = "idle"
    BY <1>3 DEF StartExecute, Load
  <2>8. QED
    BY <2>2, <2>6, <2>7 DEF HInv, ScriptAsks, QueueAsks, AllHalted, AccountIn
<1>4. CASE RunCall
  BY <1>4, RunCallHInv
<1>5. CASE FinishEstimate
  <2> DEFINE bundle == [script.bundle EXCEPT !.estimated = counts.executed]
  <2>1. /\ script' = IdleScript /\ ledger' = ledger /\ mode' = "idle" /\ halted' = halted
        /\ queue' = queue \/ queue' = Append(queue, bundle)
    BY <1>5 DEF FinishEstimate, Unload
  <2>2. AsksAll(bundle)
    <3>1. AsksAll(script.bundle)
      BY <1>5 DEF FinishEstimate, HInv, ScriptAsks
    <3>2. /\ bundle.kind = script.bundle.kind /\ bundle.asked = script.bundle.asked
          /\ bundle.amount = script.bundle.amount /\ bundle.read = script.bundle.read
      BY Zenon DEF IInv, TypeOK, Bundles
    <3>3. QED
      BY <3>1, <3>2 DEF AsksAll
  <2>3. queue \in Seq(Bundles)
    BY DEF IInv, TypeOK
  <2> HIDE DEF bundle
  <2>4. QueueAsks'
    <3>1. CASE queue' = queue
      BY <3>1 DEF HInv, QueueAsks
    <3>2. CASE queue' = Append(queue, bundle)
      <4>1. \A i \in 1..Len(queue') :
               \/ i \in 1..Len(queue) /\ queue'[i] = queue[i]
               \/ queue'[i] = bundle
        BY <2>3, <3>2
      <4>2. QED
        BY <2>2, <4>1 DEF HInv, QueueAsks
    <3>3. QED
      BY <2>1, <3>1, <3>2
  <2>5. QED
    BY <2>1, <2>4 DEF HInv, ScriptAsks, RequestsKept, AllHalted, AccountIn, IdleScript
<1>6. CASE FinishExecute
  BY <1>6, FinishExecuteHInv
<1>7. CASE NextBatch \/ \E b \in Brackets, t \in Tokens, n \in TradeSizes : Trade(b, t, n)
  BY <1>7, ExchangeHInv
<1>8. CASE UNCHANGED vars
  BY <1>8 DEF vars, HInv, ScriptAsks, QueueAsks, RequestsKept, RequestKept, Requested, AllHalted, AccountIn
<1>9. QED
  BY <1>1, <1>2, <1>3, <1>4, <1>5, <1>6, <1>7, <1>8 DEF Next, ScriptSteps

(* MaxAmount is more than there is of any token.                           *)
AllFundsFit == Total <= MaxAmount

(* With all funds covered by a valid request, nothing is left to sell.     *)
LEMMA StepHalts ==
    ASSUME AllFundsFit,
           IInv, HInv, Solvent(ledger), Conserved(ledger), [Next]_vars, mode = "idle",
           NEW e \in Entry, halted[e].told = "yes", halted[e].request = "made"
    PROVE  AccountIn(ledger', e).bal >= AccountIn(ledger, e).bal
<1> DEFINE acc == AccountIn(ledger, e)
<1>1. /\ ledger \in Ledgers /\ acc \in Account
      /\ BracketOf(e) \in Brackets /\ TokenOf(e) \in Tokens
  BY PairTypes DEF IInv, TypeOK
<1>2. acc.bal \in Nat /\ acc.dep \in Nat
  BY <1>1 DEF Account
<1>3. acc.wd = MaxAmount /\ ~acc.wdFresh
  BY DEF HInv, AllHalted, Upheld
<1>4. GetBalance(acc) = 0
  <2>1. acc.bal <= Total
    BY <1>1, BalanceBound DEF AccountIn
  <2>2. Total \in Int /\ MaxAmount \in Int
    BY FundsAssumption, FS_CardinalityType DEF Total
  <2>3. acc.bal <= MaxAmount
    BY <1>2, <2>1, <2>2 DEF AllFundsFit
  <2> HIDE DEF acc
  <2>4. GetWithdrawableAmount(acc) = acc.bal
    BY <1>2, <1>3, <2>2, <2>3 DEF GetWithdrawableAmount, Withdrawable, Min2
  <2>5. QED
    BY <1>2, <2>4 DEF GetBalance
<1>5. CASE ledger' = ledger
  BY <1>2, <1>5
<1>6. ASSUME NEW b \in Brackets, NEW t \in Tokens, NEW n \in TradeSizes, Trade(b, t, n)
      PROVE  AccountIn(ledger', e).bal >= acc.bal
  <2>1. n \in Nat /\ n <= GetBalance(ledger.exch[b][t])
    BY <1>6, FundsAssumption DEF Trade
  <2>2. AccountIn(ledger', e) = IF BracketOf(e) # b THEN acc
                                ELSE IF TokenOf(e) = t THEN Sell(acc, n) ELSE Buy(acc, n)
    BY <1>1, <1>6, TradeAccounts DEF AccountIn
  <2>3. Sell(acc, n).bal = acc.bal - n /\ Buy(acc, n).bal = acc.bal + n
    BY <1>1, Zenon DEF Sell, Buy, Account
  <2>4. BracketOf(e) = b /\ TokenOf(e) = t => n = 0
    BY <1>4, <2>1 DEF AccountIn
  <2> HIDE DEF acc
  <2>5. CASE BracketOf(e) # b
    BY <1>2, <2>2, <2>5
  <2>6. CASE BracketOf(e) = b /\ TokenOf(e) = t
    BY <1>2, <2>2, <2>3, <2>4, <2>6
  <2>7. CASE BracketOf(e) = b /\ TokenOf(e) # t
    BY <1>2, <2>1, <2>2, <2>3, <2>7
  <2>8. QED
    BY <2>5, <2>6, <2>7
<1>7. CASE NextBatch
  <2>1. ledger'.exch = [b \in Brackets |-> [t \in Tokens |-> NextBatchOf(ledger.exch[b][t])]]
    BY <1>1, <1>7, Zenon DEF NextBatch, Ledgers
  <2>2. AccountIn(ledger', e) = NextBatchOf(acc)
    BY <1>1, <2>1 DEF AccountIn
  <2>3. NextBatchOf(acc).bal = acc.bal + acc.dep
    BY <1>1, Zenon DEF NextBatchOf, Account
  <2>4. QED
    BY <1>2, <2>2, <2>3
<1>8. CASE ledger' # ledger
  <2>1. NextBatch \/ \E b \in Brackets, t \in Tokens, n \in TradeSizes : Trade(b, t, n)
    BY <1>8 DEF Next, StartReading, StartListed, Start, ReadAmount, LimitAmount, FinishReading,
                Decline, StartEstimate, StartExecute, Load, RunCall, FinishEstimate, FinishExecute, vars
  <2>2. QED
    BY <1>6, <1>7, <2>1, SMTT(30)
<1>9. QED
  BY <1>5, <1>8

(* Once a request of a pair has been made and its batch is over, the       *)
(* bracket sells nothing of the token until a claim or another request,    *)
(* however many trades are matched and bundles executed, and whatever other*)
(* calls fail, if no bundle names a pair twice and MAXUINT256 is more than *)
(* there is of a token.                                                    *)
THEOREM RequestsHaltTrading ==
    ASSUME OneEntryPerPair, AllFundsFit
    PROVE  Spec => TradingHalts
<1>1. IInv /\ HInv /\ Solvent(ledger) /\ Conserved(ledger) /\ [Next]_vars
        => [ mode = "idle" =>
               \A e \in Entry :
                  halted[e].told = "yes" /\ halted[e].request = "made" => SellsNothing(e) ]_vars
  BY StepHalts DEF AccountIn, AccountOf, SellsNothing
<1>2. IInv /\ HInv /\ Solvent(work) /\ [Next]_vars => HInv'
  BY StepHInv
<1>3. QED
  BY InitIInv, StepIInv, InitSolvent, StepSolvent, InitConserved, StepConserved,
     InitHInv, <1>1, <1>2, PTL DEF Spec, TradingHalts
-----------------------------------------------------------------------------
(***************************************************************************)
(* A funding bundle moves every amount through the bracket's wallet.       *)
(***************************************************************************)
(* Entry e has been transferred to its bracket, but not yet deposited.     *)
Midway(bundle, rest, e) ==
    e \in Listed(bundle.amount) /\ 2*e - 1 \notin rest /\ 2*e \in rest

(* The calls that are left come after those that have been made.           *)
CallsInOrder(bundle, rest) ==
    \A j \in rest, k \in Calls(bundle) : j < k => k \in rest

SameWallets(L, W) == \A c \in Brackets, u \in Tokens : W.wallet[c][u] = L.wallet[c][u]

OneIsMidway(bundle, rest, L, W, e) ==
    /\ \A f \in Entry : Midway(bundle, rest, f) <=> f = e
    /\ WalletIn(W, e) = WalletIn(L, e) + bundle.amount[e]
    /\ \A c \in Brackets, u \in Tokens :
          <<c, u>> # <<BracketOf(e), TokenOf(e)>> => W.wallet[c][u] = L.wallet[c][u]

PassedOn(bundle, rest, L, W) ==
    \/ SameWallets(L, W) /\ \A e \in Entry : ~Midway(bundle, rest, e)
    \/ \E e \in Entry : OneIsMidway(bundle, rest, L, W, e)

(* What the master Safe has paid of token t for each entry.                *)
Paid(bundle, rest, t) ==
    [e \in Entry |-> IF TokenOf(e) = t /\ e \in Listed(bundle.amount) /\ 2*e - 1 \notin rest
                     THEN bundle.amount[e] ELSE 0]

PaidByMaster(bundle, rest, L, W) ==
    \A t \in Tokens :
       W.wallet[Master][t] = L.wallet[Master][t] - SumFunctionOnSet(Paid(bundle, rest, t), Entry)

FundsOnTheWay(bundle, rest, L, W) ==
    /\ rest \subseteq Calls(bundle)
    /\ CallsInOrder(bundle, rest)
    /\ PassedOn(bundle, rest, L, W)
    /\ PaidByMaster(bundle, rest, L, W)

FInv == mode = "execute" /\ ~failed /\ Head(queue).kind = "fund"
          => FundsOnTheWay(Head(queue), todo, ledger, work)

LEMMA EntryFinite == IsFiniteSet(Entry)
  BY FundsAssumption, FS_Interval DEF Entry

(* Before the first call nothing has moved.                                *)
LEMMA LoadedFunds ==
    ASSUME NEW bundle \in Bundles, bundle.kind = "fund", NEW L \in Ledgers
    PROVE  FundsOnTheWay(bundle, Calls(bundle), L, L)
<1>1. \A e \in Listed(bundle.amount) : 2*e - 1 \in Calls(bundle)
  BY DEF Calls
<1>2. \A e \in Entry : ~Midway(bundle, Calls(bundle), e)
  BY <1>1 DEF Midway
<1>3. ASSUME NEW t \in Tokens
      PROVE  SumFunctionOnSet(Paid(bundle, Calls(bundle), t), Entry) = 0
  <2>1. \A e \in Entry : Paid(bundle, Calls(bundle), t)[e] = 0
    BY <1>1 DEF Paid
  <2>2. QED
    BY <2>1, EntryFinite, SumZero
<1>4. \A t \in Tokens : L.wallet[Master][t] \in Int
  BY DEF Ledgers, Holders
<1>5. QED
  BY <1>2, <1>3, <1>4 DEF FundsOnTheWay, CallsInOrder, PassedOn, SameWallets, PaidByMaster

(* The calls of a funding bundle.                                          *)
LEMMA FundCalls ==
    ASSUME NEW bundle \in Bundles, bundle.kind = "fund", NEW k \in Calls(bundle)
    PROVE  \E e \in Listed(bundle.amount) :
              /\ EntryOf(bundle.kind, k) = e
              /\ \/ k = 2*e - 1 /\ OpOf(bundle.kind, k) = "toBracket"
                 \/ k = 2*e /\ OpOf(bundle.kind, k) = "approveDeposit"
<1>1. PICK e \in Listed(bundle.amount) : k = 2*e - 1 \/ k = 2*e
  BY DEF Calls
<1>2. e \in Nat
  BY FundsAssumption DEF Listed, Entry
<1>3. EntryOf(bundle.kind, k) = (k + 1) \div 2
  BY DEF EntryOf
<1>4. (k + 1) \div 2 = e
  BY <1>1, <1>2
<1>5. CASE k = 2*e - 1
  <2>1. k % 2 = 1
    BY <1>2, <1>5
  <2>2. OpOf(bundle.kind, k) = "toBracket"
    BY <2>1 DEF OpOf
  <2>3. QED
    BY <1>3, <1>4, <1>5, <2>2
<1>6. CASE k = 2*e
  <2>1. k % 2 # 1
    BY <1>2, <1>6
  <2>2. OpOf(bundle.kind, k) = "approveDeposit"
    BY <2>1 DEF OpOf
  <2>3. QED
    BY <1>3, <1>4, <1>6, <2>2
<1>7. QED
  BY <1>1, <1>5, <1>6

(* Making the first of the calls that are left keeps their order.          *)
LEMMA OrderKept ==
    ASSUME NEW bundle, NEW rest, CallsInOrder(bundle, rest), NEW k \in rest,
           \A j \in rest : j \in Int, \A j \in Calls(bundle) : j \in Int,
           \A j \in rest : k <= j
    PROVE  CallsInOrder(bundle, rest \ {k})
<1>1. ASSUME NEW j \in rest \ {k}, NEW m \in Calls(bundle), j < m
      PROVE  m \in rest \ {k}
  <2>1. m \in rest
    BY <1>1 DEF CallsInOrder
  <2>2. m # k
    BY <1>1
  <2>3. QED
    BY <2>1, <2>2
<1>2. QED
  BY <1>1 DEF CallsInOrder

LEMMA ListedNumbers ==
    ASSUME NEW bundle \in Bundles, bundle.kind = "fund"
    PROVE  /\ Listed(bundle.amount) \subseteq Entry /\ \A e \in Entry : e \in Int
           /\ \A j \in Calls(bundle) : j \in Int
           /\ \A e \in Listed(bundle.amount) : /\ 2*e - 1 \in Calls(bundle) /\ 2*e \in Calls(bundle)
                                               /\ bundle.amount[e] \in Nat
           /\ \A e \in Entry : bundle.amount[e] \in Nat
<1>1. bundle.amount \in [Entry -> Nat] /\ N \in Nat
  BY FundsAssumption DEF Bundles
<1>2. Listed(bundle.amount) \subseteq Entry /\ \A e \in Entry : e \in Int
  BY <1>1 DEF Listed, Entry
<1>3. \A j \in Calls(bundle) : j \in Int
  BY <1>2 DEF Calls
<1>4. \A e \in Listed(bundle.amount) : 2*e - 1 \in Calls(bundle) /\ 2*e \in Calls(bundle)
  BY DEF Calls
<1>5. QED
  BY <1>1, <1>2, <1>3, <1>4

(* A transfer to a bracket: nothing was midway, now this amount is.        *)
LEMMA FundTransfer ==
    ASSUME NEW bundle \in Bundles, bundle.kind = "fund", NEW rest,
           NEW L \in Ledgers, NEW W \in Ledgers, NEW M \in Ledgers,
           FundsOnTheWay(bundle, rest, L, W),
           NEW e \in Listed(bundle.amount), NEW k \in rest, k = 2*e - 1, \A j \in rest : k <= j,
           NEW acc,
           Differs(W, M, BracketOf(e), TokenOf(e), acc, bundle.amount[e], bundle.amount[e])
    PROVE  FundsOnTheWay(bundle, rest \ {k}, L, M)
<1> DEFINE after == rest \ {k}
           t == TokenOf(e)
           b == BracketOf(e)
<1>1. /\ e \in Entry /\ e \in Int /\ 2*e \in Calls(bundle) /\ bundle.amount[e] \in Nat
      /\ \A j \in Calls(bundle) : j \in Int
      /\ \A f \in Entry : f \in Int /\ bundle.amount[f] \in Nat
      /\ \A f \in Listed(bundle.amount) : f \in Entry /\ 2*f - 1 \in Calls(bundle)
  BY ListedNumbers
<1>2. /\ rest \subseteq Calls(bundle) /\ CallsInOrder(bundle, rest)
      /\ PassedOn(bundle, rest, L, W) /\ PaidByMaster(bundle, rest, L, W)
  BY DEF FundsOnTheWay
<1>3. b \in Brackets /\ t \in Tokens
  BY <1>1, PairTypes
<1>4. ASSUME NEW f \in Entry
      PROVE  ~Midway(bundle, rest, f)
  <2>1. ASSUME Midway(bundle, rest, f)
        PROVE  FALSE
    <3>1. f \in Listed(bundle.amount) /\ 2*f - 1 \notin rest /\ 2*f \in rest
      BY <2>1 DEF Midway
    <3>2. f \in Int /\ 2*e - 1 <= 2*f /\ f # e
      BY <1>1, <3>1
    <3>3. 2*e - 1 < 2*f - 1
      BY <1>1, <3>2
    <3>4. 2*f - 1 \in Calls(bundle)
      BY <1>1, <3>1
    <3>5. 2*f - 1 \in rest
      BY <1>2, <3>3, <3>4 DEF CallsInOrder
    <3>6. QED
      BY <3>1, <3>5
  <2>2. QED
    BY <2>1
<1>5. SameWallets(L, W)
  <2>1. \A f \in Entry : ~OneIsMidway(bundle, rest, L, W, f)
    BY <1>4 DEF OneIsMidway
  <2>2. QED
    BY <1>2, <2>1 DEF PassedOn
<1>6. ASSUME NEW f \in Entry
      PROVE  Midway(bundle, after, f) <=> f = e
  <2>1. CASE f = e
    <3>1. 2*e \in rest
      <4>1. k < 2*e
        BY <1>1
      <4>2. QED
        BY <1>1, <1>2, <4>1 DEF CallsInOrder
    <3>2. 2*e # k
      BY <1>1
    <3>3. QED
      BY <2>1, <3>1, <3>2 DEF Midway
  <2>2. CASE f # e
    <3>1. 2*f - 1 # k
      BY <1>1, <2>2
    <3>2. QED
      BY <1>4, <2>2, <3>1 DEF Midway
  <2>3. QED
    BY <2>1, <2>2
<1>7. OneIsMidway(bundle, after, L, M, e)
  <2>1. WalletIn(M, e) = WalletIn(W, e) + bundle.amount[e]
    BY DEF Differs, WalletIn
  <2>2. WalletIn(W, e) = WalletIn(L, e)
    BY <1>3, <1>5 DEF SameWallets, WalletIn
  <2>3. \A c \in Brackets, u \in Tokens : <<c, u>> # <<b, t>> => M.wallet[c][u] = L.wallet[c][u]
    BY <1>5 DEF Differs, SameWallets
  <2> HIDE DEF after
  <2>4. QED
    BY <1>6, <2>1, <2>2, <2>3 DEF OneIsMidway
<1>8. PassedOn(bundle, after, L, M)
  BY <1>1, <1>7 DEF PassedOn
<1>9. PaidByMaster(bundle, after, L, M)
  <2>1. ASSUME NEW u \in Tokens
        PROVE  M.wallet[Master][u] = L.wallet[Master][u] - SumFunctionOnSet(Paid(bundle, after, u), Entry)
    <3> DEFINE p == Paid(bundle, rest, u)
               q == Paid(bundle, after, u)
    <3>1. W.wallet[Master][u] = L.wallet[Master][u] - SumFunctionOnSet(p, Entry)
      BY <1>2 DEF PaidByMaster
    <3>2. \A f \in Entry : p[f] \in Int /\ q[f] \in Int
      BY <1>1 DEF Paid
    <3>3. \A f \in Entry \ {e} : q[f] = p[f]
      <4>1. ASSUME NEW f \in Entry \ {e}
            PROVE  q[f] = p[f]
        <5>1. 2*f - 1 # k
          BY <1>1
        <5>2. 2*f - 1 \notin rest <=> 2*f - 1 \notin after
          BY <5>1
        <5>3. /\ p[f] = IF TokenOf(f) = u /\ f \in Listed(bundle.amount) /\ 2*f - 1 \notin rest
                        THEN bundle.amount[f] ELSE 0
              /\ q[f] = IF TokenOf(f) = u /\ f \in Listed(bundle.amount) /\ 2*f - 1 \notin after
                        THEN bundle.amount[f] ELSE 0
          BY Zenon DEF Paid
        <5>4. QED
          BY <5>2, <5>3, Zenon
      <4>2. QED
        BY <4>1
    <3>4. p[e] = 0 /\ q[e] = IF t = u THEN bundle.amount[e] ELSE 0
      BY <1>1 DEF Paid
    <3> HIDE DEF p, q
    <3>5. SumFunctionOnSet(q, Entry) = SumFunctionOnSet(p, Entry) + (q[e] - p[e])
      BY <1>1, <3>2, <3>3, EntryFinite, SumChange, ZenonT(60)
    <3>6. SumFunctionOnSet(p, Entry) \in Int
      BY <3>2, EntryFinite, SumInteger
    <3>7. L.wallet[Master][u] \in Int /\ W.wallet[Master][u] \in Int
      BY DEF Ledgers, Holders
    <3>8. M.wallet[Master][u] = W.wallet[Master][u] - IF t = u THEN bundle.amount[e] ELSE 0
      BY <3>7 DEF Differs
    <3>9. M.wallet[Master][u] = L.wallet[Master][u] - SumFunctionOnSet(q, Entry)
      BY <1>1, <3>1, <3>4, <3>5, <3>6, <3>7, <3>8
    <3>10. QED
      BY <3>9 DEF q
  <2>2. QED
    BY <2>1 DEF PaidByMaster
<1>10. CallsInOrder(bundle, after)
  BY <1>1, <1>2, OrderKept
<1>11. QED
  BY <1>2, <1>8, <1>9, <1>10 DEF FundsOnTheWay

(* A deposit of the bracket: the amount that was midway arrives.           *)
LEMMA FundDeposit ==
    ASSUME NEW bundle \in Bundles, bundle.kind = "fund", NEW rest,
           NEW L \in Ledgers, NEW W \in Ledgers,
           FundsOnTheWay(bundle, rest, L, W),
           NEW e \in Listed(bundle.amount), NEW k \in rest, k = 2*e, \A j \in rest : k <= j
    PROVE  /\ bundle.amount[e] <= WalletIn(W, e)
           /\ \A M \in Ledgers, acc \in Account :
                 Differs(W, M, BracketOf(e), TokenOf(e), acc, -bundle.amount[e], 0)
                   => FundsOnTheWay(bundle, rest \ {k}, L, M)
<1> DEFINE after == rest \ {k}
           t == TokenOf(e)
           b == BracketOf(e)
<1>1. /\ e \in Entry /\ e \in Int /\ bundle.amount[e] \in Nat
      /\ \A j \in Calls(bundle) : j \in Int
      /\ \A f \in Entry : f \in Int /\ bundle.amount[f] \in Nat
  BY ListedNumbers
<1>2. /\ rest \subseteq Calls(bundle) /\ CallsInOrder(bundle, rest)
      /\ PassedOn(bundle, rest, L, W) /\ PaidByMaster(bundle, rest, L, W)
  BY DEF FundsOnTheWay
<1>3. b \in Brackets /\ t \in Tokens /\ WalletIn(L, e) \in Nat
  BY <1>1, PairTypes
<1>4. Midway(bundle, rest, e)
  <2>1. 2*e - 1 \notin rest
    BY <1>1
  <2>2. QED
    BY <2>1 DEF Midway
<1>5. OneIsMidway(bundle, rest, L, W, e)
  <2>1. PICK f \in Entry : OneIsMidway(bundle, rest, L, W, f)
    BY <1>1, <1>2, <1>4 DEF PassedOn
  <2>2. f = e
    BY <1>1, <1>4, <2>1 DEF OneIsMidway
  <2>3. QED
    BY <2>1, <2>2
<1>6. WalletIn(W, e) = WalletIn(L, e) + bundle.amount[e]
  BY <1>5 DEF OneIsMidway
<1>7. bundle.amount[e] <= WalletIn(W, e)
  BY <1>1, <1>3, <1>6
<1>8. ASSUME NEW M \in Ledgers, NEW acc \in Account,
             Differs(W, M, b, t, acc, -bundle.amount[e], 0)
      PROVE  FundsOnTheWay(bundle, after, L, M)
  <2>1. ASSUME NEW f \in Entry
        PROVE  (2*f - 1 \notin after <=> 2*f - 1 \notin rest) /\ ~Midway(bundle, after, f)
    <3>1. 2*f - 1 # k
      BY <1>1
    <3>2. 2*f - 1 \notin after <=> 2*f - 1 \notin rest
      BY <3>1
    <3>3. Midway(bundle, after, f) => Midway(bundle, rest, f) /\ f # e
      BY <3>2 DEF Midway
    <3>4. QED
      BY <1>5, <3>2, <3>3 DEF OneIsMidway
  <2>2. SameWallets(L, M)
    <3>1. WalletIn(M, e) = WalletIn(W, e) + (-bundle.amount[e])
      BY <1>8 DEF Differs, WalletIn
    <3>2. WalletIn(M, e) = WalletIn(L, e)
      BY <1>1, <1>3, <1>6, <3>1
    <3>3. ASSUME NEW c \in Brackets, NEW u \in Tokens
          PROVE  M.wallet[c][u] = L.wallet[c][u]
      <4>1. CASE <<c, u>> = <<b, t>>
        BY <3>2, <4>1 DEF WalletIn
      <4>2. CASE <<c, u>> # <<b, t>>
        BY <1>5, <1>8, <4>2 DEF Differs, OneIsMidway
      <4>3. QED
        BY <4>1, <4>2
    <3>4. QED
      BY <3>3 DEF SameWallets
  <2>3. PassedOn(bundle, after, L, M)
    BY <2>1, <2>2 DEF PassedOn
  <2>4. PaidByMaster(bundle, after, L, M)
    <3>1. ASSUME NEW u \in Tokens
          PROVE  M.wallet[Master][u] = L.wallet[Master][u] - SumFunctionOnSet(Paid(bundle, after, u), Entry)
      <4>1. \A f \in Entry : Paid(bundle, after, u)[f] = Paid(bundle, rest, u)[f]
        BY <2>1 DEF Paid
      <4>2. SumFunctionOnSet(Paid(bundle, after, u), Entry) = SumFunctionOnSet(Paid(bundle, rest, u), Entry)
        BY <4>1, EntryFinite, SumSame
      <4>3. W.wallet[Master][u] \in Int
        BY DEF Ledgers, Holders
      <4>4. M.wallet[Master][u] = W.wallet[Master][u]
        BY <1>8, <4>3 DEF Differs
      <4>5. QED
        BY <1>2, <4>2, <4>4 DEF PaidByMaster
    <3>2. QED
      BY <3>1 DEF PaidByMaster
  <2>5. CallsInOrder(bundle, after)
    BY <1>1, <1>2, OrderKept
  <2>6. QED
    BY <1>2, <2>3, <2>4, <2>5 DEF FundsOnTheWay
<1>9. QED
  BY <1>7, <1>8

LEMMA RunCallFInv ==
    ASSUME IInv, FInv, RunCall, IInv'
    PROVE  FInv'
<1>1. PICK bundle : bundle = Head(queue)
  OBVIOUS
<1>2. /\ mode # "idle" /\ ~failed /\ Running \in Bundles
      /\ UNCHANGED <<ledger, queue, mode>>
  BY RunCallFacts
<1>3. SUFFICES ASSUME mode = "execute", ~failed', bundle.kind = "fund"
               PROVE  FundsOnTheWay(bundle, todo', ledger, work')
  BY <1>1, <1>2, Zenon DEF FInv
<1>4. Running = bundle /\ bundle \in Bundles
  BY <1>1, <1>2, <1>3 DEF Running
<1>5. FundsOnTheWay(bundle, todo, ledger, work)
  BY <1>1, <1>2, <1>3 DEF FInv
<1>6. /\ ledger \in Ledgers /\ work \in Ledgers /\ work' \in Ledgers /\ Clean(work)
  BY DEF IInv, TypeOK
<1>7. PICK k \in todo :
         /\ Exists(k) /\ todo' = todo \ {k} /\ \A j \in todo : k <= j
         /\ \/ SucceedsAt(k) /\ work' = EffectAt(k)
            \/ /\ ~SucceedsAt(k) /\ UNCHANGED work
               /\ failed' = (OpAt(k) = "toBracket")
  BY RunCallFacts
<1>8. PICK e \in Listed(bundle.amount) :
         /\ EntryAt(k) = e
         /\ \/ k = 2*e - 1 /\ OpAt(k) = "toBracket"
            \/ k = 2*e /\ OpAt(k) = "approveDeposit"
  BY <1>3, <1>4, <1>7, FundCalls DEF Exists, EntryAt, OpAt
<1> DEFINE b == BracketOf(e)
           t == TokenOf(e)
           n == bundle.amount[e]
           acc == AccountIn(work, e)
<1>9. /\ e \in Entry /\ b \in Brackets /\ t \in Tokens /\ n \in Nat /\ acc \in Account
      /\ BracketAt(k) = b /\ TokenAt(k) = t /\ AmountAt(k) = n
  BY <1>3, <1>4, <1>6, <1>8, ListedNumbers, PairTypes DEF BracketAt, TokenAt, AmountAt
<1>10. ASSUME NEW op \in Ops, OpAt(k) = op, SucceedsAt(k), work' = EffectAt(k)
       PROVE  Differs(work, work', b, t, AccountAfter(op, acc, n), Gain(op, acc, n), Spent(op, n))
  <2>1. CallSucceeds(op, work, b, t, n) /\ work' = CallEffect(op, work, b, t, n)
    BY <1>9, <1>10 DEF SucceedsAt, EffectAt
  <2>2. acc = work.exch[b][t]
    BY DEF AccountIn
  <2> HIDE DEF acc, b, t, n
  <2>3. QED
    BY <1>6, <1>9, <2>1, <2>2, CallDiffers
<1>11. CASE k = 2*e - 1 /\ OpAt(k) = "toBracket"
  <2>1. SucceedsAt(k) /\ work' = EffectAt(k)
    BY <1>3, <1>7, <1>11
  <2>2. Differs(work, work', b, t, AccountAfter("toBracket", acc, n), n, n)
    BY <1>10, <1>11, <2>1 DEF Ops, Gain, Spent
  <2> HIDE DEF acc
  <2>3. FundsOnTheWay(bundle, todo \ {k}, ledger, work')
    BY <1>3, <1>4, <1>5, <1>6, <1>7, <1>11, <2>2, FundTransfer
  <2>4. QED
    BY <1>7, <2>3
<1>12. CASE k = 2*e /\ OpAt(k) = "approveDeposit"
  <2>1. /\ n <= WalletIn(work, e)
        /\ \A M \in Ledgers, a \in Account :
              Differs(work, M, b, t, a, -n, 0) => FundsOnTheWay(bundle, todo \ {k}, ledger, M)
    BY <1>3, <1>4, <1>5, <1>6, <1>7, <1>12, FundDeposit
  <2>2. SucceedsAt(k)
    <3>1. Approve(work, b, t, n).allowance[b][t] = n
      BY <1>6, <1>9, ApprovedAmount
    <3>2. Approve(work, b, t, n).wallet = work.wallet
      BY <1>6, <1>9, ApproveEffect, ZenonT(60)
    <3>3. CanDeposit(Approve(work, b, t, n), b, t, n)
      BY <1>9, <2>1, <3>1, <3>2 DEF CanDeposit, WalletIn
    <3>4. QED
      BY <1>9, <1>12, <3>3 DEF SucceedsAt, CallSucceeds
  <2>3. Differs(work, work', b, t, Deposit(acc, n), -n, 0)
    BY <1>7, <1>10, <1>12, <2>2 DEF Ops, Gain, Spent, AccountAfter
  <2>4. Deposit(acc, n) \in Account
    BY <1>9, AccountTypes
  <2> HIDE DEF acc, b, t, n
  <2>5. FundsOnTheWay(bundle, todo \ {k}, ledger, work')
    BY <1>6, <2>1, <2>3, <2>4
  <2>6. QED
    BY <1>7, <2>5
<1>13. QED
  BY <1>8, <1>11, <1>12

LEMMA StepFInv == IInv /\ IInv' /\ FInv /\ [Next]_vars => FInv'
<1> SUFFICES ASSUME IInv, IInv', FInv, [Next]_vars PROVE FInv'
  OBVIOUS
<1>1. CASE RunCall
  BY <1>1, RunCallFInv
<1>2. CASE StartExecute
  <2>1. PICK bundle : bundle = Head(queue)
    OBVIOUS
  <2>2. /\ todo' = Calls(bundle) /\ work' = ledger /\ queue # <<>>
        /\ UNCHANGED <<ledger, script, queue, counts, halted>>
    BY <1>2, <2>1 DEF StartExecute, Load
  <2>3. bundle \in Bundles /\ ledger \in Ledgers
    BY <2>1, <2>2, HeadTailProperties DEF IInv, TypeOK
  <2>4. bundle.kind = "fund" => FundsOnTheWay(bundle, todo', ledger, work')
    BY <2>2, <2>3, LoadedFunds
  <2>5. Head(queue') = bundle
    BY <2>1, <2>2
  <2>6. QED
    BY <2>2, <2>4, <2>5, Zenon DEF FInv
<1>3. CASE UNCHANGED vars
  BY <1>3, Zenon DEF vars, FInv
<1>4. CASE mode' # "execute"
  BY <1>4 DEF FInv
<1>5. ~RunCall /\ ~StartExecute /\ ~UNCHANGED vars => mode' # "execute"
  <2>1. CASE ScriptSteps
    BY <2>1 DEF ScriptSteps, StartReading, StartListed, Start, ReadAmount, LimitAmount,
                FinishReading, Decline
  <2>2. CASE StartEstimate \/ FinishEstimate \/ FinishExecute \/ NextBatch
    BY <2>2 DEF StartEstimate, Load, FinishEstimate, FinishExecute, Unload, NextBatch
  <2>3. CASE \E b \in Brackets, t \in Tokens, n \in TradeSizes : Trade(b, t, n)
    BY <2>3 DEF Trade
  <2>4. QED
    BY <2>1, <2>2, <2>3, SMTT(30) DEF Next, ScriptSteps
<1>6. QED
  BY <1>1, <1>2, <1>3, <1>4, <1>5

(* When the last call has been made nothing is midway, and the master Safe *)
(* has paid for every entry.                                               *)
LEMMA StepFunds ==
    ASSUME IInv, IInv', FInv, [Next]_vars, Executed, ~failed, Head(queue).kind = "fund"
    PROVE  /\ \A b \in Brackets, t \in Tokens : ledger'.wallet[b][t] = ledger.wallet[b][t]
           /\ \A t \in Tokens :
                ledger.wallet[Master][t] - ledger'.wallet[Master][t] =
                  SumFunction([e \in Entry |-> IF TokenOf(e) = t THEN Head(queue).amount[e] ELSE 0])
<1>1. FinishExecute
  <2>1. mode = "execute" /\ mode' = "idle"
    BY DEF Executed
  <2>2. QED
    BY <2>1 DEF Next, StartReading, StartListed, Start, ReadAmount, LimitAmount, FinishReading, Decline,
                StartEstimate, StartExecute, Load, RunCall, FinishEstimate, Trade, NextBatch, vars
<1>2. ledger' = work /\ todo = {} /\ mode = "execute"
  BY <1>1 DEF FinishExecute, Done
<1> DEFINE bundle == Head(queue)
<1>3. FundsOnTheWay(bundle, {}, ledger, work)
  BY <1>2 DEF FInv
<1>4. bundle \in Bundles /\ ledger \in Ledgers /\ work \in Ledgers
  BY <1>2, HeadTailProperties DEF IInv, TypeOK
<1>5. \A e \in Entry : ~Midway(bundle, {}, e)
  BY DEF Midway
<1> HIDE DEF bundle
<1>6. SameWallets(ledger, work)
  BY <1>3, <1>5 DEF FundsOnTheWay, PassedOn, OneIsMidway
<1>7. ASSUME NEW t \in Tokens
      PROVE  ledger.wallet[Master][t] - work.wallet[Master][t] =
               SumFunction([e \in Entry |-> IF TokenOf(e) = t THEN bundle.amount[e] ELSE 0])
  <2> DEFINE f == [e \in Entry |-> IF TokenOf(e) = t THEN bundle.amount[e] ELSE 0]
             p == Paid(bundle, {}, t)
  <2>1. \A e \in Entry : bundle.amount[e] \in Nat
    BY <1>4 DEF Bundles
  <2>2. \A e \in Entry : p[e] = f[e] /\ p[e] \in Int
    BY <2>1 DEF Paid, Listed
  <2>3. DOMAIN f = Entry
    OBVIOUS
  <2>4. work.wallet[Master][t] = ledger.wallet[Master][t] - SumFunctionOnSet(p, Entry)
    BY <1>3 DEF FundsOnTheWay, PaidByMaster
  <2> HIDE DEF f, p
  <2>5. SumFunctionOnSet(p, Entry) = SumFunctionOnSet(f, Entry)
    BY <2>2, EntryFinite, SumSame
  <2>6. SumFunctionOnSet(p, Entry) \in Int
    BY <2>2, EntryFinite, SumInteger
  <2>7. ledger.wallet[Master][t] \in Int /\ work.wallet[Master][t] \in Int
    BY <1>4 DEF Ledgers, Holders
  <2>8. ledger.wallet[Master][t] - work.wallet[Master][t] = SumFunctionOnSet(f, Entry)
    BY <2>4, <2>5, <2>6, <2>7
  <2>9. SumFunction(f) = SumFunctionOnSet(f, Entry)
    BY <2>3, Zenon DEF SumFunction
  <2>10. QED
    BY <2>8, <2>9 DEF f
<1>8. QED
  BY <1>2, <1>6, <1>7 DEF SameWallets, bundle

(* A funding bundle that succeeds moves every listed amount from the master*)
(* Safe through the bracket into its exchange account, whatever the bracket*)
(* already held, also if it lists a pair twice or a failing call does not  *)
(* fail the bundle: its deposits cannot fail.                              *)
THEOREM FundingIsPassedOn == Spec => FundingReachesExchange
<1>1. Init => FInv
  BY DEF Init, FInv
<1>2. IInv /\ IInv' /\ FInv /\ [Next]_vars
        => [ Executed /\ ~failed /\ Head(queue).kind = "fund" =>
               /\ \A b \in Brackets, t \in Tokens : ledger'.wallet[b][t] = ledger.wallet[b][t]
               /\ \A t \in Tokens :
                     ledger.wallet[Master][t] - ledger'.wallet[Master][t] =
                       SumFunction([e \in Entry |-> IF TokenOf(e) = t THEN Head(queue).amount[e] ELSE 0])
           ]_vars
  BY StepFunds
<1>3. QED
  BY InitIInv, StepIInv, StepFInv, <1>1, <1>2, PTL DEF Spec, FundingReachesExchange
-----------------------------------------------------------------------------
(***************************************************************************)
(* Claims that forward spare the brackets' wallets.                        *)
(***************************************************************************)
(* What a claim read can be withdrawn for as long as no other bundle has   *)
(* been executed: trades and batches never make it less.                   *)
Overtaken(bundle) == bundle.started # counts.executed

ClaimHolds(bundle) ==
    /\ bundle.started <= counts.executed
    /\ bundle.kind = "claimTransfer" /\ bundle.read /\ ~Overtaken(bundle) =>
          \A e \in Entry : bundle.amount[e] <= GetWithdrawableAmount(AccountIn(ledger, e))

ClaimsHold == /\ script.pc # "idle" \/ mode = "estimate" => ClaimHolds(script.bundle)
              /\ \A i \in 1..Len(queue) : ClaimHolds(queue[i])

(* While the claim is executed: a bracket's wallet has at least what it    *)
(* had, and what it is about to forward in addition, unless purchases make *)
(* the exchange refuse the claim.                                          *)
Spared(bundle, rest, L, W) ==
    /\ \A e \in Entry :
          /\ e \in rest => AccountIn(W, e) = AccountIn(L, e)
          /\ \/ AccountIn(L, e).credited
             \/ WalletIn(W, e) >=
                   WalletIn(L, e) + (IF e \notin rest /\ N + e \in rest THEN bundle.amount[e] ELSE 0)
    /\ \A c \in Brackets, u \in Tokens :
          (\A e \in Entry : Listing[e] # <<c, u>>) => W.wallet[c][u] = L.wallet[c][u]

WalletsSpared ==
    mode = "execute" /\ ~failed =>
       LET bundle == Head(queue)
       IN  bundle.kind = "claimTransfer" /\ bundle.read /\ ~Overtaken(bundle)
             => Spared(bundle, todo, ledger, work)

CInv == ClaimsHold /\ WalletsSpared

LEMMA ClaimCalls ==
    ASSUME NEW bundle \in Bundles, bundle.kind = "claimTransfer", NEW k \in Calls(bundle)
    PROVE  \E e \in Listed(bundle.amount) :
              /\ e \in 1..N /\ EntryOf(bundle.kind, k) = e
              /\ \/ k = e /\ OpOf(bundle.kind, k) = "withdraw"
                 \/ k = N + e /\ OpOf(bundle.kind, k) = "toMaster"
<1>1. PICK e \in Listed(bundle.amount) : k = e \/ k = N + e
  BY DEF Calls
<1>2. e \in 1..N /\ N \in Nat
  BY FundsAssumption DEF Listed, Entry
<1>3. CASE k = e
  BY <1>2, <1>3 DEF EntryOf, OpOf
<1>4. CASE k = N + e
  BY <1>2, <1>4 DEF EntryOf, OpOf
<1>5. QED
  BY <1>1, <1>3, <1>4

(* Trades and batches let what can be withdrawn only grow.                 *)
LEMMA WithdrawableGrows ==
    ASSUME NEW acc \in Account, NEW n \in Nat
    PROVE  /\ n <= GetBalance(acc)
                => GetWithdrawableAmount(acc) <= GetWithdrawableAmount(Sell(acc, n))
           /\ GetWithdrawableAmount(acc) <= GetWithdrawableAmount(Buy(acc, n))
           /\ GetWithdrawableAmount(acc) <= GetWithdrawableAmount(NextBatchOf(acc))
<1>1. acc.bal \in Nat /\ acc.dep \in Nat /\ acc.wd \in Nat
  BY DEF Account
<1>2. /\ Sell(acc, n).bal = acc.bal - n /\ Sell(acc, n).wd = acc.wd
      /\ Sell(acc, n).wdFresh = acc.wdFresh
  BY Zenon DEF Account, Sell
<1>3. /\ Buy(acc, n).bal = acc.bal + n /\ Buy(acc, n).wd = acc.wd
      /\ Buy(acc, n).wdFresh = acc.wdFresh
  BY Zenon DEF Account, Buy
<1>4. /\ NextBatchOf(acc).bal = acc.bal + acc.dep /\ NextBatchOf(acc).wd = acc.wd
      /\ NextBatchOf(acc).wdFresh = FALSE
  BY Zenon DEF Account, NextBatchOf
<1>5. n <= GetBalance(acc) => GetWithdrawableAmount(acc) <= GetWithdrawableAmount(Sell(acc, n))
  BY <1>1, <1>2 DEF GetBalance, GetWithdrawableAmount, Withdrawable, Min2
<1>6. GetWithdrawableAmount(acc) <= GetWithdrawableAmount(Buy(acc, n))
  BY <1>1, <1>3 DEF GetWithdrawableAmount, Withdrawable, Min2
<1>7. GetWithdrawableAmount(acc) <= GetWithdrawableAmount(NextBatchOf(acc))
  BY <1>1, <1>4 DEF GetWithdrawableAmount, Withdrawable, Min2
<1>8. QED
  BY <1>5, <1>6, <1>7

(* What the chain does between two bundles, to one account.                *)
LEMMA ExchangeAccounts ==
    ASSUME IInv, NEW c \in Brackets, NEW u \in Tokens,
           NextBatch \/ \E b \in Brackets, t \in Tokens, n \in TradeSizes : Trade(b, t, n)
    PROVE  /\ GetWithdrawableAmount(ledger.exch[c][u])
                <= GetWithdrawableAmount(ledger'.exch[c][u])
           /\ ledger.exch[c][u].wdFresh = FALSE => ledger'.exch[c][u].wdFresh = FALSE
           /\ ledger'.wallet = ledger.wallet
<1> DEFINE acc == ledger.exch[c][u]
<1>1. ledger \in Ledgers /\ acc \in Account
  <2>1. ledger \in Ledgers
    BY DEF IInv, TypeOK
  <2>2. QED
    BY <2>1 DEF Ledgers
<1>2. GetWithdrawableAmount(acc) \in Nat
  BY <1>1, AccountFacts
<1>3. CASE NextBatch
  <2>1. /\ ledger'.exch = [b \in Brackets |-> [t \in Tokens |-> NextBatchOf(ledger.exch[b][t])]]
        /\ ledger'.wallet = ledger.wallet
    BY <1>1, <1>3, Zenon DEF NextBatch, Ledgers
  <2>2. ledger'.exch[c][u] = NextBatchOf(acc)
    BY <2>1
  <2>3. NextBatchOf(acc).wdFresh = FALSE
    BY <1>1, Zenon DEF NextBatchOf, Account
  <2>4. GetWithdrawableAmount(acc) <= GetWithdrawableAmount(NextBatchOf(acc))
    <3>1. 0 \in Nat
      OBVIOUS
    <3>2. QED
      BY <1>1, <3>1, WithdrawableGrows
  <2>5. QED
    BY <2>1, <2>2, <2>3, <2>4
<1>4. ASSUME NEW b \in Brackets, NEW t \in Tokens, NEW n \in TradeSizes, Trade(b, t, n)
      PROVE  /\ GetWithdrawableAmount(acc) <= GetWithdrawableAmount(ledger'.exch[c][u])
             /\ acc.wdFresh = FALSE => ledger'.exch[c][u].wdFresh = FALSE
             /\ ledger'.wallet = ledger.wallet
  <2>1. n \in Nat /\ n <= GetBalance(ledger.exch[b][t])
    BY <1>4, FundsAssumption DEF Trade
  <2>2. /\ ledger'.exch[c][u] = IF c # b THEN acc
                                ELSE IF u = t THEN Sell(acc, n) ELSE Buy(acc, n)
        /\ ledger'.wallet = ledger.wallet
    BY <1>1, <1>4, TradeAccounts
  <2>3. Sell(acc, n).wdFresh = acc.wdFresh /\ Buy(acc, n).wdFresh = acc.wdFresh
    BY <1>1, Zenon DEF Sell, Buy, Account
  <2>4. c = b /\ u = t => n <= GetBalance(acc)
    BY <2>1
  <2> HIDE DEF acc
  <2>5. /\ n <= GetBalance(acc) => GetWithdrawableAmount(acc) <= GetWithdrawableAmount(Sell(acc, n))
        /\ GetWithdrawableAmount(acc) <= GetWithdrawableAmount(Buy(acc, n))
        /\ GetWithdrawableAmount(acc) <= GetWithdrawableAmount(acc)
    BY <1>1, <1>2, <2>1, WithdrawableGrows
  <2>6. QED
    BY <2>2, <2>3, <2>4, <2>5
<1>5. QED
  BY <1>3, <1>4

LEMMA ScriptStepsCInv ==
    ASSUME IInv, CInv, ScriptSteps
    PROVE  CInv'
<1> USE DEF ScriptSteps
<1>1. /\ mode = "idle" /\ UNCHANGED <<ledger, queue, mode>> /\ counts'.executed = counts.executed
      /\ counts.executed \in Nat
  <2>1. counts.executed \in Nat /\ [counts EXCEPT !.scripts = @ + 1].executed = counts.executed
    BY DEF IInv, TypeOK
  <2>2. QED
    BY <2>1 DEF StartReading, StartListed, Start, ReadAmount, LimitAmount, FinishReading, Decline
<1>2. script \in [pc : {"idle", "read", "limit", "send"}, unread : SUBSET Entry, bundle : Bundles]
      /\ script.bundle \in Bundles /\ script.bundle.amount \in [Entry -> Nat]
  BY DEF IInv, TypeOK, Bundles
<1>3. \A e \in Entry : GetWithdrawableAmount(AccountIn(ledger, e)) \in Nat
  BY PairTypes, AccountFacts DEF IInv, TypeOK
<1>4. ASSUME NEW kind, NEW asked, NEW amount, NEW pc, NEW unread,
             Start(kind, asked, amount, pc, unread),
             pc = "read" => \A e \in Entry : amount[e] = 0
      PROVE  ClaimHolds(script'.bundle)
  <2>1. /\ script'.bundle.amount = amount /\ script'.bundle.read = (pc = "read")
        /\ script'.bundle.started = counts.executed
    BY <1>4, Zenon DEF Start
  <2>2. pc = "read" => \A e \in Entry : amount[e] <= GetWithdrawableAmount(AccountIn(ledger, e))
    BY <1>3, <1>4
  <2>3. script'.bundle.read => pc = "read"
    BY <2>1, Zenon
  <2>4. script'.bundle.started <= counts.executed
    BY <1>1, <2>1
  <2>5. QED
    BY <2>1, <2>2, <2>3, <2>4, Zenon DEF ClaimHolds
<1>5. ASSUME NEW e \in Entry, NEW n \in Nat, script.pc # "idle",
             \/ n <= script.bundle.amount[e]
             \/ script.bundle.kind = "claimTransfer" => n = GetWithdrawableAmount(AccountIn(ledger, e)),
             script'.bundle = [script.bundle EXCEPT !.amount = [script.bundle.amount EXCEPT ![e] = n]]
      PROVE  ClaimHolds(script'.bundle)
  <2>1. /\ script'.bundle.kind = script.bundle.kind /\ script'.bundle.read = script.bundle.read
        /\ script'.bundle.started = script.bundle.started
        /\ script'.bundle.amount = [script.bundle.amount EXCEPT ![e] = n]
    BY <1>2, <1>5, Zenon DEF Bundles
  <2>2. ClaimHolds(script.bundle)
    BY <1>5 DEF CInv, ClaimsHold
  <2>3. ASSUME script.bundle.kind = "claimTransfer", script.bundle.read, ~Overtaken(script.bundle),
               NEW f \in Entry
        PROVE  script'.bundle.amount[f] <= GetWithdrawableAmount(AccountIn(ledger, f))
    <3>1. script.bundle.amount[f] <= GetWithdrawableAmount(AccountIn(ledger, f))
      BY <2>2, <2>3 DEF ClaimHolds
    <3>2. script'.bundle.amount[f] = IF f = e THEN n ELSE script.bundle.amount[f]
      BY <1>2, <2>1
    <3>3. script.bundle.amount[f] \in Nat
      BY <1>2
    <3>4. QED
      BY <1>3, <1>5, <2>3, <3>1, <3>2, <3>3
  <2>4. QED
    BY <1>1, <2>1, <2>2, <2>3 DEF ClaimHolds, Overtaken
<1>6. ClaimsHold'
  <2>1. SUFFICES ASSUME script'.pc # "idle" PROVE ClaimHolds(script'.bundle)
    <3>1. \A i \in 1..Len(queue) : ClaimHolds(queue[i])'
      BY <1>1 DEF CInv, ClaimsHold, ClaimHolds, Overtaken, AccountIn
    <3>2. ClaimHolds(script'.bundle) => ClaimHolds(script.bundle)'
      BY <1>1 DEF ClaimHolds, Overtaken, AccountIn
    <3>3. QED
      BY <1>1, <3>1, <3>2 DEF ClaimsHold
  <2>2. ASSUME NEW kind \in Kinds, NEW asked \in SUBSET Entry, StartReading(kind, asked)
        PROVE  ClaimHolds(script'.bundle)
    <3>1. Start(kind, asked, [e \in Entry |-> 0], "read", asked)
      BY <2>2 DEF StartReading
    <3>2. \A e \in Entry : [f \in Entry |-> 0][e] = 0
      OBVIOUS
    <3>3. QED
      BY <1>4, <3>1, <3>2, Zenon
  <2>3. ASSUME NEW kind \in Kinds, NEW amount, StartListed(kind, amount)
        PROVE  ClaimHolds(script'.bundle)
    <3>1. \E pc \in {"limit", "send"} : \E unread : Start(kind, Listed(amount), amount, pc, unread)
      <4>1. CASE kind = "transfer"
        BY <2>3, <4>1, Zenon DEF StartListed
      <4>2. CASE kind # "transfer"
        BY <2>3, <4>2, Zenon DEF StartListed
      <4>3. QED
        BY <4>1, <4>2
    <3>2. QED
      BY <1>4, <3>1
  <2>4. ASSUME NEW e \in Entry, ReadAmount(e) PROVE ClaimHolds(script'.bundle)
    <3> DEFINE n == AmountRead(script.bundle.kind, e)
    <3>1. n \in Nat
      BY AmountReadType DEF IInv
    <3>2. script.bundle.kind = "claimTransfer" => n = GetWithdrawableAmount(AccountIn(ledger, e))
      BY DEF AmountRead, AccountIn
    <3>3. script'.bundle = [script.bundle EXCEPT !.amount = [script.bundle.amount EXCEPT ![e] = n]]
          /\ script.pc # "idle"
      BY <1>2, <2>4, Zenon DEF ReadAmount
    <3> HIDE DEF n
    <3>4. QED
      BY <1>5, <3>1, <3>2, <3>3
  <2>5. ASSUME NEW e \in Entry, LimitAmount(e) PROVE ClaimHolds(script'.bundle)
    <3> DEFINE n == Min2(script.bundle.amount[e], ledger.wallet[BracketOf(e)][TokenOf(e)])
    <3>1. n \in Nat /\ n <= script.bundle.amount[e]
      <4>1. ledger.wallet[BracketOf(e)][TokenOf(e)] \in Nat
        BY PairTypes DEF WalletIn, IInv, TypeOK
      <4>2. QED
        BY <1>2, <4>1 DEF Min2
    <3>2. script'.bundle = [script.bundle EXCEPT !.amount = [script.bundle.amount EXCEPT ![e] = n]]
          /\ script.pc # "idle"
      BY <1>2, <2>5, Zenon DEF LimitAmount
    <3> HIDE DEF n
    <3>3. QED
      BY <1>5, <3>1, <3>2
  <2>6. ASSUME FinishReading PROVE ClaimHolds(script'.bundle)
    <3>1. script' # IdleScript
      BY <2>1 DEF IdleScript
    <3>2. script'.bundle = script.bundle /\ script.pc # "idle"
      BY <1>2, <2>6, <3>1, Zenon DEF FinishReading
    <3>3. QED
      BY <3>2 DEF CInv, ClaimsHold
  <2>7. ~Decline
    BY <2>1 DEF Decline, IdleScript
  <2>8. QED
    BY <2>2, <2>3, <2>4, <2>5, <2>6, <2>7
<1>7. WalletsSpared'
  BY <1>1 DEF WalletsSpared
<1>8. QED
  BY <1>6, <1>7, SMTT(30) DEF CInv

(* A claim that was read, of an account that bought nothing, is paid.      *)
LEMMA ClaimSucceeds ==
    ASSUME NEW W \in Ledgers, Solvent(W), NEW e \in Entry, NEW n \in Nat,
           ~AccountIn(W, e).credited,
           GetWithdrawableAmount(AccountIn(W, e)) > 0
    PROVE  CallSucceeds("withdraw", W, BracketOf(e), TokenOf(e), n)
<1> DEFINE acc == AccountIn(W, e)
           held == W.wallet[Exchange][TokenOf(e)]
<1>1. /\ BracketOf(e) \in Brackets /\ TokenOf(e) \in Tokens /\ acc \in Account
  BY PairTypes
<1>2. acc.bal <= held
  BY <1>1, ExchangePays DEF AccountIn
<1>3. Withdrawable(acc) \in Nat /\ Withdrawable(acc) <= acc.bal
  BY <1>1, AccountFacts
<1>4. acc.bal \in Nat /\ held \in Nat
  BY <1>1 DEF Account, Ledgers, Holders
<1>5. CanWithdraw(acc)
  BY DEF CanWithdraw, GetWithdrawableAmount
<1> HIDE DEF held
<1>6. Withdrawable(acc) <= held
  BY <1>2, <1>3, <1>4
<1>7. QED
  BY <1>5, <1>6 DEF CallSucceeds, AccountIn, held

(* A call of a claim keeps the wallets spared.                             *)
LEMMA ClaimCallSpares ==
    ASSUME NEW bundle \in Bundles, bundle.kind = "claimTransfer",
           NEW rest, NEW k \in rest, rest \subseteq Calls(bundle), \A j \in rest : k <= j,
           NEW L \in Ledgers, NEW W \in Ledgers, Solvent(W), Spared(bundle, rest, L, W),
           NEW e \in Entry, e = EntryOf(bundle.kind, k),
           NEW op, op = OpOf(bundle.kind, k), NEW V,
           \/ /\ CallSucceeds(op, W, BracketOf(e), TokenOf(e), bundle.amount[e])
              /\ WalletIn(V, e) = WalletIn(W, e) + Gain(op, AccountIn(W, e), bundle.amount[e])
           \/ /\ ~CallSucceeds(op, W, BracketOf(e), TokenOf(e), bundle.amount[e])
              /\ WalletIn(V, e) = WalletIn(W, e),
           \A f \in Entry \ {e} :
              AccountIn(V, f) = AccountIn(W, f) /\ WalletIn(V, f) = WalletIn(W, f),
           \A c \in Brackets, u \in Tokens :
              <<c, u>> # Listing[e] => V.wallet[c][u] = W.wallet[c][u],
           \A f \in Entry : bundle.amount[f] <= GetWithdrawableAmount(AccountIn(L, f))
    PROVE  Spared(bundle, rest \ {k}, L, V)
<1> DEFINE n == bundle.amount[e]
           acc == AccountIn(W, e)
<1>1. /\ N \in Nat /\ e \in 1..N /\ bundle.amount[e] > 0
      /\ \/ k = e /\ op = "withdraw"
         \/ k = N + e /\ op = "toMaster"
  BY ClaimCalls, FundsAssumption DEF Entry, Listed
<1>2. n \in Nat /\ acc \in Account
  BY PairTypes DEF Bundles
<1>4. \A f \in Entry : WalletIn(W, f) \in Nat /\ WalletIn(L, f) \in Nat /\ bundle.amount[f] \in Nat
  BY <1>2, PairTypes DEF Bundles
<1>5. ASSUME NEW f \in Entry, f # e
      PROVE  /\ f \in rest \ {k} => AccountIn(V, f) = AccountIn(L, f)
             /\ \/ AccountIn(L, f).credited
                \/ WalletIn(V, f) >= WalletIn(L, f)
                     + (IF f \notin rest \ {k} /\ N + f \in rest \ {k} THEN bundle.amount[f] ELSE 0)
  <2>1. f \in 1..N
    BY DEF Entry
  <2>2. k # f /\ k # N + f
    BY <1>1, <1>5, <2>1
  <2>3. (f \in rest \ {k} <=> f \in rest) /\ (N + f \in rest \ {k} <=> N + f \in rest)
    BY <2>2
  <2>4. /\ f \in rest => AccountIn(W, f) = AccountIn(L, f)
        /\ \/ AccountIn(L, f).credited
           \/ WalletIn(W, f) >= WalletIn(L, f)
                + (IF f \notin rest /\ N + f \in rest THEN bundle.amount[f] ELSE 0)
    BY DEF Spared
  <2>5. QED
    BY <1>5, <2>3, <2>4
<1>6. e \notin rest \ {k}
  <2>1. ASSUME e \in rest PROVE k = e
    BY <1>1, <2>1
  <2>2. QED
    BY <2>1
<1>7. ASSUME ~AccountIn(L, e).credited
      PROVE  WalletIn(V, e) >= WalletIn(L, e) + (IF N + e \in rest \ {k} THEN n ELSE 0)
  <2>1. CASE k = e /\ op = "withdraw"
    <3>1. acc = AccountIn(L, e) /\ WalletIn(W, e) >= WalletIn(L, e)
      BY <1>4, <1>7, <2>1 DEF Spared
    <3>2. n <= GetWithdrawableAmount(acc) /\ GetWithdrawableAmount(acc) \in Nat
      BY <1>2, <3>1, AccountFacts
    <3>3. GetWithdrawableAmount(acc) > 0
      BY <1>1, <1>2, <3>2
    <3>4. CallSucceeds("withdraw", W, BracketOf(e), TokenOf(e), n)
      BY <1>2, <1>7, <3>1, <3>3, ClaimSucceeds
    <3>5. CanWithdraw(acc)
      BY <3>4 DEF CallSucceeds, AccountIn
    <3>6. GetWithdrawableAmount(acc) = Withdrawable(acc)
      BY <3>5 DEF CanWithdraw, GetWithdrawableAmount
    <3>7. Gain(op, acc, n) = Withdrawable(acc)
      BY <2>1 DEF Gain
    <3>8. WalletIn(V, e) = WalletIn(W, e) + Gain(op, acc, n)
      BY <2>1, <3>4
    <3>9. QED
      BY <1>2, <1>4, <3>1, <3>2, <3>6, <3>7, <3>8
  <2>2. CASE k = N + e /\ op = "toMaster"
    <3>1. e \notin rest
      BY <1>1, <2>2
    <3>2. WalletIn(W, e) >= WalletIn(L, e) + n
      BY <1>7, <2>2, <3>1 DEF Spared
    <3>3. Gain(op, acc, n) = -n
      BY <2>2 DEF Gain
    <3>4. N + e \notin rest \ {k}
      BY <2>2
    <3>5. QED
      BY <1>2, <1>4, <3>2, <3>3, <3>4
  <2>3. QED
    BY <1>1, <2>1, <2>2
<1>8. ASSUME NEW c \in Brackets, NEW u \in Tokens, \A f \in Entry : Listing[f] # <<c, u>>
      PROVE  V.wallet[c][u] = L.wallet[c][u]
  <2>1. W.wallet[c][u] = L.wallet[c][u]
    BY <1>8 DEF Spared
  <2>2. QED
    BY <1>8, <2>1
<1>9. QED
  BY <1>5, <1>6, <1>7, <1>8 DEF Spared

LEMMA RunCallCInv ==
    ASSUME IInv, CInv, Solvent(work), RunCall, OneEntryPerPair
    PROVE  CInv'
<1>1. /\ mode # "idle" /\ ~failed /\ Running \in Bundles
      /\ UNCHANGED <<ledger, script, queue, mode, counts, halted>>
  BY RunCallFacts
<1>2. ClaimsHold'
  BY <1>1 DEF CInv, ClaimsHold, ClaimHolds, Overtaken, AccountIn
<1>3. ASSUME NEW bundle, bundle = Head(queue), mode = "execute",
             bundle.kind = "claimTransfer", bundle.read, ~Overtaken(bundle)
      PROVE  Spared(bundle, todo', ledger, work')
  <2>1. PICK k \in todo :
           /\ Exists(k) /\ todo' = todo \ {k} /\ \A j \in todo : k <= j
           /\ \/ SucceedsAt(k) /\ work' = EffectAt(k)
              \/ ~SucceedsAt(k) /\ work' = work
    BY RunCallFacts
  <2>3. Running = bundle /\ bundle \in Bundles
    BY <1>1, <1>3 DEF Running
  <2>4. ClaimHolds(bundle)
    <3>1. queue \in Seq(Bundles) /\ queue # <<>>
      BY <1>3 DEF IInv, TypeOK
    <3>2. bundle = queue[1] /\ 1 \in 1..Len(queue)
      BY <1>3, <3>1
    <3>3. QED
      BY <3>2 DEF CInv, ClaimsHold
  <2>5. PICK e : e = EntryAt(k)
    OBVIOUS
  <2>6. e \in Entry /\ e = EntryOf(bundle.kind, k)
    BY <2>1, <2>3, <2>5 DEF Exists, EntryAt
  <2> DEFINE ok == CallSucceeds(OpAt(k), work, BracketOf(e), TokenOf(e), bundle.amount[e])
  <2>7. \/ ok /\ work' = CallEffect(OpAt(k), work, BracketOf(e), TokenOf(e), bundle.amount[e])
        \/ ~ok /\ work' = work
    BY <2>1, <2>3, <2>5 DEF SucceedsAt, EffectAt, BracketAt, TokenAt, AmountAt
  <2>8. OpAt(k) = OpOf(bundle.kind, k)
    BY <2>3 DEF OpAt
  <2>9. todo \subseteq Calls(bundle) /\ ledger \in Ledgers /\ Clean(work)
    BY <1>1, <2>3 DEF IInv, TypeOK, Loaded
  <2>10. Spared(bundle, todo, ledger, work)
    BY <1>1, <1>3 DEF CInv, WalletsSpared
  <2>11. \A f \in Entry : bundle.amount[f] <= GetWithdrawableAmount(AccountIn(ledger, f))
    BY <1>3, <2>4 DEF ClaimHolds
  <2>12. PICK n : n = bundle.amount[e]
    OBVIOUS
  <2>13. n \in Nat /\ OpAt(k) \in Ops
    BY <2>1, <2>3, <2>6, <2>12 DEF Exists, Bundles
  <2>14. ok => /\ WalletIn(work', e) = WalletIn(work, e) + Gain(OpAt(k), AccountIn(work, e), n)
               /\ \A f \in Entry \ {e} : /\ AccountIn(work', f) = AccountIn(work, f)
                                         /\ WalletIn(work', f) = WalletIn(work, f)
    <3>1. ok => OneChanges(work, work', e, AccountAfter(OpAt(k), AccountIn(work, e), n),
                           Gain(OpAt(k), AccountIn(work, e), n))
      BY <2>6, <2>7, <2>9, <2>12, <2>13, CallOfOneEntry, Zenon
    <3>2. QED
      BY <3>1 DEF OneChanges
  <2>15. ok => \A c \in Brackets, u \in Tokens :
                  <<c, u>> # Listing[e] => work'.wallet[c][u] = work.wallet[c][u]
    <3>1. /\ BracketOf(e) \in Brackets /\ TokenOf(e) \in Tokens
          /\ Listing[e] = <<BracketOf(e), TokenOf(e)>>
      BY <2>6, FundsAssumption DEF BracketOf, TokenOf
    <3>2. ok => Differs(work, work', BracketOf(e), TokenOf(e),
                        AccountAfter(OpAt(k), AccountIn(work, e), n),
                        Gain(OpAt(k), AccountIn(work, e), n), Spent(OpAt(k), n))
      BY <2>7, <2>9, <2>12, <2>13, <3>1, CallDiffers DEF AccountIn
    <3>3. QED
      BY <3>1, <3>2 DEF Differs
  <2>16. Spared(bundle, todo \ {k}, ledger, work')
    <3>1. work \in Ledgers
      BY <2>9 DEF Clean
    <3>2. PICK V : V = work'
      OBVIOUS
    <3>3. \/ /\ ok
             /\ WalletIn(V, e) = WalletIn(work, e) + Gain(OpAt(k), AccountIn(work, e), bundle.amount[e])
          \/ ~ok /\ WalletIn(V, e) = WalletIn(work, e)
      BY <2>7, <2>12, <2>14, <3>2
    <3>4. /\ \A f \in Entry \ {e} :
                AccountIn(V, f) = AccountIn(work, f) /\ WalletIn(V, f) = WalletIn(work, f)
          /\ \A c \in Brackets, u \in Tokens :
                <<c, u>> # Listing[e] => V.wallet[c][u] = work.wallet[c][u]
      BY <2>7, <2>14, <2>15, <3>2
    <3>5. Spared(bundle, todo \ {k}, ledger, V)
      BY <1>3, <2>1, <2>3, <2>6, <2>8, <2>9, <2>10, <2>11, <3>1, <3>3, <3>4, ClaimCallSpares
    <3>6. QED
      BY <3>2, <3>5
  <2>17. QED
    BY <2>1, <2>16
<1>4. WalletsSpared'
  <2>1. PICK bundle : bundle = Head(queue)
    OBVIOUS
  <2>2. Head(queue') = bundle
    BY <1>1, <2>1
  <2>3. ASSUME mode' = "execute", ~failed', bundle.kind = "claimTransfer", bundle.read,
               bundle.started = counts'.executed
        PROVE  Spared(bundle, todo', ledger', work')
    BY <1>1, <1>3, <2>1, <2>3 DEF Overtaken
  <2>4. QED
    BY <2>2, <2>3 DEF WalletsSpared, Overtaken, Spared, AccountIn, WalletIn
<1>5. QED
  BY <1>2, <1>4 DEF CInv

LEMMA FinishExecuteCInv ==
    ASSUME IInv, CInv, FinishExecute
    PROVE  CInv'
<1>1. /\ queue \in Seq(Bundles) /\ queue # <<>> /\ queue' = Tail(queue)
      /\ mode = "execute" /\ mode' = "idle" /\ UNCHANGED script
  BY DEF IInv, TypeOK, FinishExecute, Unload
<1>2. counts.executed \in Nat /\ counts'.executed = counts.executed + 1
  <2>1. counts \in [scripts : Nat, executed : Nat, trades : Nat]
        /\ counts' = [counts EXCEPT !.executed = counts.executed + 1]
    BY DEF IInv, TypeOK, FinishExecute
  <2>2. QED
    BY <2>1
(* What was read before this bundle was executed is out of date now.       *)
<1>3. ASSUME NEW bundle \in Bundles, ClaimHolds(bundle)
      PROVE  ClaimHolds(bundle)'
  <2>1. bundle.started \in Nat /\ bundle.started <= counts.executed
    BY <1>3 DEF ClaimHolds, Bundles
  <2>2. bundle.started <= counts'.executed /\ bundle.started # counts'.executed
    BY <1>2, <2>1
  <2>3. QED
    BY <2>2 DEF ClaimHolds, Overtaken
<1>4. ASSUME script'.pc # "idle" PROVE ClaimHolds(script.bundle)'
  <2>1. script.bundle \in Bundles /\ ClaimHolds(script.bundle)
    BY <1>1, <1>4 DEF IInv, TypeOK, CInv, ClaimsHold
  <2>2. PICK bundle : bundle = script.bundle
    OBVIOUS
  <2>3. ClaimHolds(bundle)'
    BY <1>3, <2>1, <2>2
  <2>4. script'.bundle = bundle
    BY <1>1, <2>2
  <2>5. QED
    BY <2>3, <2>4 DEF ClaimHolds, Overtaken, AccountIn
<1>5. ASSUME NEW i \in 1..Len(queue') PROVE ClaimHolds(queue[i])'
  <2>1. i + 1 \in 1..Len(queue) /\ queue'[i] = queue[i + 1]
    BY <1>1, <1>5
  <2>2. PICK bundle : bundle = queue[i + 1]
    OBVIOUS
  <2>3. bundle \in Bundles /\ ClaimHolds(bundle)
    BY <1>1, <2>1, <2>2 DEF CInv, ClaimsHold
  <2>4. ClaimHolds(bundle)' /\ queue'[i] = bundle
    BY <1>3, <2>1, <2>2, <2>3
  <2>5. QED
    BY <2>4 DEF ClaimHolds, Overtaken, AccountIn
<1>6. QED
  BY <1>1, <1>4, <1>5 DEF CInv, ClaimsHold, WalletsSpared

LEMMA ExchangeCInv ==
    ASSUME IInv, CInv,
           NextBatch \/ \E b \in Brackets, t \in Tokens, n \in TradeSizes : Trade(b, t, n)
    PROVE  CInv'
<1>1. /\ mode = "idle" /\ UNCHANGED <<script, queue, mode>> /\ counts'.executed = counts.executed
      /\ ledger' \in Ledgers
  <2>1. IInv'
    BY TradeIInv, NextBatchIInv, FundsAssumption
  <2>2. CASE NextBatch
    BY <2>1, <2>2 DEF NextBatch, IInv, TypeOK
  <2>3. ASSUME NEW b \in Brackets, NEW t \in Tokens, NEW n \in TradeSizes, Trade(b, t, n)
        PROVE  mode = "idle" /\ UNCHANGED <<script, queue, mode>> /\ counts'.executed = counts.executed
               /\ ledger' \in Ledgers
    <3>1. [counts EXCEPT !.trades = @ + 1].executed = counts.executed
      BY DEF IInv, TypeOK
    <3>2. QED
      <4>1. /\ mode = "idle" /\ UNCHANGED <<script, queue, mode>>
            /\ counts' = [counts EXCEPT !.trades = @ + 1]
        BY <2>3, Zenon DEF Trade
      <4>2. ledger' \in Ledgers
        BY <2>1 DEF IInv, TypeOK
      <4>3. QED
        BY <3>1, <4>1, <4>2
  <2>4. QED
    BY <2>2, <2>3
<1>2. ledger \in Ledgers /\ queue \in Seq(Bundles) /\ script.bundle \in Bundles
  BY DEF IInv, TypeOK
<1>3. ASSUME NEW bundle \in Bundles, ClaimHolds(bundle)
      PROVE  ClaimHolds(bundle)'
  <2>1. ASSUME NEW e \in Entry, bundle.amount[e] <= GetWithdrawableAmount(AccountIn(ledger, e))
        PROVE  bundle.amount[e] <= GetWithdrawableAmount(AccountIn(ledger', e))
    <3>1. /\ bundle.amount[e] \in Nat
          /\ GetWithdrawableAmount(AccountIn(ledger, e)) \in Nat
          /\ GetWithdrawableAmount(AccountIn(ledger', e)) \in Nat
      BY <1>1, <1>2, PairTypes, AccountFacts DEF Bundles
    <3>2. GetWithdrawableAmount(AccountIn(ledger, e)) <= GetWithdrawableAmount(AccountIn(ledger', e))
      BY <1>2, PairTypes, ExchangeAccounts DEF AccountIn
    <3>3. QED
      BY <2>1, <3>1, <3>2
  <2>2. QED
    BY <1>1, <1>3, <2>1 DEF ClaimHolds, Overtaken, AccountIn
<1>4. ASSUME script'.pc # "idle" PROVE ClaimHolds(script.bundle)'
  <2>1. PICK bundle : bundle = script.bundle
    OBVIOUS
  <2>2. ClaimHolds(bundle)' /\ script'.bundle = bundle
    BY <1>1, <1>2, <1>3, <1>4, <2>1 DEF CInv, ClaimsHold
  <2>3. QED
    BY <2>2 DEF ClaimHolds, Overtaken, AccountIn
<1>5. ASSUME NEW i \in 1..Len(queue') PROVE ClaimHolds(queue[i])'
  <2>1. PICK bundle : bundle = queue[i]
    OBVIOUS
  <2>2. bundle \in Bundles /\ ClaimHolds(bundle) /\ queue'[i] = bundle
    BY <1>1, <1>2, <2>1 DEF CInv, ClaimsHold
  <2>3. ClaimHolds(bundle)'
    BY <1>3, <2>2
  <2>4. QED
    BY <2>2, <2>3 DEF ClaimHolds, Overtaken, AccountIn
<1>6. QED
  BY <1>1, <1>4, <1>5 DEF CInv, ClaimsHold, WalletsSpared

LEMMA StepCInv ==
    ASSUME OneEntryPerPair
    PROVE  IInv /\ CInv /\ Solvent(work) /\ [Next]_vars => CInv'
<1> SUFFICES ASSUME IInv, CInv, Solvent(work), [Next]_vars PROVE CInv'
  OBVIOUS
<1>1. CASE ScriptSteps
  BY <1>1, ScriptStepsCInv
<1>2. CASE StartEstimate
  <2>1. /\ mode' = "estimate" /\ script.pc = "send" /\ UNCHANGED <<ledger, script, queue, counts, halted>>
    BY <1>2 DEF StartEstimate, Load
  <2>2. QED
    BY <2>1 DEF CInv, ClaimsHold, ClaimHolds, WalletsSpared, Overtaken, AccountIn
<1>3. CASE StartExecute
  <2>1. PICK bundle : bundle = Head(queue)
    OBVIOUS
  <2>2. /\ mode' = "execute" /\ todo' = Calls(bundle) /\ work' = ledger /\ queue # <<>>
        /\ UNCHANGED <<ledger, script, queue, counts, halted>>
    BY <1>3, <2>1 DEF StartExecute, Load
  <2>3. bundle \in Bundles /\ ledger \in Ledgers /\ N \in Nat
    BY <2>1, <2>2, HeadTailProperties, FundsAssumption DEF IInv, TypeOK
  <2>4. ASSUME bundle.kind = "claimTransfer"
        PROVE  Spared(bundle, Calls(bundle), ledger, ledger)
    <3>1. ASSUME NEW e \in Entry, N + e \in Calls(bundle)
          PROVE  e \in Calls(bundle)
      <4>1. Calls(bundle) = Listed(bundle.amount) \cup {N + f : f \in Listed(bundle.amount)}
        BY <2>4 DEF Calls
      <4>2. Listed(bundle.amount) \subseteq 1..N /\ e \in 1..N
        BY DEF Listed, Entry
      <4>3. PICK f \in Listed(bundle.amount) : N + e = f \/ N + e = N + f
        BY <3>1, <4>1
      <4>4. e = f
        BY <2>3, <4>2, <4>3
      <4>5. QED
        BY <4>1, <4>4
    <3>2. \A e \in Entry : WalletIn(ledger, e) \in Nat
      BY <2>3, PairTypes
    <3>3. QED
      BY <3>1, <3>2 DEF Spared
  <2>5. WalletsSpared'
    <3>1. Head(queue') = bundle
      BY <2>1, <2>2
    <3>2. bundle.kind = "claimTransfer" => Spared(bundle, todo', ledger', work')
      BY <2>2, <2>4
    <3>3. QED
      BY <3>1, <3>2 DEF WalletsSpared, Overtaken, Spared, AccountIn, WalletIn
  <2>6. QED
    BY <2>2, <2>5 DEF CInv, ClaimsHold, ClaimHolds, Overtaken, AccountIn
<1>4. CASE RunCall
  BY <1>4, RunCallCInv
<1>5. CASE FinishEstimate
  <2>1. PICK bundle : bundle = [script.bundle EXCEPT !.estimated = counts.executed]
    OBVIOUS
  <2>2. /\ script' = IdleScript /\ ledger' = ledger /\ mode' = "idle" /\ counts' = counts
        /\ queue' = queue \/ queue' = Append(queue, bundle)
    BY <1>5, <2>1 DEF FinishEstimate, Unload
  <2>3. queue \in Seq(Bundles) /\ script.bundle \in Bundles
    BY DEF IInv, TypeOK
  <2>4. ClaimHolds(bundle)
    <3>1. /\ bundle.kind = script.bundle.kind /\ bundle.started = script.bundle.started
          /\ bundle.amount = script.bundle.amount /\ bundle.read = script.bundle.read
      BY <2>1, <2>3, Zenon DEF Bundles
    <3>2. mode = "estimate"
      BY <1>5 DEF FinishEstimate
    <3>3. QED
      BY <3>1, <3>2 DEF CInv, ClaimsHold, ClaimHolds, Overtaken
  <2>5. ASSUME NEW i \in 1..Len(queue') PROVE ClaimHolds(queue'[i])
    <3>1. \/ i \in 1..Len(queue) /\ queue'[i] = queue[i]
          \/ queue'[i] = bundle
      BY <2>2, <2>3, <2>5
    <3>2. QED
      BY <2>4, <3>1 DEF CInv, ClaimsHold
  <2>6. QED
    BY <2>2, <2>5
       DEF CInv, ClaimsHold, ClaimHolds, WalletsSpared, Overtaken, AccountIn, IdleScript
<1>6. CASE FinishExecute
  BY <1>6, FinishExecuteCInv
<1>7. CASE NextBatch \/ \E b \in Brackets, t \in Tokens, n \in TradeSizes : Trade(b, t, n)
  BY <1>7, ExchangeCInv
<1>8. CASE UNCHANGED vars
  BY <1>8 DEF vars, CInv, ClaimsHold, ClaimHolds, WalletsSpared, Spared, Overtaken, AccountIn, WalletIn
<1>9. QED
  BY <1>1, <1>2, <1>3, <1>4, <1>5, <1>6, <1>7, <1>8 DEF Next, ScriptSteps

LEMMA InitCInv == Init => CInv
  BY DEF Init, CInv, ClaimsHold, WalletsSpared, IdleScript

LEMMA StepClaims ==
    ASSUME IInv, CInv, [Next]_vars, Executed, Head(queue).kind = "claimTransfer",
           Head(queue).read, InTime(Head(queue)),
           NEW b \in Brackets, NEW t \in Tokens, ~ledger.exch[b][t].credited
    PROVE  ledger'.wallet[b][t] >= ledger.wallet[b][t]
<1>1. FinishExecute
  <2>1. ~ScriptSteps
    BY DEF Executed, ScriptSteps, StartReading, StartListed, Start, ReadAmount, LimitAmount,
           FinishReading, Decline
  <2>2. QED
    BY <2>1 DEF Executed, Next, ScriptSteps, StartEstimate, StartExecute, Load, RunCall,
                FinishEstimate, Trade, NextBatch, vars
<1>2. mode = "execute" /\ Done /\ ledger' = IF failed THEN ledger ELSE work
  BY <1>1 DEF FinishExecute
<1>3. ledger \in Ledgers /\ work \in Ledgers
  BY DEF IInv, TypeOK
<1>4. ledger.wallet[b][t] \in Nat
  BY <1>3 DEF Ledgers, Holders
<1>5. CASE failed
  BY <1>2, <1>4, <1>5
<1>6. CASE ~failed
  <2>1. Spared(Head(queue), {}, ledger, work) /\ ledger' = work
    BY <1>2, <1>6 DEF CInv, WalletsSpared, Overtaken, InTime, Done
  <2>2. CASE \E e \in Entry : Listing[e] = <<b, t>>
    <3>1. PICK e \in Entry : Listing[e] = <<b, t>>
      BY <2>2
    <3>2. BracketOf(e) = b /\ TokenOf(e) = t
      BY <3>1 DEF BracketOf, TokenOf
    <3>3. WalletIn(ledger, e) \in Nat /\ WalletIn(work, e) \in Nat
      BY <1>3, PairTypes
    <3>4. WalletIn(work, e) >= WalletIn(ledger, e)
      BY <2>1, <3>2, <3>3 DEF Spared, AccountIn
    <3>5. QED
      BY <2>1, <3>2, <3>4 DEF WalletIn
  <2>3. CASE \A e \in Entry : Listing[e] # <<b, t>>
    <3>1. work.wallet[b][t] = ledger.wallet[b][t]
      BY <2>1, <2>3, Zenon DEF Spared
    <3>2. QED
      BY <1>4, <2>1, <3>1
  <2>4. QED
    BY <2>2, <2>3
<1>7. QED
  BY <1>5, <1>6

(* A claim that forwards, executed before any other bundle since it was    *)
(* read, leaves in every bracket's wallet at least what was there, unless  *)
(* the account bought tokens in the very batch: trades and batches in      *)
(* between, however many, never make the claim pay less than it forwards,  *)
(* and no other call of the bundle that fails does.  It is assumed that no *)
(* bundle names a pair twice.                                              *)
THEOREM ClaimsSpareWallets ==
    ASSUME OneEntryPerPair
    PROVE  Spec => ClaimSparesWallets
<1>1. IInv /\ CInv /\ [Next]_vars
        => [ Executed /\ Head(queue).kind = "claimTransfer"
               /\ Head(queue).read /\ InTime(Head(queue))
               => \A b \in Brackets, t \in Tokens :
                     \/ ledger'.wallet[b][t] >= ledger.wallet[b][t]
                     \/ ledger.exch[b][t].credited ]_vars
  BY StepClaims
<1>2. IInv /\ CInv /\ Solvent(work) /\ [Next]_vars => CInv'
  BY StepCInv
<1>3. QED
  BY InitIInv, StepIInv, InitSolvent, StepSolvent, InitCInv, <1>1, <1>2, PTL
     DEF Spec, ClaimSparesWallets
-----------------------------------------------------------------------------
(***************************************************************************)
(* Why an estimate can be relied on.  Only the calls of the master Safe can*)
(* fail a bundle, and only funding bundles make any that can fail: the     *)
(* transfers.  The bundle's run on the ledger it is executed on follows the*)
(* run it was estimated with: the master Safe holds at least as much.      *)
(***************************************************************************)
Follows(bundle, A, W) ==
    bundle.kind = "fund" => \A t \in Tokens : A.wallet[Master][t] <= W.wallet[Master][t]

(* A call that does not fail the bundle leads from A to B.                 *)
Leads(op, A, b, t, n, B) ==
    \/ CallSucceeds(op, A, b, t, n) /\ B = CallEffect(op, A, b, t, n)
    \/ ~CallSucceeds(op, A, b, t, n) /\ op # "toBracket" /\ B = A

LeadsBy(bundle, k, A, B) ==
    Leads(OpOf(bundle.kind, k), A, BracketOf(EntryOf(bundle.kind, k)),
          TokenOf(EntryOf(bundle.kind, k)), bundle.amount[EntryOf(bundle.kind, k)], B)

(* The moments of a run that goes well: the calls that are left, and the   *)
(* ledger they meet.  From each of them the next call leads to another.    *)
CleanLedgers == {L \in Ledgers : Clean(L)}
Moments      == (SUBSET (1..2*N)) \X CleanLedgers

GoesOn(bundle, moments, m) ==
    \A k \in m[1] : (\A j \in m[1] : k <= j) =>
       \E B : LeadsBy(bundle, k, m[2], B) /\ <<m[1] \ {k}, B>> \in moments

Promised(bundle, rest, W) ==
    \E moments \in SUBSET Moments :
       /\ \A m \in moments : GoesOn(bundle, moments, m)
       /\ \E m \in moments : m[1] = rest /\ Follows(bundle, m[2], W)

(* While it is estimated, the bundle has gone well so far.                 *)
Rehearsed(bundle, L, rest, W) ==
    \E moments \in SUBSET Moments :
       /\ <<Calls(bundle), L>> \in moments /\ <<rest, W>> \in moments
       /\ \A m \in moments \ {<<rest, W>>} : GoesOn(bundle, moments, m)

(* The inductive invariant: the rehearsal goes well until the estimate     *)
(* fails; the estimates in the queue that no bundle has overtaken can be   *)
(* relied on; and the bundle that is executed then does not fail.          *)
Rehearsal == mode = "estimate" /\ ~failed => Rehearsed(script.bundle, ledger, todo, work)

Estimated(bundle) ==
    /\ bundle.estimated <= counts.executed
    /\ bundle.estimated = counts.executed => Promised(bundle, Calls(bundle), ledger)

Reliable(bundle) ==
    bundle.estimated = counts.executed => ~failed /\ Promised(bundle, todo, work)

EInv == /\ mode = "idle" => ~failed
        /\ Rehearsal
        /\ \A i \in 1..Len(queue) : Estimated(queue[i])
        /\ mode = "execute" => Reliable(Head(queue))

(* A funding bundle on the way: what the master Safe has stays enough.     *)
LEMMA FollowedFunding ==
    ASSUME NEW op \in {"toBracket", "approveDeposit"}, NEW A, Clean(A), NEW W, Clean(W),
           \A t \in Tokens : A.wallet[Master][t] <= W.wallet[Master][t],
           NEW b \in Brackets, NEW t \in Tokens, NEW n \in Nat,
           NEW B, Leads(op, A, b, t, n, B),
           NEW V, \/ CallSucceeds(op, W, b, t, n) /\ V = CallEffect(op, W, b, t, n)
                  \/ ~CallSucceeds(op, W, b, t, n) /\ V = W
    PROVE  /\ op = "toBracket" => CallSucceeds(op, W, b, t, n)
           /\ \A u \in Tokens : B.wallet[Master][u] <= V.wallet[Master][u]
<1>1. A \in Ledgers /\ W \in Ledgers /\ op \in Ops
  BY DEF Clean, Ops
<1>2. \A u \in Tokens : A.wallet[Master][u] \in Nat /\ W.wallet[Master][u] \in Nat
  BY <1>1 DEF Ledgers, Holders
<1>3. ASSUME NEW X, Clean(X), NEW Y, NEW u \in Tokens, X.wallet[Master][u] \in Nat,
             \/ CallSucceeds(op, X, b, t, n) /\ Y = CallEffect(op, X, b, t, n)
             \/ op = "approveDeposit" /\ Y = X
      PROVE  Y.wallet[Master][u] = X.wallet[Master][u] - (IF u = t /\ op = "toBracket" THEN n ELSE 0)
  <2>1. CASE op = "approveDeposit" /\ Y = X
    BY <1>3, <2>1
  <2>2. CASE CallSucceeds(op, X, b, t, n) /\ Y = CallEffect(op, X, b, t, n)
    <3>1. Differs(X, Y, b, t, AccountAfter(op, X.exch[b][t], n), Gain(op, X.exch[b][t], n), Spent(op, n))
      BY <1>1, <1>3, <2>2, CallDiffers
    <3>2. Spent(op, n) = IF op = "toBracket" THEN n ELSE 0
      BY DEF Spent
    <3>3. QED
      BY <1>3, <3>1, <3>2 DEF Differs
  <2>3. QED
    BY <1>3, <2>1, <2>2
<1>4. op = "toBracket" => CallSucceeds(op, A, b, t, n) /\ CallSucceeds(op, W, b, t, n)
  <2>1. ASSUME op = "toBracket"
        PROVE  CallSucceeds(op, A, b, t, n) /\ CallSucceeds(op, W, b, t, n)
    <3>1. CallSucceeds(op, A, b, t, n)
      BY <2>1 DEF Leads
    <3>2. n <= A.wallet[Master][t] /\ A.wallet[Master][t] <= W.wallet[Master][t]
      BY <2>1, <3>1 DEF CallSucceeds
    <3>3. n <= W.wallet[Master][t]
      BY <1>2, <3>2
    <3>4. QED
      BY <2>1, <3>1, <3>3 DEF CallSucceeds
  <2>2. QED
    BY <2>1
<1>5. /\ \/ CallSucceeds(op, A, b, t, n) /\ B = CallEffect(op, A, b, t, n)
         \/ op = "approveDeposit" /\ B = A
      /\ \/ CallSucceeds(op, W, b, t, n) /\ V = CallEffect(op, W, b, t, n)
         \/ op = "approveDeposit" /\ V = W
  BY <1>4 DEF Leads
<1>6. ASSUME NEW u \in Tokens
      PROVE  B.wallet[Master][u] <= V.wallet[Master][u]
  <2>1. PICK s \in Nat : s = IF u = t /\ op = "toBracket" THEN n ELSE 0
    OBVIOUS
  <2>2. B.wallet[Master][u] = A.wallet[Master][u] - s /\ V.wallet[Master][u] = W.wallet[Master][u] - s
    BY <1>2, <1>3, <1>5, <2>1
  <2>3. QED
    BY <1>2, <2>1, <2>2
<1>7. QED
  BY <1>4, <1>6

(* Which bundles make the calls of the master Safe that take funds.        *)
LEMMA TransferKinds ==
    ASSUME NEW bundle \in Bundles, NEW k \in Calls(bundle)
    PROVE  /\ OpOf(bundle.kind, k) = "toBracket" => bundle.kind = "fund"
           /\ bundle.kind = "fund" => OpOf(bundle.kind, k) \in {"toBracket", "approveDeposit"}
<1>1. bundle.kind = "fund" => OpOf(bundle.kind, k) \in {"toBracket", "approveDeposit"}
  BY FundCalls
<1>2. bundle.kind # "fund" => OpOf(bundle.kind, k) # "toBracket"
  BY DEF OpOf, Bundles, AllKinds
<1>3. QED
  BY <1>1, <1>2

(* The next call of a bundle that follows its estimate.                    *)
LEMMA PromiseKept ==
    ASSUME NEW bundle \in Bundles, NEW rest \in SUBSET Calls(bundle),
           NEW W, Clean(W), Promised(bundle, rest, W),
           NEW k \in rest, \A j \in rest : k <= j,
           NEW op, op = OpOf(bundle.kind, k), NEW e, e = EntryOf(bundle.kind, k),
           NEW b, b = BracketOf(e), NEW t, t = TokenOf(e), NEW n, n = bundle.amount[e],
           NEW V, \/ CallSucceeds(op, W, b, t, n) /\ V = CallEffect(op, W, b, t, n)
                  \/ ~CallSucceeds(op, W, b, t, n) /\ V = W
    PROVE  /\ ~CallSucceeds(op, W, b, t, n) => op # "toBracket"
           /\ Promised(bundle, rest \ {k}, V)
<1>1. /\ e \in Listed(bundle.amount) /\ e \in Entry /\ op \in Ops /\ n \in Nat
      /\ b \in Brackets /\ t \in Tokens
  BY CallKinds, CallsType, PairTypes, FundsAssumption DEF Bundles, BracketOf, TokenOf
<1>2. PICK G \in SUBSET Moments :
         /\ \A m \in G : GoesOn(bundle, G, m)
         /\ \E m \in G : m[1] = rest /\ Follows(bundle, m[2], W)
  BY DEF Promised
<1>3. PICK m \in G : m[1] = rest /\ Follows(bundle, m[2], W)
  BY <1>2
<1>4. PICK A : A = m[2]
  OBVIOUS
<1>5. Clean(A) /\ Follows(bundle, A, W)
  <2>1. m \in Moments
    BY <1>2
  <2>2. A \in CleanLedgers
    BY <1>4, <2>1 DEF Moments
  <2>3. QED
    BY <1>3, <1>4, <2>2, Zenon DEF CleanLedgers
<1>6. PICK B : LeadsBy(bundle, k, A, B) /\ <<rest \ {k}, B>> \in G
  <2>1. GoesOn(bundle, G, m)
    BY <1>2
  <2>2. QED
    BY <1>3, <1>4, <2>1 DEF GoesOn
<1>7. Leads(op, A, b, t, n, B)
  BY <1>6 DEF LeadsBy
<1>9. /\ ~CallSucceeds(op, W, b, t, n) => op # "toBracket"
      /\ Follows(bundle, B, V)
  <2>1. CASE bundle.kind = "fund"
    <3>1. op \in {"toBracket", "approveDeposit"}
      BY <2>1, TransferKinds
    <3>2. \A u \in Tokens : A.wallet[Master][u] <= W.wallet[Master][u]
      BY <1>5, <2>1 DEF Follows
    <3>3. /\ op = "toBracket" => CallSucceeds(op, W, b, t, n)
          /\ \A u \in Tokens : B.wallet[Master][u] <= V.wallet[Master][u]
      BY <1>1, <1>5, <1>7, <3>1, <3>2, FollowedFunding
    <3>4. QED
      BY <3>3 DEF Follows
  <2>2. CASE bundle.kind # "fund"
    BY <2>2, TransferKinds DEF Follows
  <2>3. QED
    BY <2>1, <2>2
<1>10. Promised(bundle, rest \ {k}, V)
  <2>1. PICK m2 : m2 = <<rest \ {k}, B>>
    OBVIOUS
  <2>2. m2 \in G /\ m2[1] = rest \ {k} /\ Follows(bundle, m2[2], V)
    BY <1>6, <1>9, <2>1
  <2>3. QED
    BY <1>2, <2>2 DEF Promised
<1>11. QED
  BY <1>9, <1>10

(* The next call of the rehearsal.                                         *)
LEMMA RehearsalGoesOn ==
    ASSUME NEW bundle \in Bundles, NEW L, NEW rest \in SUBSET Calls(bundle),
           NEW W, Rehearsed(bundle, L, rest, W), NEW k \in rest, \A j \in rest : k <= j,
           NEW V, Clean(V), LeadsBy(bundle, k, W, V)
    PROVE  Rehearsed(bundle, L, rest \ {k}, V)
<1>1. PICK G \in SUBSET Moments :
         /\ <<Calls(bundle), L>> \in G /\ <<rest, W>> \in G
         /\ \A m \in G \ {<<rest, W>>} : GoesOn(bundle, G, m)
  BY DEF Rehearsed
<1>2. PICK now, new : now = <<rest, W>> /\ new = <<rest \ {k}, V>>
  OBVIOUS
<1>3. PICK H : H = G \cup {new}
  OBVIOUS
<1>4. rest \in SUBSET (1..2*N) /\ \A j \in rest : j \in Int
  BY CallsType
<1>5. new \in Moments
  <2>1. V \in CleanLedgers
    BY Zenon DEF Clean, CleanLedgers
  <2>2. QED
    BY <1>2, <1>4, <2>1 DEF Moments
<1>6. ASSUME NEW m \in H \ {new}
      PROVE  GoesOn(bundle, H, m)
  <2>1. CASE m = now
    <3>1. m[1] = rest /\ m[2] = W /\ new \in H
      BY <1>2, <1>3, <2>1
    <3>2. ASSUME NEW j \in rest, \A i \in rest : j <= i
          PROVE  j = k
      BY <1>4, <3>2
    <3>3. QED
      BY <1>2, <3>1, <3>2, Zenon DEF GoesOn
  <2>2. CASE m # now
    <3>1. GoesOn(bundle, G, m)
      BY <1>1, <1>2, <1>3, <2>2
    <3>2. QED
      BY <1>3, <3>1 DEF GoesOn
  <2>3. QED
    BY <2>1, <2>2
<1>7. H \in SUBSET Moments /\ <<Calls(bundle), L>> \in H /\ <<rest \ {k}, V>> \in H
  BY <1>1, <1>2, <1>3, <1>5
<1>8. QED
  BY <1>2, <1>6, <1>7, Zenon DEF Rehearsed

(* Whatever happens on the chain between two bundles, a ledger that follows*)
(* the estimate goes on following it.                                      *)
LEMMA PromiseLasts ==
    ASSUME IInv, NEW bundle \in Bundles, NEW rest, Promised(bundle, rest, ledger),
           NextBatch \/ \E b \in Brackets, t \in Tokens, n \in TradeSizes : Trade(b, t, n)
    PROVE  Promised(bundle, rest, ledger')
<1>1. PICK G \in SUBSET Moments :
         /\ \A m \in G : GoesOn(bundle, G, m)
         /\ \E m \in G : m[1] = rest /\ Follows(bundle, m[2], ledger)
  BY DEF Promised
<1>2. PICK m \in G : m[1] = rest /\ Follows(bundle, m[2], ledger)
  BY <1>1
<1>4. ledger \in Ledgers
  BY DEF IInv, TypeOK
<1>5. ledger'.wallet = ledger.wallet
  <2>1. CASE NextBatch
    BY <1>4, <2>1, Zenon DEF NextBatch, Ledgers
  <2>2. ASSUME NEW b \in Brackets, NEW t \in Tokens, NEW n \in TradeSizes, Trade(b, t, n)
        PROVE  ledger'.wallet = ledger.wallet
    <3>1. b \in Brackets /\ t \in Tokens
      OBVIOUS
    <3>2. QED
      BY <1>4, <2>2, <3>1, TradeAccounts
  <2>3. QED
    BY <2>1, <2>2
<1>6. Follows(bundle, m[2], ledger')
  BY <1>2, <1>5 DEF Follows
<1>7. QED
  BY <1>1, <1>2, <1>6 DEF Promised

(* What a bundle promises depends on its calls only.                       *)
LEMMA SamePromise ==
    ASSUME NEW bundle, NEW twin, twin.kind = bundle.kind, twin.amount = bundle.amount,
           NEW rest, NEW W, Promised(bundle, rest, W)
    PROVE  Promised(twin, rest, W)
<1>1. PICK G \in SUBSET Moments :
         /\ \A m \in G : GoesOn(bundle, G, m)
         /\ \E m \in G : m[1] = rest /\ Follows(bundle, m[2], W)
  BY DEF Promised
<1>2. \A m \in G : GoesOn(twin, G, m)
  BY <1>1, Zenon DEF GoesOn, LeadsBy
<1>3. \E m \in G : m[1] = rest /\ Follows(twin, m[2], W)
  BY <1>1, Zenon DEF Follows
<1>4. QED
  BY <1>2, <1>3 DEF Promised

(* A rehearsal that has gone well to the end is a promise.                 *)
LEMMA RehearsalPromises ==
    ASSUME NEW bundle, NEW L \in Ledgers, NEW W, Rehearsed(bundle, L, {}, W)
    PROVE  Promised(bundle, Calls(bundle), L)
<1>1. PICK G \in SUBSET Moments :
         /\ <<Calls(bundle), L>> \in G
         /\ \A m \in G \ {<<{}, W>>} : GoesOn(bundle, G, m)
  BY DEF Rehearsed
<1>2. PICK last, start : last = <<{}, W>> /\ start = <<Calls(bundle), L>>
  OBVIOUS
<1>3. GoesOn(bundle, G, last)
  <2>1. last[1] = {}
    BY <1>2
  <2>2. QED
    BY <2>1 DEF GoesOn
<1>4. \A m \in G : GoesOn(bundle, G, m)
  BY <1>1, <1>2, <1>3
<1>5. Follows(bundle, L, L)
  <2>1. \A t \in Tokens : L.wallet[Master][t] \in Nat
    BY DEF Ledgers, Holders
  <2>2. QED
    BY <2>1 DEF Follows
<1>6. start \in G /\ start[1] = Calls(bundle) /\ start[2] = L
  BY <1>1, <1>2
<1>7. QED
  BY <1>4, <1>5, <1>6 DEF Promised

LEMMA RunCallEInv == IInv /\ EInv /\ RunCall => EInv'
<1> SUFFICES ASSUME IInv, EInv, RunCall PROVE EInv'
  OBVIOUS
<1>1. /\ mode # "idle" /\ ~failed /\ Running \in Bundles
      /\ UNCHANGED <<ledger, script, queue, mode, counts, halted>>
  BY RunCallFacts
<1>2. PICK k \in todo :
        /\ Exists(k) /\ todo' = todo \ {k} /\ \A j \in todo : k <= j
        /\ \/ SucceedsAt(k) /\ work' = EffectAt(k) /\ UNCHANGED failed
           \/ /\ ~SucceedsAt(k) /\ UNCHANGED work
              /\ failed' = (OpAt(k) = "toBracket")
  BY RunCallFacts
<1>3. PICK bundle, op, e, b, t, n :
        /\ bundle = Running /\ op = OpOf(bundle.kind, k) /\ e = EntryOf(bundle.kind, k)
        /\ b = BracketOf(e) /\ t = TokenOf(e) /\ n = bundle.amount[e]
  OBVIOUS
<1>4. \/ CallSucceeds(op, work, b, t, n) /\ work' = CallEffect(op, work, b, t, n) /\ UNCHANGED failed
      \/ /\ ~CallSucceeds(op, work, b, t, n) /\ work' = work
         /\ failed' = (op = "toBracket")
  BY <1>2, <1>3 DEF SucceedsAt, EffectAt, OpAt, BracketAt, TokenAt, AmountAt, EntryAt
<1>5. /\ bundle \in Bundles /\ todo \in SUBSET Calls(bundle) /\ Clean(work)
  BY <1>1, <1>3 DEF IInv, Loaded
<1>6. Clean(work')
  BY RunCallIInv DEF IInv, Clean
<1>7. Rehearsal'
  <2>1. SUFFICES ASSUME mode = "estimate", ~failed'
                 PROVE  Rehearsed(bundle, ledger, todo \ {k}, work')
    BY <1>1, <1>2, <1>3 DEF Rehearsal, Running
  <2>2. Rehearsed(bundle, ledger, todo, work)
    BY <1>1, <1>3, <2>1 DEF EInv, Rehearsal, Running
  <2>3. Leads(op, work, b, t, n, work')
    BY <1>4, <2>1 DEF Leads
  <2>4. LeadsBy(bundle, k, work, work')
    BY <1>3, <2>3 DEF LeadsBy
  <2>5. QED
    BY <1>2, <1>5, <1>6, <2>2, <2>4, RehearsalGoesOn
<1>8. \A i \in 1..Len(queue') : Estimated(queue[i])'
  BY <1>1 DEF EInv, Estimated
<1>9. mode' = "execute" => Reliable(Head(queue))'
  <2>1. SUFFICES ASSUME mode = "execute", bundle.estimated = counts.executed
                 PROVE  ~failed' /\ Promised(bundle, todo \ {k}, work')
    BY <1>1, <1>2, <1>3 DEF Reliable, Running
  <2>2. Promised(bundle, todo, work)
    BY <1>3, <2>1 DEF EInv, Reliable, Running
  <2>3. PICK V : V = work'
    OBVIOUS
  <2>4. \/ CallSucceeds(op, work, b, t, n) /\ V = CallEffect(op, work, b, t, n)
        \/ ~CallSucceeds(op, work, b, t, n) /\ V = work
    BY <1>4, <2>3
  <2>5. /\ ~CallSucceeds(op, work, b, t, n) => op # "toBracket"
        /\ Promised(bundle, todo \ {k}, V)
    BY <1>2, <1>3, <1>5, <2>2, <2>4, PromiseKept
  <2>6. ~failed'
    <3>1. CASE CallSucceeds(op, work, b, t, n)
      BY <1>1, <1>4, <3>1, Zenon
    <3>2. CASE ~CallSucceeds(op, work, b, t, n)
      BY <1>4, <2>5, <3>2, Zenon
    <3>3. QED
      BY <3>1, <3>2
  <2>7. QED
    BY <2>3, <2>5, <2>6
<1>10. QED
  BY <1>1, <1>7, <1>8, <1>9 DEF EInv

LEMMA FinishEstimateEInv == IInv /\ EInv /\ FinishEstimate => EInv'
<1> SUFFICES ASSUME IInv, EInv, FinishEstimate PROVE EInv'
  OBVIOUS
<1>1. PICK bundle, twin : bundle = script.bundle
                          /\ twin = [script.bundle EXCEPT !.estimated = counts.executed]
  OBVIOUS
<1>2. /\ mode = "estimate" /\ Done /\ mode' = "idle" /\ failed' = FALSE
      /\ ledger' = ledger /\ counts' = counts
      /\ queue' = IF failed THEN queue ELSE Append(queue, twin)
  BY <1>1 DEF FinishEstimate, Unload
<1>3. /\ queue \in Seq(Bundles) /\ bundle \in Bundles /\ ledger \in Ledgers /\ counts.executed \in Nat
  BY <1>1 DEF IInv, TypeOK
<1>4. /\ twin.kind = bundle.kind /\ twin.amount = bundle.amount /\ twin.estimated = counts.executed
  BY <1>1, <1>3, Zenon DEF Bundles
<1>5. ~failed => Promised(twin, Calls(twin), ledger)
  <2>1. SUFFICES ASSUME ~failed PROVE Promised(twin, Calls(twin), ledger)
    OBVIOUS
  <2>2. Rehearsed(bundle, ledger, {}, work)
    BY <1>1, <1>2, <2>1 DEF EInv, Rehearsal, Done
  <2>3. Promised(bundle, Calls(bundle), ledger)
    BY <1>3, <2>2, RehearsalPromises
  <2>4. Calls(twin) = Calls(bundle)
    BY <1>4, Zenon DEF Calls
  <2>5. QED
    BY <1>4, <2>3, <2>4, SamePromise
<1>6. ASSUME NEW i \in 1..Len(queue') PROVE Estimated(queue[i])'
  <2>1. \/ i \in 1..Len(queue) /\ queue'[i] = queue[i]
        \/ ~failed /\ queue'[i] = twin
    BY <1>2, <1>3, <1>6
  <2>2. CASE i \in 1..Len(queue) /\ queue'[i] = queue[i]
    BY <1>2, <2>2 DEF EInv, Estimated
  <2>3. CASE ~failed /\ queue'[i] = twin
    <3>1. twin.estimated <= counts.executed
      BY <1>3, <1>4
    <3>2. QED
      BY <1>2, <1>5, <2>3, <3>1 DEF Estimated
  <2>4. QED
    BY <2>1, <2>2, <2>3
<1>7. QED
  BY <1>2, <1>6 DEF EInv, Rehearsal

(* Every estimate was made before the bundle that has been executed now.   *)
LEMMA FinishExecuteEInv == IInv /\ EInv /\ FinishExecute => EInv'
<1> SUFFICES ASSUME IInv, EInv, FinishExecute PROVE EInv'
  OBVIOUS
<1>1. /\ queue \in Seq(Bundles) /\ queue # <<>> /\ queue' = Tail(queue)
      /\ mode' = "idle" /\ failed' = FALSE
  BY DEF IInv, TypeOK, FinishExecute, Unload
<1>2. counts.executed \in Nat /\ counts'.executed = counts.executed + 1
  <2>1. counts \in [scripts : Nat, executed : Nat, trades : Nat]
        /\ counts' = [counts EXCEPT !.executed = counts.executed + 1]
    BY DEF IInv, TypeOK, FinishExecute
  <2>2. QED
    BY <2>1
<1>3. ASSUME NEW i \in 1..Len(queue') PROVE Estimated(queue[i])'
  <2>1. i + 1 \in 1..Len(queue) /\ queue'[i] = queue[i + 1]
    BY <1>1, <1>3
  <2>2. PICK m : m = queue[i + 1].estimated
    OBVIOUS
  <2>3. m \in Nat /\ m <= counts.executed
    <3>1. queue[i + 1] \in Bundles
      BY <1>1, <2>1
    <3>2. m \in Nat
      BY <2>2, <3>1 DEF Bundles
    <3>3. QED
      BY <2>1, <2>2, <3>2 DEF EInv, Estimated
  <2>4. m <= counts'.executed /\ m # counts'.executed
    BY <1>2, <2>3
  <2>5. QED
    BY <2>1, <2>2, <2>4 DEF Estimated
<1>4. QED
  BY <1>1, <1>3 DEF EInv, Rehearsal

LEMMA ExchangeEInv ==
    ASSUME IInv, EInv,
           NextBatch \/ \E b \in Brackets, t \in Tokens, n \in TradeSizes : Trade(b, t, n)
    PROVE  EInv'
<1>1. /\ mode = "idle" /\ UNCHANGED <<queue, mode, failed>> /\ counts'.executed = counts.executed
  <2>1. CASE NextBatch
    BY <2>1 DEF NextBatch
  <2>2. ASSUME NEW b \in Brackets, NEW t \in Tokens, NEW n \in TradeSizes, Trade(b, t, n)
        PROVE  /\ mode = "idle" /\ UNCHANGED <<queue, mode, failed>>
               /\ counts'.executed = counts.executed
    <3>1. [counts EXCEPT !.trades = @ + 1].executed = counts.executed
      BY DEF IInv, TypeOK
    <3>2. /\ mode = "idle" /\ UNCHANGED <<queue, mode, failed>>
          /\ counts' = [counts EXCEPT !.trades = @ + 1]
      BY <2>2, Zenon DEF Trade
    <3>3. QED
      BY <3>1, <3>2
  <2>3. QED
    BY <2>1, <2>2
<1>2. ASSUME NEW i \in 1..Len(queue') PROVE Estimated(queue[i])'
  <2>1. PICK bundle : bundle = queue[i]
    OBVIOUS
  <2>2. bundle \in Bundles /\ Estimated(bundle) /\ queue'[i] = bundle
    BY <1>1, <1>2, <2>1 DEF EInv, IInv, TypeOK
  <2>3. bundle.estimated = counts.executed => Promised(bundle, Calls(bundle), ledger')
    BY <2>2, PromiseLasts DEF Estimated
  <2>4. QED
    BY <1>1, <2>2, <2>3 DEF Estimated
<1>3. QED
  BY <1>1, <1>2 DEF EInv, Rehearsal

LEMMA StepEInv == IInv /\ EInv /\ [Next]_vars => EInv'
<1> SUFFICES ASSUME IInv, EInv, [Next]_vars PROVE EInv'
  OBVIOUS
<1>1. CASE ScriptSteps
  <2>1. /\ mode = "idle" /\ UNCHANGED <<ledger, queue, mode, failed>> /\ counts'.executed = counts.executed
    <3>1. [counts EXCEPT !.scripts = @ + 1].executed = counts.executed
      BY DEF IInv, TypeOK
    <3>2. QED
      BY <1>1, <3>1 DEF ScriptSteps, StartReading, StartListed, Start, ReadAmount, LimitAmount,
                        FinishReading, Decline
  <2>2. QED
    BY <2>1, SMTT(30) DEF EInv, Rehearsal, Estimated
<1>2. CASE StartEstimate
  <2>1. PICK bundle : bundle = script.bundle
    OBVIOUS
  <2>2. /\ mode = "idle" /\ mode' = "estimate" /\ todo' = Calls(bundle) /\ work' = ledger
        /\ UNCHANGED <<ledger, script, queue, counts, failed>>
    BY <1>2, <2>1 DEF StartEstimate, Load
  <2>3. Rehearsed(bundle, ledger, Calls(bundle), ledger)
    <3>1. PICK m : m = <<Calls(bundle), ledger>>
      OBVIOUS
    <3>2. bundle \in Bundles /\ Clean(ledger)
      BY <2>1 DEF IInv, TypeOK
    <3>3. Calls(bundle) \in SUBSET (1..2*N)
      BY <3>2, CallsType
    <3>4. ledger \in CleanLedgers
      BY <3>2, Zenon DEF Clean, CleanLedgers
    <3>5. m \in Moments
      BY <3>1, <3>3, <3>4 DEF Moments
    <3>6. {m} \in SUBSET Moments /\ m \in {m} /\ {m} \ {m} = {}
      BY <3>5
    <3>7. QED
      BY <3>1, <3>6, Zenon DEF Rehearsed
  <2>4. QED
    BY <2>1, <2>2, <2>3 DEF EInv, Rehearsal, Estimated
<1>3. CASE StartExecute
  <2>1. PICK bundle : bundle = Head(queue)
    OBVIOUS
  <2>2. /\ mode = "idle" /\ mode' = "execute" /\ todo' = Calls(bundle) /\ work' = ledger /\ queue # <<>>
        /\ UNCHANGED <<ledger, script, queue, counts, failed>>
    BY <1>3, <2>1 DEF StartExecute, Load
  <2>3. Estimated(bundle)
    <3>1. queue \in Seq(Bundles)
      BY DEF IInv, TypeOK
    <3>2. bundle = queue[1] /\ 1 \in 1..Len(queue)
      BY <2>1, <2>2, <3>1
    <3>3. QED
      BY <3>2 DEF EInv
  <2>4. QED
    BY <2>1, <2>2, <2>3 DEF EInv, Rehearsal, Estimated, Reliable
<1>4. CASE RunCall
  BY <1>4, RunCallEInv
<1>5. CASE FinishEstimate
  BY <1>5, FinishEstimateEInv
<1>6. CASE FinishExecute
  BY <1>6, FinishExecuteEInv
<1>7. CASE NextBatch \/ \E b \in Brackets, t \in Tokens, n \in TradeSizes : Trade(b, t, n)
  BY <1>7, ExchangeEInv
<1>8. CASE UNCHANGED vars
  BY <1>8 DEF vars, EInv, Rehearsal, Estimated, Reliable
<1>9. QED
  BY <1>1, <1>2, <1>3, <1>4, <1>5, <1>6, <1>7, <1>8 DEF Next, ScriptSteps

LEMMA InitEInv == Init => EInv
  BY DEF Init, EInv, Rehearsal

(* A bundle that was estimated and is executed before any other one does   *)
(* not fail: whatever the scripts read, however many trades and batches    *)
(* come in between, whatever calls of its brackets fail, for any listing.  *)
THEOREM EstimatesAreReliable == Spec => EstimateIsReliable
<1>1. IInv /\ EInv /\ [Next]_vars
        => [ Executed /\ failed => Head(queue).estimated # counts.executed ]_vars
  BY DEF EInv, Reliable, Executed
<1>2. IInv /\ EInv /\ [Next]_vars => EInv'
  BY StepEInv
<1>3. QED
  BY InitIInv, StepIInv, InitEInv, <1>1, <1>2, PTL DEF Spec, EstimateIsReliable
-----------------------------------------------------------------------------
(***************************************************************************)
(* The documented procedure (FundsReturn).  It uses nothing but the scripts*)
(* of LiquidityFunds, one after the other.                                 *)
(***************************************************************************)
ProcedureScripts == RequestFunds \/ ClaimFunds \/ TransferFunds

LEMMA ProcedureStarts ==
    ASSUME "transfer" \in Kinds, ProcedureScripts
    PROVE  /\ queue = <<>>
           /\ \E kind \in Kinds, asked \in SUBSET Entry : StartReading(kind, asked)
<1>1. \E now, next, kinds : RunScript(now, next, kinds) /\ kinds \subseteq Kinds
  BY DEF ProcedureScripts, RequestFunds, ClaimFunds, TransferFunds
<1>2. PICK now, next, kinds : RunScript(now, next, kinds) /\ kinds \subseteq Kinds
  BY <1>1
<1>3. queue = <<>> /\ \E kind \in kinds : StartReading(kind, Entry)
  BY <1>2 DEF RunScript
<1>4. Entry \in SUBSET Entry
  OBVIOUS
<1>5. QED
  BY <1>2, <1>3, <1>4

LEMMA ProcedureSteps ==
    ASSUME "transfer" \in Kinds
    PROVE  [ReturnNext]_fundsVars => [Next]_vars
<1> SUFFICES ASSUME [ReturnNext]_fundsVars PROVE [Next]_vars
  OBVIOUS
<1>1. CASE ProcedureScripts
  BY <1>1, ProcedureStarts DEF Next
<1>2. CASE RunsOn
  BY <1>2 DEF RunsOn, Next
<1>3. CASE Elsewhere
  BY <1>3 DEF Elsewhere, BatchEnds, Next
<1>4. CASE UNCHANGED fundsVars
  BY <1>4 DEF fundsVars
<1>5. QED
  BY <1>1, <1>2, <1>3, <1>4 DEF ReturnNext, ProcedureScripts

(* An operator who follows the procedure is one of those LiquidityFunds    *)
(* describes, so what is proved of its scripts holds for the procedure.    *)
THEOREM ProcedureUsesTheScripts == ASSUME "transfer" \in Kinds PROVE ReturnSpec => Spec
<1>1. ReturnInit => Init
  BY DEF ReturnInit
<1>2. QED
  BY <1>1, ProcedureSteps, PTL DEF ReturnSpec, Spec

(* No script starts before the bundle of the one before it is executed, so *)
(* no bundle is overtaken by another.                                      *)
Fresh(bundle) == bundle.read /\ InTime(bundle)

InTurn ==
    /\ script.pc # "idle" \/ mode = "estimate" => queue = <<>> /\ Fresh(script.bundle)
    /\ queue # <<>> => Tail(queue) = <<>> /\ Fresh(Head(queue))

LEMMA InitInTurn == ReturnInit => InTurn
  BY DEF ReturnInit, Init, InTurn, IdleScript

LEMMA StepInTurn ==
    ASSUME "transfer" \in Kinds
    PROVE  IInv /\ InTurn /\ [ReturnNext]_fundsVars => InTurn'
<1> SUFFICES ASSUME IInv, InTurn, [ReturnNext]_fundsVars PROVE InTurn'
  OBVIOUS
<1>0. /\ queue \in Seq(Bundles) /\ script.bundle \in Bundles /\ counts.executed \in Nat
      /\ script \in [pc : {"idle", "read", "limit", "send"}, unread : SUBSET Entry, bundle : Bundles]
      /\ [counts EXCEPT !.trades = @ + 1].executed = counts.executed
      /\ [counts EXCEPT !.scripts = @ + 1].executed = counts.executed
  BY DEF IInv, TypeOK
<1>1. CASE ProcedureScripts
  <2>1. queue = <<>> /\ \E kind, asked, amount, unread : Start(kind, asked, amount, "read", unread)
    BY <1>1, ProcedureStarts, Zenon DEF StartReading
  <2>2. PICK kind, asked, amount, unread : Start(kind, asked, amount, "read", unread)
    BY <2>1
  <2>3. queue' = <<>> /\ counts'.executed = counts.executed
    BY <1>0, <2>1, <2>2 DEF Start
  <2>4. script'.bundle.read /\ script'.bundle.started = counts.executed
    BY <2>2, Zenon DEF Start
  <2>5. QED
    BY <2>3, <2>4 DEF InTurn, Fresh, InTime
<1>2. CASE \/ \E e \in Entry : ReadAmount(e) \/ LimitAmount(e)
           \/ FinishReading
           \/ StartEstimate
  <2>1. queue = <<>> /\ Fresh(script.bundle) /\ UNCHANGED <<queue, counts>>
    BY <1>2 DEF InTurn, ReadAmount, LimitAmount, FinishReading, StartEstimate
  <2>2. \/ script' = IdleScript /\ mode' = "idle"
        \/ /\ script'.bundle.read = script.bundle.read
           /\ script'.bundle.started = script.bundle.started
    <3>1. ASSUME NEW e \in Entry, ReadAmount(e) \/ LimitAmount(e)
          PROVE  /\ script'.bundle.read = script.bundle.read
                 /\ script'.bundle.started = script.bundle.started
      <4>1. CASE ReadAmount(e)
        BY <1>0, <4>1, Zenon DEF ReadAmount, Bundles
      <4>2. CASE LimitAmount(e)
        BY <1>0, <4>2, Zenon DEF LimitAmount, Bundles
      <4>3. QED
        BY <3>1, <4>1, <4>2
    <3>2. CASE FinishReading
      <4>1. script' = IdleScript \/ script'.bundle = script.bundle
        BY <1>0, <3>2, Zenon DEF FinishReading
      <4>2. QED
        BY <3>2, <4>1 DEF FinishReading
    <3>3. CASE StartEstimate
      BY <3>3 DEF StartEstimate
    <3>4. QED
      BY <1>2, <3>1, <3>2, <3>3
  <2>3. CASE script' = IdleScript /\ mode' = "idle"
    BY <2>1, <2>3 DEF InTurn, IdleScript
  <2>4. CASE /\ script'.bundle.read = script.bundle.read
             /\ script'.bundle.started = script.bundle.started
    BY <2>1, <2>4 DEF InTurn, Fresh, InTime
  <2>5. QED
    BY <2>2, <2>3, <2>4
<1>3. CASE StartExecute \/ RunCall \/ NextBatch
  <2>1. /\ UNCHANGED <<script, queue, counts>>
        /\ mode' = "estimate" => mode = "estimate"
    BY <1>3 DEF StartExecute, Load, RunCall, NextBatch
  <2>2. QED
    BY <2>1 DEF InTurn, Fresh, InTime
<1>4. CASE FinishEstimate
  <2>1. PICK twin : twin = [script.bundle EXCEPT !.estimated = counts.executed]
    OBVIOUS
  <2>2. /\ queue = <<>> /\ Fresh(script.bundle)
        /\ queue' = queue \/ queue' = Append(queue, twin)
        /\ counts' = counts /\ mode' = "idle" /\ script'.pc = "idle"
    BY <1>4, <2>1 DEF FinishEstimate, Unload, InTurn, IdleScript
  <2>3. twin.read = script.bundle.read /\ twin.started = script.bundle.started
    BY <1>0, <2>1, Zenon DEF Bundles
  <2>4. Append(<<>>, twin) = <<twin>> /\ Head(<<twin>>) = twin /\ Tail(<<twin>>) = <<>>
    OBVIOUS
  <2>5. QED
    BY <2>2, <2>3, <2>4 DEF InTurn, Fresh, InTime
<1>5. CASE FinishExecute
  <2>1. queue # <<>> /\ queue' = Tail(queue) /\ mode' = "idle" /\ UNCHANGED script
    BY <1>5 DEF FinishExecute, Unload, IInv, TypeOK
  <2>2. QED
    BY <2>1 DEF InTurn
<1>6. ASSUME NEW b \in Brackets, NEW t \in Tokens, NEW n \in TradeSizes, Trade(b, t, n)
      PROVE  InTurn'
  <2>1. UNCHANGED <<script, queue, mode>> /\ counts' = [counts EXCEPT !.trades = @ + 1]
    BY <1>6, Zenon DEF Trade
  <2>2. counts'.executed = counts.executed
    BY <1>0, <2>1
  <2>3. QED
    BY <2>1, <2>2 DEF InTurn, Fresh, InTime
<1>7. CASE UNCHANGED fundsVars
  BY <1>7 DEF fundsVars, vars, InTurn, Fresh, InTime
<1>8. QED
  BY <1>1, <1>2, <1>3, <1>4, <1>5, <1>6, <1>7
     DEF ReturnNext, ProcedureScripts, RunsOn, Elsewhere, BatchEnds

(* So in the procedure every claim that forwards spares the wallets: the   *)
(* operator never has to ask whether a proposal is out of date.  Only      *)
(* purchases in the very batch keep a claim from being paid.               *)
THEOREM ProcedureSparesWallets ==
    ASSUME "transfer" \in Kinds, OneEntryPerPair
    PROVE  ReturnSpec
             => [][ Executed /\ Head(queue).kind = "claimTransfer"
                      => \A b \in Brackets, t \in Tokens :
                            \/ ledger'.wallet[b][t] >= ledger.wallet[b][t]
                            \/ ledger.exch[b][t].credited ]_vars
<1>1. IInv /\ CInv /\ InTurn /\ [Next]_vars
        => [ Executed /\ Head(queue).kind = "claimTransfer"
               => \A b \in Brackets, t \in Tokens :
                     \/ ledger'.wallet[b][t] >= ledger.wallet[b][t]
                     \/ ledger.exch[b][t].credited ]_vars
  <2>1. ASSUME IInv, InTurn, Executed
        PROVE  Head(queue).read /\ InTime(Head(queue))
    BY <2>1 DEF InTurn, IInv, TypeOK, Executed, Fresh
  <2>2. QED
    BY <2>1, StepClaims
<1>2. ReturnInit => Init
  BY DEF ReturnInit
<1>3. IInv /\ InTurn /\ [ReturnNext]_fundsVars => InTurn'
  BY StepInTurn
<1>4. [ReturnNext]_fundsVars => [Next]_vars
  BY ProcedureSteps
<1>5. IInv /\ CInv /\ Solvent(work) /\ [Next]_vars => CInv'
  BY StepCInv
<1>6. QED
  BY InitIInv, StepIInv, InitSolvent, StepSolvent, InitCInv, InitInTurn,
     <1>1, <1>2, <1>3, <1>4, <1>5, PTL DEF ReturnSpec
=============================================================================
