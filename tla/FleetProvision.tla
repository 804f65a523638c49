----------------------------- MODULE FleetProvision -----------------------------
(***************************************************************************)
(* Deploying fleets of bracket Safes and providing liquidity with them.    *)
(*                                                                         *)
(* One script knows the addresses of its fleet before the fleet exists:    *)
(* its only transaction deploys the fleet, places orders and moves funds.  *)
(* The others work on Safes that exist, because they deployed them or      *)
(* because the user named them.  A call of an address without a contract   *)
(* succeeds and does nothing: only the scripts' checks and the order of    *)
(* their calls keep funds from an address that nobody owns.                *)
(*                                                                         *)
(*   prov    per run of a script: its arguments and where it is            *)
(*   status  per transaction: not proposed, pending, executed              *)
(*   chain   the Safes, their orders, and the funds                        *)
(*   vm      the transaction that runs, on a copy of the chain             *)
(***************************************************************************)
EXTENDS Integers, FiniteSets, Sequences, Functions

CONSTANTS
    Masters,     \* master Safes
    Factory,     \* FleetFactory, the deployer of Safes at addresses not chosen
    NoOwner,     \* owner of an address without a contract
    Provisions,  \* runs of scripts
    Kinds,       \* the scripts in use
    Nonces,      \* nonces a fleet's salt is derived from
    Size,        \* brackets of a fleet
    Lists,       \* lists of addresses that users name
    Funds        \* initial funds of each master Safe

(* "single" and "complete" are the provision scripts, "reuse" is complete  *)
(* with --brackets, "orders" bracket_orders, "fund" transfer_approve_deposit.*)
AllKinds == {"single", "complete", "reuse", "orders", "fund"}

(* An address is known by what it is derived from: a salt, which is a      *)
(* master and a nonce, and an index; or the number of Safes that the       *)
(* factory had created.  Different inputs of the hash give different       *)
(* addresses.                                                              *)
Fresh(k) == <<Factory, k, Size>>

Addresses == (Masters \X Nonces \X (0..(Size-1)))
               \cup {Fresh(k) : k \in 0..(Cardinality(Provisions) * Size - 1)}

ASSUME ProvisionAssumption ==
    /\ IsFiniteSet(Masters) /\ Masters # {}
    /\ IsFiniteSet(Provisions) /\ Provisions # {}
    /\ IsFiniteSet(Nonces) /\ Nonces # {}
    /\ Factory \notin Masters /\ NoOwner \notin Masters
    /\ Kinds \subseteq AllKinds
    /\ Nonces \subseteq Nat
    /\ Size \in Nat \ {0}
    /\ Lists \subseteq Seq(Addresses)
    /\ \A list \in Lists : list # <<>> /\ IsInjective(list)
    /\ Funds \in Nat

VARIABLES prov, status, chain, vm

vars == <<prov, status, chain, vm>>

Chains == [owner   : [Addresses -> Masters \cup {NoOwner}],
           orders  : [Addresses -> SUBSET Provisions],
           wallet  : [Addresses -> Nat],
           exch    : [Addresses -> Nat],
           funds   : [Masters -> Nat],
           created : Nat]

Transactions == Provisions \X {1, 2}

Calls == [op : {"create", "orders", "transfer", "deposit"}, to : Addresses]

TypeOK ==
    /\ prov \in [Provisions -> [pc : {"idle", "check", "deploy", "send", "done"},
                                kind : AllKinds, master : Masters, nonce : Nonces,
                                brackets : Seq(Addresses), step : {1, 2}]]
    /\ status \in [Transactions -> {"none", "pending", "ok", "failed"}]
    /\ chain \in Chains
    /\ vm \in [mode : {"idle", "estimate", "execute"}, tx : Transactions,
               calls : Seq(Calls), work : Chains]

IdleVM(c) == [mode |-> "idle", tx |-> CHOOSE tx \in Transactions : TRUE,
              calls |-> <<>>, work |-> c]

Init ==
    /\ prov = [p \in Provisions |->
                 [pc |-> "idle", kind |-> "single", master |-> CHOOSE m \in Masters : TRUE,
                  nonce |-> CHOOSE n \in Nonces : TRUE, brackets |-> <<>>, step |-> 1]]
    /\ status = [tx \in Transactions |-> "none"]
    /\ chain = [owner   |-> [a \in Addresses |-> NoOwner],
                orders  |-> [a \in Addresses |-> {}],
                wallet  |-> [a \in Addresses |-> 0],
                exch    |-> [a \in Addresses |-> 0],
                funds   |-> [m \in Masters |-> Funds],
                created |-> 0]
    /\ vm = IdleVM(chain)
-----------------------------------------------------------------------------
(***************************************************************************)
(* The addresses of a fleet, as the contract and as the script has them.   *)
(***************************************************************************)
(* A mutant: fleets of all master Safes share their salts.                 *)
SharedNonce(m, n) == <<CHOOSE mm \in Masters : TRUE, n>>

UniqueNonce(m, n) == <<m, n>>

(* Where deployFleetWithNonce creates the Safe with index i.               *)
DeployedAt(salt, i) == <<salt[1], salt[2], i>>

(* What calcSafeAddresses computes for the bracket with index i.           *)
CalcSafeAddress(salt, i) == <<salt[1], salt[2], i>>

SaltOf(p) == UniqueNonce(prov[p].master, prov[p].nonce)
-----------------------------------------------------------------------------
(***************************************************************************)
(* The scripts.                                                            *)
(***************************************************************************)
Begin(p, kind, m, n, brackets, pc) ==
    /\ vm.mode = "idle" /\ prov[p].pc = "idle"
    /\ prov' = [prov EXCEPT ![p].pc = pc, ![p].kind = kind, ![p].master = m,
                            ![p].nonce = n, ![p].brackets = brackets]
    /\ UNCHANGED <<status, chain, vm>>

StartSingle(p, m, n) ==
    LET fleet == [i \in 1..Size |-> CalcSafeAddress(UniqueNonce(m, n), i - 1)]
    IN  Begin(p, "single", m, n, fleet, "send")

StartComplete(p, m) == Begin(p, "complete", m, prov[p].nonce, <<>>, "deploy")

(* bracket_orders does not look at the brackets the user names.            *)
StartOnBrackets(p, kind, m, list) ==
    /\ kind \in {"reuse", "orders", "fund"}
    /\ Begin(p, kind, m, prov[p].nonce, list, IF kind = "orders" THEN "send" ELSE "check")

(* deployFleet: the factory creates a fleet, whoever sends the transaction.*)
DeployFleet(p) ==
    /\ vm.mode = "idle" /\ prov[p].pc = "deploy"
    /\ LET fleet == [i \in 1..Size |-> Fresh(chain.created + i - 1)]
       IN  /\ chain' = [chain EXCEPT
                          !.owner = [a \in Addresses |-> IF \E i \in 1..Size : fleet[i] = a
                                                         THEN prov[p].master ELSE @[a]],
                          !.created = @ + Size]
           /\ prov' = [prov EXCEPT ![p].pc = "send", ![p].brackets = fleet]
           /\ vm' = IdleVM(chain')
    /\ UNCHANGED status

(* A mutant: the owners of the brackets are not checked.                   *)
AnyOwner(p) == TRUE

(* verifyBracketsWellFormed, assertIsOnlyFleetOwner.                       *)
OnlyFleetOwner(p) ==
    \A i \in DOMAIN prov[p].brackets : chain.owner[prov[p].brackets[i]] = prov[p].master

(* Existing orders are reported too, and then the user gives up or not.    *)
Check(p) ==
    /\ vm.mode = "idle" /\ prov[p].pc = "check"
    /\ OnlyFleetOwner(p)
    /\ prov' = [prov EXCEPT ![p].pc = "send"]
    /\ UNCHANGED <<status, chain, vm>>

(* A check fails, the user declines, or anything else ends the script.     *)
GiveUp(p) ==
    /\ vm.mode = "idle" /\ prov[p].pc \in {"check", "deploy", "send"}
    /\ prov' = [prov EXCEPT ![p].pc = "done"]
    /\ UNCHANGED <<status, chain, vm>>
-----------------------------------------------------------------------------
(***************************************************************************)
(* Transactions: the calls of each, and what a call does.                  *)
(***************************************************************************)
Creations(p) == [i \in 1..Size |-> [op |-> "create", to |-> DeployedAt(SaltOf(p), i - 1)]]

PlaceOrders(p) ==
    [i \in DOMAIN prov[p].brackets |-> [op |-> "orders", to |-> prov[p].brackets[i]]]

(* A mutant: every bracket deposits before it has received the funds.      *)
DepositFirst(p) ==
    [k \in 1..(2 * Len(prov[p].brackets)) |->
        [op |-> IF k % 2 = 1 THEN "deposit" ELSE "transfer",
         to |-> prov[p].brackets[(k + 1) \div 2]]]

(* A transfer to each bracket, followed by the bracket's deposit.          *)
MoveFunds(p) ==
    [k \in 1..(2 * Len(prov[p].brackets)) |->
        [op |-> IF k % 2 = 1 THEN "transfer" ELSE "deposit",
         to |-> prov[p].brackets[(k + 1) \div 2]]]

(* A mutant: the fleet is deployed last.                                   *)
FleetLast(tx) ==
    LET p == tx[1] IN
    CASE prov[p].kind = "single" -> PlaceOrders(p) \o MoveFunds(p) \o Creations(p)
      [] prov[p].kind = "orders" -> PlaceOrders(p)
      [] prov[p].kind = "fund"   -> MoveFunds(p)
      [] OTHER -> IF tx[2] = 1 THEN PlaceOrders(p) ELSE MoveFunds(p)

CallsOf(tx) ==
    LET p == tx[1] IN
    CASE prov[p].kind = "single" -> Creations(p) \o PlaceOrders(p) \o MoveFunds(p)
      [] prov[p].kind = "orders" -> PlaceOrders(p)
      [] prov[p].kind = "fund"   -> MoveFunds(p)
      [] OTHER -> IF tx[2] = 1 THEN PlaceOrders(p) ELSE MoveFunds(p)

(* A Safe accepts calls of its owner only; without a contract there is     *)
(* nothing that could refuse a call.                                       *)
CallSucceeds(call, m, c) ==
    CASE call.op = "create"   -> c.owner[call.to] = NoOwner
      [] call.op = "transfer" -> c.funds[m] > 0
      [] OTHER                -> c.owner[call.to] \in {m, NoOwner}

(* Every deposit is of one unit.                                           *)
CallEffect(call, p, c) ==
    LET a == call.to
        m == prov[p].master
    IN  CASE call.op = "create"   -> [c EXCEPT !.owner[a] = m]
          [] call.op = "transfer" -> [c EXCEPT !.funds[m] = @ - 1, !.wallet[a] = @ + 1]
          [] call.op = "orders" /\ c.owner[a] # NoOwner ->
                [c EXCEPT !.orders[a] = @ \cup {p}]
          [] call.op = "deposit" /\ c.owner[a] # NoOwner ->
                [c EXCEPT !.wallet[a] = @ - 1, !.exch[a] = @ + 1]
          [] OTHER -> c

Load(mode, tx) ==
    /\ vm.mode = "idle"
    /\ vm' = [mode |-> mode, tx |-> tx, calls |-> CallsOf(tx), work |-> chain]
    /\ UNCHANGED <<prov, status, chain>>

StartEstimate(p) == prov[p].pc = "send" /\ Load("estimate", <<p, prov[p].step>>)

(* The owners execute pending transactions in the order of nonces, which   *)
(* SafeProposals is about: here it may be any order.                       *)
StartExecute(tx) == status[tx] = "pending" /\ Load("execute", tx)

Master == prov[vm.tx[1]].master

RunCall ==
    /\ vm.mode # "idle" /\ vm.calls # <<>>
    /\ CallSucceeds(Head(vm.calls), Master, vm.work)
    /\ vm' = [vm EXCEPT !.calls = Tail(@), !.work = CallEffect(Head(vm.calls), vm.tx[1], @)]
    /\ UNCHANGED <<prov, status, chain>>

(* A script that provides liquidity in two transactions sends the second   *)
(* one; all others are done.                                               *)
Sent(p) ==
    IF prov[p].kind \in {"complete", "reuse"} /\ prov[p].step = 1
    THEN [prov[p] EXCEPT !.step = 2] ELSE [prov[p] EXCEPT !.pc = "done"]

(* All calls succeeded.                                                    *)
Finish ==
    /\ vm.mode # "idle" /\ vm.calls = <<>>
    /\ IF vm.mode = "estimate"
       THEN /\ status' = [status EXCEPT ![vm.tx] = "pending"]
            /\ prov' = [prov EXCEPT ![vm.tx[1]] = Sent(vm.tx[1])]
            /\ UNCHANGED chain
       ELSE /\ status' = [status EXCEPT ![vm.tx] = "ok"]
            /\ chain' = vm.work
            /\ UNCHANGED prov
    /\ vm' = IdleVM(chain')

(* A call failed, and with it the transaction or its estimate.             *)
Fail ==
    /\ vm.mode # "idle" /\ vm.calls # <<>>
    /\ ~CallSucceeds(Head(vm.calls), Master, vm.work)
    /\ IF vm.mode = "estimate"
       THEN prov' = [prov EXCEPT ![vm.tx[1]].pc = "done"] /\ UNCHANGED status
       ELSE status' = [status EXCEPT ![vm.tx] = "failed"] /\ UNCHANGED prov
    /\ UNCHANGED chain
    /\ vm' = IdleVM(chain)
-----------------------------------------------------------------------------
Next ==
    \/ \E p \in Provisions, kind \in Kinds, m \in Masters :
         \/ kind = "single" /\ \E n \in Nonces : StartSingle(p, m, n)
         \/ kind = "complete" /\ StartComplete(p, m)
         \/ \E list \in Lists : StartOnBrackets(p, kind, m, list)
    \/ \E p \in Provisions : DeployFleet(p) \/ Check(p) \/ GiveUp(p) \/ StartEstimate(p)
    \/ \E tx \in Transactions : StartExecute(tx)
    \/ RunCall
    \/ Finish
    \/ Fail

Spec == Init /\ [][Next]_vars
-----------------------------------------------------------------------------
(***************************************************************************)
(* Properties.                                                             *)
(***************************************************************************)
(* No funds are lost: what left a master Safe is on the exchange, in the   *)
(* accounts of Safes that this master owns.  Addresses computed before the *)
(* fleet exists, addresses the user mistyped, estimates that are outdated  *)
(* and provisions that compete do not change this.                         *)
FundsStayWithMaster ==
    \A m \in Masters :
        chain.funds[m] + SumFunction([a \in Addresses |->
                            IF chain.owner[a] = m THEN chain.exch[a] ELSE 0]) = Funds

(* A provision in a single transaction is executed as a whole: all brackets*)
(* exist, have their orders and hold their deposits (scripts/utils/         *)
(* trading_strategy_helpers.js:968-969, "executed atomically").            *)
ProvisionIsWhole ==
    \A p \in Provisions : prov[p].kind = "single" /\ status[<<p, 1>>] = "ok" =>
        \A i \in DOMAIN prov[p].brackets :
            LET a == prov[p].brackets[i]
            IN  chain.owner[a] = prov[p].master /\ p \in chain.orders[a] /\ chain.exch[a] > 0

(* A provision in a single transaction only fails for want of funds or     *)
(* because the same master Safe deployed a fleet with the same nonce: the  *)
(* provisions of another master Safe are never in its way (scripts/utils/  *)
(* trading_strategy_helpers.js:303-307).                                   *)
FailsByOwnDoingOnly ==
    \A p \in Provisions : prov[p].kind = "single" /\ status[<<p, 1>>] = "failed" =>
        \/ chain.funds[prov[p].master] < Size
        \/ \E q \in Provisions \ {p} :
              /\ prov[q].kind = "single" /\ status[<<q, 1>>] = "ok"
              /\ prov[q].master = prov[p].master /\ prov[q].nonce = prov[p].nonce
=============================================================================
