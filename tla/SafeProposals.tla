----------------------------- MODULE SafeProposals -----------------------------
(***************************************************************************)
(* How the scripts get their transactions executed by the master Safe.     *)
(*                                                                         *)
(* A script proposes a transaction to the Safe transaction server with the *)
(* nonce it wants it to have, and the owners later execute the proposals   *)
(* from the Safe's interface; with --executeOnchain it executes the        *)
(* transaction itself.  The Safe executes one transaction per nonce, in    *)
(* the order of nonces.  Scripts are separate processes: what one reads    *)
(* from the server or the chain may be stale when it acts on it.           *)
(*                                                                         *)
(* Scripts by what they do about nonces:                                   *)
(*   "process"   withdrawals and transfers to the master Safe, which call  *)
(*               processTransaction                                        *)
(*   "send"      deposits, orders, airdrops, wrapping of ether, which call *)
(*               signAndSend with the --nonce argument                     *)
(*   "complete"  complete_liquidity_provision: orders, then funds          *)
(*   "single"    single_transaction_liquidity_provision: deploys a fleet   *)
(*               whose addresses derive from a nonce, and all the rest     *)
(***************************************************************************)
EXTENDS Integers, FiniteSets, FiniteSetsExt, SequencesExt

CONSTANTS
    Runs,       \* the invocations of scripts
    Kinds,      \* the scripts in use
    Nonces,     \* values the user may give as --nonce
    Onchain,    \* whether --executeOnchain is in use (one signature suffices)
    Exclusive   \* the user runs one script after the other

NoNonce == -1

AllKinds == {"process", "send", "complete", "single"}

ASSUME ProposalsAssumption ==
    /\ IsFiniteSet(Runs)
    /\ Kinds \subseteq AllKinds
    /\ Nonces \subseteq Nat
    /\ Onchain \subseteq BOOLEAN
    /\ Exclusive \in BOOLEAN

(* A transaction is named by the run and the step of the run it comes from.*)
Transactions == [run : Runs, step : {1, 2}, nonce : Nat, onchain : BOOLEAN]

VARIABLES
    run,         \* per invocation: its arguments, where it is, what it read
    listed,      \* transactions the Safe server lists, proposed or executed
    chainNonce,  \* nonce of the Safe: transactions it executed so far
    log          \* what it executed, and whether the transaction succeeded

vars == <<run, listed, chainNonce, log>>

TypeOK ==
    /\ run \in [Runs -> [pc : {"idle", "sanitize", "nonce", "send", "done"},
                         kind : AllKinds, onchain : BOOLEAN, arg : Nat \cup {NoNonce},
                         nonce : Nat \cup {NoNonce}, salt : Nat \cup {NoNonce},
                         step : {1, 2}, seen : SUBSET listed]]
    /\ listed \in SUBSET Transactions
    /\ chainNonce \in Nat
    /\ log \in Seq([tx : listed, ok : BOOLEAN])

Init ==
    /\ run = [r \in Runs |-> [pc |-> "idle", kind |-> "process", onchain |-> FALSE,
                              arg |-> NoNonce, nonce |-> NoNonce, salt |-> NoNonce,
                              step |-> 1, seen |-> {}]]
    /\ listed = {} /\ chainNonce = 0 /\ log = <<>>
-----------------------------------------------------------------------------
(* A mutant: the nonce of the chain, which pending proposals do not count. *)
ChainNonceOnly == chainNonce

(* The Safe server lists what it was sent and what the Safe executed.      *)
FirstAvailableNonce ==
    IF listed = {} THEN 0 ELSE 1 + Max({tx.nonce : tx \in listed})

Executed(tx) == \E i \in DOMAIN log : log[i].tx = tx

(* The fleets that exist, by the salt their addresses derive from.         *)
Deployed ==
    {run[log[i].tx.run].salt : i \in {j \in DOMAIN log :
                                        log[j].ok /\ run[log[j].tx.run].kind = "single"}}

(* A fleet cannot be deployed twice at the same addresses; any other call  *)
(* may succeed or fail.                                                    *)
MaySucceed(r) == run[r].kind = "single" => run[r].salt \notin Deployed

At(r, pc) == run[r].pc = pc

Running == {r \in Runs : run[r].pc \notin {"idle", "done"}}
-----------------------------------------------------------------------------
(* The scripts whose amounts or addresses depend on the nonce ask for it   *)
(* first, in sanitizeArguments.  A user gives no nonce with --executeOnchain*)
(* except to the single transaction script, which does not object.         *)
Start(r, kind, onchain, arg) ==
    /\ At(r, "idle")
    /\ Exclusive => Running = {}
    /\ kind = "send" => ~onchain
    /\ (onchain /\ kind # "single") => arg = NoNonce
    /\ run' = [run EXCEPT ![r].pc      = IF kind \in {"complete", "single"} THEN "sanitize"
                                         ELSE IF kind = "send" /\ arg # NoNonce THEN "send"
                                         ELSE "nonce",
                          ![r].kind    = kind,
                          ![r].onchain = onchain,
                          ![r].arg     = arg,
                          ![r].nonce   = IF kind = "send" THEN arg ELSE NoNonce,
                          ![r].seen    = listed]
    /\ UNCHANGED <<listed, chainNonce, log>>

(* A mutant: the salt of a fleet is the nonce of the chain.                *)
SanitizeWithChainNonce(r) ==
    /\ At(r, "sanitize")
    /\ LET n == IF run[r].arg # NoNonce THEN run[r].arg ELSE chainNonce
       IN  IF run[r].kind = "complete"
           THEN run' = [run EXCEPT ![r].pc = "send", ![r].nonce = n]
           ELSE run' = [run EXCEPT ![r].pc = "nonce", ![r].salt = n]
    /\ UNCHANGED <<listed, chainNonce, log>>

(* masterSafeNonce: both transactions of "complete" are sent with it, the  *)
(* fleet of "single" is deployed with it as salt.                          *)
Sanitize(r) ==
    /\ At(r, "sanitize")
    /\ LET n == IF run[r].arg # NoNonce THEN run[r].arg ELSE FirstAvailableNonce
       IN  IF run[r].kind = "complete"
           THEN run' = [run EXCEPT ![r].pc = "send", ![r].nonce = n]
           ELSE run' = [run EXCEPT ![r].pc = "nonce", ![r].salt = n]
    /\ UNCHANGED <<listed, chainNonce, log>>

(* signAndSend or signAndExecute without a nonce: the next one of the      *)
(* server, or of the chain.                                                *)
PickNonce(r) ==
    /\ At(r, "nonce")
    /\ run' = [run EXCEPT ![r].pc    = "send",
                          ![r].nonce = IF run[r].onchain THEN chainNonce ELSE FirstAvailableNonce]
    /\ UNCHANGED <<listed, chainNonce, log>>

(* A mutant: the funds get the nonce before that of the orders.            *)
FundsFirst(r) == run[r].nonce + 2 - run[r].step

(* The funds of "complete" get the nonce after its orders.                 *)
StepNonce(r) == run[r].nonce + run[r].step - 1

Current(r) ==
    [run |-> r, step |-> run[r].step, nonce |-> StepNonce(r), onchain |-> run[r].onchain]

(* A mutant: the funds are sent over and over.                             *)
SentAgain(r) ==
    IF run[r].kind = "complete" THEN [run[r] EXCEPT !.step = @ + 1]
                                ELSE [run[r] EXCEPT !.pc = "done"]

(* What the script does after it sent a transaction.                       *)
Sent(r) ==
    IF run[r].kind = "complete" /\ run[r].step = 1 THEN [run[r] EXCEPT !.step = 2]
                                                   ELSE [run[r] EXCEPT !.pc = "done"]

(* signAndSend: the gas estimate passes and the server takes the proposal. *)
Propose(r) ==
    /\ At(r, "send") /\ ~run[r].onchain
    /\ MaySucceed(r)
    /\ listed' = listed \cup {Current(r)}
    /\ run' = [run EXCEPT ![r] = Sent(r)]
    /\ UNCHANGED <<chainNonce, log>>

(* The Safe executes a transaction, whether or not its calls succeed.      *)
Perform(tx, ok) ==
    /\ tx.nonce = chainNonce
    /\ ok => MaySucceed(tx.run)
    /\ log' = Append(log, [tx |-> tx, ok |-> ok])
    /\ chainNonce' = chainNonce + 1

(* signAndExecute: a signature for another nonce than the current one is   *)
(* refused; a transaction whose calls fail is no error for the script.     *)
ExecuteOnchain(r) ==
    /\ At(r, "send") /\ run[r].onchain
    /\ MaySucceed(r)
    /\ \E ok \in BOOLEAN : Perform(Current(r), ok)
    /\ listed' = listed \cup {Current(r)}
    /\ run' = [run EXCEPT ![r] = Sent(r)]

(* A mutant: an error while the orders are sent does not end the script.   *)
GiveUpOneStep(r) ==
    /\ r \in Running
    /\ run' = [run EXCEPT ![r] = Sent(r)]
    /\ UNCHANGED <<listed, chainNonce, log>>

(* Any error ends the script: a check of the arguments, the gas estimate,  *)
(* the server, a refused signature, or the user who does not confirm.      *)
GiveUp(r) ==
    /\ r \in Running
    /\ run' = [run EXCEPT ![r].pc = "done"]
    /\ UNCHANGED <<listed, chainNonce, log>>

(* The owners execute a proposal with the Safe's current nonce.            *)
OwnersExecute(tx) ==
    /\ tx \in listed /\ ~tx.onchain
    /\ \E ok \in BOOLEAN : Perform(tx, ok)
    /\ UNCHANGED <<run, listed>>
-----------------------------------------------------------------------------
Next ==
    \/ \E r \in Runs, kind \in Kinds, onchain \in Onchain, arg \in Nonces \cup {NoNonce} :
          Start(r, kind, onchain, arg)
    \/ \E r \in Runs : Sanitize(r) \/ PickNonce(r) \/ Propose(r) \/ ExecuteOnchain(r) \/ GiveUp(r)
    \/ \E tx \in listed : OwnersExecute(tx)

Spec == Init /\ [][Next]_vars

(* Owners who keep executing what comes next in the Safe's interface.      *)
DiligentOwners == WF_vars(\E tx \in listed : OwnersExecute(tx))

FairSpec == Spec /\ DiligentOwners
-----------------------------------------------------------------------------
(***************************************************************************)
(* Properties.                                                             *)
(***************************************************************************)
(* The run chose its nonce by what the server listed.                      *)
NonceChosen(tx) ==
    ~tx.onchain /\ (run[tx.run].arg = NoNonce \/ run[tx.run].kind \in {"process", "single"})

(* p was already listed when the run that sent q started.                  *)
Before(p, q) == p \in run[q.run].seen

(* Two runs can only compete for a nonce if neither saw the other's        *)
(* proposal when it started: a pending transaction is not overwritten by a *)
(* later one (scripts/utils/gnosis_safe_server_interactions.js:108-118).   *)
PendingIsNotOverwritten ==
    \A p, q \in listed : p # q /\ p.nonce = q.nonce /\ NonceChosen(p) /\ NonceChosen(q)
                            => ~Before(p, q) /\ ~Before(q, p)

(* The transaction with the funds of complete_liquidity_provision is only  *)
(* executed once the one with the orders was, unless a transaction of some *)
(* other run took the nonce of the orders: one with a given nonce, one     *)
(* executed on chain, or one that raced with this run.                     *)
FundsFollowOrders ==
    \A i \in DOMAIN log :
        LET tx == log[i].tx IN
        (run[tx.run].kind = "complete" /\ tx.step = 2) =>
            \E j \in 1..(i-1) :
                /\ log[j].tx.nonce = tx.nonce - 1
                /\ \/ log[j].tx.run = tx.run /\ log[j].tx.step = 1
                   \/ log[j].tx.run # tx.run
                        /\ \/ ~NonceChosen(log[j].tx) \/ run[tx.run].arg # NoNonce
                           \/ ~Before(log[j].tx, tx)

(* A fleet gets a salt of its own (uniqueNonce of                          *)
(* scripts/utils/trading_strategy_helpers.js:293-312): one that differs    *)
(* from those of the fleets listed when its script started.  The salt is   *)
(* read before the nonce, so this asks that neither script was given a     *)
(* nonce and that the earlier fleet was proposed: executed on chain, it    *)
(* has a salt above its nonce while proposals are pending.                 *)
SaltIsUnique ==
    \A p, q \in listed :
        /\ run[p.run].kind = "single" /\ run[p.run].arg = NoNonce /\ ~p.onchain
        /\ run[q.run].kind = "single" /\ run[q.run].arg = NoNonce
        /\ Before(p, q)
        => run[p.run].salt # run[q.run].salt

(* What the comment in uniqueNonce says of all fleets of a master Safe: the *)
(* number is "unique for each deployment" (same file, lines 296-298), so a *)
(* script does not take the salt of a fleet that was there before it.      *)
EachFleetHasItsSalt ==
    \A i \in DOMAIN log, r \in Runs :
        /\ log[i].ok /\ log[i].tx \in run[r].seen
        /\ run[log[i].tx.run].kind = "single" /\ run[r].kind = "single"
        => run[r].salt # run[log[i].tx.run].salt

(* With owners who keep executing, every proposal's turn comes once no     *)
(* more are made: there is no nonce before it that nothing was proposed    *)
(* for, whatever fails while a script sends its transactions.              *)
EveryTurnComes == <>[](\A tx \in listed : chainNonce > tx.nonce)

(* Without given nonces, execution on chain and scripts that overlap, the  *)
(* proposals are a queue.                                                  *)
Name(tx) == [run |-> tx.run, step |-> tx.step]

Pending ==
    [i \in 1..(FirstAvailableNonce - chainNonce) |->
        CHOOSE tx \in listed : tx.nonce = chainNonce + i - 1]

PendingNames  == [i \in DOMAIN Pending |-> Name(Pending[i])]
ExecutedNames == [i \in DOMAIN log |-> Name(log[i].tx)]

Queue == INSTANCE ProposalQueue WITH
            Tx       <- [run : Runs, step : {1, 2}],
            queue    <- PendingNames,
            executed <- ExecutedNames

ImplementsQueue == Queue!Spec
=============================================================================
