-------------------------- MODULE ProposalVerification --------------------------
(***************************************************************************)
(* Before an owner signs a proposal, another repeats the command that made *)
(* it with --verify: the script builds the bundle once more, estimates its *)
(* gas once more, and asks the server whether it lists a transaction with  *)
(* the hash of all this and a nonce.  That only works if building the same *)
(* request twice gives the same bundle: amounts read by concurrent calls   *)
(* are sorted, and salts come from the nonce.                              *)
(*                                                                         *)
(* This module adds to SafeProposals what transactions contain and one     *)
(* owner who verifies.  All runs of a kind repeat one command line.        *)
(***************************************************************************)
EXTENDS SafeProposals

CONSTANTS
    PairList,   \* the pairs (bracket, token) of a withdrawal, in the order of addresses
    Worlds,     \* states of the chain, as far as amounts and gas depend on them
    MaxChanges  \* bound on the changes of the chain that no proposal makes

ASSUME VerificationAssumption ==
    /\ PairList \in Seq(ToSet(PairList)) /\ IsInjective(PairList)
    /\ Worlds # {}
    /\ {MaxChanges} \cup Worlds \subseteq Nat

VARIABLES
    world,      \* the state of the chain that amounts read and gas estimated stand for
    changes,    \* how often that changed
    built,      \* per run: the pairs of its bundle with amounts, and the moment it was built
    content,    \* of every listed transaction: its calls and gas
    verifier    \* the run with --verify

extra  == <<world, changes, built, content, verifier>>
allVars == <<vars, extra>>

(* The chain is the same at two moments that are equal.                    *)
Moment == changes + Len(log)

Nothing == [pairs |-> <<>>, moment |-> 0]

Idle == [pc |-> "idle", of |-> CHOOSE r \in Runs : TRUE, given |-> FALSE, nonce |-> NoNonce,
         step |-> 1, gas |-> NoNonce, pairs |-> <<>>, seen |-> {}, moment |-> 0, found |-> <<>>]

VerificationTypeOK ==
    /\ world \in Worlds /\ changes \in 0..MaxChanges
    /\ DOMAIN built = Runs /\ DOMAIN content = listed
    /\ verifier.pc \in {"idle", "nonce", "estimate", "lookup", "done"}
    /\ verifier.nonce \in Nat \cup {NoNonce} /\ verifier.step \in {1, 2}
    /\ verifier.found \in Seq(BOOLEAN)
    /\ verifier.pc = "done" => Len(verifier.found) = verifier.step

VInit ==
    /\ Init
    /\ world = Min(Worlds) /\ changes = 0
    /\ built = [r \in Runs |-> Nothing]
    /\ content = [tx \in {} |-> NoNonce]
    /\ verifier = Idle
-----------------------------------------------------------------------------
Place(pair) == CHOOSE i \in DOMAIN PairList : PairList[i] = pair

(* A mutant: the amounts stay in the order in which they arrive.           *)
AsTheyArrive(arrived) == arrived

(* Sorted by the pairs, none of which arrives twice.                       *)
Sorted(arrived) ==
    CHOOSE sorted \in [DOMAIN arrived -> ToSet(arrived)] :
        /\ ToSet(sorted) = ToSet(arrived)
        /\ \A i, j \in DOMAIN sorted : i < j => Place(sorted[i].pair) < Place(sorted[j].pair)

(* Amounts are read for a withdrawal, and arrive in any order.             *)
Read(kind) ==
    IF kind # "process" THEN {<<>>}
    ELSE {Sorted([i \in DOMAIN PairList |-> [pair |-> arrival[i], amount |-> world]]) :
             arrival \in {f \in [DOMAIN PairList -> ToSet(PairList)] : IsInjective(f)}}

Begin(r, kind, onchain, arg) ==
    /\ Start(r, kind, onchain, arg)
    /\ \E pairs \in Read(kind) : built' = [built EXCEPT ![r] = [pairs |-> pairs, moment |-> Moment]]
    /\ UNCHANGED <<world, changes, content, verifier>>

(* The calls that a run's command line stands for.                         *)
Calls(r, step, salt, pairs) ==
    [kind |-> run[r].kind, step |-> step, pairs |-> pairs,
     salt |-> IF run[r].kind = "single" THEN salt ELSE NoNonce]

CallsToSend(r) == Calls(r, run[r].step, run[r].salt, built[r].pairs)

(* A transaction is proposed, or executed, with the gas estimated now.     *)
Submit(r) ==
    /\ Propose(r) \/ ExecuteOnchain(r)
    /\ content' = [tx \in listed' |-> IF tx = Current(r)
                                      THEN [calls |-> CallsToSend(r), gas |-> world]
                                      ELSE content[tx]]
    /\ UNCHANGED <<world, changes, built, verifier>>

(* Trades, other transfers and blocks change what is read and estimated.   *)
ChainChanges ==
    /\ changes < MaxChanges
    /\ \E w \in Worlds \ {world} : world' = w
    /\ changes' = changes + 1
    /\ UNCHANGED <<vars, built, content, verifier>>
-----------------------------------------------------------------------------
Of == verifier.of

Proposal(r, step) == {tx \in listed : tx.run = r /\ tx.step = step /\ ~tx.onchain}

(* The verifier repeats a command with --verify, and maybe with the nonce  *)
(* that the first run printed.  Some scripts insist on it.                 *)
StartVerify(r, given) ==
    /\ verifier.pc = "idle" /\ At(r, "done") /\ Proposal(r, 1) # {}
    /\ run[r].kind \in {"complete", "single"} => given
    /\ \E pairs \in Read(run[r].kind), tx \in Proposal(r, 1) :
          verifier' = [Idle EXCEPT !.pc = IF given THEN "estimate" ELSE "nonce",
                                   !.of = r, !.given = given, !.pairs = pairs, !.seen = IF given THEN {} ELSE listed,
                                   !.nonce = IF given THEN tx.nonce ELSE NoNonce]
    /\ UNCHANGED <<vars, world, changes, built, content>>

(* A mutant: the nonce the next proposal would get.                        *)
NextNonce == FirstAvailableNonce

(* Without a nonce, the last transaction is meant.                         *)
LastNonce == FirstAvailableNonce - 1

TakeLastNonce ==
    /\ verifier.pc = "nonce"
    /\ verifier' = [verifier EXCEPT !.pc = "estimate", !.nonce = LastNonce]
    /\ UNCHANGED <<vars, world, changes, built, content>>

(* estimateGas fails if the calls do.                                      *)
Estimate ==
    /\ verifier.pc = "estimate"
    /\ run[Of].kind = "single" => verifier.nonce \notin Deployed
    /\ verifier' = [verifier EXCEPT !.pc = "lookup", !.gas = world]
    /\ UNCHANGED <<vars, world, changes, built, content>>

(* A mutant: orders and funds are looked up under the same nonce.          *)
SameNonce == verifier.nonce

NonceOfNext == verifier.nonce + 1

Matches(tx) ==
    /\ tx.nonce = verifier.nonce
    /\ content[tx] = [calls |-> Calls(Of, verifier.step, verifier.nonce, verifier.pairs),
                      gas   |-> verifier.gas]

(* A mutant: the funds of complete_liquidity_provision are looked up again *)
(* and again.                                                              *)
LookupWithoutEnd ==
    /\ verifier.pc = "lookup"
    /\ verifier' = [verifier EXCEPT !.found = Append(@, \E tx \in listed : Matches(tx)),
                                    !.pc = "estimate", !.step = @ + 1]
    /\ UNCHANGED <<vars, world, changes, built, content>>

(* The server is asked for the hash; of complete_liquidity_provision, the  *)
(* orders are looked up first and then the funds.                          *)
Lookup ==
    /\ verifier.pc = "lookup"
    /\ LET found == [verifier EXCEPT !.found = Append(@, \E tx \in listed : Matches(tx)),
                                     !.moment = Moment]
       IN  verifier' = IF run[Of].kind = "complete" /\ verifier.step = 1
                       THEN [found EXCEPT !.pc = "estimate", !.step = 2, !.nonce = NonceOfNext]
                       ELSE [found EXCEPT !.pc = "done"]
    /\ UNCHANGED <<vars, world, changes, built, content>>

VNext ==
    \/ \E r \in Runs, kind \in Kinds, onchain \in Onchain, arg \in Nonces \cup {NoNonce} :
          Begin(r, kind, onchain, arg)
    \/ \E r \in Runs : Submit(r)
    \/ \E r \in Runs : (Sanitize(r) \/ PickNonce(r) \/ GiveUp(r)) /\ UNCHANGED extra
    \/ \E tx \in listed : OwnersExecute(tx) /\ UNCHANGED extra
    \/ ChainChanges
    \/ \E r \in Runs, given \in BOOLEAN : StartVerify(r, given)
    \/ TakeLastNonce \/ Estimate \/ Lookup

VSpec == VInit /\ [][VNext]_allVars

(* As in SafeProposals, with owners who keep executing.                    *)
FairVSpec == VSpec /\ DiligentOwners
-----------------------------------------------------------------------------
(***************************************************************************)
(* Properties.                                                             *)
(***************************************************************************)
(* The verifier looked for this transaction: it has the nonce that was     *)
(* printed, or it was and still is the last one of the server.             *)
Meant(tx) ==
    \/ verifier.given
    \/ listed = verifier.seen /\ \A other \in listed : other.nonce <= tx.nonce

(* A fleet is deployed with a salt that is not always the nonce.           *)
SaltIsNonce(tx) == run[tx.run].kind = "single" => run[tx.run].salt = tx.nonce

(* As long as nothing changed on the chain, whoever repeats the command    *)
(* with --verify and the printed nonce is told that the proposal is the    *)
(* one in the interface, and without a nonce if it is the last one there   *)
(* (scripts/utils/gnosis_safe_server_interactions.js:76-106, :184).        *)
UnchangedProposalMatches ==
    verifier.pc = "done" /\ verifier.moment = built[Of].moment =>
        \A step \in DOMAIN verifier.found : \A tx \in Proposal(Of, step) :
            Meant(tx) /\ SaltIsNonce(tx) => verifier.found[step]
=============================================================================
