-------------------------------- MODULE Airdrop --------------------------------
(***************************************************************************)
(* airdrop.js: a file lists transfers of tokens from the master Safe.  The *)
(* script adds up per token in concurrent callbacks, compares the sums     *)
(* with the Safe's balances, and proposes one bundle with all transfers.   *)
(* Tokens are named by addresses as the file spells them: an address has   *)
(* several spellings (upper and lower case), and sums are per spelling.    *)
(* Funds move while the script runs and while its proposal waits.          *)
(***************************************************************************)
EXTENDS Integers, FiniteSetsExt, SequencesExt

CONSTANTS
    Tokens,
    Addresses,     \* addresses of tokens as files spell them
    TokenOf,       \* the token of each
    Receivers,
    Files,         \* files of transfers
    Funds,         \* what the master Safe has of each token at the start
    TooMany,       \* more transfers than this are not recommended
    MaxRuns,       \* bound on the invocations of the script
    MaxMoves,      \* bound on other movements of the Safe's funds
    Amounts        \* amounts of such movements

Master == "master"

Transfers == [address : Addresses, receiver : Receivers, amount : Nat]

ASSUME AirdropAssumption ==
    /\ TokenOf \in [Addresses -> Tokens]
    /\ Files \subseteq Seq(Transfers)
    /\ Funds \in [Tokens -> Nat]
    /\ {TooMany, MaxRuns, MaxMoves} \cup Amounts \subseteq Nat
    /\ Master \notin Receivers

VARIABLES
    balance,    \* balanceOf, per token and account
    script,     \* the invocation that runs
    queue,      \* proposals that wait for execution
    executed,   \* proposals executed, and whether they succeeded
    bounds      \* invocations and other movements so far

vars == <<balance, script, queue, executed, bounds>>

(* Also kept of every proposal and script, as history: the tokens of which *)
(* the Safe spent since the funds were estimated, or compared.             *)
Proposals == [transfers : Seq(Transfers), spent : SUBSET Tokens]

TypeOK ==
    /\ balance \in [Tokens -> [Receivers \cup {Master} -> Nat]]
    /\ script.pc \in {"idle", "many", "adding", "balances", "prompt", "failed", "short", "unfit"}
    /\ script.transfers \in Seq({transfer \in Transfers : transfer.amount > 0})
    /\ script.known \subseteq Addresses
    /\ script.open \subseteq DOMAIN script.transfers
    /\ script.pc = "adding" => script.open # {}
    /\ script.sums \in [Addresses -> Nat]
    /\ script.left \subseteq Addresses /\ script.spent \subseteq Tokens
    /\ queue \in Seq(Proposals)
    /\ executed \in Seq([proposal : Proposals, ok : BOOLEAN])
    /\ bounds \in [runs : 0..MaxRuns, moves : 0..MaxMoves]

Idle == [pc |-> "idle", transfers |-> <<>>, known |-> {}, open |-> {},
         sums |-> [a \in Addresses |-> 0], left |-> {}, spent |-> {}]

Init ==
    /\ balance = [t \in Tokens |-> [x \in Receivers \cup {Master} |->
                                       IF x = Master THEN Funds[t] ELSE 0]]
    /\ script = Idle /\ queue = <<>> /\ executed = <<>>
    /\ bounds = [runs |-> 0, moves |-> 0]
-----------------------------------------------------------------------------
Listed(transfers) == {transfers[i].address : i \in DOMAIN transfers}

ScriptOnly == UNCHANGED <<balance, queue, executed, bounds>>

(* A mutant: transfers of nothing are kept.                                *)
AllTransfers(file) == file

ValidTransfers(file) ==
    LET Keep(valid, transfer) == IF transfer.amount # 0 THEN Append(valid, transfer) ELSE valid
    IN  FoldLeft(Keep, <<>>, file)

(* The tokens of all addresses are looked up and all callbacks started.    *)
Adding(transfers) ==
    [Idle EXCEPT !.pc = IF transfers = <<>> THEN "prompt" ELSE "adding",
                 !.transfers = transfers, !.open = DOMAIN transfers]

Start(file) ==
    /\ script.pc \in {"idle", "failed", "short", "unfit"} /\ bounds.runs < MaxRuns
    /\ LET transfers == ValidTransfers(file)
       IN  script' = IF Len(transfers) > TooMany
                     THEN [Idle EXCEPT !.pc = "many", !.transfers = transfers]
                     ELSE Adding(transfers)
    /\ bounds' = [bounds EXCEPT !.runs = @ + 1]
    /\ UNCHANGED <<balance, queue, executed>>

(* The user proceeds, or does not: the callback that ends the script is    *)
(* called, but nothing returns, so that it may also go on.                 *)
Many ==
    /\ script.pc = "many"
    /\ script' \in {Adding(script.transfers), Idle}
    /\ ScriptOnly

TokenArrives(a) ==
    /\ script.pc = "adding" /\ a \in Listed(script.transfers) \ script.known
    /\ script' = [script EXCEPT !.known = @ \cup {a}]
    /\ ScriptOnly

TokenFails ==
    /\ script.pc = "adding" /\ Listed(script.transfers) \ script.known # {}
    /\ script' = [script EXCEPT !.pc = "failed"]
    /\ ScriptOnly

(* A mutant: the sum of one token is that of all.                          *)
AddToAll(sums, transfer) == [a \in Addresses |-> sums[a] + transfer.amount]

AddUp(sums, transfer) == [sums EXCEPT ![transfer.address] = @ + transfer.amount]

(* The callback of one transfer; the balances are compared after the last. *)
Accumulate(i) ==
    /\ script.pc = "adding" /\ i \in script.open
    /\ script.transfers[i].address \in script.known
    /\ LET added == [script EXCEPT !.sums = AddUp(@, script.transfers[i]), !.open = @ \ {i}]
       IN  script' = IF added.open # {} THEN added
                     ELSE [added EXCEPT !.pc = "balances", !.left = Listed(script.transfers)]
    /\ ScriptOnly

(* A mutant: only that there is something to transfer is checked.          *)
HasSome(a) == balance[TokenOf[a]][Master] > 0

IsSufficient(a) == balance[TokenOf[a]][Master] >= script.sums[a]

CheckBalance(a) ==
    /\ script.pc = "balances" /\ a \in script.left
    /\ script' = IF ~IsSufficient(a) THEN [script EXCEPT !.pc = "short"]
                 ELSE [script EXCEPT !.left = @ \ {a},
                                     !.pc = IF script.left = {a} THEN "prompt" ELSE @]
    /\ ScriptOnly

(* transfer of an ERC20 token.                                             *)
CanTransfer(state, transfer) == state[TokenOf[transfer.address]][Master] >= transfer.amount

Transfer(state, transfer) ==
    LET t == TokenOf[transfer.address]
    IN  [state EXCEPT ![t][Master] = @ - transfer.amount,
                      ![t][transfer.receiver] = @ + transfer.amount]

(* The calls of a bundle one after the other, until one fails.             *)
After(transfers) ==
    LET Step(state, transfer) ==
            IF state.ok /\ CanTransfer(state.balance, transfer)
            THEN [state EXCEPT !.balance = Transfer(@, transfer)]
            ELSE [state EXCEPT !.ok = FALSE]
    IN  FoldLeft(Step, [ok |-> TRUE, balance |-> balance], transfers)

TokensIn(transfers) == {TokenOf[a] : a \in Listed(transfers)}

(* The user confirms; the bundle is estimated, and proposed if it works.   *)
Send ==
    /\ script.pc = "prompt"
    /\ IF After(script.transfers).ok
       THEN /\ queue' = Append(queue, [transfers |-> script.transfers, spent |-> {}])
            /\ script' = Idle
       ELSE /\ script' = [script EXCEPT !.pc = "unfit"]
            /\ UNCHANGED queue
    /\ UNCHANGED <<balance, executed, bounds>>

(* The user does not confirm, or the server fails.                         *)
Abandon ==
    /\ script.pc = "prompt"
    /\ script' = Idle
    /\ ScriptOnly
-----------------------------------------------------------------------------
(* History: what was compared or estimated before does not count this.     *)
SpentBy(tokens) ==
    [script EXCEPT !.spent = IF script.pc \in {"balances", "prompt"} THEN @ \cup tokens ELSE @]

SpentSince(proposals, tokens) ==
    [i \in DOMAIN proposals |-> [proposals[i] EXCEPT !.spent = @ \cup tokens]]

(* A mutant: what succeeded before a failing call is kept.                 *)
KeepPartOf(after) == after.balance

Outcome(after) == IF after.ok THEN after.balance ELSE balance

(* The owners execute the next proposal; its nonce is used up either way.  *)
Execute ==
    /\ queue # <<>>
    /\ LET next   == Head(queue)
           after  == After(next.transfers)
           tokens == IF after.ok THEN TokensIn(next.transfers) ELSE {}
       IN  /\ balance' = Outcome(after)
           /\ executed' = Append(executed, [proposal |-> next, ok |-> after.ok])
           /\ script' = SpentBy(tokens)
           /\ queue' = SpentSince(Tail(queue), tokens)
    /\ UNCHANGED bounds

(* Other transactions of the Safe, and transfers to it.                    *)
Moves == bounds.moves < MaxMoves /\ bounds' = [bounds EXCEPT !.moves = @ + 1]

Spend(t, n) ==
    /\ Moves /\ balance[t][Master] >= n
    /\ balance' = [balance EXCEPT ![t][Master] = @ - n]
    /\ script' = SpentBy({t}) /\ queue' = SpentSince(queue, {t})
    /\ UNCHANGED executed

Receive(t, n) ==
    /\ Moves
    /\ balance' = [balance EXCEPT ![t][Master] = @ + n]
    /\ UNCHANGED <<script, queue, executed>>

Next ==
    \/ \E file \in Files : Start(file)
    \/ Many
    \/ \E a \in Addresses : TokenArrives(a) \/ CheckBalance(a)
    \/ TokenFails
    \/ \E i \in script.open : Accumulate(i)
    \/ Send \/ Abandon
    \/ Execute
    \/ \E t \in Tokens, n \in Amounts : Spend(t, n) \/ Receive(t, n)

Spec == Init /\ [][Next]_vars
-----------------------------------------------------------------------------
(***************************************************************************)
(* Properties.                                                             *)
(***************************************************************************)
SpeltTwice(transfers) ==
    \E a, b \in Listed(transfers) : a # b /\ TokenOf[a] = TokenOf[b]

(* What the comparison let pass can be paid: it is only refused by the     *)
(* estimate if the Safe spent of these tokens since, or if the sum of a    *)
(* token was split over two spellings; and what was proposed only fails    *)
(* when it is executed if the Safe spent of its tokens since the estimate, *)
(* for instance by an earlier airdrop that was pending                     *)
(* (scripts/utils/trading_strategy_helpers.js:635-652).                    *)
CheckedAirdropIsPaid ==
    /\ script.pc = "unfit" =>
          \/ TokensIn(script.transfers) \cap script.spent # {}
          \/ SpeltTwice(script.transfers)
    /\ \A i \in DOMAIN executed :
          executed[i].ok \/ TokensIn(executed[i].proposal.transfers)
                              \cap executed[i].proposal.spent # {}

(* A file is refused for want of funds only when its transfers would fail. *)
RefusalIsJustified ==
    [][script.pc # "short" /\ script'.pc = "short" => ~After(script.transfers).ok]_vars

AmountTo(transfers, t, r) ==
    SumFunctionOnSet([i \in DOMAIN transfers |->
                         IF TokenOf[transfers[i].address] = t /\ transfers[i].receiver = r
                         THEN transfers[i].amount ELSE 0], DOMAIN transfers)

(* Receivers have all or nothing of every airdrop that was executed        *)
(* (test/scripts/test_airdrop.js:170-198).                                 *)
PaidInFull ==
    \A t \in Tokens, r \in Receivers :
        balance[t][r] =
            SumFunctionOnSet([i \in DOMAIN executed |->
                                 IF executed[i].ok
                                 THEN AmountTo(executed[i].proposal.transfers, t, r) ELSE 0],
                             DOMAIN executed)
=============================================================================
