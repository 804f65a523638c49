--------------------------- MODULE DeployedBrackets ---------------------------
(***************************************************************************)
(* get_deployed_brackets.js: a file with all brackets of a master Safe and *)
(* the pair of tokens each trades.  The brackets come from the events of   *)
(* the two fleet factories; their orders and tokens are read by concurrent *)
(* callbacks that share the cache of TokenInfoCache.  Meanwhile fleets are *)
(* deployed and orders are placed.                                         *)
(***************************************************************************)
EXTENDS TokenInfoCache

CONSTANTS
    Brackets,   \* brackets that exist or may be deployed
    Mine,       \* those whose owner is the master Safe the user names
    Factory,    \* per bracket, the factory that deploys it: "plain" or "deterministic"
    Pairs       \* pairs <<sell, buy>> of ids that a bracket's first order may have

NoPair == <<>>

ASSUME BracketsAssumption ==
    /\ IsFiniteSet(Brackets) /\ Mine \subseteq Brackets
    /\ Factory \in [Brackets -> {"plain", "deterministic"}]
    /\ Pairs \subseteq Ids \X Ids

VARIABLES
    chain,    \* brackets deployed and their first orders
    script,   \* where the script is, the brackets it found, those that existed at its start
    row       \* per bracket, where its callback is and the pair it read

vars == <<chain, script, row, fromAddress, fromId, lookups>>

TypeOK ==
    /\ chain \in [deployed : SUBSET Brackets, first : [Brackets -> Pairs \cup {NoPair}]]
    /\ script \in [pc : {"start", "deterministic", "rows", "written", "failed"},
                   found : SUBSET Brackets, old : SUBSET Brackets]
    /\ row \in [Brackets -> [pc : {"orders", "sell", "buy", "done", "failed"},
                             pair : Pairs \cup {NoPair}]]
    /\ \A b \in Brackets : row[b].pc \in {"sell", "buy"} => row[b].pair \in Pairs
    /\ TokensTypeOK

Init ==
    /\ chain \in [deployed : SUBSET Brackets, first : [Brackets -> Pairs \cup {NoPair}]]
    /\ \A b \in Brackets \ chain.deployed : chain.first[b] = NoPair
    /\ script = [pc |-> "start", found |-> {}, old |-> {}]
    /\ row = [b \in Brackets |-> [pc |-> "orders", pair |-> NoPair]]
    /\ TokensInit
-----------------------------------------------------------------------------
DeployedBy(factory) == {b \in chain.deployed \cap Mine : Factory[b] = factory}

(* getDeployedBrackets asks one factory after the other for its events.    *)
ReadFactoryEvents ==
    /\ script.pc = "start"
    /\ script' = [pc |-> "deterministic", found |-> DeployedBy("plain"),
                  old |-> chain.deployed \cap Mine]
    /\ UNCHANGED <<chain, row, tokenVars>>

(* A mutant: only the brackets of the factory asked last are kept.         *)
KeepLastEvents ==
    /\ script.pc = "deterministic"
    /\ script' = [script EXCEPT !.pc = "rows", !.found = DeployedBy("deterministic")]
    /\ UNCHANGED <<chain, row, tokenVars>>

ReadDeterministicEvents ==
    /\ script.pc = "deterministic"
    /\ script' = [script EXCEPT !.pc = "rows", !.found = @ \cup DeployedBy("deterministic")]
    /\ UNCHANGED <<chain, row, tokenVars>>

(* The node refuses the events of a factory: the script ends.              *)
EventsRefused ==
    /\ script.pc \in {"start", "deterministic"}
    /\ script' = [script EXCEPT !.pc = "failed"]
    /\ UNCHANGED <<chain, row, tokenVars>>

RowAt(b, pc) == script.pc = "rows" /\ b \in script.found /\ row[b].pc = pc

TokenIdsOf(pair) == {pair[k] : k \in DOMAIN pair}

(* A mutant: a bracket without orders waits for the tokens of the first.   *)
ReadOrdersUnchecked(b) ==
    /\ RowAt(b, "orders")
    /\ row' = [row EXCEPT ![b] = [pc |-> "sell", pair |-> chain.first[b]]]
    /\ FetchFromExchange(TokenIdsOf(chain.first[b]))
    /\ UNCHANGED <<chain, script>>

(* The orders of a bracket arrive; a bracket without any needs no tokens.  *)
ReadOrders(b) ==
    /\ RowAt(b, "orders")
    /\ LET pair == chain.first[b]
       IN  IF pair = NoPair
           THEN /\ row' = [row EXCEPT ![b].pc = "done"]
                /\ UNCHANGED tokenVars
           ELSE /\ row' = [row EXCEPT ![b] = [pc |-> "sell", pair |-> pair]]
                /\ FetchFromExchange(TokenIdsOf(pair))
    /\ UNCHANGED <<chain, script>>

(* The node refuses the orders of a bracket: its callback fails.           *)
OrdersRefused(b) ==
    /\ RowAt(b, "orders")
    /\ row' = [row EXCEPT ![b].pc = "failed"]
    /\ UNCHANGED <<chain, script, tokenVars>>

AwaitToken(b, id, then) ==
    /\ Settled(fromId[id])
    /\ row' = [row EXCEPT ![b].pc = IF fromId[id].state = "known" THEN then ELSE "failed"]
    /\ UNCHANGED <<chain, script, tokenVars>>

AwaitSellToken(b) == RowAt(b, "sell") /\ AwaitToken(b, row[b].pair[1], "buy")

(* A mutant: the symbol of the second token is not awaited.                *)
ForgetBuyToken(b) ==
    /\ RowAt(b, "buy")
    /\ row' = [row EXCEPT ![b].pc = "done"]
    /\ UNCHANGED <<chain, script, tokenVars>>

AwaitBuyToken(b) == RowAt(b, "buy") /\ AwaitToken(b, row[b].pair[2], "done")

(* All callbacks are done: the file is written.                            *)
WriteFile ==
    /\ script.pc = "rows"
    /\ \A b \in script.found : row[b].pc = "done"
    /\ script' = [script EXCEPT !.pc = "written"]
    /\ UNCHANGED <<chain, row, tokenVars>>

(* The first callback that fails ends the script.                          *)
Fail ==
    /\ script.pc = "rows"
    /\ \E b \in script.found : row[b].pc = "failed"
    /\ script' = [script EXCEPT !.pc = "failed"]
    /\ UNCHANGED <<chain, row, tokenVars>>

Ended == script.pc \in {"written", "failed"}

Answer ==
    /\ ~Ended
    /\ (\E t \in Tokens : AnswerForToken(t)) \/ (\E i \in Ids : AnswerForId(i))
    /\ UNCHANGED <<chain, script, row>>

ScriptStep ==
    \/ ReadFactoryEvents \/ ReadDeterministicEvents \/ EventsRefused
    \/ \E b \in Brackets : ReadOrders(b) \/ OrdersRefused(b)
    \/ \E b \in Brackets : AwaitSellToken(b) \/ AwaitBuyToken(b)
    \/ WriteFile \/ Fail
-----------------------------------------------------------------------------
Deploy(b) ==
    /\ ~Ended /\ b \notin chain.deployed
    /\ chain' = [chain EXCEPT !.deployed = @ \cup {b}]
    /\ UNCHANGED <<script, row, tokenVars>>

(* A bracket's first order is placed once, and stays the first.            *)
PlaceOrder(b, pair) ==
    /\ ~Ended /\ b \in chain.deployed /\ chain.first[b] = NoPair
    /\ chain' = [chain EXCEPT !.first[b] = pair]
    /\ UNCHANGED <<script, row, tokenVars>>

Next ==
    \/ ScriptStep
    \/ Answer
    \/ \E b \in Brackets : Deploy(b)
    \/ \E b \in Brackets, pair \in Pairs : PlaceOrder(b, pair)

Spec == Init /\ [][Next]_vars

(* The node answers or refuses every call, and Node.js runs what it can.   *)
FairSpec == Spec /\ WF_vars(ScriptStep) /\ WF_vars(Answer)
-----------------------------------------------------------------------------
(***************************************************************************)
(* Properties.                                                             *)
(***************************************************************************)
(* However many callbacks ask for a token, at the same time or later, by   *)
(* its id or by its address, the node is asked once (the comments on the   *)
(* promises of scripts/utils/trading_strategy_helpers.js:161-227).         *)
OneLookupPerToken == \A x \in Tokens \cup Ids : lookups[x] <= 1

(* Brackets whose orders were read and that trade the same two tokens, in  *)
(* either direction, get the same outcome, also if a lookup would have     *)
(* succeeded on a second try.                                              *)
SameTokens(b, c) ==
    row[b].pair # NoPair /\ TokenIdsOf(row[b].pair) = TokenIdsOf(row[c].pair)

CallersAgree ==
    \A b, c \in script.found :
        SameTokens(b, c) => ~(row[b].pc = "done" /\ row[c].pc = "failed")

(* The file has every bracket that the master Safe owned when the script   *)
(* was started, from both factories, and none of others; the pair it names *)
(* is the bracket's (get_deployed_brackets.js).                            *)
FileIsComplete ==
    script.pc = "written" =>
        /\ script.old \subseteq script.found /\ script.found \subseteq Mine
        /\ \A b \in script.found :
              row[b].pc = "done" /\ row[b].pair \in {NoPair, chain.first[b]}

(* The script ends, with a file or an error, whatever fails.               *)
EveryScriptEnds == <>Ended
=============================================================================
