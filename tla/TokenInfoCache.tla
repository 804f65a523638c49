---------------------------- MODULE TokenInfoCache ----------------------------
(***************************************************************************)
(* The lookup of symbols and decimals of tokens, by address or by their id *)
(* on the exchange.  A script keeps one promise per token for as long as it*)
(* runs: callers that ask for a token while its lookup is going on, or     *)
(* after it ended, share its outcome.  A promise goes through the states   *)
(*                                                                         *)
(*   none      nobody asked yet                                            *)
(*   asked     waits for the contract, or for the address an id stands for *)
(*   details   waits for what `open` lists: methods of the contract, or the*)
(*             token of the address                                        *)
(*   known     resolved                                                    *)
(*   failed    rejected                                                    *)
(***************************************************************************)
EXTENDS Naturals, FiniteSets

CONSTANTS
    Tokens,     \* addresses of the token contracts
    Ids,        \* ids of tokens on the exchange
    TokenAt,    \* tokenIdToAddressMap
    Hardcoded   \* tokens whose details hardcoded_tokens.json lists

ASSUME TokensAssumption ==
    /\ IsFiniteSet(Tokens) /\ IsFiniteSet(Ids) /\ Tokens \cap Ids = {}
    /\ TokenAt \in [Ids -> Tokens]
    /\ Hardcoded \subseteq Tokens

Methods == {"symbol", "decimals"}

Promises == [state : {"none", "asked", "details", "known", "failed"}, open : SUBSET Methods]

VARIABLES
    fromAddress,  \* globalTokenPromisesFromAddress
    fromId,       \* globalTokenPromisesFromId
    lookups       \* how often the lookup of each address and of each id was started

tokenVars == <<fromAddress, fromId, lookups>>

TokensTypeOK ==
    /\ fromAddress \in [Tokens -> Promises]
    /\ fromId \in [Ids -> Promises]
    /\ lookups \in [Tokens \cup Ids -> Nat]

NoPromise == [state |-> "none", open |-> {}]
Asked     == [state |-> "asked", open |-> {}]
Known     == [state |-> "known", open |-> {}]
Failed    == [state |-> "failed", open |-> {}]

Settled(promise) == promise.state \in {"known", "failed"}

TokensInit ==
    /\ fromAddress = [t \in Tokens |-> NoPromise]
    /\ fromId = [i \in Ids |-> NoPromise]
    /\ lookups = [x \in Tokens \cup Ids |-> 0]
-----------------------------------------------------------------------------
(* A mutant: the cache remembers results instead of promises.              *)
UnknownOf(cache, asked) == {x \in asked : cache[x].state # "known"}

(* What has to be looked up for a caller that asks for `asked`.            *)
MissingOf(cache, asked) == {x \in asked : cache[x].state = "none"}

WithAsked(cache, missing) == [x \in DOMAIN cache |-> IF x \in missing THEN Asked ELSE cache[x]]

Counted(missing) == [x \in DOMAIN lookups |-> IF x \in missing THEN lookups[x] + 1 ELSE lookups[x]]

(* The part of fetchTokenInfoAtAddresses that runs before it returns.      *)
FetchAtAddresses(asked) ==
    LET missing == MissingOf(fromAddress, asked)
    IN  /\ fromAddress' = WithAsked(fromAddress, missing)
        /\ lookups' = Counted(missing)

(* The same of fetchTokenInfoFromExchange.                                 *)
FetchFromExchange(asked) ==
    LET missing == MissingOf(fromId, asked)
    IN  /\ fromId' = WithAsked(fromId, missing)
        /\ lookups' = Counted(missing)
        /\ UNCHANGED fromAddress
-----------------------------------------------------------------------------
(* ERC20.at found a contract.  Details in the list need no further calls.  *)
ContractFound(t) ==
    /\ fromAddress[t].state = "asked"
    /\ fromAddress' = [fromAddress EXCEPT
                         ![t] = IF t \in Hardcoded THEN Known
                                ELSE [state |-> "details", open |-> Methods]]
    /\ UNCHANGED <<fromId, lookups>>

WithoutDetail(promise, method) ==
    IF promise.open = {method} THEN Known ELSE [promise EXCEPT !.open = @ \ {method}]

(* The contract answers symbol() or decimals(); both are asked at once.    *)
DetailAnswered(t, method) ==
    /\ fromAddress[t].state = "details" /\ method \in fromAddress[t].open
    /\ fromAddress' = [fromAddress EXCEPT ![t] = WithoutDetail(@, method)]
    /\ UNCHANGED <<fromId, lookups>>

(* There is no contract, or it has no such method, or the node fails: the  *)
(* rejected promise stays in the cache.                                    *)
AddressFails(t) ==
    /\ fromAddress[t].state \in {"asked", "details"}
    /\ fromAddress' = [fromAddress EXCEPT ![t] = Failed]
    /\ UNCHANGED <<fromId, lookups>>

(* The exchange maps the id to an address, whose information is fetched.   *)
IdMapped(i) ==
    /\ fromId[i].state = "asked"
    /\ fromId' = [fromId EXCEPT ![i] = [state |-> "details", open |-> Methods]]
    /\ FetchAtAddresses({TokenAt[i]})

IdUnmapped(i) ==
    /\ fromId[i].state = "asked"
    /\ fromId' = [fromId EXCEPT ![i] = Failed]
    /\ UNCHANGED <<fromAddress, lookups>>

(* A mutant: the id waits for the token to be known.                       *)
IdSettlesWhenKnown(i) ==
    /\ fromId[i].state = "details" /\ fromAddress[TokenAt[i]].state = "known"
    /\ fromId' = [fromId EXCEPT ![i] = Known]
    /\ UNCHANGED <<fromAddress, lookups>>

(* The promise of an id takes the outcome of that of the address.          *)
IdSettles(i) ==
    /\ fromId[i].state = "details" /\ Settled(fromAddress[TokenAt[i]])
    /\ fromId' = [fromId EXCEPT ![i] = fromAddress[TokenAt[i]]]
    /\ UNCHANGED <<fromAddress, lookups>>

AnswerForToken(t) ==
    \/ ContractFound(t)
    \/ AddressFails(t)
    \/ \E method \in Methods : DetailAnswered(t, method)

AnswerForId(i) == IdMapped(i) \/ IdUnmapped(i) \/ IdSettles(i)
=============================================================================
