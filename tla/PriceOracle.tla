------------------------------ MODULE PriceOracle ------------------------------
(***************************************************************************)
(* The price of one token in another, as scripts get it from a server:     *)
(* getOneinchPrice.  Prices are logarithms, so that the price of t in u is *)
(* market[t] - market[u], and inverting one changes its sign.  The server  *)
(* quotes the market, or refuses (it answers with an error message), or    *)
(* answers something that is not a quote, or the connection fails, or it   *)
(* takes the request and never answers, and no timeout is set.             *)
(***************************************************************************)
EXTENDS Integers, FiniteSets

CONSTANTS
    Tokens,    \* token contracts
    USDC,      \* the token in which values are measured
    Market0    \* the market at the start

Tries == 3

ASSUME OracleAssumption ==
    /\ IsFiniteSet(Tokens) /\ USDC \in Tokens
    /\ Market0 \in [Tokens -> Int]

VARIABLES
    market,    \* log of what each token is worth
    storage,   \* globalPriceStorage of the script: slices by key
    query      \* the price that is being asked for

oracleVars == <<market, storage, query>>

Number(n) == [kind |-> "number", log |-> n]
Undefined == [kind |-> "undefined", log |-> 0]
NaN       == [kind |-> "nan", log |-> 0]

Slices == [kind : {"number", "undefined", "nan"}, log : Int]

Key(base, quote) == <<base, quote>>

(* What `baseToken + "-" + quoteToken` is for any two token objects.       *)
ObjectKey == <<>>

NoQuery == [pc |-> "none", base |-> USDC, quote |-> USDC, tries |-> 0, slice |-> Undefined]

OracleTypeOK ==
    /\ market \in [Tokens -> Int]
    /\ DOMAIN storage \subseteq (Tokens \X Tokens) \cup {ObjectKey}
    /\ \A key \in DOMAIN storage : storage[key] \in Slices
    /\ query \in [pc : {"none", "asking", "answered", "threw", "hanging"}, base : Tokens, quote : Tokens,
                  tries : 0..(Tries - 1), slice : Slices]

NothingStored == [key \in {} |-> NaN]

OracleInit ==
    /\ market = Market0
    /\ storage = NothingStored
    /\ query = NoQuery
-----------------------------------------------------------------------------
MarketPrice(values, base, quote) == values[base] - values[quote]

(* 1.0 / undefined is not a number.                                        *)
Inverted(slice) == IF slice.kind = "number" THEN Number(-slice.log) ELSE NaN

Asking(base, quote) ==
    [pc |-> "asking", base |-> base, quote |-> quote, tries |-> 0, slice |-> Undefined]

Answered(q, slice) == [q EXCEPT !.pc = "answered", !.slice = slice]

(* A mutant: a price stored for the opposite direction is not inverted.    *)
AskWithoutInverting(base, quote) ==
    query' = IF Key(base, quote) \in DOMAIN storage
             THEN Answered(Asking(base, quote), storage[Key(base, quote)])
             ELSE IF Key(quote, base) \in DOMAIN storage
             THEN Answered(Asking(base, quote), storage[Key(quote, base)])
             ELSE Asking(base, quote)

(* A price the caller stored, in either direction, needs no request.       *)
Ask(base, quote) ==
    query' = IF Key(base, quote) \in DOMAIN storage
             THEN Answered(Asking(base, quote), storage[Key(base, quote)])
             ELSE IF Key(quote, base) \in DOMAIN storage
             THEN Answered(Asking(base, quote), Inverted(storage[Key(quote, base)]))
             ELSE Asking(base, quote)

(* A price is stored, under a key that no lookup has.                      *)
Store(slice) ==
    storage' = [key \in DOMAIN storage \cup {ObjectKey} |->
                    IF key = ObjectKey THEN slice ELSE storage[key]]

GotPrice(slice) == query' = Answered(query, slice) /\ Store(slice)

ServerQuotes ==
    /\ query.pc = "asking"
    /\ GotPrice(Number(MarketPrice(market, query.base, query.quote)))

AnswersNoQuote == query.pc = "asking" /\ GotPrice(NaN)

LastTry == query.tries = Tries - 1

Retry == query' = [query EXCEPT !.tries = @ + 1] /\ UNCHANGED storage

(* A mutant: it is tried again and again.                                  *)
RetriesForever ==
    /\ query.pc = "asking"
    /\ query' = [query EXCEPT !.tries = (@ + 1) % Tries]
    /\ UNCHANGED storage

ServerRefuses ==
    /\ query.pc = "asking"
    /\ IF LastTry THEN GotPrice(Undefined) ELSE Retry

(* An error without a response has no message to report in the end: this   *)
(* throws.                                                                 *)
ConnectionFails ==
    /\ query.pc = "asking"
    /\ IF LastTry THEN query' = [query EXCEPT !.pc = "threw"] /\ UNCHANGED storage
                  ELSE Retry

(* Nothing ends a request that is not answered.                            *)
ServerHangs ==
    /\ query.pc = "asking"
    /\ query' = [query EXCEPT !.pc = "hanging"]
    /\ UNCHANGED storage

Reply ==
    \/ ServerQuotes \/ AnswersNoQuote \/ ServerRefuses
    \/ ConnectionFails \/ ServerHangs
=============================================================================
