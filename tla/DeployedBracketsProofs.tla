------------------------ MODULE DeployedBracketsProofs ------------------------
(***************************************************************************)
(* Theorems about DeployedBrackets, for any tokens, ids, factories and     *)
(* brackets, and with any number of callbacks that share lookups.          *)
(***************************************************************************)
EXTENDS DeployedBrackets, TLAPS

(* A promise that nobody asked for was not looked up, and no other is      *)
(* looked up again.                                                        *)
Counts ==
    /\ \A t \in Tokens : lookups[t] <= 1 /\ (fromAddress[t].state = "none" => lookups[t] = 0)
    /\ \A i \in Ids : lookups[i] <= 1 /\ (fromId[i].state = "none" => lookups[i] = 0)

Cache == TokensTypeOK /\ Counts

(* What a callback got is still what the cache says.                       *)
Stable == \A i \in Ids : Settled(fromId[i]) => fromId'[i] = fromId[i]

RowOK(b) ==
    /\ row[b].pair # NoPair => row[b].pair = chain.first[b]
    /\ row[b].pc \in {"sell", "buy"} => row[b].pair \in Pairs
    /\ row[b].pc = "orders" => row[b].pair = NoPair
    /\ row[b].pc = "buy" => fromId[row[b].pair[1]].state = "known"
    /\ row[b].pc = "done" /\ row[b].pair # NoPair =>
          \A id \in TokenIdsOf(row[b].pair) : fromId[id].state = "known"
    /\ row[b].pc = "failed" /\ row[b].pair # NoPair =>
          \E id \in TokenIdsOf(row[b].pair) : fromId[id].state = "failed"

Rows == \A b \in Brackets : RowOK(b)

(* What the script found, compared with what there was when it started.    *)
Found ==
    /\ script.found \subseteq Mine /\ script.old \subseteq chain.deployed \cap Mine
    /\ script.pc = "deterministic" =>
          \A b \in script.old : Factory[b] = "plain" => b \in script.found
    /\ script.pc \in {"rows", "written"} => script.old \subseteq script.found
    /\ script.pc = "written" => \A b \in script.found : row[b].pc = "done"

(* The inductive invariant.                                                *)
IInv == TypeOK /\ Counts /\ Rows /\ Found
-----------------------------------------------------------------------------
(***************************************************************************)
(* The cache.                                                              *)
(***************************************************************************)
LEMMA PromiseTypes ==
    /\ NoPromise \in Promises /\ Asked \in Promises /\ Known \in Promises /\ Failed \in Promises
    /\ [state |-> "details", open |-> Methods] \in Promises
    /\ \A p \in Promises, m \in Methods : [p EXCEPT !.open = @ \ {m}] \in Promises
BY DEF NoPromise, Asked, Known, Failed, Promises, Methods

(* One cache, seen alone: the missing ones are asked for and counted.      *)
LEMMA AskingMissing ==
    ASSUME NEW S, NEW cache \in [S -> Promises], NEW missing,
           missing \in SUBSET {x \in S : cache[x].state = "none"}
    PROVE  /\ WithAsked(cache, missing) \in [S -> Promises]
           /\ \A x \in S : WithAsked(cache, missing)[x] = IF x \in missing THEN Asked ELSE cache[x]
BY PromiseTypes DEF WithAsked

LEMMA Counting ==
    ASSUME lookups \in [Tokens \cup Ids -> Nat], NEW missing
    PROVE  /\ Counted(missing) \in [Tokens \cup Ids -> Nat]
           /\ \A x \in Tokens \cup Ids :
                 Counted(missing)[x] = IF x \in missing THEN lookups[x] + 1 ELSE lookups[x]
BY DEF Counted

LEMMA FetchIds ==
    ASSUME Cache, NEW asked, asked \in SUBSET Ids, FetchFromExchange(asked)
    PROVE  Cache' /\ Stable
<1> DEFINE missing == MissingOf(fromId, asked)
<1>1. /\ fromAddress \in [Tokens -> Promises] /\ fromId \in [Ids -> Promises]
      /\ lookups \in [Tokens \cup Ids -> Nat]
  BY DEF Cache, TokensTypeOK
<1>2. missing \in SUBSET {i \in Ids : fromId[i].state = "none"}
  BY DEF MissingOf
<1>3. /\ fromId' = WithAsked(fromId, missing) /\ lookups' = Counted(missing)
      /\ fromAddress' = fromAddress
  BY DEF FetchFromExchange
<1> HIDE DEF missing
<1>4. /\ fromId' \in [Ids -> Promises]
      /\ \A i \in Ids : fromId'[i] = IF i \in missing THEN Asked ELSE fromId[i]
  BY <1>1, <1>2, <1>3, AskingMissing
<1>5. /\ lookups' \in [Tokens \cup Ids -> Nat]
      /\ \A x \in Tokens \cup Ids : lookups'[x] = IF x \in missing THEN lookups[x] + 1 ELSE lookups[x]
  BY <1>1, <1>3, Counting
<1>6. \A t \in Tokens : lookups'[t] = lookups[t]
  BY <1>2, <1>5, TokensAssumption
<1>7. ASSUME NEW i \in Ids
      PROVE  lookups'[i] <= 1 /\ (fromId'[i].state = "none" => lookups'[i] = 0)
  BY <1>1, <1>2, <1>4, <1>5 DEF Cache, Counts, Asked
<1>8. Stable
  BY <1>2, <1>4 DEF Stable, Settled
<1>9. QED
  BY <1>1, <1>3, <1>4, <1>5, <1>6, <1>7, <1>8 DEF Cache, TokensTypeOK, Counts

(* A continuation of the lookup of an address.                             *)
LEMMA TokenAnswered ==
    ASSUME Cache, NEW t \in Tokens, AnswerForToken(t)
    PROVE  Cache' /\ Stable
<1>1. /\ fromAddress \in [Tokens -> Promises] /\ fromId \in [Ids -> Promises]
      /\ lookups \in [Tokens \cup Ids -> Nat]
  BY DEF Cache, TokensTypeOK
<1>2. /\ fromId' = fromId /\ lookups' = lookups
      /\ \E p \in Promises : fromAddress' = [fromAddress EXCEPT ![t] = p] /\ p.state # "none"
      /\ fromAddress[t].state # "none"
  <2>1. CASE ContractFound(t)
    BY <2>1, PromiseTypes DEF ContractFound, Known
  <2>2. CASE AddressFails(t)
    BY <2>2, PromiseTypes DEF AddressFails, Failed
  <2>3. ASSUME NEW m \in Methods, DetailAnswered(t, m)
        PROVE  /\ fromId' = fromId /\ lookups' = lookups
               /\ \E p \in Promises : fromAddress' = [fromAddress EXCEPT ![t] = p] /\ p.state # "none"
               /\ fromAddress[t].state # "none"
    <3> DEFINE q == WithoutDetail(fromAddress[t], m)
    <3>1. q \in Promises
      BY <1>1, PromiseTypes DEF WithoutDetail
    <3>2. q.state # "none"
      BY <1>1, <2>3 DEF DetailAnswered, WithoutDetail, Known, Promises
    <3>3. fromAddress' = [fromAddress EXCEPT ![t] = q]
      BY <2>3 DEF DetailAnswered
    <3> HIDE DEF q
    <3>4. QED
      BY <2>3, <3>1, <3>2, <3>3 DEF DetailAnswered
  <2>4. QED
    BY <2>1, <2>2, <2>3 DEF AnswerForToken
<1>3. fromAddress' \in [Tokens -> Promises]
  BY <1>1, <1>2
<1>4. \A u \in Tokens : fromAddress'[u].state = "none" => fromAddress[u].state = "none"
  BY <1>1, <1>2
<1>5. QED
  BY <1>1, <1>2, <1>3, <1>4 DEF Cache, TokensTypeOK, Counts, Stable

(* A continuation of the lookup of an id.                                  *)
LEMMA IdAnswered ==
    ASSUME Cache, NEW i \in Ids, AnswerForId(i)
    PROVE  Cache' /\ Stable
<1>1. /\ fromAddress \in [Tokens -> Promises] /\ fromId \in [Ids -> Promises]
      /\ lookups \in [Tokens \cup Ids -> Nat]
  BY DEF Cache, TokensTypeOK
<1>2. TokenAt[i] \in Tokens /\ Tokens \cap Ids = {}
  BY TokensAssumption
<1>3. CASE IdMapped(i)
  <2> DEFINE asked == {TokenAt[i]}
             missing == MissingOf(fromAddress, asked)
             d == [state |-> "details", open |-> Methods]
  <2>1. missing \in SUBSET {t \in Tokens : fromAddress[t].state = "none"}
    BY <1>2 DEF MissingOf
  <2>2. /\ fromId' = [fromId EXCEPT ![i] = d] /\ fromId[i].state = "asked"
        /\ fromAddress' = WithAsked(fromAddress, missing) /\ lookups' = Counted(missing)
    BY <1>3 DEF IdMapped, FetchAtAddresses
  <2>3. d \in Promises /\ d.state = "details"
    BY PromiseTypes
  <2> HIDE DEF missing, d
  <2>4. /\ fromAddress' \in [Tokens -> Promises]
        /\ \A t \in Tokens : fromAddress'[t] = IF t \in missing THEN Asked ELSE fromAddress[t]
    BY <1>1, <2>1, <2>2, AskingMissing
  <2>5. /\ lookups' \in [Tokens \cup Ids -> Nat]
        /\ \A x \in Tokens \cup Ids : lookups'[x] = IF x \in missing THEN lookups[x] + 1 ELSE lookups[x]
    BY <1>1, <2>2, Counting
  <2>6. \A j \in Ids : lookups'[j] = lookups[j]
    BY <1>2, <2>1, <2>5
  <2>7. ASSUME NEW t \in Tokens
        PROVE  lookups'[t] <= 1 /\ (fromAddress'[t].state = "none" => lookups'[t] = 0)
    BY <1>1, <2>1, <2>4, <2>5 DEF Cache, Counts, Asked
  <2>8. /\ fromId' \in [Ids -> Promises]
        /\ \A j \in Ids : fromId'[j].state = "none" => fromId[j].state = "none"
        /\ Stable
    BY <1>1, <2>2, <2>3 DEF Stable, Settled
  <2>9. QED
    BY <2>4, <2>5, <2>6, <2>7, <2>8 DEF Cache, TokensTypeOK, Counts
<1>4. CASE IdUnmapped(i) \/ IdSettles(i)
  <2>1. /\ fromAddress' = fromAddress /\ lookups' = lookups
        /\ fromId[i].state \in {"asked", "details"}
        /\ \E p \in Promises : fromId' = [fromId EXCEPT ![i] = p] /\ p.state # "none"
    <3>1. CASE IdUnmapped(i)
      BY <3>1, PromiseTypes DEF IdUnmapped, Failed
    <3>2. CASE IdSettles(i)
      <4>1. fromAddress[TokenAt[i]] \in Promises /\ fromAddress[TokenAt[i]].state # "none"
        BY <1>1, <1>2, <3>2 DEF IdSettles, Settled
      <4>2. QED
        BY <3>2, <4>1 DEF IdSettles
    <3>3. QED
      BY <1>4, <3>1, <3>2
  <2>2. /\ fromId' \in [Ids -> Promises]
        /\ \A j \in Ids : fromId'[j].state = "none" => fromId[j].state = "none"
        /\ Stable
    BY <1>1, <2>1 DEF Stable, Settled
  <2>3. QED
    BY <1>1, <2>1, <2>2 DEF Cache, TokensTypeOK, Counts
<1>5. QED
  BY <1>3, <1>4 DEF AnswerForId
-----------------------------------------------------------------------------
(***************************************************************************)
(* The callbacks.                                                          *)
(***************************************************************************)
LEMMA PairIds ==
    ASSUME NEW pair \in Pairs
    PROVE  /\ pair[1] \in Ids /\ pair[2] \in Ids /\ TokenIdsOf(pair) = {pair[1], pair[2]}
           /\ TokenIdsOf(pair) \in SUBSET Ids
<1>1. pair \in Ids \X Ids
  BY BracketsAssumption
<1>2. pair[1] \in Ids /\ pair[2] \in Ids /\ DOMAIN pair = {1, 2}
  BY <1>1
<1>3. QED
  BY <1>2 DEF TokenIdsOf

(* Rows stay right while the chain and the cache go on, if the row itself  *)
(* does not change.                                                        *)
LEMMA RowStays ==
    ASSUME Rows, Stable, NEW b \in Brackets, row'[b] = row[b],
           row[b].pair # NoPair => chain'.first[b] = chain.first[b],
           row[b].pc \in {"done", "failed"} => row[b].pair \in Pairs \cup {NoPair}
    PROVE  RowOK(b)'
<1>1. RowOK(b)
  BY DEF Rows
<1>2. ASSUME NEW id \in Ids, fromId[id].state \in {"known", "failed"}
      PROVE  fromId'[id].state = fromId[id].state
  BY <1>2 DEF Stable, Settled
<1>3. row[b].pc \in {"sell", "buy"} => row[b].pair \in Pairs
  BY <1>1 DEF RowOK
<1>4. row[b].pc = "buy" => fromId'[row[b].pair[1]].state = "known"
  BY <1>1, <1>2, <1>3, PairIds DEF RowOK
<1>5. row[b].pc = "done" /\ row[b].pair # NoPair =>
         \A id \in TokenIdsOf(row[b].pair) : fromId'[id].state = "known"
  BY <1>1, <1>2, PairIds DEF RowOK
<1>6. row[b].pc = "failed" /\ row[b].pair # NoPair =>
         \E id \in TokenIdsOf(row[b].pair) : fromId'[id].state = "failed"
  BY <1>1, <1>2, PairIds DEF RowOK
<1>7. TokenIdsOf(row[b].pair)' = TokenIdsOf(row[b].pair)
  BY DEF TokenIdsOf
<1>8. QED
  BY <1>1, <1>3, <1>4, <1>5, <1>6, <1>7 DEF RowOK

(* A callback that got an answer for one of its tokens.                    *)
LEMMA TokenAwaited ==
    ASSUME IInv, NEW b \in Brackets, NEW k \in {1, 2}, NEW then \in {"buy", "done"},
           row[b].pair \in Pairs, AwaitToken(b, row[b].pair[k], then),
           then = "buy" => k = 1,
           then = "done" => k = 2 /\ row[b].pc = "buy"
    PROVE  RowOK(b)' /\ row'[b].pc \in {"buy", "done", "failed"} /\ row'[b].pair = row[b].pair
<1> DEFINE id == row[b].pair[k]
<1>1. /\ row \in [Brackets -> [pc : {"orders", "sell", "buy", "done", "failed"},
                                pair : Pairs \cup {NoPair}]]
      /\ RowOK(b)
  BY DEF IInv, TypeOK, Rows
<1>2. /\ row' = [row EXCEPT ![b].pc = IF fromId[id].state = "known" THEN then ELSE "failed"]
      /\ fromId' = fromId /\ chain' = chain
      /\ fromId[id].state \in {"known", "failed"}
  BY DEF AwaitToken, Settled, tokenVars
<1>3. /\ row[b].pair[1] \in Ids /\ row[b].pair[2] \in Ids
      /\ TokenIdsOf(row[b].pair) = {row[b].pair[1], row[b].pair[2]}
      /\ id \in TokenIdsOf(row[b].pair)
  BY PairIds
<1>4. /\ row'[b].pair = row[b].pair
      /\ row'[b].pc = IF fromId[id].state = "known" THEN then ELSE "failed"
  BY <1>1, <1>2
<1>5. row[b].pair # NoPair => row[b].pair = chain'.first[b]
  BY <1>1, <1>2 DEF RowOK
<1>6. row'[b].pc = "buy" => fromId'[row[b].pair[1]].state = "known"
  BY <1>2, <1>4
<1>7. row'[b].pc = "done" => \A x \in TokenIdsOf(row[b].pair) : fromId'[x].state = "known"
  BY <1>1, <1>2, <1>3, <1>4 DEF RowOK
<1>8. row'[b].pc = "failed" => \E x \in TokenIdsOf(row[b].pair) : fromId'[x].state = "failed"
  BY <1>2, <1>3, <1>4
<1>9. TokenIdsOf(row'[b].pair) = TokenIdsOf(row[b].pair)
  BY <1>4
<1>10. QED
  BY <1>2, <1>4, <1>5, <1>6, <1>7, <1>8, <1>9 DEF RowOK

(* Where a callback is does not matter to what the script found, as long   *)
(* as the file is not written.                                             *)
LEMMA FoundStays ==
    ASSUME Found, script.pc = "rows" \/ UNCHANGED row, UNCHANGED script,
           chain.deployed \subseteq chain'.deployed
    PROVE  Found'
BY DEF Found

LEMMA InitIInv == Init => IInv
<1> SUFFICES ASSUME Init PROVE IInv
  OBVIOUS
<1>1. TypeOK
  BY PromiseTypes DEF Init, TypeOK, TokensTypeOK, TokensInit
<1>2. Counts
  BY DEF Init, TokensInit, Counts
<1>3. Rows
  BY DEF Init, Rows, RowOK
<1>4. Found
  BY DEF Init, Found
<1>5. QED
  BY <1>1, <1>2, <1>3, <1>4 DEF IInv

LEMMA StepIInv == IInv /\ [Next]_vars => IInv'
<1> SUFFICES ASSUME IInv, [Next]_vars PROVE IInv'
  OBVIOUS
<1>1. TypeOK /\ Counts /\ Rows /\ Found /\ Cache
  BY DEF IInv, TypeOK, Cache
<1>2. /\ chain \in [deployed : SUBSET Brackets, first : [Brackets -> Pairs \cup {NoPair}]]
      /\ script \in [pc : {"start", "deterministic", "rows", "written", "failed"},
                     found : SUBSET Brackets, old : SUBSET Brackets]
      /\ row \in [Brackets -> [pc : {"orders", "sell", "buy", "done", "failed"},
                               pair : Pairs \cup {NoPair}]]
      /\ \A b \in Brackets : row[b].pc \in {"sell", "buy"} => row[b].pair \in Pairs
      /\ Mine \in SUBSET Brackets
  BY <1>1, BracketsAssumption DEF TypeOK
<1>3. ASSUME UNCHANGED tokenVars
      PROVE  Cache' /\ Stable
  BY <1>1, <1>3 DEF tokenVars, Cache, TokensTypeOK, Counts, Stable
(* What is left to show of steps that only change the script.              *)
<1>4. ASSUME UNCHANGED <<chain, row, tokenVars>>
      PROVE  Rows' /\ Cache'
  <2>1. Cache' /\ Stable
    BY <1>3, <1>4
  <2>2. Rows'
    BY <1>1, <1>2, <1>4, <2>1, RowStays DEF Rows
  <2>3. QED
    BY <2>1, <2>2
<1>5. CASE ReadFactoryEvents
  <2>1. Rows' /\ Cache'
    BY <1>4, <1>5 DEF ReadFactoryEvents
  <2>2. Found'
    BY <1>2, <1>5 DEF ReadFactoryEvents, Found, DeployedBy
  <2>3. TypeOK'
    BY <1>2, <1>5, <2>1 DEF ReadFactoryEvents, TypeOK, Cache, DeployedBy
  <2>4. QED
    BY <2>1, <2>2, <2>3 DEF IInv, Cache
<1>6. CASE ReadDeterministicEvents
  <2>1. Rows' /\ Cache'
    BY <1>4, <1>6 DEF ReadDeterministicEvents
  <2>2. Found'
    BY <1>1, <1>2, <1>6, BracketsAssumption DEF ReadDeterministicEvents, Found, DeployedBy
  <2>3. TypeOK'
    BY <1>2, <1>6, <2>1 DEF ReadDeterministicEvents, TypeOK, Cache, DeployedBy
  <2>4. QED
    BY <2>1, <2>2, <2>3 DEF IInv, Cache
<1>7. CASE EventsRefused \/ WriteFile \/ Fail
  <2>1. Rows' /\ Cache'
    BY <1>4, <1>7 DEF EventsRefused, WriteFile, Fail
  <2>2. Found'
    <3>1. /\ chain' = chain /\ row' = row
          /\ \/ /\ script' = [script EXCEPT !.pc = "written"] /\ script.pc = "rows"
                /\ \A b \in script.found : row[b].pc = "done"
             \/ script' = [script EXCEPT !.pc = "failed"]
      BY <1>7 DEF EventsRefused, WriteFile, Fail
    <3>2. /\ script'.found = script.found /\ script'.old = script.old
          /\ script'.pc \in {"written", "failed"}
          /\ script'.pc = "written" => /\ \A b \in script.found : row[b].pc = "done"
                                       /\ script.pc = "rows"
      BY <1>2, <3>1
    <3>3. QED
      BY <1>1, <3>1, <3>2 DEF Found
  <2>3. TypeOK'
    BY <1>2, <1>7, <2>1 DEF EventsRefused, WriteFile, Fail, TypeOK, Cache
  <2>4. QED
    BY <2>1, <2>2, <2>3 DEF IInv, Cache
<1>8. ASSUME NEW b \in Brackets, ReadOrders(b)
      PROVE  IInv'
  <2> DEFINE pair == chain.first[b]
  <2>1. /\ script.pc = "rows" /\ UNCHANGED <<chain, script>> /\ pair \in Pairs \cup {NoPair}
        /\ \/ pair = NoPair /\ row' = [row EXCEPT ![b].pc = "done"] /\ UNCHANGED tokenVars
           \/ /\ pair \in Pairs /\ row' = [row EXCEPT ![b] = [pc |-> "sell", pair |-> pair]]
              /\ FetchFromExchange(TokenIdsOf(pair))
        /\ row[b].pc = "orders"
    BY <1>2, <1>8 DEF ReadOrders, RowAt
  <2>2. Cache' /\ Stable
    BY <1>1, <1>3, <2>1, FetchIds, PairIds
  <2>3. \A c \in Brackets \ {b} : RowOK(c)'
    BY <1>1, <1>2, <2>1, <2>2, RowStays
  <2>4. RowOK(b)'
    <3>1. row[b].pair # NoPair => row[b].pair = pair
      BY <1>1 DEF Rows, RowOK
    <3>2. /\ row'[b].pc \in {"sell", "done"} /\ row'[b].pair \in {row[b].pair, pair}
          /\ row'[b].pc = "sell" => row'[b].pair \in Pairs
          /\ row'[b].pc = "done" => row'[b].pair = row[b].pair /\ pair = NoPair
      BY <1>2, <2>1
    <3>3. QED
      BY <2>1, <3>1, <3>2 DEF RowOK
  <2>5. Rows'
    BY <2>3, <2>4 DEF Rows
  <2>6. Found'
    BY <1>1, <2>1, FoundStays
  <2>7. TypeOK'
    <3>1. row' \in [Brackets -> [pc : {"orders", "sell", "buy", "done", "failed"},
                                 pair : Pairs \cup {NoPair}]]
      BY <1>2, <2>1
    <3>2. \A c \in Brackets : row'[c].pc \in {"sell", "buy"} => row'[c].pair \in Pairs
      BY <2>5 DEF Rows, RowOK
    <3>3. QED
      BY <1>2, <2>1, <2>2, <3>1, <3>2 DEF TypeOK, Cache
  <2>8. QED
    BY <2>2, <2>5, <2>6, <2>7 DEF IInv, Cache
<1>9. ASSUME NEW b \in Brackets, AwaitSellToken(b) \/ AwaitBuyToken(b)
      PROVE  IInv'
  <2>1. /\ script.pc = "rows" /\ UNCHANGED <<chain, script, tokenVars>> /\ row[b].pair \in Pairs
        /\ \E pc \in {"buy", "done", "failed"} : row' = [row EXCEPT ![b].pc = pc]
    BY <1>2, <1>9 DEF AwaitSellToken, AwaitBuyToken, AwaitToken, RowAt
  <2>2. Cache' /\ Stable
    BY <1>3, <2>1
  <2>3. \A c \in Brackets \ {b} : RowOK(c)'
    BY <1>1, <1>2, <2>1, <2>2, RowStays
  <2>4. RowOK(b)'
    <3>1. CASE AwaitSellToken(b)
      BY <2>1, <3>1, TokenAwaited DEF AwaitSellToken
    <3>2. CASE AwaitBuyToken(b)
      BY <2>1, <3>2, TokenAwaited DEF AwaitBuyToken, RowAt
    <3>3. QED
      BY <1>9, <3>1, <3>2
  <2>5. Rows'
    BY <2>3, <2>4 DEF Rows
  <2>6. Found'
    BY <1>1, <2>1, FoundStays
  <2>7. TypeOK'
    <3>1. row' \in [Brackets -> [pc : {"orders", "sell", "buy", "done", "failed"},
                                 pair : Pairs \cup {NoPair}]]
      BY <1>2, <2>1
    <3>2. \A c \in Brackets : row'[c].pc \in {"sell", "buy"} => row'[c].pair \in Pairs
      BY <2>5 DEF Rows, RowOK
    <3>3. QED
      BY <1>2, <2>1, <2>2, <3>1, <3>2 DEF TypeOK, Cache
  <2>8. QED
    BY <2>2, <2>5, <2>6, <2>7 DEF IInv, Cache
<1>10. ASSUME NEW b \in Brackets, OrdersRefused(b)
       PROVE  IInv'
  <2>1. /\ script.pc = "rows" /\ UNCHANGED <<chain, script, tokenVars>>
        /\ row' = [row EXCEPT ![b].pc = "failed"] /\ row[b].pc = "orders"
    BY <1>10 DEF OrdersRefused, RowAt
  <2>2. Cache' /\ Stable
    BY <1>3, <2>1
  <2>3. \A c \in Brackets \ {b} : RowOK(c)'
    BY <1>1, <1>2, <2>1, <2>2, RowStays
  <2>4. RowOK(b)'
    <3>1. row'[b].pair = NoPair /\ row'[b].pc = "failed"
      BY <1>1, <1>2, <2>1 DEF Rows, RowOK
    <3>2. QED
      BY <3>1 DEF RowOK
  <2>5. Rows'
    BY <2>3, <2>4 DEF Rows
  <2>6. Found'
    BY <1>1, <2>1, FoundStays
  <2>7. TypeOK'
    <3>1. row' \in [Brackets -> [pc : {"orders", "sell", "buy", "done", "failed"},
                                 pair : Pairs \cup {NoPair}]]
      BY <1>2, <2>1
    <3>2. \A c \in Brackets : row'[c].pc \in {"sell", "buy"} => row'[c].pair \in Pairs
      BY <2>5 DEF Rows, RowOK
    <3>3. QED
      BY <1>2, <2>1, <2>2, <3>1, <3>2 DEF TypeOK, Cache
  <2>8. QED
    BY <2>2, <2>5, <2>6, <2>7 DEF IInv, Cache
<1>11. CASE Answer
  <2>1. /\ UNCHANGED <<chain, script, row>>
        /\ (\E t \in Tokens : AnswerForToken(t)) \/ (\E i \in Ids : AnswerForId(i))
    BY <1>11 DEF Answer
  <2>2. Cache' /\ Stable
    BY <1>1, <2>1, TokenAnswered, IdAnswered
  <2>3. Rows'
    BY <1>1, <1>2, <2>1, <2>2, RowStays DEF Rows
  <2>4. Found'
    BY <1>1, <2>1, FoundStays
  <2>5. TypeOK'
    BY <1>2, <2>1, <2>2 DEF TypeOK, Cache
  <2>6. QED
    BY <2>2, <2>3, <2>4, <2>5 DEF IInv, Cache
<1>12. ASSUME NEW b \in Brackets,
              Deploy(b) \/ \E pair \in Pairs : PlaceOrder(b, pair)
       PROVE  IInv'
  <2>1. /\ UNCHANGED <<script, row, tokenVars>>
        /\ chain' \in [deployed : SUBSET Brackets, first : [Brackets -> Pairs \cup {NoPair}]]
        /\ chain.deployed \subseteq chain'.deployed
        /\ \A c \in Brackets : chain.first[c] # NoPair => chain'.first[c] = chain.first[c]
    <3>1. CASE Deploy(b)
      BY <1>2, <3>1 DEF Deploy
    <3>2. ASSUME NEW pair \in Pairs, PlaceOrder(b, pair)
          PROVE  <2>1!:
      BY <1>2, <3>2 DEF PlaceOrder
    <3>3. QED
      BY <1>12, <3>1, <3>2
  <2>2. Cache' /\ Stable
    BY <1>3, <2>1
  <2>3. ASSUME NEW c \in Brackets
        PROVE  RowOK(c)'
    <3>1. row[c].pair # NoPair => chain'.first[c] = chain.first[c]
      BY <1>1, <2>1 DEF Rows, RowOK
    <3>2. QED
      BY <1>1, <1>2, <2>1, <2>2, <3>1, RowStays
  <2>4. Rows'
    BY <2>3 DEF Rows
  <2>5. Found'
    BY <1>1, <2>1, FoundStays
  <2>6. TypeOK'
    BY <1>2, <2>1, <2>2 DEF TypeOK, Cache
  <2>7. QED
    BY <2>2, <2>4, <2>5, <2>6 DEF IInv, Cache
<1>13. CASE UNCHANGED vars
  BY <1>1, <1>13 DEF vars, IInv, TypeOK, TokensTypeOK, Counts, Rows, RowOK, Found, TokenIdsOf
<1>14. QED
  BY <1>5, <1>6, <1>7, <1>8, <1>9, <1>10, <1>11, <1>12, <1>13 DEF Next, ScriptStep
-----------------------------------------------------------------------------
LEMMA IInvAgreement == IInv => CallersAgree
<1> SUFFICES ASSUME IInv, NEW b \in script.found, NEW c \in script.found, SameTokens(b, c),
                    row[b].pc = "done", row[c].pc = "failed"
             PROVE  FALSE
  BY DEF CallersAgree
<1>1. b \in Brackets /\ c \in Brackets
  BY BracketsAssumption DEF IInv, Found
<1>2. RowOK(b) /\ RowOK(c)
  BY <1>1 DEF IInv, Rows
<1>3. /\ row[b].pair # NoPair /\ row[b].pair \in Pairs
      /\ TokenIdsOf(row[b].pair) = TokenIdsOf(row[c].pair)
  BY <1>1 DEF SameTokens, IInv, TypeOK
<1>4. row[c].pair # NoPair
  <2>1. row[b].pair[1] \in TokenIdsOf(row[c].pair)
    BY <1>3, PairIds
  <2>2. QED
    BY <2>1 DEF TokenIdsOf, NoPair
<1>5. PICK id \in TokenIdsOf(row[c].pair) : fromId[id].state = "failed"
  BY <1>2, <1>4 DEF RowOK
<1>6. QED
  BY <1>2, <1>3, <1>5 DEF RowOK

LEMMA IInvFileIsComplete == IInv => FileIsComplete
BY BracketsAssumption DEF IInv, FileIsComplete, Found, Rows, RowOK

(* The callbacks and the cache only ever have the values they should.      *)
THEOREM TypesAreRight == Spec => []TypeOK
<1>1. IInv => TypeOK
  BY DEF IInv
<1>2. QED
  BY <1>1, InitIInv, StepIInv, PTL DEF Spec

(* However many brackets trade a token and however their callbacks         *)
(* interleave, the node is asked for it once.                              *)
THEOREM EachTokenIsLookedUpOnce == Spec => []OneLookupPerToken
<1>1. IInv => OneLookupPerToken
  BY DEF IInv, Counts, OneLookupPerToken
<1>2. QED
  BY <1>1, InitIInv, StepIInv, PTL DEF Spec

(* Of two brackets whose orders were read and that trade the same tokens   *)
(* never one gets its tokens and the other an error, also if the orders of *)
(* other brackets cannot be read.                                          *)
THEOREM CallersOfATokenAgree == Spec => []CallersAgree
  BY InitIInv, StepIInv, IInvAgreement, PTL DEF Spec

(* The file lists every bracket there was when the script started, of both *)
(* factories, with the pair it trades.                                     *)
THEOREM FileListsAllBrackets == Spec => []FileIsComplete
  BY InitIInv, StepIInv, IInvFileIsComplete, PTL DEF Spec
-----------------------------------------------------------------------------
(***************************************************************************)
(* What callbacks wait for.                                                *)
(***************************************************************************)
(* The node still owes an answer about a token, or about what an id stands *)
(* for, or the promise of the id has only to take over an outcome.         *)
TokenIsLookedUp(t) ==
    \/ fromAddress[t].state = "asked"
    \/ fromAddress[t].state = "details" /\ fromAddress[t].open # {}

IdIsLookedUp(i) ==
    \/ fromId[i].state = "asked"
    \/ /\ fromId[i].state = "details"
       /\ Settled(fromAddress[TokenAt[i]]) \/ TokenIsLookedUp(TokenAt[i])

(* A callback waits for the tokens of its bracket's order.                 *)
Waiting(b) == row[b].pc \in {"sell", "buy"}

NobodyWaitsInVain ==
    \A b \in Brackets : Waiting(b) =>
        \A id \in TokenIdsOf(row[b].pair) : Settled(fromId[id]) \/ IdIsLookedUp(id)

(* The inductive invariant: a lookup that goes on waits for something, and *)
(* who waits has asked.                                                    *)
LookupsGoOn ==
    /\ \A t \in Tokens : fromAddress[t].state = "details" => fromAddress[t].open # {}
    /\ \A i \in Ids : fromId[i].state = "details" => fromAddress[TokenAt[i]].state # "none"

WaitersAsked ==
    \A b \in Brackets : Waiting(b) =>
        \A id \in TokenIdsOf(row[b].pair) : fromId[id].state # "none"

WInv == IInv /\ LookupsGoOn /\ WaitersAsked

(* Nobody withdraws a question.                                            *)
StaysAsked ==
    /\ \A t \in Tokens : fromAddress[t].state # "none" => fromAddress'[t].state # "none"
    /\ \A i \in Ids : fromId[i].state # "none" => fromId'[i].state # "none"

LEMMA AskForIds ==
    ASSUME IInv, LookupsGoOn, NEW asked, asked \in SUBSET Ids, FetchFromExchange(asked)
    PROVE  LookupsGoOn' /\ StaysAsked /\ \A id \in asked : fromId'[id].state # "none"
<1> DEFINE missing == MissingOf(fromId, asked)
<1>1. fromId \in [Ids -> Promises]
  BY DEF IInv, TypeOK, TokensTypeOK
<1>2. missing = {i \in asked : fromId[i].state = "none"}
  BY DEF MissingOf
<1>3. fromId' = WithAsked(fromId, missing) /\ fromAddress' = fromAddress
  BY DEF FetchFromExchange
<1> HIDE DEF missing
<1>4. \A i \in Ids : fromId'[i] = IF i \in missing THEN Asked ELSE fromId[i]
  BY <1>1, <1>2, <1>3, AskingMissing
<1>5. Asked.state = "asked"
  BY DEF Asked
<1>6. /\ \A i \in Ids : fromId'[i].state = "details" => fromId[i].state = "details"
      /\ \A i \in Ids : fromId[i].state # "none" => fromId'[i].state # "none"
      /\ \A i \in asked : fromId'[i].state # "none"
  BY <1>2, <1>4, <1>5
<1>7. QED
  BY <1>3, <1>6 DEF LookupsGoOn, StaysAsked

LEMMA TokenLookupGoesOn ==
    ASSUME IInv, LookupsGoOn, NEW t \in Tokens, AnswerForToken(t)
    PROVE  LookupsGoOn' /\ StaysAsked
<1>1. fromAddress \in [Tokens -> Promises]
  BY DEF IInv, TypeOK, TokensTypeOK
<1>2. \E p \in Promises :
         /\ fromAddress' = [fromAddress EXCEPT ![t] = p] /\ fromId' = fromId
         /\ p.state # "none" /\ (p.state = "details" => p.open # {})
  <2>1. CASE ContractFound(t)
    BY <2>1, PromiseTypes DEF ContractFound, Known, Methods
  <2>2. CASE AddressFails(t)
    BY <2>2, PromiseTypes DEF AddressFails, Failed
  <2>3. ASSUME NEW m \in Methods, DetailAnswered(t, m)
        PROVE  <1>2!:
    <3> DEFINE q == WithoutDetail(fromAddress[t], m)
    <3>1. q \in Promises
      BY <1>1, PromiseTypes DEF WithoutDetail
    <3>2. q.state # "none"
      BY <1>1, <2>3 DEF DetailAnswered, WithoutDetail, Known, Promises
    <3>3. q.state = "details" => q.open # {}
      BY <1>1, <2>3 DEF DetailAnswered, WithoutDetail, Known, Promises
    <3>4. fromAddress' = [fromAddress EXCEPT ![t] = q] /\ fromId' = fromId
      BY <2>3 DEF DetailAnswered
    <3> HIDE DEF q
    <3>5. QED
      BY <3>1, <3>2, <3>3, <3>4
  <2>4. QED
    BY <2>1, <2>2, <2>3 DEF AnswerForToken
<1>3. /\ \A u \in Tokens : fromAddress[u].state # "none" => fromAddress'[u].state # "none"
      /\ \A u \in Tokens : fromAddress'[u].state = "details" => fromAddress'[u].open # {}
      /\ fromId' = fromId
  BY <1>1, <1>2 DEF LookupsGoOn
<1>4. \A i \in Ids : TokenAt[i] \in Tokens
  BY TokensAssumption
<1>5. QED
  BY <1>3, <1>4 DEF LookupsGoOn, StaysAsked

LEMMA IdLookupGoesOn ==
    ASSUME IInv, LookupsGoOn, NEW i \in Ids, AnswerForId(i)
    PROVE  LookupsGoOn' /\ StaysAsked
<1>1. /\ fromAddress \in [Tokens -> Promises] /\ fromId \in [Ids -> Promises]
      /\ \A j \in Ids : TokenAt[j] \in Tokens
  BY TokensAssumption DEF IInv, TypeOK, TokensTypeOK
<1>2. CASE IdMapped(i)
  <2> DEFINE missing == MissingOf(fromAddress, {TokenAt[i]})
             d == [state |-> "details", open |-> Methods]
  <2>1. missing = {t \in {TokenAt[i]} : fromAddress[t].state = "none"}
    BY DEF MissingOf
  <2>2. fromId' = [fromId EXCEPT ![i] = d] /\ fromAddress' = WithAsked(fromAddress, missing)
    BY <1>2 DEF IdMapped, FetchAtAddresses
  <2>3. d.state = "details" /\ Asked.state = "asked"
    BY DEF Asked
  <2> HIDE DEF missing, d
  <2>4. \A t \in Tokens : fromAddress'[t] = IF t \in missing THEN Asked ELSE fromAddress[t]
    BY <1>1, <2>1, <2>2, AskingMissing
  <2>5. /\ \A t \in Tokens : fromAddress[t].state # "none" => fromAddress'[t].state # "none"
        /\ \A t \in Tokens : fromAddress'[t].state = "details" => fromAddress'[t] = fromAddress[t]
        /\ fromAddress'[TokenAt[i]].state # "none"
    BY <1>1, <2>1, <2>3, <2>4
  <2>6. \A j \in Ids : fromId'[j] = IF j = i THEN d ELSE fromId[j]
    BY <1>1, <2>2
  <2>7. QED
    BY <1>1, <2>3, <2>5, <2>6 DEF LookupsGoOn, StaysAsked
<1>3. CASE IdUnmapped(i) \/ IdSettles(i)
  <2>1. \E p : /\ fromId' = [fromId EXCEPT ![i] = p] /\ fromAddress' = fromAddress
               /\ p.state \in {"known", "failed"}
    <3>1. CASE IdUnmapped(i)
      <4>1. Failed.state = "failed"
        BY DEF Failed
      <4>2. QED
        BY <3>1, <4>1 DEF IdUnmapped
    <3>2. CASE IdSettles(i)
      BY <3>2 DEF IdSettles, Settled
    <3>3. QED
      BY <1>3, <3>1, <3>2
  <2>2. \A j \in Ids : fromId'[j] = fromId[j] \/ fromId'[j].state \in {"known", "failed"}
    BY <1>1, <2>1
  <2>3. QED
    BY <2>1, <2>2 DEF LookupsGoOn, StaysAsked
<1>4. QED
  BY <1>2, <1>3 DEF AnswerForId

(* Callbacks that only go on waiting, or stop to.                          *)
LEMMA WaitersStay ==
    ASSUME IInv, WaitersAsked, StaysAsked, NEW b \in Brackets,
           row'[b].pair = row[b].pair, row'[b].pc \in {"sell", "buy"} => Waiting(b)
    PROVE  Waiting(b)' => \A id \in TokenIdsOf(row'[b].pair) : fromId'[id].state # "none"
<1>1. Waiting(b) => row[b].pair \in Pairs
  BY DEF IInv, TypeOK, Waiting
<1>2. Waiting(b) => \A id \in TokenIdsOf(row[b].pair) : fromId'[id].state # "none"
  BY <1>1, PairIds DEF WaitersAsked, StaysAsked
<1>3. TokenIdsOf(row'[b].pair) = TokenIdsOf(row[b].pair)
  OBVIOUS
<1>4. QED
  BY <1>2, <1>3 DEF Waiting

LEMMA InitWInv == Init => WInv
<1> SUFFICES ASSUME Init PROVE WInv
  OBVIOUS
<1>1. LookupsGoOn
  BY TokensAssumption DEF Init, TokensInit, NoPromise, LookupsGoOn
<1>2. WaitersAsked
  BY DEF Init, WaitersAsked, Waiting
<1>3. QED
  BY <1>1, <1>2, InitIInv DEF WInv

LEMMA StepWInv == WInv /\ [Next]_vars => WInv'
<1> SUFFICES ASSUME WInv, [Next]_vars PROVE WInv'
  OBVIOUS
<1>1. /\ IInv /\ LookupsGoOn /\ WaitersAsked /\ IInv'
      /\ row \in [Brackets -> [pc : {"orders", "sell", "buy", "done", "failed"},
                               pair : Pairs \cup {NoPair}]]
      /\ chain.first \in [Brackets -> Pairs \cup {NoPair}]
  BY StepIInv DEF WInv, IInv, TypeOK
<1>2. ASSUME UNCHANGED tokenVars
      PROVE  LookupsGoOn' /\ StaysAsked
  BY <1>1, <1>2 DEF tokenVars, LookupsGoOn, StaysAsked
<1>3. ASSUME StaysAsked, UNCHANGED row
      PROVE  WaitersAsked'
  <2>1. ASSUME NEW b \in Brackets
        PROVE  Waiting(b)' => \A id \in TokenIdsOf(row'[b].pair) : fromId'[id].state # "none"
    BY <1>1, <1>3, WaitersStay DEF Waiting
  <2>2. QED
    BY <2>1 DEF WaitersAsked
<1>4. CASE UNCHANGED <<row, tokenVars>>
  BY <1>1, <1>2, <1>3, <1>4 DEF WInv
<1>5. ASSUME NEW b \in Brackets, ReadOrders(b)
      PROVE  WInv'
  <2> DEFINE pair == chain.first[b]
  <2>1. pair \in Pairs \cup {NoPair}
    BY <1>1
  <2>2. CASE pair = NoPair
    <3>1. row' = [row EXCEPT ![b].pc = "done"] /\ UNCHANGED tokenVars
      BY <1>5, <2>2 DEF ReadOrders
    <3>2. \A c \in Brackets : /\ row'[c].pair = row[c].pair
                              /\ row'[c].pc \in {"sell", "buy"} => row'[c].pc = row[c].pc
      BY <1>1, <3>1
    <3>3. LookupsGoOn' /\ StaysAsked
      BY <1>2, <3>1
    <3>4. ASSUME NEW c \in Brackets
          PROVE  Waiting(c)' => \A id \in TokenIdsOf(row'[c].pair) : fromId'[id].state # "none"
      BY <1>1, <3>2, <3>3, WaitersStay DEF Waiting
    <3>5. QED
      BY <1>1, <3>3, <3>4 DEF WInv, WaitersAsked
  <2>3. CASE pair # NoPair
    <3>1. /\ row' = [row EXCEPT ![b] = [pc |-> "sell", pair |-> pair]] /\ pair \in Pairs
          /\ FetchFromExchange(TokenIdsOf(pair))
      BY <1>5, <2>1, <2>3 DEF ReadOrders
    <3>2. /\ LookupsGoOn' /\ StaysAsked
          /\ \A id \in TokenIdsOf(pair) : fromId'[id].state # "none"
      BY <1>1, <3>1, PairIds, AskForIds
    <3>3. row'[b].pair = pair /\ \A c \in Brackets \ {b} : row'[c] = row[c]
      BY <1>1, <3>1
    <3>4. ASSUME NEW c \in Brackets \ {b}
          PROVE  Waiting(c)' => \A id \in TokenIdsOf(row'[c].pair) : fromId'[id].state # "none"
      BY <1>1, <3>2, <3>3, WaitersStay DEF Waiting
    <3>5. \A id \in TokenIdsOf(row'[b].pair) : fromId'[id].state # "none"
      BY <3>2, <3>3
    <3>6. QED
      BY <1>1, <3>2, <3>4, <3>5 DEF WInv, WaitersAsked
  <2>4. QED
    BY <2>2, <2>3
<1>6. ASSUME NEW b \in Brackets, OrdersRefused(b) \/ AwaitSellToken(b) \/ AwaitBuyToken(b)
      PROVE  WInv'
  <2>1. /\ UNCHANGED tokenVars
        /\ \E pc : /\ row' = [row EXCEPT ![b].pc = pc]
                   /\ pc \in {"sell", "buy"} => Waiting(b)
    BY <1>6 DEF OrdersRefused, AwaitSellToken, AwaitBuyToken, AwaitToken, RowAt, Waiting
  <2>2. \A c \in Brackets : /\ row'[c].pair = row[c].pair
                            /\ row'[c].pc \in {"sell", "buy"} => Waiting(c)
    BY <1>1, <2>1 DEF Waiting
  <2>3. LookupsGoOn' /\ StaysAsked
    BY <1>2, <2>1
  <2>4. ASSUME NEW c \in Brackets
        PROVE  Waiting(c)' => \A id \in TokenIdsOf(row'[c].pair) : fromId'[id].state # "none"
    BY <1>1, <2>2, <2>3, WaitersStay
  <2>5. QED
    BY <1>1, <2>3, <2>4 DEF WInv, WaitersAsked
<1>7. CASE Answer
  <2>1. LookupsGoOn' /\ StaysAsked
    BY <1>1, <1>7, TokenLookupGoesOn, IdLookupGoesOn DEF Answer
  <2>2. QED
    BY <1>1, <1>3, <1>7, <2>1 DEF Answer, WInv
<1>8. CASE \/ ReadFactoryEvents \/ ReadDeterministicEvents \/ EventsRefused \/ WriteFile \/ Fail
           \/ \E b \in Brackets : Deploy(b)
           \/ \E b \in Brackets, pair \in Pairs : PlaceOrder(b, pair)
           \/ UNCHANGED vars
  BY <1>4, <1>8 DEF ReadFactoryEvents, ReadDeterministicEvents, EventsRefused, WriteFile, Fail,
                    Deploy, PlaceOrder, vars, tokenVars
<1>9. QED
  BY <1>5, <1>6, <1>7, <1>8 DEF Next, ScriptStep

LEMMA WInvNobodyWaits == WInv => NobodyWaitsInVain
<1> SUFFICES ASSUME WInv, NEW b \in Brackets, Waiting(b), NEW id \in TokenIdsOf(row[b].pair)
             PROVE  Settled(fromId[id]) \/ IdIsLookedUp(id)
  BY DEF NobodyWaitsInVain
<1>1. fromAddress \in [Tokens -> Promises] /\ fromId \in [Ids -> Promises]
  BY DEF WInv, IInv, TypeOK, TokensTypeOK
<1>2. row[b].pair \in Pairs
  BY DEF WInv, IInv, TypeOK, Waiting
<1>3. id \in Ids /\ TokenAt[id] \in Tokens
  BY <1>2, PairIds, TokensAssumption
<1>4. fromId[id].state \in {"asked", "details", "known", "failed"}
  BY <1>1, <1>3 DEF WInv, WaitersAsked, Promises
<1>5. \A t \in Tokens : fromAddress[t].state \in {"none", "asked", "details", "known", "failed"}
  BY <1>1 DEF Promises
<1>6. fromId[id].state = "details" => Settled(fromAddress[TokenAt[id]]) \/ TokenIsLookedUp(TokenAt[id])
  BY <1>3, <1>5 DEF WInv, LookupsGoOn, Settled, TokenIsLookedUp
<1>7. QED
  BY <1>4, <1>6 DEF Settled, IdIsLookedUp

(* Whoever waits for a token waits for an answer of the node: a promise    *)
(* that callbacks share and that is not settled has a lookup going on, by  *)
(* whomever it was started and in whatever order answers arrive.  This is  *)
(* why the script ends if the node answers or refuses every call.          *)
THEOREM NoCallbackWaitsInVain == Spec => []NobodyWaitsInVain
  BY InitWInv, StepWInv, WInvNobodyWaits, PTL DEF Spec
=============================================================================
